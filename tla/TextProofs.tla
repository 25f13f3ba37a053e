------------------------------ MODULE TextProofs ------------------------------
(***************************************************************************)
(* The windows and the chunks of a long text, the claims of an answer and  *)
(* the layout of a page: theorems of Screening and Anchoring.              *)
(***************************************************************************)
EXTENDS Screening, Anchoring, FoldProofs

(***************************************************************************)
(* Windows: one after the other to the end of the text.                    *)
(***************************************************************************)
\* A text of characters that each take up to WidestChar bytes.
Encoded(t) ==
    /\ Len(t) \in Nat /\ DOMAIN t = 1..Len(t) /\ t \in Seq(Range(t))
    /\ \A i \in DOMAIN t : t[i].bytes \in 0..WidestChar

\* What sums up w over the sets of elements of D, none of them more than limit.
Sums(sum, D, pick, w, limit) ==
    /\ IsFiniteSet(D) /\ limit \in Nat /\ \A x \in D : w[x] \in 0..limit
    /\ sum[{}] = 0
    /\ \A s \in SUBSET D : s # {} => /\ pick[s] \in s
                                    /\ sum[s] = sum[s \ {pick[s]}] + w[pick[s]]

\* A sum is no more than its number of terms times the limit.
LEMMA SumsAreBounded ==
    ASSUME NEW sum, NEW D, NEW pick, NEW w, NEW limit, Sums(sum, D, pick, w, limit)
    PROVE  sum[D] \in Nat /\ sum[D] <= limit * Cardinality(D)
<1> DEFINE Good == {s \in SUBSET D : sum[s] \in Nat /\ sum[s] <= limit * Cardinality(s)}
<1>1. IsFiniteSet(D) /\ \A s \in SUBSET D : s # {} => pick[s] \in s
      BY DEF Sums
<1>2. ASSUME NEW s \in SUBSET D, s # {}, s \ {pick[s]} \in Good PROVE s \in Good
  <2> DEFINE x == pick[s]
             rest == s \ {x}
             c == Cardinality(rest)
             bytes == w[x]
             before == sum[rest]
  <2>1. x \in s /\ x \in D /\ sum[s] = before + bytes
        BY <1>2 DEF Sums
  <2>2. IsFiniteSet(s) /\ Cardinality(s) \in Nat
        BY <1>1, FS_Subset, FS_CardinalityType
  <2>3. c = Cardinality(s) - 1
    <3> HIDE DEF x
    <3>1. QED
          BY <2>1, <2>2, FS_RemoveElement
  <2>4. c \in Nat
        BY <1>1, FS_Subset, FS_CardinalityType
  <2>5. before \in Nat /\ before <= limit * c
        BY <1>2
  <2>6. bytes \in Nat /\ bytes <= limit /\ limit \in Nat
        BY <2>1 DEF Sums
  <2> HIDE DEF x, rest, c, bytes, before
  <2>7. limit * (c + 1) = limit * c + limit /\ limit * c \in Nat
        BY <2>4, <2>6
  <2>8. Cardinality(s) = c + 1
        BY <2>2, <2>3
  <2>9. QED
        BY <2>1, <2>5, <2>6, <2>7, <2>8
<1>3. {} \in Good
      BY FS_EmptySet DEF Sums
<1>4. \A s \in SUBSET D : s # {} /\ s \ {pick[s]} \in Good => s \in Good
      BY <1>2
<1>5. \A s \in SUBSET D : s \in Good
  <2> HIDE DEF Good
  <2>1. QED
        BY <1>1, <1>3, <1>4, PeelingReaches
<1>6. QED
      BY <1>5

\* Whichever element is taken out, a sum is that of the rest and its share.
LEMMA SumsTakeApart ==
    ASSUME NEW sum, NEW D, NEW pick, NEW w, NEW limit, Sums(sum, D, pick, w, limit),
           NEW S \in SUBSET D, NEW z \in S
    PROVE  sum[S] \in Nat /\ sum[S] = sum[S \ {z}] + w[z]
<1> DEFINE Apart(s) == sum[s] \in Nat /\ \A x \in s : sum[s] = sum[s \ {x}] + w[x]
           Bad == {s \in SUBSET D : ~ Apart(s)}
           Sizes == {Cardinality(s) : s \in Bad}
<1>1. /\ IsFiniteSet(D) /\ \A x \in D : w[x] \in Nat
      /\ sum[{}] = 0
      /\ \A s \in SUBSET D : s # {} => pick[s] \in s /\ sum[s] = sum[s \ {pick[s]}] + w[pick[s]]
      BY DEF Sums
<1>2. ASSUME NEW s \in SUBSET D
      PROVE  /\ IsFiniteSet(s) /\ Cardinality(s) \in Nat
             /\ \A x \in s : Cardinality(s \ {x}) = Cardinality(s) - 1
      BY <1>1, FS_Subset, FS_CardinalityType, FS_RemoveElement
<1>3. ASSUME Bad # {} PROVE FALSE
  <2>1. Sizes \in SUBSET Nat /\ Sizes # {}
        BY <1>2, <1>3
  <2>2. PICK n \in Sizes : \A m \in Sizes : n <= m
    <3> HIDE DEF Sizes
    <3>1. QED
          BY <2>1, LeastNatural
  <2>3. PICK s \in Bad : n = Cardinality(s)
        BY <2>2
  <2>4. s \in SUBSET D
        OBVIOUS
  <2>5. \A x \in s : Apart(s \ {x})
    <3> SUFFICES ASSUME NEW x \in s, ~Apart(s \ {x}) PROVE FALSE
        OBVIOUS
    <3> DEFINE r == s \ {x}
    <3>1. r \in Bad /\ Cardinality(r) = n - 1 /\ n \in Nat
          BY <1>2, <2>3, <2>4
    <3>2. Cardinality(r) \in Sizes
          BY <3>1
    <3> HIDE DEF Sizes, Bad, r
    <3>3. n <= Cardinality(r)
          BY <2>2, <3>2
    <3>4. QED
          BY <3>1, <3>3
  <2>6. CASE s = {}
        BY <1>1, <2>6
  <2>7. CASE s # {}
    <3> DEFINE y == pick[s]
               r == s \ {y}
    <3>1. y \in s /\ y \in D /\ sum[s] = sum[r] + w[y]
          BY <1>1, <2>4, <2>7
    <3>2. Apart(r)
          BY <2>5, <3>1
    <3>3. sum[s] \in Nat
          BY <1>1, <3>1, <3>2
    <3>4. ASSUME NEW x \in s PROVE sum[s] = sum[s \ {x}] + w[x]
      <4>1. CASE x = y
            BY <3>1, <4>1
      <4>2. CASE x # y
        <5>1. x \in r /\ sum[r] = sum[r \ {x}] + w[x]
              BY <3>2, <4>2
        <5>2. y \in s \ {x} /\ Apart(s \ {x})
              BY <2>5, <3>1, <4>2
        <5>3. sum[s \ {x}] = sum[(s \ {x}) \ {y}] + w[y]
              BY <5>2
        <5>4. (s \ {x}) \ {y} = r \ {x}
              OBVIOUS
        <5> DEFINE rest == sum[r \ {x}]
        <5>5. rest \in Nat /\ w[x] \in Nat /\ w[y] \in Nat
          <6>1. r \ {x} = {} \/ r \ {x} # {}
                OBVIOUS
          <6>2. Apart(s \ {x})
                BY <5>2
          <6>3. sum[s \ {x}] = rest + w[y] /\ sum[s \ {x}] \in Nat
                BY <5>3, <5>4, <6>2
          <6>4. rest \in Nat
            <7>1. CASE r \ {x} = {}
              <8> DEFINE q == r \ {x}
              <8> HIDE DEF q
              <8>1. q = {} /\ sum[{}] = 0
                    BY <1>1, <7>1 DEF q
              <8>2. sum[q] = 0
                    BY <8>1, Zenon
              <8>3. QED
                    BY <8>2 DEF q
            <7>2. CASE r \ {x} # {}
              <8>1. r \ {x} \notin Bad
                <9>1. Cardinality(r \ {x}) = Cardinality(s) - 2 /\ r \ {x} \in SUBSET D
                  <10>1. Cardinality(r) = Cardinality(s) - 1 /\ r \in SUBSET D
                         BY <1>2, <2>4, <3>1
                  <10>2. Cardinality(r \ {x}) = Cardinality(r) - 1
                    <11> HIDE DEF r
                    <11>1. QED
                           BY <1>2, <5>1, <10>1
                  <10>3. Cardinality(s) \in Nat
                         BY <1>2, <2>4
                  <10>4. QED
                         BY <10>1, <10>2, <10>3
                <9> DEFINE q == r \ {x}
                <9> HIDE DEF q, Bad, Sizes
                <9>2. q \in Bad => n <= Cardinality(q)
                      BY <2>2 DEF Sizes
                <9>3. Cardinality(q) = n - 2 /\ n \in Nat
                      BY <1>2, <2>3, <2>4, <9>1 DEF q
                <9>4. QED
                      BY <9>2, <9>3 DEF q
              <8>2. r \ {x} \in SUBSET D
                    BY <2>4
              <8>3. QED
                    BY <8>1, <8>2
            <7>3. QED
                  BY <7>1, <7>2
          <6>5. QED
                BY <1>1, <2>4, <3>1, <6>4
        <5> HIDE DEF rest
        <5>6. QED
              BY <3>1, <5>1, <5>3, <5>4, <5>5 DEF rest
      <4>3. QED
            BY <4>1, <4>2
    <3>5. QED
          BY <2>3, <3>3, <3>4
  <2>8. QED
        BY <2>6, <2>7
<1>4. Apart(S)
      BY <1>3
<1>5. QED
      BY <1>4

\* What the bytes of a piece are, as a sum over its n characters.
PieceSum(sum, pick, w, t, i, n) ==
    /\ Sums(sum, 1..n, pick, w, WidestChar)
    /\ \A x \in 1..n : w[x] = t[x + i - 1].bytes

\* The size of a piece is such a sum.
LEMMA BytesAreASum ==
    ASSUME NEW t, Encoded(t), NEW i \in Nat \ {0}, NEW j \in Nat, j <= Len(t), i <= j + 1
    PROVE  \E sum, pick, w : /\ PieceSum(sum, pick, w, t, i, j - i + 1)
                            /\ Bytes(t, i, j) = sum[1..(j - i + 1)]
<1> DEFINE k == j - i + 1
           piece == SubSeq(t, i, j)
           D == DOMAIN piece
           first(s) == CHOOSE x \in s : TRUE
           pick == [s \in SUBSET D |-> first(s)]
           op == [kv \in D \X Nat |-> kv[2] + piece[kv[1]].bytes]
           Body(f) == [s \in SUBSET D |-> IF s = {} THEN 0
                                          ELSE f[s \ {first(s)}] + piece[first(s)].bytes]
           read == CHOOSE f : f = Body(f)
<1>1. D = 1..k /\ k \in Nat /\ \A x \in D : piece[x] = t[x + i - 1]
  <2>1. k \in Nat
        OBVIOUS
  <2>2. Len(t) \in Nat /\ t \in Seq(Range(t))
        BY DEF Encoded
  <2>3. QED
        BY <2>1, <2>2
<1>2. \A x \in D : piece[x].bytes \in Nat /\ piece[x].bytes <= WidestChar
  <2>1. \A x \in D : x + i - 1 \in DOMAIN t
        BY <1>1 DEF Encoded
  <2>2. WidestChar \in Nat
        BY SplitAssumption
  <2> HIDE DEF D, piece
  <2>3. ASSUME NEW x \in D PROVE piece[x].bytes \in 0..WidestChar
        BY <1>1, <2>1 DEF Encoded
  <2>4. QED
        BY <2>2, <2>3
<1>3. Bytes(t, i, j) = read[D]
      BY Zenon DEF Bytes, FoldSeq, FoldFunction, FoldFunctionOnSet, MapThenFoldSet
<1> HIDE DEF piece, k
<1>4. IsFiniteSet(D) /\ Cardinality(D) = k
      BY <1>1, FS_Interval
<1> HIDE DEF D
<1>5. ASSUME NEW s \in SUBSET D, s # {} PROVE pick[s] = first(s) /\ pick[s] \in s
      BY <1>5
<1>6. op \in [D \X Nat -> Nat]
      BY <1>2
<1>7. PICK f \in [SUBSET D -> Nat] : Folds(f, D, pick, 0, op)
  <2> HIDE DEF pick, op
  <2>1. \A s \in SUBSET D : s # {} => pick[s] \in s
        BY <1>5
  <2>2. QED
        BY <1>4, <1>6, <2>1, FoldExists
<1>8. f = Body(f)
  <2>1. ASSUME NEW s \in SUBSET D, s # {}
        PROVE  op[<<pick[s], f[s \ {pick[s]}]>>] = f[s \ {first(s)}] + piece[first(s)].bytes
    <3>1. pick[s] = first(s) /\ pick[s] \in D /\ f[s \ {pick[s]}] \in Nat
          BY <1>5, <2>1
    <3> HIDE DEF pick, first
    <3>2. QED
          BY <3>1
  <2> HIDE DEF pick, op, first
  <2>2. QED
        BY <1>7, <2>1 DEF Folds
<1>9. read = Body(read)
  <2> HIDE DEF Body
  <2>1. QED
        BY <1>8
<1> DEFINE w == [x \in D |-> piece[x].bytes]
<1>10. Sums(read, D, pick, w, WidestChar)
  <2>1. ASSUME NEW s \in SUBSET D, s # {}
        PROVE  pick[s] \in s /\ read[s] = read[s \ {pick[s]}] + w[pick[s]]
    <3>1. pick[s] = first(s) /\ pick[s] \in s /\ w[first(s)] = piece[first(s)].bytes
          BY <1>5, <2>1
    <3>2. read[s] = read[s \ {first(s)}] + piece[first(s)].bytes
      <4> HIDE DEF read, first
      <4>1. QED
            BY <1>9, <2>1
    <3> HIDE DEF read, pick, first, w
    <3>3. QED
          BY <3>1, <3>2
  <2>2. read[{}] = 0
    <3> HIDE DEF read
    <3>1. QED
          BY <1>9
  <2>3. WidestChar \in Nat
        BY SplitAssumption
  <2>4. \A x \in D : w[x] \in 0..WidestChar
        BY <1>2, <2>3
  <2> HIDE DEF read, pick, w
  <2>5. QED
        BY <1>4, <2>1, <2>2, <2>3, <2>4 DEF Sums
<1>11. \A x \in D : w[x] = t[x + i - 1].bytes
       BY <1>1
<1>12. D = 1..(j - i + 1)
       BY <1>1 DEF k
<1>13. PieceSum(read, pick, w, t, i, j - i + 1) /\ Bytes(t, i, j) = read[1..(j - i + 1)]
  <2> HIDE DEF read, pick, w
  <2>1. QED
        BY <1>3, <1>10, <1>11, <1>12 DEF PieceSum
<1> HIDE DEF read, pick, w
<1>14. QED
       BY <1>13

\* A piece of n characters takes no more than n of the widest.
LEMMA BytesAreBounded ==
    ASSUME NEW t, Encoded(t), NEW i \in Nat \ {0}, NEW j \in Nat, j <= Len(t), i <= j + 1
    PROVE  Bytes(t, i, j) \in Nat /\ Bytes(t, i, j) <= WidestChar * (j - i + 1)
<1> DEFINE n == j - i + 1
           D == 1..n
<1>1. n \in Nat /\ Len(t) \in Nat
      BY DEF Encoded
<1>2. PICK sum, pick, w : PieceSum(sum, pick, w, t, i, n) /\ Bytes(t, i, j) = sum[D]
      BY BytesAreASum
<1> HIDE DEF n
<1>3. Sums(sum, D, pick, w, WidestChar)
      BY <1>2 DEF PieceSum
<1>4. Cardinality(D) = n
      BY <1>1, FS_Interval
<1>5. sum[D] \in Nat /\ sum[D] <= WidestChar * Cardinality(D)
  <2> HIDE DEF D
  <2>1. QED
        BY <1>3, SumsAreBounded
<1>6. QED
      BY <1>2, <1>4, <1>5 DEF n

\* The greater of two numbers.
LEMMA GreaterOfTwo ==
    ASSUME NEW a \in Nat, NEW b \in Nat
    PROVE  Max({a, b}) = IF a >= b THEN a ELSE b
<1> DEFINE S == {a, b}
           n == IF a >= b THEN a ELSE b
<1>1. n \in Nat /\ S \in SUBSET (0..n) /\ S # {}
      OBVIOUS
<1>2. Max(S) \in S /\ \A y \in S : Max(S) >= y
  <2> HIDE DEF S, n
  <2>1. QED
        BY <1>1, GreatestIsThere
<1>3. QED
      BY <1>2

\* The last character of the window that starts with character s.
End(t, s) == Max({s, Reach(t, s, WindowBytes)})

\* A window holds one character more than the overlap, unless the text ends.
LEMMA WindowsHoldEnough ==
    ASSUME NEW t, Encoded(t), NEW s \in 1..Len(t)
    PROVE  End(t, s) \in s..Len(t) /\ (End(t, s) < Len(t) => End(t, s) >= s + Overlap)
<1> DEFINE L == Len(t)
           S == {s - 1} \cup {j \in s..L : Bytes(t, s, j) <= WindowBytes}
           reach == Max(S)
<1>1. L \in Nat
      BY DEF Encoded
<1>2. Overlap \in Nat /\ WidestChar \in Nat /\ WindowBytes \in Nat
      BY SplitAssumption
<1>3. S \in SUBSET (0..L) /\ S # {}
      BY <1>1
<1>4. reach \in S /\ \A y \in S : reach >= y
  <2> HIDE DEF S, L
  <2>1. QED
        BY <1>1, <1>3, GreatestIsThere
<1>5. reach \in 0..L /\ reach >= s - 1
      BY <1>3, <1>4
<1>6. End(t, s) = IF s >= reach THEN s ELSE reach
  <2>1. End(t, s) = Max({s, reach})
        BY DEF End, Reach
  <2> HIDE DEF reach
  <2>2. QED
        BY <1>5, <2>1, GreaterOfTwo
<1>7. reach >= s + Overlap \/ reach >= L
  <2> DEFINE j == IF s + Overlap <= L THEN s + Overlap ELSE L
             k == j - s + 1
  <2>1. j \in s..L /\ k \in Nat /\ k <= Overlap + 1
        BY <1>1, <1>2
  <2>2. Bytes(t, s, j) \in Nat /\ Bytes(t, s, j) <= WidestChar * k
    <3>1. s \in Nat \ {0} /\ j \in Nat /\ j <= Len(t) /\ s <= j + 1
          BY <1>1, <2>1
    <3> HIDE DEF j
    <3>2. QED
          BY <3>1, BytesAreBounded
  <2>3. WidestChar * k <= WidestChar * (Overlap + 1)
    <3> HIDE DEF k
    <3>1. QED
          BY <1>2, <2>1
  <2>4. WidestChar * (Overlap + 1) <= WindowBytes
        BY <1>2, SplitAssumption
  <2>5. WidestChar * k \in Nat /\ WidestChar * (Overlap + 1) \in Nat
    <3> HIDE DEF k
    <3>1. QED
          BY <1>2, <2>1
  <2>6. Bytes(t, s, j) <= WindowBytes
    <3> HIDE DEF k, j
    <3>1. QED
          BY <1>2, <2>2, <2>3, <2>4, <2>5
  <2>7. j \in S
        BY <2>1, <2>6
  <2>8. reach >= j
    <3> HIDE DEF S, reach, j
    <3>1. QED
          BY <1>4, <2>7
  <2> HIDE DEF reach
  <2>9. QED
        BY <2>8
<1>8. QED
  <2> HIDE DEF reach, L
  <2>1. QED
        BY <1>1, <1>2, <1>5, <1>6, <1>7 DEF L

\* Windows that reach from character s to the end, and hold every phrase.
Covering(windows, t, s) ==
    /\ windows \in Seq([lo : 1..Len(t), hi : 1..Len(t)]) /\ Len(windows) > 0
    /\ Len(windows) = 1 => windows = <<Span(s, Len(t))>>
    /\ \A lo, hi \in 1..Len(t) :
          s <= lo /\ lo <= hi /\ hi - lo <= Overlap =>
              \E k \in DOMAIN windows : Within(Span(lo, hi), windows[k])

\* One window to the end.
LEMMA LastWindow ==
    ASSUME NEW t, Len(t) \in Nat, NEW s \in 1..Len(t)
    PROVE  Covering(<<Span(s, Len(t))>>, t, s)
<1> DEFINE windows == <<Span(s, Len(t))>>
<1>1. windows[1] = Span(s, Len(t)) /\ DOMAIN windows = {1} /\ Len(windows) = 1
      OBVIOUS
<1>2. Span(s, Len(t)) \in [lo : 1..Len(t), hi : 1..Len(t)]
      BY DEF Span
<1>3. windows \in Seq([lo : 1..Len(t), hi : 1..Len(t)])
      BY <1>2
<1>4. ASSUME NEW lo \in 1..Len(t), NEW hi \in 1..Len(t), s <= lo
      PROVE  Within(Span(lo, hi), windows[1])
      BY <1>1, <1>4 DEF Within, Span
<1> HIDE DEF windows
<1>5. QED
      BY <1>1, <1>3, <1>4 DEF Covering, windows

\* A window, and windows from the next start on.
LEMMA NextWindow ==
    ASSUME NEW t, Len(t) \in Nat, NEW s \in 1..Len(t), NEW best \in s..Len(t), best < Len(t),
           best >= s + Overlap, NEW rest, Covering(rest, t, NextStart(s, best))
    PROVE  /\ NextStart(s, best) \in 1..Len(t) /\ NextStart(s, best) > s
           /\ Covering(<<Span(s, best)>> \o rest, t, s)
<1> DEFINE windows == <<Span(s, best)>> \o rest
           L == Len(t)
           R == [lo : 1..L, hi : 1..L]
           n == Len(rest)
<1>1. Overlap \in Nat \ {0}
      BY SplitAssumption
<1>2. NextStart(s, best) = best - Overlap + 1
  <2> DEFINE a == s + 1
             b == best - Overlap + 1
  <2>1. a \in Nat /\ b \in Nat /\ b >= a
        BY <1>1
  <2>2. NextStart(s, best) = Max({a, b})
        BY DEF NextStart
  <2> HIDE DEF a, b
  <2>3. NextStart(s, best) = b
        BY <2>1, <2>2, GreaterOfTwo
  <2>4. QED
        BY <2>3 DEF b
<1>3. NextStart(s, best) \in 1..L /\ NextStart(s, best) > s
      BY <1>1, <1>2
<1>4. rest \in Seq(R) /\ n \in Nat /\ n > 0 /\ DOMAIN rest = 1..n
  <2>1. rest \in Seq(R) /\ n > 0
        BY DEF Covering
  <2> HIDE DEF R
  <2>2. QED
        BY <2>1
<1>5. Span(s, best) \in R
      BY DEF Span
<1>6. /\ windows \in Seq(R) /\ Len(windows) = n + 1 /\ DOMAIN windows = 1..(n + 1)
      /\ windows[1] = Span(s, best) /\ \A k \in 1..n : windows[k + 1] = rest[k]
  <2> DEFINE w == Span(s, best)
  <2> HIDE DEF R, w
  <2>1. <<w>> \in Seq(R)
        BY <1>5 DEF w
  <2>2. QED
        BY <1>4, <2>1 DEF w
<1> HIDE DEF windows
<1>7. ASSUME NEW lo \in 1..L, NEW hi \in 1..L, s <= lo, lo <= hi, hi - lo <= Overlap
      PROVE  \E k \in DOMAIN windows : Within(Span(lo, hi), windows[k])
  <2>1. CASE hi <= best
    <3>1. Within(Span(lo, hi), windows[1]) /\ 1 \in DOMAIN windows
          BY <1>4, <1>6, <1>7, <2>1 DEF Within, Span
    <3>2. QED
          BY <3>1
  <2>2. CASE hi > best
    <3>1. NextStart(s, best) <= lo
          BY <1>1, <1>2, <1>7, <2>2
    <3>2. PICK k \in DOMAIN rest : Within(Span(lo, hi), rest[k])
          BY <1>7, <3>1 DEF Covering
    <3>3. k + 1 \in DOMAIN windows /\ windows[k + 1] = rest[k]
      <4>1. k \in 1..n /\ k + 1 \in 1..(n + 1)
            BY <1>4
      <4> HIDE DEF R, n
      <4>2. QED
            BY <1>6, <4>1
    <3>4. QED
          BY <3>2, <3>3
  <2>3. QED
        BY <2>1, <2>2
<1>8. Covering(windows, t, s)
  <2>1. windows \in Seq([lo : 1..Len(t), hi : 1..Len(t)]) /\ Len(windows) > 0 /\ Len(windows) # 1
        BY <1>4, <1>6
  <2>2. QED
        BY <1>7, <2>1 DEF Covering
<1>9. QED
      BY <1>3, <1>8 DEF windows

\* The windows of a text cover it.
LEMMA WindowsCover ==
    ASSUME NEW t, Encoded(t), Len(t) > 0
    PROVE  Covering(Windows(t), t, 1)
<1> DEFINE L == Len(t)
           X == 1..L
           V == Seq([lo : X, hi : X])
           Final == {s \in X : End(t, s) >= L}
           size == [s \in X |-> L - s]
           next == [s \in X |-> IF s \in Final THEN s ELSE NextStart(s, End(t, s))]
           base == [s \in X |-> <<Span(s, End(t, s))>>]
           step == [sv \in X \X V |-> <<Span(sv[1], End(t, sv[1]))>> \o sv[2]]
           Body(f) == [s \in X |-> <<Span(s, End(t, s))>> \o
                          (IF End(t, s) >= L THEN <<>> ELSE f[NextStart(s, End(t, s))])]
           from == CHOOSE f : f = Body(f)
<1>1. L \in Nat /\ 1 \in X
      BY DEF Encoded
<1>2. ASSUME NEW s \in X
      PROVE  End(t, s) \in s..L /\ End(t, s) \in X /\ (End(t, s) < L => End(t, s) >= s + Overlap)
      BY <1>1, WindowsHoldEnough
<1>3. \A s \in X : s \in Final <=> End(t, s) >= L
      OBVIOUS
<1>4. \A s \in X \ Final : End(t, s) \in s..L /\ End(t, s) < L /\ End(t, s) >= s + Overlap
      BY <1>1, <1>2
<1>5. ASSUME NEW s \in X \ Final
      PROVE  NextStart(s, End(t, s)) \in X /\ NextStart(s, End(t, s)) > s
  <2> DEFINE best == End(t, s)
  <2>1. best \in s..L /\ best < L /\ best >= s + Overlap
        BY <1>4
  <2>2. Overlap \in Nat \ {0}
        BY SplitAssumption
  <2> DEFINE a == s + 1
             b == best - Overlap + 1
  <2>3. a \in Nat /\ b \in Nat /\ b >= a /\ b \in X
        BY <1>1, <2>1, <2>2
  <2>4. NextStart(s, best) = Max({a, b})
        BY DEF NextStart
  <2> HIDE DEF a, b
  <2>5. NextStart(s, best) = b
        BY <2>3, <2>4, GreaterOfTwo
  <2>6. b > s
        BY <2>3 DEF a
  <2>7. QED
        BY <2>3, <2>5, <2>6
<1>6. \A s \in X \ Final : next[s] = NextStart(s, End(t, s))
      BY <1>3
<1>7. Descends(X, Final, size, next)
  <2>1. Final \subseteq X /\ size \in [X -> Nat]
        BY <1>1
  <2>2. next \in [X -> X]
    <3>1. \A s \in X : (IF s \in Final THEN s ELSE NextStart(s, End(t, s))) \in X
          BY <1>5
    <3> HIDE DEF Final
    <3>2. QED
          BY <3>1
  <2>3. ASSUME NEW s \in X \ Final PROVE size[next[s]] < size[s]
    <3>1. next[s] \in X /\ next[s] > s
          BY <1>5, <1>6
    <3> HIDE DEF next, Final
    <3>2. QED
          BY <1>1, <3>1
  <2> HIDE DEF size, next, Final
  <2>4. QED
        BY <2>1, <2>2, <2>3 DEF Descends
<1>8. \A s \in X : Span(s, End(t, s)) \in [lo : X, hi : X] /\ <<Span(s, End(t, s))>> \in V
  <2>1. \A s \in X : Span(s, End(t, s)) \in [lo : X, hi : X]
        BY <1>2 DEF Span
  <2>2. QED
        BY <2>1
<1>9. base \in [X -> V] /\ step \in [X \X V -> V]
  <2>1. base \in [X -> V]
        BY <1>8
  <2>2. ASSUME NEW s \in X, NEW v \in V PROVE <<Span(s, End(t, s))>> \o v \in V
    <3> DEFINE R == [lo : X, hi : X]
               one == <<Span(s, End(t, s))>>
    <3>1. one \in Seq(R) /\ v \in Seq(R)
          BY <1>8
    <3> HIDE DEF R, one
    <3>2. one \o v \in Seq(R)
          BY <3>1
    <3>3. QED
          BY <3>2 DEF R, one
  <2> HIDE DEF V
  <2>3. QED
        BY <2>1, <2>2
<1>10. PICK f \in [X -> V] : Follows(f, X, Final, next, base, step)
  <2> HIDE DEF Final, size, next, base, step, V
  <2>1. \A s \in X : size[s] <= L
        BY <1>1 DEF size
  <2> HIDE DEF X, L
  <2>2. QED
        BY <1>1, <1>7, <1>9, <2>1, DescentDefines
<1>11. f = Body(f)
  <2>1. ASSUME NEW s \in X
        PROVE  f[s] = <<Span(s, End(t, s))>> \o
                         (IF End(t, s) >= L THEN <<>> ELSE f[NextStart(s, End(t, s))])
    <3> DEFINE one == <<Span(s, End(t, s))>>
    <3>1. f[s] = IF s \in Final THEN base[s] ELSE step[<<s, f[next[s]]>>]
      <4> HIDE DEF Final, base, step, next
      <4>1. QED
            BY <1>10 DEF Follows
    <3>2. CASE s \in Final
      <4>1. f[s] = one
            BY <3>1, <3>2
      <4>2. one \o <<>> = one
        <5>1. one \in V
              BY <1>8
        <5> HIDE DEF one
        <5>2. QED
              BY <5>1
      <4> HIDE DEF one
      <4>3. QED
            BY <1>3, <3>2, <4>1, <4>2 DEF one
    <3>3. CASE s \notin Final
      <4>1. next[s] = NextStart(s, End(t, s)) /\ next[s] \in X
            BY <1>5, <1>6, <3>3
      <4>2. f[next[s]] \in V
        <5> HIDE DEF V, next
        <5>1. QED
              BY <1>10, <4>1
      <4>3. step[<<s, f[next[s]]>>] = one \o f[next[s]]
        <5> HIDE DEF V, next
        <5>1. QED
              BY <4>2
      <4>4. ~(End(t, s) >= L)
            BY <1>3, <3>3
      <4> HIDE DEF one, Final, next, step, base
      <4>5. QED
            BY <3>1, <3>3, <4>1, <4>3, <4>4 DEF one
    <3>4. QED
          BY <3>2, <3>3
  <2> DEFINE g == Body(f)
  <2>2. DOMAIN g = X /\ g = [s \in X |-> g[s]] /\ \A s \in X : f[s] = g[s]
        BY <2>1
  <2> HIDE DEF g, X, V
  <2>3. f = g
        BY <2>2
  <2>4. QED
        BY <2>3 DEF g
<1>12. from = Body(from)
  <2> HIDE DEF Body
  <2>1. QED
        BY <1>11
<1> DEFINE Good == {s \in X : Covering(from[s], t, s)}
<1>13. ASSUME NEW s \in Final PROVE s \in Good
  <2>1. End(t, s) = L /\ s \in X
        BY <1>1, <1>2, <1>3
  <2>2. from[s] = <<Span(s, L)>> \o <<>>
    <3> HIDE DEF from, L
    <3>1. QED
          BY <1>12, <2>1, <1>3
  <2>3. <<Span(s, L)>> \o <<>> = <<Span(s, L)>>
        OBVIOUS
  <2>4. Covering(from[s], t, s)
    <3> HIDE DEF from
    <3>1. QED
          BY <1>1, <2>1, <2>2, <2>3, LastWindow
  <2> HIDE DEF from
  <2>5. QED
        BY <2>1, <2>4
<1>14. ASSUME NEW s \in X \ Final, next[s] \in Good PROVE s \in Good
  <2> DEFINE best == End(t, s)
             later == NextStart(s, best)
  <2>1. best \in s..L /\ best < L /\ best >= s + Overlap
        BY <1>4
  <2>2. Covering(from[later], t, later)
    <3> HIDE DEF from, next
    <3>1. QED
          BY <1>6, <1>14
  <2>3. Covering(<<Span(s, best)>> \o from[later], t, s)
    <3> HIDE DEF from, best
    <3>1. QED
          BY <1>1, <2>1, <2>2, NextWindow
  <2>4. from[s] = <<Span(s, best)>> \o from[later]
    <3>1. s \in X /\ ~(End(t, s) >= L)
          BY <1>3
    <3> HIDE DEF from, Final
    <3>2. QED
          BY <1>12, <3>1
  <2> HIDE DEF from
  <2>5. QED
        BY <2>3, <2>4
<1>15. 1 \in Good
  <2>1. (\A s \in Final : s \in Good) /\ \A s \in X \ Final : next[s] \in Good => s \in Good
        BY <1>13, <1>14
  <2> HIDE DEF X, Final, size, next, Good, V, base, step, Body, from, L
  <2>2. \A s \in X : s \in Good
        BY <1>7, <2>1, DescentReaches
  <2>3. QED
        BY <1>1, <2>2
<1>16. Windows(t) = IF Bytes(t, 1, L) <= WindowBytes THEN <<Span(1, L)>> ELSE from[1]
  <2>1. QED
        BY Zenon DEF Windows, End
<1>17. Covering(<<Span(1, L)>>, t, 1)
       BY <1>1, LastWindow
<1>18. QED
  <2> HIDE DEF from
  <2>1. QED
        BY <1>15, <1>16, <1>17

\* However an answer tells of something, it is not taken for clean.
LEMMA SignalsAreSeen == \A r \in Signals : ~CleanAnswer(r)
<1> SUFFICES ASSUME NEW r \in Signals PROVE ~CleanAnswer(r)
    OBVIOUS
<1>1. CASE r \in {[Clean EXCEPT !.match = m] : m \in {"MATCH_FOUND", "missing"}}
      BY <1>1 DEF CleanAnswer, Clean
<1>2. CASE r \in {[Clean EXCEPT !.filters = {f}] : f \in {"injection", "sensitive", "uri", "rai"}}
  <2>1. PICK f \in {"injection", "sensitive", "uri", "rai"} : r = [Clean EXCEPT !.filters = {f}]
        BY <1>2
  <2>2. r.filters = {f} /\ r.kinds = {}
        BY <2>1 DEF Clean
  <2>3. CASE f = "rai"
    <3>1. RaiCategories(r) = {}
          BY <2>2 DEF RaiCategories
    <3>2. "other" \in Findings(r)
          BY <2>2, <2>3, <3>1 DEF Findings
    <3>3. QED
          BY <3>2 DEF CleanAnswer
  <2>4. CASE f # "rai"
    <3>1. f \in Findings(r)
          BY <2>2, <2>4 DEF Findings
    <3>2. QED
          BY <3>1 DEF CleanAnswer
  <2>5. QED
        BY <2>3, <2>4
<1>3. CASE r \in {[Clean EXCEPT !.filters = {"rai"}, !.kinds = {k}] : k \in RaiKinds \cup {"new"}}
  <2>1. "rai" \in r.filters
        BY <1>3 DEF Clean
  <2>2. Findings(r) # {}
        BY <2>1 DEF Findings
  <2>3. QED
        BY <2>2 DEF CleanAnswer
<1>4. CASE r \in {[Clean EXCEPT !.invocation = i] : i \in {"PARTIAL", "FAILURE", "missing"}}
      BY <1>4 DEF CleanAnswer, Clean
<1>5. QED
      BY <1>1, <1>2, <1>3, <1>4 DEF Signals

\* Silence is taken for clean.
LEMMA SilenceIsClean == CleanAnswer(Clean) /\ ~Rewritten(Clean)
<1>1. Findings(Clean) = {}
      BY DEF Findings, Clean
<1>2. QED
      BY <1>1 DEF CleanAnswer, Rewritten, Clean

\* The windows of any text, an empty one included.
LEMMA WindowsAreThere ==
    ASSUME NEW t, Encoded(t)
    PROVE  /\ Len(Windows(t)) \in Nat \ {0} /\ DOMAIN Windows(t) = 1..Len(Windows(t))
           /\ Len(Windows(t)) = 1 => Windows(t) = <<Span(1, Len(t))>>
           /\ \A lo, hi \in DOMAIN t :
                 lo <= hi /\ hi - lo <= Overlap =>
                     \E k \in DOMAIN Windows(t) : Within(Span(lo, hi), Windows(t)[k])
<1> DEFINE windows == Windows(t)
<1>1. CASE Len(t) = 0
  <2>1. Bytes(t, 1, 0) \in Nat /\ Bytes(t, 1, 0) <= WidestChar * 0
    <3>1. Bytes(t, 1, 0) \in Nat /\ Bytes(t, 1, 0) <= WidestChar * (0 - 1 + 1)
          BY <1>1, BytesAreBounded
    <3>2. 0 - 1 + 1 = 0
          OBVIOUS
    <3>3. QED
          BY <3>1, <3>2
  <2>2. WidestChar \in Nat /\ WindowBytes \in Nat
        BY SplitAssumption
  <2>3. Bytes(t, 1, Len(t)) <= WindowBytes
        BY <1>1, <2>1, <2>2
  <2>4. windows = <<Span(1, Len(t))>>
        BY <2>3, Zenon DEF Windows
  <2>5. DOMAIN t = {}
        BY <1>1 DEF Encoded
  <2>6. Len(windows) = 1 /\ DOMAIN windows = 1..1
    <3> DEFINE w == Span(1, Len(t))
    <3> HIDE DEF w, windows
    <3>1. windows = <<w>>
          BY <2>4 DEF w
    <3>2. QED
          BY <3>1
  <2> HIDE DEF windows
  <2>7. QED
        BY <2>4, <2>5, <2>6 DEF windows
<1>2. CASE Len(t) # 0
  <2>1. Len(t) > 0 /\ DOMAIN t = 1..Len(t)
        BY <1>2 DEF Encoded
  <2>2. Covering(windows, t, 1)
        BY <2>1, WindowsCover
  <2> DEFINE R == [lo : 1..Len(t), hi : 1..Len(t)]
  <2>3. windows \in Seq(R) /\ Len(windows) > 0
        BY <2>2 DEF Covering
  <2>4. Len(windows) \in Nat \ {0} /\ DOMAIN windows = 1..Len(windows)
    <3> HIDE DEF R, windows
    <3>1. QED
          BY <2>3
  <2> HIDE DEF windows
  <2>5. \A lo, hi \in DOMAIN t : 1 <= lo
        BY <2>1
  <2>6. QED
        BY <2>1, <2>2, <2>4, <2>5 DEF Covering, windows
<1>3. QED
      BY <1>1, <1>2

\* No phrase of a text of any length escapes: whatever the characters take in
\* bytes, some window holds it whole, and an answer that tells of it blocks
\* the text.  (ModelArmorGuardrailAdapter._bounded_windows, _parse, screen)
THEOREM NoPhraseEscapes ==
    ASSUME NEW Chars, \A c \in Chars : c.bytes \in 1..WidestChar, NEW t \in Seq(Chars)
    PROVE  PhrasesNeverEscape(t)
<1> DEFINE windows == Windows(t)
           n == Len(windows)
           phrases == {s \in [lo : DOMAIN t, hi : DOMAIN t] :
                           s.lo <= s.hi /\ s.hi - s.lo <= Overlap}
           Answers(s, signal) ==
               [k \in DOMAIN windows |-> IF Within(s, windows[k]) THEN signal ELSE Clean]
           rewrites == [Clean EXCEPT !.deidentified = "changed"]
<1>1. Encoded(t)
  <2>1. WidestChar \in Nat
        BY SplitAssumption
  <2>2. \A i \in DOMAIN t : t[i] \in Chars
        OBVIOUS
  <2>3. \A i \in DOMAIN t : t[i].bytes \in 0..WidestChar
        BY <2>1, <2>2
  <2>4. t \in Seq(Range(t))
        BY DEF Range
  <2>5. QED
        BY <2>3, <2>4 DEF Encoded
<1>2. /\ n \in Nat \ {0} /\ DOMAIN windows = 1..n
      /\ n = 1 => windows = <<Span(1, Len(t))>>
      /\ \A lo, hi \in DOMAIN t :
            lo <= hi /\ hi - lo <= Overlap =>
                \E k \in DOMAIN windows : Within(Span(lo, hi), windows[k])
      BY <1>1, WindowsAreThere
<1> HIDE DEF windows
<1>3. ASSUME NEW s \in phrases, NEW signal \in Signals
      PROVE  ~Screened(Answers(s, signal))
  <2>1. s = Span(s.lo, s.hi) /\ s.lo \in DOMAIN t /\ s.hi \in DOMAIN t
        /\ s.lo <= s.hi /\ s.hi - s.lo <= Overlap
        BY DEF Span
  <2>2. PICK k \in DOMAIN windows : Within(s, windows[k])
        BY <1>2, <2>1
  <2>3. DOMAIN Answers(s, signal) = DOMAIN windows /\ Answers(s, signal)[k] = signal
        BY <2>2
  <2>4. ~CleanAnswer(signal)
        BY SignalsAreSeen
  <2> HIDE DEF Answers
  <2>5. QED
        BY <2>2, <2>3, <2>4 DEF Screened
<1>4. Screened([k \in DOMAIN windows |-> Clean])
      BY SilenceIsClean DEF Screened
<1>5. ASSUME NEW i \in DOMAIN t, Screened(Answers(Span(i, i), rewrites))
      PROVE  windows = <<Span(1, Len(t))>>
  <2> DEFINE answers == Answers(Span(i, i), rewrites)
  <2>1. i \in Nat /\ i <= i /\ i - i <= Overlap
        BY <1>1, SplitAssumption DEF Encoded
  <2>2. PICK k \in DOMAIN windows : Within(Span(i, i), windows[k])
        BY <1>2, <2>1
  <2>3. DOMAIN answers = 1..n /\ answers[k] = rewrites /\ Len(answers) = n /\ k \in DOMAIN answers
        BY <1>2, <2>2
  <2>4. Rewritten(rewrites)
        BY DEF Rewritten, Clean
  <2> HIDE DEF answers, rewrites, n
  <2>5. ~(n > 1)
        BY <1>5, <2>3, <2>4 DEF Screened, answers
  <2>6. QED
        BY <1>2, <2>5 DEF n
<1>6. QED
  <2> HIDE DEF Answers, rewrites, phrases
  <2>1. /\ \A s \in phrases, signal \in Signals : ~Screened(Answers(s, signal))
        /\ Screened([k \in DOMAIN windows |-> Clean])
        /\ \A i \in DOMAIN t :
              Screened(Answers(Span(i, i), rewrites)) => windows = <<Span(1, Len(t))>>
        BY <1>3, <1>4, <1>5
  <2>2. QED
        BY <2>1, Zenon DEF PhrasesNeverEscape, Answers, rewrites, phrases, windows
-----------------------------------------------------------------------------
(***************************************************************************)
(* Sizes: what the parts of a piece take.                                  *)
(***************************************************************************)
\* An empty piece takes no bytes.
LEMMA BytesOfNone ==
    ASSUME NEW t, Encoded(t), NEW i \in Nat \ {0}, i <= Len(t) + 1
    PROVE  Bytes(t, i, i - 1) = 0
<1> DEFINE j == i - 1
<1>1. j \in Nat /\ j <= Len(t) /\ i <= j + 1 /\ j - i + 1 = 0
      BY DEF Encoded
<1>2. Bytes(t, i, j) \in Nat /\ Bytes(t, i, j) <= WidestChar * (j - i + 1)
  <2> HIDE DEF j
  <2>1. QED
        BY <1>1, BytesAreBounded
<1>3. WidestChar \in Nat
      BY SplitAssumption
<1> HIDE DEF j
<1>4. Bytes(t, i, j) = 0
      BY <1>1, <1>2, <1>3
<1>5. QED
      BY <1>4 DEF j

\* A set of terms, and the rest of it without one of them.
TakenOut(s, r, x, D) == s \in SUBSET D /\ x \in s /\ r = s \ {x}

\* A sum is that of the rest and the one term.
LEMMA SumOfTheRest ==
    ASSUME NEW sum, NEW D, NEW pick, NEW w, NEW limit, Sums(sum, D, pick, w, limit),
           NEW s, NEW r, NEW x, TakenOut(s, r, x, D)
    PROVE  sum[s] = sum[r] + w[x]
<1>1. SUFFICES ASSUME NEW a \in SUBSET D, NEW y \in a PROVE sum[a] = sum[a \ {y}] + w[y]
      BY DEF TakenOut
<1>2. QED
      BY SumsTakeApart

\* Two sums of the same terms are the same.
LEMMA SumsAgree ==
    ASSUME NEW t, NEW i, NEW n \in Nat, NEW k \in Nat, n <= k,
           NEW f, NEW pf, NEW wf, PieceSum(f, pf, wf, t, i, n),
           NEW g, NEW pg, NEW wg, PieceSum(g, pg, wg, t, i, k)
    PROVE  f[1..n] = g[1..n]
<1> DEFINE Good == {m \in 0..n : f[1..m] = g[1..m]}
<1>1. Sums(f, 1..n, pf, wf, WidestChar) /\ Sums(g, 1..k, pg, wg, WidestChar)
      BY DEF PieceSum
<1>2. 0 \in Good
  <2>1. 1..0 = {} /\ f[{}] = 0 /\ g[{}] = 0
        BY <1>1 DEF Sums
  <2>2. f[1..0] = g[1..0]
        BY <2>1
  <2>3. QED
        BY <2>2
<1>3. ASSUME NEW m \in 1..n, m - 1 \in Good PROVE m \in Good
  <2> DEFINE s == 1..m
             r == 1..(m - 1)
  <2>1. s \in SUBSET (1..n) /\ s \in SUBSET (1..k) /\ m \in s
        OBVIOUS
  <2>2. s \ {m} = r
    <3>1. \A x : x \in s \ {m} <=> x \in r
          OBVIOUS
    <3>2. QED
          BY <3>1, Zenon
  <2>3. wf[m] = wg[m]
        BY DEF PieceSum
  <2>4. f[r] = g[r]
        BY <1>3
  <2>5. Sums(f, 1..n, pf, wf, WidestChar) /\ Sums(g, 1..k, pg, wg, WidestChar)
        BY <1>1
  <2> HIDE DEF s, r, Good
  <2>7. f[s] = g[s]
    <3>1. TakenOut(s, r, m, 1..n) /\ TakenOut(s, r, m, 1..k)
          BY <2>1, <2>2, Zenon DEF TakenOut
    <3>2. f[s] = f[r] + wf[m]
          BY <2>5, <3>1, SumOfTheRest
    <3>3. g[s] = g[r] + wg[m]
          BY <2>5, <3>1, SumOfTheRest
    <3>4. QED
          BY <2>3, <2>4, <3>2, <3>3
  <2>8. QED
        BY <2>7 DEF s, Good
<1>4. \A m \in 1..n : m - 1 \in Good => m \in Good
      BY <1>3
<1>5. n \in Good
  <2> HIDE DEF Good
  <2>1. \A m \in 0..n : m \in Good
        BY <1>2, <1>4, Counting
  <2>2. QED
        BY <2>1
<1>6. QED
      BY <1>5

\* One more character.
LEMMA BytesOfOneMore ==
    ASSUME NEW t, Encoded(t), NEW i \in Nat \ {0}, NEW j \in Nat, j < Len(t), i <= j + 1
    PROVE  Bytes(t, i, j + 1) = Bytes(t, i, j) + t[j + 1].bytes
<1> DEFINE n == j - i + 1
           k == (j + 1) - i + 1
<1>1. Len(t) \in Nat /\ n \in Nat /\ k \in Nat /\ k = n + 1 /\ n <= k /\ k + i - 1 = j + 1
      BY DEF Encoded
<1>2. PICK f, pf, wf : PieceSum(f, pf, wf, t, i, n) /\ Bytes(t, i, j) = f[1..n]
  <2>1. j <= Len(t)
        BY <1>1
  <2>2. \E sum, pick, w : PieceSum(sum, pick, w, t, i, j - i + 1) /\ Bytes(t, i, j) = sum[1..(j - i + 1)]
    <3> HIDE DEF n, k
    <3>1. QED
          BY <2>1, BytesAreASum
  <2>3. QED
        BY <2>2
<1>3. PICK g, pg, wg : PieceSum(g, pg, wg, t, i, k) /\ Bytes(t, i, j + 1) = g[1..k]
  <2> DEFINE next == j + 1
  <2>1. next \in Nat /\ next <= Len(t) /\ i <= next + 1
        BY <1>1
  <2> HIDE DEF next
  <2>2. \E g, pg, wg : PieceSum(g, pg, wg, t, i, next - i + 1) /\ Bytes(t, i, next) = g[1..(next - i + 1)]
        BY <2>1, BytesAreASum
  <2>3. QED
        BY <2>2 DEF next
<1> HIDE DEF n, k
<1>4. f[1..n] = g[1..n]
      BY <1>1, <1>2, <1>3, SumsAgree
<1>5. g[1..k] = g[1..n] + wg[k]
  <2> DEFINE s == 1..k
             r == 1..n
  <2>1. k \in s
        BY <1>1
  <2>2. s \ {k} = r
    <3>1. \A x : x \in s \ {k} <=> x \in r
          BY <1>1
    <3>2. QED
          BY <3>1, Zenon
  <2>3. Sums(g, s, pg, wg, WidestChar) /\ s \in SUBSET s
        BY <1>3 DEF PieceSum
  <2> HIDE DEF s, r
  <2>4. g[s] = g[s \ {k}] + wg[k]
        BY <2>1, <2>3, SumsTakeApart
  <2>5. QED
        BY <2>2, <2>4 DEF s, r
<1>6. wg[k] = t[j + 1].bytes
  <2>1. k \in 1..k
        BY <1>1
  <2>2. wg[k] = t[k + i - 1].bytes
        BY <1>3, <2>1 DEF PieceSum
  <2>3. QED
        BY <1>1, <2>2
<1>7. QED
      BY <1>2, <1>3, <1>4, <1>5, <1>6

\* A text of characters that each take some bytes, up to WidestChar.
Sized(t) == Encoded(t) /\ \A i \in DOMAIN t : t[i].bytes \in 1..WidestChar

\* A piece takes what its two parts take.
LEMMA BytesJoin ==
    ASSUME NEW t, Encoded(t), NEW i \in Nat \ {0}, NEW m \in Nat, NEW j \in Nat,
           i <= m + 1, m <= j, j <= Len(t)
    PROVE  Bytes(t, i, j) = Bytes(t, i, m) + Bytes(t, m + 1, j)
<1> DEFINE Joins(q) == Bytes(t, i, q) = Bytes(t, i, m) + Bytes(t, m + 1, q)
           n == j - m
           Good == {d \in 0..n : Joins(m + d)}
<1>1. Len(t) \in Nat /\ n \in Nat
      BY DEF Encoded
<1>2. \A q \in m..j : Bytes(t, m + 1, q) \in Nat /\ Bytes(t, i, m) \in Nat
  <2> DEFINE k == m + 1
  <2>1. k \in Nat \ {0} /\ \A q \in m..j : q \in Nat /\ q <= Len(t) /\ k <= q + 1 /\ m <= Len(t)
        BY <1>1
  <2> HIDE DEF k
  <2>2. \A q \in m..j : Bytes(t, k, q) \in Nat /\ Bytes(t, i, m) \in Nat
        BY <2>1, BytesAreBounded
  <2>3. QED
        BY <2>2 DEF k
<1>3. 0 \in Good
  <2> DEFINE k == m + 1
  <2>1. k \in Nat \ {0} /\ k <= Len(t) + 1 /\ k - 1 = m
        BY <1>1
  <2> HIDE DEF k
  <2>2. Bytes(t, k, k - 1) = 0
        BY <2>1, BytesOfNone
  <2>3. Bytes(t, m + 1, m) = 0
        BY <2>1, <2>2 DEF k
  <2>4. Bytes(t, i, m) \in Nat
        BY <1>2
  <2>5. Joins(m)
        BY <2>3, <2>4
  <2>6. m + 0 = m /\ 0 \in 0..n
        BY <1>1
  <2> HIDE DEF Joins, n
  <2>7. QED
        BY <2>5, <2>6
<1>4. ASSUME NEW d \in 1..n, d - 1 \in Good PROVE d \in Good
  <2> DEFINE q == m + (d - 1)
             k == m + 1
             more == t[q + 1].bytes
  <2>1. q \in m..j /\ q \in Nat /\ q < Len(t) /\ i <= q + 1 /\ k <= q + 1 /\ k \in Nat \ {0}
        /\ q + 1 = m + d
        BY <1>1
  <2>2. more \in Nat
    <3>1. WidestChar \in Nat
          BY SplitAssumption
    <3>2. q + 1 \in DOMAIN t
          BY <2>1 DEF Encoded
    <3>3. more \in 0..WidestChar
          BY <3>2 DEF Encoded
    <3>4. QED
          BY <3>1, <3>3
  <2>3. Joins(q)
        BY <1>4
  <2>4. Bytes(t, k, q) \in Nat /\ Bytes(t, i, m) \in Nat
        BY <1>2, <2>1
  <2> HIDE DEF q, k
  <2>5. Bytes(t, i, q + 1) = Bytes(t, i, q) + more
        BY <2>1, BytesOfOneMore
  <2>6. Bytes(t, k, q + 1) = Bytes(t, k, q) + more
        BY <2>1, BytesOfOneMore
  <2> HIDE DEF more
  <2>7. Bytes(t, i, q + 1) = Bytes(t, i, m) + Bytes(t, k, q + 1)
        BY <2>2, <2>3, <2>4, <2>5, <2>6 DEF k
  <2>8. Joins(m + d)
        BY <2>1, <2>7 DEF k
  <2>9. QED
        BY <2>8
<1>5. n \in Good
  <2> HIDE DEF Good, n
  <2>1. \A d \in 0..n : d \in Good
        BY <1>1, <1>3, <1>4, Counting
  <2>2. QED
        BY <1>1, <2>1
<1>6. Joins(m + n) /\ m + n = j
  <2> HIDE DEF Joins
  <2>1. QED
        BY <1>5
<1>7. QED
      BY <1>6

\* A character takes a byte at least, so a piece has no more of them.
LEMMA LengthWithinBytes ==
    ASSUME NEW t, Sized(t), NEW i \in Nat \ {0}, NEW j \in Nat, i <= j + 1, j <= Len(t)
    PROVE  j - i + 1 <= Bytes(t, i, j)
<1> DEFINE Fits(q) == q - i + 1 <= Bytes(t, i, q)
           before == i - 1
           n == j - before
           Good == {d \in 0..n : Fits(before + d)}
<1>1. Encoded(t) /\ Len(t) \in Nat /\ before \in Nat /\ n \in Nat
      BY DEF Sized, Encoded
<1>2. 0 \in Good
  <2>1. Bytes(t, i, i - 1) = 0
        BY <1>1, BytesOfNone
  <2>2. Fits(before) /\ before + 0 = before
        BY <2>1
  <2> HIDE DEF Fits, before, n
  <2>3. QED
        BY <1>1, <2>2
<1>3. ASSUME NEW d \in 1..n, d - 1 \in Good PROVE d \in Good
  <2> DEFINE q == before + (d - 1)
             more == t[q + 1].bytes
  <2>1. q \in Nat /\ q < Len(t) /\ q <= Len(t) /\ i <= q + 1 /\ q + 1 = before + d
        BY <1>1
  <2>2. more \in Nat /\ more >= 1
    <3>1. WidestChar \in Nat
          BY SplitAssumption
    <3>2. q + 1 \in DOMAIN t
          BY <1>1, <2>1 DEF Encoded
    <3>3. more \in 1..WidestChar
          BY <3>2 DEF Sized
    <3>4. QED
          BY <3>1, <3>3
  <2>3. Fits(q)
        BY <1>3
  <2> HIDE DEF q, before, n
  <2>4. Bytes(t, i, q) \in Nat
        BY <1>1, <2>1, BytesAreBounded
  <2>5. Bytes(t, i, q + 1) = Bytes(t, i, q) + more
        BY <1>1, <2>1, BytesOfOneMore
  <2> HIDE DEF more
  <2>6. Fits(q + 1)
        BY <2>1, <2>2, <2>3, <2>4, <2>5
  <2> HIDE DEF Fits
  <2>7. Fits(before + d)
        BY <2>1, <2>6
  <2>8. QED
        BY <2>7
<1>4. n \in Good
  <2> HIDE DEF Good, n
  <2>1. \A d \in 0..n : d \in Good
        BY <1>1, <1>2, <1>3, Counting
  <2>2. QED
        BY <1>1, <2>1
<1>5. Fits(before + n) /\ before + n = j
  <2> HIDE DEF Fits
  <2>1. QED
        BY <1>4
<1>6. QED
      BY <1>5

-----------------------------------------------------------------------------
(***************************************************************************)
(* Cuts: where chunks end, and what the bridges over the cuts hold.        *)
(***************************************************************************)
\* The longest piece that the limit allows.
LEMMA ReachIsGreatest ==
    ASSUME NEW t, Encoded(t), NEW i \in 1..Len(t), NEW limit
    PROVE  /\ Reach(t, i, limit) \in (i - 1)..Len(t)
           /\ Reach(t, i, limit) >= i => Bytes(t, i, Reach(t, i, limit)) <= limit
           /\ \A j \in i..Len(t) : Bytes(t, i, j) <= limit => j <= Reach(t, i, limit)
<1> DEFINE L == Len(t)
           S == {i - 1} \cup {j \in i..L : Bytes(t, i, j) <= limit}
           reach == Max(S)
<1>1. L \in Nat
      BY DEF Encoded
<1>2. S \in SUBSET (0..L) /\ S # {} /\ \A y \in S : y >= i - 1
      BY <1>1
<1>3. reach \in S /\ \A y \in S : reach >= y
  <2> HIDE DEF S, L
  <2>1. QED
        BY <1>1, <1>2, GreatestIsThere
<1>4. Reach(t, i, limit) = reach
      BY DEF Reach
<1> HIDE DEF reach
<1>5. reach \in (i - 1)..L
      BY <1>1, <1>2, <1>3
<1>6. reach >= i => Bytes(t, i, reach) <= limit
      BY <1>3
<1>7. \A j \in i..L : Bytes(t, i, j) <= limit => j <= reach
  <2>1. TAKE j \in i..L
  <2>2. HAVE Bytes(t, i, j) <= limit
  <2>3. j \in S
        BY <2>2
  <2> HIDE DEF S
  <2>4. reach >= j
        BY <1>3, <2>3
  <2>5. QED
        BY <1>1, <1>5, <2>4
<1>8. QED
      BY <1>4, <1>5, <1>6, <1>7

\* The last character of the chunk that starts with character i.
Cut(t, i) == ChunkEnd(t, i, Reach(t, i, ChunkBytes))

\* Why the chunk that starts with character i is refused.
TooLong(t, i) ==
    \E j \in i..Len(t) : Bytes(t, i, j) > ChunkBytes /\ \A k \in i..(j - 1) : ~t[k].space

\* A chunk keeps the limit, and ends with a space that the limit allows or
\* with the text; without one its token is too long.
LEMMA CutsAtASpace ==
    ASSUME NEW t, Encoded(t), NEW i \in 1..Len(t)
    PROVE  /\ Cut(t, i) \in (i - 1)..Len(t)
           /\ Cut(t, i) >= i => Bytes(t, i, Cut(t, i)) <= ChunkBytes
           /\ Cut(t, i) < i => TooLong(t, i)
           /\ \A j \in i..Len(t) :
                 Bytes(t, i, j) <= ChunkBytes /\ (j = Len(t) \/ t[j].space) => j <= Cut(t, i)
<1> DEFINE L == Len(t)
           reach == Reach(t, i, ChunkBytes)
           S == {i - 1} \cup {j \in i..reach : t[j].space}
           e == Cut(t, i)
<1>1. L \in Nat /\ ChunkBytes \in Nat
      BY SplitAssumption DEF Encoded
<1>2. /\ reach \in (i - 1)..L
      /\ reach >= i => Bytes(t, i, reach) <= ChunkBytes
      /\ \A j \in i..L : Bytes(t, i, j) <= ChunkBytes => j <= reach
      BY ReachIsGreatest
<1>3. e = IF reach = L THEN reach ELSE Max(S)
      BY DEF Cut, ChunkEnd
<1>4. \A j \in i..L : Bytes(t, i, j) \in Nat
  <2>1. i \in Nat \ {0} /\ \A j \in i..L : j \in Nat /\ j <= Len(t) /\ i <= j + 1
        BY <1>1
  <2>2. QED
        BY <2>1, BytesAreBounded
<1> HIDE DEF reach, e
<1>5. CASE reach = L
  <2>1. e = L /\ i <= L
        BY <1>1, <1>3, <1>5
  <2>2. QED
        BY <1>1, <1>2, <1>5, <2>1 DEF e
<1>6. CASE reach # L
  <2>1. S \in SUBSET (0..L) /\ S # {} /\ \A y \in S : y >= i - 1 /\ y <= reach
        BY <1>1, <1>2
  <2>2. Max(S) \in S /\ \A y \in S : Max(S) >= y
    <3> HIDE DEF S, L
    <3>1. QED
          BY <1>1, <2>1, GreatestIsThere
  <2>3. e = Max(S)
        BY <1>3, <1>6
  <2>4. e \in S /\ \A y \in S : e >= y
        BY <2>2, <2>3
  <2>5. e \in (i - 1)..L /\ e <= reach
        BY <1>1, <1>2, <2>1, <2>4
  <2>6. e >= i => Bytes(t, i, e) <= ChunkBytes
    <3>1. HAVE e >= i
    <3>2. Bytes(t, i, reach) = Bytes(t, i, e) + Bytes(t, e + 1, reach)
      <4>1. i \in Nat \ {0} /\ e \in Nat /\ reach \in Nat /\ i <= e + 1 /\ e <= reach /\ reach <= Len(t)
            BY <1>1, <1>2, <2>5, <3>1
      <4>2. QED
            BY <4>1, BytesJoin
    <3>3. Bytes(t, e + 1, reach) \in Nat /\ Bytes(t, i, e) \in Nat
      <4> DEFINE a == e + 1
      <4>1. a \in Nat \ {0} /\ reach \in Nat /\ reach <= Len(t) /\ a <= reach + 1 /\ e \in i..L
            BY <1>1, <1>2, <2>5, <3>1
      <4> HIDE DEF a
      <4>2. Bytes(t, a, reach) \in Nat
            BY <4>1, BytesAreBounded
      <4>3. QED
            BY <1>4, <4>1, <4>2 DEF a
    <3>4. Bytes(t, i, reach) <= ChunkBytes
          BY <1>1, <1>2, <2>5, <3>1
    <3>5. QED
          BY <1>1, <3>2, <3>3, <3>4
  <2>7. \A k \in i..reach : t[k].space => k <= e
    <3>1. TAKE k \in i..reach
    <3>2. HAVE t[k].space
    <3>3. k \in S
          BY <3>2
    <3> HIDE DEF S
    <3>4. e >= k
          BY <2>4, <3>3
    <3>5. QED
          BY <1>1, <1>2, <2>5, <3>4
  <2>8. e < i => TooLong(t, i)
    <3>1. HAVE e < i
    <3> DEFINE j == reach + 1
    <3>2. j \in i..L /\ ~(j <= reach) /\ j - 1 = reach
          BY <1>1, <1>2, <1>6
    <3>3. Bytes(t, i, j) > ChunkBytes
      <4> HIDE DEF j
      <4>1. ~(Bytes(t, i, j) <= ChunkBytes) /\ Bytes(t, i, j) \in Nat
            BY <1>2, <1>4, <3>2
      <4>2. QED
            BY <1>1, <4>1
    <3>4. \A k \in i..(j - 1) : ~t[k].space
      <4>1. TAKE k \in i..(j - 1)
      <4>2. k \in i..reach /\ ~(k <= e)
            BY <1>1, <1>2, <2>5, <3>1, <3>2
      <4>3. QED
            BY <2>7, <4>2
    <3> HIDE DEF j
    <3>5. QED
          BY <3>2, <3>3, <3>4 DEF TooLong
  <2>9. \A j \in i..L : Bytes(t, i, j) <= ChunkBytes /\ (j = L \/ t[j].space) => j <= e
    <3>1. TAKE j \in i..L
    <3>2. HAVE Bytes(t, i, j) <= ChunkBytes /\ (j = L \/ t[j].space)
    <3>3. j <= reach
          BY <1>2, <3>2
    <3>4. j # L /\ j \in i..reach
          BY <1>1, <1>2, <1>6, <3>3
    <3>5. QED
          BY <2>7, <3>2, <3>4
  <2>10. QED
         BY <2>5, <2>6, <2>8, <2>9 DEF e
<1>7. QED
      BY <1>5, <1>6

\* The greater and the lesser of two whole numbers.
LEMMA OneOfTwo ==
    ASSUME NEW a \in Int, NEW b \in Int
    PROVE  /\ Max({a, b}) \in {a, b} /\ Max({a, b}) >= a /\ Max({a, b}) >= b
           /\ Min({a, b}) \in {a, b} /\ Min({a, b}) <= a /\ Min({a, b}) <= b
<1> DEFINE S == {a, b}
<1>1. \E x \in S : \A y \in S : x >= y
  <2>1. CASE a >= b
        BY <2>1
  <2>2. CASE b >= a
        BY <2>2
  <2>3. QED
        BY <2>1, <2>2
<1>2. \E x \in S : \A y \in S : x =< y
  <2>1. CASE a >= b
        BY <2>1
  <2>2. CASE b >= a
        BY <2>2
  <2>3. QED
        BY <2>1, <2>2
<1>3. a \in S /\ b \in S
      OBVIOUS
<1> HIDE DEF S
<1>4. Max(S) \in S /\ \A y \in S : Max(S) >= y
      BY <1>1 DEF Max
<1>5. Min(S) \in S /\ \A y \in S : Min(S) =< y
      BY <1>2 DEF Min
<1>6. QED
      BY <1>3, <1>4, <1>5 DEF S

\* What an identifier is to the cuts: of few bytes, with a space after it.
Token(t, lo, hi) ==
    /\ lo \in 1..Len(t) /\ hi \in lo..Len(t) /\ Bytes(t, lo, hi) <= Context
    /\ hi = Len(t) \/ t[hi + 1].space

\* The bridge over a cut holds the identifier that the cut falls into: the
\* chunk after the cut does not end before the identifier does.
LEMMA BridgeHolds ==
    ASSUME NEW t, Sized(t), NEW i \in 1..Len(t), NEW e \in i..Len(t), e < Len(t),
           Cut(t, e + 1) >= e + 1,
           NEW lo, NEW hi, Token(t, lo, hi), i <= lo, lo <= e, hi > e
    PROVE  Within(Span(lo, hi), Bridge(Span(i, e), Span(e + 1, Cut(t, e + 1))))
<1> DEFINE L == Len(t)
           b == e + 1
           f == Cut(t, b)
<1>1. Encoded(t) /\ L \in Nat /\ lo \in 1..L /\ hi \in lo..L
      BY DEF Sized, Encoded, Token
<1>2. Context \in Nat /\ WidestChar \in Nat /\ ChunkBytes \in Nat /\ Context + WidestChar <= ChunkBytes
      BY SplitAssumption
<1>3. Bytes(t, lo, hi) <= Context /\ (hi = L \/ t[hi + 1].space)
      BY DEF Token
<1>4. b \in 1..L /\ b \in Nat \ {0} /\ b <= hi
      BY <1>1
<1>5. f \in (b - 1)..L /\ \A j \in b..L : Bytes(t, b, j) <= ChunkBytes /\ (j = L \/ t[j].space) => j <= f
  <2> HIDE DEF b
  <2>1. QED
        BY <1>1, <1>4, CutsAtASpace
<1>6. Bytes(t, b, hi) \in Nat /\ Bytes(t, b, hi) <= Context
  <2>1. Bytes(t, lo, hi) = Bytes(t, lo, e) + Bytes(t, e + 1, hi)
    <3>1. lo \in Nat \ {0} /\ e \in Nat /\ hi \in Nat /\ lo <= e + 1 /\ e <= hi /\ hi <= Len(t)
          BY <1>1
    <3>2. QED
          BY <1>1, <3>1, BytesJoin
  <2>2. Bytes(t, lo, e) \in Nat /\ Bytes(t, b, hi) \in Nat
    <3>1. /\ lo \in Nat \ {0} /\ e \in Nat /\ e <= Len(t) /\ lo <= e + 1
          /\ hi \in Nat /\ hi <= Len(t) /\ b <= hi + 1
          BY <1>1, <1>4
    <3> HIDE DEF b
    <3>2. QED
          BY <1>1, <1>4, <3>1, BytesAreBounded
  <2>3. QED
        BY <1>2, <1>3, <2>1, <2>2
<1>7. hi <= f
  <2>1. CASE hi = L
    <3>1. hi \in b..L /\ Bytes(t, b, hi) <= ChunkBytes
          BY <1>1, <1>2, <1>4, <1>6
    <3> HIDE DEF b, f
    <3>2. QED
          BY <1>5, <2>1, <3>1
  <2>2. CASE hi # L
    <3> DEFINE n == hi + 1
    <3>1. n \in b..L /\ hi \in Nat /\ hi < Len(t) /\ b <= hi + 1 /\ n \in DOMAIN t
      <4>1. n \in b..L /\ hi \in Nat /\ hi < Len(t) /\ b <= hi + 1 /\ n \in 1..L
            BY <1>1, <1>4, <2>2
      <4>2. DOMAIN t = 1..L
            BY <1>1 DEF Encoded
      <4> HIDE DEF n, b, L
      <4>3. QED
            BY <4>1, <4>2 DEF L
    <3>2. Bytes(t, b, hi + 1) = Bytes(t, b, hi) + t[hi + 1].bytes
      <4> HIDE DEF b
      <4>1. QED
            BY <1>1, <1>4, <3>1, BytesOfOneMore
    <3> DEFINE more == t[hi + 1].bytes
    <3>3. more \in Nat /\ more <= WidestChar
      <4>1. more \in 1..WidestChar
            BY <3>1 DEF Sized
      <4>2. QED
            BY <1>2, <4>1
    <3> HIDE DEF more
    <3>4. Bytes(t, b, n) <= ChunkBytes
          BY <1>2, <1>6, <3>2, <3>3 DEF more
    <3>5. t[n].space
          BY <1>3, <2>2
    <3>6. n <= f
      <4> HIDE DEF n, b, f
      <4>1. QED
            BY <1>5, <3>1, <3>4, <3>5
    <3> HIDE DEF f
    <3>7. QED
          BY <1>1, <1>5, <3>6
  <2>3. QED
        BY <2>1, <2>2
<1>8. hi - lo + 1 <= Context
  <2>1. lo \in Nat \ {0} /\ hi \in Nat /\ lo <= hi + 1 /\ hi <= Len(t)
        BY <1>1
  <2>2. hi - lo + 1 <= Bytes(t, lo, hi) /\ Bytes(t, lo, hi) \in Nat
        BY <1>1, <2>1, LengthWithinBytes, BytesAreBounded
  <2>3. QED
        BY <1>1, <1>2, <1>3, <2>2
<1> DEFINE l == e - Context + 1
           r == b + Context - 1
<1>9. i \in Int /\ l \in Int /\ f \in Int /\ r \in Int
      BY <1>1, <1>2, <1>4, <1>5
<1>10. Bridge(Span(i, e), Span(b, f)) = Span(Max({i, l}), Min({f, r}))
      BY DEF Bridge, Span
<1>11. l <= lo /\ hi <= r
      BY <1>1, <1>2, <1>8
<1> HIDE DEF l, r, f
<1>12. Max({i, l}) <= lo
  <2>1. Max({i, l}) \in {i, l}
        BY <1>9, OneOfTwo
  <2>2. QED
        BY <1>11, <2>1
<1>13. hi <= Min({f, r})
  <2>1. Min({f, r}) \in {f, r}
        BY <1>9, OneOfTwo
  <2>2. QED
        BY <1>7, <1>11, <2>1
<1>14. QED
      BY <1>10, <1>12, <1>13 DEF Within, Span, f

\* One element before others.
LEMMA OneBefore ==
    ASSUME NEW R, NEW w \in R, NEW rest \in Seq(R)
    PROVE  LET c == <<w>> \o rest
           IN  /\ c \in Seq(R) /\ Len(c) = Len(rest) + 1 /\ DOMAIN c = 1..(Len(rest) + 1)
               /\ c[1] = w /\ \A k \in 1..Len(rest) : c[k + 1] = rest[k]
               /\ \A k \in DOMAIN c : k = 1 \/ (k - 1 \in DOMAIN rest /\ c[k] = rest[k - 1])
               /\ DOMAIN rest = 1..Len(rest) /\ Len(rest) \in Nat
<1> DEFINE c == <<w>> \o rest
           n == Len(rest)
<1>1. <<w>> \in Seq(R) /\ n \in Nat /\ DOMAIN rest = 1..n
      OBVIOUS
<1>2. /\ c \in Seq(R) /\ Len(c) = n + 1 /\ DOMAIN c = 1..(n + 1)
      /\ c[1] = w /\ \A k \in 1..n : c[k + 1] = rest[k]
      BY <1>1
<1> HIDE DEF c, n
<1>3. ASSUME NEW k \in DOMAIN c, k # 1 PROVE k - 1 \in DOMAIN rest /\ c[k] = rest[k - 1]
  <2>1. k - 1 \in 1..n /\ (k - 1) + 1 = k
        BY <1>1, <1>2, <1>3
  <2>2. c[(k - 1) + 1] = rest[k - 1]
        BY <1>2, <2>1
  <2>3. QED
        BY <1>1, <2>1, <2>2
<1>4. \A k \in DOMAIN c : k = 1 \/ (k - 1 \in DOMAIN rest /\ c[k] = rest[k - 1])
      BY <1>3
<1>5. QED
      BY <1>1, <1>2, <1>4 DEF c, n

\* Some chunk, or the bridge over some cut, holds a piece.
Seen(c, lo, hi) ==
    \E k \in DOMAIN c : \/ Within(Span(lo, hi), c[k])
                        \/ k < Len(c) /\ Within(Span(lo, hi), Bridge(c[k], c[k + 1]))

\* The chunks from character i on: refused for a reason, or within the limit
\* and between them, with their bridges, holding every identifier.
Safe(c, t, i) ==
    /\ c \in Seq([lo : 1..Len(t), hi : 0..Len(t)])
    /\ Refuses(c) => \E k \in 1..Len(t) : TooLong(t, k)
    /\ ~Refuses(c) =>
          /\ i <= Len(t) => Len(c) > 0 /\ c[1] = Span(i, Cut(t, i))
          /\ \A k \in DOMAIN c : Bytes(t, c[k].lo, c[k].hi) <= ChunkBytes
          /\ \A lo, hi \in 1..Len(t) : Token(t, lo, hi) /\ i <= lo => Seen(c, lo, hi)

\* A sequence of chunks refuses when one of them is empty.
LEMMA RefusesWithAnEmptyOne ==
    ASSUME NEW c PROVE Refuses(c) <=> \E k \in DOMAIN c : c[k].hi < c[k].lo
BY DEF Refuses, Range

\* After the end of the text there is nothing to cut.
LEMMA NothingToCut ==
    ASSUME NEW t, Len(t) \in Nat
    PROVE  Safe(<<>>, t, Len(t) + 1)
<1> DEFINE c == <<>>
           R == [lo : 1..Len(t), hi : 0..Len(t)]
<1>1. c \in Seq(R) /\ DOMAIN c = {}
      OBVIOUS
<1> HIDE DEF c
<1>2. ~Refuses(c)
      BY <1>1, RefusesWithAnEmptyOne
<1>3. \A lo \in 1..Len(t) : ~(Len(t) + 1 <= lo)
      OBVIOUS
<1>4. ~(Len(t) + 1 <= Len(t))
      OBVIOUS
<1>5. QED
      BY <1>1, <1>2, <1>3, <1>4 DEF Safe, c

\* A chunk without a safe end refuses the text.
LEMMA RefusedChunk ==
    ASSUME NEW t, Encoded(t), NEW i \in 1..Len(t), Cut(t, i) < i
    PROVE  Safe(<<Span(i, Cut(t, i))>>, t, i)
<1> DEFINE w == Span(i, Cut(t, i))
           c == <<w>>
           R == [lo : 1..Len(t), hi : 0..Len(t)]
<1>1. Len(t) \in Nat
      BY DEF Encoded
<1>2. Cut(t, i) \in (i - 1)..Len(t) /\ TooLong(t, i)
      BY CutsAtASpace
<1>3. w \in R /\ w.hi < w.lo
      BY <1>1, <1>2 DEF Span
<1> HIDE DEF w, R
<1>4. c \in Seq(R) /\ 1 \in DOMAIN c /\ c[1] = w
      BY <1>3
<1>5. Refuses(c)
  <2> HIDE DEF c
  <2>1. QED
        BY <1>3, <1>4, RefusesWithAnEmptyOne
<1> HIDE DEF c
<1>6. Safe(c, t, i)
      BY <1>2, <1>4, <1>5 DEF Safe, R
<1>7. QED
      BY <1>6 DEF c, w

\* What later chunks hold is still held with one more before them.
LEMMA SeenLater ==
    ASSUME NEW R, NEW w \in R, NEW rest \in Seq(R), NEW lo, NEW hi, Seen(rest, lo, hi)
    PROVE  Seen(<<w>> \o rest, lo, hi)
<1> DEFINE c == <<w>> \o rest
           n == Len(rest)
           s == Span(lo, hi)
<1>1. /\ Len(c) = n + 1 /\ DOMAIN c = 1..(n + 1) /\ DOMAIN rest = 1..n /\ n \in Nat
      /\ \A k \in 1..n : c[k + 1] = rest[k]
      BY OneBefore
<1> HIDE DEF c, s, n
<1>2. PICK k \in 1..n : Within(s, rest[k]) \/ (k < n /\ Within(s, Bridge(rest[k], rest[k + 1])))
  <2>1. \E k \in DOMAIN rest : Within(s, rest[k]) \/ (k < n /\ Within(s, Bridge(rest[k], rest[k + 1])))
        BY DEF Seen, s, n
  <2>2. QED
        BY <1>1, <2>1
<1> DEFINE j == k + 1
<1>3. j \in DOMAIN c /\ c[j] = rest[k]
      BY <1>1
<1>4. CASE Within(s, rest[k])
  <2>1. Within(s, c[j])
        BY <1>3, <1>4
  <2> HIDE DEF j
  <2>2. QED
        BY <1>3, <2>1 DEF Seen, c, s
<1>5. CASE k < n /\ Within(s, Bridge(rest[k], rest[k + 1]))
  <2>1. k + 1 \in 1..n /\ j + 1 = (k + 1) + 1 /\ j < Len(c)
        BY <1>1, <1>5
  <2>2. c[(k + 1) + 1] = rest[k + 1]
        BY <1>1, <2>1
  <2>3. Within(s, Bridge(c[j], c[j + 1]))
        BY <1>3, <1>5, <2>1, <2>2
  <2> HIDE DEF j
  <2>4. QED
        BY <1>3, <2>1, <2>3 DEF Seen, c, s
<1>6. QED
      BY <1>2, <1>4, <1>5

\* A chunk, and safe chunks from the next character on.
LEMMA NextChunk ==
    ASSUME NEW t, Sized(t), NEW i \in 1..Len(t), Cut(t, i) >= i,
           NEW rest, Safe(rest, t, Cut(t, i) + 1)
    PROVE  Safe(<<Span(i, Cut(t, i))>> \o rest, t, i)
<1> DEFINE L == Len(t)
           e == Cut(t, i)
           w == Span(i, e)
           c == <<w>> \o rest
           R == [lo : 1..L, hi : 0..L]
           n == Len(rest)
<1>1. Encoded(t) /\ L \in Nat
      BY DEF Sized, Encoded
<1>2. e \in i..L /\ Bytes(t, i, e) <= ChunkBytes
      BY <1>1, CutsAtASpace
<1>3. w \in R /\ w.lo = i /\ w.hi = e
      BY <1>1, <1>2 DEF Span
<1>4. rest \in Seq(R)
      BY DEF Safe
<1>5. /\ c \in Seq(R) /\ Len(c) = n + 1 /\ DOMAIN c = 1..(n + 1)
      /\ c[1] = w /\ \A k \in 1..n : c[k + 1] = rest[k]
      /\ \A k \in DOMAIN c : k = 1 \/ (k - 1 \in DOMAIN rest /\ c[k] = rest[k - 1])
      /\ DOMAIN rest = 1..n /\ n \in Nat
  <2> HIDE DEF w, R
  <2>1. QED
        BY <1>3, <1>4, OneBefore
<1> HIDE DEF c, w, R, e, n
<1>6. Refuses(c) => Refuses(rest)
  <2>1. HAVE Refuses(c)
  <2>2. PICK k \in DOMAIN c : c[k].hi < c[k].lo
        BY <2>1, RefusesWithAnEmptyOne
  <2>3. k # 1
        BY <1>2, <1>3, <1>5, <2>2
  <2>4. k - 1 \in DOMAIN rest /\ rest[k - 1].hi < rest[k - 1].lo
        BY <1>5, <2>2, <2>3
  <2>5. QED
        BY <2>4, RefusesWithAnEmptyOne
<1>7. Refuses(rest) => Refuses(c)
  <2>1. HAVE Refuses(rest)
  <2>2. PICK k \in DOMAIN rest : rest[k].hi < rest[k].lo
        BY <2>1, RefusesWithAnEmptyOne
  <2>3. k + 1 \in DOMAIN c /\ c[k + 1] = rest[k]
        BY <1>5
  <2>4. QED
        BY <2>2, <2>3, RefusesWithAnEmptyOne
<1>8. Refuses(c) => \E k \in 1..L : TooLong(t, k)
      BY <1>6 DEF Safe
<1>9. ASSUME ~Refuses(c)
      PROVE  /\ i <= L => Len(c) > 0 /\ c[1] = Span(i, Cut(t, i))
             /\ \A k \in DOMAIN c : Bytes(t, c[k].lo, c[k].hi) <= ChunkBytes
             /\ \A lo, hi \in 1..L : Token(t, lo, hi) /\ i <= lo => Seen(c, lo, hi)
  <2>1. ~Refuses(rest)
        BY <1>7, <1>9
  <2>2. /\ e + 1 <= L => n > 0 /\ rest[1] = Span(e + 1, Cut(t, e + 1))
        /\ \A k \in DOMAIN rest : Bytes(t, rest[k].lo, rest[k].hi) <= ChunkBytes
        /\ \A lo, hi \in 1..L : Token(t, lo, hi) /\ e + 1 <= lo => Seen(rest, lo, hi)
        BY <2>1 DEF Safe, e, n
  <2>3. Len(c) > 0 /\ c[1] = Span(i, Cut(t, i))
        BY <1>5 DEF w, e
  <2>4. ASSUME NEW k \in DOMAIN c PROVE Bytes(t, c[k].lo, c[k].hi) <= ChunkBytes
    <3>1. CASE k = 1
          BY <1>2, <1>3, <1>5, <3>1
    <3>2. CASE k # 1
      <4>1. k - 1 \in DOMAIN rest /\ c[k] = rest[k - 1]
            BY <1>5, <3>2
      <4>2. QED
            BY <2>2, <4>1
    <3>3. QED
          BY <3>1, <3>2
  <2>5. ASSUME NEW lo \in 1..L, NEW hi \in 1..L, Token(t, lo, hi), i <= lo
        PROVE  Seen(c, lo, hi)
    <3>1. CASE e + 1 <= lo
      <4>1. Seen(rest, lo, hi)
            BY <2>2, <2>5, <3>1
      <4>2. QED
            BY <1>3, <1>4, <4>1, SeenLater DEF c
    <3>2. CASE hi <= e
      <4>1. Within(Span(lo, hi), c[1]) /\ 1 \in DOMAIN c
            BY <1>3, <1>5, <2>5, <3>2 DEF Within, Span
      <4>2. QED
            BY <4>1 DEF Seen
    <3>3. CASE ~(e + 1 <= lo) /\ ~(hi <= e)
      <4>1. lo <= e /\ hi > e /\ e < L /\ e + 1 <= L /\ e + 1 \in 1..L
            BY <1>1, <1>2, <3>3
      <4>2. n > 0 /\ rest[1] = Span(e + 1, Cut(t, e + 1)) /\ 1 \in DOMAIN rest
            BY <1>5, <2>2, <4>1
      <4>3. ~(rest[1].hi < rest[1].lo)
            BY <2>1, <4>2, RefusesWithAnEmptyOne
      <4>4. Cut(t, e + 1) >= e + 1
        <5> DEFINE b == e + 1
        <5> HIDE DEF b
        <5>1. b \in 1..L /\ rest[1].hi = Cut(t, b) /\ rest[1].lo = b
              BY <4>1, <4>2 DEF b, Span
        <5>2. Cut(t, b) \in (b - 1)..L
              BY <1>1, <5>1, CutsAtASpace
        <5>3. Cut(t, b) >= b
              BY <1>1, <4>3, <5>1, <5>2
        <5>4. QED
              BY <5>3 DEF b
      <4>5. Within(Span(lo, hi), Bridge(Span(i, e), Span(e + 1, Cut(t, e + 1))))
            BY <1>2, <2>5, <4>1, <4>4, BridgeHolds
      <4>6. c[2] = rest[1] /\ 1 \in DOMAIN c /\ 1 < Len(c)
        <5>1. 1 \in 1..n /\ 1 + 1 = 2
              BY <1>5, <4>2
        <5>2. c[1 + 1] = rest[1]
              BY <1>5, <5>1
        <5>3. QED
              BY <1>5, <5>1, <5>2
      <4>7. Within(Span(lo, hi), Bridge(c[1], c[1 + 1]))
        <5>1. c[1] = Span(i, e) /\ c[1 + 1] = Span(e + 1, Cut(t, e + 1))
              BY <1>5, <4>2, <4>6 DEF w
        <5>2. QED
              BY <4>5, <5>1, Zenon
      <4>8. QED
            BY <4>6, <4>7 DEF Seen
    <3>4. QED
          BY <3>1, <3>2, <3>3
  <2>6. QED
        BY <2>3, <2>4, <2>5
<1>10. Safe(c, t, i)
       BY <1>5, <1>8, <1>9 DEF Safe, R
<1>11. QED
       BY <1>10 DEF c, w, e

-----------------------------------------------------------------------------
(***************************************************************************)
(* Reading off: recursion along the positions of a text.                   *)
(***************************************************************************)
\* Positions 1 to n, each with a later one to go on from, up to n + 1.
Forward(next, n) == n \in Nat /\ next \in [1..n -> 1..(n + 1)] /\ \A i \in 1..n : next[i] > i

\* What such recursion descends along.
LEMMA ForwardDescends ==
    ASSUME NEW next, NEW n, Forward(next, n)
    PROVE  /\ Descends(1..(n + 1), {n + 1}, [i \in 1..(n + 1) |-> n + 1 - i],
                       [i \in 1..(n + 1) |-> IF i \in {n + 1} THEN i ELSE next[i]])
           /\ \A i \in 1..(n + 1) : [x \in 1..(n + 1) |-> n + 1 - x][i] <= n + 1
<1> DEFINE X == 1..(n + 1)
           Final == {n + 1}
           size == [i \in X |-> n + 1 - i]
           later == [i \in X |-> IF i \in Final THEN i ELSE next[i]]
<1>1. n \in Nat /\ next \in [1..n -> X] /\ \A i \in 1..n : next[i] > i
      BY DEF Forward
<1>2. Final \subseteq X /\ size \in [X -> Nat] /\ \A i \in X : size[i] <= n + 1
      BY <1>1
<1>3. \A i \in X \ Final : i \in 1..n /\ later[i] = next[i]
      BY <1>1
<1>4. later \in [X -> X]
  <2>1. \A i \in X : (IF i \in Final THEN i ELSE next[i]) \in X
    <3>1. TAKE i \in X
    <3>2. CASE i \in Final
          BY <3>2
    <3>3. CASE i \notin Final
          BY <1>1, <1>3, <3>3
    <3>4. QED
          BY <3>2, <3>3
  <2> HIDE DEF Final, X
  <2>2. QED
        BY <2>1
<1>5. ASSUME NEW i \in X \ Final PROVE size[later[i]] < size[i]
  <2>1. later[i] \in X /\ later[i] > i /\ i \in X
        BY <1>1, <1>3
  <2> HIDE DEF later
  <2>2. QED
        BY <1>1, <2>1
<1>6. Descends(X, Final, size, later)
  <2> HIDE DEF X, Final, size, later
  <2>1. QED
        BY <1>2, <1>4, <1>5 DEF Descends
<1>7. QED
      BY <1>2, <1>6

\* What holds after the end, and of a position when it holds where it goes on,
\* holds of all.
LEMMA ForwardReaches ==
    ASSUME NEW next, NEW n, Forward(next, n), NEW Good, n + 1 \in Good,
           \A i \in 1..n : next[i] \in Good => i \in Good
    PROVE  \A i \in 1..(n + 1) : i \in Good
<1> DEFINE X == 1..(n + 1)
           Final == {n + 1}
           size == [i \in X |-> n + 1 - i]
           later == [i \in X |-> IF i \in Final THEN i ELSE next[i]]
<1>1. n \in Nat
      BY DEF Forward
<1>2. Descends(X, Final, size, later)
      BY ForwardDescends
<1>3. \A i \in Final : i \in Good
      OBVIOUS
<1>4. \A i \in X \ Final : later[i] \in Good => i \in Good
  <2>1. \A i \in X \ Final : i \in 1..n /\ later[i] = next[i]
        BY <1>1
  <2> HIDE DEF X, Final, later
  <2>2. QED
        BY <2>1
<1> HIDE DEF X, Final, later, size
<1>5. \A i \in X : i \in Good
      BY <1>2, <1>3, <1>4, DescentReaches
<1>6. QED
      BY <1>5 DEF X

\* A sequence read off along such positions.
ReadsOff(f, out, next, n) ==
    /\ f[n + 1] = <<>>
    /\ \A i \in 1..n : f[i] = <<out[i]>> \o f[next[i]]

\* There is what recursion reads off.
LEMMA ReadingOff ==
    ASSUME NEW next, NEW n, Forward(next, n), NEW R, NEW out \in [1..n -> R]
    PROVE  \E f \in [1..(n + 1) -> Seq(R)] : ReadsOff(f, out, next, n)
<1> DEFINE X == 1..(n + 1)
           Final == {n + 1}
           V == Seq(R)
           most == n + 1
           size == [i \in X |-> n + 1 - i]
           later == [i \in X |-> IF i \in Final THEN i ELSE next[i]]
           base == [i \in X |-> <<>>]
           step == [iv \in X \X V |-> IF iv[1] \in Final THEN <<>> ELSE <<out[iv[1]]>> \o iv[2]]
<1>1. n \in Nat /\ most \in Nat /\ \A i \in 1..n : next[i] \in X
      BY DEF Forward
<1>2. Descends(X, Final, size, later) /\ \A i \in X : size[i] <= most
      BY ForwardDescends
<1>3. base \in [X -> V]
      OBVIOUS
<1>4. \A i \in X \ Final : i \in 1..n /\ later[i] = next[i] /\ out[i] \in R
      BY <1>1
<1>5. step \in [X \X V -> V]
  <2>1. ASSUME NEW i \in X, NEW v \in V
        PROVE  (IF i \in Final THEN <<>> ELSE <<out[i]>> \o v) \in V
    <3>1. CASE i \in Final
          BY <3>1
    <3>2. CASE i \notin Final
      <4> DEFINE w == out[i]
      <4>1. w \in R
            BY <1>4, <3>2
      <4> HIDE DEF w
      <4>2. <<w>> \o v \in Seq(R)
            BY <4>1
      <4>3. QED
            BY <3>2, <4>2 DEF w
    <3>3. QED
          BY <3>1, <3>2
  <2> HIDE DEF X, V, Final
  <2>2. QED
        BY <2>1
<1>6. PICK f \in [X -> V] : Follows(f, X, Final, later, base, step)
  <2> HIDE DEF X, Final, V, most, size, later, base, step
  <2>1. QED
        BY <1>1, <1>2, <1>3, <1>5, DescentDefines
<1>7. \A i \in X : f[i] = IF i \in Final THEN base[i] ELSE step[<<i, f[later[i]]>>]
  <2> HIDE DEF X, Final, V, later, base, step
  <2>1. QED
        BY <1>6 DEF Follows
<1>8. f[n + 1] = <<>>
  <2>1. n + 1 \in X /\ n + 1 \in Final
        BY <1>1
  <2>2. base[n + 1] = <<>>
        BY <2>1
  <2> HIDE DEF X, Final, base, step, later
  <2>3. QED
        BY <1>7, <2>1, <2>2
<1>9. ASSUME NEW i \in 1..n PROVE f[i] = <<out[i]>> \o f[next[i]]
  <2>1. i \in X \ Final /\ later[i] = next[i] /\ next[i] \in X
        BY <1>1, <1>4
  <2>2. f[next[i]] \in V
    <3> HIDE DEF V, X
    <3>1. QED
          BY <1>6, <2>1
  <2>3. f[i] = step[<<i, f[next[i]]>>]
    <3> HIDE DEF V, X, Final, later, step, base
    <3>1. QED
          BY <1>7, <2>1
  <2> DEFINE v == f[next[i]]
  <2>4. step[<<i, v>>] = <<out[i]>> \o v
    <3> HIDE DEF V, X, Final, v
    <3>1. QED
          BY <2>1, <2>2 DEF v
  <2>5. QED
        BY <2>3, <2>4
<1>10. ReadsOff(f, out, next, n)
       BY <1>8, <1>9 DEF ReadsOff
<1>11. QED
       BY <1>6, <1>10

\* However long the text, its chunks are safe.
LEMMA ChunksAreSafe ==
    ASSUME NEW t, Sized(t)
    PROVE  Safe(Chunks(t), t, 1)
<1> DEFINE L == Len(t)
           R == [lo : 1..L, hi : 0..L]
           next == [i \in 1..L |-> IF Cut(t, i) < i THEN L + 1 ELSE Cut(t, i) + 1]
           out == [i \in 1..L |-> Span(i, Cut(t, i))]
           Body(f) == [i \in 1..(L + 1) |->
                          IF i > L THEN <<>>
                          ELSE <<Span(i, Cut(t, i))>> \o (IF Cut(t, i) < i THEN <<>> ELSE f[Cut(t, i) + 1])]
           from == CHOOSE f : f = Body(f)
<1>1. Encoded(t) /\ L \in Nat
      BY DEF Sized, Encoded
<1>2. \A i \in 1..L : Cut(t, i) \in (i - 1)..L
      BY <1>1, CutsAtASpace
<1>3. Forward(next, L)
  <2>1. \A i \in 1..L : next[i] \in 1..(L + 1) /\ next[i] > i
        BY <1>1, <1>2
  <2>2. next \in [1..L -> 1..(L + 1)]
    <3>1. \A i \in 1..L : (IF Cut(t, i) < i THEN L + 1 ELSE Cut(t, i) + 1) \in 1..(L + 1)
          BY <2>1
    <3>2. QED
          BY <3>1
  <2> HIDE DEF next
  <2>3. QED
        BY <1>1, <2>1, <2>2 DEF Forward
<1>4. out \in [1..L -> R]
  <2>1. \A i \in 1..L : Span(i, Cut(t, i)) \in R
        BY <1>1, <1>2 DEF Span
  <2> HIDE DEF R
  <2>2. QED
        BY <2>1
<1>5. PICK f \in [1..(L + 1) -> Seq(R)] : ReadsOff(f, out, next, L)
  <2> HIDE DEF out, next, R
  <2>1. QED
        BY <1>3, <1>4, ReadingOff
<1>6. f = Body(f)
  <2>1. ASSUME NEW i \in 1..(L + 1)
        PROVE  f[i] = IF i > L THEN <<>>
                      ELSE <<Span(i, Cut(t, i))>> \o (IF Cut(t, i) < i THEN <<>> ELSE f[Cut(t, i) + 1])
    <3>1. f[L + 1] = <<>> /\ \A j \in 1..L : f[j] = <<out[j]>> \o f[next[j]]
      <4> HIDE DEF out, next
      <4>1. QED
            BY <1>5 DEF ReadsOff
    <3>2. CASE i > L
      <4>1. i = L + 1
            BY <1>1, <3>2
      <4> HIDE DEF out, next
      <4>2. QED
            BY <3>1, <3>2, <4>1
    <3>3. CASE ~(i > L)
      <4>1. i \in 1..L
            BY <1>1, <3>3
      <4>2. out[i] = Span(i, Cut(t, i)) /\ next[i] = IF Cut(t, i) < i THEN L + 1 ELSE Cut(t, i) + 1
            BY <4>1
      <4> HIDE DEF out, next
      <4>3. f[i] = <<Span(i, Cut(t, i))>> \o f[next[i]]
            BY <3>1, <4>1, <4>2
      <4>4. CASE Cut(t, i) < i
            BY <3>1, <3>3, <4>2, <4>3, <4>4
      <4>5. CASE ~(Cut(t, i) < i)
            BY <3>3, <4>2, <4>3, <4>5
      <4>6. QED
            BY <4>4, <4>5
    <3>4. QED
          BY <3>2, <3>3
  <2> DEFINE g == Body(f)
             X == 1..(L + 1)
  <2>2. DOMAIN g = X /\ g = [i \in X |-> g[i]] /\ \A i \in X : f[i] = g[i]
        BY <2>1
  <2>3. f = [i \in X |-> f[i]]
        BY <1>5
  <2> HIDE DEF g, X
  <2>4. f = g
        BY <2>2, <2>3
  <2>5. QED
        BY <2>4 DEF g
<1>7. from = Body(from)
  <2> HIDE DEF Body
  <2>1. QED
        BY <1>6
<1>8. \A i \in 1..(L + 1) : from[i] = IF i > L THEN <<>>
           ELSE <<Span(i, Cut(t, i))>> \o (IF Cut(t, i) < i THEN <<>> ELSE from[Cut(t, i) + 1])
  <2> HIDE DEF from
  <2>1. QED
        BY <1>7
<1>9. Chunks(t) = from[1]
      BY Zenon DEF Chunks, Cut
<1> HIDE DEF from, Body
<1> DEFINE Good == {i \in 1..(L + 1) : Safe(from[i], t, i)}
<1>10. L + 1 \in Good
  <2>1. L + 1 \in 1..(L + 1) /\ L + 1 > L
        BY <1>1
  <2>2. from[L + 1] = <<>>
        BY <1>8, <2>1
  <2>3. Safe(from[L + 1], t, L + 1)
        BY <1>1, <2>2, NothingToCut
  <2>4. QED
        BY <2>1, <2>3
<1>11. ASSUME NEW i \in 1..L, next[i] \in Good PROVE i \in Good
  <2>1. i \in 1..(L + 1) /\ ~(i > L)
        BY <1>1
  <2>2. from[i] = <<Span(i, Cut(t, i))>> \o (IF Cut(t, i) < i THEN <<>> ELSE from[Cut(t, i) + 1])
        BY <1>8, <2>1
  <2>3. CASE Cut(t, i) < i
    <3>1. from[i] = <<Span(i, Cut(t, i))>> \o <<>>
          BY <2>2, <2>3
    <3> DEFINE w == Span(i, Cut(t, i))
    <3> HIDE DEF w
    <3>2. <<w>> \o <<>> = <<w>>
          OBVIOUS
    <3>3. from[i] = <<Span(i, Cut(t, i))>>
          BY <3>1, <3>2 DEF w
    <3>4. Safe(from[i], t, i)
          BY <1>1, <2>3, <3>3, RefusedChunk
    <3>5. QED
          BY <2>1, <3>4
  <2>4. CASE ~(Cut(t, i) < i)
    <3>1. next[i] = Cut(t, i) + 1
          BY <2>4
    <3>2. Safe(from[Cut(t, i) + 1], t, Cut(t, i) + 1)
      <4> HIDE DEF next
      <4>1. QED
            BY <1>11, <3>1
    <3>3. Cut(t, i) >= i
          BY <1>1, <1>2, <2>4
    <3>4. Safe(<<Span(i, Cut(t, i))>> \o from[Cut(t, i) + 1], t, i)
          BY <3>2, <3>3, NextChunk
    <3>5. from[i] = <<Span(i, Cut(t, i))>> \o from[Cut(t, i) + 1]
          BY <2>2, <2>4
    <3>6. QED
          BY <2>1, <3>4, <3>5
  <2>5. QED
        BY <2>3, <2>4
<1>12. 1 \in Good
  <2>1. \A i \in 1..L : next[i] \in Good => i \in Good
        BY <1>11
  <2>2. 1 \in 1..(L + 1)
        BY <1>1
  <2> HIDE DEF Good, next, L
  <2>3. \A i \in 1..(L + 1) : i \in Good
        BY <1>3, <1>10, <2>1, ForwardReaches
  <2>4. QED
        BY <2>2, <2>3
<1>13. QED
       BY <1>9, <1>12

-----------------------------------------------------------------------------
(***************************************************************************)
(* TypeMasks and labels: what the pieces' answers add up to.                   *)
(***************************************************************************)
\* Every info type has a mask character of its own.
LEMMA MasksAreTheirOwn ==
    /\ MaskOf \in [InfoTypes -> 1..MaskCharacters]
    /\ \A a, b \in InfoTypes : MaskOf[a] = MaskOf[b] => a = b
<1> DEFINE n == Cardinality(InfoTypes)
<1>1. IsFiniteSet(InfoTypes) /\ MaskCharacters \in Nat /\ n <= MaskCharacters
      BY SplitAssumption
<1>2. n \in Nat /\ ExistsBijection(1..n, InfoTypes)
      BY <1>1, FS_CardinalityType
<1> HIDE DEF n
<1>3. PICK g : g \in [1..n -> InfoTypes] /\ \A x \in InfoTypes : \E k \in 1..n : g[k] = x
      BY <1>2 DEF ExistsBijection, Bijection, Surjection
<1> DEFINE h == [x \in InfoTypes |-> CHOOSE k \in 1..n : g[k] = x]
<1>4. ASSUME NEW x \in InfoTypes PROVE h[x] \in 1..n /\ g[h[x]] = x
  <2>1. \E k \in 1..n : g[k] = x
        BY <1>3
  <2>2. QED
        BY <2>1
<1>5. h \in [InfoTypes -> 1..MaskCharacters]
  <2>1. \A x \in InfoTypes : h[x] \in 1..MaskCharacters
    <3> HIDE DEF h
    <3>1. QED
          BY <1>1, <1>2, <1>4
  <2>2. DOMAIN h = InfoTypes /\ h = [x \in InfoTypes |-> h[x]]
        OBVIOUS
  <2> HIDE DEF h
  <2>3. QED
        BY <2>1, <2>2
<1>6. IsInjective(h)
  <2>1. DOMAIN h = InfoTypes
        OBVIOUS
  <2> HIDE DEF h
  <2>2. QED
        BY <1>4, <2>1 DEF IsInjective
<1> HIDE DEF h
<1>7. MaskOf \in [InfoTypes -> 1..MaskCharacters] /\ IsInjective(MaskOf)
      BY <1>5, <1>6 DEF MaskOf
<1>8. QED
      BY <1>7 DEF IsInjective

\* What may be found: identifiers with a space between any two.
Findable(t, found) ==
    /\ IsFiniteSet(found)
    /\ \A x \in found : /\ x.type \in InfoTypes /\ Token(t, x.at.lo, x.at.hi)
                        /\ x.at = Span(x.at.lo, x.at.hi)
    /\ \A x, y \in found : x = y \/ x.at.hi + 1 < y.at.lo \/ y.at.hi + 1 < x.at.lo

\* A position of a finding, and of no other.
LEMMA OneFinding ==
    ASSUME NEW t, Len(t) \in Nat, NEW found, Findable(t, found), NEW x \in found
    PROVE  /\ x.at.lo \in 1..Len(t) /\ x.at.hi \in (x.at.lo)..Len(t)
           /\ \A i \in (x.at.lo)..(x.at.hi), y \in found : i \in (y.at.lo)..(y.at.hi) => y = x
<1>1. ASSUME NEW y \in found PROVE y.at.lo \in 1..Len(t) /\ y.at.hi \in (y.at.lo)..Len(t)
      BY DEF Findable, Token
<1>2. ASSUME NEW i \in (x.at.lo)..(x.at.hi), NEW y \in found, i \in (y.at.lo)..(y.at.hi) PROVE y = x
  <2>1. x = y \/ x.at.hi + 1 < y.at.lo \/ y.at.hi + 1 < x.at.lo
        BY DEF Findable
  <2>2. x.at.lo \in Nat /\ x.at.hi \in Nat /\ y.at.lo \in Nat /\ y.at.hi \in Nat
        BY <1>1
  <2>3. ~(x.at.hi + 1 < y.at.lo) /\ ~(y.at.hi + 1 < x.at.lo)
        BY <1>2, <2>2
  <2>4. QED
        BY <2>1, <2>3
<1>3. QED
      BY <1>1, <1>2

\* A piece masks a position of a finding when it holds the whole finding.
LEMMA MaskedWhenHeld ==
    ASSUME NEW t, Len(t) \in Nat, NEW found, Findable(t, found), NEW piece,
           NEW x \in found, NEW i \in (x.at.lo)..(x.at.hi)
    PROVE  Masked(piece, found, i) = IF Within(x.at, piece) THEN MaskOf[x.type] ELSE 0
<1> DEFINE seen == {y \in found : Within(y.at, piece) /\ i \in (y.at.lo)..(y.at.hi)}
<1>1. Masked(piece, found, i) = IF seen = {} THEN 0 ELSE MaskOf[(CHOOSE y \in seen : TRUE).type]
      BY Zenon DEF Masked
<1>2. \A y \in seen : y = x
      BY OneFinding
<1>3. x \in seen <=> Within(x.at, piece)
      OBVIOUS
<1> HIDE DEF seen
<1>4. CASE Within(x.at, piece)
  <2>1. x \in seen
        BY <1>3, <1>4
  <2>2. (CHOOSE y \in seen : TRUE) = x
        BY <1>2, <2>1
  <2>3. seen # {}
        BY <2>1
  <2>4. QED
        BY <1>1, <1>4, <2>2, <2>3, Zenon
<1>5. CASE ~Within(x.at, piece)
  <2>1. seen = {}
        BY <1>2, <1>3, <1>5
  <2>2. QED
        BY <1>1, <1>5, <2>1, Zenon
<1>6. QED
      BY <1>4, <1>5

\* No piece masks another position.
LEMMA UnmaskedElsewhere ==
    ASSUME NEW found, NEW piece, NEW i, \A x \in found : i \notin (x.at.lo)..(x.at.hi)
    PROVE  Masked(piece, found, i) = 0
<1> DEFINE seen == {y \in found : Within(y.at, piece) /\ i \in (y.at.lo)..(y.at.hi)}
<1>1. Masked(piece, found, i) = IF seen = {} THEN 0 ELSE MaskOf[(CHOOSE y \in seen : TRUE).type]
      BY Zenon DEF Masked
<1>2. seen = {}
      OBVIOUS
<1> HIDE DEF seen
<1>3. QED
      BY <1>1, <1>2, Zenon

\* The pieces that are inspected: the chunks and the bridges over their cuts.
LEMMA SeenIsInspected ==
    ASSUME NEW R, NEW c \in Seq(R), NEW lo, NEW hi, Seen(c, lo, hi)
    PROVE  \E k \in DOMAIN Inspected(c) : Within(Span(lo, hi), Inspected(c)[k])
<1> DEFINE n == Len(c)
           m == n - 1
           B(k) == Bridge(c[k], c[k + 1])
           S == {B(k) : k \in 1..m}
           b == [k \in 1..m |-> B(k)]
           T == R \cup S
           s == Span(lo, hi)
<1>1. n \in Nat /\ DOMAIN c = 1..n /\ c \in Seq(T)
      OBVIOUS
<1>2. PICK k \in 1..n : Within(s, c[k]) \/ (k < n /\ Within(s, B(k)))
      BY <1>1 DEF Seen
<1>3. m \in Nat
      BY <1>1, <1>2
<1>4. b \in [1..m -> S]
      OBVIOUS
<1>5. b \in Seq(T) /\ Len(b) = m /\ \A j \in 1..m : b[j] = B(j)
  <2>1. \A j \in 1..m : b[j] = B(j)
        OBVIOUS
  <2> HIDE DEF b, S, m
  <2>2. b \in Seq(S) /\ Len(b) = m
        BY <1>3, <1>4
  <2>3. QED
        BY <2>1, <2>2
<1>6. Inspected(c) = c \o b
      BY DEF Inspected
<1> HIDE DEF b, T, B, s
<1>7. /\ DOMAIN (c \o b) = 1..(n + m)
      /\ \A j \in 1..n : (c \o b)[j] = c[j]
      /\ \A j \in 1..m : (c \o b)[n + j] = b[j]
  <2>1. c \in Seq(T) /\ b \in Seq(T) /\ Len(c) = n /\ Len(b) = m /\ n \in Nat /\ m \in Nat
        BY <1>1, <1>3, <1>5
  <2> HIDE DEF n, m
  <2>2. DOMAIN (c \o b) = 1..(n + m) /\ \A j \in 1..n : (c \o b)[j] = c[j]
        BY <2>1
  <2>3. ASSUME NEW j \in 1..m PROVE (c \o b)[n + j] = b[j]
    <3>1. n + j \in 1..(n + m) /\ ~(n + j <= n) /\ (n + j) - n = j
          BY <2>1
    <3>2. (c \o b)[n + j] = b[(n + j) - n]
          BY <2>1, <3>1
    <3>3. QED
          BY <3>1, <3>2
  <2>4. QED
        BY <2>2, <2>3
<1> DEFINE d == c \o b
<1>8. CASE Within(s, c[k])
  <2>1. k \in DOMAIN d /\ d[k] = c[k]
        BY <1>1, <1>3, <1>7
  <2> HIDE DEF d
  <2>2. QED
        BY <1>6, <1>8, <2>1 DEF d, s
<1>9. CASE k < n /\ Within(s, B(k))
  <2>1. k \in 1..m /\ n + k \in 1..(n + m)
        BY <1>1, <1>9
  <2>2. n + k \in DOMAIN d /\ d[n + k] = B(k)
        BY <1>5, <1>7, <2>1
  <2> HIDE DEF d
  <2>3. QED
        BY <1>6, <1>9, <2>2 DEF d, s
<1>10. QED
       BY <1>2, <1>8, <1>9

\* Some number of a set is the least, and Min takes it.
LEMMA LeastIsThere ==
    ASSUME NEW N \in SUBSET Nat, N # {}
    PROVE  Min(N) \in N
<1>1. \E n \in N : \A y \in N : n =< y
      BY LeastNatural
<1>2. QED
      BY <1>1 DEF Min

\* Every position of a finding has the mask of its type, any other has none.
TypeMasks(m, found, n) ==
    /\ m \in [1..n -> 0..MaskCharacters]
    /\ \A x \in found : \A i \in (x.at.lo)..(x.at.hi) : m[i] = MaskOf[x.type]
    /\ \A i \in 1..n : (\A x \in found : i \notin (x.at.lo)..(x.at.hi)) => m[i] = 0

\* When some piece holds each of the findings, the merged masks are theirs.
LEMMA MergedMasks ==
    ASSUME NEW t, Encoded(t), NEW found, Findable(t, found),
           NEW pieces, DOMAIN pieces \in SUBSET Nat,
           \A x \in found : \E k \in DOMAIN pieces : Within(x.at, pieces[k])
    PROVE  TypeMasks(Merged(t, pieces, found), found, Len(t))
<1> DEFINE L == Len(t)
           m == Merged(t, pieces, found)
           masking(i) == {k \in DOMAIN pieces : Masked(pieces[k], found, i) # 0}
           mask(i) == IF masking(i) = {} THEN 0 ELSE Masked(pieces[Min(masking(i))], found, i)
<1>1. L \in Nat /\ DOMAIN t = 1..L
      BY DEF Encoded
<1>2. m = [i \in 1..L |-> mask(i)]
  <2>1. m = [i \in DOMAIN t |-> mask(i)]
        BY Zenon DEF Merged
  <2>2. QED
        BY <1>1, <2>1, Zenon
<1>3. ASSUME NEW x \in found, NEW i \in (x.at.lo)..(x.at.hi)
      PROVE  i \in 1..L /\ mask(i) = MaskOf[x.type] /\ MaskOf[x.type] \in 1..MaskCharacters
  <2>1. x.at.lo \in 1..L /\ x.at.hi \in (x.at.lo)..L
        BY <1>1, OneFinding
  <2>2. \A k \in DOMAIN pieces :
           Masked(pieces[k], found, i) = IF Within(x.at, pieces[k]) THEN MaskOf[x.type] ELSE 0
        BY <1>1, MaskedWhenHeld
  <2>3. MaskOf[x.type] \in 1..MaskCharacters
        BY MasksAreTheirOwn DEF Findable
  <2>4. PICK k \in DOMAIN pieces : Within(x.at, pieces[k])
        OBVIOUS
  <2>5. MaskOf[x.type] # 0
        BY <2>3
  <2>6. k \in masking(i)
        BY <2>2, <2>4, <2>5
  <2> DEFINE S == masking(i)
             first == Min(S)
  <2>7. S \in SUBSET Nat /\ S # {} /\ S \in SUBSET (DOMAIN pieces)
        BY <2>6
  <2>8. first \in S
    <3> HIDE DEF S
    <3>1. S \in SUBSET Nat /\ S # {}
          BY <2>7
    <3>2. QED
          BY <3>1, LeastIsThere
  <2> HIDE DEF first
  <2>9. first \in DOMAIN pieces /\ Masked(pieces[first], found, i) # 0
        BY <2>8
  <2>10. Masked(pieces[first], found, i) = MaskOf[x.type]
    <3>1. CASE Within(x.at, pieces[first])
          BY <2>2, <2>9, <3>1
    <3>2. CASE ~Within(x.at, pieces[first])
          BY <2>2, <2>9, <3>2
    <3>3. QED
          BY <3>1, <3>2
  <2>11. mask(i) = Masked(pieces[first], found, i)
    <3> HIDE DEF masking
    <3>1. QED
          BY <2>7, Zenon DEF first
  <2>12. i \in 1..L
         BY <1>1, <2>1
  <2>13. QED
         BY <2>3, <2>10, <2>11, <2>12
<1>4. ASSUME NEW i \in 1..L, \A x \in found : i \notin (x.at.lo)..(x.at.hi) PROVE mask(i) = 0
  <2>1. \A k \in DOMAIN pieces : Masked(pieces[k], found, i) = 0
        BY <1>4, UnmaskedElsewhere
  <2>2. masking(i) = {}
        BY <2>1
  <2> HIDE DEF masking
  <2>3. QED
        BY <2>2
<1> HIDE DEF mask, m
<1>5. \A i \in 1..L : m[i] = mask(i)
      BY <1>2
<1>6. MaskCharacters \in Nat
      BY SplitAssumption
<1>7. ASSUME NEW i \in 1..L PROVE mask(i) \in 0..MaskCharacters
  <2>1. CASE \A x \in found : i \notin (x.at.lo)..(x.at.hi)
        BY <1>4, <1>6, <2>1
  <2>2. CASE ~(\A x \in found : i \notin (x.at.lo)..(x.at.hi))
    <3>1. PICK x \in found : i \in (x.at.lo)..(x.at.hi)
          BY <2>2
    <3>2. mask(i) \in 1..MaskCharacters
          BY <1>3, <3>1
    <3>3. QED
          BY <1>6, <3>2
  <2>3. QED
        BY <2>1, <2>2
<1>8. m \in [1..L -> 0..MaskCharacters]
      BY <1>2, <1>7
<1>9. \A x \in found : \A i \in (x.at.lo)..(x.at.hi) : m[i] = MaskOf[x.type]
      BY <1>3, <1>5
<1>10. \A i \in 1..L : (\A x \in found : i \notin (x.at.lo)..(x.at.hi)) => m[i] = 0
       BY <1>4, <1>5
<1>11. QED
       BY <1>8, <1>9, <1>10 DEF TypeMasks, m

\* Where the run of one mask that starts at i ends.
RunEnd(m, n, i) == Max({j \in i..n : \A k \in i..j : m[k] = m[i]})

\* What the relabelling emits at a position, and where it goes on.
LabelAt(m, n) == [i \in 1..n |-> IF m[i] = 0 THEN Kept(i)
                                 ELSE Label(CHOOSE x \in InfoTypes : MaskOf[x] = m[i])]
LabelNext(m, n) == [i \in 1..n |-> IF m[i] = 0 THEN i + 1 ELSE RunEnd(m, n, i) + 1]

\* A run does not end before it starts.
LEMMA RunsEnd ==
    ASSUME NEW m, NEW n \in Nat, NEW i \in 1..n
    PROVE  /\ RunEnd(m, n, i) \in i..n
           /\ \A k \in i..RunEnd(m, n, i) : m[k] = m[i]
           /\ \A j \in i..n : (\A k \in i..j : m[k] = m[i]) => j <= RunEnd(m, n, i)
<1> DEFINE S == {j \in i..n : \A k \in i..j : m[k] = m[i]}
           e == RunEnd(m, n, i)
<1>1. i \in S
  <2>1. \A k \in i..i : k = i
        OBVIOUS
  <2>2. QED
        BY <2>1
<1>2. S \in SUBSET (0..n) /\ S # {}
      BY <1>1
<1>3. e = Max(S)
      BY DEF RunEnd
<1>4. e \in S /\ \A y \in S : e >= y
  <2> HIDE DEF S, e
  <2>1. QED
        BY <1>2, <1>3, GreatestIsThere
<1> HIDE DEF e
<1>5. e \in i..n /\ \A k \in i..e : m[k] = m[i]
      BY <1>4
<1>6. \A j \in i..n : (\A k \in i..j : m[k] = m[i]) => j <= e
  <2>1. TAKE j \in i..n
  <2>2. HAVE \A k \in i..j : m[k] = m[i]
  <2>3. j \in S
        BY <2>2
  <2> HIDE DEF S
  <2>4. e >= j
        BY <1>4, <2>3
  <2>5. QED
        BY <1>5, <2>4
<1>7. QED
      BY <1>5, <1>6 DEF e

\* Relabelling reads the labels off.
LEMMA LabelledReadsOff ==
    ASSUME NEW m, Len(m) \in Nat, DOMAIN m = 1..Len(m)
    PROVE  \E f : /\ Labelled(m) = f[1]
                  /\ ReadsOff(f, LabelAt(m, Len(m)), LabelNext(m, Len(m)), Len(m))
<1> DEFINE n == Len(m)
           next == LabelNext(m, n)
           out == LabelAt(m, n)
           R == {out[i] : i \in 1..n}
           X == 1..(n + 1)
           Body(f) == [i \in X |->
                          IF i > n THEN <<>>
                          ELSE IF m[i] = 0 THEN <<Kept(i)>> \o f[i + 1]
                          ELSE <<Label(CHOOSE x \in InfoTypes : MaskOf[x] = m[i])>> \o f[RunEnd(m, n, i) + 1]]
           from == CHOOSE f : f = Body(f)
<1>1. n \in Nat
      OBVIOUS
<1>2. \A i \in 1..n : RunEnd(m, n, i) \in i..n
      BY RunsEnd
<1>3. \A i \in 1..n : /\ next[i] = IF m[i] = 0 THEN i + 1 ELSE RunEnd(m, n, i) + 1
                      /\ out[i] = IF m[i] = 0 THEN Kept(i)
                                  ELSE Label(CHOOSE x \in InfoTypes : MaskOf[x] = m[i])
      BY DEF LabelNext, LabelAt
<1>4. Forward(next, n)
  <2>1. ASSUME NEW i \in 1..n PROVE next[i] \in X /\ next[i] > i
    <3>1. next[i] = (IF m[i] = 0 THEN i + 1 ELSE RunEnd(m, n, i) + 1) /\ RunEnd(m, n, i) \in i..n
          BY <1>2, <1>3
    <3> HIDE DEF next
    <3>2. CASE m[i] = 0
          BY <3>1, <3>2
    <3>3. CASE m[i] # 0
          BY <3>1, <3>3
    <3>4. QED
          BY <3>2, <3>3
  <2>2. next \in [1..n -> X]
    <3>1. next = [i \in 1..n |-> next[i]]
          BY DEF LabelNext
    <3> HIDE DEF next
    <3>2. QED
          BY <2>1, <3>1
  <2> HIDE DEF next
  <2>3. QED
        BY <2>1, <2>2 DEF Forward
<1>5. out \in [1..n -> R]
  <2>1. out = [i \in 1..n |-> out[i]]
        BY DEF LabelAt
  <2> HIDE DEF out
  <2>2. QED
        BY <2>1
<1>6. PICK f \in [X -> Seq(R)] : ReadsOff(f, out, next, n)
  <2> HIDE DEF out, next, R
  <2>1. QED
        BY <1>4, <1>5, ReadingOff
<1> HIDE DEF out, next, R
<1>7. f = Body(f)
  <2>1. ASSUME NEW i \in X
        PROVE  f[i] = IF i > n THEN <<>>
                      ELSE IF m[i] = 0 THEN <<Kept(i)>> \o f[i + 1]
                      ELSE <<Label(CHOOSE x \in InfoTypes : MaskOf[x] = m[i])>> \o f[RunEnd(m, n, i) + 1]
    <3>1. f[n + 1] = <<>> /\ \A j \in 1..n : f[j] = <<out[j]>> \o f[next[j]]
          BY <1>6 DEF ReadsOff
    <3>2. CASE i > n
      <4>1. i = n + 1
            BY <3>2
      <4>2. QED
            BY <3>1, <3>2, <4>1
    <3>3. CASE ~(i > n)
      <4>1. i \in 1..n
            BY <3>3
      <4> DEFINE type == CHOOSE x \in InfoTypes : MaskOf[x] = m[i]
      <4>2. out[i] = (IF m[i] = 0 THEN Kept(i) ELSE Label(type))
            /\ next[i] = (IF m[i] = 0 THEN i + 1 ELSE RunEnd(m, n, i) + 1)
            BY <1>3, <4>1
      <4> HIDE DEF type
      <4>3. f[i] = <<out[i]>> \o f[next[i]]
            BY <3>1, <4>1
      <4>4. CASE m[i] = 0
        <5>1. f[i] = <<Kept(i)>> \o f[i + 1]
              BY <4>2, <4>3, <4>4
        <5>2. QED
              BY <3>3, <4>4, <5>1
      <4>5. CASE m[i] # 0
        <5>1. f[i] = <<Label(type)>> \o f[RunEnd(m, n, i) + 1]
              BY <4>2, <4>3, <4>5
        <5>2. QED
              BY <3>3, <4>5, <5>1 DEF type
      <4>6. QED
            BY <4>4, <4>5
    <3>4. QED
          BY <3>2, <3>3
  <2> DEFINE g == Body(f)
  <2>2. DOMAIN g = X /\ g = [i \in X |-> g[i]] /\ \A i \in X : f[i] = g[i]
        BY <2>1
  <2>3. f = [i \in X |-> f[i]]
        BY <1>6
  <2> HIDE DEF g, X
  <2>4. f = g
        BY <2>2, <2>3
  <2>5. QED
        BY <2>4 DEF g
<1>8. from = Body(from)
  <2> HIDE DEF Body
  <2>1. QED
        BY <1>7
<1>9. Labelled(m) = from[1]
      BY Zenon DEF Labelled, RunEnd
<1> HIDE DEF from, n
<1>10. \A i \in X : from[i] = IF i > n THEN <<>>
            ELSE IF m[i] = 0 THEN <<Kept(i)>> \o from[i + 1]
            ELSE <<Label(CHOOSE x \in InfoTypes : MaskOf[x] = m[i])>> \o from[RunEnd(m, n, i) + 1]
       BY <1>8
<1> HIDE DEF Body
<1>11. from[n + 1] = <<>>
  <2>1. n + 1 \in X /\ n + 1 > n
        BY <1>1
  <2>2. QED
        BY <1>10, <2>1
<1>12. ASSUME NEW i \in 1..n PROVE from[i] = <<out[i]>> \o from[next[i]]
  <2>1. i \in X /\ ~(i > n)
        BY <1>1
  <2> DEFINE type == CHOOSE x \in InfoTypes : MaskOf[x] = m[i]
  <2>2. from[i] = IF m[i] = 0 THEN <<Kept(i)>> \o from[i + 1]
                  ELSE <<Label(type)>> \o from[RunEnd(m, n, i) + 1]
        BY <1>10, <2>1
  <2>3. out[i] = (IF m[i] = 0 THEN Kept(i) ELSE Label(type))
        /\ next[i] = (IF m[i] = 0 THEN i + 1 ELSE RunEnd(m, n, i) + 1)
        BY <1>3
  <2> HIDE DEF type
  <2>4. CASE m[i] = 0
        BY <2>2, <2>3, <2>4
  <2>5. CASE m[i] # 0
        BY <2>2, <2>3, <2>5
  <2>6. QED
        BY <2>4, <2>5
<1>13. ReadsOff(from, out, next, n)
       BY <1>11, <1>12 DEF ReadsOff
<1>14. QED
       BY <1>9, <1>13 DEF out, next, n

\* The finding that starts at a position, if one does.
FindingStarts(found, i) == \E x \in found : x.at.lo = i
StartingAt(found, i) == CHOOSE x \in found : x.at.lo = i

\* What the replacement emits at a position, and where it goes on.
EmittedAt(found, n) == [i \in 1..n |-> IF FindingStarts(found, i) THEN Label(StartingAt(found, i).type)
                                       ELSE Kept(i)]
EmittedNext(found, n) == [i \in 1..n |-> IF FindingStarts(found, i) THEN StartingAt(found, i).at.hi + 1
                                         ELSE i + 1]

\* The replacement goes forward.
LEMMA ReplacingGoesForward ==
    ASSUME NEW t, Len(t) \in Nat, NEW found, Findable(t, found)
    PROVE  Forward(EmittedNext(found, Len(t)), Len(t))
<1> DEFINE n == Len(t)
           next == EmittedNext(found, n)
           X == 1..(n + 1)
<1>1. ASSUME NEW i \in 1..n PROVE next[i] \in X /\ next[i] > i
  <2>1. next[i] = IF FindingStarts(found, i) THEN StartingAt(found, i).at.hi + 1 ELSE i + 1
        BY DEF EmittedNext
  <2> HIDE DEF next
  <2>2. CASE FindingStarts(found, i)
    <3>1. StartingAt(found, i) \in found /\ StartingAt(found, i).at.lo = i
          BY <2>2 DEF FindingStarts, StartingAt
    <3> DEFINE x == StartingAt(found, i)
    <3> HIDE DEF x
    <3>2. x \in found /\ x.at.lo = i
          BY <3>1 DEF x
    <3>3. x.at.hi \in i..n
          BY <3>2, OneFinding
    <3>4. next[i] = x.at.hi + 1
          BY <2>1, <2>2 DEF x
    <3>5. QED
          BY <3>3, <3>4
  <2>3. CASE ~FindingStarts(found, i)
        BY <2>1, <2>3
  <2>4. QED
        BY <2>2, <2>3
<1>2. next = [i \in 1..n |-> next[i]]
      BY DEF EmittedNext
<1> HIDE DEF next
<1>3. next \in [1..n -> X]
      BY <1>1, <1>2
<1>4. Forward(next, n)
      BY <1>1, <1>3 DEF Forward
<1>5. QED
      BY <1>4 DEF next

\* Replacing reads the labels off.
LEMMA ReplacedReadsOff ==
    ASSUME NEW t, Len(t) \in Nat, NEW found, Findable(t, found)
    PROVE  \E f : /\ Replaced(t, found) = f[1]
                  /\ ReadsOff(f, EmittedAt(found, Len(t)), EmittedNext(found, Len(t)), Len(t))
<1> DEFINE n == Len(t)
           next == EmittedNext(found, n)
           out == EmittedAt(found, n)
           R == {out[i] : i \in 1..n}
           X == 1..(n + 1)
           Body(f) == [i \in X |->
                          IF i > n THEN <<>>
                          ELSE IF FindingStarts(found, i)
                          THEN <<Label(StartingAt(found, i).type)>> \o f[StartingAt(found, i).at.hi + 1]
                          ELSE <<Kept(i)>> \o f[i + 1]]
           from == CHOOSE f : f = Body(f)
<1>1. n \in Nat
      OBVIOUS
<1>2. \A i \in 1..n : /\ next[i] = IF FindingStarts(found, i) THEN StartingAt(found, i).at.hi + 1 ELSE i + 1
                      /\ out[i] = IF FindingStarts(found, i) THEN Label(StartingAt(found, i).type) ELSE Kept(i)
      BY DEF EmittedNext, EmittedAt
<1>3. Forward(next, n)
      BY ReplacingGoesForward
<1>4. out \in [1..n -> R]
  <2>1. out = [i \in 1..n |-> out[i]]
        BY DEF EmittedAt
  <2> HIDE DEF out
  <2>2. QED
        BY <2>1
<1>5. PICK f \in [X -> Seq(R)] : ReadsOff(f, out, next, n)
  <2> HIDE DEF out, next, R, n
  <2>1. QED
        BY <1>3, <1>4, ReadingOff
<1> HIDE DEF out, next, R
<1>6. f = Body(f)
  <2>1. ASSUME NEW i \in X
        PROVE  f[i] = IF i > n THEN <<>>
                      ELSE IF FindingStarts(found, i)
                      THEN <<Label(StartingAt(found, i).type)>> \o f[StartingAt(found, i).at.hi + 1]
                      ELSE <<Kept(i)>> \o f[i + 1]
    <3>1. f[n + 1] = <<>> /\ \A j \in 1..n : f[j] = <<out[j]>> \o f[next[j]]
          BY <1>5 DEF ReadsOff
    <3>2. CASE i > n
      <4>1. i = n + 1
            BY <1>1, <3>2
      <4>2. QED
            BY <3>1, <3>2, <4>1
    <3>3. CASE ~(i > n)
      <4>1. i \in 1..n
            BY <1>1, <3>3
      <4>2. out[i] = (IF FindingStarts(found, i) THEN Label(StartingAt(found, i).type) ELSE Kept(i))
            /\ next[i] = (IF FindingStarts(found, i) THEN StartingAt(found, i).at.hi + 1 ELSE i + 1)
            BY <1>2, <4>1
      <4>3. f[i] = <<out[i]>> \o f[next[i]]
            BY <3>1, <4>1
      <4>4. CASE FindingStarts(found, i)
        <5>1. f[i] = <<Label(StartingAt(found, i).type)>> \o f[StartingAt(found, i).at.hi + 1]
              BY <4>2, <4>3, <4>4
        <5>2. QED
              BY <3>3, <4>4, <5>1
      <4>5. CASE ~FindingStarts(found, i)
        <5>1. f[i] = <<Kept(i)>> \o f[i + 1]
              BY <4>2, <4>3, <4>5
        <5>2. QED
              BY <3>3, <4>5, <5>1
      <4>6. QED
            BY <4>4, <4>5
    <3>4. QED
          BY <3>2, <3>3
  <2> DEFINE g == Body(f)
  <2>2. DOMAIN g = X /\ g = [i \in X |-> g[i]] /\ \A i \in X : f[i] = g[i]
        BY <2>1
  <2>3. f = [i \in X |-> f[i]]
        BY <1>5
  <2> HIDE DEF g, X
  <2>4. f = g
        BY <2>2, <2>3
  <2>5. QED
        BY <2>4 DEF g
<1>7. from = Body(from)
  <2> HIDE DEF Body
  <2>1. QED
        BY <1>6
<1>8. Replaced(t, found) = from[1]
      BY Zenon DEF Replaced, FindingStarts, StartingAt
<1> HIDE DEF from, n
<1>9. \A i \in X : from[i] = IF i > n THEN <<>>
            ELSE IF FindingStarts(found, i)
            THEN <<Label(StartingAt(found, i).type)>> \o from[StartingAt(found, i).at.hi + 1]
            ELSE <<Kept(i)>> \o from[i + 1]
      BY <1>7
<1> HIDE DEF Body
<1>10. from[n + 1] = <<>>
  <2>1. n + 1 \in X /\ n + 1 > n
        BY <1>1
  <2>2. QED
        BY <1>9, <2>1
<1>11. ASSUME NEW i \in 1..n PROVE from[i] = <<out[i]>> \o from[next[i]]
  <2>1. i \in X /\ ~(i > n)
        BY <1>1
  <2>2. from[i] = IF FindingStarts(found, i)
                  THEN <<Label(StartingAt(found, i).type)>> \o from[StartingAt(found, i).at.hi + 1]
                  ELSE <<Kept(i)>> \o from[i + 1]
        BY <1>9, <2>1
  <2>3. out[i] = (IF FindingStarts(found, i) THEN Label(StartingAt(found, i).type) ELSE Kept(i))
        /\ next[i] = (IF FindingStarts(found, i) THEN StartingAt(found, i).at.hi + 1 ELSE i + 1)
        BY <1>2
  <2>4. CASE FindingStarts(found, i)
        BY <2>2, <2>3, <2>4
  <2>5. CASE ~FindingStarts(found, i)
        BY <2>2, <2>3, <2>5
  <2>6. QED
        BY <2>4, <2>5
<1>12. ReadsOff(from, out, next, n)
       BY <1>10, <1>11 DEF ReadsOff
<1>13. QED
       BY <1>8, <1>12 DEF out, next, n

\* Inside a finding, after its first character.
Inside(found, i) == \E x \in found : x.at.lo < i /\ i <= x.at.hi

\* A finding with its masks is one run of them, which ends with it.
LEMMA RunOfAFinding ==
    ASSUME NEW t, Encoded(t), NEW found, Findable(t, found), NEW m, TypeMasks(m, found, Len(t)),
           NEW x \in found
    PROVE  /\ m[x.at.lo] = MaskOf[x.type] /\ m[x.at.lo] # 0
           /\ RunEnd(m, Len(t), x.at.lo) = x.at.hi
           /\ ~Inside(found, x.at.hi + 1)
<1> DEFINE n == Len(t)
           i == x.at.lo
           h == x.at.hi
           e == RunEnd(m, n, i)
<1>1. n \in Nat /\ i \in 1..n /\ h \in i..n
  <2>1. Len(t) \in Nat
        BY DEF Encoded
  <2>2. QED
        BY <2>1, OneFinding
<1>2. \A k \in i..h : m[k] = MaskOf[x.type]
      BY DEF TypeMasks
<1>3. MaskOf[x.type] \in 1..MaskCharacters
      BY MasksAreTheirOwn DEF Findable
<1>4. m[i] = MaskOf[x.type] /\ m[i] # 0
  <2>1. i \in i..h
        BY <1>1
  <2>2. m[i] = MaskOf[x.type]
        BY <1>2, <2>1
  <2>3. QED
        BY <1>3, <2>2
<1>5. \A y \in found : /\ y.at.lo \in 1..n /\ y.at.hi \in (y.at.lo)..n
                       /\ y = x \/ h + 1 < y.at.lo \/ y.at.hi + 1 < i
  <2>1. \A y \in found : y.at.lo \in 1..n /\ y.at.hi \in (y.at.lo)..n
        BY <1>1, OneFinding
  <2>2. \A y \in found : x = y \/ h + 1 < y.at.lo \/ y.at.hi + 1 < i
        BY DEF Findable
  <2> HIDE DEF i, h, n
  <2>3. QED
        BY <2>1, <2>2
<1> HIDE DEF i, h, n
<1>6. ~Inside(found, h + 1)
  <2> SUFFICES ASSUME NEW y \in found, y.at.lo < h + 1, h + 1 <= y.at.hi PROVE FALSE
      BY DEF Inside
  <2>1. y.at.lo \in 1..n /\ y.at.hi \in (y.at.lo)..n
        BY <1>5
  <2>2. y # x
        BY <1>1, <2>1 DEF h
  <2>3. h + 1 < y.at.lo \/ y.at.hi + 1 < i
        BY <1>5, <2>2
  <2>4. QED
        BY <1>1, <2>1, <2>3
<1>7. /\ e \in i..n
      /\ \A k \in i..e : m[k] = m[i]
      /\ \A j \in i..n : (\A k \in i..j : m[k] = m[i]) => j <= e
      BY <1>1, RunsEnd
<1> HIDE DEF e
<1>8. h <= e
      BY <1>1, <1>2, <1>4, <1>7
<1>9. ~(h < e)
  <2> SUFFICES ASSUME h < e PROVE FALSE
      OBVIOUS
  <2>1. h + 1 \in 1..n /\ h + 1 \in i..e
        BY <1>1, <1>7
  <2>2. \A y \in found : h + 1 \notin (y.at.lo)..(y.at.hi)
    <3>1. TAKE y \in found
    <3>2. y.at.lo \in 1..n /\ y.at.hi \in (y.at.lo)..n
          BY <1>5
    <3>3. CASE y = x
          BY <1>1, <3>3 DEF h
    <3>4. CASE y # x
          BY <1>1, <1>5, <3>2, <3>4
    <3>5. QED
          BY <3>3, <3>4
  <2>3. m[h + 1] = 0
        BY <2>1, <2>2 DEF TypeMasks, n
  <2>4. m[h + 1] = m[i]
        BY <1>7, <2>1
  <2>5. QED
        BY <1>4, <2>3, <2>4
<1>10. e = h
       BY <1>1, <1>7, <1>8, <1>9
<1>11. QED
       BY <1>4, <1>6, <1>10 DEF e, i, h, n

\* Labels read off where the replacement does, and from there they are the same.
LEMMA LabelsAreReplacements ==
    ASSUME NEW t, Encoded(t), NEW found, Findable(t, found), NEW m, TypeMasks(m, found, Len(t))
    PROVE  Labelled(m) = Replaced(t, found)
<1> DEFINE n == Len(t)
           next == EmittedNext(found, n)
           out == EmittedAt(found, n)
           lnext == LabelNext(m, n)
           lout == LabelAt(m, n)
<1>1. n \in Nat
      BY DEF Encoded
<1>2. Len(m) = n /\ DOMAIN m = 1..Len(m)
  <2>1. m \in [1..n -> 0..MaskCharacters]
        BY DEF TypeMasks
  <2> HIDE DEF n
  <2>2. QED
        BY <1>1, <2>1
<1>3. PICK f : Labelled(m) = f[1] /\ ReadsOff(f, lout, lnext, n)
  <2>1. \E f : Labelled(m) = f[1]
              /\ ReadsOff(f, LabelAt(m, Len(m)), LabelNext(m, Len(m)), Len(m))
        BY <1>1, <1>2, LabelledReadsOff
  <2>2. QED
        BY <1>2, <2>1
<1>4. PICK g : Replaced(t, found) = g[1] /\ ReadsOff(g, out, next, n)
      BY <1>1, ReplacedReadsOff
<1>5. Forward(next, n)
      BY <1>1, ReplacingGoesForward
<1>6. /\ f[n + 1] = <<>> /\ g[n + 1] = <<>>
      /\ \A i \in 1..n : f[i] = <<lout[i]>> \o f[lnext[i]] /\ g[i] = <<out[i]>> \o g[next[i]]
  <2> HIDE DEF out, next, lout, lnext, n
  <2>1. QED
        BY <1>3, <1>4 DEF ReadsOff
<1>7. \A i \in 1..n :
         /\ next[i] = IF FindingStarts(found, i) THEN StartingAt(found, i).at.hi + 1 ELSE i + 1
         /\ out[i] = IF FindingStarts(found, i) THEN Label(StartingAt(found, i).type) ELSE Kept(i)
         /\ lnext[i] = IF m[i] = 0 THEN i + 1 ELSE RunEnd(m, n, i) + 1
         /\ lout[i] = IF m[i] = 0 THEN Kept(i)
                      ELSE Label(CHOOSE x \in InfoTypes : MaskOf[x] = m[i])
      BY DEF EmittedNext, EmittedAt, LabelNext, LabelAt
<1> HIDE DEF out, next, lout, lnext
<1> DEFINE Good == {i \in 1..(n + 1) : Inside(found, i) \/ f[i] = g[i]}
<1>8. n + 1 \in Good
      BY <1>1, <1>6
<1>9. ASSUME NEW i \in 1..n, next[i] \in Good PROVE i \in Good
  <2> SUFFICES ASSUME ~Inside(found, i) PROVE f[i] = g[i]
      BY <1>1
  <2>1. f[i] = <<lout[i]>> \o f[lnext[i]] /\ g[i] = <<out[i]>> \o g[next[i]]
        BY <1>6
  <2>2. Inside(found, next[i]) \/ f[next[i]] = g[next[i]]
        BY <1>9
  <2> HIDE DEF Good
  <2>3. CASE FindingStarts(found, i)
    <3> DEFINE x == StartingAt(found, i)
    <3>1. x \in found /\ x.at.lo = i
          BY <2>3 DEF FindingStarts, StartingAt
    <3>2. next[i] = x.at.hi + 1 /\ out[i] = Label(x.type)
          BY <1>7, <2>3
    <3> HIDE DEF x
    <3>3. /\ m[i] = MaskOf[x.type] /\ m[i] # 0
          /\ RunEnd(m, n, i) = x.at.hi
          /\ ~Inside(found, x.at.hi + 1)
      <4>1. /\ m[x.at.lo] = MaskOf[x.type] /\ m[x.at.lo] # 0
            /\ RunEnd(m, n, x.at.lo) = x.at.hi
            /\ ~Inside(found, x.at.hi + 1)
            BY <3>1, RunOfAFinding
      <4>2. QED
            BY <3>1, <4>1
    <3> DEFINE type == CHOOSE y \in InfoTypes : MaskOf[y] = m[i]
    <3>4. type = x.type
      <4>1. x.type \in InfoTypes
            BY <3>1 DEF Findable
      <4>2. type \in InfoTypes /\ MaskOf[type] = MaskOf[x.type]
            BY <3>3, <4>1
      <4> HIDE DEF type
      <4>3. QED
            BY <4>1, <4>2, MasksAreTheirOwn
    <3>5. lnext[i] = RunEnd(m, n, i) + 1 /\ lout[i] = Label(type)
          BY <1>7, <3>3
    <3> HIDE DEF type
    <3>6. lnext[i] = next[i] /\ lout[i] = out[i]
          BY <3>2, <3>3, <3>4, <3>5
    <3>7. f[next[i]] = g[next[i]]
          BY <2>2, <3>2, <3>3
    <3>8. QED
          BY <2>1, <3>6, <3>7
  <2>4. CASE ~FindingStarts(found, i)
    <3>1. next[i] = i + 1 /\ out[i] = Kept(i)
          BY <1>7, <2>4
    <3>2. ASSUME NEW x \in found PROVE i \notin (x.at.lo)..(x.at.hi) /\ ~(x.at.lo < i + 1 /\ i + 1 <= x.at.hi)
      <4>1. x.at.lo \in 1..n /\ x.at.hi \in (x.at.lo)..n
            BY <1>1, OneFinding
      <4>2. x.at.lo # i
            BY <2>4 DEF FindingStarts
      <4>3. ~(x.at.lo < i /\ i <= x.at.hi)
            BY DEF Inside
      <4>4. QED
            BY <1>1, <4>1, <4>2, <4>3
    <3>3. m[i] = 0
      <4>1. \A x \in found : i \notin (x.at.lo)..(x.at.hi)
            BY <3>2
      <4>2. QED
            BY <4>1 DEF TypeMasks
    <3>4. ~Inside(found, i + 1)
          BY <3>2 DEF Inside
    <3>5. lnext[i] = i + 1 /\ lout[i] = Kept(i)
          BY <1>7, <3>3
    <3>6. f[next[i]] = g[next[i]]
          BY <2>2, <3>1, <3>4
    <3>7. QED
          BY <2>1, <3>1, <3>5, <3>6
  <2>5. QED
        BY <2>3, <2>4
<1>10. 1 \in Good
  <2>1. \A i \in 1..n : next[i] \in Good => i \in Good
        BY <1>9
  <2>2. 1 \in 1..(n + 1)
        BY <1>1
  <2> HIDE DEF Good, n
  <2>3. \A i \in 1..(n + 1) : i \in Good
        BY <1>5, <1>8, <2>1, ForwardReaches
  <2>4. QED
        BY <2>2, <2>3
<1>11. ~Inside(found, 1)
  <2> SUFFICES ASSUME NEW x \in found, x.at.lo < 1 PROVE FALSE
      BY DEF Inside
  <2>1. x.at.lo \in 1..n
        BY <1>1, OneFinding
  <2>2. QED
        BY <1>1, <2>1
<1>12. QED
       BY <1>3, <1>4, <1>10, <1>11

\* What the texts of the model may hold is findable.
LEMMA FindsAreFindable ==
    ASSUME NEW t, Encoded(t), NEW found \in Finds(t)
    PROVE  Findable(t, found)
<1> DEFINE L == Len(t)
           ids == Identifiers(t)
           all == [at : ids, type : InfoTypes]
<1>1. L \in Nat /\ DOMAIN t = 1..L
      BY DEF Encoded
<1>2. ASSUME NEW s \in ids
      PROVE  /\ s = Span(s.lo, s.hi) /\ Token(t, s.lo, s.hi)
             /\ s.lo \in 1..L /\ s.hi \in (s.lo)..L
             /\ ~t[s.lo].space /\ (s.hi < L => t[s.hi + 1].space)
  <2>1. /\ s \in [lo : DOMAIN t, hi : DOMAIN t] /\ s.lo <= s.hi
        /\ Bytes(t, s.lo, s.hi) <= Context /\ ~t[s.lo].space
        /\ s.hi < L => t[s.hi + 1].space
        BY DEF Identifiers
  <2>2. s.lo \in 1..L /\ s.hi \in (s.lo)..L
        BY <1>1, <2>1
  <2>3. s = Span(s.lo, s.hi)
        BY <2>1 DEF Span
  <2>4. s.hi = L \/ t[s.hi + 1].space
        BY <1>1, <2>1, <2>2
  <2>5. QED
        BY <2>1, <2>2, <2>3, <2>4 DEF Token
<1> HIDE DEF ids
<1>3. ASSUME NEW x \in all
      PROVE  x.type \in InfoTypes /\ Token(t, x.at.lo, x.at.hi) /\ x.at = Span(x.at.lo, x.at.hi)
  <2>1. x.type \in InfoTypes /\ x.at \in ids
        OBVIOUS
  <2>2. QED
        BY <1>2, <2>1
<1>4. ASSUME NEW x \in all, NEW y \in all, x.at.hi < y.at.lo PROVE x.at.hi + 1 < y.at.lo
  <2> DEFINE a == x.at
             b == y.at
  <2>1. a \in ids /\ b \in ids /\ a.hi < b.lo
        BY <1>4
  <2> HIDE DEF a, b
  <2>2. /\ a.lo \in 1..L /\ a.hi \in (a.lo)..L /\ b.lo \in 1..L
        /\ ~t[b.lo].space /\ (a.hi < L => t[a.hi + 1].space)
        BY <1>2, <2>1
  <2>3. a.hi < L
        BY <1>1, <2>1, <2>2
  <2>4. a.hi + 1 # b.lo
        BY <2>2, <2>3
  <2>5. a.hi + 1 < b.lo
        BY <1>1, <2>1, <2>2, <2>4
  <2>6. QED
        BY <2>5 DEF a, b
<1> HIDE DEF all
<1>5. \/ found = {}
      \/ \E x \in all : found = {x}
      \/ \E v \in all \X all : v[1].at.hi < v[2].at.lo /\ found = {v[1], v[2]}
      BY DEF Finds, all, ids
<1>6. CASE found = {}
      BY <1>6, FS_EmptySet DEF Findable
<1>7. CASE \E x \in all : found = {x}
  <2>1. PICK x \in all : found = {x}
        BY <1>7
  <2>2. IsFiniteSet(found)
        BY <2>1, FS_Singleton
  <2>3. QED
        BY <1>3, <2>1, <2>2 DEF Findable
<1>8. CASE \E v \in all \X all : v[1].at.hi < v[2].at.lo /\ found = {v[1], v[2]}
  <2>1. PICK x \in all, y \in all : x.at.hi < y.at.lo /\ found = {x, y}
        BY <1>8
  <2>2. IsFiniteSet(found)
    <3>1. IsFiniteSet({x}) /\ found = {x} \cup {y}
          BY <2>1, FS_Singleton
    <3>2. QED
          BY <3>1, FS_AddElement
  <2>3. x.at.hi + 1 < y.at.lo
        BY <1>4, <2>1
  <2>4. \A a, b \in found : a = b \/ a.at.hi + 1 < b.at.lo \/ b.at.hi + 1 < a.at.lo
        BY <2>1, <2>3
  <2>5. QED
        BY <1>3, <2>1, <2>2, <2>4 DEF Findable
<1>9. QED
      BY <1>5, <1>6, <1>7, <1>8

\* The inspected pieces are numbered.
LEMMA InspectedAreNumbered ==
    ASSUME NEW R, NEW c \in Seq(R)
    PROVE  DOMAIN Inspected(c) \in SUBSET Nat /\ IsFiniteSet(DOMAIN Inspected(c))
<1> DEFINE n == Len(c)
           m == n - 1
           S == {Bridge(c[k], c[k + 1]) : k \in 1..m}
           b == [k \in 1..m |-> Bridge(c[k], c[k + 1])]
           T == R \cup S
           size == IF n = 0 THEN 0 ELSE m
<1>1. n \in Nat /\ c \in Seq(T) /\ size \in Nat
      OBVIOUS
<1>2. b \in [1..size -> S]
  <2>1. 1..size = 1..m
    <3>1. CASE n = 0
      <4>1. \A x : x \in 1..size <=> x \in 1..m
            BY <3>1
      <4>2. QED
            BY <4>1, Zenon
    <3>2. CASE n # 0
          BY <3>2
    <3>3. QED
          BY <3>1, <3>2
  <2>2. b \in [1..m -> S]
        OBVIOUS
  <2> HIDE DEF b, S, m, size
  <2>3. QED
        BY <2>1, <2>2
<1>3. b \in Seq(T)
  <2> HIDE DEF b, S, size
  <2>1. b \in Seq(S)
        BY <1>1, <1>2
  <2>2. QED
        BY <2>1
<1>4. Inspected(c) = c \o b
      BY DEF Inspected
<1> HIDE DEF b, T
<1> DEFINE d == c \o b
<1>5. d \in Seq(T)
      BY <1>1, <1>3
<1>6. Len(d) \in Nat /\ DOMAIN d = 1..Len(d)
  <2> HIDE DEF d
  <2>1. QED
        BY <1>5
<1> HIDE DEF d
<1>7. DOMAIN d \in SUBSET Nat /\ IsFiniteSet(DOMAIN d)
      BY <1>6, FS_Interval
<1>8. QED
      BY <1>4, <1>7 DEF d

\* What some piece holds is counted.
LEMMA EveryFindingIsCounted ==
    ASSUME NEW pieces, IsFiniteSet(DOMAIN pieces), NEW found, IsFiniteSet(found),
           \A x \in found : \E k \in DOMAIN pieces : Within(x.at, pieces[k])
    PROVE  Counted(pieces, found) >= Cardinality(found)
<1> DEFINE D == DOMAIN pieces
           S == {v \in D \X found : Within(v[2].at, pieces[v[1]])}
           f == [v \in S |-> v[2]]
<1>1. IsFiniteSet(S)
  <2>1. IsFiniteSet(D \X found)
        BY FS_Product
  <2>2. S \in SUBSET (D \X found)
        OBVIOUS
  <2> HIDE DEF S
  <2>3. QED
        BY <2>1, <2>2, FS_Subset
<1>2. f \in [S -> found] /\ \A x \in found : \E v \in S : f[v] = x
  <2>1. \A v \in S : v[2] \in found
        OBVIOUS
  <2>2. f \in [S -> found]
    <3> HIDE DEF S
    <3>1. QED
          BY <2>1
  <2>3. ASSUME NEW x \in found PROVE \E v \in S : f[v] = x
    <3>1. PICK k \in D : Within(x.at, pieces[k])
          OBVIOUS
    <3> DEFINE v == <<k, x>>
    <3>2. v \in S /\ v[2] = x
          BY <3>1
    <3> HIDE DEF S, v
    <3>3. f[v] = x
          BY <3>2
    <3> HIDE DEF f
    <3>4. QED
          BY <3>2, <3>3
  <2>4. QED
        BY <2>2, <2>3
<1>3. f \in Surjection(S, found)
  <2> HIDE DEF f, S
  <2>1. QED
        BY <1>2 DEF Surjection
<1>4. Counted(pieces, found) = Cardinality(S)
      BY Zenon DEF Counted
<1> HIDE DEF f, S, D
<1>5. Cardinality(found) <= Cardinality(S)
      BY <1>1, <1>3, FS_Surjection
<1>6. Cardinality(found) \in Nat /\ Cardinality(S) \in Nat
      BY <1>1, FS_CardinalityType
<1>7. QED
      BY <1>4, <1>5, <1>6

\* A text over characters of some bytes each is one that can be cut.
LEMMA TextsAreSized ==
    ASSUME NEW Chars, \A c \in Chars : c.bytes \in 1..WidestChar, NEW t \in Seq(Chars)
    PROVE  Sized(t) /\ Encoded(t)
<1>1. WidestChar \in Nat
      BY SplitAssumption
<1>2. \A i \in DOMAIN t : t[i] \in Chars
      OBVIOUS
<1>3. \A i \in DOMAIN t : t[i].bytes \in 1..WidestChar /\ t[i].bytes \in 0..WidestChar
      BY <1>1, <1>2
<1>4. t \in Seq(Range(t)) /\ Len(t) \in Nat /\ DOMAIN t = 1..Len(t)
      BY DEF Range
<1>5. QED
      BY <1>3, <1>4 DEF Sized, Encoded

\* However many identifiers a text of any length holds, and wherever its cuts
\* fall: unless it is refused, redacting the chunks and the bridges redacts each
\* identifier whole, under the name of its own type, keeps every other character
\* and counts no identifier less than once.  (DlpRedactionAdapter.redact)
THEOREM EveryIdentifierIsRedacted ==
    ASSUME NEW Chars, \A c \in Chars : c.bytes \in 1..WidestChar, NEW t \in Seq(Chars),
           ~Refuses(Chunks(t)), NEW found, Findable(t, found)
    PROVE  /\ Labelled(Merged(t, Inspected(Chunks(t)), found)) = Replaced(t, found)
           /\ Counted(Inspected(Chunks(t)), found) >= Cardinality(found)
<1> DEFINE c == Chunks(t)
           pieces == Inspected(c)
           L == Len(t)
           R == [lo : 1..L, hi : 0..L]
<1>1. Sized(t) /\ Encoded(t) /\ L \in Nat
  <2>1. Sized(t) /\ Encoded(t)
        BY TextsAreSized
  <2>2. QED
        BY <2>1 DEF Encoded
<1>2. Safe(c, t, 1)
      BY <1>1, ChunksAreSafe
<1>3. c \in Seq(R) /\ \A lo, hi \in 1..L : Token(t, lo, hi) /\ 1 <= lo => Seen(c, lo, hi)
  <2> HIDE DEF c
  <2>1. ~Refuses(c)
        BY DEF c
  <2>2. QED
        BY <1>2, <2>1 DEF Safe
<1>4. DOMAIN pieces \in SUBSET Nat /\ IsFiniteSet(DOMAIN pieces)
  <2> HIDE DEF c, R
  <2>1. QED
        BY <1>3, InspectedAreNumbered
<1> HIDE DEF c
<1>5. ASSUME NEW x \in found PROVE \E k \in DOMAIN pieces : Within(x.at, pieces[k])
  <2> DEFINE lo == x.at.lo
             hi == x.at.hi
  <2>1. Token(t, lo, hi) /\ x.at = Span(lo, hi)
        BY DEF Findable
  <2> HIDE DEF lo, hi
  <2>2. lo \in 1..L /\ hi \in 1..L /\ 1 <= lo
        BY <1>1, <2>1 DEF Token
  <2>3. Seen(c, lo, hi)
        BY <1>3, <2>1, <2>2
  <2>4. \E k \in DOMAIN Inspected(c) : Within(Span(lo, hi), Inspected(c)[k])
    <3> HIDE DEF R
    <3>1. QED
          BY <1>3, <2>3, SeenIsInspected
  <2>5. QED
        BY <2>1, <2>4
<1> HIDE DEF pieces
<1>6. TypeMasks(Merged(t, pieces, found), found, L)
      BY <1>1, <1>4, <1>5, MergedMasks
<1>7. Labelled(Merged(t, pieces, found)) = Replaced(t, found)
      BY <1>1, <1>6, LabelsAreReplacements
<1>8. Counted(pieces, found) >= Cardinality(found)
  <2>1. IsFiniteSet(found)
        BY DEF Findable
  <2>2. QED
        BY <1>4, <1>5, <2>1, EveryFindingIsCounted
<1>9. QED
      BY <1>7, <1>8 DEF pieces, c

\* No cut does harm, in a text of any length: no request exceeds the limit, no
\* identifier survives a cut, and only a token too long for its chunk makes the
\* redaction refuse.  (DlpRedactionAdapter.redact, _safe_chunks)
THEOREM NoCutDoesHarm ==
    ASSUME NEW Chars, \A c \in Chars : c.bytes \in 1..WidestChar, NEW t \in Seq(Chars)
    PROVE  IdentifiersNeverSurviveACut(t)
<1> DEFINE c == Chunks(t)
           L == Len(t)
<1>1. Sized(t) /\ Encoded(t) /\ L \in Nat /\ DOMAIN t = 1..L
  <2>1. Sized(t) /\ Encoded(t)
        BY TextsAreSized
  <2>2. QED
        BY <2>1 DEF Encoded
<1>2. Safe(c, t, 1)
      BY <1>1, ChunksAreSafe
<1> HIDE DEF c
<1>3. CASE Refuses(c)
  <2>1. PICK i \in 1..L : TooLong(t, i)
        BY <1>2, <1>3 DEF Safe
  <2>2. PICK j \in i..L : Bytes(t, i, j) > ChunkBytes /\ \A k \in i..(j - 1) : ~t[k].space
        BY <2>1 DEF TooLong
  <2>3. i \in DOMAIN t /\ j \in DOMAIN t /\ i <= j
        BY <1>1
  <2>4. \E a, z \in DOMAIN t : /\ a <= z /\ Bytes(t, a, z) > ChunkBytes
                              /\ \A k \in a..(z - 1) : ~t[k].space
        BY <2>2, <2>3
  <2>5. CutsAreHarmless(t, c, Inspected(c))
        BY <1>3, <2>4 DEF CutsAreHarmless
  <2>6. QED
        BY <2>5 DEF IdentifiersNeverSurviveACut, c
<1>4. CASE ~Refuses(c)
  <2>1. \A k \in DOMAIN c : Bytes(t, c[k].lo, c[k].hi) <= ChunkBytes
        BY <1>2, <1>4 DEF Safe
  <2>2. \A p \in Range(c) : Bytes(t, p.lo, p.hi) <= ChunkBytes
        BY <2>1 DEF Range
  <2>3. ASSUME NEW found \in Finds(t)
        PROVE  /\ Labelled(Merged(t, Inspected(c), found)) = Replaced(t, found)
               /\ Counted(Inspected(c), found) >= Cardinality(found)
    <3>1. Findable(t, found)
          BY <1>1, FindsAreFindable
    <3>2. QED
          BY <1>4, <3>1, EveryIdentifierIsRedacted DEF c
  <2>4. CutsAreHarmless(t, c, Inspected(c))
        BY <1>4, <2>2, <2>3 DEF CutsAreHarmless
  <2>5. QED
        BY <2>4 DEF IdentifiersNeverSurviveACut, c
<1>5. QED
      BY <1>3, <1>4
-----------------------------------------------------------------------------
(***************************************************************************)
(* Anchors: the best block of a claim, and of all claims.                  *)
(***************************************************************************)
\* What a division says of its quotient.
LEMMA DivisionIsMonotone ==
    ASSUME NEW a \in Int, NEW b \in Int, NEW c \in Nat \ {0}, a <= b
    PROVE  a \div c \in Int /\ a \div c <= b \div c
<1>1. /\ a \div c \in Int /\ c * (a \div c) <= a /\ a < c * (a \div c) + c
      /\ b \div c \in Int /\ c * (b \div c) <= b /\ b < c * (b \div c) + c
      OBVIOUS
<1> DEFINE x == a \div c
           y == b \div c
<1> HIDE DEF x, y
<1>2. x \in Int /\ y \in Int /\ c * x <= a /\ b < c * y + c
      BY <1>1 DEF x, y
<1>3. x >= y + 1 => c * x >= c * (y + 1)
      BY <1>2
<1>4. c * (y + 1) = c * y + c /\ c * y \in Int /\ c * x \in Int
      BY <1>2
<1>5. x <= y
      BY <1>2, <1>3, <1>4
<1>6. QED
      BY <1>2, <1>5 DEF x, y

\* A stored block whose words, page and place are known.
Stored(chunks) ==
    /\ \A c \in chunks : IsFiniteSet(c.words) /\ c.page \in Nat /\ c.ordinal \in Nat
    /\ \A a, b \in chunks : a.ordinal = b.ordinal => a = b

Support(claim, c) == Cardinality(claim \cap c.words)

\* How much a block shares with a claim is a number, and more is a better score.
LEMMA SharedIsANumber ==
    ASSUME NEW claim, IsFiniteSet(claim), NEW c
    PROVE  Support(claim, c) \in 0..Cardinality(claim) /\ Cardinality(claim) \in Nat
<1>1. claim \cap c.words \in SUBSET claim
      OBVIOUS
<1> DEFINE S == claim \cap c.words
<1> HIDE DEF S
<1>2. IsFiniteSet(S) /\ Cardinality(S) <= Cardinality(claim)
      BY <1>1, FS_Subset DEF S
<1>3. QED
      BY <1>2, FS_CardinalityType DEF S, Support

LEMMA ScoreIsMonotone ==
    ASSUME NEW claim, IsFiniteSet(claim), claim # {}, NEW a, NEW b,
           Support(claim, a) <= Support(claim, b)
    PROVE  Score(claim, a) \in Int /\ Score(claim, a) <= Score(claim, b)
<1> DEFINE n == Cardinality(claim)
           x == Support(claim, a)
           y == Support(claim, b)
<1>1. x \in Nat /\ y \in Nat /\ n \in Nat
      BY SharedIsANumber
<1>2. n # 0
      BY FS_EmptySet
<1>3. /\ Score(claim, a) = (20000 * x + n) \div (2 * n)
      /\ Score(claim, b) = (20000 * y + n) \div (2 * n)
      BY DEF Score, Support
<1> HIDE DEF n, x, y
<1>4. x <= y
      BY DEF x, y
<1> DEFINE u == 20000 * x + n
           v == 20000 * y + n
           w == 2 * n
<1>5. u \in Int /\ v \in Int /\ w \in Nat \ {0} /\ u <= v
      BY <1>1, <1>2, <1>4
<1> HIDE DEF u, v, w
<1>6. u \div w \in Int /\ u \div w <= v \div w
      BY <1>5, DivisionIsMonotone
<1>7. QED
      BY <1>3, <1>6 DEF u, v, w

\* Of two stored blocks one is better, for any claim.
LEMMA BetterIsTotal ==
    ASSUME NEW claim, IsFiniteSet(claim), NEW chunks, Stored(chunks),
           NEW a \in chunks, NEW b \in chunks, ~Better(a, b, claim), ~Better(b, a, claim)
    PROVE  a = b
<1>1. Support(claim, a) \in Nat /\ Support(claim, b) \in Nat
      BY SharedIsANumber
<1>2. Cardinality(a.words) \in Nat /\ Cardinality(b.words) \in Nat
      BY FS_CardinalityType DEF Stored
<1>3. a.page \in Nat /\ b.page \in Nat /\ a.ordinal \in Nat /\ b.ordinal \in Nat
      BY DEF Stored
<1>4. a.ordinal = b.ordinal
      BY <1>1, <1>2, <1>3 DEF Better, Before, Order, Support
<1>5. QED
      BY <1>4 DEF Stored

\* Among the stored blocks one is better than all others, for any claim.
LEMMA BestIsThere ==
    ASSUME NEW claim, IsFiniteSet(claim), NEW chunks, Stored(chunks), chunks # {}
    PROVE  \E c \in chunks : /\ \A x \in chunks : ~Better(x, c, claim)
                             /\ \A x \in chunks : Support(claim, x) <= Support(claim, c)
<1> DEFINE n == Cardinality(claim)
           shares == {Support(claim, c) : c \in chunks}
<1>1. n \in Nat /\ shares \in SUBSET (0..n) /\ shares # {}
      BY SharedIsANumber
<1>2. PICK s \in shares : \A y \in shares : s >= y
  <2> HIDE DEF n, shares
  <2>1. QED
        BY <1>1, GreatestIsThere
<1> DEFINE most == {c \in chunks : Support(claim, c) = s}
           sizes == {Cardinality(c.words) : c \in most}
<1>3. sizes \in SUBSET Nat /\ sizes # {}
      BY FS_CardinalityType DEF Stored
<1>4. PICK w \in sizes : \A y \in sizes : w <= y
  <2> HIDE DEF sizes
  <2>1. QED
        BY <1>3, LeastNatural
<1> DEFINE short == {c \in most : Cardinality(c.words) = w}
           pages == {c.page : c \in short}
<1>5. pages \in SUBSET Nat /\ pages # {}
      BY DEF Stored
<1>6. PICK p \in pages : \A y \in pages : p <= y
  <2> HIDE DEF pages
  <2>1. QED
        BY <1>5, LeastNatural
<1> DEFINE early == {c \in short : c.page = p}
           places == {c.ordinal : c \in early}
<1>7. places \in SUBSET Nat /\ places # {}
      BY DEF Stored
<1>8. PICK o \in places : \A y \in places : o <= y
  <2> HIDE DEF places
  <2>1. QED
        BY <1>7, LeastNatural
<1>9. PICK c \in early : c.ordinal = o
      BY <1>8
<1>10. /\ c \in chunks /\ Support(claim, c) = s /\ Cardinality(c.words) = w
       /\ c.page = p /\ c.ordinal = o
       BY <1>9
<1>11. ASSUME NEW x \in chunks
       PROVE  Support(claim, x) <= s /\ ~Better(x, c, claim)
  <2>1. /\ Support(claim, x) \in Nat /\ Cardinality(x.words) \in Nat /\ x.page \in Nat
        /\ x.ordinal \in Nat /\ s \in Nat /\ w \in Nat /\ p \in Nat /\ o \in Nat
    <3>1. Support(claim, x) \in Nat
          BY SharedIsANumber
    <3>2. Cardinality(x.words) \in Nat /\ x.page \in Nat /\ x.ordinal \in Nat
          BY FS_CardinalityType DEF Stored
    <3>3. s \in Nat
          BY <1>1
    <3>4. w \in Nat /\ p \in Nat /\ o \in Nat
          BY <1>3, <1>5, <1>7
    <3>5. QED
          BY <3>1, <3>2, <3>3, <3>4
  <2>2. Support(claim, x) <= s
        BY <1>2
  <2>3. Support(claim, x) = s => Cardinality(x.words) >= w
        BY <1>4, <2>1
  <2>4. Support(claim, x) = s /\ Cardinality(x.words) = w => x.page >= p
        BY <1>6, <2>1
  <2>5. Support(claim, x) = s /\ Cardinality(x.words) = w /\ x.page = p => x.ordinal >= o
        BY <1>8, <2>1
  <2> HIDE DEF most, short, early, places, pages, sizes, shares
  <2>6. ~Better(x, c, claim)
        BY <1>10, <2>1, <2>2, <2>3, <2>4, <2>5 DEF Better, Before, Order, Support
  <2>7. QED
        BY <2>2, <2>6
<1>12. QED
       BY <1>10, <1>11

\* A claim that has a block with some of its words, and enough of them.
HasMatch(claim, chunks, floor) == claim # {} /\ Resolved(claim, chunks, floor) # {}

\* The block that is taken for a claim.
Match(claim, chunks, floor) ==
    LET c == CHOOSE c \in Resolved(claim, chunks, floor) : TRUE
    IN  [chunk |-> c, score |-> Score(claim, c)]

\* A match has as good a score for its claim as any block.
LEMMA MatchIsBest ==
    ASSUME NEW claim, IsFiniteSet(claim), NEW chunks, Stored(chunks), NEW floor \in Int,
           HasMatch(claim, chunks, floor)
    PROVE  LET m == Match(claim, chunks, floor)
           IN  /\ m.chunk \in chunks /\ m.score = Score(claim, m.chunk) /\ m.score \in Int
               /\ claim \cap m.chunk.words # {} /\ m.score >= floor
               /\ \A x \in chunks : Score(claim, x) <= m.score
<1> DEFINE c == CHOOSE c \in Resolved(claim, chunks, floor) : TRUE
           m == Match(claim, chunks, floor)
<1>1. c \in Resolved(claim, chunks, floor)
      BY DEF HasMatch
<1>2. m.chunk = c /\ m.score = Score(claim, c)
      BY DEF Match
<1> HIDE DEF c, m
<1>3. /\ c \in chunks /\ claim \cap c.words # {} /\ Score(claim, c) >= floor
      /\ \A x \in chunks : x # c => ~Better(x, c, claim)
      BY <1>1 DEF Resolved
<1>4. ASSUME NEW x \in chunks PROVE Score(claim, x) \in Int /\ Score(claim, x) <= Score(claim, c)
  <2>1. Support(claim, x) \in Nat /\ Support(claim, c) \in Nat
        BY SharedIsANumber
  <2>2. Support(claim, x) <= Support(claim, c)
    <3>1. CASE x = c
          BY <2>1, <3>1
    <3>2. CASE x # c
          BY <1>3, <2>1, <3>2 DEF Better, Support
    <3>3. QED
          BY <3>1, <3>2
  <2>3. QED
        BY <2>2, ScoreIsMonotone DEF HasMatch
<1>5. QED
      BY <1>2, <1>3, <1>4 DEF m

\* A claim that some block supports enough has a match.
LEMMA SupportIsMatched ==
    ASSUME NEW claim, IsFiniteSet(claim), claim # {}, NEW chunks, Stored(chunks),
           NEW floor \in Int,
           NEW x \in chunks, claim \cap x.words # {}, Score(claim, x) >= floor
    PROVE  HasMatch(claim, chunks, floor)
<1>1. PICK c \in chunks : /\ \A y \in chunks : ~Better(y, c, claim)
                          /\ \A y \in chunks : Support(claim, y) <= Support(claim, c)
      BY BestIsThere
<1>2. Score(claim, x) \in Int /\ Score(claim, x) <= Score(claim, c) /\ Score(claim, c) \in Int
      BY <1>1, ScoreIsMonotone
<1>3. claim \cap c.words # {}
  <2> SUFFICES ASSUME claim \cap c.words = {} PROVE FALSE
      OBVIOUS
  <2>1. Support(claim, c) = 0
        BY FS_EmptySet DEF Support
  <2>2. Support(claim, x) = 0
        BY <1>1, <2>1, SharedIsANumber
  <2> DEFINE S == claim \cap x.words
  <2> HIDE DEF S
  <2>3. S # {} /\ S \in SUBSET claim /\ Cardinality(S) = 0
        BY <2>2 DEF S, Support
  <2>4. QED
        BY <2>3, FS_Subset, FS_EmptySet
<1>4. c \in Resolved(claim, chunks, floor)
      BY <1>1, <1>2, <1>3 DEF Resolved
<1>5. QED
      BY <1>4 DEF HasMatch

\* What the claims at some places match.
Matches(claims, places, chunks, floor) ==
    {Match(claims[i], chunks, floor) : i \in {j \in places : HasMatch(claims[j], chunks, floor)}}

\* No match x is stronger than m.
AtLeast(m, x) ==
    \/ m.score > x.score
    \/ m.score = x.score /\ m.chunk.ordinal <= x.chunk.ordinal
Ahead(m, matches) ==
    /\ m \in matches
    /\ \A x \in matches : m = x \/ AtLeast(m, x)

\* Of some matches the best is kept.
Keeps(best, matches) ==
    IF matches = {} THEN best = {} ELSE \E m : best = {m} /\ Ahead(m, matches)

\* Matches with a score and a place.
Scored(matches) == \A m \in matches : m.score \in Int /\ m.chunk.ordinal \in Nat

\* One more match.
LEMMA OneMoreIsKept ==
    ASSUME NEW best, NEW matches, Keeps(best, matches), NEW m, Scored(matches \cup {m})
    PROVE  Keeps(IF best = {} THEN {m}
                 ELSE {IF \A b \in best : Stronger(m, b) THEN m ELSE CHOOSE b \in best : TRUE},
                 matches \cup {m})
<1>1. CASE matches = {}
  <2>1. best = {} /\ matches \cup {m} = {m}
        BY <1>1 DEF Keeps
  <2>2. Ahead(m, {m})
        BY DEF Ahead
  <2>3. QED
        BY <2>1, <2>2 DEF Keeps
<1>2. CASE matches # {}
  <2>1. PICK k : best = {k} /\ Ahead(k, matches)
        BY <1>2 DEF Keeps
  <2>2. (CHOOSE b \in best : TRUE) = k
        BY <2>1
  <2>3. \A b \in best : b = k
        BY <2>1
  <2> DEFINE w == IF Stronger(m, k) THEN m ELSE k
  <2>4. (IF best = {} THEN {m}
         ELSE {IF \A b \in best : Stronger(m, b) THEN m ELSE CHOOSE b \in best : TRUE}) = {w}
        BY <2>1, <2>2
  <2>5. Ahead(w, matches \cup {m})
    <3>1. k \in matches /\ m \in matches \cup {m} /\ k \in matches \cup {m}
          BY <2>1 DEF Ahead
    <3>2. /\ k.score \in Int /\ k.chunk.ordinal \in Nat
          /\ m.score \in Int /\ m.chunk.ordinal \in Nat
          BY <3>1 DEF Scored
    <3>3. CASE Stronger(m, k)
      <4>1. ASSUME NEW x \in matches
            PROVE  AtLeast(m, x)
        <5>1. x.score \in Int /\ x.chunk.ordinal \in Nat
              BY DEF Scored
        <5>2. k = x \/ AtLeast(k, x)
              BY <2>1 DEF Ahead
        <5>3. QED
              BY <3>2, <3>3, <5>1, <5>2 DEF Stronger, AtLeast
      <4>2. QED
            BY <3>3, <4>1 DEF Ahead
    <3>4. CASE ~Stronger(m, k)
      <4>1. AtLeast(k, m)
            BY <3>2, <3>4 DEF Stronger, AtLeast
      <4>2. QED
            BY <2>1, <3>1, <3>4, <4>1 DEF Ahead
    <3>5. QED
          BY <3>3, <3>4
  <2> HIDE DEF w
  <2>6. QED
        BY <2>4, <2>5 DEF Keeps
<1>3. QED
      BY <1>1, <1>2

\* A list of n claims, each a finite set of words.
Claimed(claims, n) == n \in Nat /\ DOMAIN claims = 1..n /\ \A i \in 1..n : IsFiniteSet(claims[i])

\* Matches have a score and a place.
LEMMA MatchesAreRanked ==
    ASSUME NEW claims, NEW n, Claimed(claims, n), NEW chunks, Stored(chunks), NEW floor \in Int,
           NEW places \in SUBSET (1..n)
    PROVE  Scored(Matches(claims, places, chunks, floor))
<1> SUFFICES ASSUME NEW i \in places, HasMatch(claims[i], chunks, floor)
             PROVE  /\ Match(claims[i], chunks, floor).score \in Int
                    /\ Match(claims[i], chunks, floor).chunk.ordinal \in Nat
    BY DEF Scored, Matches
<1>1. IsFiniteSet(claims[i])
      BY DEF Claimed
<1>2. QED
      BY <1>1, MatchIsBest DEF Stored

\* Over the claims the best match is kept.
LEMMA BestMatchIsKept ==
    ASSUME NEW claims, NEW n, Claimed(claims, n), NEW citation, NEW chunks,
           Stored(Own(citation, chunks)), NEW floor \in Int
    PROVE  Keeps(BestMatch(claims, citation, chunks, floor),
                 Matches(claims, 1..n, Own(citation, chunks), floor))
<1> DEFINE D == 1..n
           C == Own(citation, chunks)
           W == Matches(claims, D, C, floor)
           V == SUBSET W
           Read(claim, best) ==
               IF claim = {} \/ Resolved(claim, C, floor) = {} THEN best
               ELSE IF best = {} THEN {Match(claim, C, floor)}
               ELSE {IF \A b \in best : Stronger(Match(claim, C, floor), b)
                     THEN Match(claim, C, floor) ELSE CHOOSE b \in best : TRUE}
           pick == [s \in SUBSET D |-> Max(s)]
           op == [kv \in D \X V |-> Read(claims[kv[1]], kv[2])]
           Body(f) == [s \in SUBSET D |-> IF s = {} THEN {}
                                          ELSE Read(claims[Max(s)], f[s \ {Max(s)}])]
           read == CHOOSE f : f = Body(f)
<1>0. n \in Nat /\ DOMAIN claims = D
      BY DEF Claimed
<1>1. BestMatch(claims, citation, chunks, floor) = read[D]
      BY <1>0, Zenon DEF BestMatch, FoldLeft, MapThenFoldSet, Match
<1>2. IsFiniteSet(D)
      BY <1>0, FS_Interval
<1>3. ASSUME NEW s \in SUBSET D, s # {} PROVE pick[s] = Max(s) /\ pick[s] \in s
  <2>1. s \in SUBSET (0..n)
        OBVIOUS
  <2>2. QED
        BY <1>0, <1>3, <2>1, GreatestIsThere
<1>4. ASSUME NEW k \in D, NEW v \in V PROVE Read(claims[k], v) \in V
  <2> DEFINE m == Match(claims[k], C, floor)
  <2>1. CASE ~HasMatch(claims[k], C, floor)
        BY <2>1 DEF HasMatch
  <2>2. CASE HasMatch(claims[k], C, floor)
    <3>1. m \in W
          BY <2>2 DEF Matches
    <3>2. v # {} => (CHOOSE b \in v : TRUE) \in W
          OBVIOUS
    <3> HIDE DEF m, W, C
    <3>3. Read(claims[k], v) \in SUBSET W
      <4>1. CASE v = {}
            BY <2>2, <3>1, <4>1 DEF HasMatch, m
      <4>2. CASE v # {}
            BY <2>2, <3>1, <3>2, <4>2 DEF HasMatch, m
      <4>3. QED
            BY <4>1, <4>2
    <3>4. QED
          BY <3>3
  <2>3. QED
        BY <2>1, <2>2
<1>5. {} \in V
      OBVIOUS
<1>6. op \in [D \X V -> V]
  <2> HIDE DEF V, Read
  <2>1. QED
        BY <1>4
<1>7. PICK f \in [SUBSET D -> V] : Folds(f, D, pick, {}, op)
  <2> HIDE DEF pick, op, V, D
  <2>1. \A s \in SUBSET D : s # {} => pick[s] \in s
        BY <1>3
  <2>2. QED
        BY <1>2, <1>5, <1>6, <2>1, FoldExists
<1>8. f = Body(f)
  <2>1. ASSUME NEW s \in SUBSET D, s # {}
        PROVE  op[<<pick[s], f[s \ {pick[s]}]>>] = Read(claims[Max(s)], f[s \ {Max(s)}])
    <3>1. pick[s] = Max(s) /\ pick[s] \in D /\ f[s \ {pick[s]}] \in V
          BY <1>3, <2>1
    <3> HIDE DEF pick, Read, V, D
    <3>2. QED
          BY <3>1
  <2> HIDE DEF pick, op, Read, V, D
  <2>2. QED
        BY <1>7, <2>1 DEF Folds
<1>9. read = Body(read)
  <2> HIDE DEF Body
  <2>1. QED
        BY <1>8
<1> DEFINE KeptTo(i) == Keeps(read[1..i], Matches(claims, 1..i, C, floor))
           Good == {i \in 0..n : KeptTo(i)}
<1>10. 0 \in Good
  <2> HIDE DEF read
  <2>1. 1..0 = {} /\ 1..0 \in SUBSET D /\ 0 \in 0..n
        BY <1>0
  <2>2. read[1..0] = {}
        BY <1>9, <2>1
  <2>3. Matches(claims, 1..0, C, floor) = {}
        BY <2>1 DEF Matches
  <2>4. KeptTo(0)
        BY <2>2, <2>3 DEF Keeps
  <2> HIDE DEF KeptTo
  <2>5. QED
        BY <2>1, <2>4
<1>11. ASSUME NEW i \in 1..n, i - 1 \in Good PROVE i \in Good
  <2> DEFINE s == 1..i
             m == Match(claims[i], C, floor)
             before == Matches(claims, 1..(i - 1), C, floor)
             best == read[1..(i - 1)]
             now == Matches(claims, s, C, floor)
  <2>1. s \in SUBSET D /\ s # {} /\ Max(s) = i /\ s \ {i} = 1..(i - 1)
        BY <1>0, InitialSegments
  <2>2. read[s] = Read(claims[i], best)
    <3> HIDE DEF s, read, D, Read
    <3>1. QED
          BY <1>9, <2>1
  <2>3. Keeps(best, before)
        BY <1>11
  <2>4. s = (1..(i - 1)) \cup {i}
        BY <1>0
  <2>5. Keeps(read[s], now)
    <3>1. CASE ~HasMatch(claims[i], C, floor)
      <4>1. read[s] = best
            BY <2>2, <3>1 DEF HasMatch
      <4>2. now = before
        <5> HIDE DEF s, C
        <5>1. QED
              BY <2>4, <3>1 DEF Matches
      <4> HIDE DEF now, before, best, s, read
      <4>3. QED
            BY <2>3, <4>1, <4>2
    <3>2. CASE HasMatch(claims[i], C, floor)
      <4>1. now = before \cup {m}
        <5> HIDE DEF s, C
        <5>1. QED
              BY <2>4, <3>2 DEF Matches
      <4>2. read[s] = IF best = {} THEN {m}
                      ELSE {IF \A b \in best : Stronger(m, b) THEN m ELSE CHOOSE b \in best : TRUE}
        <5> HIDE DEF read, s, C, best
        <5>1. QED
              BY <2>2, <3>2 DEF HasMatch
      <4>3. Scored(now)
        <5> HIDE DEF s, C
        <5>1. QED
              BY <2>1, MatchesAreRanked DEF C
      <4> HIDE DEF now, before, best, s, read, m
      <4>4. QED
            <5>1. Scored(before \cup {m})
              BY <4>1, <4>3, Zenon
        <5>2. Keeps(IF best = {} THEN {m}
                    ELSE {IF \A b \in best : Stronger(m, b) THEN m ELSE CHOOSE b \in best : TRUE},
                    before \cup {m})
              BY <2>3, <5>1, OneMoreIsKept
        <5>3. Keeps(read[s], before \cup {m})
              BY <4>2, <5>2
        <5>4. QED
              BY <4>1, <5>3
    <3>3. QED
          BY <3>1, <3>2
  <2>6. KeptTo(i) /\ i \in 0..n
        BY <2>5
  <2> HIDE DEF KeptTo
  <2>7. QED
        BY <2>6
<1>12. n \in Good
  <2>1. \A i \in 1..n : i - 1 \in Good => i \in Good
        BY <1>11
  <2> HIDE DEF Good
  <2>2. \A i \in 0..n : i \in Good
        BY <1>0, <1>10, <2>1, Counting
  <2>3. QED
        BY <1>0, <2>2
<1>13. QED
  <2>1. KeptTo(n)
        BY <1>12
  <2>2. QED
        BY <1>1, <2>1

\* The pairs of a claim and a block of the cited document that supports it.
Supported(claims, chunks, floor) ==
    {p \in {x \in ToSet(claims) : x # {}} \X chunks :
        p[1] \cap p[2].words # {} /\ Score(p[1], p[2]) >= floor}

\* What is matched is supported, and whatever is supported has as good a match.
LEMMA MatchesAreSupported ==
    ASSUME NEW claims, NEW n, Claimed(claims, n), NEW chunks, Stored(chunks), NEW floor \in Int
    PROVE  LET matches == Matches(claims, 1..n, chunks, floor)
               pairs == Supported(claims, chunks, floor)
           IN  /\ \A m \in matches : \E p \in pairs : p[2] = m.chunk /\ Score(p[1], p[2]) = m.score
               /\ \A q \in pairs : \E m \in matches : Score(q[1], q[2]) <= m.score
<1> DEFINE matches == Matches(claims, 1..n, chunks, floor)
           pairs == Supported(claims, chunks, floor)
<1>1. ToSet(claims) = {claims[i] : i \in 1..n}
      BY DEF ToSet, Claimed
<1>2. ASSUME NEW m \in matches
      PROVE  \E p \in pairs : p[2] = m.chunk /\ Score(p[1], p[2]) = m.score
  <2>1. PICK i \in 1..n : HasMatch(claims[i], chunks, floor) /\ m = Match(claims[i], chunks, floor)
        BY DEF Matches
  <2> DEFINE claim == claims[i]
             p == <<claim, m.chunk>>
  <2>2. IsFiniteSet(claim) /\ claim \in ToSet(claims) /\ claim # {}
        BY <1>1, <2>1 DEF Claimed, HasMatch
  <2>3. /\ m.chunk \in chunks /\ m.score = Score(claim, m.chunk)
        /\ claim \cap m.chunk.words # {} /\ m.score >= floor
        BY <2>1, <2>2, MatchIsBest
  <2>4. p \in pairs
    <3> HIDE DEF claim
    <3>1. QED
          BY <2>2, <2>3 DEF Supported
  <2>5. QED
        BY <2>3, <2>4
<1>3. ASSUME NEW q \in pairs
      PROVE  \E m \in matches : Score(q[1], q[2]) <= m.score
  <2> DEFINE claim == q[1]
             x == q[2]
             m == Match(claim, chunks, floor)
  <2>1. /\ claim \in ToSet(claims) /\ claim # {} /\ x \in chunks
        /\ claim \cap x.words # {} /\ Score(claim, x) >= floor
        BY DEF Supported
  <2>2. PICK i \in 1..n : claim = claims[i]
        BY <1>1, <2>1
  <2>3. IsFiniteSet(claim)
        BY <2>2 DEF Claimed
  <2>4. HasMatch(claim, chunks, floor)
    <3> HIDE DEF claim, x
    <3>1. QED
          BY <2>1, <2>3, SupportIsMatched
  <2>5. m \in matches
        BY <2>2, <2>4 DEF Matches
  <2>6. Score(claim, x) <= m.score
    <3> HIDE DEF claim, x
    <3>1. QED
          BY <2>1, <2>3, <2>4, MatchIsBest DEF m
  <2>7. QED
        BY <2>5, <2>6
<1>4. QED
      BY <1>2, <1>3

\* Of two best matches of the same claims both have the same block.
LEMMA AheadIsUnique ==
    ASSUME NEW matches, Scored(matches), NEW a, NEW b, Ahead(a, matches), Ahead(b, matches)
    PROVE  a.chunk.ordinal = b.chunk.ordinal
<1>1. a \in matches /\ b \in matches
      BY DEF Ahead
<1>2. /\ a.score \in Int /\ a.chunk.ordinal \in Nat /\ b.score \in Int /\ b.chunk.ordinal \in Nat
      BY <1>1 DEF Scored
<1>3. a = b \/ (AtLeast(a, b) /\ AtLeast(b, a))
      BY <1>1 DEF Ahead
<1>4. QED
      BY <1>2, <1>3 DEF AtLeast

\* A citation that can be refined.
Citing(citation) == {"page", "anchor"} \subseteq DOMAIN citation

\* Whom the best match refines, and how.
LEMMA RefinedByTheBest ==
    ASSUME NEW claims, NEW citation, Citing(citation), NEW chunks, NEW floor,
           NEW m, BestMatch(claims, citation, chunks, floor) = {m}
    PROVE  LET refined == Anchored(claims, citation, chunks, floor)
           IN  /\ refined.anchor = m.chunk.anchor
               /\ m.chunk.page # NoPage => refined.page = m.chunk.page
<1> DEFINE best == BestMatch(claims, citation, chunks, floor)
           c == (CHOOSE b \in best : TRUE).chunk
           refined == [citation EXCEPT !.page = IF c.page = NoPage THEN @ ELSE c.page,
                                       !.anchor = c.anchor]
<1>1. c = m.chunk /\ best # {}
      OBVIOUS
<1>2. Anchored(claims, citation, chunks, floor) = refined
      BY <1>1, Zenon DEF Anchored
<1>3. refined.anchor = c.anchor /\ (c.page # NoPage => refined.page = c.page)
  <2> HIDE DEF c
  <2>1. QED
        BY DEF Citing
<1>4. QED
      BY <1>1, <1>2, <1>3

\* The best match of some claims, and of the same claims the other way round.
LEMMA ReversedClaims ==
    ASSUME NEW claims, NEW n, Claimed(claims, n), Len(claims) = n
    PROVE  Claimed(Reverse(claims), n) /\ \A chunks, floor :
               Matches(Reverse(claims), 1..n, chunks, floor) = Matches(claims, 1..n, chunks, floor)
<1> DEFINE back == Reverse(claims)
<1>1. n \in Nat /\ back = [i \in 1..n |-> claims[n - i + 1]]
      BY DEF Reverse, Claimed
<1>2. \A i \in 1..n : n - i + 1 \in 1..n /\ n - (n - i + 1) + 1 = i
      BY <1>1
<1> HIDE DEF back
<1>3. \A i \in 1..n : back[i] = claims[n - i + 1] /\ claims[i] = back[n - i + 1]
      BY <1>1, <1>2
<1>4. Claimed(back, n)
      BY <1>1, <1>2 DEF Claimed
<1>5. ASSUME NEW chunks, NEW floor
      PROVE  Matches(back, 1..n, chunks, floor) = Matches(claims, 1..n, chunks, floor)
  <2>1. ASSUME NEW i \in 1..n, HasMatch(back[i], chunks, floor)
        PROVE  Match(back[i], chunks, floor) \in Matches(claims, 1..n, chunks, floor)
    <3> DEFINE j == n - i + 1
    <3>1. j \in 1..n /\ back[i] = claims[j]
          BY <1>2, <1>3
    <3> HIDE DEF j
    <3>2. QED
          BY <2>1, <3>1 DEF Matches
  <2>2. ASSUME NEW i \in 1..n, HasMatch(claims[i], chunks, floor)
        PROVE  Match(claims[i], chunks, floor) \in Matches(back, 1..n, chunks, floor)
    <3> DEFINE j == n - i + 1
    <3>1. j \in 1..n /\ claims[i] = back[j]
          BY <1>2, <1>3
    <3> HIDE DEF j
    <3>2. QED
          BY <2>2, <3>1 DEF Matches
  <2>3. /\ Matches(back, 1..n, chunks, floor) \subseteq Matches(claims, 1..n, chunks, floor)
        /\ Matches(claims, 1..n, chunks, floor) \subseteq Matches(back, 1..n, chunks, floor)
        BY <2>1, <2>2 DEF Matches
  <2>4. QED
        BY <2>3
<1>6. QED
      BY <1>4, <1>5 DEF back

\* For any claims, blocks and floor, an anchor is that of a block with the
\* most support, and none is given just when no block has enough; when the
\* blocks of the cited document have places of their own, in whatever order
\* the claims stand.  (anchor_citations, resolve_anchor)
THEOREM EveryAnchorIsTheBestEvidence ==
    ASSUME NEW Phrases, \A p \in Phrases : IsFiniteSet(p), NEW claims \in Seq(Phrases),
           NEW citation, Citing(citation), NEW chunks, Stored(Own(citation, chunks)),
           NEW floor \in Int
    PROVE  AnchorsAreTheBestEvidence(claims, citation, chunks, floor)
<1> DEFINE n == Len(claims)
           C == Own(citation, chunks)
           back == Reverse(claims)
           matches == Matches(claims, 1..n, C, floor)
           pairs == Supported(claims, C, floor)
           best == BestMatch(claims, citation, chunks, floor)
           other == BestMatch(back, citation, chunks, floor)
           refined == Anchored(claims, citation, chunks, floor)
<1>1. Claimed(claims, n)
      BY DEF Claimed
<1>2. Claimed(back, n) /\ Matches(back, 1..n, C, floor) = matches
      BY <1>1, ReversedClaims
<1>3. Keeps(best, matches) /\ Keeps(other, matches)
  <2>1. Keeps(best, matches)
        BY <1>1, BestMatchIsKept
  <2>2. Keeps(other, Matches(back, 1..n, C, floor))
    <3> HIDE DEF n, back
    <3>1. QED
          BY <1>2, BestMatchIsKept
  <2>3. QED
        BY <1>2, <2>1, <2>2, Zenon
<1>4. /\ \A m \in matches : \E p \in pairs : p[2] = m.chunk /\ Score(p[1], p[2]) = m.score
      /\ \A q \in pairs : \E m \in matches : Score(q[1], q[2]) <= m.score
      BY <1>1, MatchesAreSupported
<1>5. Scored(matches) /\ \A m \in matches : m.chunk \in C
  <2>1. Scored(matches)
        BY <1>1, MatchesAreRanked
  <2>2. QED
        BY <1>4, <2>1 DEF Supported
<1>6. ASSUME pairs = {} PROVE refined = citation
  <2>1. matches = {}
        BY <1>4, <1>6
  <2>2. best = {}
        BY <1>3, <2>1 DEF Keeps
  <2>3. QED
        BY <2>2 DEF Anchored
<1>7. ASSUME pairs # {}
      PROVE  /\ \E p \in pairs :
                   /\ refined.anchor = p[2].anchor
                   /\ p[2].page # NoPage => refined.page = p[2].page
                   /\ \A q \in pairs : Score(q[1], q[2]) <= Score(p[1], p[2])
             /\ Anchored(back, citation, chunks, floor).anchor = refined.anchor
  <2> HIDE DEF n, back, matches, pairs, C, best, other, refined
  <2>1. matches # {}
        BY <1>4, <1>7
  <2>2. PICK m : best = {m} /\ Ahead(m, matches)
        BY <1>3, <2>1 DEF Keeps
  <2>3. PICK o : other = {o} /\ Ahead(o, matches)
        BY <1>3, <2>1 DEF Keeps
  <2>4. m \in matches /\ o \in matches /\ m.chunk \in C /\ o.chunk \in C
        BY <1>5, <2>2, <2>3 DEF Ahead
  <2>5. m.chunk = o.chunk
    <3>1. m.chunk.ordinal = o.chunk.ordinal
          BY <1>5, <2>2, <2>3, AheadIsUnique
    <3>2. QED
          BY <2>4, <3>1 DEF Stored, C
  <2>6. /\ refined.anchor = m.chunk.anchor
        /\ m.chunk.page # NoPage => refined.page = m.chunk.page
        BY <2>2, RefinedByTheBest DEF best, refined
  <2>7. Anchored(back, citation, chunks, floor).anchor = o.chunk.anchor
        BY <2>3, RefinedByTheBest DEF other
  <2>8. PICK p \in pairs : p[2] = m.chunk /\ Score(p[1], p[2]) = m.score
        BY <1>4, <2>4
  <2>9. ASSUME NEW q \in pairs PROVE Score(q[1], q[2]) <= m.score
    <3>1. PICK x \in matches : Score(q[1], q[2]) <= x.score
          BY <1>4
    <3>2. x.score \in Int /\ m.score \in Int /\ (m = x \/ AtLeast(m, x))
          BY <1>5, <2>2, <2>4 DEF Scored, Ahead
    <3>3. Score(q[1], q[2]) \in Int
      <4>1. /\ q[1] \in ToSet(claims) /\ q[1] # {}
            BY DEF pairs, Supported
      <4>2. IsFiniteSet(q[1])
            BY <4>1 DEF ToSet
      <4>3. Support(q[1], q[2]) <= Support(q[1], q[2])
            BY <4>2, SharedIsANumber
      <4>4. QED
            BY <4>1, <4>2, <4>3, ScoreIsMonotone
    <3>4. QED
          BY <3>1, <3>2, <3>3 DEF AtLeast
  <2>10. QED
         BY <2>5, <2>6, <2>7, <2>8, <2>9
<1>8. pairs = {p \in {x \in ToSet(claims) : x # {}} \X Own(citation, chunks) :
                  p[1] \cap p[2].words # {} /\ Score(p[1], p[2]) >= floor}
      BY Zenon DEF Supported
<1>9. QED
  <2> HIDE DEF pairs, refined
  <2>1. QED
        BY <1>6, <1>7, <1>8, Zenon DEF AnchorsAreTheBestEvidence, refined

(***************************************************************************)
(* Layout: the blocks of some lines.                                       *)
(***************************************************************************)
\* What is true of every sequence, and all that is used of lines.
Lined(A) == Len(A) \in Nat /\ DOMAIN A = 1..Len(A)

\* Every line of text is in a block, which starts there if a block does.
LEMMA BlockAround ==
    ASSUME NEW A, Lined(A), NEW i \in DOMAIN A, IsText(A[i])
    PROVE  \E r \in Runs(A) : r.lo <= i /\ i <= r.hi /\ (BlockStarts(A, i) => r.lo = i)
<1> DEFINE n == Len(A)
           los == {x \in 1..i : \A k \in x..i : IsText(A[k])}
           his == {y \in i..n : \A k \in i..y : IsText(A[k])}
<1>1. n \in Nat /\ DOMAIN A = 1..n /\ i \in 1..n
      BY DEF Lined
<1>2. i \in los /\ los \in SUBSET Nat
  <2>1. \A k \in i..i : k = i
        BY <1>1
  <2>2. QED
        BY <1>1, <2>1
<1>3. i \in his /\ his \in SUBSET (0..n)
  <2>1. \A k \in i..i : k = i
        BY <1>1
  <2>2. QED
        BY <1>1, <2>1
<1>4. PICK lo \in los : \A x \in los : lo <= x
  <2> HIDE DEF los
  <2>1. QED
        BY <1>2, LeastNatural
<1>5. PICK hi \in his : \A y \in his : hi >= y
  <2> HIDE DEF his
  <2>1. Max(his) \in his /\ \A y \in his : Max(his) >= y
        BY <1>1, <1>3, GreatestIsThere
  <2>2. QED
        BY <2>1
<1>6. lo \in 1..i /\ \A k \in lo..i : IsText(A[k])
      BY <1>4
<1>7. hi \in i..n /\ \A k \in i..hi : IsText(A[k])
      BY <1>5
<1>8. \A k \in lo..hi : IsText(A[k])
  <2>1. \A k \in lo..hi : k \in lo..i \/ k \in i..hi
        BY <1>1, <1>6, <1>7
  <2>2. QED
        BY <1>6, <1>7, <2>1
<1>9. BlockStarts(A, lo)
  <2>1. ASSUME lo # 1, IsText(A[lo - 1]) PROVE FALSE
    <3>1. lo - 1 \in 1..i /\ \A k \in (lo - 1)..i : k = lo - 1 \/ k \in lo..i
          BY <1>1, <1>6, <2>1
    <3>2. lo - 1 \in los
          BY <1>6, <2>1, <3>1
    <3>3. lo <= lo - 1
          BY <1>4, <3>2
    <3>4. QED
          BY <1>1, <1>6, <3>3
  <2>2. QED
        BY <2>1 DEF BlockStarts
<1>10. BlockEnds(A, hi)
  <2>1. ASSUME hi # n, IsText(A[hi + 1]) PROVE FALSE
    <3>1. hi + 1 \in i..n
      <4> HIDE DEF n, his, los
      <4>1. hi # n /\ hi \in i..n /\ n \in Nat /\ i \in 1..n
        <5>1. hi # n
              BY <2>1, Zenon
        <5>2. QED
              BY <1>1, <1>7, <5>1
      <4>2. QED
            BY <4>1
    <3>1a. \A k \in i..(hi + 1) : k = hi + 1 \/ k \in i..hi
          BY <1>1, <1>7
    <3>2. hi + 1 \in his
          BY <1>7, <2>1, <3>1, <3>1a
    <3>3. hi >= hi + 1
          BY <1>5, <3>2
    <3>4. QED
          BY <1>1, <1>7, <3>3
  <2>2. QED
        BY <2>1 DEF BlockEnds
<1>11. BlockStarts(A, i) => lo = i
  <2>1. ASSUME BlockStarts(A, i), lo # i PROVE FALSE
    <3>1. i # 1 /\ i - 1 \in lo..i
          BY <1>1, <1>6, <2>1
    <3>2. IsText(A[i - 1])
          BY <1>6, <3>1
    <3>3. QED
          BY <2>1, <3>1, <3>2 DEF BlockStarts
  <2>2. QED
        BY <2>1
<1> DEFINE r == [lo |-> lo, hi |-> hi]
<1>12. lo \in DOMAIN A /\ hi \in DOMAIN A /\ lo <= hi /\ lo <= i /\ i <= hi
       BY <1>1, <1>6, <1>7
<1>13. r \in Runs(A)
  <2>1. r \in [lo : DOMAIN A, hi : DOMAIN A] /\ r.lo = lo /\ r.hi = hi
        BY <1>12
  <2> HIDE DEF r, n, los, his
  <2>2. QED
        BY <1>8, <1>9, <1>10, <1>12, <2>1 DEF Runs
<1>14. QED
       BY <1>11, <1>12, <1>13

\* What is known of a block.
LEMMA BlockIsText ==
    ASSUME NEW A, Lined(A), NEW r \in Runs(A)
    PROVE  /\ r = [lo |-> r.lo, hi |-> r.hi]
           /\ r.lo \in 1..Len(A) /\ r.hi \in 1..Len(A) /\ r.lo <= r.hi
           /\ r.lo \in Nat /\ r.hi \in Nat
           /\ \A i \in (r.lo)..(r.hi) : IsText(A[i])
           /\ r.lo = 1 \/ ~IsText(A[r.lo - 1])
           /\ r.hi = Len(A) \/ ~IsText(A[r.hi + 1])
<1>1. r \in [lo : 1..Len(A), hi : 1..Len(A)] /\ Len(A) \in Nat
      BY DEF Lined, Runs
<1>2. QED
      BY <1>1 DEF Runs, BlockStarts, BlockEnds

\* No two blocks share a line.
LEMMA BlocksAreApart ==
    ASSUME NEW A, Lined(A), NEW r \in Runs(A), NEW s \in Runs(A),
           NEW i \in (r.lo)..(r.hi), i \in (s.lo)..(s.hi)
    PROVE  r = s
<1>1. ASSUME NEW a \in Runs(A), NEW b \in Runs(A), i \in (a.lo)..(a.hi), i \in (b.lo)..(b.hi)
      PROVE  ~(a.lo < b.lo) /\ ~(a.hi < b.hi)
  <2>1. /\ a.lo \in Nat /\ a.hi \in Nat /\ b.lo \in Nat /\ b.hi \in Nat /\ i \in Int
        /\ a.lo >= 1 /\ b.hi <= Len(A) /\ Len(A) \in Nat
    <3>1. /\ a.lo \in Nat /\ a.hi \in Nat /\ b.lo \in Nat /\ b.hi \in Nat
          /\ a.lo \in 1..Len(A) /\ b.hi \in 1..Len(A)
          BY BlockIsText
    <3>2. QED
          BY <1>1, <3>1 DEF Lined
  <2>2. ~(a.lo < b.lo)
    <3>1. SUFFICES ASSUME a.lo < b.lo PROVE FALSE
          OBVIOUS
    <3>2. b.lo - 1 \in (a.lo)..(a.hi) /\ b.lo # 1
          BY <1>1, <2>1, <3>1
    <3>3. QED
          BY <3>2, BlockIsText
  <2>3. ~(a.hi < b.hi)
    <3>1. SUFFICES ASSUME a.hi < b.hi PROVE FALSE
          OBVIOUS
    <3>2. a.hi + 1 \in (b.lo)..(b.hi) /\ a.hi # Len(A)
          BY <1>1, <2>1, <3>1
    <3>3. QED
          BY <3>2, BlockIsText
  <2>4. QED
        BY <2>2, <2>3
<1>2. r.lo \in Nat /\ r.hi \in Nat /\ s.lo \in Nat /\ s.hi \in Nat
      BY BlockIsText
<1>3. r.lo = s.lo /\ r.hi = s.hi
      BY <1>1, <1>2
<1>4. r = [lo |-> r.lo, hi |-> r.hi] /\ s = [lo |-> s.lo, hi |-> s.hi]
      BY BlockIsText
<1>5. QED
      BY <1>3, <1>4

\* A block has its first line for itself, and is over before the next starts.
LEMMA BlocksInOrder ==
    ASSUME NEW A, Lined(A), NEW r \in Runs(A), NEW s \in Runs(A)
    PROVE  (r.lo = s.lo => r = s) /\ (r.lo < s.lo => r.hi < s.lo)
<1>1. /\ r.lo \in Nat /\ r.hi \in Nat /\ s.lo \in Nat /\ s.hi \in Nat
      /\ r.lo <= r.hi /\ s.lo <= s.hi
      BY BlockIsText
<1>2. ASSUME r.lo = s.lo PROVE r = s
  <2>1. r.lo \in (r.lo)..(r.hi) /\ r.lo \in (s.lo)..(s.hi)
        BY <1>1, <1>2
  <2>2. QED
        BY <2>1, BlocksAreApart
<1>3. ASSUME r.lo < s.lo PROVE r.hi < s.lo
  <2>1. SUFFICES ASSUME ~(r.hi < s.lo) PROVE FALSE
        OBVIOUS
  <2>2. s.lo \in (r.lo)..(r.hi) /\ s.lo \in (s.lo)..(s.hi)
        BY <1>1, <1>3, <2>1
  <2>3. r = s
        BY <2>2, BlocksAreApart
  <2>4. QED
        BY <1>1, <1>3, <2>3
<1>4. QED
      BY <1>2, <1>3

(***************************************************************************)
(* Ranks: how many of a finite set of blocks start earlier.                *)
(***************************************************************************)
\* Finitely many blocks that start at different lines.
Arranged(R) ==
    /\ IsFiniteSet(R) /\ \A x \in R : x.lo \in Nat
    /\ \A x, y \in R : x.lo = y.lo => x = y

\* The blocks of R that start before r does, and their number.
Preceding(R, r) == {x \in R : x.lo < r.lo}
Rank(R, r) == Cardinality(Preceding(R, r))

\* So are the blocks of some lines, all or part of them.
LEMMA BlocksAreRanked ==
    ASSUME NEW A, Lined(A), NEW R \in SUBSET Runs(A)
    PROVE  Arranged(R)
<1> DEFINE f == [r \in R |-> r.lo]
           n == Len(A)
<1>1. \A r \in R : r.lo \in 1..n /\ r.lo \in Nat
      BY BlockIsText
<1>2. \A r, s \in R : r.lo = s.lo => r = s
      BY BlocksInOrder
<1>3. f \in [R -> 1..n] /\ \A a, b \in R : f[a] = f[b] => a = b
      BY <1>1, <1>2
<1>4. IsFiniteSet(1..n)
  <2>1. n \in Int /\ 1 \in Int
        BY DEF Lined
  <2> HIDE DEF n
  <2>2. QED
        BY <2>1, FS_Interval
<1>5. f \in Injection(R, 1..n)
  <2> HIDE DEF f, n
  <2>1. QED
        BY <1>3 DEF Injection, IsInjective
<1>6. IsFiniteSet(R)
  <2> HIDE DEF f, n
  <2>1. QED
        BY <1>4, <1>5, FS_Injection
<1>7. QED
      BY <1>1, <1>2, <1>6 DEF Arranged

\* Of two blocks the later has the greater rank.
LEMMA RanksInOrder ==
    ASSUME NEW R, Arranged(R), NEW a \in R, NEW b \in R
    PROVE  /\ Rank(R, a) \in Nat /\ Cardinality(R) \in Nat /\ Rank(R, a) < Cardinality(R)
           /\ a.lo < b.lo => Rank(R, a) < Rank(R, b)
           /\ Rank(R, a) < Rank(R, b) => a.lo < b.lo
           /\ Rank(R, a) = Rank(R, b) => a = b
<1>1. ASSUME NEW S \in SUBSET R, NEW x \in R, Preceding(R, x) \in SUBSET S, x \in S
      PROVE  /\ Rank(R, x) \in Nat /\ Cardinality(S) \in Nat /\ Rank(R, x) < Cardinality(S)
  <2> DEFINE P == Preceding(R, x)
  <2>1. IsFiniteSet(R) /\ x.lo \in Nat
        BY DEF Arranged
  <2>2. IsFiniteSet(S)
        BY <2>1, FS_Subset
  <2>3. x \notin P
        BY <2>1 DEF Preceding
  <2>4. P \in SUBSET S
        BY <1>1
  <2> HIDE DEF P
  <2>5. IsFiniteSet(P) /\ Cardinality(P) <= Cardinality(S) /\ (Cardinality(S) = Cardinality(P) => S = P)
        BY <2>2, <2>4, FS_Subset
  <2>6. Cardinality(P) \in Nat /\ Cardinality(S) \in Nat
        BY <2>2, <2>5, FS_CardinalityType
  <2>7. Cardinality(P) # Cardinality(S)
        BY <1>1, <2>3, <2>5
  <2>8. Cardinality(P) < Cardinality(S)
        BY <2>5, <2>6, <2>7
  <2>9. QED
        BY <2>6, <2>8 DEF Rank, P
<1>2. ASSUME NEW x \in R
      PROVE  /\ Rank(R, x) \in Nat /\ Cardinality(R) \in Nat /\ Rank(R, x) < Cardinality(R)
  <2>1. Preceding(R, x) \in SUBSET R
        BY DEF Preceding
  <2>2. QED
        BY <1>1, <2>1
<1>3. ASSUME NEW x \in R, NEW y \in R, x.lo < y.lo PROVE Rank(R, x) < Rank(R, y)
  <2>1. Preceding(R, x) \in SUBSET Preceding(R, y) /\ x \in Preceding(R, y)
        /\ Preceding(R, y) \in SUBSET R
    <3>1. \A z \in R : z.lo \in Nat
          BY DEF Arranged
    <3>2. QED
          BY <1>3, <3>1 DEF Preceding
  <2>2. Rank(R, x) < Cardinality(Preceding(R, y))
        BY <1>1, <2>1
  <2>3. QED
        BY <2>2 DEF Rank
<1>4. a.lo \in Nat /\ b.lo \in Nat /\ (a.lo = b.lo => a = b)
      BY DEF Arranged
<1>5. Rank(R, a) \in Nat /\ Rank(R, b) \in Nat
      BY <1>2
<1>6. (a.lo < b.lo => Rank(R, a) < Rank(R, b)) /\ (b.lo < a.lo => Rank(R, b) < Rank(R, a))
      BY <1>3
<1>7. QED
      BY <1>2, <1>4, <1>5, <1>6

\* The ranks of the blocks are the numbers below how many there are.
LEMMA RanksHaveNoGap ==
    ASSUME NEW R, Arranged(R)
    PROVE  {Rank(R, r) : r \in R} = 0..(Cardinality(R) - 1)
<1> DEFINE c == Cardinality(R)
           T == 0..(c - 1)
           f == [r \in R |-> Rank(R, r)]
<1>1. IsFiniteSet(R)
      BY DEF Arranged
<1>2. c \in Nat
      BY <1>1, FS_CardinalityType
<1>3. \A r \in R : Rank(R, r) \in T
  <2>1. \A r \in R : Rank(R, r) \in Nat /\ Rank(R, r) < Cardinality(R)
        BY RanksInOrder
  <2>2. QED
        BY <1>2, <2>1
<1>4. \A r, s \in R : Rank(R, r) = Rank(R, s) => r = s
      BY RanksInOrder
<1>5. f \in [R -> T] /\ \A r, s \in R : f[r] = f[s] => r = s
      BY <1>3, <1>4
<1>6. IsFiniteSet(T) /\ Cardinality(T) = c
  <2> HIDE DEF c
  <2>1. 0 \in Int /\ c - 1 \in Int /\ (IF 0 > c - 1 THEN 0 ELSE (c - 1) - 0 + 1) = c
        BY <1>2
  <2>2. QED
        BY <2>1, FS_Interval
<1>7. f \in Injection(R, T)
  <2> HIDE DEF f, T
  <2>1. QED
        BY <1>5 DEF Injection, IsInjective
<1>8. f \in Surjection(R, T)
  <2>1. Cardinality(R) = Cardinality(T)
        BY <1>6
  <2> HIDE DEF f, T, c
  <2>2. QED
        BY <1>6, <1>7, <2>1, FS_Injection
<1>9. \A t \in T : \E r \in R : f[r] = t
  <2> HIDE DEF f, T
  <2>1. QED
        BY <1>8 DEF Surjection
<1>10. \A t \in T : \E r \in R : Rank(R, r) = t
       BY <1>9
<1>11. QED
  <2> HIDE DEF T, f
  <2>1. {Rank(R, r) : r \in R} = T
        BY <1>3, <1>10
  <2>2. QED
        BY <2>1 DEF T, c

\* f maps the blocks of R on those of S, each to one of its own, in their order.
InOrder(R, S, f) ==
    /\ f \in [R -> S]
    /\ \A s \in S : \E r \in R : f[r] = s
    /\ \A a, b \in R : (f[a] = f[b] => a = b) /\ (a.lo < b.lo <=> f[a].lo < f[b].lo)

\* Blocks that correspond in order have the same ranks.
LEMMA RanksCorrespond ==
    ASSUME NEW R, Arranged(R), NEW S, NEW f, InOrder(R, S, f), NEW r \in R
    PROVE  Rank(S, f[r]) = Rank(R, r)
<1> USE DEF InOrder
<1> DEFINE P == Preceding(R, r)
           Q == Preceding(S, f[r])
           g == [x \in P |-> f[x]]
<1>1. IsFiniteSet(P)
  <2>1. P \in SUBSET R /\ IsFiniteSet(R)
        BY DEF Preceding, Arranged
  <2> HIDE DEF P
  <2>2. QED
        BY <2>1, FS_Subset
<1>2. \A x \in R : x \in P <=> f[x] \in Q
      BY DEF Preceding
<1>3. P \in SUBSET R /\ Q \in SUBSET S
      BY DEF Preceding
<1> HIDE DEF P, Q
<1>4. g \in [P -> Q] /\ (\A a, b \in P : g[a] = g[b] => a = b) /\ \A q \in Q : \E p \in P : g[p] = q
      BY <1>2, <1>3
<1>5. g \in Bijection(P, Q)
  <2> HIDE DEF g
  <2>1. QED
        BY <1>4 DEF Bijection, Injection, IsInjective, Surjection
<1>6. ExistsBijection(P, Q)
      BY <1>5 DEF ExistsBijection
<1>7. Cardinality(Q) = Cardinality(P)
      BY <1>1, <1>6, FS_Bijection
<1>8. QED
      BY <1>7 DEF Rank, P, Q

(***************************************************************************)
(* Pages and boxes.                                                        *)
(***************************************************************************)
\* Lines further on are on the same page or on a later one, and on the same
\* only if there is no form feed between.
LEMMA PagesGoUp ==
    ASSUME NEW A, NEW i \in Nat, NEW j \in Nat, i <= j
    PROVE  /\ PageOf(A, i) \in Nat /\ PageOf(A, i) <= PageOf(A, j)
           /\ PageOf(A, i) = PageOf(A, j) => \A k \in 1..(j - 1) : A[k] = "break" => k < i
<1> DEFINE B == {k \in 1..(i - 1) : A[k] = "break"}
           C == {k \in 1..(j - 1) : A[k] = "break"}
<1>1. IsFiniteSet(C)
  <2>1. 1 \in Int /\ j - 1 \in Int
        OBVIOUS
  <2>2. IsFiniteSet(1..(j - 1))
        BY <2>1, FS_Interval
  <2>3. C \in SUBSET (1..(j - 1))
        OBVIOUS
  <2> HIDE DEF C
  <2>4. QED
        BY <2>2, <2>3, FS_Subset
<1>2. B \in SUBSET C
      OBVIOUS
<1>3. \A k \in B : k < i
      OBVIOUS
<1>4. \A k \in 1..(j - 1) : A[k] = "break" => k \in C
      OBVIOUS
<1>5. PageOf(A, i) = 1 + Cardinality(B) /\ PageOf(A, j) = 1 + Cardinality(C)
      BY DEF PageOf
<1> HIDE DEF B, C
<1>6. IsFiniteSet(B) /\ Cardinality(B) <= Cardinality(C) /\ (Cardinality(C) = Cardinality(B) => C = B)
      BY <1>1, <1>2, FS_Subset
<1>7. Cardinality(B) \in Nat /\ Cardinality(C) \in Nat
      BY <1>1, <1>6, FS_CardinalityType
<1>8. PageOf(A, i) \in Nat /\ PageOf(A, i) <= PageOf(A, j)
      BY <1>5, <1>6, <1>7
<1>9. ASSUME PageOf(A, i) = PageOf(A, j) PROVE C = B
      BY <1>5, <1>6, <1>7, <1>9
<1>10. QED
       BY <1>3, <1>4, <1>8, <1>9

\* The blocks that start on page p.
OnPage(A, p) == {r \in Runs(A) : PageOf(A, r.lo) = p}

\* An anchor is a page and a rank on it, an ordinal a rank in the document.
LEMMA AnchorsAreRanks ==
    ASSUME NEW A, NEW r
    PROVE  /\ AnchorOf(A, r) = <<PageOf(A, r.lo), Rank(OnPage(A, PageOf(A, r.lo)), r)>>
           /\ Cardinality({x \in Runs(A) : x.lo < r.lo}) = Rank(Runs(A), r)
<1> DEFINE p == PageOf(A, r.lo)
           X == {x \in Runs(A) : x.lo < r.lo /\ PageOf(A, x.lo) = p}
           Y == Preceding(OnPage(A, p), r)
<1>1. X = Y
      BY Zenon DEF OnPage, Preceding
<1>2. AnchorOf(A, r) = <<p, Cardinality(X)>>
      BY Zenon DEF AnchorOf
<1>3. Rank(OnPage(A, p), r) = Cardinality(Y)
      BY Zenon DEF Rank
<1>4. AnchorOf(A, r) = <<p, Rank(OnPage(A, p), r)>>
      BY <1>1, <1>2, <1>3, Zenon
<1>5. Cardinality({x \in Runs(A) : x.lo < r.lo}) = Rank(Runs(A), r)
      BY Zenon DEF Rank, Preceding
<1>6. QED
      BY <1>4, <1>5, Zenon

\* The smaller of two numbers.
LEMMA LesserOfTwo ==
    ASSUME NEW a \in Int, NEW b \in Int
    PROVE  Min({a, b}) = IF a <= b THEN a ELSE b
<1>1. CASE a <= b
  <2>1. a \in {a, b} /\ \A y \in {a, b} : a <= y
        BY <1>1
  <2>2. \A x \in {a, b} : (\A y \in {a, b} : x <= y) => x = a
        BY <1>1
  <2>3. QED
        BY <1>1, <2>1, <2>2 DEF Min
<1>2. CASE ~(a <= b)
  <2>1. b \in {a, b} /\ \A y \in {a, b} : b <= y
        BY <1>2
  <2>2. \A x \in {a, b} : (\A y \in {a, b} : x <= y) => x = b
        BY <1>2
  <2>3. QED
        BY <1>2, <2>1, <2>2 DEF Min
<1>3. QED
      BY <1>1, <1>2

\* A block's box ends where the next one of the page may begin, or before.
LEMMA BoxesAreApart ==
    ASSUME NEW A, Lined(A), NEW r \in Runs(A), NEW s \in Runs(A), r.lo < s.lo,
           PageOf(A, r.lo) = PageOf(A, s.lo)
    PROVE  Box(A, r).bottom <= Box(A, s).top
<1> DEFINE n == Len(A)
           a == r.hi
           b == s.lo
           B == {k \in 1..a : A[k] = "break"}
           C == {k \in 1..b : A[k] = "break"}
           Z == {0} \cup B
           top == LineOfPage(A, b)
           bottom == LineOfPage(A, a) + 1
<1>1. /\ n \in Nat /\ a \in 1..n /\ b \in 1..n /\ r.lo \in 1..n /\ r.lo <= a
      /\ IsText(A[b]) /\ \A k \in (r.lo)..a : IsText(A[k])
  <2>1. b \in b..(s.hi)
        BY BlockIsText
  <2>2. QED
        BY <2>1, BlockIsText DEF Lined
<1>2. a < b
      BY BlocksInOrder
<1>3. B = C
  <2>1. \A k \in 1..(b - 1) : A[k] = "break" => k < r.lo
    <3>1. r.lo \in Nat /\ b \in Nat /\ r.lo <= b
          BY <1>1
    <3>2. QED
          BY <3>1, PagesGoUp
  <2>2. A[b] # "break"
        BY <1>1 DEF IsText
  <2>3. \A k \in 1..b : A[k] = "break" => k \in 1..(b - 1)
        BY <1>1, <2>2
  <2>4. \A k \in 1..b : A[k] = "break" => k \in 1..a
        BY <1>1, <2>1, <2>3
  <2>5. \A k \in 1..a : k \in 1..b
        BY <1>1, <1>2
  <2>6. QED
        BY <2>4, <2>5
<1>4. Max(Z) \in Int
  <2>1. Z \in SUBSET (0..n) /\ Z # {}
        BY <1>1
  <2> HIDE DEF Z, n
  <2>2. Max(Z) \in Z
        BY <1>1, <2>1, GreatestIsThere
  <2>3. \A z \in Z : z \in Int
        BY <2>1
  <2>4. QED
        BY <2>2, <2>3, Zenon
<1>5. top = b - Max(Z) - 1 /\ bottom = (a - Max(Z) - 1) + 1
  <2>1. top = b - Max({0} \cup C) - 1
        BY Zenon DEF LineOfPage
  <2>2. bottom = (a - Max(Z) - 1) + 1
        BY Zenon DEF LineOfPage
  <2>3. QED
        BY <1>3, <2>1, <2>2, Zenon
<1>6. top \in Int /\ bottom \in Int /\ bottom <= top /\ GridRows \in Nat
  <2> DEFINE m == Max(Z)
  <2>1. m \in Int /\ top = b - m - 1 /\ bottom = (a - m - 1) + 1 /\ a \in Int /\ b \in Int
        BY <1>1, <1>4, <1>5
  <2> HIDE DEF m, top, bottom, a, b
  <2>2. top \in Int /\ bottom \in Int /\ bottom <= top
        BY <1>2, <2>1
  <2>3. QED
        BY <2>2, AnchoringAssumption
<1>7. Box(A, r).bottom = Min({bottom, GridRows}) /\ Box(A, s).top = Min({top, GridRows})
      BY DEF Box
<1> HIDE DEF top, bottom
<1>8. /\ Min({bottom, GridRows}) = (IF bottom <= GridRows THEN bottom ELSE GridRows)
      /\ Min({top, GridRows}) = (IF top <= GridRows THEN top ELSE GridRows)
      BY <1>6, LesserOfTwo
<1>9. Min({bottom, GridRows}) <= Min({top, GridRows})
      BY <1>6, <1>8
<1>10. QED
       BY <1>7, <1>9


(***************************************************************************)
(* Anchors name one block.                                                 *)
(***************************************************************************)
\* The chunk of a block.
ChunkOf(doc, A, r) ==
    [doc |-> doc, run |-> r, anchor |-> AnchorOf(A, r), page |-> PageOf(A, r.lo),
     ordinal |-> Rank(Runs(A), r), box |-> Box(A, r), kind |-> Classify(SubSeq(A, r.lo, r.hi))]

\* The chunks are those of the blocks.
LEMMA ChunksAreOfBlocks ==
    ASSUME NEW doc, NEW A
    PROVE  ChunksOf(doc, A) = {ChunkOf(doc, A, r) : r \in Runs(A)}
<1> DEFINE C(r) == [doc |-> doc, run |-> r, anchor |-> AnchorOf(A, r), page |-> PageOf(A, r.lo),
                    ordinal |-> Cardinality({x \in Runs(A) : x.lo < r.lo}), box |-> Box(A, r),
                    kind |-> Classify(SubSeq(A, r.lo, r.hi))]
<1>1. ASSUME NEW r \in Runs(A) PROVE C(r) = ChunkOf(doc, A, r)
  <2>1. Cardinality({x \in Runs(A) : x.lo < r.lo}) = Rank(Runs(A), r)
        BY AnchorsAreRanks, Zenon
  <2>2. QED
        BY <2>1, Zenon DEF ChunkOf
<1>2. ChunksOf(doc, A) = {C(r) : r \in Runs(A)}
      BY Zenon DEF ChunksOf
<1>3. QED
  <2> HIDE DEF C
  <2>1. QED
        BY <1>1, <1>2, Zenon

\* What the fields of a chunk are.
LEMMA FieldsOfAChunk ==
    ASSUME NEW doc, NEW A, NEW r
    PROVE  /\ ChunkOf(doc, A, r).run = r
           /\ ChunkOf(doc, A, r).anchor = <<PageOf(A, r.lo), Rank(OnPage(A, PageOf(A, r.lo)), r)>>
           /\ ChunkOf(doc, A, r).page = PageOf(A, r.lo)
           /\ ChunkOf(doc, A, r).ordinal = Rank(Runs(A), r)
           /\ ChunkOf(doc, A, r).box = Box(A, r)
           /\ ChunkOf(doc, A, r).kind = Classify(SubSeq(A, r.lo, r.hi))
<1>1. AnchorOf(A, r) = <<PageOf(A, r.lo), Rank(OnPage(A, PageOf(A, r.lo)), r)>>
      BY AnchorsAreRanks, Zenon
<1>2. QED
      BY <1>1 DEF ChunkOf

\* Two blocks in order are in order by page, and on one page by place and box.
LEMMA BlocksKeepTheirPlace ==
    ASSUME NEW A, Lined(A), NEW r \in Runs(A), NEW s \in Runs(A), r.lo < s.lo
    PROVE  \/ PageOf(A, r.lo) < PageOf(A, s.lo)
           \/ /\ PageOf(A, r.lo) = PageOf(A, s.lo)
              /\ Rank(OnPage(A, PageOf(A, r.lo)), r) < Rank(OnPage(A, PageOf(A, s.lo)), s)
              /\ Box(A, r).bottom <= Box(A, s).top
<1> DEFINE p == PageOf(A, r.lo)
           q == PageOf(A, s.lo)
<1>1. r.lo \in Nat /\ s.lo \in Nat /\ r.lo <= s.lo
      BY BlockIsText
<1>2. p \in Nat /\ q \in Nat /\ p <= q
      BY <1>1, PagesGoUp
<1>3. ASSUME p = q
      PROVE  /\ Rank(OnPage(A, p), r) < Rank(OnPage(A, q), s)
             /\ Box(A, r).bottom <= Box(A, s).top
  <2>1. OnPage(A, p) \in SUBSET Runs(A) /\ r \in OnPage(A, p) /\ s \in OnPage(A, p)
        BY <1>3 DEF OnPage
  <2>2. Arranged(OnPage(A, p))
        BY <2>1, BlocksAreRanked
  <2>3. Rank(OnPage(A, p), r) < Rank(OnPage(A, p), s)
    <3> HIDE DEF p
    <3>1. QED
          BY <2>1, <2>2, RanksInOrder
  <2>4. Box(A, r).bottom <= Box(A, s).top
        BY <1>3, BoxesAreApart
  <2>5. QED
        BY <1>3, <2>3, <2>4
<1>4. p < q \/ p = q
  <2> HIDE DEF p, q
  <2>1. QED
        BY <1>2
<1>5. QED
      BY <1>3, <1>4

\* Of any lines: each of text is in one chunk, an anchor is that of one chunk,
\* ordinals number the chunks, and in that order chunks follow one another.
LEMMA AnchorsAreUnique ==
    ASSUME NEW doc, NEW A, Lined(A)
    PROVE  LET cs == ChunksOf(doc, A)
           IN  /\ \A i \in DOMAIN A :
                     IsText(A[i]) => Cardinality({c \in cs : i \in (c.run.lo)..(c.run.hi)}) = 1
               /\ \A a, b \in cs : a.anchor = b.anchor => a = b
               /\ {c.ordinal : c \in cs} = 0..(Cardinality(cs) - 1)
               /\ \A a, b \in cs :
                     a.ordinal < b.ordinal =>
                         \/ a.page < b.page
                         \/ a.page = b.page /\ a.anchor[2] < b.anchor[2] /\ a.box.bottom <= b.box.top
<1> DEFINE cs == ChunksOf(doc, A)
           R == Runs(A)
           C(r) == ChunkOf(doc, A, r)
<1>1. cs = {C(r) : r \in R}
      BY ChunksAreOfBlocks
<1>2. Arranged(R)
      BY BlocksAreRanked
<1>3. \A r \in R : C(r).run = r /\ C(r).ordinal = Rank(R, r) /\ C(r).page = PageOf(A, r.lo)
                   /\ C(r).box = Box(A, r)
                   /\ C(r).anchor = <<PageOf(A, r.lo), Rank(OnPage(A, PageOf(A, r.lo)), r)>>
      BY FieldsOfAChunk
<1> HIDE DEF C, cs, R
<1>4. ASSUME NEW i \in DOMAIN A, IsText(A[i])
      PROVE  Cardinality({c \in cs : i \in (c.run.lo)..(c.run.hi)}) = 1
  <2>1. PICK r \in R : r.lo <= i /\ i <= r.hi
        BY <1>4, BlockAround DEF R
  <2>2. i \in (r.lo)..(r.hi)
    <3>1. r.lo \in Nat /\ r.hi \in Nat /\ i \in Nat
          BY BlockIsText DEF R, Lined
    <3>2. QED
          BY <2>1, <3>1
  <2>3. \A s \in R : i \in (s.lo)..(s.hi) => s = r
        BY <2>2, BlocksAreApart DEF R
  <2>4. {c \in cs : i \in (c.run.lo)..(c.run.hi)} = {C(r)}
        BY <1>1, <1>3, <2>2, <2>3
  <2>5. QED
        BY <2>4, FS_Singleton
<1>5. ASSUME NEW r \in R, NEW s \in R, r.lo < s.lo
      PROVE  /\ \/ C(r).page < C(s).page
                \/ /\ C(r).page = C(s).page /\ C(r).anchor[2] < C(s).anchor[2]
                   /\ C(r).box.bottom <= C(s).box.top
             /\ C(r).anchor # C(s).anchor
  <2> DEFINE p == PageOf(A, r.lo)
             q == PageOf(A, s.lo)
             k == Rank(OnPage(A, p), r)
             l == Rank(OnPage(A, q), s)
  <2>1. p < q \/ (p = q /\ k < l /\ Box(A, r).bottom <= Box(A, s).top)
        BY <1>5, BlocksKeepTheirPlace DEF R
  <2>2. p \in Nat /\ q \in Nat
    <3>1. r.lo \in Nat /\ s.lo \in Nat /\ r.lo <= r.lo /\ s.lo <= s.lo
          BY BlockIsText DEF R
    <3>2. QED
          BY <3>1, PagesGoUp
  <2>3. k \in Nat /\ l \in Nat
    <3>1. /\ OnPage(A, p) \in SUBSET Runs(A) /\ r \in OnPage(A, p)
          /\ OnPage(A, q) \in SUBSET Runs(A) /\ s \in OnPage(A, q)
          BY DEF OnPage, R
    <3>2. Arranged(OnPage(A, p)) /\ Arranged(OnPage(A, q))
          BY <3>1, BlocksAreRanked
    <3> HIDE DEF p, q
    <3>3. QED
          BY <3>1, <3>2, RanksInOrder
  <2>4. C(r).page = p /\ C(s).page = q /\ C(r).anchor = <<p, k>> /\ C(s).anchor = <<q, l>>
        /\ C(r).box = Box(A, r) /\ C(s).box = Box(A, s)
        BY <1>3
  <2> HIDE DEF p, q, k, l
  <2>5. C(r).anchor[2] = k /\ C(s).anchor[2] = l
        BY <2>4
  <2>6. p < q \/ (p = q /\ k < l) => <<p, k>> # <<q, l>>
        BY <2>2, <2>3
  <2>7. QED
        BY <2>1, <2>4, <2>5, <2>6
<1>6. \A r, s \in R : r = s \/ r.lo < s.lo \/ s.lo < r.lo
      BY <1>2 DEF Arranged
<1>7. \A a, b \in cs : a.anchor = b.anchor => a = b
      BY <1>1, <1>5, <1>6
<1>8. \A r, s \in R : Rank(R, r) < Rank(R, s) => r.lo < s.lo
      BY <1>2, RanksInOrder
<1>9. \A a, b \in cs :
         a.ordinal < b.ordinal =>
             \/ a.page < b.page
             \/ a.page = b.page /\ a.anchor[2] < b.anchor[2] /\ a.box.bottom <= b.box.top
      BY <1>1, <1>3, <1>5, <1>8
<1>10. {c.ordinal : c \in cs} = 0..(Cardinality(cs) - 1)
  <2> DEFINE f == [r \in R |-> C(r)]
  <2>1. \A r, s \in R : C(r) = C(s) => r = s
        BY <1>3
  <2>2. f \in Bijection(R, cs)
    <3>1. f \in [R -> cs] /\ (\A r, s \in R : f[r] = f[s] => r = s) /\ \A c \in cs : \E r \in R : f[r] = c
          BY <1>1, <2>1
    <3> HIDE DEF f
    <3>2. QED
          BY <3>1 DEF Bijection, Injection, IsInjective, Surjection
  <2>3. IsFiniteSet(R)
        BY <1>2 DEF Arranged
  <2>4. Cardinality(cs) = Cardinality(R)
    <3>1. ExistsBijection(R, cs)
          BY <2>2 DEF ExistsBijection
    <3>2. QED
          BY <2>3, <3>1, FS_Bijection
  <2>5. {c.ordinal : c \in cs} = {Rank(R, r) : r \in R}
        BY <1>1, <1>3
  <2>6. QED
        BY <1>2, <2>4, <2>5, RanksHaveNoGap
<1>11. QED
       BY <1>4, <1>7, <1>9, <1>10 DEF cs

(***************************************************************************)
(* The second parse.                                                       *)
(***************************************************************************)
\* A blank line goes before line i of A when it opens a block and the text t
\* that is there already does not end with a page's end.
Opens(A, t, i) ==
    IsText(A[i]) /\ BlockStarts(A, i) /\ t # <<>> /\ t[Len(t)] # "break"

\* What a line adds to the text before it.
LEMMA JoinedAdds ==
    ASSUME NEW V, "blank" \in V, NEW A \in Seq(V), NEW t \in Seq(V), NEW i \in 1..Len(A)
    PROVE  /\ A[i] = "blank" => Joined(t, A, i) = t
           /\ (A[i] # "blank" /\ Opens(A, t, i)) => Joined(t, A, i) = t \o <<"blank", A[i]>>
           /\ (A[i] # "blank" /\ ~Opens(A, t, i)) => Joined(t, A, i) = Append(t, A[i])
           /\ Joined(t, A, i) \in Seq(V)
<1> DEFINE fresh == t = <<>> \/ t[Len(t)] = "break"
           parted == IsText(A[i]) /\ BlockStarts(A, i)
<1>1. Joined(t, A, i) = IF A[i] = "blank" THEN t
                        ELSE IF ~fresh /\ parted THEN t \o <<"blank", A[i]>> ELSE Append(t, A[i])
      BY Zenon DEF Joined, Last
<1>2. (~fresh /\ parted) <=> Opens(A, t, i)
      BY Zenon DEF Opens
<1>3. A[i] \in V /\ t \o <<"blank", A[i]>> \in Seq(V) /\ Append(t, A[i]) \in Seq(V)
  <2>1. A[i] \in V
        OBVIOUS
  <2> DEFINE x == A[i]
  <2> HIDE DEF x
  <2>2. x \in V
        BY <2>1 DEF x
  <2>3. <<"blank", x>> \in Seq(V)
        BY <2>2
  <2>4. t \o <<"blank", x>> \in Seq(V) /\ Append(t, x) \in Seq(V)
        BY <2>2, <2>3
  <2>5. QED
        BY <2>1, <2>4 DEF x
<1> HIDE DEF fresh, parted
<1>4. QED
      BY <1>1, <1>2, <1>3, Zenon

\* The text as it grows.
Grows(T, A, V) ==
    /\ T \in [0..Len(A) -> Seq(V)] /\ T[0] = <<>>
    /\ \A i \in 1..Len(A) : T[i] = Joined(T[i - 1], A, i)

\* The prepared text is the last of texts that grow line by line.
LEMMA PreparedGrows ==
    ASSUME NEW V, "blank" \in V, NEW A \in Seq(V)
    PROVE  \E T : Grows(T, A, V) /\ Prepared(A) = T[Len(A)]
<1> DEFINE n == Len(A)
           X == 0..n
           Final == {0}
           size == [i \in X |-> i]
           next == [i \in X |-> IF i = 0 THEN 0 ELSE i - 1]
           W == Seq(V)
           base == [i \in X |-> <<>>]
           step == [v \in X \X W |-> IF v[1] = 0 THEN <<>> ELSE Joined(v[2], A, v[1])]
           Body(f) == [i \in X |-> IF i = 0 THEN <<>> ELSE Joined(f[i - 1], A, i)]
           read == CHOOSE f : f = Body(f)
<1>1. n \in Nat
      OBVIOUS
<1>2. Descends(X, Final, size, next) /\ \A x \in X : size[x] <= n
  <2>1. size \in [X -> Nat] /\ next \in [X -> X] /\ Final \subseteq X
        BY <1>1
  <2>2. \A x \in X \ Final : size[next[x]] < size[x]
        BY <1>1
  <2>3. \A x \in X : size[x] <= n
        BY <1>1
  <2> HIDE DEF X, Final, size, next
  <2>4. QED
        BY <2>1, <2>2, <2>3 DEF Descends
<1>3. <<>> \in W
      OBVIOUS
<1>4. \A i \in 1..n, t \in W : Joined(t, A, i) \in W
      BY JoinedAdds
<1>5. base \in [X -> W] /\ step \in [X \X W -> W]
  <2>1. ASSUME NEW v \in X \X W PROVE (IF v[1] = 0 THEN <<>> ELSE Joined(v[2], A, v[1])) \in W
    <3>1. v[1] \in X /\ v[2] \in W
          OBVIOUS
    <3>2. v[1] # 0 => v[1] \in 1..n
          BY <1>1, <3>1
    <3> HIDE DEF W, X, n
    <3>3. QED
          BY <1>3, <1>4, <3>1, <3>2, Zenon
  <2> HIDE DEF W, X
  <2>2. QED
        BY <1>3, <2>1
<1>6. PICK f \in [X -> W] : Follows(f, X, Final, next, base, step)
  <2> HIDE DEF X, Final, size, next, W, base, step, n
  <2>1. QED
        BY <1>1, <1>2, <1>5, DescentDefines
<1>7. f[0] = <<>> /\ \A i \in 1..n : f[i] = Joined(f[i - 1], A, i)
  <2>1. f[0] = <<>>
    <3>1. 0 \in X /\ 0 \in Final /\ base[0] = <<>>
          BY <1>1
    <3> HIDE DEF X, Final, base, next, step
    <3>2. QED
          BY <1>6, <3>1 DEF Follows
  <2>2. ASSUME NEW i \in 1..n PROVE f[i] = Joined(f[i - 1], A, i)
    <3>1. i \in X /\ i \notin Final /\ next[i] = i - 1 /\ i # 0 /\ i - 1 \in X
          BY <1>1
    <3>2. f[i - 1] \in W
          BY <3>1
    <3>3. <<i, f[i - 1]>> \in X \X W
          BY <3>1, <3>2
    <3>4. step[<<i, f[i - 1]>>] = Joined(f[i - 1], A, i)
      <4> DEFINE v == <<i, f[i - 1]>>
      <4>1. v \in X \X W /\ v[1] = i /\ v[2] = f[i - 1]
            BY <3>3
      <4> HIDE DEF v, X, W
      <4>2. step[v] = IF v[1] = 0 THEN <<>> ELSE Joined(v[2], A, v[1])
            BY <4>1
      <4>3. step[v] = Joined(f[i - 1], A, i)
            BY <3>1, <4>1, <4>2
      <4>4. QED
            BY <4>3 DEF v
    <3>5. f[i] = step[<<i, f[i - 1]>>]
      <4> HIDE DEF X, Final, next, base, step
      <4>1. f[i] = step[<<i, f[next[i]]>>]
            BY <1>6, <3>1 DEF Follows
      <4>2. QED
            BY <3>1, <4>1
    <3>6. QED
          BY <3>4, <3>5
  <2>3. QED
        BY <2>1, <2>2
<1>8. f = Body(f)
  <2>1. ASSUME NEW i \in X PROVE f[i] = IF i = 0 THEN <<>> ELSE Joined(f[i - 1], A, i)
    <3>1. i = 0 \/ (i # 0 /\ i \in 1..n)
          BY <1>1
    <3> HIDE DEF n, X
    <3>2. QED
          BY <1>7, <3>1
  <2> DEFINE g == Body(f)
  <2>2. DOMAIN g = X /\ g = [i \in X |-> g[i]] /\ \A i \in X : f[i] = g[i]
        BY <2>1
  <2>3. DOMAIN f = X /\ f = [i \in X |-> f[i]]
        BY <1>6
  <2> HIDE DEF g, X
  <2>4. f = g
        BY <2>2, <2>3
  <2>5. QED
        BY <2>4 DEF g
<1>9. read = Body(read)
      BY <1>8, Zenon
<1>10. Prepared(A) = read[n]
       BY Zenon DEF Prepared
<1> HIDE DEF read
<1>11. read[0] = <<>> /\ (\A i \in 1..n : read[i] = Joined(read[i - 1], A, i)) /\ read = [i \in X |-> read[i]]
  <2>1. \A i \in X : read[i] = IF i = 0 THEN <<>> ELSE Joined(read[i - 1], A, i)
        BY <1>9, Zenon
  <2>2. 0 \in X /\ \A i \in 1..n : i \in X /\ i # 0
        BY <1>1
  <2>3. read = [i \in X |-> read[i]]
    <3> DEFINE g == Body(read)
    <3>1. g = [i \in X |-> g[i]]
          OBVIOUS
    <3>2. g = read
          BY <1>9
    <3> HIDE DEF g
    <3>3. QED
          BY <3>1, <3>2
  <2> HIDE DEF X, n
  <2>4. QED
        BY <2>1, <2>2, <2>3
<1>12. \A i \in X : read[i] \in W
  <2> DEFINE Good == {i \in X : read[i] \in W}
  <2>1. 0 \in Good
    <3>1. 0 \in X
          BY <1>1
    <3>2. read[0] \in W
          BY <1>3, <1>11, Zenon
    <3>3. QED
          BY <3>1, <3>2, Zenon
  <2>2. ASSUME NEW i \in 1..n, i - 1 \in Good PROVE i \in Good
    <3>1. i \in X /\ read[i - 1] \in W
          BY <1>1, <2>2
    <3>2. read[i] \in W
      <4> HIDE DEF W
      <4>1. QED
            BY <1>4, <1>11, <3>1
    <3>3. QED
          BY <3>1, <3>2
  <2> HIDE DEF Good
  <2>3. \A i \in 0..n : i \in Good
        BY <1>1, <2>1, <2>2, Counting
  <2>4. QED
        BY <2>3 DEF Good
<1>13. read \in [X -> W]
  <2> HIDE DEF X, W
  <2>1. QED
        BY <1>11, <1>12
<1>14. QED
       BY <1>10, <1>11, <1>13 DEF Grows

\* What becomes of a text when one element or two are added.
LEMMA OneOrTwoMore ==
    ASSUME NEW V, NEW t \in Seq(V), NEW x \in V, NEW y \in V
    PROVE  /\ Len(t) \in Nat
           /\ Len(Append(t, y)) = Len(t) + 1 /\ Append(t, y)[Len(t) + 1] = y
           /\ \A k \in 1..Len(t) : Append(t, y)[k] = t[k]
           /\ Len(t \o <<x, y>>) = Len(t) + 2 /\ (t \o <<x, y>>)[Len(t) + 1] = x
           /\ (t \o <<x, y>>)[Len(t) + 2] = y /\ \A k \in 1..Len(t) : (t \o <<x, y>>)[k] = t[k]
<1> DEFINE b == <<x, y>>
           n == Len(t)
           m == Len(b)
<1>1. b \in Seq(V) /\ m = 2 /\ b[1] = x /\ b[2] = y
      OBVIOUS
<1> HIDE DEF b
<1>2. n \in Nat
      OBVIOUS
<1>3. Len(Append(t, y)) = n + 1 /\ Append(t, y)[n + 1] = y /\ \A k \in 1..n : Append(t, y)[k] = t[k]
      OBVIOUS
<1>2a. t \in Seq(V) /\ b \in Seq(V) /\ Len(t) = n /\ Len(b) = m /\ n \in Nat /\ m \in Nat
      BY <1>1, <1>2
<1> HIDE DEF n, m
<1>4. Len(t \o b) = n + m /\ DOMAIN (t \o b) = 1..(n + m) /\ \A k \in 1..n : (t \o b)[k] = t[k]
      BY <1>2a
<1>5. ASSUME NEW j \in 1..m PROVE (t \o b)[n + j] = b[j]
  <2>1. n + j \in 1..(n + m) /\ ~(n + j <= n) /\ (n + j) - n = j
        BY <1>2a
  <2>2. (t \o b)[n + j] = b[(n + j) - n]
        BY <1>2a, <2>1
  <2>3. QED
        BY <2>1, <2>2
<1>6. (t \o b)[n + 1] = b[1] /\ (t \o b)[n + 2] = b[2]
  <2>1. 1 \in 1..m /\ 2 \in 1..m
        BY <1>1
  <2>2. QED
        BY <1>5, <2>1
<1>7. QED
  <2>1. Len(t) = n
        BY DEF n
  <2>2. QED
        BY <1>1, <1>2, <1>3, <1>4, <1>6, <2>1 DEF b

\* A line that is joined to a text extends it.
Extends(u, t, A, i) ==
    /\ Len(u) >= Len(t) /\ \A k \in 1..Len(t) : u[k] = t[k]
    /\ A[i] = "blank" => Len(u) = Len(t)
    /\ A[i] # "blank" => /\ u[Len(u)] = A[i]
                         /\ Len(u) = Len(t) + (IF Opens(A, t, i) THEN 2 ELSE 1)
                         /\ Opens(A, t, i) => u[Len(t) + 1] = "blank"

\* So does Joined.
LEMMA JoinedExtends ==
    ASSUME NEW V, "blank" \in V, NEW A \in Seq(V), NEW t \in Seq(V), NEW i \in 1..Len(A)
    PROVE  Extends(Joined(t, A, i), t, A, i)
<1>a. /\ A[i] = "blank" => Joined(t, A, i) = t
      /\ (A[i] # "blank" /\ Opens(A, t, i)) => Joined(t, A, i) = t \o <<"blank", A[i]>>
      /\ (A[i] # "blank" /\ ~Opens(A, t, i)) => Joined(t, A, i) = Append(t, A[i])
      /\ Joined(t, A, i) \in Seq(V)
      BY JoinedAdds
<1> DEFINE x == A[i]
           u == Joined(t, A, i)
           n == Len(t)
           b == t \o <<"blank", x>>
           e == Append(t, x)
<1>1. x \in V
      OBVIOUS
<1>2. /\ x = "blank" => u = t
      /\ (x # "blank" /\ Opens(A, t, i)) => u = b
      /\ (x # "blank" /\ ~Opens(A, t, i)) => u = e
      BY <1>a, Zenon
<1> HIDE DEF x, u
<1>3. /\ n \in Nat /\ Len(e) = n + 1 /\ e[n + 1] = x /\ \A k \in 1..n : e[k] = t[k]
      /\ Len(b) = n + 2 /\ b[n + 1] = "blank" /\ b[n + 2] = x /\ \A k \in 1..n : b[k] = t[k]
      BY <1>1, OneOrTwoMore
<1> HIDE DEF b, e, n
<1>4. CASE x = "blank"
      BY <1>2, <1>3, <1>4 DEF Extends, x, u, n
<1>5. CASE x # "blank" /\ Opens(A, t, i)
  <2>1. u = b
        BY <1>2, <1>5
  <2>2. /\ Len(u) >= n /\ (\A k \in 1..n : u[k] = t[k]) /\ u[Len(u)] = x
        /\ Len(u) = n + (IF Opens(A, t, i) THEN 2 ELSE 1) /\ u[n + 1] = "blank"
        BY <1>3, <1>5, <2>1
  <2>3. QED
        BY <1>5, <2>2, Zenon DEF Extends, x, u, n
<1>6. CASE x # "blank" /\ ~Opens(A, t, i)
  <2>1. u = e
        BY <1>2, <1>6
  <2>2. /\ Len(u) >= n /\ (\A k \in 1..n : u[k] = t[k]) /\ u[Len(u)] = x
        /\ Len(u) = n + (IF Opens(A, t, i) THEN 2 ELSE 1)
        BY <1>3, <1>6, <2>1
  <2>3. QED
        BY <1>6, <2>2, Zenon DEF Extends, x, u, n
<1>7. QED
      BY <1>4, <1>5, <1>6 DEF u

\* How the lines of B come from those of A: the first i have become L[i].  Blank
\* lines are left out, every other line is kept, after a new blank line if it
\* opens a block on a page that has one already.
OpensAt(A, B, L, i) ==
    IsText(A[i]) /\ BlockStarts(A, i) /\ L[i - 1] # 0 /\ B[L[i - 1]] # "break"

\* The whole of it.
Corresponds(A, B, L) ==
    /\ Lined(A) /\ Lined(B)
    /\ L \in [0..Len(A) -> 0..Len(B)] /\ L[0] = 0 /\ L[Len(A)] = Len(B)
    /\ \A i \in 1..Len(A) :
          /\ A[i] = "blank" => L[i] = L[i - 1]
          /\ A[i] # "blank" => /\ B[L[i]] = A[i]
                               /\ L[i] = L[i - 1] + (IF OpensAt(A, B, L, i) THEN 2 ELSE 1)
                               /\ OpensAt(A, B, L, i) => B[L[i - 1] + 1] = "blank"

\* The text that is parsed again corresponds so to what was parsed first.
LEMMA PreparedCorresponds ==
    ASSUME NEW V, "blank" \in V, NEW A \in Seq(V)
    PROVE  \E L : Corresponds(A, Prepared(A), L) /\ Prepared(A) \in Seq(V)
<1> DEFINE n == Len(A)
           B == Prepared(A)
<1>1. PICK T : Grows(T, A, V) /\ B = T[n]
      BY PreparedGrows
<1> HIDE DEF B
<1>2. /\ n \in Nat /\ T \in [0..n -> Seq(V)] /\ T[0] = <<>>
      /\ \A i \in 1..n : i - 1 \in 0..n /\ T[i - 1] \in Seq(V) /\ T[i] = Joined(T[i - 1], A, i)
  <2>1. n \in Nat
        OBVIOUS
  <2>2. T \in [0..n -> Seq(V)] /\ T[0] = <<>> /\ \A i \in 1..n : T[i] = Joined(T[i - 1], A, i)
        BY <1>1 DEF Grows
  <2>3. \A i \in 1..n : i - 1 \in 0..n
        BY <2>1
  <2> HIDE DEF n
  <2>4. QED
        BY <2>1, <2>2, <2>3
<1>3. \A i \in 0..n : T[i] \in Seq(V) /\ Len(T[i]) \in Nat
      BY <1>2
<1>4. ASSUME NEW i \in 1..n
      PROVE  Extends(T[i], T[i - 1], A, i)
  <2> DEFINE t == T[i - 1]
  <2>1. t \in Seq(V) /\ T[i] = Joined(t, A, i)
        BY <1>2
  <2> HIDE DEF t
  <2>2. Extends(Joined(t, A, i), t, A, i)
        BY <2>1, JoinedExtends
  <2>3. Extends(T[i], t, A, i)
        BY <2>1, <2>2, Zenon
  <2>4. QED
        BY <2>3 DEF t
<1> DEFINE Kept2(i, j) == i <= j => /\ Len(T[i]) <= Len(T[j])
                                    /\ \A k \in 1..Len(T[i]) : T[j][k] = T[i][k]
           Good == {j \in 0..n : \A i \in 0..n : Kept2(i, j)}
<1>5. 0 \in Good
  <2>1. \A i \in 0..n : i <= 0 => i = 0
        BY <1>2
  <2>2. Len(T[0]) \in Nat /\ 0 \in 0..n
        BY <1>2, <1>3
  <2>3. \A i \in 0..n : Kept2(i, 0)
        BY <2>1, <2>2
  <2>4. QED
        BY <2>2, <2>3
<1>6. ASSUME NEW j \in 1..n, j - 1 \in Good PROVE j \in Good
  <2>1. j \in 0..n /\ j - 1 \in 0..n /\ j \in Nat
        BY <1>2
  <2>2. ASSUME NEW i \in 0..n, i <= j
        PROVE  Len(T[i]) <= Len(T[j]) /\ \A k \in 1..Len(T[i]) : T[j][k] = T[i][k]
    <3>1. CASE i = j
      <4>1. Len(T[j]) \in Nat
            BY <1>3, <2>1
      <4>2. QED
            BY <3>1, <4>1
    <3>2. CASE i # j
      <4>1. i <= j - 1
            BY <1>2, <2>1, <2>2, <3>2
      <4>2. Kept2(i, j - 1)
            BY <1>6
      <4>3. Len(T[i]) <= Len(T[j - 1]) /\ \A k \in 1..Len(T[i]) : T[j - 1][k] = T[i][k]
            BY <4>1, <4>2
      <4>4. Len(T[j]) >= Len(T[j - 1]) /\ \A k \in 1..Len(T[j - 1]) : T[j][k] = T[j - 1][k]
            BY <1>4 DEF Extends
      <4>5. Len(T[i]) \in Nat /\ Len(T[j]) \in Nat /\ Len(T[j - 1]) \in Nat
            BY <1>3, <2>1
      <4>6. QED
            BY <4>3, <4>4, <4>5
    <3>3. QED
          BY <3>1, <3>2
  <2>3. \A i \in 0..n : Kept2(i, j)
        BY <2>2
  <2>4. QED
        BY <2>1, <2>3
<1>7. ASSUME NEW i \in 0..n PROVE Len(T[i]) <= Len(B) /\ \A k \in 1..Len(T[i]) : B[k] = T[i][k]
  <2> HIDE DEF Good
  <2>1. \A j \in 0..n : j \in Good
        BY <1>2, <1>5, <1>6, Counting
  <2>2. n \in 0..n /\ i <= n
        BY <1>2
  <2>3. Kept2(i, n)
        BY <2>1, <2>2 DEF Good
  <2>4. QED
        BY <1>1, <2>2, <2>3
<1> DEFINE L == [i \in 0..n |-> Len(T[i])]
<1>8. B \in Seq(V)
  <2>1. n \in 0..n
        BY <1>2
  <2>2. QED
        BY <1>1, <1>3, <2>1
<1>9. Lined(A) /\ Lined(B)
      BY <1>8 DEF Lined
<1>10. L \in [0..n -> 0..Len(B)] /\ L[0] = 0 /\ L[n] = Len(B)
  <2>1. \A i \in 0..n : Len(T[i]) \in 0..Len(B)
        BY <1>3, <1>7, <1>8
  <2>2. 0 \in 0..n /\ n \in 0..n /\ Len(T[0]) = 0 /\ Len(T[n]) = Len(B)
        BY <1>1, <1>2
  <2>3. QED
        BY <2>1, <2>2
<1>11. \A i \in 0..n : L[i] = Len(T[i])
       OBVIOUS
<1> HIDE DEF L, Good, Kept2
<1>12. ASSUME NEW i \in 1..n
       PROVE  /\ A[i] = "blank" => L[i] = L[i - 1]
              /\ A[i] # "blank" => /\ B[L[i]] = A[i]
                                   /\ L[i] = L[i - 1] + (IF OpensAt(A, B, L, i) THEN 2 ELSE 1)
                                   /\ OpensAt(A, B, L, i) => B[L[i - 1] + 1] = "blank"
  <2> DEFINE t == T[i - 1]
             u == T[i]
  <2>1. i \in 0..n /\ i - 1 \in 0..n
        BY <1>2
  <2>2. L[i] = Len(u) /\ L[i - 1] = Len(t) /\ t \in Seq(V) /\ u \in Seq(V)
        BY <1>3, <1>11, <2>1
  <2>3. /\ \A k \in 1..Len(u) : B[k] = u[k]
        /\ \A k \in 1..Len(t) : B[k] = t[k]
        BY <1>7, <2>1
  <2>4. /\ A[i] = "blank" => Len(u) = Len(t)
        /\ A[i] # "blank" => /\ u[Len(u)] = A[i]
                             /\ Len(u) = Len(t) + (IF Opens(A, t, i) THEN 2 ELSE 1)
                             /\ Opens(A, t, i) => u[Len(t) + 1] = "blank"
        BY <1>4 DEF Extends
  <2> HIDE DEF t, u, n, B
  <2>5. Len(t) \in Nat /\ Len(u) \in Nat /\ (t = <<>> <=> Len(t) = 0)
        BY <2>2
  <2>6. Opens(A, t, i) <=> OpensAt(A, B, L, i)
    <3>1. CASE Len(t) = 0
          BY <2>2, <2>5, <3>1 DEF Opens, OpensAt
    <3>2. CASE Len(t) # 0
      <4>1. Len(t) \in 1..Len(t)
            BY <2>5, <3>2
      <4>2. B[L[i - 1]] = t[Len(t)]
            BY <2>2, <2>3, <4>1
      <4>3. L[i - 1] # 0 /\ t # <<>>
            BY <2>2, <2>5, <3>2
      <4>4. QED
            BY <4>2, <4>3, Zenon DEF Opens, OpensAt
    <3>3. QED
          BY <3>1, <3>2
  <2>7. A[i] # "blank" => Len(u) \in 1..Len(u) /\ (Opens(A, t, i) => Len(t) + 1 \in 1..Len(u))
        BY <2>4, <2>5
  <2>8. QED
        BY <2>2, <2>3, <2>4, <2>6, <2>7
<1>13. Corresponds(A, B, L)
       BY <1>9, <1>10, <1>12 DEF Corresponds
<1>14. QED
       BY <1>8, <1>13 DEF B

\* A line is not before where the lines above it have become.
LEMMA LinesGoForward ==
    ASSUME NEW A, NEW B, NEW L, Corresponds(A, B, L)
    PROVE  /\ Len(A) \in Nat /\ Len(B) \in Nat /\ DOMAIN A = 1..Len(A) /\ DOMAIN B = 1..Len(B)
           /\ \A i \in 0..Len(A) : L[i] \in 0..Len(B) /\ L[i] \in Nat
           /\ \A i \in 1..Len(A) :
                 /\ i - 1 \in 0..Len(A) /\ i \in 0..Len(A) /\ L[i - 1] <= L[i]
                 /\ A[i] # "blank" => L[i] \in 1..Len(B) /\ L[i - 1] < L[i] /\ B[L[i]] = A[i]
           /\ \A i, j \in 0..Len(A) : i <= j => L[i] <= L[j]
           /\ \A i \in 0..Len(A), j \in 1..Len(A) : (i < j /\ A[j] # "blank") => L[i] < L[j]
<1> DEFINE n == Len(A)
           m == Len(B)
           Good == {j \in 0..n : \A i \in 0..n : i <= j => L[i] <= L[j]}
<1>1. /\ n \in Nat /\ m \in Nat /\ DOMAIN A = 1..n /\ DOMAIN B = 1..m
      /\ L \in [0..n -> 0..m]
      BY DEF Corresponds, Lined
<1>2. \A i \in 1..n : /\ A[i] = "blank" => L[i] = L[i - 1]
                      /\ A[i] # "blank" => /\ B[L[i]] = A[i]
                                           /\ L[i] = L[i - 1] + 1 \/ L[i] = L[i - 1] + 2
      BY Zenon DEF Corresponds
<1> HIDE DEF n, m
<1>3. \A i \in 0..n : L[i] \in 0..m /\ L[i] \in Nat
      BY <1>1
<1>4. ASSUME NEW i \in 1..n
      PROVE  /\ i - 1 \in 0..n /\ i \in 0..n /\ L[i - 1] <= L[i]
             /\ A[i] # "blank" => L[i] \in 1..m /\ L[i - 1] < L[i] /\ B[L[i]] = A[i]
  <2>1. i - 1 \in 0..n /\ i \in 0..n
        BY <1>1
  <2>2. L[i] \in 0..m /\ L[i] \in Nat /\ L[i - 1] \in Nat
        BY <1>3, <2>1
  <2>3. A[i] = "blank" => L[i] = L[i - 1]
        BY <1>2
  <2>4. A[i] # "blank" => B[L[i]] = A[i] /\ (L[i] = L[i - 1] + 1 \/ L[i] = L[i - 1] + 2)
        BY <1>2
  <2>5. QED
        BY <1>1, <2>1, <2>2, <2>3, <2>4
<1>5. 0 \in Good
  <2>1. \A i \in 0..n : i <= 0 => i = 0
        BY <1>1
  <2>2. 0 \in 0..n
        BY <1>1
  <2>3. L[0] \in Nat
        BY <1>3, <2>2
  <2>4. QED
        BY <2>1, <2>2, <2>3
<1>6. ASSUME NEW j \in 1..n, j - 1 \in Good PROVE j \in Good
  <2>1. j - 1 \in 0..n /\ j \in 0..n /\ L[j - 1] <= L[j] /\ j \in Nat
        BY <1>1, <1>4
  <2>2. ASSUME NEW i \in 0..n, i <= j PROVE L[i] <= L[j]
    <3>1. L[i] \in Nat /\ L[j] \in Nat /\ L[j - 1] \in Nat /\ i \in Nat
          BY <1>1, <1>3, <2>1
    <3>2. CASE i = j
          BY <3>1, <3>2
    <3>3. CASE i # j
      <4>1. i <= j - 1
            BY <2>1, <2>2, <3>1, <3>3
      <4>2. L[i] <= L[j - 1]
            BY <1>6, <4>1
      <4>3. QED
            BY <2>1, <3>1, <4>2
    <3>4. QED
          BY <3>2, <3>3
  <2>3. QED
        BY <2>1, <2>2
<1>7. \A i, j \in 0..n : i <= j => L[i] <= L[j]
  <2> HIDE DEF Good
  <2>1. \A j \in 0..n : j \in Good
        BY <1>1, <1>5, <1>6, Counting
  <2>2. QED
        BY <2>1 DEF Good
<1>8. ASSUME NEW i \in 0..n, NEW j \in 1..n, i < j, A[j] # "blank" PROVE L[i] < L[j]
  <2>1. i <= j - 1 /\ j - 1 \in 0..n
        BY <1>1, <1>8
  <2>2. L[i] <= L[j - 1] /\ L[j - 1] < L[j]
        BY <1>4, <1>7, <1>8, <2>1
  <2>3. L[i] \in Nat /\ L[j - 1] \in Nat /\ L[j] \in Nat
        BY <1>3, <1>4, <2>1
  <2>4. QED
        BY <2>2, <2>3
<1>9. QED
      BY <1>1, <1>3, <1>4, <1>7, <1>8 DEF n, m

\* Every line of B but a blank one comes from a line of A.
LEMMA LinesComeFromLines ==
    ASSUME NEW A, NEW B, NEW L, Corresponds(A, B, L), NEW q \in DOMAIN B, B[q] # "blank"
    PROVE  \E k \in 1..Len(A) : A[k] # "blank" /\ L[k] = q
<1> DEFINE n == Len(A)
           S == {k \in 0..n : L[k] >= q}
<1>1. n \in Nat /\ q \in 1..Len(B) /\ Len(B) \in Nat
      BY LinesGoForward
<1>2. L[0] = 0 /\ L[n] = Len(B)
      BY DEF Corresponds
<1>3. n \in S /\ S \in SUBSET Nat
      BY <1>1, <1>2
<1>4. PICK k \in S : \A x \in S : k <= x
  <2> HIDE DEF S
  <2>1. QED
        BY <1>3, LeastNatural
<1>5. k \in 1..n /\ k - 1 \in 0..n /\ L[k] >= q
      BY <1>1, <1>2, <1>4
<1>6. L[k] \in Nat /\ L[k - 1] \in Nat
      BY <1>5, LinesGoForward
<1>7. L[k - 1] < q
      BY <1>1, <1>4, <1>5, <1>6
<1>8. /\ A[k] = "blank" => L[k] = L[k - 1]
      /\ A[k] # "blank" => \/ L[k] = L[k - 1] + 1
                           \/ L[k] = L[k - 1] + 2 /\ B[L[k - 1] + 1] = "blank"
      BY <1>5, Zenon DEF Corresponds
<1>9. A[k] # "blank"
      BY <1>1, <1>5, <1>6, <1>7, <1>8
<1>10. L[k] = q
  <2>1. CASE L[k] = L[k - 1] + 1
        BY <1>1, <1>5, <1>6, <1>7, <2>1
  <2>2. CASE L[k] = L[k - 1] + 2 /\ B[L[k - 1] + 1] = "blank"
    <3>1. q = L[k - 1] + 1 \/ q = L[k]
          BY <1>1, <1>5, <1>6, <1>7, <2>2
    <3>2. QED
          BY <2>2, <3>1
  <2>3. QED
        BY <1>8, <1>9, <2>1, <2>2
<1>11. QED
       BY <1>5, <1>9, <1>10

\* A line stays on its page.
LEMMA PagesCorrespond ==
    ASSUME NEW A, NEW B, NEW L, Corresponds(A, B, L), NEW k \in 1..Len(A), A[k] # "blank"
    PROVE  PageOf(B, L[k]) = PageOf(A, k)
<1> DEFINE n == Len(A)
           m == Len(B)
           P == {i \in 1..(k - 1) : A[i] = "break"}
           Q == {i \in 1..(L[k] - 1) : B[i] = "break"}
           f == [i \in P |-> L[i]]
<1>1. n \in Nat /\ m \in Nat /\ DOMAIN B = 1..m /\ k \in 1..n /\ L[k] \in 1..m
      BY LinesGoForward
<1>2. \A i \in 1..n : i \in 0..n /\ L[i] \in Nat /\ (A[i] # "blank" => L[i] \in 1..m /\ B[L[i]] = A[i])
  <2> HIDE DEF n, m
  <2>1. \A i \in 1..n : i \in 0..n
        BY <1>1
  <2>2. QED
        BY <2>1, LinesGoForward DEF n, m
<1>3. \A i, j \in 1..n : (i < j /\ A[j] # "blank") => L[i] < L[j]
      BY <1>2, LinesGoForward
<1>4. ASSUME NEW i \in P PROVE L[i] \in Q /\ i \in 1..n /\ A[i] # "blank"
  <2>1. i \in 1..n /\ i < k /\ A[i] = "break"
        BY <1>1
  <2>2. L[i] \in 1..m /\ B[L[i]] = "break" /\ L[i] < L[k]
        BY <1>2, <1>3, <2>1
  <2>3. L[i] \in 1..(L[k] - 1)
        BY <1>1, <2>2
  <2>4. QED
        BY <2>1, <2>2, <2>3
<1>5. ASSUME NEW q \in Q PROVE \E i \in P : L[i] = q
  <2>1. q \in 1..m /\ q < L[k] /\ B[q] = "break"
        BY <1>1
  <2>2. PICK i \in 1..n : A[i] # "blank" /\ L[i] = q
        BY <1>1, <2>1, LinesComeFromLines
  <2>3. A[i] = "break"
        BY <1>2, <2>1, <2>2
  <2>4. i < k
    <3>1. ~(k < i) /\ i # k
      <4>1. L[i] \in Nat /\ L[k] \in Nat
            BY <1>1, <1>2
      <4>2. k < i => L[k] < L[i]
            BY <1>3, <2>2
      <4>3. QED
            BY <2>1, <2>2, <4>1, <4>2
    <3>2. QED
          BY <1>1, <3>1
  <2>5. i \in P
        BY <1>1, <2>3, <2>4
  <2>6. QED
        BY <2>2, <2>5
<1>6. \A a, b \in P : L[a] = L[b] => a = b
  <2>1. TAKE a \in P, b \in P
  <2>2. a \in 1..n /\ b \in 1..n /\ A[a] # "blank" /\ A[b] # "blank"
        BY <1>4
  <2>3. (a < b => L[a] < L[b]) /\ (b < a => L[b] < L[a]) /\ L[a] \in Nat /\ L[b] \in Nat
        BY <1>2, <1>3, <2>2
  <2>4. QED
        BY <1>1, <2>2, <2>3
<1>7. IsFiniteSet(P)
  <2>1. 1 \in Int /\ k - 1 \in Int
        BY <1>1
  <2>2. IsFiniteSet(1..(k - 1))
        BY <2>1, FS_Interval
  <2>3. P \in SUBSET (1..(k - 1))
        OBVIOUS
  <2> HIDE DEF P
  <2>4. QED
        BY <2>2, <2>3, FS_Subset
<1>8. PageOf(A, k) = 1 + Cardinality(P) /\ PageOf(B, L[k]) = 1 + Cardinality(Q)
      BY DEF PageOf
<1> HIDE DEF P, Q
<1>9. f \in [P -> Q] /\ (\A a, b \in P : f[a] = f[b] => a = b) /\ \A q \in Q : \E p \in P : f[p] = q
      BY <1>4, <1>5, <1>6
<1>10. f \in Bijection(P, Q)
  <2> HIDE DEF f
  <2>1. QED
        BY <1>9 DEF Bijection, Injection, IsInjective, Surjection
<1>11. ExistsBijection(P, Q)
       BY <1>10 DEF ExistsBijection
<1>12. Cardinality(Q) = Cardinality(P)
       BY <1>7, <1>11, FS_Bijection
<1>13. QED
       BY <1>8, <1>12

\* A block stays whole: its lines follow one another, and nothing joins it.
LEMMA BlocksStayWhole ==
    ASSUME NEW A, NEW B, NEW L, Corresponds(A, B, L), NEW r \in Runs(A)
    PROVE  /\ \A d \in 0..(r.hi - r.lo) : L[r.lo + d] = L[r.lo] + d
           /\ \A i \in (r.lo)..(r.hi) : L[i] = L[r.lo] + (i - r.lo) /\ L[i] \in 1..Len(B) /\ B[L[i]] = A[i]
<1> DEFINE n == Len(A)
           a == r.lo
           c == r.hi - r.lo
           Good == {d \in 0..c : L[a + d] = L[a] + d}
<1>1. /\ n \in Nat /\ a \in 1..n /\ r.hi \in 1..n /\ a <= r.hi /\ c \in Nat
      /\ \A i \in a..(r.hi) : IsText(A[i])
  <2>1. Lined(A)
        BY DEF Corresponds
  <2>2. r.lo \in 1..n /\ r.hi \in 1..n /\ r.lo <= r.hi /\ \A i \in (r.lo)..(r.hi) : IsText(A[i])
        BY <2>1, BlockIsText
  <2>3. n \in Nat
        BY <2>1 DEF Lined
  <2>4. QED
        BY <2>2, <2>3
<1>2. \A i \in 1..n : L[i] \in Nat /\ (A[i] # "blank" => L[i] \in 1..Len(B) /\ B[L[i]] = A[i])
  <2>1. \A i \in 1..n : i \in 0..n
        BY <1>1
  <2>2. QED
        BY <2>1, LinesGoForward
<1>3. \A d \in 0..c : a + d \in 1..n /\ a + d \in a..(r.hi)
      BY <1>1
<1>4. 0 \in Good
  <2>1. 0 \in 0..c /\ a + 0 = a /\ a \in 1..n
        BY <1>1
  <2>2. L[a] \in Nat
        BY <1>2, <2>1
  <2>3. L[a + 0] = L[a] + 0
        BY <2>1, <2>2
  <2>4. QED
        BY <2>1, <2>3
<1>5. ASSUME NEW d \in 1..c, d - 1 \in Good PROVE d \in Good
  <2> DEFINE i == a + d
  <2>1. d \in 0..c /\ d - 1 \in 0..c /\ i \in 1..n /\ i # 1 /\ i - 1 = a + (d - 1) /\ i \in a..(r.hi)
        /\ i - 1 \in a..(r.hi) /\ i - 1 \in 1..n
        BY <1>1, <1>3
  <2>2. IsText(A[i]) /\ IsText(A[i - 1])
        BY <1>1, <2>1
  <2>3. ~OpensAt(A, B, L, i) /\ A[i] # "blank"
        BY <2>1, <2>2 DEF OpensAt, BlockStarts, IsText
  <2>4. L[i] = L[i - 1] + 1
    <3>1. L[i] = L[i - 1] + (IF OpensAt(A, B, L, i) THEN 2 ELSE 1)
          BY <2>1, <2>3, Zenon DEF Corresponds
    <3>2. QED
          BY <2>3, <3>1
  <2>5. L[a + (d - 1)] = L[a] + (d - 1)
        BY <1>5
  <2>6. L[a] \in Nat
        BY <1>1, <1>2
  <2> HIDE DEF n, c
  <2>7. L[i] = L[a] + d
    <3>1. L[i - 1] = L[a] + (d - 1)
          BY <2>1, <2>5
    <3>2. d \in Int
          OBVIOUS
    <3> HIDE DEF i
    <3>3. QED
          BY <2>4, <2>6, <3>1, <3>2
  <2>8. QED
        BY <2>1, <2>7
<1>6. \A d \in 0..c : L[a + d] = L[a] + d
  <2> HIDE DEF Good, c
  <2>1. \A d \in 0..c : d \in Good
        BY <1>1, <1>4, <1>5, Counting
  <2>2. QED
        BY <2>1 DEF Good
<1>7. ASSUME NEW i \in a..(r.hi)
      PROVE  L[i] = L[a] + (i - a) /\ L[i] \in 1..Len(B) /\ B[L[i]] = A[i]
  <2>1. i - a \in 0..c /\ a + (i - a) = i /\ i \in 1..n
        BY <1>1
  <2>2. IsText(A[i])
        BY <1>1
  <2>3. L[a + (i - a)] = L[a] + (i - a)
        BY <1>6, <2>1
  <2>4. A[i] # "blank"
        BY <2>2 DEF IsText
  <2>5. QED
        BY <1>2, <2>1, <2>3, <2>4
<1>8. QED
      BY <1>6, <1>7

\* A line of text opens a block where it did before.
LEMMA StartsCorrespond ==
    ASSUME NEW A, NEW B, NEW L, Corresponds(A, B, L), NEW k \in 1..Len(A), IsText(A[k])
    PROVE  BlockStarts(B, L[k]) <=> BlockStarts(A, k)
<1> DEFINE n == Len(A)
<1>1. n \in Nat /\ k \in 1..n /\ k - 1 \in 0..n /\ L[k] \in Nat /\ L[k - 1] \in Nat /\ A[k] # "blank"
  <2>1. A[k] # "blank"
        BY DEF IsText
  <2>2. n \in Nat /\ k - 1 \in 0..n /\ k \in 0..n
        BY LinesGoForward
  <2>3. L[k] \in Nat /\ L[k - 1] \in Nat
        BY <2>2, LinesGoForward
  <2>4. QED
        BY <2>1, <2>2, <2>3
<1>2. /\ L[k] = L[k - 1] + (IF OpensAt(A, B, L, k) THEN 2 ELSE 1)
      /\ OpensAt(A, B, L, k) => B[L[k - 1] + 1] = "blank"
      BY <1>1, Zenon DEF Corresponds
<1>3. ASSUME BlockStarts(A, k) PROVE BlockStarts(B, L[k])
  <2>1. CASE OpensAt(A, B, L, k)
    <3>1. L[k] - 1 = L[k - 1] + 1
          BY <1>1, <1>2, <2>1
    <3>2. B[L[k] - 1] = "blank"
          BY <1>2, <2>1, <3>1
    <3>3. QED
          BY <3>2 DEF BlockStarts, IsText
  <2>2. CASE ~OpensAt(A, B, L, k)
    <3>1. L[k] = L[k - 1] + 1 /\ L[k] - 1 = L[k - 1]
          BY <1>1, <1>2, <2>2
    <3>2. L[k - 1] = 0 \/ B[L[k - 1]] = "break"
          BY <1>3, <2>2 DEF OpensAt
    <3>3. CASE L[k - 1] = 0
          BY <3>1, <3>3 DEF BlockStarts
    <3>4. CASE B[L[k - 1]] = "break"
      <4>1. B[L[k] - 1] = "break"
            BY <3>1, <3>4
      <4>2. QED
            BY <4>1 DEF BlockStarts, IsText
    <3>5. QED
          BY <3>2, <3>3, <3>4
  <2>3. QED
        BY <2>1, <2>2
<1>4. ASSUME ~BlockStarts(A, k) PROVE ~BlockStarts(B, L[k])
  <2>1. k # 1 /\ IsText(A[k - 1])
        BY <1>4 DEF BlockStarts
  <2>2. k - 1 \in 1..n /\ A[k - 1] # "blank"
        BY <1>1, <2>1 DEF IsText
  <2>3. L[k - 1] \in 1..Len(B) /\ B[L[k - 1]] = A[k - 1]
        BY <2>2, LinesGoForward
  <2>4. ~OpensAt(A, B, L, k)
        BY <1>4 DEF OpensAt
  <2>5. L[k] = L[k - 1] + 1 /\ L[k] - 1 = L[k - 1] /\ L[k] # 1
        BY <1>1, <1>2, <2>3, <2>4
  <2>6. IsText(B[L[k] - 1])
        BY <2>1, <2>3, <2>5
  <2>7. QED
        BY <2>5, <2>6 DEF BlockStarts
<1>5. QED
      BY <1>3, <1>4

\* A line of text ends a block where it did before.
LEMMA EndsCorrespond ==
    ASSUME NEW A, NEW B, NEW L, Corresponds(A, B, L), NEW k \in 1..Len(A), IsText(A[k]),
           BlockEnds(A, k)
    PROVE  BlockEnds(B, L[k])
<1> DEFINE n == Len(A)
           m == Len(B)
<1>1. n \in Nat /\ m \in Nat /\ k \in 0..n /\ k \in 1..n /\ L[k] \in 1..m /\ B[L[k]] = A[k]
  <2>1. A[k] # "blank"
        BY DEF IsText
  <2>2. QED
        BY <2>1, LinesGoForward
<1>2. SUFFICES ASSUME L[k] # m, IsText(B[L[k] + 1]) PROVE FALSE
      BY DEF BlockEnds
<1> DEFINE q == L[k] + 1
<1>3. q \in 1..m /\ B[q] # "blank" /\ q \in DOMAIN B
  <2>1. q \in 1..m
        BY <1>1, <1>2
  <2>2. B[q] # "blank"
        BY <1>2 DEF IsText
  <2>3. DOMAIN B = 1..m
        BY LinesGoForward
  <2>4. QED
        BY <2>1, <2>2, <2>3
<1>4. PICK p \in 1..n : A[p] # "blank" /\ L[p] = q
  <2> HIDE DEF q, n
  <2>1. QED
        BY <1>3, LinesComeFromLines DEF n
<1>5. p \in 0..n /\ p - 1 \in 0..n /\ L[p - 1] \in Nat /\ L[p] \in Nat /\ B[L[p]] = A[p]
  <2>1. p - 1 \in 0..n /\ p \in 0..n /\ B[L[p]] = A[p]
        BY <1>4, LinesGoForward
  <2>2. QED
        BY <2>1, LinesGoForward
<1>6. k < p
  <2>1. p <= k => L[p] <= L[k]
        BY <1>1, <1>5, LinesGoForward
  <2>2. ~(p <= k)
        BY <1>1, <1>4, <1>5, <2>1
  <2>3. QED
        BY <1>1, <1>5, <2>2
<1>7. IsText(A[p])
  <2>1. A[p] = B[L[k] + 1]
        BY <1>4, <1>5
  <2>2. QED
        BY <1>2, <2>1
<1>8. /\ L[p] = L[p - 1] + (IF OpensAt(A, B, L, p) THEN 2 ELSE 1)
      /\ OpensAt(A, B, L, p) => B[L[p - 1] + 1] = "blank"
      BY <1>4, Zenon DEF Corresponds
<1>9. ~OpensAt(A, B, L, p) /\ L[p - 1] = L[k]
  <2>1. ASSUME OpensAt(A, B, L, p) PROVE FALSE
    <3>1. L[p - 1] + 2 = L[k] + 1
          BY <1>4, <1>8, <2>1
    <3>2. L[k] \in Nat /\ L[p - 1] \in Nat /\ L[k] = L[p - 1] + 1
      <4>1. L[k] \in Nat /\ L[p - 1] \in Nat
            BY <1>1, <1>5
      <4>2. QED
            BY <3>1, <4>1
    <3>3. A[k] = "blank"
          BY <1>1, <1>8, <2>1, <3>2
    <3>4. QED
          BY <3>3 DEF IsText
  <2>2. L[p - 1] + 1 = L[k] + 1
        BY <1>4, <1>8, <2>1
  <2>3. L[p - 1] = L[k]
    <3>1. L[k] \in Nat /\ L[p - 1] \in Nat
          BY <1>1, <1>5
    <3>2. QED
          BY <2>2, <3>1
  <2>4. QED
        BY <2>1, <2>3
<1>10. BlockStarts(A, p)
  <2>1. SUFFICES ASSUME ~BlockStarts(A, p) PROVE FALSE
        OBVIOUS
  <2>2. p # 1 /\ IsText(A[p - 1])
        BY <2>1 DEF BlockStarts
  <2>3. p - 1 \in 1..n /\ p - 1 \in 0..n /\ A[p - 1] # "blank"
        BY <1>5, <2>2 DEF IsText
  <2>4. CASE p - 1 = k
    <3>1. k + 1 = p /\ k # n
          BY <1>1, <1>5, <2>3, <2>4
    <3>2. ~IsText(A[p])
          BY <3>1 DEF BlockEnds
    <3>3. QED
          BY <1>7, <3>2
  <2>5. CASE p - 1 # k
    <3>1. k < p - 1
          BY <1>1, <1>5, <1>6, <2>5
    <3>2. L[k] < L[p - 1]
          BY <1>1, <2>3, <3>1, LinesGoForward
    <3>3. QED
          BY <1>1, <1>9, <3>2
  <2>6. QED
        BY <2>4, <2>5
<1>11. L[p - 1] = 0 \/ B[L[p - 1]] = "break"
       BY <1>7, <1>9, <1>10 DEF OpensAt
<1>12. QED
       BY <1>1, <1>9, <1>11 DEF IsText

\* What a block of A has become in B.
Moved(L, r) == [lo |-> L[r.lo], hi |-> L[r.hi]]

\* The blocks of B are those of A, in order.
LEMMA BlocksCorrespond ==
    ASSUME NEW A, NEW B, NEW L, Corresponds(A, B, L)
    PROVE  /\ \A r \in Runs(A) : Moved(L, r) \in Runs(B)
           /\ \A s \in Runs(B) : \E r \in Runs(A) : Moved(L, r) = s
           /\ \A r, t \in Runs(A) : /\ Moved(L, r) = Moved(L, t) => r = t
                                    /\ r.lo < t.lo <=> Moved(L, r).lo < Moved(L, t).lo
<1> DEFINE n == Len(A)
           m == Len(B)
<1>1. Lined(A) /\ Lined(B) /\ n \in Nat /\ m \in Nat /\ DOMAIN A = 1..n /\ DOMAIN B = 1..m
      BY DEF Corresponds, Lined
<1>2. ASSUME NEW r \in Runs(A) PROVE Moved(L, r) \in Runs(B)
  <2> DEFINE a == r.lo
             b == r.hi
  <2>1. a \in 1..n /\ b \in 1..n /\ a <= b /\ (\A i \in a..b : IsText(A[i]))
        BY <1>1, BlockIsText
  <2>2. BlockStarts(A, a) /\ BlockEnds(A, b)
        BY DEF Runs
  <2>3. a \in a..b /\ b \in a..b
        BY <1>1, <2>1
  <2>4. \A i \in a..b : L[i] = L[a] + (i - a) /\ L[i] \in 1..m /\ B[L[i]] = A[i]
        BY BlocksStayWhole
  <2>5. BlockStarts(B, L[a]) /\ BlockEnds(B, L[b])
        BY <2>1, <2>2, <2>3, StartsCorrespond, EndsCorrespond
  <2> HIDE DEF a, b, n, m
  <2>6. L[a] \in 1..m /\ L[b] \in 1..m /\ L[b] = L[a] + (b - a) /\ L[a] \in Nat /\ L[b] \in Nat
        BY <2>3, <2>4
  <2>7. ASSUME NEW q \in (L[a])..(L[b]) PROVE IsText(B[q])
    <3> DEFINE i == a + (q - L[a])
    <3>1. i \in a..b /\ L[a] + (i - a) = q
          BY <1>1, <2>1, <2>6
    <3>2. L[i] = q /\ B[L[i]] = A[i]
          BY <2>4, <3>1
    <3>3. QED
          BY <2>1, <3>1, <3>2
  <2>8. L[a] <= L[b]
        BY <1>1, <2>1, <2>6
  <2>9. Moved(L, r) = [lo |-> L[a], hi |-> L[b]]
        BY DEF Moved, a, b
  <2>10. L[a] \in DOMAIN B /\ L[b] \in DOMAIN B
         BY <1>1, <2>6
  <2> DEFINE s == [lo |-> L[a], hi |-> L[b]]
  <2>11. s \in [lo : DOMAIN B, hi : DOMAIN B] /\ s.lo = L[a] /\ s.hi = L[b]
         BY <2>10
  <2> HIDE DEF s
  <2>12. s \in Runs(B)
         BY <2>5, <2>7, <2>8, <2>11 DEF Runs
  <2>13. QED
         BY <2>9, <2>12 DEF s
<1>3. ASSUME NEW r \in Runs(A), NEW t \in Runs(A), r.lo < t.lo PROVE L[r.lo] < L[t.lo]
  <2>1. r.lo \in 1..n /\ t.lo \in 1..n /\ t.lo \in (t.lo)..(t.hi)
        BY <1>1, BlockIsText
  <2>2. IsText(A[t.lo])
        BY <1>1, <2>1, BlockIsText
  <2>3. r.lo \in 0..n /\ A[t.lo] # "blank"
        BY <2>1, <2>2 DEF IsText
  <2>4. QED
        BY <1>3, <2>1, <2>3, LinesGoForward
<1>4. ASSUME NEW s \in Runs(B) PROVE \E r \in Runs(A) : Moved(L, r) = s
  <2>1. s.lo \in 1..m /\ s.lo \in (s.lo)..(s.hi) /\ s.lo <= s.hi /\ s.lo \in DOMAIN B
        BY <1>1, BlockIsText
  <2>2. IsText(B[s.lo]) /\ BlockStarts(B, s.lo)
        BY <1>1, <2>1, BlockIsText DEF Runs
  <2>3. PICK k \in 1..n : A[k] # "blank" /\ L[k] = s.lo
        BY <2>1, <2>2, LinesComeFromLines DEF IsText
  <2>4. IsText(A[k]) /\ k \in DOMAIN A
    <3>1. B[L[k]] = A[k]
          BY <2>3, LinesGoForward
    <3>2. QED
          BY <1>1, <2>2, <2>3, <3>1
  <2>5. BlockStarts(A, k)
        BY <2>2, <2>3, <2>4, StartsCorrespond
  <2>6. PICK r \in Runs(A) : r.lo = k
        BY <1>1, <2>4, <2>5, BlockAround
  <2>7. Moved(L, r) \in Runs(B) /\ Moved(L, r).lo = s.lo
        BY <1>2, <2>3, <2>6 DEF Moved
  <2> DEFINE x == Moved(L, r)
  <2> HIDE DEF x
  <2>8. x = s
        BY <1>1, <2>7, BlocksInOrder DEF x
  <2>9. QED
        BY <2>8 DEF x
<1>5. ASSUME NEW r \in Runs(A), NEW t \in Runs(A)
      PROVE  /\ Moved(L, r) = Moved(L, t) => r = t
             /\ r.lo < t.lo <=> Moved(L, r).lo < Moved(L, t).lo
  <2>1. Moved(L, r).lo = L[r.lo] /\ Moved(L, t).lo = L[t.lo]
        BY DEF Moved
  <2>2. r.lo \in Nat /\ t.lo \in Nat /\ r.lo \in 0..n /\ t.lo \in 0..n
    <3>1. r.lo \in 1..n /\ t.lo \in 1..n
          BY <1>1, BlockIsText
    <3>2. QED
          BY <1>1, <3>1
  <2>3. L[r.lo] \in Nat /\ L[t.lo] \in Nat
        BY <2>2, LinesGoForward
  <2>4. (r.lo < t.lo => L[r.lo] < L[t.lo]) /\ (t.lo < r.lo => L[t.lo] < L[r.lo])
        BY <1>3
  <2>5. r.lo = t.lo => r = t
        BY <1>1, BlocksInOrder
  <2> DEFINE x == Moved(L, r)
             y == Moved(L, t)
  <2>6. x.lo = L[r.lo] /\ y.lo = L[t.lo]
        BY <2>1
  <2> HIDE DEF x, y
  <2>7. (x = y => r = t) /\ (r.lo < t.lo <=> x.lo < y.lo)
        BY <2>2, <2>3, <2>4, <2>5, <2>6
  <2>8. QED
        BY <2>7 DEF x, y
<1>6. QED
      BY <1>2, <1>4, <1>5

\* The lines of a block.
Rows(A, a, b) == SubSeq(A, a, b)

\* B has from x to y what A has from a to b.
SamePart(V, A, B, a, b, x, y) ==
    /\ A \in Seq(V) /\ B \in Seq(V)
    /\ a \in 1..Len(A) /\ b \in 1..Len(A) /\ a <= b
    /\ x \in 1..Len(B) /\ y \in 1..Len(B) /\ y - x = b - a
    /\ \A d \in 0..(b - a) : B[x + d] = A[a + d]

\* Part of a sequence is of the same kind wherever it is.
LEMMA SameRows ==
    ASSUME NEW V, NEW A, NEW B, NEW a, NEW b, NEW x, NEW y,
           SamePart(V, A, B, a, b, x, y)
    PROVE  Rows(B, x, y) = Rows(A, a, b)
<1> DEFINE c == b - a + 1
           P == SubSeq(A, a, b)
           Q == SubSeq(B, x, y)
<1>0. A \in Seq(V) /\ B \in Seq(V)
      BY DEF SamePart
<1>1. /\ Len(A) \in Nat /\ Len(B) \in Nat /\ a \in 1..Len(A) /\ b \in 1..Len(A) /\ a <= b
      /\ x \in 1..Len(B) /\ y \in 1..Len(B) /\ y - x = b - a
      /\ \A d \in 0..(b - a) : B[x + d] = A[a + d]
      BY <1>0 DEF SamePart
<1>2. P \in Seq(V) /\ Len(P) = c /\ \A i \in 1..c : P[i] = A[a + i - 1]
      BY <1>0, <1>1
<1>3. Q \in Seq(V) /\ Len(Q) = c /\ \A i \in 1..c : Q[i] = B[x + i - 1]
      BY <1>0, <1>1
<1>4. \A i \in 1..c : P[i] = Q[i]
  <2>1. TAKE i \in 1..c
  <2>2. i - 1 \in 0..(b - a) /\ a + (i - 1) = a + i - 1 /\ x + (i - 1) = x + i - 1
        BY <1>1
  <2> HIDE DEF P, Q
  <2>3. B[x + (i - 1)] = A[a + (i - 1)]
        BY <1>1, <2>2
  <2>4. QED
        BY <1>2, <1>3, <2>2, <2>3
<1> HIDE DEF P, Q
<1>5. DOMAIN P = 1..c /\ DOMAIN Q = 1..c /\ P = [i \in 1..c |-> P[i]] /\ Q = [i \in 1..c |-> Q[i]]
      BY <1>2, <1>3
<1>6. QED
  <2> HIDE DEF c
  <2>1. P = Q
        BY <1>4, <1>5
  <2>2. QED
        BY <2>1, Zenon DEF P, Q, Rows

\* A block that has moved keeps its place, its anchor and its kind.
LEMMA AnchorsStay ==
    ASSUME NEW V, NEW A \in Seq(V), NEW B \in Seq(V), NEW L, Corresponds(A, B, L),
           NEW r \in Runs(A)
    PROVE  /\ Rank(Runs(B), Moved(L, r)) = Rank(Runs(A), r)
           /\ AnchorOf(B, Moved(L, r)) = AnchorOf(A, r)
           /\ Rows(B, Moved(L, r).lo, Moved(L, r).hi) = Rows(A, r.lo, r.hi)
<1> DEFINE M(x) == Moved(L, x)
           p == PageOf(A, r.lo)
<1>1. Lined(A) /\ Lined(B)
      BY DEF Corresponds
<1>2. /\ \A x \in Runs(A) : M(x) \in Runs(B)
      /\ \A s \in Runs(B) : \E x \in Runs(A) : M(x) = s
      /\ \A x, y \in Runs(A) : (M(x) = M(y) => x = y) /\ (x.lo < y.lo <=> M(x).lo < M(y).lo)
      BY BlocksCorrespond
<1>3. \A x \in Runs(A) : PageOf(B, M(x).lo) = PageOf(A, x.lo)
  <2>1. TAKE x \in Runs(A)
  <2>2. x.lo \in 1..Len(A) /\ x.lo \in (x.lo)..(x.hi)
        BY <1>1, BlockIsText
  <2>3. IsText(A[x.lo])
        BY <1>1, <2>2, BlockIsText
  <2>4. A[x.lo] # "blank" /\ M(x).lo = L[x.lo]
        BY <2>3 DEF IsText, Moved
  <2>5. QED
        BY <2>2, <2>4, PagesCorrespond
<1> HIDE DEF M
<1>4. ASSUME NEW R \in SUBSET Runs(A), NEW S,
             \A x \in R : M(x) \in S, \A s \in S : \E x \in R : M(x) = s, r \in R
      PROVE  Rank(S, M(r)) = Rank(R, r)
  <2> DEFINE f == [x \in R |-> M(x)]
  <2>1. Arranged(R)
        BY <1>1, BlocksAreRanked
  <2>2. f \in [R -> S] /\ (\A s \in S : \E x \in R : f[x] = s)
        BY <1>4
  <2>3. \A x, y \in R : (f[x] = f[y] => x = y) /\ (x.lo < y.lo <=> f[x].lo < f[y].lo)
        BY <1>2
  <2>4. f[r] = M(r) /\ r \in R
        BY <1>4
  <2> HIDE DEF f
  <2>5. InOrder(R, S, f)
        BY <2>2, <2>3, Zenon DEF InOrder
  <2>6. Rank(S, f[r]) = Rank(R, r)
        BY <2>1, <2>4, <2>5, RanksCorrespond
  <2>7. QED
        BY <2>4, <2>6, Zenon
<1>5. Rank(Runs(B), M(r)) = Rank(Runs(A), r)
      BY <1>2, <1>4
<1>6. PageOf(B, M(r).lo) = p
      BY <1>3
<1>7. Rank(OnPage(B, p), M(r)) = Rank(OnPage(A, p), r)
  <2> DEFINE R == OnPage(A, p)
             S == OnPage(B, p)
  <2>1. R \in SUBSET Runs(A) /\ r \in R
        BY DEF OnPage
  <2>2. \A x \in R : M(x) \in S
        BY <1>2, <1>3 DEF OnPage
  <2>3. \A s \in S : \E x \in R : M(x) = s
    <3>1. TAKE s \in S
    <3>2. s \in Runs(B) /\ PageOf(B, s.lo) = p
          BY DEF OnPage
    <3>3. PICK x \in Runs(A) : M(x) = s
          BY <1>2, <3>2
    <3>4. x \in R
          BY <1>3, <3>2, <3>3 DEF OnPage
    <3>5. QED
          BY <3>3, <3>4
  <2> HIDE DEF R, S
  <2>4. Rank(S, M(r)) = Rank(R, r)
        BY <1>4, <2>1, <2>2, <2>3
  <2>5. QED
        BY <2>4 DEF R, S
<1>8. AnchorOf(B, M(r)) = AnchorOf(A, r)
  <2>1. AnchorOf(A, r) = <<p, Rank(OnPage(A, p), r)>>
        BY AnchorsAreRanks
  <2>2. AnchorOf(B, M(r)) = <<PageOf(B, M(r).lo), Rank(OnPage(B, PageOf(B, M(r).lo)), M(r))>>
        BY AnchorsAreRanks
  <2> HIDE DEF p
  <2>3. QED
        BY <1>6, <1>7, <2>1, <2>2
<1>9. Rows(B, M(r).lo, M(r).hi) = Rows(A, r.lo, r.hi)
  <2> DEFINE a == r.lo
             b == r.hi
  <2>1. a \in 1..Len(A) /\ b \in 1..Len(A) /\ a <= b /\ a \in Nat /\ b \in Nat
        BY <1>1, BlockIsText
  <2>2. /\ \A d \in 0..(b - a) : L[a + d] = L[a] + d
        /\ \A i \in a..b : L[i] = L[a] + (i - a) /\ L[i] \in 1..Len(B) /\ B[L[i]] = A[i]
        BY BlocksStayWhole
  <2>3. M(r).lo = L[a] /\ M(r).hi = L[b]
        BY DEF M, Moved
  <2> HIDE DEF a, b
  <2>4. a \in a..b /\ b \in a..b
        BY <2>1
  <2>5. L[a] \in 1..Len(B) /\ L[b] \in 1..Len(B) /\ L[b] = L[a] + (b - a) /\ Len(B) \in Nat
        BY <2>2, <2>4
  <2>6. L[b] - L[a] = b - a
        BY <2>1, <2>5
  <2>7. \A d \in 0..(b - a) : B[L[a] + d] = A[a + d]
    <3>1. TAKE d \in 0..(b - a)
    <3>2. a + d \in a..b
          BY <2>1
    <3>3. QED
          BY <2>2, <3>2
  <2> DEFINE x == L[a]
             y == L[b]
  <2>8. x \in 1..Len(B) /\ y \in 1..Len(B) /\ y - x = b - a /\ \A d \in 0..(b - a) : B[x + d] = A[a + d]
        BY <2>5, <2>6, <2>7
  <2> HIDE DEF x, y
  <2>9. SamePart(V, A, B, a, b, x, y)
        BY <2>1, <2>8, Zenon DEF SamePart
  <2>10. Rows(B, x, y) = Rows(A, a, b)
         BY <2>9, SameRows
  <2>11. QED
         BY <2>3, <2>10, Zenon DEF a, b, x, y
<1>10. QED
       BY <1>5, <1>8, <1>9 DEF M

\* What is compared of a chunk.
LEMMA ChunksReadOff ==
    ASSUME NEW doc, NEW A
    PROVE  /\ {<<c.ordinal, c.anchor, c.kind>> : c \in ChunksOf(doc, A)}
                  = {<<Rank(Runs(A), r), AnchorOf(A, r), Classify(Rows(A, r.lo, r.hi))>> : r \in Runs(A)}
           /\ {<<c.ordinal, c.anchor>> : c \in ChunksOf(doc, A)}
                  = {<<Rank(Runs(A), r), AnchorOf(A, r)>> : r \in Runs(A)}
<1> DEFINE C(r) == ChunkOf(doc, A, r)
           cs == ChunksOf(doc, A)
           k(r) == Classify(Rows(A, r.lo, r.hi))
<1>1. cs = {C(r) : r \in Runs(A)}
      BY ChunksAreOfBlocks
<1>2. \A r \in Runs(A) : C(r).ordinal = Rank(Runs(A), r) /\ C(r).anchor = AnchorOf(A, r) /\ C(r).kind = k(r)
      BY DEF ChunkOf, Rows
<1> HIDE DEF C, cs, k
<1>3. /\ {<<c.ordinal, c.anchor, c.kind>> : c \in cs} = {<<Rank(Runs(A), r), AnchorOf(A, r), k(r)>> : r \in Runs(A)}
      /\ {<<c.ordinal, c.anchor>> : c \in cs} = {<<Rank(Runs(A), r), AnchorOf(A, r)>> : r \in Runs(A)}
      BY <1>1, <1>2
<1>4. QED
      BY <1>3 DEF cs, k

\* The second parse has the anchors and kinds of the first.
LEMMA AnchorsCorrespond ==
    ASSUME NEW V, NEW A \in Seq(V), NEW B \in Seq(V), NEW L, Corresponds(A, B, L), NEW doc
    PROVE  {<<c.ordinal, c.anchor, c.kind>> : c \in ChunksOf(doc, A)}
               = {<<c.ordinal, c.anchor, c.kind>> : c \in ChunksOf(doc, B)}
<1> DEFINE a(r) == <<Rank(Runs(A), r), AnchorOf(A, r), Classify(Rows(A, r.lo, r.hi))>>
           b(s) == <<Rank(Runs(B), s), AnchorOf(B, s), Classify(Rows(B, s.lo, s.hi))>>
<1>1. \A r \in Runs(A) : b(Moved(L, r)) = a(r)
  <2>1. TAKE r \in Runs(A)
  <2>2. /\ Rank(Runs(B), Moved(L, r)) = Rank(Runs(A), r)
        /\ AnchorOf(B, Moved(L, r)) = AnchorOf(A, r)
        /\ Rows(B, Moved(L, r).lo, Moved(L, r).hi) = Rows(A, r.lo, r.hi)
        BY AnchorsStay
  <2>3. QED
        BY <2>2, Zenon
<1>2. /\ \A r \in Runs(A) : Moved(L, r) \in Runs(B)
      /\ \A s \in Runs(B) : \E r \in Runs(A) : Moved(L, r) = s
      BY BlocksCorrespond
<1> HIDE DEF a, b
<1>3. {a(r) : r \in Runs(A)} = {b(s) : s \in Runs(B)}
      BY <1>1, <1>2
<1>4. {<<c.ordinal, c.anchor, c.kind>> : c \in ChunksOf(doc, A)} = {a(r) : r \in Runs(A)}
      BY ChunksReadOff DEF a
<1>5. {<<c.ordinal, c.anchor, c.kind>> : c \in ChunksOf(doc, B)} = {b(s) : s \in Runs(B)}
      BY ChunksReadOff DEF b
<1>6. QED
      BY <1>3, <1>4, <1>5

\* Lines that differ in the wording of text alone have the same blocks and pages.
LEMMA SameBlocks ==
    ASSUME NEW B, NEW C, Lined(B), Lined(C), Len(B) = Len(C),
           \A k \in DOMAIN B : (IsText(B[k]) <=> IsText(C[k])) /\ (B[k] = "break" <=> C[k] = "break")
    PROVE  /\ Runs(B) = Runs(C)
           /\ \A r \in Runs(B) : Rank(Runs(B), r) = Rank(Runs(C), r) /\ AnchorOf(B, r) = AnchorOf(C, r)
<1> DEFINE n == Len(B)
<1>1. n \in Nat /\ DOMAIN B = 1..n /\ DOMAIN C = 1..n /\ Len(C) = n
      BY DEF Lined
<1>2. \A k \in 1..n : (IsText(B[k]) <=> IsText(C[k])) /\ (B[k] = "break" <=> C[k] = "break")
      BY <1>1
<1> HIDE DEF n
<1>3. ASSUME NEW X, NEW Y, \A k \in 1..n : IsText(X[k]) <=> IsText(Y[k]), Len(X) = n, Len(Y) = n,
             NEW r \in [lo : 1..n, hi : 1..n], BlockStarts(X, r.lo), BlockEnds(X, r.hi),
             \A i \in (r.lo)..(r.hi) : IsText(X[i])
      PROVE  BlockStarts(Y, r.lo) /\ BlockEnds(Y, r.hi) /\ \A i \in (r.lo)..(r.hi) : IsText(Y[i])
  <2>1. r.lo \in 1..n /\ r.hi \in 1..n
        OBVIOUS
  <2>2. BlockStarts(Y, r.lo)
    <3>1. r.lo = 1 \/ (r.lo - 1 \in 1..n /\ ~IsText(X[r.lo - 1]))
          BY <1>1, <1>3, <2>1 DEF BlockStarts
    <3>2. QED
          BY <1>3, <3>1 DEF BlockStarts
  <2>3. BlockEnds(Y, r.hi)
    <3>1. r.hi = n \/ (r.hi + 1 \in 1..n /\ ~IsText(X[r.hi + 1]))
      <4>1. r.hi = n \/ ~IsText(X[r.hi + 1])
            BY <1>3 DEF BlockEnds
      <4>2. r.hi = n \/ r.hi + 1 \in 1..n
            BY <1>1, <2>1
      <4>3. QED
            BY <4>1, <4>2
    <3>2. QED
          BY <1>3, <3>1 DEF BlockEnds
  <2>4. \A i \in (r.lo)..(r.hi) : i \in 1..n
        BY <1>1, <2>1
  <2>5. QED
        BY <1>3, <2>2, <2>3, <2>4
<1>4. ASSUME NEW X, NEW Y, \A k \in 1..n : IsText(X[k]) <=> IsText(Y[k]), Len(X) = n, Len(Y) = n,
             DOMAIN X = 1..n, DOMAIN Y = 1..n, NEW r \in Runs(X)
      PROVE  r \in Runs(Y)
  <2>1. /\ r \in [lo : 1..n, hi : 1..n] /\ BlockStarts(X, r.lo) /\ BlockEnds(X, r.hi)
        /\ r.lo <= r.hi /\ \A i \in (r.lo)..(r.hi) : IsText(X[i])
        BY <1>4, Zenon DEF Runs
  <2>2. BlockStarts(Y, r.lo) /\ BlockEnds(Y, r.hi) /\ \A i \in (r.lo)..(r.hi) : IsText(Y[i])
        BY <1>3, <1>4, <2>1
  <2>3. QED
        BY <1>4, <2>1, <2>2, Zenon DEF Runs
<1>5. Runs(B) = Runs(C)
  <2>1. \A r \in Runs(B) : r \in Runs(C)
        BY <1>1, <1>2, <1>4
  <2>2. \A r \in Runs(C) : r \in Runs(B)
        BY <1>1, <1>2, <1>4
  <2>3. QED
        BY <2>1, <2>2, Zenon
<1>6. ASSUME NEW k \in 1..n PROVE PageOf(B, k) = PageOf(C, k)
  <2> DEFINE P == {i \in 1..(k - 1) : B[i] = "break"}
             Q == {i \in 1..(k - 1) : C[i] = "break"}
  <2>1. \A i \in 1..(k - 1) : i \in 1..n
        BY <1>1
  <2>2. P = Q
        BY <1>2, <2>1
  <2>3. PageOf(B, k) = 1 + Cardinality(P) /\ PageOf(C, k) = 1 + Cardinality(Q)
        BY DEF PageOf
  <2> HIDE DEF P, Q
  <2>4. QED
        BY <2>2, <2>3
<1>7. \A r \in Runs(B) : PageOf(B, r.lo) = PageOf(C, r.lo)
  <2>1. \A r \in Runs(B) : r.lo \in 1..n
        BY BlockIsText DEF n
  <2>2. QED
        BY <1>6, <2>1
<1>8. \A p : OnPage(B, p) = OnPage(C, p)
      BY <1>5, <1>7 DEF OnPage
<1>9. ASSUME NEW r \in Runs(B) PROVE AnchorOf(B, r) = AnchorOf(C, r)
  <2>1. /\ AnchorOf(B, r) = <<PageOf(B, r.lo), Rank(OnPage(B, PageOf(B, r.lo)), r)>>
        /\ AnchorOf(C, r) = <<PageOf(C, r.lo), Rank(OnPage(C, PageOf(C, r.lo)), r)>>
        BY AnchorsAreRanks
  <2>2. PageOf(B, r.lo) = PageOf(C, r.lo)
        BY <1>7
  <2>3. QED
        BY <1>8, <2>1, <2>2, Zenon
<1>10. QED
       BY <1>5, <1>9

\* So a label inside a line of text moves no anchor.
LEMMA LabelsMoveNothing ==
    ASSUME NEW V, NEW B \in Seq(V), NEW i \in DOMAIN B, IsText(B[i]), NEW doc
    PROVE  {<<c.ordinal, c.anchor>> : c \in ChunksOf(doc, Redacted(B, i))}
               = {<<c.ordinal, c.anchor>> : c \in ChunksOf(doc, B)}
<1> DEFINE C == Redacted(B, i)
           n == Len(B)
           W == V \cup {"text"}
<1>1. n \in Nat /\ DOMAIN B = 1..n
      OBVIOUS
<1>2. DOMAIN C = 1..n /\ C \in [1..n -> W] /\ \A k \in 1..n : C[k] = IF k = i THEN "text" ELSE B[k]
  <2>1. B \in [1..n -> W]
    <3>1. B \in [1..n -> V]
          BY <1>1
    <3>2. \A k \in 1..n : B[k] \in W
          BY <3>1
    <3>3. QED
          BY <1>1, <3>1, <3>2
  <2> HIDE DEF n, W
  <2>2. QED
        BY <1>1, <2>1 DEF Redacted, W
<1>3. C \in Seq(W) /\ Len(C) = n
  <2> HIDE DEF C, n, W
  <2>1. C \in Seq(W)
        BY <1>1, <1>2
  <2>2. DOMAIN C = 1..Len(C) /\ Len(C) \in Nat
        BY <2>1
  <2>3. Len(C) = n
        BY <1>1, <1>2, <2>2
  <2>4. QED
        BY <2>1, <2>3
<1> HIDE DEF C
<1>4. Lined(B) /\ Lined(C)
      BY <1>1, <1>2, <1>3 DEF Lined
<1>5. \A k \in DOMAIN B : (IsText(B[k]) <=> IsText(C[k])) /\ (B[k] = "break" <=> C[k] = "break")
  <2>1. IsText("text") /\ "text" # "break" /\ B[i] # "break"
        BY DEF IsText
  <2>2. QED
        BY <1>1, <1>2, <2>1
<1>6. /\ Runs(B) = Runs(C)
      /\ \A r \in Runs(B) : Rank(Runs(B), r) = Rank(Runs(C), r) /\ AnchorOf(B, r) = AnchorOf(C, r)
      BY <1>3, <1>4, <1>5, SameBlocks
<1> DEFINE b(r) == <<Rank(Runs(B), r), AnchorOf(B, r)>>
           c2(r) == <<Rank(Runs(C), r), AnchorOf(C, r)>>
<1>7. {<<c.ordinal, c.anchor>> : c \in ChunksOf(doc, B)} = {b(r) : r \in Runs(B)}
      BY ChunksReadOff
<1>8. {<<c.ordinal, c.anchor>> : c \in ChunksOf(doc, C)} = {c2(r) : r \in Runs(C)}
      BY ChunksReadOff
<1>9. \A r \in Runs(B) : b(r) = c2(r)
      BY <1>6
<1> HIDE DEF b, c2
<1>10. {b(r) : r \in Runs(B)} = {c2(r) : r \in Runs(C)}
       BY <1>6, <1>9
<1>11. QED
       BY <1>7, <1>8, <1>10 DEF C

\* However many lines there are and however they are parted: every line of text
\* is in one block and every anchor names one block, in reading order, and what
\* is indexed after redaction has the anchors of the original.
\* (analyze_text_pages, blocks_to_chunks, prepare_for_redaction)
THEOREM EveryAnchorNamesOneBlock ==
    ASSUME NEW doc, NEW Lines, NEW lines \in Seq(Lines)
    PROVE  AnchorsNameOneBlock(doc, lines)
<1> DEFINE V == Lines \cup {"blank"}
           cs == ChunksOf(doc, lines)
           again == Prepared(lines)
           Places(chunks) == {<<c.ordinal, c.anchor>> : c \in chunks}
<1>1. "blank" \in V /\ lines \in Seq(V) /\ Lined(lines)
  <2>1. lines \in Seq(V) /\ Len(lines) \in Nat /\ DOMAIN lines = 1..Len(lines)
    <3>1. \A k \in 1..Len(lines) : lines[k] \in V
          OBVIOUS
    <3>2. Len(lines) \in Nat /\ DOMAIN lines = 1..Len(lines) /\ lines = [k \in 1..Len(lines) |-> lines[k]]
          OBVIOUS
    <3> HIDE DEF V
    <3>3. lines \in Seq(V)
          BY <3>1, <3>2
    <3>4. QED
          BY <3>2, <3>3
  <2>2. QED
        BY <2>1 DEF Lined
<1> HIDE DEF V
<1>2. PICK L : Corresponds(lines, again, L) /\ again \in Seq(V)
      BY <1>1, PreparedCorresponds
<1>3. /\ \A i \in DOMAIN lines :
            IsText(lines[i]) => Cardinality({c \in cs : i \in (c.run.lo)..(c.run.hi)}) = 1
      /\ \A a, b \in cs : a.anchor = b.anchor => a = b
      /\ {c.ordinal : c \in cs} = 0..(Cardinality(cs) - 1)
      /\ \A a, b \in cs :
            a.ordinal < b.ordinal =>
                \/ a.page < b.page
                \/ a.page = b.page /\ a.anchor[2] < b.anchor[2] /\ a.box.bottom <= b.box.top
      BY <1>1, AnchorsAreUnique
<1> HIDE DEF again
<1>4. {<<c.ordinal, c.anchor, c.kind>> : c \in cs}
          = {<<c.ordinal, c.anchor, c.kind>> : c \in ChunksOf(doc, again)}
      BY <1>1, <1>2, AnchorsCorrespond
<1>5. Places(ChunksOf(doc, again)) = Places(cs)
  <2> DEFINE Full(chunks) == {<<c.ordinal, c.anchor, c.kind>> : c \in chunks}
             FirstTwo(F) == {<<x[1], x[2]>> : x \in F}
  <2>1. ASSUME NEW chunks PROVE Places(chunks) = FirstTwo(Full(chunks))
    <3>1. \A c \in chunks : <<c.ordinal, c.anchor, c.kind>>[1] = c.ordinal /\ <<c.ordinal, c.anchor, c.kind>>[2] = c.anchor
          OBVIOUS
    <3>2. \A z \in Places(chunks) : z \in FirstTwo(Full(chunks))
      <4>1. TAKE z \in Places(chunks)
      <4>2. PICK c \in chunks : z = <<c.ordinal, c.anchor>>
            BY Zenon
      <4>3. <<c.ordinal, c.anchor, c.kind>> \in Full(chunks)
            BY Zenon
      <4>4. QED
            BY <3>1, <4>2, <4>3, Zenon
    <3>3. \A z \in FirstTwo(Full(chunks)) : z \in Places(chunks)
      <4>1. TAKE z \in FirstTwo(Full(chunks))
      <4>2. PICK x \in Full(chunks) : z = <<x[1], x[2]>>
            BY Zenon
      <4>3. PICK c \in chunks : x = <<c.ordinal, c.anchor, c.kind>>
            BY Zenon
      <4>4. QED
            BY <3>1, <4>2, <4>3, Zenon
    <3>4. QED
          BY <3>2, <3>3, Zenon
  <2>2. Full(cs) = Full(ChunksOf(doc, again))
        BY <1>4
  <2> HIDE DEF Full, FirstTwo, Places, cs
  <2>3. Places(ChunksOf(doc, again)) = FirstTwo(Full(ChunksOf(doc, again))) /\ Places(cs) = FirstTwo(Full(cs))
        BY <2>1
  <2>4. QED
        BY <2>2, <2>3, Zenon
<1>6. ASSUME NEW i \in DOMAIN again, IsText(again[i])
      PROVE  Places(ChunksOf(doc, Redacted(again, i))) = Places(cs)
  <2>1. Places(ChunksOf(doc, Redacted(again, i))) = Places(ChunksOf(doc, again))
        BY <1>2, <1>6, LabelsMoveNothing
  <2> HIDE DEF Places, cs
  <2>2. QED
        BY <1>5, <2>1
<1>7. QED
  <2> HIDE DEF cs
  <2>1. QED
        BY <1>3, <1>4, <1>6, Zenon DEF AnchorsNameOneBlock, cs, again
=============================================================================
