------------------------------ MODULE EvalProofs ------------------------------
(***************************************************************************)
(* A passing evaluation hides no leak, for every product, golden file and  *)
(* corpus.                                                                 *)
(*                                                                         *)
(* A metric passes by a rounded mean of rounded scores.  The sum behind    *)
(* the mean falls short of the most there is by what each bad example      *)
(* costs, so a mean at its threshold bounds how many of those there are:   *)
(* to none where one of them costs its whole score.                        *)
(***************************************************************************)
EXTENDS EvalGate, FoldProofs


\* The examples among the lines of a golden file.
Lines(file) == Range(file) \ {Skipped}

\* What is read of a golden file is its lines but the skipped ones.
LEMMA GoldenIsRead ==
    ASSUME NEW file, NEW n \in Nat, DOMAIN file = 1..n
    PROVE  Golden(file) \in Seq(Lines(file))
<1> DEFINE D == 1..n
           V == Seq(Lines(file))
           Read(line, seen) == IF line = Skipped THEN seen ELSE Append(seen, line)
           pick == [s \in SUBSET D |-> Max(s)]
           op == [kv \in D \X V |-> Read(file[kv[1]], kv[2])]
           Body(f) == [s \in SUBSET D |-> IF s = {} THEN <<>>
                                          ELSE Read(file[Max(s)], f[s \ {Max(s)}])]
           read == CHOOSE f : f = Body(f)
<1>1. Golden(file) = read[D]
      BY Zenon DEF Golden, FoldLeft, MapThenFoldSet
<1>2. IsFiniteSet(D)
      BY FS_Interval
<1>3. ASSUME NEW s \in SUBSET D, s # {} PROVE pick[s] = Max(s) /\ pick[s] \in s
  <2>1. s \in SUBSET (0..n)
        OBVIOUS
  <2>2. QED
        BY <1>3, <2>1, GreatestIsThere
<1>4. ASSUME NEW k \in D, NEW v \in V PROVE Read(file[k], v) \in V
  <2>1. CASE file[k] = Skipped
        BY <2>1
  <2>2. CASE file[k] # Skipped
    <3>1. file[k] \in Lines(file)
          BY <2>2 DEF Lines, Range
    <3>2. QED
          BY <2>2, <3>1
  <2>3. QED
        BY <2>1, <2>2
<1>5. <<>> \in V
  <2>1. \A S : <<>> \in Seq(S)
        OBVIOUS
  <2>2. QED
        BY <2>1
<1>6. op \in [D \X V -> V]
  <2> HIDE DEF V, Read
  <2>1. QED
        BY <1>4
<1>7. PICK f \in [SUBSET D -> V] : Folds(f, D, pick, <<>>, op)
  <2> HIDE DEF pick, op, V, D
  <2>1. \A s \in SUBSET D : s # {} => pick[s] \in s
        BY <1>3
  <2>2. QED
        BY <1>2, <1>5, <1>6, <2>1, FoldExists
<1>8. f = Body(f)
  <2>1. ASSUME NEW s \in SUBSET D, s # {}
        PROVE  op[<<pick[s], f[s \ {pick[s]}]>>] = Read(file[Max(s)], f[s \ {Max(s)}])
    <3>1. pick[s] = Max(s) /\ pick[s] \in D /\ f[s \ {pick[s]}] \in V
          BY <1>3, <2>1
    <3> HIDE DEF pick, Read, V, D
    <3>2. QED
          BY <3>1
  <2> HIDE DEF pick, op, Read, V, D
  <2>2. QED
        BY <1>7, <2>1 DEF Folds
<1>9. read = Body(read)
  <2> HIDE DEF Body
  <2>1. QED
        BY <1>8
<1> DEFINE Good == {i \in 0..n : read[1..i] \in V}
<1>10. 0 \in Good
  <2> HIDE DEF read
  <2>1. 1..0 = {} /\ 1..0 \in SUBSET D /\ 0 \in 0..n
        OBVIOUS
  <2>2. read[1..0] = <<>>
        BY <1>9, <2>1
  <2>3. QED
        BY <1>5, <2>1, <2>2
<1>11. ASSUME NEW i \in 1..n, i - 1 \in Good PROVE i \in Good
  <2> DEFINE s == 1..i
  <2>1. s \in SUBSET D /\ s # {} /\ Max(s) = i /\ s \ {i} = 1..(i - 1)
        BY InitialSegments
  <2>2. read[s] = Read(file[i], read[1..(i - 1)])
    <3> HIDE DEF s, read, D, Read
    <3>1. QED
          BY <1>9, <2>1
  <2>3. read[1..(i - 1)] \in V
        BY <1>11
  <2>4. read[s] \in V
    <3> HIDE DEF s, read, V, Read
    <3>1. QED
          BY <1>4, <2>2, <2>3
  <2>5. QED
        BY <2>4
<1>12. n \in Good
  <2>1. \A i \in 1..n : i - 1 \in Good => i \in Good
        BY <1>11
  <2> HIDE DEF Good
  <2>2. \A i \in 0..n : i \in Good
        BY <1>10, <2>1, Counting
  <2>3. QED
        BY <2>2
<1>13. QED
      BY <1>1, <1>12

Total(m, product, dataset) ==
    MapThenSumSet(LAMBDA k : ScoreOf(m, product, dataset, dataset[k]), DOMAIN dataset)

Apart(m, product, dataset, sum, pick) ==
    /\ Total(m, product, dataset) = sum[DOMAIN dataset] /\ sum[{}] = 0
    /\ \A s \in SUBSET DOMAIN dataset : s # {} =>
          /\ pick[s] \in s
          /\ sum[s] = ScoreOf(m, product, dataset, dataset[pick[s]]) + sum[s \ {pick[s]}]

\* The sum over a dataset, one example at a time.
LEMMA TotalTakenApart ==
    ASSUME NEW m, NEW product, NEW dataset, IsFiniteSet(DOMAIN dataset),
           \A k \in DOMAIN dataset : ScoreOf(m, product, dataset, dataset[k]) \in Int
    PROVE  \E sum \in [SUBSET DOMAIN dataset -> Int] :
              \E pick : Apart(m, product, dataset, sum, pick)
<1> DEFINE D == DOMAIN dataset
           score(k) == ScoreOf(m, product, dataset, dataset[k])
           Pick(s) == CHOOSE k \in s : TRUE
           pick == [s \in SUBSET D |-> Pick(s)]
           op == [kv \in D \X Int |-> score(kv[1]) + kv[2]]
           Body(f) == [s \in SUBSET D |-> IF s = {} THEN 0
                                          ELSE score(Pick(s)) + f[s \ {Pick(s)}]]
           sum == CHOOSE f : f = Body(f)
<1>1. Total(m, product, dataset) = sum[D]
      BY Zenon DEF Total, MapThenSumSet, MapThenFoldSet
<1>2. \A s \in SUBSET D : s # {} => pick[s] = Pick(s) /\ pick[s] \in s
      OBVIOUS
<1>3. op \in [D \X Int -> Int]
      OBVIOUS
<1> HIDE DEF Pick
<1>4. PICK f \in [SUBSET D -> Int] : Folds(f, D, pick, 0, op)
  <2> HIDE DEF pick, op
  <2>1. 0 \in Int /\ \A s \in SUBSET D : s # {} => pick[s] \in s
        BY <1>2
  <2>2. QED
        BY <1>3, <2>1, FoldExists
<1>5. f = Body(f)
  <2>1. ASSUME NEW s \in SUBSET D, s # {}
        PROVE  op[<<pick[s], f[s \ {pick[s]}]>>] = score(Pick(s)) + f[s \ {Pick(s)}]
    <3>1. pick[s] = Pick(s) /\ pick[s] \in D /\ f[s \ {pick[s]}] \in Int
          BY <1>2, <2>1
    <3> HIDE DEF pick, score
    <3>2. QED
          BY <3>1
  <2> HIDE DEF pick, op, score
  <2>2. QED
        BY <1>4, <2>1 DEF Folds
<1>6. sum = Body(sum)
  <2> HIDE DEF Body
  <2>1. QED
        BY <1>5
<1>7. \A s \in SUBSET D : s # {} =>
          sum[s] = score(pick[s]) + sum[s \ {pick[s]}] /\ score(pick[s]) \in Int
  <2> HIDE DEF sum
  <2>1. \A s \in SUBSET D : s # {} => sum[s] = score(Pick(s)) + sum[s \ {Pick(s)}]
        BY <1>6
  <2>2. QED
        BY <1>2, <2>1
<1>8. sum[{}] = 0
  <2> HIDE DEF sum
  <2>1. QED
        BY <1>6
<1>9. \A s \in SUBSET D : sum[s] \in Int
  <2> DEFINE Good == {s \in SUBSET D : sum[s] \in Int}
  <2> HIDE DEF sum, score, pick
  <2>1. \A s \in SUBSET D : s # {} => pick[s] \in s
        BY <1>2
  <2>2. {} \in Good
        BY <1>8
  <2>3. ASSUME NEW s \in SUBSET D, s # {}, s \ {pick[s]} \in Good PROVE s \in Good
    <3>1. sum[s \ {pick[s]}] \in Int /\ score(pick[s]) \in Int
          BY <1>7, <2>3
    <3>2. sum[s] = score(pick[s]) + sum[s \ {pick[s]}]
          BY <1>7, <2>3
    <3>3. QED
          BY <2>3, <3>1, <3>2
  <2>4. \A s \in SUBSET D : s \in Good
    <3> HIDE DEF Good
    <3>1. QED
          BY <2>1, <2>2, <2>3, PeelingReaches
  <2>5. QED
        BY <2>4
<1>10. sum \in [SUBSET D -> Int]
  <2> HIDE DEF sum, score
  <2>1. QED
        BY <1>6, <1>9
<1>11. Apart(m, product, dataset, sum, pick)
  <2> HIDE DEF sum, pick
  <2>1. QED
        BY <1>1, <1>2, <1>7, <1>8 DEF Apart
<1>12. QED
  <2> HIDE DEF sum, pick
  <2>1. QED
        BY <1>10, <1>11

\* If no score is above One and those of Z fall short of it by e, the total
\* falls short by e for each of Z.
LEMMA TotalIsBounded ==
    ASSUME NEW m, NEW product, NEW dataset, IsFiniteSet(DOMAIN dataset),
           NEW Z \in SUBSET DOMAIN dataset, NEW e \in Nat,
           \A k \in DOMAIN dataset :
              /\ ScoreOf(m, product, dataset, dataset[k]) \in Int
              /\ ScoreOf(m, product, dataset, dataset[k]) <= One
              /\ k \in Z => ScoreOf(m, product, dataset, dataset[k]) <= One - e
    PROVE  /\ Total(m, product, dataset) \in Int
           /\ Cardinality(Z) \in Nat /\ Cardinality(DOMAIN dataset) \in Nat
           /\ Total(m, product, dataset) <= One * Cardinality(DOMAIN dataset) - e * Cardinality(Z)
<1> DEFINE D == DOMAIN dataset
           score(k) == ScoreOf(m, product, dataset, dataset[k])
           most(s) == One * Cardinality(s) - e * Cardinality(s \cap Z)
<1> DEFINE P(sum) == \E pick : Apart(m, product, dataset, sum, pick)
<1>00. PICK sum \in [SUBSET D -> Int] : P(sum)
      BY TotalTakenApart
<1>0. PICK pick : Apart(m, product, dataset, sum, pick)
      BY <1>00
<1>1. /\ Total(m, product, dataset) = sum[D] /\ sum[{}] = 0
      /\ \A s \in SUBSET D : s # {} => pick[s] \in s /\ sum[s] = score(pick[s]) + sum[s \ {pick[s]}]
      BY <1>0 DEF Apart
<1>2. ASSUME NEW s \in SUBSET D
      PROVE  /\ IsFiniteSet(s) /\ Cardinality(s) \in Nat
             /\ IsFiniteSet(s \cap Z) /\ Cardinality(s \cap Z) \in Nat
      BY FS_Subset, FS_CardinalityType
<1>3. ASSUME NEW s \in SUBSET D, s # {}, sum[s \ {pick[s]}] <= most(s \ {pick[s]})
      PROVE  sum[s] <= most(s)
  <2> DEFINE k == pick[s]
             rest == s \ {k}
             c == Cardinality(rest)
             z == Cardinality(rest \cap Z)
  <2>1. /\ k \in s /\ k \in D /\ sum[s] = score(k) + sum[rest] /\ sum[rest] \in Int
        /\ score(k) \in Int /\ score(k) <= One /\ k \in Z => score(k) <= One - e
        BY <1>1, <1>3
  <2>2. rest \in SUBSET D /\ c \in Nat /\ z \in Nat
        BY <1>2
  <2>3. Cardinality(s) = c + 1
    <3>1. c = Cardinality(s) - 1 /\ Cardinality(s) \in Nat
      <4>1. IsFiniteSet(s) /\ k \in s /\ Cardinality(s) \in Nat
            BY <1>2, <2>1
      <4> HIDE DEF k
      <4>2. QED
            BY <4>1, FS_RemoveElement
    <3> HIDE DEF c
    <3>2. QED
          BY <2>2, <3>1
  <2>4. Cardinality(s \cap Z) = IF k \in Z THEN z + 1 ELSE z
    <3>1. CASE k \in Z
      <4>1. rest \cap Z = (s \cap Z) \ {k} /\ k \in s \cap Z
            BY <2>1, <3>1
      <4>2. z = Cardinality(s \cap Z) - 1 /\ Cardinality(s \cap Z) \in Nat
        <5>1. IsFiniteSet(s \cap Z) /\ Cardinality(s \cap Z) \in Nat
              BY <1>2
        <5> DEFINE both == s \cap Z
        <5>2. IsFiniteSet(both) /\ k \in both /\ rest \cap Z = both \ {k}
              BY <4>1, <5>1
        <5> HIDE DEF k, rest, both
        <5>3. Cardinality(both \ {k}) = Cardinality(both) - 1
              BY <5>2, FS_RemoveElement
        <5>4. z = Cardinality(both) - 1
              BY <5>2, <5>3
        <5>5. QED
              BY <5>1, <5>4 DEF both
      <4> HIDE DEF z
      <4>3. QED
            BY <2>2, <3>1, <4>2
    <3>2. CASE k \notin Z
      <4>1. rest \cap Z = s \cap Z
            BY <3>2
      <4>2. QED
            BY <3>2, <4>1
    <3>3. QED
          BY <3>1, <3>2
  <2>5. e * (z + 1) = e * z + e /\ e * z \in Int
        BY <2>2
  <2>6. sum[rest] <= One * c - e * z
        BY <1>3
  <2>7. e * z + e \in Int /\ sum[s] \in Int
        BY <1>3, <2>2
  <2> DEFINE ez == e * z
             added == score(k)
             before == sum[rest]
  <2>8. /\ added \in Int /\ before \in Int /\ ez \in Int /\ sum[s] = added + before
        /\ added <= 10000 /\ before <= 10000 * c - ez
        BY <2>1, <2>2, <2>5, <2>6 DEF One
  <2>9. most(s) = 10000 * (c + 1) - (IF k \in Z THEN ez + e ELSE ez)
        BY <2>3, <2>4, <2>5 DEF One
  <2>10. k \in Z => added <= 10000 - e
        BY <2>1 DEF One
  <2> HIDE DEF k, rest, c, z, score, ez, added, before, most
  <2>11. CASE k \in Z
        BY <2>2, <2>8, <2>9, <2>10, <2>11
  <2>12. CASE k \notin Z
        BY <2>2, <2>8, <2>9, <2>12
  <2>13. QED
        BY <2>11, <2>12
<1>4. sum[{}] <= most({})
      BY <1>1, FS_EmptySet DEF One
<1> DEFINE Good == {s \in SUBSET D : sum[s] <= most(s)}
<1>5. \A s \in SUBSET D : s \in Good
  <2>1. \A s \in SUBSET D : s # {} => pick[s] \in s
        BY <1>1
  <2>2. {} \in Good
        BY <1>4
  <2>3. \A s \in SUBSET D : s # {} /\ s \ {pick[s]} \in Good => s \in Good
        BY <1>3
  <2> HIDE DEF Good
  <2>4. QED
        BY <2>1, <2>2, <2>3, PeelingReaches
<1>6. D \in SUBSET D /\ D \cap Z = Z
      OBVIOUS
<1>7. sum[D] <= most(D) /\ most(D) = One * Cardinality(D) - e * Cardinality(Z) /\ sum[D] \in Int
      BY <1>5, <1>6
<1>8. Cardinality(D) \in Nat /\ Cardinality(Z) \in Nat
      BY <1>2, <1>6
<1> HIDE DEF most
<1>9. QED
      BY <1>1, <1>7, <1>8

-----------------------------------------------------------------------------
\* A quotient is the greatest number whose multiple is no more.
LEMMA Quotient ==
    ASSUME NEW x \in Int, NEW y \in Nat \ {0}
    PROVE  x \div y \in Int /\ y * (x \div y) <= x /\ x < y * (x \div y) + y
OBVIOUS

\* A share of something finite is at most all of it, and less by 1/d, up to
\* rounding, when something of the at most d is missing.
LEMMA ShareIsBounded ==
    ASSUME NEW whole, IsFiniteSet(whole), NEW part \in SUBSET whole
    PROVE  /\ Share(part, whole) \in Int /\ Share(part, whole) <= One
           /\ part # whole => \A d \in Nat : Cardinality(whole) <= d =>
                                  2 * d * Share(part, whole) <= 20001 * d - 20000
<1>1. CASE whole = {}
      BY <1>1 DEF Share, One
<1>2. CASE whole # {}
  <2> DEFINE a == Cardinality(part)
             b == Cardinality(whole)
             x == 20000 * a + b
             y == 2 * b
             q == x \div y
  <2>1. a \in Nat /\ b \in Nat \ {0} /\ a <= b
        BY <1>2, FS_Subset, FS_CardinalityType, FS_EmptySet
  <2>2. part # whole => a < b
        BY FS_Subset, FS_CardinalityType
  <2>3. Share(part, whole) = q
        BY <1>2 DEF Share, One
  <2> HIDE DEF a, b
  <2>4. x \in Int /\ y \in Nat \ {0}
        BY <2>1
  <2>5. q \in Int /\ y * q <= x
    <3> HIDE DEF x, y
    <3>1. QED
          BY <2>4, Quotient
  <2> HIDE DEF q
  <2>6. q <= 10000
    <3>1. ASSUME q >= 10001 PROVE FALSE
      <4>1. y * 10001 <= y * q
            BY <2>4, <2>5, <3>1
      <4>2. QED
            BY <2>1, <2>5, <4>1
    <3>2. QED
          BY <2>5, <3>1
  <2>7. ASSUME a < b, NEW d \in Nat, b <= d PROVE 2 * d * q <= 20001 * d - 20000
    <3>1. y * q <= 20001 * b - 20000
          BY <2>1, <2>5, <2>7
    <3> DEFINE r == 2 * q - 20001
    <3>2. b * r <= -20000 /\ r \in Int
          BY <2>1, <2>5, <3>1
    <3> HIDE DEF r
    <3>3. r < 0
      <4>1. r >= 0 => b * r >= 0
            BY <2>1, <3>2
      <4>2. QED
            BY <2>1, <3>2, <4>1
    <3>4. d * r <= b * r
      <4> DEFINE c == d - b
                 s == -r
      <4>1. c \in Nat /\ s \in Nat /\ d = b + c /\ r = -s
            BY <2>1, <2>7, <3>2, <3>3
      <4> HIDE DEF c, s
      <4>2. c * s >= 0 /\ d * r = -(b * s) - c * s /\ b * r = -(b * s)
            BY <2>1, <4>1
      <4>3. b * s \in Int /\ c * s \in Int
            BY <2>1, <4>1
      <4>4. QED
            BY <4>2, <4>3
    <3>5. d * r <= -20000 /\ d * r \in Int
          BY <2>1, <3>2, <3>4
    <3>6. 2 * d * q = d * r + 20001 * d
          BY <2>1, <2>5, <2>7 DEF r
    <3>7. QED
          BY <3>5, <3>6
  <2>8. ASSUME part # whole, NEW d \in Nat, Cardinality(whole) <= d
        PROVE  2 * d * q <= 20001 * d - 20000
        BY <2>2, <2>7, <2>8 DEF b
  <2>9. Share(part, whole) \in Int /\ Share(part, whole) <= One
        BY <2>3, <2>5, <2>6 DEF One
  <2>10. QED
        BY <2>3, <2>8, <2>9
<1>3. QED
      BY <1>1, <1>2

\* A mean that reaches a threshold bounds the sum from below.
LEMMA MeanIsReached ==
    ASSUME NEW s \in Int, NEW n \in Nat \ {0}, NEW t \in Int, (2 * s + n) \div (2 * n) >= t
    PROVE  2 * n * t <= 2 * s + n
<1> DEFINE x == 2 * s + n
           y == 2 * n
           q == x \div y
<1>1. x \in Int /\ y \in Nat \ {0}
      OBVIOUS
<1>2. q >= t
      OBVIOUS
<1>3. q \in Int /\ y * q <= x
  <2> HIDE DEF x, y
  <2>1. QED
        BY <1>1, Quotient
<1> HIDE DEF q
<1>4. y * t <= y * q
      BY <1>1, <1>2, <1>3
<1>5. QED
      BY <1>1, <1>3, <1>4

-----------------------------------------------------------------------------
\* The examples of a dataset have finite expectations, and plant or do not.
Examined(dataset) ==
    /\ dataset \in Seq(Range(dataset))
    /\ \A k \in DOMAIN dataset :
          IsFiniteSet(dataset[k].expected) /\ dataset[k].planted \in BOOLEAN

\* A product that is or is not there, and masks or does not.
Product(product) == product.available \in BOOLEAN /\ product.masks \in BOOLEAN

\* What is found is of the corpus.
LEMMA FoundIsOfTheCorpus ==
    ASSUME NEW product, NEW dataset, NEW ex
    PROVE  Found(product, dataset, ex) \subseteq Corpus
BY DEF Found, Released, Fixture, Corpus

\* Every score is an integer of at most One.
LEMMA ScoresAreBounded ==
    ASSUME IsFiniteSet(Corpus), NEW product, Product(product), NEW dataset, Examined(dataset),
           NEW k \in DOMAIN dataset, NEW m \in Metrics
    PROVE  /\ ScoreOf(m, product, dataset, dataset[k]) \in Int
           /\ ScoreOf(m, product, dataset, dataset[k]) <= One
<1> DEFINE ex == dataset[k]
           found == Found(product, dataset, ex)
<1>1. IsFiniteSet(found) /\ IsFiniteSet(ex.expected)
      BY FoundIsOfTheCorpus, FS_Subset DEF Examined
<1>2. CASE m = "retrieval_recall"
  <2>1. ScoreOf(m, product, dataset, ex) = Share(ex.expected \cap found, ex.expected)
        BY <1>2 DEF ScoreOf, RecallScore
  <2> HIDE DEF ex, found
  <2>2. ex.expected \cap found \in SUBSET ex.expected
        OBVIOUS
  <2>3. QED
        BY <1>1, <2>1, <2>2, ShareIsBounded DEF ex
<1>3. CASE m = "citation_accuracy"
  <2>1. ScoreOf(m, product, dataset, ex) = Share(found \cap Located(product), found)
        BY <1>3 DEF ScoreOf, CitationScore
  <2> HIDE DEF found
  <2>2. found \cap Located(product) \in SUBSET found
        OBVIOUS
  <2>3. QED
        BY <1>1, <2>1, <2>2, ShareIsBounded
<1>4. CASE m = "acl_correctness"
      BY <1>4 DEF ScoreOf, AclScore, One
<1>5. CASE m = "pii_safety"
      BY <1>5 DEF ScoreOf, PiiScore, One
<1>6. QED
      BY <1>2, <1>3, <1>4, <1>5 DEF Metrics

\* Each of the examples Z loses at least e of its score.
ShortBy(e, Z, m, product, dataset) ==
    \A k \in Z : ScoreOf(m, product, dataset, dataset[k]) <= One - e

\* The mean reaches t.
MeanReaches(t, m, product, dataset, fillers) == Mean(m, product, dataset, fillers) >= t

\* A mean is an integer.
LEMMA MeanIsAnInteger ==
    ASSUME IsFiniteSet(Corpus), NEW product, Product(product), NEW dataset, Examined(dataset),
           NEW m \in Metrics, NEW fillers \in Nat, Len(dataset) + fillers > 0
    PROVE  Mean(m, product, dataset, fillers) \in Int
<1> DEFINE D == DOMAIN dataset
           total == Total(m, product, dataset)
           len == Len(dataset)
           n == len + fillers
           score == FillerScore(m, product)
           sum == total + fillers * score
<1>1. len \in Nat /\ D = 1..len /\ IsFiniteSet(D)
  <2>1. len \in Nat /\ D = 1..len
        BY DEF Examined
  <2> HIDE DEF len, D
  <2>2. QED
        BY <2>1, FS_Interval
<1>2. total \in Int
  <2>1. \A k \in D : /\ ScoreOf(m, product, dataset, dataset[k]) \in Int
                     /\ ScoreOf(m, product, dataset, dataset[k]) <= One
                     /\ k \in {} => ScoreOf(m, product, dataset, dataset[k]) <= One - 0
        BY ScoresAreBounded
  <2>2. {} \in SUBSET D /\ 0 \in Nat
        OBVIOUS
  <2>3. QED
        BY <1>1, <2>1, <2>2, TotalIsBounded
<1>3. score \in {0, One}
      BY DEF FillerScore
<1>4. Mean(m, product, dataset, fillers) = (2 * sum + n) \div (2 * n)
      BY Zenon DEF Mean, Total
<1>5. sum \in Int /\ n \in Nat \ {0}
      BY <1>1, <1>2, <1>3 DEF One
<1>6. (2 * sum + n) \div (2 * n) \in Int
  <2> HIDE DEF sum, n
  <2> DEFINE x == 2 * sum + n
             y == 2 * n
  <2>1. x \in Int /\ y \in Nat \ {0}
        BY <1>5
  <2> HIDE DEF x, y
  <2>2. x \div y \in Int
        BY <2>1, Quotient
  <2>3. QED
        BY <2>2 DEF x, y
<1>7. QED
      BY <1>4, <1>6

\* What a mean that reaches t says of the examples that fall short by e.
LEMMA FewFallShort ==
    ASSUME IsFiniteSet(Corpus), NEW product, Product(product), NEW dataset, Examined(dataset),
           NEW m \in Metrics, NEW t \in Nat, NEW e \in Nat,
           NEW fillers \in Nat, Len(dataset) + fillers > 0,
           NEW Z \in SUBSET DOMAIN dataset,
           ShortBy(e, Z, m, product, dataset), MeanReaches(t, m, product, dataset, fillers)
    PROVE  /\ Cardinality(Z) \in Nat
           /\ 2 * (Len(dataset) + fillers) * t
                <= 20001 * (Len(dataset) + fillers) - 2 * e * Cardinality(Z)
                   - 2 * fillers * (One - FillerScore(m, product))
<1> DEFINE D == DOMAIN dataset
           z == Cardinality(Z)
           total == Total(m, product, dataset)
           len == Len(dataset)
           n == len + fillers
           score == FillerScore(m, product)
           sum == total + fillers * score
<1>1. len \in Nat /\ D = 1..len /\ Cardinality(D) = len /\ IsFiniteSet(D)
  <2>1. len \in Nat /\ D = 1..len
        BY DEF Examined
  <2> HIDE DEF len, D
  <2>2. QED
        BY <2>1, FS_Interval
<1>2. /\ total \in Int /\ z \in Nat /\ total <= One * len - e * z
  <2>1. \A k \in D : /\ ScoreOf(m, product, dataset, dataset[k]) \in Int
                     /\ ScoreOf(m, product, dataset, dataset[k]) <= One
                     /\ k \in Z => ScoreOf(m, product, dataset, dataset[k]) <= One - e
        BY ScoresAreBounded DEF ShortBy
  <2>2. /\ total \in Int /\ z \in Nat /\ total <= One * Cardinality(D) - e * z
    <3> HIDE DEF z
    <3>1. QED
          BY <1>1, <2>1, TotalIsBounded DEF z
  <2>3. QED
        BY <1>1, <2>2
<1>3. score \in {0, One}
      BY DEF FillerScore
<1>4. Mean(m, product, dataset, fillers) = (2 * sum + n) \div (2 * n)
      BY Zenon DEF Mean, Total
<1>5. sum \in Int /\ n \in Nat \ {0}
      BY <1>1, <1>2, <1>3 DEF One
<1>6. 2 * n * t <= 2 * sum + n
  <2>1. (2 * sum + n) \div (2 * n) >= t
        BY <1>4 DEF MeanReaches
  <2> HIDE DEF sum, n
  <2>2. QED
        BY <1>5, <2>1, MeanIsReached
<1> DEFINE ez == e * z
           fs == fillers * score
           nt == n * t
<1>7. ez \in Int /\ fs \in Int /\ nt \in Int
      BY <1>1, <1>2, <1>3 DEF One
<1>8. 2 * e * z = 2 * ez /\ 2 * fillers * (One - score) = 20000 * fillers - 2 * fs
      /\ 2 * n * t = 2 * nt
      BY <1>1, <1>2, <1>3 DEF One
<1>9. 2 * nt <= 2 * (total + fs) + n /\ total <= 10000 * len - ez /\ n = len + fillers
      BY <1>2, <1>6, <1>8 DEF One
<1>10. 2 * nt <= 20001 * n - 2 * ez - (20000 * fillers - 2 * fs)
  <2> HIDE DEF ez, fs, nt, n, total, len
  <2>1. QED
        BY <1>1, <1>2, <1>5, <1>7, <1>9
<1>11. QED
  <2> HIDE DEF ez, fs, nt, score
  <2>1. QED
        BY <1>2, <1>8, <1>10 DEF score

\* No two examples of a dataset share a key.
Distinct(dataset) == \A j, k \in DOMAIN dataset : dataset[j].key = dataset[k].key => j = k

\* Then the retrieval fake gives each example its own documents.
LEMMA FixtureIsOwn ==
    ASSUME NEW product, NEW dataset, Examined(dataset), Distinct(dataset),
           NEW k \in DOMAIN dataset
    PROVE  Fixture(product, dataset, dataset[k])
              = (dataset[k].expected \cup dataset[k].forbidden) \cap Corpus
<1> DEFINE S == {j \in DOMAIN dataset :
                    Received(product, dataset[k]) \in
                        {Query(dataset[j]), Received(product, dataset[j])}}
<1>1. ASSUME NEW j \in DOMAIN dataset
      PROVE  Received(product, dataset[j])[1] = dataset[j].key /\ Query(dataset[j])[1] = dataset[j].key
      BY DEF Received, Query
<1>2. S = {k}
      BY <1>1 DEF Distinct
<1>3. Max(S) = k
  <2>1. k \in Int
        BY DEF Examined
  <2> HIDE DEF S
  <2>2. QED
        BY <1>2, <2>1 DEF Max
<1>4. Fixture(product, dataset, dataset[k])
         = (dataset[Max(S)].expected \cup dataset[Max(S)].forbidden) \cap Corpus
      BY Zenon DEF Fixture
<1>5. QED
  <2> HIDE DEF S
  <2>1. QED
        BY <1>3, <1>4

\* A product that can be built.
Available(product) == product.available

\* An evaluation over fewer than a hundred examples.
Evaluated(product, dataset, fillers) ==
    /\ IsFiniteSet(Corpus) /\ Product(product)
    /\ Examined(dataset) /\ fillers \in Nat /\ Len(dataset) + fillers \in 1..99

\* The same, of a product that can be built.
Built(product, dataset, fillers) == Evaluated(product, dataset, fillers) /\ Available(product)

\* The size of a set of one element.
LEMMA OneElement == \A x : Cardinality({x}) = 1
BY FS_Singleton

\* One example that scores 0 shows in the mean of fewer than a hundred.
LEMMA OneFailureShows ==
    ASSUME NEW product, NEW dataset, NEW fillers,
           Built(product, dataset, fillers),
           NEW m \in {"acl_correctness", "pii_safety"},
           MeanReaches(9900, m, product, dataset, fillers), NEW k \in DOMAIN dataset
    PROVE  ScoreOf(m, product, dataset, dataset[k]) # 0
<1>0. Cardinality({k}) = 1
      BY OneElement, SMT
<1> SUFFICES ASSUME ScoreOf(m, product, dataset, dataset[k]) = 0 PROVE FALSE
    OBVIOUS
<1> DEFINE n == Len(dataset) + fillers
           Z == {k}
           e == One
           t == 9900
<1>1. /\ Z \in SUBSET DOMAIN dataset /\ m \in Metrics /\ e \in Nat /\ t \in Nat
      /\ ShortBy(e, Z, m, product, dataset) /\ MeanReaches(t, m, product, dataset, fillers)
      BY DEF Metrics, One, ShortBy
<1>2. Cardinality(Z) = 1
      BY <1>0
<1>3. FillerScore(m, product) = One /\ n \in 1..99 /\ Len(dataset) + fillers > 0
      BY DEF FillerScore, Available, Built, Evaluated
<1>5. 2 * (Len(dataset) + fillers) * t
         <= 20001 * (Len(dataset) + fillers) - 2 * e * Cardinality(Z)
            - 2 * fillers * (One - FillerScore(m, product))
  <2> HIDE DEF Z, e, t, n
  <2>1. QED
        BY <1>1, <1>3, FewFallShort DEF Built, Evaluated
<1>6. 2 * n * 9900 <= 20001 * n - 20000
  <2> HIDE DEF Z
  <2>1. QED
        BY <1>2, <1>3, <1>5 DEF One, Built, Evaluated
<1>7. QED
  <2> HIDE DEF n
  <2>1. QED
        BY <1>3, <1>6

\* A product that passes releases nothing an example forbids.
LEMMA PassedHidesTheForbidden ==
    ASSUME NEW product, NEW dataset, NEW fillers,
           Built(product, dataset, fillers),
           Distinct(dataset),
           MeanReaches(9900, "acl_correctness", product, dataset, fillers),
           NEW k \in DOMAIN dataset
    PROVE  Released(product, dataset[k].forbidden \cap Corpus, Allowed(dataset[k])) = {}
<1> DEFINE ex == dataset[k]
           docs == (ex.expected \cup ex.forbidden) \cap Corpus
<1>1. ScoreOf("acl_correctness", product, dataset, ex) # 0
      BY OneFailureShows
<1>2. Found(product, dataset, ex) \cap ex.forbidden = {}
      BY <1>1 DEF ScoreOf, AclScore
<1>3. Found(product, dataset, ex) = Released(product, docs, Allowed(ex))
  <2>1. Fixture(product, dataset, ex) = docs
        BY FixtureIsOwn DEF Built, Evaluated
  <2>2. product.available
        BY DEF Built, Evaluated, Available
  <2>3. Found(product, dataset, ex)
           = Released(product, Fixture(product, dataset, ex), Allowed(ex))
    <3> HIDE DEF ex
    <3>1. QED
          BY <2>2 DEF Found
  <2> HIDE DEF ex, docs
  <2>4. QED
        BY <2>1, <2>3
<1>4. Released(product, ex.forbidden \cap Corpus, Allowed(ex))
          \subseteq Released(product, docs, Allowed(ex)) \cap ex.forbidden
  <2> DEFINE R(d) == CASE product.filter = "every tag" -> DocTags[d] \subseteq Allowed(ex)
                       [] product.filter = "some tag" -> DocTags[d] \cap Allowed(ex) # {}
                       [] product.filter = "none" -> TRUE
  <2>1. \A S : Released(product, S, Allowed(ex)) = {d \in S : R(d)}
        BY DEF Released
  <2> HIDE DEF R
  <2>2. QED
        BY <2>1
<1> DEFINE released == Released(product, ex.forbidden \cap Corpus, Allowed(ex))
           found == Found(product, dataset, ex)
<1>5. released \subseteq found \cap ex.forbidden /\ found \cap ex.forbidden = {}
      BY <1>2, <1>3, <1>4
<1>6. released = {}
  <2> HIDE DEF released, found, ex
  <2>1. QED
        BY <1>5
<1>7. QED
      BY <1>6

\* The k-th example plants an identifier; the product's redactor masks it.
Plants(dataset, k) == dataset[k].planted
Masks(product) == product.masks

\* A product that passes masks what an example plants.
LEMMA PassedMasksThePlanted ==
    ASSUME NEW product, NEW dataset, NEW fillers,
           Built(product, dataset, fillers),
           MeanReaches(9900, "pii_safety", product, dataset, fillers),
           NEW k \in DOMAIN dataset, Plants(dataset, k)
    PROVE  Masks(product)
<1>1. ScoreOf("pii_safety", product, dataset, dataset[k]) # 0
      BY OneFailureShows
<1>2. QED
      BY <1>1 DEF ScoreOf, PiiScore, Available, Plants, Masks, Built, Evaluated, Product

\* A product that passes cites the wrong block for few examples.
LEMMA PassedAnchorsWhatItFinds ==
    ASSUME IsFiniteSet(Corpus), NEW product, Product(product), Available(product),
           NEW dataset, Examined(dataset),
           NEW fillers \in Nat, Len(dataset) + fillers > 0,
           MeanReaches(9800, "citation_accuracy", product, dataset, fillers)
    PROVE  49 * Cardinality({k \in DOMAIN dataset :
                ~(Found(product, dataset, dataset[k]) \subseteq Located(product))})
              <= Cardinality(Corpus) * (Len(dataset) + fillers)
<1> DEFINE Z == {k \in DOMAIN dataset :
                    ~(Found(product, dataset, dataset[k]) \subseteq Located(product))}
           m == "citation_accuracy"
           z == Cardinality(Z)
           len == Len(dataset)
           n == len + fillers
           d == Cardinality(Corpus)
<1>1. /\ len \in Nat /\ d \in Nat /\ z \in Nat /\ z <= len /\ n \in Nat \ {0}
  <2>1. len \in Nat /\ DOMAIN dataset = 1..len /\ Z \subseteq 1..len
        BY DEF Examined
  <2>2. IsFiniteSet(1..len) /\ Cardinality(1..len) = len
    <3> HIDE DEF len
    <3>1. QED
          BY <2>1, FS_Interval
  <2>3. z \in Nat /\ z <= len
    <3> DEFINE S == 1..len
    <3>1. IsFiniteSet(S) /\ Cardinality(S) = len /\ Z \in SUBSET S
          BY <2>1, <2>2
    <3> HIDE DEF len, Z, S
    <3>2. IsFiniteSet(Z) /\ Cardinality(Z) <= Cardinality(S)
          BY <3>1, FS_Subset
    <3>3. QED
          BY <3>1, <3>2, FS_CardinalityType
  <2>4. d \in Nat
        BY FS_CardinalityType
  <2> HIDE DEF d, z
  <2>5. QED
        BY <2>1, <2>3, <2>4
<1>2. CASE d >= 49
  <2> HIDE DEF z, d, len
  <2>1. 49 * z <= 49 * n
        BY <1>1
  <2>2. 49 * n <= d * n
    <3> DEFINE c == d - 49
    <3>1. c \in Nat /\ d = c + 49 /\ n \in Nat
          BY <1>1, <1>2
    <3> HIDE DEF c, n
    <3>2. c * n \in Nat /\ d * n = c * n + 49 * n
          BY <3>1
    <3>3. QED
          BY <3>1, <3>2
  <2>3. d * n \in Int
        BY <1>1
  <2>4. QED
        BY <1>1, <2>1, <2>2, <2>3 DEF z, d, len
<1>3. CASE d = 0
  <2>1. Corpus = {}
        BY <1>3, FS_EmptySet
  <2>2. Z = {}
        BY <2>1, FoundIsOfTheCorpus
  <2>3. z = 0
    <3> HIDE DEF Z
    <3>1. QED
          BY <2>2, FS_EmptySet
  <2>4. QED
        BY <1>1, <1>3, <2>3
<1>4. CASE d \in 1..48
  <2> HIDE DEF d
  <2> DEFINE top == (20001 * d - 20000) \div (2 * d)
             e == One - top
  <2>1. /\ top \in Int /\ 2 * d * top <= 20001 * d - 20000
        /\ 20001 * d - 20000 < 2 * d * top + 2 * d
    <3> DEFINE x == 20001 * d - 20000
               y == 2 * d
    <3>1. x \in Int /\ y \in Nat \ {0}
          BY <1>4
    <3>2. x \div y \in Int /\ y * (x \div y) <= x /\ x < y * (x \div y) + y
      <4> HIDE DEF x, y
      <4>1. QED
            BY <3>1, Quotient
    <3>3. QED
          BY <3>2
  <2> HIDE DEF top
  <2>2. e \in Nat /\ 2 * d * e >= 20000 - d
    <3>1. top <= 10000
      <4>1. top >= 10001 => 2 * d * top >= 2 * d * 10001
            BY <1>4, <2>1
      <4>2. QED
            BY <1>4, <2>1, <4>1
    <3>2. 2 * d * e = 20000 * d - 2 * d * top
          BY <1>4, <2>1 DEF One
    <3>3. 2 * d * top \in Int
          BY <1>4, <2>1
    <3>4. QED
          BY <1>4, <2>1, <3>1, <3>2, <3>3 DEF One
  <2>3. ASSUME NEW k \in Z PROVE ScoreOf(m, product, dataset, dataset[k]) <= One - e
    <3> DEFINE found == Found(product, dataset, dataset[k])
               part == found \cap Located(product)
               q == ScoreOf(m, product, dataset, dataset[k])
    <3>1. found \subseteq Corpus /\ IsFiniteSet(found) /\ Cardinality(found) <= d /\ d \in Nat
          BY <1>1, FoundIsOfTheCorpus, FS_Subset DEF d
    <3>2. part \in SUBSET found /\ part # found
          OBVIOUS
    <3>3. q = Share(part, found)
          BY DEF ScoreOf, CitationScore
    <3>4. q \in Int /\ 2 * d * q <= 20001 * d - 20000
      <4> HIDE DEF found, part, q
      <4>1. QED
            BY <3>1, <3>2, <3>3, ShareIsBounded
    <3> HIDE DEF q
    <3>5. q <= top
      <4>1. q >= top + 1 => 2 * d * q >= 2 * d * (top + 1)
            BY <1>4, <2>1, <3>4
      <4>2. 2 * d * (top + 1) = 2 * d * top + 2 * d /\ 2 * d * top \in Int /\ 2 * d * q \in Int
            BY <1>4, <2>1, <3>4
      <4>3. QED
            BY <1>4, <2>1, <3>4, <4>1, <4>2
    <3>6. QED
          BY <2>1, <3>4, <3>5 DEF q, One
  <2>4. 2 * n * 9800 <= 20001 * n - 2 * e * z
    <3> DEFINE t == 9800
    <3>1. /\ Z \in SUBSET DOMAIN dataset /\ m \in Metrics /\ t \in Nat
          /\ MeanReaches(t, m, product, dataset, fillers) /\ ShortBy(e, Z, m, product, dataset)
          BY <2>3 DEF Metrics, ShortBy
    <3>2. FillerScore(m, product) = One
          BY DEF FillerScore, Available
    <3>3. 2 * (Len(dataset) + fillers) * t
             <= 20001 * (Len(dataset) + fillers) - 2 * e * Cardinality(Z)
                - 2 * fillers * (One - FillerScore(m, product))
      <4> HIDE DEF Z, e, t, n, z, m, len
      <4>1. QED
            BY <2>2, <3>1, FewFallShort
    <3> HIDE DEF Z, e, m
    <3>4. QED
          BY <1>1, <2>2, <3>2, <3>3 DEF One
  <2> HIDE DEF e, z, n
  <2> DEFINE ez == e * z
             dz == d * z
             dn == d * n
  <2>5. ez \in Int /\ dz \in Int /\ dn \in Int /\ dz >= 0
        BY <1>1, <1>4, <2>2
  <2>6. 2 * ez <= 401 * n
        BY <1>1, <2>2, <2>4, <2>5
  <2>7. 2 * d * e * z >= (20000 - d) * z
    <3> DEFINE u == 2 * d * e
               v == 20000 - d
    <3>1. u >= v /\ u \in Int /\ v \in Int
          BY <1>4, <2>2
    <3> HIDE DEF u, v
    <3>2. u * z >= v * z
          BY <1>1, <3>1
    <3>3. QED
          BY <3>2 DEF u, v
  <2>8. 2 * d * e * z = d * (2 * ez) /\ d * (2 * ez) <= d * (401 * n)
    <3>1. 2 * d * e * z = d * (2 * ez)
          BY <1>1, <1>4, <2>2
    <3> HIDE DEF ez
    <3>2. QED
          BY <1>1, <1>4, <2>5, <2>6, <3>1
  <2>9. (20000 - d) * z = 20000 * z - dz /\ d * (401 * n) = 401 * dn /\ dz <= 48 * z
        BY <1>1, <1>4
  <2>10. 20000 * z - 48 * z <= 401 * dn
    <3> HIDE DEF ez, dz, dn
    <3>1. QED
          BY <1>1, <2>5, <2>7, <2>8, <2>9
  <2>11. 49 * z <= dn
    <3> HIDE DEF dn
    <3>1. QED
          BY <1>1, <2>5, <2>10
  <2>12. QED
         BY <2>11 DEF z, d, n
<1>5. d \in Nat
      BY <1>1
<1>6. QED
  <2> HIDE DEF d
  <2>1. QED
        BY <1>2, <1>3, <1>4, <1>5

\* A product that cannot be built passes only if little was expected.
LEMMA PassedFindsWhatIsExpected ==
    ASSUME NEW product, NEW dataset, NEW fillers, Evaluated(product, dataset, fillers),
           ~Available(product),
           MeanReaches(8000, "retrieval_recall", product, dataset, fillers)
    PROVE  ExpectsLittle(dataset, fillers)
<1> DEFINE Z == {k \in DOMAIN dataset : dataset[k].expected # {}}
           m == "retrieval_recall"
           e == One
           t == 8000
           z == Cardinality(Z)
           n == Len(dataset) + fillers
<1>1. ASSUME NEW k \in Z PROVE ScoreOf(m, product, dataset, dataset[k]) = 0
  <2> DEFINE ex == dataset[k]
             whole == ex.expected
             part == whole \cap Found(product, dataset, ex)
             b == Cardinality(whole)
  <2>1. Found(product, dataset, ex) = {}
        BY DEF Found, Available
  <2>2. ScoreOf(m, product, dataset, ex) = Share(part, whole)
        BY DEF ScoreOf, RecallScore
  <2>3. part = {} /\ whole # {} /\ IsFiniteSet(whole)
    <3>1. whole # {} /\ IsFiniteSet(whole)
          BY DEF Examined, Evaluated
    <3> HIDE DEF whole
    <3>2. QED
          BY <2>1, <3>1
  <2> HIDE DEF whole, part
  <2>4. b \in Nat /\ b # 0
        BY <2>3, FS_EmptySet, FS_CardinalityType
  <2>5. Cardinality(part) = 0
        BY <2>3, FS_EmptySet
  <2>6. Share(part, whole) = (2 * One * 0 + b) \div (2 * b)
        BY <2>3, <2>5 DEF Share
  <2> HIDE DEF b
  <2>7. (2 * One * 0 + b) \div (2 * b) = 0
    <3> DEFINE y == 2 * b
               q == b \div y
    <3>1. b \in Int /\ y \in Nat \ {0}
          BY <2>4
    <3>2. q \in Int /\ y * q <= b /\ b < y * q + y
      <4> HIDE DEF y
      <4>1. QED
            BY <3>1, Quotient
    <3> HIDE DEF q
    <3>3. q >= 1 => y * q >= y
          BY <3>1, <3>2
    <3>4. q <= -1 => y * q <= -y
          BY <3>1, <3>2
    <3>5. q = 0
          BY <2>4, <3>1, <3>2, <3>3, <3>4
    <3>6. QED
          BY <2>4, <3>5 DEF q, One
  <2>8. QED
        BY <2>2, <2>6, <2>7
<1>2. /\ Z \in SUBSET DOMAIN dataset /\ m \in Metrics /\ e \in Nat /\ t \in Nat
      /\ ShortBy(e, Z, m, product, dataset) /\ MeanReaches(t, m, product, dataset, fillers)
  <2>1. ShortBy(e, Z, m, product, dataset)
    <3> HIDE DEF Z, m
    <3>1. QED
          BY <1>1 DEF ShortBy, One
  <2>2. QED
        BY <2>1 DEF Metrics, One
<1>3. FillerScore(m, product) = 0 /\ n \in 1..99 /\ Len(dataset) + fillers > 0
  <2>1. FillerScore(m, product) = 0
        BY DEF FillerScore, Available
  <2>2. n \in 1..99
        BY DEF Evaluated
  <2>3. n > 0
    <3> HIDE DEF n
    <3>1. QED
          BY <2>2
  <2>4. QED
        BY <2>1, <2>2, <2>3
<1>4. /\ z \in Nat
      /\ 2 * (Len(dataset) + fillers) * t
            <= 20001 * (Len(dataset) + fillers) - 2 * e * Cardinality(Z)
               - 2 * fillers * (One - FillerScore(m, product))
  <2> HIDE DEF Z, e, t, n, m
  <2>1. QED
        BY <1>2, <1>3, FewFallShort DEF Evaluated
<1>5. 16000 * n <= 20001 * n - 20000 * z - 20000 * fillers
  <2>1. fillers \in Nat
        BY DEF Evaluated
  <2> HIDE DEF Z, m
  <2>2. QED
        BY <1>3, <1>4, <2>1 DEF One
<1>6. 5 * (fillers + z) <= n
  <2>1. fillers \in Nat
        BY DEF Evaluated
  <2> HIDE DEF z, n
  <2>2. \A x \in 1..99, y, f \in Nat : 16000 * x <= 20001 * x - 20000 * y - 20000 * f => 5 * (f + y) <= x
        OBVIOUS
  <2>3. n \in 1..99 /\ z \in Nat
        BY <1>3, <1>4
  <2>4. QED
        BY <1>5, <2>1, <2>2, <2>3
<1>7. QED
      BY <1>6 DEF ExpectsLittle

\* Of every product, golden file, corpus and rubrics: an evaluation of fewer than
\* a hundred examples with distinct queries that passes under no lower thresholds
\* than are shipped has no leak in it.
\* (run_offline, self_check, load_thresholds_from_rubrics, EvalReport.passed)
THEOREM EveryEvaluationIsHonest ==
    ASSUME IsFiniteSet(Corpus), NEW product, Product(product),
           NEW file, NEW length \in Nat, DOMAIN file = 1..length,
           \A line \in Lines(file) \ {Broken} :
               IsFiniteSet(line.expected) /\ line.planted \in BOOLEAN,
           NEW fillers \in Nat, NEW rubric, \A m \in Metrics : Threshold(m, rubric) \in Nat
    PROVE  EvalCannotPassALeak(product, file, fillers, rubric)
<1> DEFINE dataset == Golden(file)
           n == Len(dataset) + fillers
           promoted == \E profile \in {"local", "gcp"}, gate \in Gates, script \in BOOLEAN :
                           Promoted(product, file, fillers, rubric, profile, gate, script)
           harmless == IF product.available
                       THEN LeaksNothing(product, dataset) /\ AnchorsMostOfIt(product, dataset, n)
                       ELSE ExpectsLittle(dataset, fillers)
<1>0. SUFFICES ASSUME promoted, Telling(dataset, fillers, rubric) PROVE harmless
      BY DEF EvalCannotPassALeak
<1>1. n < 100 /\ AsStrict(rubric) /\ Distinct(dataset)
      BY <1>0 DEF Telling, Distinct
<1>2. dataset \in Seq(Lines(file))
      BY GoldenIsRead
<1>3. Passed(product, file, fillers, rubric)
      BY <1>0 DEF Promoted
<1>4. SelfCheck(rubric) /\ Readable(file) /\ n > 0
      BY <1>3 DEF Passed
<1> HIDE DEF dataset
<1>5. \A m \in Metrics : MeanReaches(Threshold(m, rubric), m, product, dataset, fillers)
      BY <1>3, Zenon DEF Passed, MeanReaches, dataset
<1>6. Examined(dataset)
  <2>1. dataset \in Seq(Range(dataset)) /\ Range(dataset) \subseteq Lines(file)
        BY <1>2 DEF Range
  <2>2. Broken \notin Lines(file)
        BY <1>4 DEF Readable, Lines
  <2>3. \A k \in DOMAIN dataset : dataset[k] \in Lines(file) \ {Broken}
        BY <2>1, <2>2 DEF Range
  <2>4. QED
        BY <2>1, <2>3 DEF Examined
<1>7. n \in 1..99 /\ n > 0
  <2>1. Len(dataset) \in Nat
        BY <1>2
  <2> DEFINE len == Len(dataset)
  <2> HIDE DEF len
  <2>2. len + fillers < 100 /\ len + fillers > 0 /\ len \in Nat
        BY <1>1, <1>4, <2>1 DEF len
  <2>3. len + fillers \in 1..99 /\ len + fillers > 0
        BY <2>2
  <2>4. QED
        BY <2>3 DEF len
<1>8. Evaluated(product, dataset, fillers)
       BY <1>6, <1>7 DEF Evaluated
<1>9. \A m \in Metrics : Threshold(m, rubric) >= DefaultThreshold(m)
  <2>1. \A m \in Metrics \ {"retrieval_recall"} : 0 < Threshold(m, rubric)
        BY <1>4 DEF SelfCheck
  <2>2. QED
        BY <1>1, <2>1 DEF AsStrict
<1>10. \A m \in Metrics : MeanReaches(DefaultThreshold(m), m, product, dataset, fillers)
  <2>1. TAKE m \in Metrics
  <2> DEFINE mean == Mean(m, product, dataset, fillers)
             t == Threshold(m, rubric)
             d == DefaultThreshold(m)
  <2>2. mean \in Int
    <3>1. Len(dataset) + fillers > 0
          BY <1>7
    <3> HIDE DEF mean
    <3>2. QED
          BY <1>6, <3>1, MeanIsAnInteger DEF mean
  <2>3. mean >= t
        BY <1>5 DEF MeanReaches
  <2>4. t \in Nat /\ t >= d
        BY <1>9
  <2>5. d \in Nat
        BY DEF DefaultThreshold, Metrics
  <2> HIDE DEF mean, t, d
  <2>6. mean >= d
        BY <2>2, <2>3, <2>4, <2>5
  <2>7. QED
        BY <2>6 DEF MeanReaches, mean, d
<1>11. /\ MeanReaches(8000, "retrieval_recall", product, dataset, fillers)
      /\ MeanReaches(9900, "acl_correctness", product, dataset, fillers)
      /\ MeanReaches(9900, "pii_safety", product, dataset, fillers)
      /\ MeanReaches(9800, "citation_accuracy", product, dataset, fillers)
  <2>1. /\ "retrieval_recall" \in Metrics /\ "acl_correctness" \in Metrics
        /\ "pii_safety" \in Metrics /\ "citation_accuracy" \in Metrics
        BY DEF Metrics
  <2>2. /\ DefaultThreshold("retrieval_recall") = 8000
        /\ DefaultThreshold("acl_correctness") = 9900
        /\ DefaultThreshold("pii_safety") = 9900
        /\ DefaultThreshold("citation_accuracy") = 9800
        BY DEF DefaultThreshold
  <2>3. QED
        BY <1>10, <2>1, <2>2
<1>12. CASE Available(product)
  <2>0. Built(product, dataset, fillers)
        BY <1>8, <1>12 DEF Built
  <2>1. LeaksNothing(product, dataset)
    <3>1. ASSUME NEW k \in DOMAIN dataset
          PROVE  Released(product, dataset[k].forbidden \cap Corpus, Allowed(dataset[k])) = {}
          BY <1>1, <1>11, <2>0, PassedHidesTheForbidden
    <3>2. ASSUME NEW k \in DOMAIN dataset, Plants(dataset, k)
          PROVE  Masks(product)
          BY <1>11, <2>0, <3>2, PassedMasksThePlanted
    <3>3. QED
          BY <3>1, <3>2 DEF LeaksNothing, Plants, Masks
  <2>2. AnchorsMostOfIt(product, dataset, n)
    <3>1. 49 * Cardinality({k \in DOMAIN dataset :
                ~(Found(product, dataset, dataset[k]) \subseteq Located(product))})
              <= Cardinality(Corpus) * (Len(dataset) + fillers)
          BY <1>11, <1>6, <1>7, <1>12, PassedAnchorsWhatItFinds
    <3>2. QED
          BY <3>1 DEF AnchorsMostOfIt
  <2>3. product.available
        BY <1>12 DEF Available
  <2>4. QED
        BY <2>1, <2>2, <2>3
<1>13. CASE ~Available(product)
  <2>1. ExpectsLittle(dataset, fillers)
        BY <1>11, <1>8, <1>13, PassedFindsWhatIsExpected
  <2>2. ~product.available
        BY <1>13 DEF Available
  <2>3. QED
        BY <2>1, <2>2
<1>14. QED
       BY <1>12, <1>13
=============================================================================
