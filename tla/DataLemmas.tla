----------------------------- MODULE DataLemmas ------------------------------
(***************************************************************************)
(* What the operators promise that cut addresses into batches, for any     *)
(* finite set of addresses and any batch size; and what the proofs need    *)
(* of finite sets: a largest and a smallest number, a greatest element of  *)
(* an order, induction and recursion over subsets, flattened sequences.    *)
(***************************************************************************)
EXTENDS Batches, FiniteSetTheorems, FunctionTheorems, SequenceTheorems, WellFoundedInduction, TLAPS

LEMMA Quotient ==
    ASSUME NEW a \in Nat, NEW b \in Nat \ {0}
    PROVE  /\ a \div b \in Nat
           /\ b * (a \div b) <= a
           /\ a < b * (a \div b) + b
  BY SMTT(30)

LEMMA ProductGrows ==
    ASSUME NEW a \in Nat, NEW b \in Nat, NEW d \in Nat, NEW limit \in Nat,
           a <= b, b * d <= limit
    PROVE  a * d <= limit
<1>1. PICK c \in Nat : b = a + c
  <2>1. b - a \in Nat /\ b = a + (b - a)
    OBVIOUS
  <2> QED
    BY <2>1
<1>2. b * d = a * d + c * d /\ a * d \in Nat /\ c * d \in Nat
  BY <1>1
<1> QED
  BY <1>2

\* A sequence of a finite set has each of its elements, and nothing else.
LEMMA ElementsInSomeOrder ==
    ASSUME NEW S, IsFiniteSet(S)
    PROVE  /\ SetToSeq(S) \in [1 .. Cardinality(S) -> S]
           /\ Len(SetToSeq(S)) = Cardinality(S)
           /\ \A x \in S : \E i \in 1 .. Cardinality(S) : SetToSeq(S)[i] = x
           /\ \A i, j \in 1 .. Cardinality(S) : SetToSeq(S)[i] = SetToSeq(S)[j] => i = j
<1> DEFINE n == Cardinality(S)
<1>1. n \in Nat /\ Bijection(1 .. n, S) # {}
  BY FS_CardinalityType, Fun_ExistsBij
<1>2. \E f \in [1 .. n -> S] : IsInjective(f)
  BY <1>1 DEF Bijection, Injection
<1>3. SetToSeq(S) \in [1 .. n -> S] /\ IsInjective(SetToSeq(S))
  BY <1>2 DEF SetToSeq
<1>4. SetToSeq(S) \in Injection(1 .. n, S)
  BY <1>3 DEF Injection
<1>5. Cardinality(1 .. n) = n
  BY <1>1, FS_Interval
<1>6. SetToSeq(S) \in Surjection(1 .. n, S)
  BY <1>4, <1>5, FS_Injection
<1>7. Len(SetToSeq(S)) = n
  BY <1>1, <1>3
<1> QED
  BY <1>3, <1>4, <1>6, <1>7, Fun_SurjectionProperties, Fun_InjectionProperties

\* A sequence over a set is one over a larger set.
LEMMA SequenceWidens ==
    ASSUME NEW S, NEW T, S \subseteq T, NEW s \in Seq(S)
    PROVE  /\ s \in Seq(T)
           /\ \A i \in 1 .. Len(s) : s[i] \in S
  BY SeqDef

\* Of two numbers Min is the smaller.
LEMMA MinOfTwo ==
    ASSUME NEW a \in Int, NEW b \in Int
    PROVE  Min({a, b}) = IF a <= b THEN a ELSE b
  BY DEF Min

\* The batches are operations of the kind asked for, on the members given.
LEMMA BatchesTyped ==
    ASSUME NEW op, NEW members, IsFiniteSet(members), NEW size \in Nat \ {0}
    PROVE  BatchesOf(op, members, size) \in Seq([op : {op}, members : SUBSET members])
<1> DEFINE n == Cardinality(members)
           all == SetToSeq(members)
           k == (n + size - 1) \div size
           batch(i) == [op |-> op, members |-> {all[j] : j \in (i - 1) * size + 1 .. Min({i * size, n})}]
<1>1. /\ n \in Nat /\ Len(all) = n /\ all \in [1 .. n -> members]
  BY ElementsInSomeOrder, FS_CardinalityType
<1>2. k \in Nat
  BY <1>1, Quotient
<1>3. BatchesOf(op, members, size) = [i \in 1 .. k |-> batch(i)]
  BY <1>1 DEF BatchesOf
<1>4. ASSUME NEW i \in 1 .. k PROVE batch(i) \in [op : {op}, members : SUBSET members]
  <2>1. ASSUME NEW j \in (i - 1) * size + 1 .. Min({i * size, n}) PROVE all[j] \in members
    <3>1. (i - 1) * size \in Nat /\ i * size \in Nat
      BY <1>2
    <3>2. Min({i * size, n}) <= n /\ Min({i * size, n}) \in Int
      BY <1>1, <3>1, MinOfTwo
    <3>3. j \in 1 .. n
      BY <1>1, <3>1, <3>2
    <3> QED
      BY <1>1, <3>3
  <2> QED
    BY <2>1
<1> HIDE DEF batch, k
<1> QED
  BY <1>2, <1>3, <1>4

\* Every member is in some batch.
LEMMA BatchesCover ==
    ASSUME NEW op, NEW members, IsFiniteSet(members), NEW size \in Nat \ {0}, NEW h \in members
    PROVE  \E i \in DOMAIN BatchesOf(op, members, size) : h \in BatchesOf(op, members, size)[i].members
<1> DEFINE n == Cardinality(members)
           all == SetToSeq(members)
           k == (n + size - 1) \div size
           span(i) == (i - 1) * size + 1 .. Min({i * size, n})
           batch(i) == [op |-> op, members |-> {all[j] : j \in span(i)}]
<1>1. n \in Nat /\ Len(all) = n
  BY ElementsInSomeOrder, FS_CardinalityType
<1>2. PICK j \in 1 .. n : all[j] = h
  BY ElementsInSomeOrder
<1> DEFINE q == (j - 1) \div size
<1>3. q \in Nat /\ size * q <= j - 1 /\ j - 1 < size * q + size
  BY <1>1, Quotient
<1>4. k \in Nat /\ size * k <= n + size - 1 /\ n + size - 1 < size * k + size
  <2> DEFINE m == n + size - 1
  <2>1. m \in Nat
    BY <1>1
  <2> HIDE DEF n, m
  <2>2. m \div size \in Nat /\ size * (m \div size) <= m /\ m < size * (m \div size) + size
    BY <2>1, Quotient
  <2> QED
    BY <2>2 DEF m
<1>5. BatchesOf(op, members, size) = [i \in 1 .. k |-> batch(i)]
  BY <1>1 DEF BatchesOf
<1> HIDE DEF q, k
<1>6. q + 1 \in 1 .. k
  <2>1. size * q < size * k
    BY <1>1, <1>3, <1>4
  <2>2. q < k
    <3>1. SUFFICES ASSUME k <= q PROVE FALSE
      BY <1>3, <1>4
    <3>2. size * k <= size * q
      BY <1>3, <1>4, <3>1
    <3>3. size * k \in Nat /\ size * q \in Nat
      BY <1>3, <1>4
    <3> QED
      BY <2>1, <3>2, <3>3
  <2> QED
    BY <1>3, <1>4, <2>2
<1>7. j \in span(q + 1)
  <2>1. (q + 1 - 1) * size = size * q /\ (q + 1) * size = size * q + size /\ size * q \in Nat
    BY <1>3
  <2>2. j <= (q + 1) * size /\ j <= n /\ (q + 1) * size \in Int
    BY <1>1, <1>3, <2>1
  <2>3. j <= Min({(q + 1) * size, n}) /\ Min({(q + 1) * size, n}) \in Int
    BY <1>1, <2>2, MinOfTwo
  <2> QED
    BY <1>1, <1>3, <2>1, <2>3
<1>8. h \in batch(q + 1).members
  <2> HIDE DEF span, all
  <2> QED
    BY <1>2, <1>7
<1> HIDE DEF batch
<1> QED
  BY <1>5, <1>6, <1>8

\* A finite set of numbers has a largest one: else a smallest set that has none
\* would, without one of its elements, have one.
LEMMA LargestExists ==
    ASSUME NEW S \in SUBSET Int, IsFiniteSet(S), S # {}
    PROVE  \E m \in S : \A n \in S : n <= m
<1> DEFINE HasLargest(T) == \E m \in T : \A n \in T : n <= m
           Bad == {T \in SUBSET S : T # {} /\ ~HasLargest(T)}
<1>1. SUFFICES ASSUME Bad # {} PROVE FALSE
  OBVIOUS
<1>2. IsWellFoundedOn(StrictSubsetOrdering(S), SUBSET S)
  BY FS_StrictSubsetOrderingWellFounded, FS_FiniteSubsetsOfFinite
<1>3. PICK T \in Bad : \A U \in Bad : <<U, T>> \notin StrictSubsetOrdering(S)
  <2>1. Bad \subseteq SUBSET S
    OBVIOUS
  <2> HIDE DEF Bad
  <2> QED
    BY <1>1, <1>2, <2>1, WFMin
<1>4. PICK x \in T : TRUE
  OBVIOUS
<1>5. T \ {x} \notin Bad
  BY <1>3, <1>4 DEF StrictSubsetOrdering
<1>6. T # {x}
  <2>1. HasLargest({x})
    BY <1>4
  <2> QED
    BY <2>1
<1>7. HasLargest(T \ {x})
  BY <1>4, <1>5, <1>6
<1>8. HasLargest(T)
  BY <1>4, <1>7
<1> QED
  BY <1>8
-----------------------------------------------------------------------------
(* Induction and recursion over the subsets of a finite set. *)

\* What holds of the empty set, and of each set if it holds of the set without one
\* of its elements, holds of the whole set.
LEMMA SubsetInduction ==
    ASSUME NEW E, IsFiniteSet(E), NEW Good, {} \in Good,
           \A T \in (SUBSET E) \ {{}} : \E x \in T : T \ {x} \in Good => T \in Good
    PROVE  E \in Good
<1>1. IsWellFoundedOn(StrictSubsetOrdering(E), SUBSET E)
  BY FS_StrictSubsetOrderingWellFounded, FS_FiniteSubsetsOfFinite
<1> DEFINE Bad == (SUBSET E) \ Good
<1> SUFFICES ASSUME Bad # {} PROVE FALSE
  OBVIOUS
<1>2. PICK T \in Bad : \A U \in Bad : <<U, T>> \notin StrictSubsetOrdering(E)
  <2> HIDE DEF Bad
  <2>1. Bad \subseteq SUBSET E
    BY DEF Bad
  <2> QED
    BY <1>1, <2>1, WFMin
<1>3. PICK x \in T : T \ {x} \in Good => T \in Good
  OBVIOUS
<1>4. T \ {x} \notin Bad
  <2>1. T \ {x} \in SUBSET E /\ T \in SUBSET E /\ T \ {x} \subseteq T /\ T \ {x} # T
    OBVIOUS
  <2> HIDE DEF Bad
  <2>2. <<T \ {x}, T>> \in StrictSubsetOrdering(E)
    BY <2>1 DEF StrictSubsetOrdering
  <2> QED
    BY <1>2, <2>2
<1> QED
  BY <1>3, <1>4

\* Of finitely many elements that R orders, one comes after all the others.
LEMMA GreatestExists ==
    ASSUME NEW S, IsFiniteSet(S), S # {}, NEW R,
           \A x, y \in S : <<x, y>> \in R \/ <<y, x>> \in R,
           \A x, y, z \in S : <<x, y>> \in R /\ <<y, z>> \in R => <<x, z>> \in R
    PROVE  \E x \in S : \A y \in S : <<y, x>> \in R
<1> DEFINE Good == {T \in SUBSET S : T = {} \/ \E x \in T : \A y \in T : <<y, x>> \in R}
<1>1. {} \in Good
  OBVIOUS
<1>2. ASSUME NEW T \in (SUBSET S) \ {{}}
      PROVE  \E x \in T : T \ {x} \in Good => T \in Good
  <2>1. PICK x \in T : TRUE
    OBVIOUS
  <2> SUFFICES ASSUME T \ {x} \in Good PROVE \E g \in T : \A y \in T : <<y, g>> \in R
    BY <2>1
  <2>2. CASE T \ {x} = {}
    BY <2>1, <2>2
  <2>3. CASE T \ {x} # {}
    <3>1. PICK g \in T \ {x} : \A y \in T \ {x} : <<y, g>> \in R
      BY <2>3
    <3>2. CASE <<x, g>> \in R
      BY <2>1, <3>1, <3>2
    <3>3. CASE <<g, x>> \in R
      BY <2>1, <3>1, <3>3
    <3> QED
      BY <2>1, <3>1, <3>2, <3>3
  <2> QED
    BY <2>2, <2>3
<1> HIDE DEF Good
<1>3. S \in Good
  BY <1>1, <1>2, SubsetInduction
<1> QED
  BY <1>3 DEF Good

\* A fold takes in one element after the other: the last of a set comes after the
\* rest of the set.
FoldsAs(f, base, Step, Last1, sets) ==
    \A s \in sets : f[s] = IF s = {} THEN base ELSE Step[<<f[s \ {Last1[s]}], Last1[s]>>]

\* There is such a fold, if the last of a set is the last of each part that has it.
LEMMA FoldExists ==
    ASSUME NEW E, IsFiniteSet(E), NEW Acc, NEW base \in Acc, NEW Step \in [Acc \X E -> Acc],
           NEW Last1, \A s \in (SUBSET E) \ {{}} : Last1[s] \in s,
           \A s, t \in SUBSET E : s \subseteq t /\ Last1[t] \in s => Last1[s] = Last1[t]
    PROVE  \E f \in [SUBSET E -> Acc] : FoldsAs(f, base, Step, Last1, SUBSET E)
<1> DEFINE Good == {T \in SUBSET E : \E f \in [SUBSET T -> Acc] :
                                        FoldsAs(f, base, Step, Last1, SUBSET T)}
<1>1. {} \in Good
  <2> DEFINE f == [s \in SUBSET {} |-> base]
  <2>1. f \in [SUBSET {} -> Acc] /\ FoldsAs(f, base, Step, Last1, SUBSET {})
    BY DEF FoldsAs
  <2> QED
    BY <2>1
<1>2. ASSUME NEW T \in (SUBSET E) \ {{}}
      PROVE  \E x \in T : T \ {x} \in Good => T \in Good
  <2> DEFINE x == Last1[T]
             rest == T \ {x}
  <2>1. x \in T /\ x \in E
    OBVIOUS
  <2> SUFFICES ASSUME rest \in Good PROVE T \in Good
    BY <2>1
  <2>2. PICK f \in [SUBSET rest -> Acc] : FoldsAs(f, base, Step, Last1, SUBSET rest)
    OBVIOUS
  <2> DEFINE g == [s \in SUBSET T |-> IF x \in s THEN Step[<<f[s \ {x}], x>>] ELSE f[s]]
  <2>3. g \in [SUBSET T -> Acc]
    <3> SUFFICES ASSUME NEW s \in SUBSET T
                 PROVE  (IF x \in s THEN Step[<<f[s \ {x}], x>>] ELSE f[s]) \in Acc
      OBVIOUS
    <3>1. CASE x \in s
      <4>1. s \ {x} \in SUBSET rest
        OBVIOUS
      <4>2. f[s \ {x}] \in Acc
        BY <4>1
      <4> QED
        BY <2>1, <3>1, <4>2
    <3>2. CASE x \notin s
      BY <3>2
    <3> QED
      BY <3>1, <3>2
  <2>4. ASSUME NEW s \in SUBSET T
        PROVE  g[s] = IF s = {} THEN base ELSE Step[<<g[s \ {Last1[s]}], Last1[s]>>]
    <3>1. CASE x \in s
      <4>1. Last1[s] = x
        BY <3>1
      <4>2. s \ {x} \in SUBSET T /\ x \notin s \ {x}
        OBVIOUS
      <4>3. g[s \ {x}] = f[s \ {x}] /\ g[s] = Step[<<f[s \ {x}], x>>]
        BY <3>1, <4>2
      <4> QED
        BY <3>1, <4>1, <4>3
    <3>2. CASE x \notin s
      <4>1. s \in SUBSET rest /\ g[s] = f[s]
        BY <3>2
      <4>2. s # {} => Last1[s] \in s
        OBVIOUS
      <4>3. s \ {Last1[s]} \in SUBSET T /\ x \notin s \ {Last1[s]}
        BY <3>2
      <4>4. g[s \ {Last1[s]}] = f[s \ {Last1[s]}]
        BY <4>3
      <4>5. f[s] = IF s = {} THEN base ELSE Step[<<f[s \ {Last1[s]}], Last1[s]>>]
        BY <2>2, <4>1 DEF FoldsAs
      <4> QED
        BY <4>1, <4>4, <4>5
    <3> QED
      BY <3>1, <3>2
  <2> HIDE DEF g
  <2> QED
    BY <2>3, <2>4 DEF FoldsAs
<1> HIDE DEF Good
<1>3. E \in Good
  BY <1>1, <1>2, SubsetInduction
<1> QED
  BY <1>3 DEF Good
\* A set of natural numbers has a smallest one.
LEMMA SmallestExists ==
    ASSUME NEW n \in Nat, NEW S \in SUBSET (1 .. n), S # {}
    PROVE  \E i \in S : \A j \in S : i <= j
<1> DEFINE upside == {n - i : i \in S}
<1>1. IsFiniteSet(S)
  <2>1. IsFiniteSet(1 .. n)
    BY FS_Interval
  <2> QED
    BY <2>1, FS_Subset
<1>2. IsFiniteSet(upside) /\ upside \in SUBSET Int /\ upside # {}
  <2>1. \A i \in S : n - i \in 0 .. n /\ n - i \in upside
    OBVIOUS
  <2>2. IsFiniteSet(0 .. n)
    BY FS_Interval
  <2>3. upside \in SUBSET (0 .. n) /\ upside # {}
    BY <2>1
  <2> HIDE DEF upside
  <2>4. IsFiniteSet(upside)
    BY <2>2, <2>3, FS_Subset
  <2> QED
    BY <2>3, <2>4
<1>3. PICK m \in upside : \A k \in upside : k <= m
  <2> HIDE DEF upside
  <2> QED
    BY <1>2, LargestExists
<1>4. PICK i \in S : m = n - i
  BY <1>3
<1>5. \A j \in S : n - j <= n - i
  BY <1>3, <1>4
<1> QED
  BY <1>4, <1>5

\* Sequences strung together have the elements of these sequences.
LEMMA FlattenTyped ==
    ASSUME NEW S, NEW seqs \in Seq(Seq(S))
    PROVE  FlattenSeq(seqs) \in Seq(S)
<1> DEFINE n == Len(seqs)
           E == 1 .. n
           Max1 == [s \in SUBSET E |-> IF s = {} THEN 0 ELSE CHOOSE i \in s : \A j \in s : j <= i]
           Step == [p \in Seq(S) \X E |-> p[1] \o seqs[p[2]]]
           Flattens(f) == f = [i \in E |-> IF i = 1 THEN seqs[i] ELSE f[i - 1] \o seqs[i]]
<1>1. n \in Nat /\ IsFiniteSet(E) /\ \A i \in E : seqs[i] \in Seq(S)
  BY FS_Interval
<1>2. CASE n = 0
  <2>1. seqs = <<>>
    BY <1>2
  <2> QED
    BY <1>2, <2>1 DEF FlattenSeq
<1>3. CASE n # 0
  <2>1. \E f : Flattens(f)
    <3>1. \A s \in (SUBSET E) \ {{}} : Max1[s] \in s /\ \A j \in s : j <= Max1[s]
      <4> SUFFICES ASSUME NEW s \in (SUBSET E) \ {{}}
                   PROVE  \E i \in s : \A j \in s : j <= i
        OBVIOUS
      <4>1. s \in SUBSET E /\ s \in SUBSET Int /\ s # {}
        OBVIOUS
      <4> HIDE DEF E
      <4>2. IsFiniteSet(s)
        BY <1>1, <4>1, FS_Subset
      <4> QED
        BY <4>1, <4>2, LargestExists
    <3>2. ASSUME NEW s \in SUBSET E, NEW t \in SUBSET E, s \subseteq t, Max1[t] \in s
          PROVE  Max1[s] = Max1[t]
      <4>1. s # {} /\ t # {}
        BY <3>2
      <4>2. Max1[s] \in s /\ Max1[t] \in t /\ s \subseteq Int /\ t \subseteq Int
        <5>1. E \subseteq Int
          OBVIOUS
        <5> HIDE DEF Max1, E
        <5> QED
          BY <3>1, <4>1, <5>1
      <4>3. Max1[s] <= Max1[t] /\ Max1[t] <= Max1[s]
        <5> HIDE DEF Max1
        <5> QED
          BY <3>1, <3>2, <4>1, <4>2
      <4> HIDE DEF Max1
      <4> QED
        BY <4>2, <4>3
    <3>3. <<>> \in Seq(S) /\ Step \in [Seq(S) \X E -> Seq(S)]
      BY <1>1
    <3>4. PICK g \in [SUBSET E -> Seq(S)] : FoldsAs(g, <<>>, Step, Max1, SUBSET E)
      <4> HIDE DEF Step, Max1, E
      <4> QED
        BY <1>1, <3>1, <3>2, <3>3, FoldExists
    <3> DEFINE f == [i \in E |-> g[1 .. i]]
    <3>5. ASSUME NEW i \in E PROVE f[i] = IF i = 1 THEN seqs[i] ELSE f[i - 1] \o seqs[i]
      <4>1. 1 .. i \in (SUBSET E) \ {{}} /\ i \in 1 .. i
        <5>1. i \in Int /\ 1 <= i /\ i <= n
          BY <1>1
        <5>2. i \in 1 .. i /\ \A j \in 1 .. i : j \in 1 .. n
          BY <1>1, <5>1
        <5> HIDE DEF Max1
        <5>3. 1 .. i \in SUBSET E
          BY <5>2
        <5> QED
          BY <5>2, <5>3
      <4>2. Max1[1 .. i] = i
        <5> HIDE DEF Max1
        <5>1. Max1[1 .. i] \in 1 .. i /\ i <= Max1[1 .. i]
          BY <3>1, <4>1
        <5> QED
          BY <5>1
      <4>3. (1 .. i) \ {i} = 1 .. i - 1 /\ 1 .. i - 1 \in SUBSET E
        BY <1>1
      <4>4. g[1 .. i] = Step[<<g[1 .. i - 1], i>>]
        <5> HIDE DEF Step, Max1
        <5> QED
          BY <3>4, <4>1, <4>2, <4>3 DEF FoldsAs
      <4>5. g[1 .. i - 1] \in Seq(S)
        BY <4>3
      <4>6. g[1 .. i] = g[1 .. i - 1] \o seqs[i]
        BY <4>4, <4>5
      <4>7. CASE i = 1
        <5>1. 1 .. i - 1 = {} /\ {} \in SUBSET E
          BY <4>7
        <5>2. g[{}] = <<>>
          BY <3>4, <5>1 DEF FoldsAs
        <5>3. g[1 .. i] = <<>> \o seqs[i] /\ seqs[i] \in Seq(S)
          BY <1>1, <4>6, <5>1, <5>2
        <5> QED
          BY <4>7, <5>3
      <4>8. CASE i # 1
        <5>1. i - 1 \in E
          BY <4>8, <1>1
        <5> QED
          BY <4>6, <4>8, <5>1
      <4> QED
        BY <4>7, <4>8
    <3>6. Flattens(f)
      <4>1. f = [i \in E |-> f[i]]
        OBVIOUS
      <4> HIDE DEF f
      <4> QED
        BY <3>5, <4>1
    <3> QED
      BY <3>6
  <2> DEFINE flat == CHOOSE f : Flattens(f)
  <2>2. FlattenSeq(seqs) = flat[n]
    BY <1>3 DEF FlattenSeq
  <2>3. Flattens(flat)
    BY <2>1
  <2> HIDE DEF flat
  <2>4. \A i \in E : flat[i] = IF i = 1 THEN seqs[i] ELSE flat[i - 1] \o seqs[i]
    BY <2>3
  <2> DEFINE bad == {i \in E : flat[i] \notin Seq(S)}
  <2>5. bad = {}
    <3> SUFFICES ASSUME bad # {} PROVE FALSE
      OBVIOUS
    <3>1. PICK i \in bad : \A j \in bad : i <= j
      <4>1. bad \in SUBSET (1 .. n)
        OBVIOUS
      <4> HIDE DEF bad
      <4> QED
        BY <1>1, <4>1, SmallestExists
    <3>2. CASE i = 1
      BY <1>1, <2>4, <3>2
    <3>3. CASE i # 1
      <4>1. i \in Int /\ i - 1 \in E /\ i # i - 1
        BY <1>1, <3>1, <3>3
      <4>2. ~(i <= i - 1)
        BY <4>1
      <4>3. flat[i - 1] \in Seq(S) /\ seqs[i] \in Seq(S)
        BY <1>1, <3>1, <4>1, <4>2
      <4> QED
        <5>1. flat[i] = flat[i - 1] \o seqs[i]
          BY <2>4, <3>1, <3>3
        <5>2. flat[i - 1] \o seqs[i] \in Seq(S)
          BY <4>3, ConcatProperties
        <5> QED
          BY <3>1, <5>1, <5>2
    <3> QED
      BY <3>2, <3>3
  <2> QED
    BY <1>1, <1>3, <2>2, <2>5
<1> QED
  BY <1>2, <1>3
=============================================================================
