----------------------------- MODULE SequenceLemmas -----------------------------
(***************************************************************************)
(* What other proofs need to know of sequences that are folded, sorted or  *)
(* filtered.  The induction principles of the library take a predicate,    *)
(* which the provers cannot instantiate; here induction is over a set of   *)
(* natural numbers, and what is folded is given as a function.             *)
(***************************************************************************)
EXTENDS SequencesExt, Integers, WellFoundedInduction, FiniteSetTheorems, TLAPS

LEMMA Induction ==
  ASSUME NEW T \in SUBSET Nat, 0 \in T, \A n \in T : n + 1 \in T
  PROVE  T = Nat
<1> DEFINE F == Nat \ T
           R == {p \in Nat \X Nat : p[1] < p[2]}
<1>1. SUFFICES ASSUME F # {} PROVE FALSE
  OBVIOUS
<1>2. IsWellFoundedOn(R, Nat)
  BY NatLessThanWellFounded DEF OpToRel
<1>3. PICK x \in F : \A y \in F : ~(<<y, x>> \in R)
  BY <1>1, <1>2, WFMin
<1>4. x # 0 /\ x - 1 \in Nat /\ <<x - 1, x>> \in R
  BY <1>3
<1>5. x - 1 \in T /\ x = (x - 1) + 1
  BY <1>3, <1>4
<1>6. QED
  BY <1>3, <1>5

LEMMA LeastElement ==
  ASSUME NEW S \in SUBSET Nat, S # {}
  PROVE  Min(S) \in S /\ \A y \in S : Min(S) <= y
<1> DEFINE R == {p \in Nat \X Nat : p[1] < p[2]}
<1>1. IsWellFoundedOn(R, Nat)
  BY NatLessThanWellFounded DEF OpToRel
<1>2. PICK x \in S : \A y \in S : ~(<<y, x>> \in R)
  BY <1>1, WFMin
<1>3. \A y \in S : x <= y
  <2> SUFFICES ASSUME NEW y \in S PROVE x <= y
    OBVIOUS
  <2>1. x \in Nat /\ y \in Nat
    OBVIOUS
  <2>2. y < x => <<y, x>> \in R
    BY <2>1
  <2>3. QED
    BY <1>2, <2>1, <2>2
<1>4. \E z \in S : \A y \in S : z =< y
  BY <1>3
<1>5. QED
  BY <1>4, Zenon DEF Min

LEMMA LargestElement ==
  ASSUME NEW n \in Nat, NEW S \in SUBSET (1 .. n), S # {}
  PROVE  Max(S) \in S /\ \A y \in S : y <= Max(S)
<1> DEFINE above == {m \in Nat : \A y \in S : y <= m}
<1>1. Min(above) \in above /\ \A y \in above : Min(above) <= y
  <2>1. n \in above
    OBVIOUS
  <2>2. QED
    BY <2>1, LeastElement
<1> HIDE DEF above
<1>2. Min(above) \in Nat /\ \A y \in S : y <= Min(above)
  BY <1>1 DEF above
<1>3. Min(above) \in S
  <2>1. SUFFICES ASSUME Min(above) \notin S PROVE FALSE
    OBVIOUS
  <2>2. Min(above) - 1 \in above
    <3>1. \A y \in S : y <= Min(above) - 1
      BY <1>2, <2>1
    <3>2. PICK y \in S : TRUE
      OBVIOUS
    <3>3. QED
      BY <1>2, <3>1, <3>2 DEF above
  <2>3. QED
    BY <1>1, <1>2, <2>2
<1>4. QED
  BY <1>2, <1>3 DEF Max

(* The greatest element of a set that reaches the top of an interval       *)
LEMMA TopElement ==
  ASSUME NEW n \in Nat, NEW s \in SUBSET (1 .. n), n \in s
  PROVE  Max(s) = n
<1>1. Max(s) \in s /\ \A y \in s : y <= Max(s)
  BY LargestElement
<1>2. Max(s) \in 1 .. n /\ n <= Max(s)
  BY <1>1
<1>3. QED
  BY <1>2

LEMMA TopOfInterval ==
  ASSUME NEW n \in Nat, NEW m \in 1 .. n
  PROVE  /\ 1 .. m \in SUBSET (1 .. n) /\ 1 .. m # {}
         /\ Max(1 .. m) = m /\ (1 .. m) \ {m} = 1 .. m - 1
<1>1. 1 .. m \in SUBSET (1 .. n) /\ 1 .. m # {} /\ (1 .. m) \ {m} = 1 .. m - 1
  OBVIOUS
<1>2. Max(1 .. m) = m
  BY TopElement
<1>3. QED
  BY <1>1, <1>2

-----------------------------------------------------------------------------
(* Folding.  FoldLeft folds the elements of a sequence from the greatest   *)
(* index down; g[<<t, i>>] is what it makes of t at the index i.           *)

FoldsWith(f, g, base, n) ==
  f = [s \in SUBSET (1 .. n) |->
         IF s = {} THEN base ELSE g[<<f[s \ {Max(s)}], Max(s)>>]]

LEMMA FoldExists ==
  ASSUME NEW T, NEW base \in T, NEW n \in Nat, NEW g \in [T \X (1 .. n) -> T]
  PROVE  \E f \in [SUBSET (1 .. n) -> T] : FoldsWith(f, g, base, n)
<1> DEFINE Some(m) == \E f \in [SUBSET (1 .. m) -> T] : FoldsWith(f, g, base, m)
           good == {m \in Nat : m <= n => Some(m)}
<1>1. Some(0)
  <2> DEFINE f == [s \in SUBSET (1 .. 0) |-> base]
  <2>1. f \in [SUBSET (1 .. 0) -> T] /\ \A s \in SUBSET (1 .. 0) : s = {}
    OBVIOUS
  <2>2. FoldsWith(f, g, base, 0)
    BY <2>1 DEF FoldsWith
  <2>3. QED
    BY <2>1, <2>2
<1>2. ASSUME NEW m \in Nat, m + 1 <= n, Some(m)
      PROVE  Some(m + 1)
  <2>1. PICK e \in [SUBSET (1 .. m) -> T] : FoldsWith(e, g, base, m)
    BY <1>2
  <2> DEFINE f == [s \in SUBSET (1 .. m + 1) |->
                     IF m + 1 \in s THEN g[<<e[s \ {m + 1}], m + 1>>] ELSE e[s]]
  <2>2. ASSUME NEW s \in SUBSET (1 .. m + 1)
        PROVE  /\ f[s] \in T
               /\ f[s] = IF s = {} THEN base ELSE g[<<f[s \ {Max(s)}], Max(s)>>]
    <3>1. CASE m + 1 \in s
      <4>1. Max(s) = m + 1
        BY <3>1, TopElement
      <4>2. s \ {m + 1} \in SUBSET (1 .. m) /\ s \ {m + 1} \in SUBSET (1 .. m + 1)
        OBVIOUS
      <4>3. f[s \ {m + 1}] = e[s \ {m + 1}] /\ f[s] = g[<<e[s \ {m + 1}], m + 1>>]
        BY <3>1, <4>2
      <4>4. m + 1 \in 1 .. n /\ e[s \ {m + 1}] \in T
        BY <1>2, <4>2
      <4>5. g[<<e[s \ {m + 1}], m + 1>>] \in T
        BY <4>4
      <4>6. QED
        BY <3>1, <4>1, <4>3, <4>5
    <3>2. CASE m + 1 \notin s
      <4>1. s \in SUBSET (1 .. m) /\ s \ {Max(s)} \in SUBSET (1 .. m)
        <5>1. \A i \in s : i \in 1 .. m
          BY <3>2
        <5>2. QED
          BY <5>1
      <4>2. e[s] = IF s = {} THEN base ELSE g[<<e[s \ {Max(s)}], Max(s)>>]
        BY <2>1, <4>1 DEF FoldsWith
      <4>3. f[s] = e[s] /\ f[s \ {Max(s)}] = e[s \ {Max(s)}]
        BY <3>2, <4>1
      <4>4. e[s] \in T
        BY <4>1
      <4>5. QED
        BY <4>2, <4>3, <4>4
    <3>3. QED
      BY <3>1, <3>2
  <2>3. f \in [SUBSET (1 .. m + 1) -> T]
    BY <2>2
  <2>4. FoldsWith(f, g, base, m + 1)
    <3>1. f = [s \in SUBSET (1 .. m + 1) |-> f[s]]
      OBVIOUS
    <3>2. QED
      BY <2>2, <3>1 DEF FoldsWith
  <2>5. QED
    BY <2>3, <2>4
<1> HIDE DEF Some
<1>3. good = Nat
  <2>1. good \in SUBSET Nat /\ 0 \in good /\ \A m \in good : m + 1 \in good
    BY <1>1, <1>2
  <2>2. QED
    BY <2>1, Induction
<1>4. Some(n)
  BY <1>3
<1>5. QED
  BY <1>4 DEF Some

FoldAlike(e, f, n) ==
  /\ e[{}] = f[{}]
  /\ \A s \in SUBSET (1 .. n) :
       s # {} /\ e[s \ {Max(s)}] = f[s \ {Max(s)}] => e[s] = f[s]

(* Two functions that fold in the same way agree                           *)
LEMMA FoldAgrees ==
  ASSUME NEW n \in Nat, NEW e, NEW f, FoldAlike(e, f, n)
  PROVE  \A s \in SUBSET (1 .. n) : e[s] = f[s]
<1> DEFINE Agree(m) == \A s \in SUBSET (1 .. m) : e[s] = f[s]
           good == {m \in Nat : m <= n => Agree(m)}
<1>1. Agree(0)
  <2>1. 1 .. 0 = {}
    OBVIOUS
  <2>2. QED
    BY <2>1 DEF FoldAlike
<1>2. ASSUME NEW m \in Nat, m + 1 <= n, Agree(m)
      PROVE  Agree(m + 1)
  <2>1. SUFFICES ASSUME NEW s \in SUBSET (1 .. m + 1) PROVE e[s] = f[s]
    OBVIOUS
  <2>2. s \in SUBSET (1 .. n)
    BY <1>2
  <2>3. CASE m + 1 \in s
    <3>1. Max(s) = m + 1
      BY <2>3, TopElement
    <3>2. s \ {Max(s)} \in SUBSET (1 .. m) /\ s # {}
      BY <2>3, <3>1
    <3>3. QED
      BY <1>2, <2>2, <3>2 DEF FoldAlike
  <2>4. CASE m + 1 \notin s
    <3>1. s \in SUBSET (1 .. m)
      BY <2>4
    <3>2. QED
      BY <1>2, <3>1
  <2>5. QED
    BY <2>3, <2>4
<1> HIDE DEF Agree
<1>3. good = Nat
  <2>1. good \in SUBSET Nat /\ 0 \in good /\ \A m \in good : m + 1 \in good
    BY <1>1, <1>2
  <2>2. QED
    BY <2>1, Induction
<1>4. Agree(n)
  BY <1>3
<1>5. QED
  BY <1>4 DEF Agree

(* What agrees with a fold in T is in T                                    *)
LEMMA FoldStays ==
  ASSUME NEW T, NEW n \in Nat, NEW f \in [SUBSET (1 .. n) -> T],
         NEW c, FoldAlike(c, f, n)
  PROVE  c[1 .. n] \in T
<1>1. \A s \in SUBSET (1 .. n) : c[s] = f[s]
  BY FoldAgrees
<1>2. QED
  BY <1>1

-----------------------------------------------------------------------------
(* Sorting.  R orders the elements of a set strictly and totally.          *)

TotallyOrders(R, S) ==
  /\ \A x \in S : <<x, x>> \notin R
  /\ \A x, y, z \in S : <<x, y>> \in R /\ <<y, z>> \in R => <<x, z>> \in R
  /\ \A x, y \in S : x # y => <<x, y>> \in R \/ <<y, x>> \in R

Ascends(s, R) == \A i, j \in DOMAIN s : i < j => <<s[i], s[j]>> \in R

LEMMA SortExists ==
  ASSUME NEW S, IsFiniteSet(S), NEW R, TotallyOrders(R, S)
  PROVE  \E s \in [1 .. Cardinality(S) -> S] : Ascends(s, R)
<1> DEFINE Some(T) == \E s \in [1 .. Cardinality(T) -> T] : Ascends(s, R)
           good == {n \in Nat : \A T \in SUBSET S : Cardinality(T) = n => Some(T)}
<1>1. \A T \in SUBSET S : Cardinality(T) = 0 => Some(T)
  <2> SUFFICES ASSUME NEW T \in SUBSET S, Cardinality(T) = 0 PROVE Some(T)
    OBVIOUS
  <2> DEFINE s == [i \in 1 .. 0 |-> i]
  <2>1. s \in [1 .. 0 -> T] /\ DOMAIN s = 1 .. 0 /\ 1 .. 0 = {}
    OBVIOUS
  <2> HIDE DEF s
  <2>2. Ascends(s, R)
    BY <2>1 DEF Ascends
  <2>3. QED
    BY <2>1, <2>2
<1>2. ASSUME NEW n \in Nat, \A T \in SUBSET S : Cardinality(T) = n => Some(T),
             NEW T \in SUBSET S, Cardinality(T) = n + 1
      PROVE  Some(T)
  <2>1. IsFiniteSet(T)
    BY FS_Subset
  <2>2. \A x \in T : Cardinality(T \ {x}) = n
    <3> SUFFICES ASSUME NEW x \in T PROVE Cardinality(T \ {x}) = n
      OBVIOUS
    <3>1. Cardinality(T \ {x}) = Cardinality(T) - 1
      BY <2>1, FS_RemoveElement
    <3>2. QED
      BY <1>2, <3>1
  <2>3. PICK m \in T : \A y \in T : y # m => <<y, m>> \in R
    <3>1. PICK x \in T : TRUE
      <4>1. T # {}
        BY <1>2, <2>1, FS_EmptySet
      <4>2. QED
        BY <4>1
    <3>2. PICK s \in [1 .. n -> T \ {x}] : Ascends(s, R)
      BY <1>2, <2>2
    <3>3. CASE n = 0
      <4>1. T \ {x} = {}
        <5>1. IsFiniteSet(T \ {x}) /\ Cardinality(T \ {x}) = 0
          BY <2>1, <2>2, <3>3, FS_RemoveElement
        <5>2. QED
          BY <5>1, FS_EmptySet
      <4>2. QED
        BY <4>1
    <3>4. CASE n # 0
      <4>1. n \in 1 .. n /\ s[n] \in T \ {x}
        BY <3>4
      <4>2. \A y \in T \ {x} : y # s[n] => <<y, s[n]>> \in R
        <5> SUFFICES ASSUME NEW y \in T \ {x}, y # s[n] PROVE <<y, s[n]>> \in R
          OBVIOUS
        <5>1. s \in Surjection(1 .. n, T \ {x})
          <6>1. IsInjective(s)
            <7> SUFFICES ASSUME NEW i \in 1 .. n, NEW j \in 1 .. n, s[i] = s[j], i # j
                         PROVE  FALSE
              BY DEF IsInjective
            <7>1. <<s[i], s[j]>> \in R \/ <<s[j], s[i]>> \in R
              BY <3>2 DEF Ascends
            <7>2. s[i] \in S
              OBVIOUS
            <7>3. QED
              BY <7>1, <7>2 DEF TotallyOrders
          <6>2. s \in Injection(1 .. n, T \ {x})
            BY <6>1 DEF Injection
          <6>3. /\ IsFiniteSet(1 .. n) /\ Cardinality(1 .. n) = n
                /\ IsFiniteSet(T \ {x}) /\ Cardinality(T \ {x}) = n
            BY <2>1, <2>2, <3>4, FS_Interval, FS_RemoveElement
          <6>4. QED
            BY <6>2, <6>3, FS_Injection
        <5>2. PICK i \in 1 .. n : s[i] = y
          BY <5>1 DEF Surjection
        <5>3. i < n
          BY <5>2
        <5>4. QED
          BY <3>2, <4>1, <5>2, <5>3 DEF Ascends
      <4>3. <<x, s[n]>> \in R \/ <<s[n], x>> \in R
        BY <4>1 DEF TotallyOrders
      <4>4. CASE <<x, s[n]>> \in R
        BY <4>1, <4>2, <4>4
      <4>5. CASE <<s[n], x>> \in R
        BY ZenonT(30), <4>1, <4>2, <4>5 DEF TotallyOrders
      <4>6. QED
        BY <4>3, <4>4, <4>5
    <3>5. QED
      BY <3>3, <3>4
  <2>4. PICK s \in [1 .. n -> T \ {m}] : Ascends(s, R)
    BY <1>2, <2>2
  <2> DEFINE t == [i \in 1 .. n + 1 |-> IF i = n + 1 THEN m ELSE s[i]]
  <2>5. /\ t \in [1 .. n + 1 -> T] /\ t[n + 1] = m /\ DOMAIN t = 1 .. n + 1
        /\ \A i \in 1 .. n : t[i] = s[i] /\ s[i] \in T \ {m}
    BY <2>4
  <2> HIDE DEF t
  <2>6. Ascends(t, R)
    <3> SUFFICES ASSUME NEW i \in 1 .. n + 1, NEW j \in 1 .. n + 1, i < j
                 PROVE  <<t[i], t[j]>> \in R
      BY <2>5 DEF Ascends
    <3>1. i \in 1 .. n
      OBVIOUS
    <3>2. CASE j = n + 1
      BY <2>3, <2>5, <3>1, <3>2
    <3>3. CASE j # n + 1
      <4>1. j \in 1 .. n
        BY <3>3
      <4>2. QED
        BY <2>4, <2>5, <3>1, <4>1 DEF Ascends
    <3>4. QED
      BY <3>2, <3>3
  <2>7. QED
    BY <1>2, <2>5, <2>6
<1> HIDE DEF Some
<1>3. good = Nat
  <2>1. good \in SUBSET Nat /\ 0 \in good /\ \A n \in good : n + 1 \in good
    BY <1>1, <1>2
  <2>2. QED
    BY <2>1, Induction
<1>4. Cardinality(S) \in Nat
  BY FS_CardinalityType
<1>5. Some(S)
  BY <1>3, <1>4
<1>6. QED
  BY <1>5 DEF Some

(* What ascends and is as long as the set is large runs through the set    *)
LEMMA AscendingRuns ==
  ASSUME NEW S, IsFiniteSet(S), NEW R, TotallyOrders(R, S),
         NEW s \in [1 .. Cardinality(S) -> S], Ascends(s, R)
  PROVE  /\ IsInjective(s)
         /\ \A x \in S : \E i \in 1 .. Cardinality(S) : s[i] = x
<1> DEFINE n == Cardinality(S)
<1>1. n \in Nat
  BY FS_CardinalityType
<1> HIDE DEF n
<1>2. IsInjective(s)
  <2> SUFFICES ASSUME NEW i \in 1 .. n, NEW j \in 1 .. n, s[i] = s[j], i # j
               PROVE  FALSE
    BY DEF IsInjective, n
  <2>1. <<s[i], s[j]>> \in R \/ <<s[j], s[i]>> \in R
    BY <1>1 DEF Ascends, n
  <2>2. s[i] \in S
    BY DEF n
  <2>3. QED
    BY <2>1, <2>2 DEF TotallyOrders
<1>3. s \in Injection(1 .. n, S)
  BY <1>2 DEF Injection, n
<1>4. IsFiniteSet(1 .. n) /\ Cardinality(1 .. n) = n
  BY <1>1, FS_Interval
<1>5. s \in Surjection(1 .. n, S)
  BY <1>3, <1>4, FS_Injection DEF n
<1>6. QED
  BY <1>2, <1>5 DEF Surjection, n

-----------------------------------------------------------------------------
(* What concatenating a sequence of sequences gives                        *)
LEMMA FlattenIs ==
  ASSUME NEW T, NEW seqs \in Seq(Seq(T))
  PROVE  FlattenSeq(seqs) \in Seq(T)
<1> DEFINE n == Len(seqs)
           P(f) == f = [i \in 1 .. n |-> IF i = 1 THEN seqs[i] ELSE f[i - 1] \o seqs[i]]
           c == CHOOSE f : P(f)
           Upto(m) == \E f \in [1 .. m -> Seq(T)] :
                        \A i \in 1 .. m : f[i] = IF i = 1 THEN seqs[i] ELSE f[i - 1] \o seqs[i]
           good == {m \in Nat : m <= n => Upto(m)}
<1>1. n \in Nat /\ \A i \in 1 .. n : seqs[i] \in Seq(T)
  OBVIOUS
<1> HIDE DEF n
<1>2. Upto(0)
  <2> DEFINE f == [i \in 1 .. 0 |-> <<>>]
  <2>1. f \in [1 .. 0 -> Seq(T)] /\ 1 .. 0 = {}
    OBVIOUS
  <2>2. QED
    BY <2>1
<1>3. ASSUME NEW m \in Nat, m + 1 <= n, Upto(m)
      PROVE  Upto(m + 1)
  <2>1. PICK e \in [1 .. m -> Seq(T)] :
          \A i \in 1 .. m : e[i] = IF i = 1 THEN seqs[i] ELSE e[i - 1] \o seqs[i]
    BY <1>3
  <2> DEFINE new == IF m = 0 THEN seqs[1] ELSE e[m] \o seqs[m + 1]
             f == [i \in 1 .. m + 1 |-> IF i = m + 1 THEN new ELSE e[i]]
  <2>2. new \in Seq(T)
    <3>1. m + 1 \in 1 .. n
      BY <1>1, <1>3
    <3>2. seqs[m + 1] \in Seq(T)
      BY <1>1, <3>1
    <3>3. CASE m = 0
      BY <3>2, <3>3
    <3>4. CASE m # 0
      <4>1. e[m] \in Seq(T)
        BY <3>4
      <4>2. QED
        BY <3>2, <3>4, <4>1
    <3>5. QED
      BY <3>3, <3>4
  <2> HIDE DEF new
  <2>3. /\ f \in [1 .. m + 1 -> Seq(T)] /\ f[m + 1] = new
        /\ \A i \in 1 .. m : f[i] = e[i]
    BY <2>2
  <2> HIDE DEF f
  <2>4. ASSUME NEW i \in 1 .. m + 1
        PROVE  f[i] = IF i = 1 THEN seqs[i] ELSE f[i - 1] \o seqs[i]
    <3>1. CASE i = m + 1
      <4>1. m # 0 => m \in 1 .. m
        OBVIOUS
      <4>2. CASE m = 0
        BY <2>3, <3>1, <4>2 DEF new
      <4>3. CASE m # 0
        <5>1. i - 1 = m /\ i # 1
          BY <3>1, <4>3
        <5>2. f[i - 1] = e[m] /\ f[i] = e[m] \o seqs[i]
          BY <2>3, <3>1, <4>1, <4>3, <5>1 DEF new
        <5>3. QED
          BY <5>1, <5>2
      <4>4. QED
        BY <4>2, <4>3
    <3>2. CASE i # m + 1
      <4>1. i \in 1 .. m /\ (i # 1 => i - 1 \in 1 .. m)
        BY <3>2
      <4>2. QED
        BY <2>1, <2>3, <4>1
    <3>3. QED
      BY <3>1, <3>2
  <2>5. QED
    BY <2>3, <2>4
<1> HIDE DEF Upto
<1>4. good = Nat
  <2>1. good \in SUBSET Nat /\ 0 \in good /\ \A m \in good : m + 1 \in good
    BY <1>1, <1>2, <1>3
  <2>2. QED
    BY <2>1, Induction
<1>5. Upto(n)
  BY SMTT(20), <1>1, <1>4
<1> HIDE DEF good
<1> DEFINE join(a, b) == a \o b
<1>6. PICK f \in [1 .. n -> Seq(T)] :
        \A i \in 1 .. n : f[i] = IF i = 1 THEN seqs[i] ELSE join(f[i - 1], seqs[i])
  BY <1>5, Zenon DEF Upto
<1>7. c = CHOOSE g : g = [i \in 1 .. n |->
                           IF i = 1 THEN seqs[i] ELSE join(g[i - 1], seqs[i])]
  OBVIOUS
<1> HIDE DEF join, c, P
<1> DEFINE Q(g) == g = [i \in 1 .. n |->
                          IF i = 1 THEN seqs[i] ELSE join(g[i - 1], seqs[i])]
<1>8. Q(f)
  <2>1. f = [i \in 1 .. n |-> f[i]]
    OBVIOUS
  <2>2. QED
    BY <1>6, <2>1
<1>9. Q(c)
  <2>1. \E g : Q(g)
    BY <1>8, Zenon
  <2>2. c = CHOOSE g : Q(g)
    BY <1>7
  <2> HIDE DEF Q
  <2>3. QED
    BY <2>1, <2>2, Zenon
<1>10. \A i \in 1 .. n : c[i] = IF i = 1 THEN seqs[i] ELSE join(c[i - 1], seqs[i])
  BY <1>9
<1> HIDE DEF Q
<1> DEFINE same == {m \in Nat : m + 1 <= n => c[m + 1] = f[m + 1]}
<1>11. same = Nat
  <2>1. 0 \in same
    <3>1. 1 <= n => c[1] = seqs[1] /\ f[1] = seqs[1]
      BY <1>1, <1>6, <1>10
    <3>2. QED
      BY <3>1
  <2>2. ASSUME NEW m \in same PROVE m + 1 \in same
    <3>1. SUFFICES ASSUME m + 1 + 1 <= n PROVE c[m + 1 + 1] = f[m + 1 + 1]
      OBVIOUS
    <3>2. /\ m + 1 + 1 \in 1 .. n /\ m + 1 + 1 # 1 /\ m + 1 + 1 - 1 = m + 1
          /\ c[m + 1] = f[m + 1]
      BY <1>1, <3>1
    <3>3. QED
      BY <1>6, <1>10, <3>2
  <2>3. QED
    BY <2>1, <2>2, Induction
<1>12. CASE n = 0
  <2>1. seqs = <<>>
    BY <1>12 DEF n
  <2>2. FlattenSeq(seqs) = seqs
    BY <1>12 DEF FlattenSeq, n
  <2>3. seqs \in Seq(T)
    BY <2>1
  <2>4. QED
    BY <2>2, <2>3, Zenon
<1>13. CASE n # 0
  <2>1. FlattenSeq(seqs) = c[n]
    BY <1>13 DEF FlattenSeq, c, P, n
  <2>2. n - 1 \in Nat /\ n - 1 + 1 = n /\ n \in 1 .. n /\ n <= n
    BY <1>1, <1>13
  <2>3. c[n] = f[n]
    BY <1>11, <2>2
  <2>4. QED
    BY <2>1, <2>2, <2>3
<1>14. QED
  BY <1>12, <1>13

-----------------------------------------------------------------------------
(* Removing and adding                                                     *)

LEMMA ContainsIs ==
  ASSUME NEW T, NEW s \in Seq(T), NEW e
  PROVE  Contains(s, e) <=> e \in ToSet(s)
<1>1. DOMAIN s = 1 .. Len(s)
  OBVIOUS
<1>2. QED
  BY <1>1 DEF Contains, ToSet

LEMMA EmptyIs ==
  ASSUME NEW T, NEW s, s = <<>>
  PROVE  s \in Seq(T) /\ Len(s) = 0 /\ IsInjective(s) /\ ToSet(s) = {}
<1>1. s \in Seq(T) /\ DOMAIN s = {} /\ Len(s) = 0
  OBVIOUS
<1>2. QED
  BY <1>1 DEF IsInjective, ToSet

(* A sequence without its i-th element                                     *)
LEMMA RemoveAtIs ==
  ASSUME NEW T, NEW s \in Seq(T), NEW i \in 1 .. Len(s)
  PROVE  /\ RemoveAt(s, i) \in Seq(T) /\ Len(RemoveAt(s, i)) = Len(s) - 1
         /\ \A j \in 1 .. i - 1 : RemoveAt(s, i)[j] = s[j]
         /\ \A j \in i .. Len(s) - 1 : RemoveAt(s, i)[j] = s[j + 1]
         /\ \A e \in ToSet(s) : e = s[i] \/ e \in ToSet(RemoveAt(s, i))
<1> DEFINE front == SubSeq(s, 1, i - 1)
           back == SubSeq(s, i + 1, Len(s))
           t == front \o back
<1>1. /\ Len(s) \in Nat /\ DOMAIN s = 1 .. Len(s)
      /\ front \in Seq(T) /\ Len(front) = i - 1
      /\ back \in Seq(T) /\ Len(back) = Len(s) - i
      /\ \A j \in 1 .. i - 1 : front[j] = s[j]
      /\ \A j \in 1 .. Len(s) - i : back[j] = s[i + j]
  OBVIOUS
<1> HIDE DEF front, back, t
<1>2. front \in Seq(T) /\ back \in Seq(T)
  BY <1>1
<1>3. t \in Seq(T) /\ Len(t) = Len(front) + Len(back) /\ DOMAIN t = 1 .. Len(t)
  <2>1. t \in Seq(T) /\ Len(t) = Len(front) + Len(back)
    BY <1>2 DEF t
  <2>2. QED
    BY <2>1
<1>4. /\ \A j \in 1 .. Len(front) : t[j] = front[j]
      /\ \A j \in 1 .. Len(back) : t[Len(front) + j] = back[j]
  BY <1>2 DEF t
<1>5. Len(t) = Len(s) - 1
  BY <1>1, <1>3
<1>6. \A j \in 1 .. i - 1 : t[j] = s[j]
  BY <1>1, <1>4
<1>7. ASSUME NEW j \in i .. Len(s) - 1 PROVE t[j] = s[j + 1]
  <2>1. j - i + 1 \in 1 .. Len(s) - i /\ i - 1 + (j - i + 1) = j /\ i + (j - i + 1) = j + 1
    BY SMTT(20), <1>1
  <2>2. t[Len(front) + (j - i + 1)] = back[j - i + 1]
    BY <1>1, <1>4, <2>1
  <2>3. back[j - i + 1] = s[i + (j - i + 1)]
    BY <1>1, <2>1
  <2>4. Len(front) + (j - i + 1) = j
    BY <1>1, <2>1
  <2>5. QED
    BY <2>1, <2>2, <2>3, <2>4
<1>8. ASSUME NEW j \in 1 .. Len(s), j # i PROVE s[j] \in ToSet(t)
  <2>1. CASE j < i
    <3>1. j \in 1 .. Len(t) /\ t[j] = s[j]
      BY <1>1, <1>5, <1>6, <2>1
    <3>2. QED
      BY <1>3, <3>1 DEF ToSet
  <2>2. CASE j > i
    <3>1. j - 1 \in i .. Len(s) - 1 /\ j - 1 + 1 = j /\ j - 1 \in 1 .. Len(t)
      BY <1>1, <1>5, <2>2
    <3>2. t[j - 1] = s[j]
      BY <1>7, <3>1
    <3>3. QED
      BY <1>3, <3>1, <3>2 DEF ToSet
  <2>3. QED
    BY <1>1, <1>8, <2>1, <2>2
<1>9. RemoveAt(s, i) = t
  BY DEF RemoveAt, t, front, back
<1>10. \A e \in ToSet(s) : \E j \in 1 .. Len(s) : e = s[j]
  BY <1>1 DEF ToSet
<1>11. QED
  BY <1>3, <1>5, <1>6, <1>7, <1>8, <1>9, <1>10

(* Removing an element from a sequence that has it at most once            *)
LEMMA RemoveFirstIs ==
  ASSUME NEW T, NEW s \in Seq(T), IsInjective(s), NEW e
  PROVE  LET t == RemoveFirst(s, e)
         IN  /\ t \in Seq(T) /\ IsInjective(t) /\ e \notin ToSet(t)
             /\ \A x \in ToSet(s) : x = e \/ x \in ToSet(t)
             /\ \A x \in ToSet(t) : x \in ToSet(s)
             /\ e \in ToSet(s) => Len(t) = Len(s) - 1
             /\ e \notin ToSet(s) => t = s
<1> DEFINE t == RemoveFirst(s, e)
           at == {i \in 1 .. Len(s) : s[i] = e}
<1>1. Len(s) \in Nat /\ DOMAIN s = 1 .. Len(s)
  OBVIOUS
<1>2. \A i, j \in 1 .. Len(s) : s[i] = s[j] => i = j
  BY <1>1 DEF IsInjective
<1>3. CASE at = {}
  <2>1. t = s /\ e \notin ToSet(s)
    BY <1>1, <1>3 DEF RemoveFirst, ToSet
  <2> HIDE DEF t
  <2>2. QED
    BY <2>1 DEF t
<1>4. CASE at # {}
  <2> DEFINE i == Min(at)
  <2>1. i \in at
    <3>1. at \in SUBSET Nat
      BY <1>1
    <3> HIDE DEF at
    <3>2. QED
      BY <1>4, <3>1, LeastElement
  <2>2. t = RemoveAt(s, i)
    BY <1>4 DEF RemoveFirst, SelectInSeq
  <2> HIDE DEF i, t
  <2>3. i \in 1 .. Len(s) /\ s[i] = e
    BY <2>1
  <2>4. /\ t \in Seq(T) /\ Len(t) = Len(s) - 1
        /\ \A j \in 1 .. i - 1 : t[j] = s[j]
        /\ \A j \in i .. Len(s) - 1 : t[j] = s[j + 1]
        /\ \A x \in ToSet(s) : x = e \/ x \in ToSet(t)
    BY <2>2, <2>3, RemoveAtIs
  <2>5. Len(t) \in Nat /\ DOMAIN t = 1 .. Len(t)
    BY <2>4
  <2> DEFINE from(j) == IF j < i THEN j ELSE j + 1
  <2>6. \A j \in 1 .. Len(t) :
          from(j) \in 1 .. Len(s) /\ from(j) # i /\ t[j] = s[from(j)]
    BY <1>1, <2>3, <2>4
  <2>7. \A j, k \in 1 .. Len(t) : from(j) = from(k) => j = k
    BY <1>1, <2>3, <2>5
  <2> HIDE DEF from
  <2>8. IsInjective(t)
    BY <1>2, <2>5, <2>6, <2>7 DEF IsInjective
  <2>9. \A x \in ToSet(t) : x \in ToSet(s) /\ x # e
    BY <1>1, <1>2, <2>3, <2>5, <2>6 DEF ToSet
  <2>10. e \in ToSet(s)
    BY <1>1, <2>3 DEF ToSet
  <2>11. QED
    BY <2>4, <2>8, <2>9, <2>10 DEF t
<1>5. QED
  BY <1>3, <1>4

(* An element more, at the end                                             *)
LEMMA AppendIs ==
  ASSUME NEW T, NEW s \in Seq(T), NEW e \in T
  PROVE  /\ Append(s, e) \in Seq(T) /\ ToSet(Append(s, e)) = ToSet(s) \cup {e}
         /\ IsInjective(s) /\ e \notin ToSet(s) => IsInjective(Append(s, e))
<1> DEFINE t == Append(s, e)
<1>1. /\ t \in Seq(T) /\ Len(t) = Len(s) + 1 /\ Len(s) \in Nat
      /\ \A i \in 1 .. Len(s) : t[i] = s[i]
      /\ t[Len(s) + 1] = e
      /\ DOMAIN s = 1 .. Len(s) /\ DOMAIN t = 1 .. Len(s) + 1
  OBVIOUS
<1> HIDE DEF t
<1>2. /\ \A i \in 1 .. Len(s) + 1 : i \in 1 .. Len(s) \/ i = Len(s) + 1
      /\ Len(s) + 1 \in 1 .. Len(s) + 1 /\ \A i \in 1 .. Len(s) : i \in 1 .. Len(s) + 1
  BY <1>1
<1>3. ToSet(t) \subseteq ToSet(s) \cup {e}
  BY <1>1, <1>2 DEF ToSet
<1>4. ToSet(s) \cup {e} \subseteq ToSet(t)
  BY <1>1, <1>2 DEF ToSet
<1>5. ASSUME IsInjective(s), e \notin ToSet(s) PROVE IsInjective(t)
  <2>1. \A i \in 1 .. Len(s) : s[i] # e
    BY <1>1, <1>5 DEF ToSet
  <2>2. QED
    BY <1>1, <1>2, <1>5, <2>1 DEF IsInjective
<1>6. QED
  BY <1>1, <1>3, <1>4, <1>5 DEF t

(* ... and at the front                                                    *)
LEMMA ConsIs ==
  ASSUME NEW T, NEW s \in Seq(T), NEW e \in T
  PROVE  /\ Cons(e, s) \in Seq(T) /\ Len(Cons(e, s)) = Len(s) + 1
         /\ IsInjective(s) /\ e \notin ToSet(s) => IsInjective(Cons(e, s))
<1> DEFINE t == Cons(e, s)
           one == <<e>>
           u == one \o s
<1>1. one \in Seq(T) /\ Len(one) = 1 /\ one[1] = e
  OBVIOUS
<1>2. t = u
  BY DEF Cons
<1> HIDE DEF t, one, u
<1>3. one \in Seq(T)
  BY <1>1
<1>4. u \in Seq(T) /\ Len(u) = Len(one) + Len(s)
  BY <1>3 DEF u
<1>5. /\ \A i \in 1 .. Len(one) : u[i] = one[i]
      /\ \A i \in 1 .. Len(s) : u[Len(one) + i] = s[i]
  BY <1>3 DEF u
<1>6. t \in Seq(T) /\ Len(t) = Len(one) + Len(s)
  BY <1>2, <1>4
<1>7. /\ \A i \in 1 .. Len(one) : t[i] = one[i]
      /\ \A i \in 1 .. Len(s) : t[Len(one) + i] = s[i]
  BY <1>2, <1>5
<1>8. /\ Len(s) \in Nat /\ DOMAIN s = 1 .. Len(s) /\ DOMAIN t = 1 .. Len(s) + 1
      /\ Len(t) = Len(s) + 1
  BY <1>1, <1>6
<1>9. t[1] = e /\ \A i \in 1 .. Len(s) + 1 : i = 1 \/ (i - 1 \in 1 .. Len(s) /\ t[i] = s[i - 1])
  <2>1. 1 \in 1 .. Len(one)
    BY <1>1
  <2>2. t[1] = e
    BY <1>1, <1>7, <2>1
  <2>3. ASSUME NEW i \in 1 .. Len(s) + 1, i # 1
        PROVE  i - 1 \in 1 .. Len(s) /\ t[i] = s[i - 1]
    <3>1. i - 1 \in 1 .. Len(s) /\ Len(one) + (i - 1) = i
      BY <1>1, <1>8, <2>3
    <3>2. QED
      BY <1>7, <3>1
  <2>4. QED
    BY <2>2, <2>3
<1>10. ASSUME IsInjective(s), e \notin ToSet(s) PROVE IsInjective(t)
  <2>1. \A i \in 1 .. Len(s) : s[i] # e
    BY <1>8, <1>10 DEF ToSet
  <2>2. SUFFICES ASSUME NEW i \in 1 .. Len(s) + 1, NEW j \in 1 .. Len(s) + 1, t[i] = t[j]
                 PROVE  i = j
    BY <1>8 DEF IsInjective
  <2>3. CASE i = 1 \/ j = 1
    BY <1>9, <2>1, <2>2, <2>3
  <2>4. CASE i # 1 /\ j # 1
    <3>1. i - 1 \in 1 .. Len(s) /\ j - 1 \in 1 .. Len(s) /\ s[i - 1] = s[j - 1]
      BY <1>9, <2>2, <2>4
    <3>2. i - 1 = j - 1
      BY <1>8, <1>10, <3>1 DEF IsInjective
    <3>3. QED
      BY <3>2
  <2>5. QED
    BY <2>3, <2>4
<1>11. QED
  BY <1>6, <1>8, <1>10 DEF t
=============================================================================
