----------------------------- MODULE FoldProofs -----------------------------
(***************************************************************************)
(* What the proofs about folds and sequences share: least elements,        *)
(* induction, and the function a fold over a sequence is the value of.     *)
(***************************************************************************)
EXTENDS Naturals, Sequences, FiniteSets, FiniteSetsExt, SequencesExt,
        SequenceTheorems, FiniteSetTheorems, TLAPS

\* A set of naturals has a least element: what every induction below is taken from.
LEMMA LeastNat ==
  ASSUME NEW T \in SUBSET Nat, T # {}
  PROVE  \E n \in T : \A m \in T : n <= m
<1> DEFINE U == {0..n : n \in T}
           R == StrictSubsetOrdering(Nat)
<1>1. U \subseteq FiniteSubsetsOf(Nat)
  <2>1. \A n \in T : 0..n \subseteq Nat /\ IsFiniteSet(0..n)
    <3> SUFFICES ASSUME NEW n \in T PROVE 0..n \subseteq Nat /\ IsFiniteSet(0..n)
      OBVIOUS
    <3>1. IsFiniteSet(0..n)
      BY FS_Interval
    <3> QED BY <3>1
  <2> QED BY <2>1 DEF FiniteSubsetsOf
<1>2. U # {}
  OBVIOUS
<1>3. IsWellFoundedOn(R, FiniteSubsetsOf(Nat))
  BY FS_StrictSubsetOrderingWellFounded
<1>4. PICK x \in U : \A y \in U : <<y, x>> \notin R
  <2> HIDE DEF U, R
  <2> QED BY <1>1, <1>2, <1>3, WFMin
<1>5. PICK n \in T : x = 0..n
  OBVIOUS
<1>6. ASSUME NEW m \in T, m < n PROVE FALSE
  <2>1. 0..m \subseteq 0..n /\ 0..m # 0..n
    <3>1. n \in 0..n /\ n \notin 0..m
      BY <1>6
    <3> QED BY <1>6, <3>1
  <2>2. <<0..m, 0..n>> \in R
    BY <2>1 DEF StrictSubsetOrdering
  <2> QED BY <1>4, <1>5, <2>2
<1> QED BY <1>6

\* A set that has zero, and the next number with each of its own, has all the naturals.
LEMMA Induction ==
  ASSUME NEW G, 0 \in G, \A i \in Nat : i \in G => i + 1 \in G
  PROVE  Nat \subseteq G
<1> DEFINE T == Nat \ G
<1> SUFFICES ASSUME T # {} PROVE FALSE
  OBVIOUS
<1>1. PICK n \in T : \A m \in T : n <= m
  BY LeastNat
<1>2. n \in Nat \ {0} /\ n - 1 \in Nat /\ n - 1 \notin T
  BY <1>1
<1>3. (n - 1) + 1 \in G
  BY <1>2
<1> QED BY <1>2, <1>3

\* A fold takes the elements of an interval from its upper end.
LEMMA MaxOfPart ==
  ASSUME NEW n \in Nat, NEW s \in SUBSET (1..n), s # {}
  PROVE  Max(s) \in s /\ \A y \in s : y <= Max(s)
<1> DEFINE T == {n - x : x \in s}
<1>1. \A x \in s : x \in Nat /\ n - x \in Nat
  <2> SUFFICES ASSUME NEW x \in s PROVE x \in Nat /\ n - x \in Nat
    OBVIOUS
  <2>1. x \in 1..n
    OBVIOUS
  <2> QED BY <2>1
<1>2. T \in SUBSET Nat /\ T # {}
  BY <1>1
<1>3. PICK d \in T : \A e \in T : d <= e
  <2> HIDE DEF T
  <2> QED BY <1>2, LeastNat
<1>4. PICK x \in s : d = n - x
  OBVIOUS
<1>41. \A y \in s : x >= y
  <2> SUFFICES ASSUME NEW y \in s PROVE x >= y
    OBVIOUS
  <2>1. n - x <= n - y
    BY <1>3, <1>4
  <2> QED BY <1>1, <2>1
<1>5. Max(s) \in s /\ \A y \in s : Max(s) >= y
  BY <1>41 DEF Max
<1> QED BY <1>1, <1>5

\* The greatest number of an interval that begins with 1 is its end.
LEMMA MaxOfInterval ==
  ASSUME NEW i \in Nat \ {0}
  PROVE  Max(1..i) = i /\ (1..i) \ {i} = 1..i - 1
<1>1. 1..i \in SUBSET (1..i) /\ i \in 1..i /\ i \in Nat
  OBVIOUS
<1>2. Max(1..i) \in 1..i /\ i <= Max(1..i)
  BY <1>1, MaxOfPart
<1> QED BY <1>2

\* The function of the parts of an interval that a fold is the value of.
IsFold(it, n, V, base, step) ==
  /\ it \in [SUBSET (1..n) -> V]
  /\ \A s \in SUBSET (1..n) :
       it[s] = IF s = {} THEN base ELSE step[<<it[s \ {Max(s)}], Max(s)>>]

\* It exists.  The step is given as a function, so that each fold of the model can take it
\* from here.
LEMMA FoldExists ==
  ASSUME NEW n \in Nat, NEW V, NEW base \in V, NEW step \in [V \X (1..n) -> V]
  PROVE  \E it : IsFold(it, n, V, base, step)
<1> DEFINE Has(i) == \E it : IsFold(it, i, V, base, step)
           G == {i \in Nat : i <= n => Has(i)}
<1>1. Has(0)
  <2> DEFINE it == [s \in SUBSET (1..0) |-> base]
  <2>1. it \in [SUBSET (1..0) -> V]
    OBVIOUS
  <2>2. \A s \in SUBSET (1..0) : s = {}
    OBVIOUS
  <2>3. IsFold(it, 0, V, base, step)
    BY <2>1, <2>2 DEF IsFold
  <2> QED BY <2>3
<1>2. ASSUME NEW i \in Nat, i + 1 <= n, Has(i) PROVE Has(i + 1)
  <2> DEFINE j == i + 1
  <2>1. PICK it : IsFold(it, i, V, base, step)
    BY <1>2
  <2> DEFINE next == [s \in SUBSET (1..j) |->
                        IF s = {} THEN base ELSE step[<<it[s \ {Max(s)}], Max(s)>>]]
  <2>2. ASSUME NEW s \in SUBSET (1..j), s # {}
        PROVE  Max(s) \in 1..n /\ s \ {Max(s)} \in SUBSET (1..i)
    <3>1. j \in Nat /\ \A x \in 1..j : x \in 1..n /\ (x # j => x \in 1..i)
      BY <1>2
    <3>2. Max(s) \in s /\ \A y \in s : y <= Max(s)
      <4>1. j \in Nat /\ s \in SUBSET (1..j) /\ s # {}
        BY <2>2, <3>1
      <4> HIDE DEF j
      <4> QED BY <4>1, MaxOfPart
    <3>3. ASSUME NEW x \in s \ {Max(s)} PROVE x \in 1..i
      <4>1. x \in 1..j /\ Max(s) \in 1..j /\ x <= Max(s) /\ x # Max(s)
        BY <3>2
      <4> QED BY <1>2, <4>1
    <3> QED BY <3>1, <3>2, <3>3
  <2>3. next \in [SUBSET (1..j) -> V]
    <3> SUFFICES ASSUME NEW s \in SUBSET (1..j), s # {}
                 PROVE  step[<<it[s \ {Max(s)}], Max(s)>>] \in V
      OBVIOUS
    <3> QED BY <2>1, <2>2 DEF IsFold
  <2>4. \A s \in SUBSET (1..i) : s \in SUBSET (1..j) /\ next[s] = it[s]
    <3>1. \A x \in 1..i : x \in 1..j
      BY <1>2
    <3> QED BY <2>1, <3>1 DEF IsFold
  <2>5. ASSUME NEW s \in SUBSET (1..j)
        PROVE  next[s] = IF s = {} THEN base ELSE step[<<next[s \ {Max(s)}], Max(s)>>]
    <3>1. CASE s = {}
      BY <3>1
    <3>2. CASE s # {}
      <4>1. next[s \ {Max(s)}] = it[s \ {Max(s)}]
        BY <2>2, <2>4, <3>2
      <4> QED BY <3>2, <4>1
    <3> QED BY <3>1, <3>2
  <2> HIDE DEF next
  <2>6. IsFold(next, j, V, base, step)
    BY <2>3, <2>5 DEF IsFold
  <2> QED BY <2>6
<1> HIDE DEF Has
<1>3. 0 \in G /\ \A i \in Nat : i \in G => i + 1 \in G
  BY <1>1, <1>2
<1>4. Nat \subseteq G
  <2> HIDE DEF G
  <2> QED BY <1>3, Induction
<1>5. Has(n)
  BY <1>4
<1> QED BY <1>5 DEF Has

\* The values a loop goes through, as a function of the number of turns.
IsLoop(f, n, V, base, step) ==
  /\ f \in [0..n -> V]
  /\ f[0] = base
  /\ \A i \in 1..n : f[i] = step[<<f[i - 1], i>>]

\* A fold goes through the values of a loop.
LEMMA LoopOfFold ==
  ASSUME NEW n \in Nat, NEW V, NEW base, NEW step, NEW it, IsFold(it, n, V, base, step)
  PROVE  IsLoop([i \in 0..n |-> it[1..i]], n, V, base, step)
<1> DEFINE f == [i \in 0..n |-> it[1..i]]
<1>1. \A i \in 0..n : 1..i \in SUBSET (1..n)
  OBVIOUS
<1>2. f \in [0..n -> V]
  BY <1>1 DEF IsFold
<1>3. f[0] = base
  <2>1. 1..0 = {} /\ 0 \in 0..n
    OBVIOUS
  <2> QED BY <1>1, <2>1 DEF IsFold
<1>4. ASSUME NEW i \in 1..n PROVE f[i] = step[<<f[i - 1], i>>]
  <2>1. i \in Nat \ {0} /\ i \in 0..n /\ i - 1 \in 0..n /\ 1..i # {}
    OBVIOUS
  <2>2. Max(1..i) = i /\ (1..i) \ {i} = 1..(i - 1)
    BY <2>1, MaxOfInterval
  <2>3. it[1..i] = step[<<it[(1..i) \ {Max(1..i)}], Max(1..i)>>]
    BY <1>1, <2>1 DEF IsFold
  <2> QED BY <2>1, <2>2, <2>3
<1> HIDE DEF f
<1>5. IsLoop(f, n, V, base, step)
  BY <1>2, <1>3, <1>4 DEF IsLoop
<1> QED BY <1>5 DEF f

\* A loop whose turns stay in a set has such a function.
LEMMA LoopExists ==
  ASSUME NEW n \in Nat, NEW V, NEW base \in V, NEW step \in [V \X (1..n) -> V]
  PROVE  \E f : IsLoop(f, n, V, base, step)
<1>1. PICK it : IsFold(it, n, V, base, step)
  BY FoldExists
<1>2. IsLoop([i \in 0..n |-> it[1..i]], n, V, base, step)
  BY <1>1, LoopOfFold
<1> QED BY <1>2

\* Induction up to a bound.
LEMMA InductionTo ==
  ASSUME NEW n \in Nat, NEW G, 0 \in G, \A i \in 1..n : i - 1 \in G => i \in G
  PROVE  0..n \subseteq G
<1> DEFINE H == {i \in Nat : i <= n => i \in G}
<1>1. 0 \in H
  OBVIOUS
<1>2. ASSUME NEW i \in Nat, i \in H PROVE i + 1 \in H
  <2>1. i + 1 <= n => i + 1 \in 1..n /\ (i + 1) - 1 = i
    OBVIOUS
  <2> QED BY <1>2, <2>1
<1>3. Nat \subseteq H
  <2> HIDE DEF H
  <2> QED BY <1>1, <1>2, Induction
<1> QED BY <1>3

\* A function of an interval is a sequence.
LEMMA IsSequence ==
  ASSUME NEW S, NEW n \in Nat, NEW s \in [1..n -> S]
  PROVE  s \in Seq(S)
BY SeqDef

\* An interval from 1 determines its end.
LEMMA SameInterval == ASSUME NEW m \in Nat, NEW n \in Nat, 1..m = 1..n PROVE m = n
<1>1. m > 0 => m \in 1..n
  OBVIOUS
<1>2. n > 0 => n \in 1..m
  OBVIOUS
<1> QED
  BY <1>1, <1>2

\* A fold whose function satisfies the recursion goes through a loop, as long as each value stays
\* in a set.
LEMMA LoopOfFixpoint ==
  ASSUME NEW n \in Nat, NEW V, NEW base \in V, NEW step \in [V \X (1..n) -> V], NEW it,
         it[{}] = base,
         \A s \in SUBSET (1..n) : s # {} /\ it[s \ {Max(s)}] \in V
                                    => it[s] = step[<<it[s \ {Max(s)}], Max(s)>>]
  PROVE  IsLoop([i \in 0..n |-> it[1..i]], n, V, base, step)
<1> DEFINE f == [i \in 0..n |-> it[1..i]]
           G == {i \in 0..n : f[i] \in V}
<1>1. f[0] = base /\ 0 \in G
  <2>1. 1..0 = {} /\ 0 \in 0..n
    OBVIOUS
  <2> QED BY <2>1
<1>2. ASSUME NEW i \in 1..n, f[i - 1] \in V
      PROVE  f[i] = step[<<f[i - 1], i>>] /\ f[i] \in V
  <2>1. i \in Nat \ {0} /\ i \in 0..n /\ i - 1 \in 0..n /\ i \in 1..i
    OBVIOUS
  <2>2. 1..i \in SUBSET (1..n) /\ 1..i # {}
    BY <2>1
  <2>3. Max(1..i) = i /\ (1..i) \ {i} = 1..(i - 1)
    BY <2>1, MaxOfInterval
  <2>4. it[1..(i - 1)] \in V
    BY <1>2, <2>1
  <2>5. it[1..i] = step[<<it[1..(i - 1)], i>>]
    BY <2>2, <2>3, <2>4
  <2>6. step[<<it[1..(i - 1)], i>>] \in V
    BY <2>4
  <2> QED BY <2>1, <2>5, <2>6
<1>3. \A i \in 1..n : i - 1 \in G => i \in G
  <2> SUFFICES ASSUME NEW i \in 1..n, i - 1 \in G PROVE i \in G
    OBVIOUS
  <2>1. i \in 0..n /\ f[i - 1] \in V
    OBVIOUS
  <2> HIDE DEF f
  <2> QED BY <1>2, <2>1
<1>4. 0..n \subseteq G
  <2> HIDE DEF G
  <2> QED BY <1>1, <1>3, InductionTo
<1>5. \A i \in 0..n : f[i] \in V
  <2> HIDE DEF f
  <2> QED BY <1>4
<1>6. f \in [0..n -> V]
  <2>1. f = [i \in 0..n |-> f[i]]
    OBVIOUS
  <2> HIDE DEF f
  <2> QED BY <1>5, <2>1
<1>7. ASSUME NEW i \in 1..n PROVE f[i] = step[<<f[i - 1], i>>]
  <2>1. i - 1 \in 0..n
    OBVIOUS
  <2> HIDE DEF f
  <2> QED BY <1>2, <1>5, <2>1
<1> HIDE DEF f
<1>8. IsLoop(f, n, V, base, step)
  BY <1>1, <1>6, <1>7 DEF IsLoop
<1> QED BY <1>8 DEF f
=============================================================================
