-------------------------- MODULE ConversationProofs --------------------------
(***************************************************************************)
(* Proofs about Conversation and the detectors it is built from, for every *)
(* script of an author, every answer of the model, every policy, window    *)
(* size, age and length of a card.                                         *)
(*                                                                         *)
(* ConversationInv is inductive.  What the theorems on splits rest on is   *)
(* Remembered: a row of messages that were posted one after the other, are *)
(* as they were posted and not too old, is the end of the window.  So what *)
(* triage looks at ends with every stretch that StandingSplitCaught is     *)
(* about, the digit groups of a stretch are the last ones of what triage   *)
(* looks at, and a card in them is a hit there.                            *)
(*                                                                         *)
(* A masked copy shows no card: the neighbours of a mask are no part of a  *)
(* word, so the digit groups of the copy are groups of the text, and the   *)
(* card rule matches there what it had matched and no finding touched;     *)
(* that had failed the checksum.                                           *)
(***************************************************************************)
EXTENDS Conversation, FoldProofs

-----------------------------------------------------------------------------
(* Picking elements of a sequence (SelectAt). *)

\* What SelectAt has picked after each position.
PicksOf(f, s, at, S) ==
  /\ f \in [0..Len(s) -> Seq(S)]
  /\ f[0] = <<>>
  /\ \A i \in 1..Len(s) : f[i] = IF i \in at THEN Append(f[i - 1], s[i]) ELSE f[i - 1]
  /\ SelectAt(s, at) = f[Len(s)]

\* SelectAt builds what it picks position by position.
LEMMA SelectAtLoop ==
  ASSUME NEW S, NEW s \in Seq(S), NEW at
  PROVE  \E f : PicksOf(f, s, at, S)
<1> DEFINE n == Len(s)
           V == Seq(S)
           step == [x \in V \X (1..n) |-> IF x[2] \in at THEN Append(x[1], s[x[2]]) ELSE x[1]]
           body(f) == [i \in 0..n |-> IF i = 0 THEN <<>>
                                      ELSE IF i \in at THEN Append(f[i - 1], s[i]) ELSE f[i - 1]]
           f0 == CHOOSE f : f = body(f)
<1>1. n \in Nat /\ \A i \in 1..n : s[i] \in S
  OBVIOUS
<1>2. step \in [V \X (1..n) -> V] /\ <<>> \in V
  <2> SUFFICES ASSUME NEW x \in V \X (1..n)
               PROVE  (IF x[2] \in at THEN Append(x[1], s[x[2]]) ELSE x[1]) \in V
    OBVIOUS
  <2>1. x[1] \in V /\ x[2] \in 1..n
    OBVIOUS
  <2>2. s[x[2]] \in S
    BY <1>1, <2>1
  <2> QED BY <2>1, <2>2, AppendProperties
<1>3. PICK f : IsLoop(f, n, V, <<>>, step)
  <2> HIDE DEF n, V, step
  <2>1. n \in Nat /\ <<>> \in V /\ step \in [V \X (1..n) -> V]
    BY <1>1, <1>2
  <2> QED BY <2>1, LoopExists
<1>4. \A i \in 1..n : f[i] = IF i \in at THEN Append(f[i - 1], s[i]) ELSE f[i - 1]
  <2> SUFFICES ASSUME NEW i \in 1..n
               PROVE  f[i] = IF i \in at THEN Append(f[i - 1], s[i]) ELSE f[i - 1]
    OBVIOUS
  <2>1. i - 1 \in 0..n
    BY <1>1
  <2>2. f[i - 1] \in V /\ f[i] = step[<<f[i - 1], i>>]
    BY <1>3, <2>1 DEF IsLoop
  <2> HIDE DEF V, n
  <2> QED BY <2>2
<1>5. f = body(f)
  <2>1. \A i \in 0..n : f[i] = body(f)[i]
    <3> SUFFICES ASSUME NEW i \in 0..n PROVE f[i] = body(f)[i]
      OBVIOUS
    <3>1. CASE i = 0
      BY <1>3, <3>1 DEF IsLoop
    <3>2. CASE i # 0
      <4>1. i \in 1..n
        BY <1>1, <3>2
      <4> QED BY <1>4, <3>2, <4>1
    <3> QED BY <3>1, <3>2
  <2>2. f = [i \in 0..n |-> f[i]]
    BY <1>3 DEF IsLoop
  <2>3. body(f) = [i \in 0..n |-> body(f)[i]]
    OBVIOUS
  <2> HIDE DEF body, n, V, step
  <2> QED BY <2>1, <2>2, <2>3
<1>6. f0 = body(f0)
  <2> HIDE DEF body
  <2> QED BY <1>5
<1>7. SelectAt(s, at) = f0[n]
  BY DEF SelectAt
<1> HIDE DEF f0
<1>8. f0[0] = <<>> /\ \A i \in 1..n : f0[i] = IF i \in at THEN Append(f0[i - 1], s[i]) ELSE f0[i - 1]
  <2>1. 0 \in 0..n /\ \A i \in 1..n : i \in 0..n /\ i # 0
    BY <1>1
  <2>2. \A i \in 0..n : f0[i] = body(f0)[i]
    <3> HIDE DEF body
    <3> QED BY <1>6
  <2> HIDE DEF n
  <2> QED BY <2>1, <2>2
<1>9. f0 \in [0..n -> V]
  <2> DEFINE G == {i \in 0..n : f0[i] \in V}
  <2>1. 0 \in G
    <3>1. 0 \in 0..n /\ f0[0] \in V
      BY <1>1, <1>2, <1>8
    <3> QED BY <3>1
  <2>2. ASSUME NEW i \in 1..n, i - 1 \in G PROVE i \in G
    <3>1. f0[i - 1] \in V /\ s[i] \in S /\ i \in 0..n
      BY <1>1, <2>2
    <3>2. Append(f0[i - 1], s[i]) \in V
      BY <3>1, AppendProperties
    <3> HIDE DEF V, n
    <3> QED BY <1>8, <3>1, <3>2
  <2>3. 0..n \subseteq G
    <3> HIDE DEF G, n
    <3> QED BY <1>1, <2>1, <2>2, InductionTo
  <2>4. f0 = [i \in 0..n |-> f0[i]]
    <3>1. body(f0) = [i \in 0..n |-> body(f0)[i]]
      OBVIOUS
    <3> HIDE DEF body
    <3> QED BY <1>6, <3>1
  <2> HIDE DEF V, n
  <2> QED BY <2>3, <2>4
<1> QED BY <1>7, <1>8, <1>9 DEF PicksOf

\* What is selected is part of the sequence, in its order.
SelectedBy(g, r, s, at) ==
  /\ g \in [1..Len(r) -> 1..Len(s)]
  /\ \A k \in 1..Len(r) : g[k] \in at /\ r[k] = s[g[k]]
  /\ \A j, k \in 1..Len(r) : j < k => g[j] < g[k]

\* What SelectAt picks are elements at chosen positions, in their order.
LEMMA SelectAtKeepsOrder ==
  ASSUME NEW S, NEW s \in Seq(S), NEW at
  PROVE  LET r == SelectAt(s, at)
         IN  r \in Seq(S) /\ Len(r) <= Len(s) /\ \E g : SelectedBy(g, r, s, at)
<1> DEFINE n == Len(s)
<1>0. n \in Nat /\ \A i \in 1..n : s[i] \in S
  OBVIOUS
<1>1. PICK f : PicksOf(f, s, at, S)
  BY SelectAtLoop
<1> DEFINE Part(g, i) == /\ g \in [1..Len(f[i]) -> 1..i]
                         /\ \A k \in 1..Len(f[i]) : g[k] \in at /\ f[i][k] = s[g[k]]
                         /\ \A j, k \in 1..Len(f[i]) : j < k => g[j] < g[k]
           G == {i \in 0..n : Len(f[i]) <= i /\ \E g : Part(g, i)}
<1>2. 0 \in G
  <2>1. f[0] = <<>> /\ Len(f[0]) = 0 /\ 1..0 = {}
    BY <1>1 DEF PicksOf
  <2>2. Part([k \in 1..0 |-> 0], 0)
    BY <2>1
  <2> HIDE DEF Part
  <2> QED BY <1>0, <2>1, <2>2
<1>3. ASSUME NEW i \in 1..n, i - 1 \in G PROVE i \in G
  <2>0. i \in 0..n /\ i - 1 \in 0..n /\ i \in Nat \ {0}
    BY <1>0
  <2>1. i \in 0..n /\ i - 1 \in 0..n /\ i \in Nat \ {0} /\ f[i] \in Seq(S) /\ f[i - 1] \in Seq(S)
    BY <1>1, <2>0 DEF PicksOf
  <2>2. PICK g : Part(g, i - 1)
    BY <1>3
  <2>3. CASE i \notin at
    <3>1. f[i] = f[i - 1]
      BY <1>1, <2>3 DEF PicksOf
    <3>2. Part(g, i)
      BY <2>1, <2>2, <3>1
    <3> HIDE DEF Part
    <3> QED BY <1>3, <2>1, <3>1, <3>2
  <2>4. CASE i \in at
    <3> DEFINE l == Len(f[i - 1])
               h == [k \in 1..l + 1 |-> IF k = l + 1 THEN i ELSE g[k]]
    <3>1. f[i] = Append(f[i - 1], s[i]) /\ s[i] \in S
      BY <1>0, <1>1, <2>4 DEF PicksOf
    <3>2. l \in Nat /\ Len(f[i]) = l + 1 /\ f[i][l + 1] = s[i]
          /\ \A k \in 1..l : f[i][k] = f[i - 1][k]
      BY <2>1, <3>1, AppendProperties
    <3>3. h \in [1..l + 1 -> 1..i]
      <4> SUFFICES ASSUME NEW k \in 1..l + 1, k # l + 1 PROVE g[k] \in 1..i
        BY <2>1
      <4>1. k \in 1..l
        BY <3>2
      <4>2. g[k] \in 1..i - 1
        BY <2>2, <4>1
      <4> QED BY <2>1, <4>2
    <3>4. ASSUME NEW k \in 1..l + 1 PROVE h[k] \in at /\ f[i][k] = s[h[k]]
      <4>1. CASE k = l + 1
        BY <2>4, <3>2, <4>1
      <4>2. CASE k # l + 1
        <5>1. k \in 1..l
          BY <3>2, <4>2
        <5> QED BY <2>2, <3>2, <4>2, <5>1
      <4> QED BY <4>1, <4>2
    <3>5. ASSUME NEW j \in 1..l + 1, NEW k \in 1..l + 1, j < k PROVE h[j] < h[k]
      <4>0. j \in 1..l /\ j # l + 1
        BY <3>2, <3>5
      <4>1. j \in 1..l /\ h[j] = g[j] /\ g[j] \in 1..i - 1
        BY <2>2, <4>0
      <4>2. CASE k = l + 1
        BY <2>1, <4>1, <4>2
      <4>3. CASE k # l + 1
        <5>1. k \in 1..l
          BY <3>2, <4>3
        <5> QED BY <2>2, <3>5, <4>1, <4>3, <5>1
      <4> QED BY <4>2, <4>3
    <3> HIDE DEF h
    <3>6. Part(h, i)
      BY <3>2, <3>3, <3>4, <3>5
    <3>7. Len(f[i]) <= i
      BY <1>3, <2>1, <3>2
    <3> HIDE DEF Part
    <3> QED BY <2>1, <3>6, <3>7
  <2> QED BY <2>3, <2>4
<1>4. n \in G
  <2>1. 0..n \subseteq G
    <3> HIDE DEF G, n
    <3> QED BY <1>0, <1>2, <1>3, InductionTo
  <2>2. n \in 0..n
    BY <1>0
  <2> HIDE DEF G
  <2> QED BY <2>1, <2>2
<1>5. SelectAt(s, at) = f[n] /\ f[n] \in Seq(S)
  <2>1. n \in 0..n
    BY <1>0
  <2> QED BY <1>1, <2>1 DEF PicksOf
<1> QED BY <1>4, <1>5 DEF SelectedBy

\* If all from one position on are selected, the selection ends with them.
LEMMA SelectAtEnd ==
  ASSUME NEW S, NEW s \in Seq(S), NEW at, NEW m \in 0..Len(s), (m + 1..Len(s)) \subseteq at
  PROVE  LET r == SelectAt(s, at)
         IN  /\ Len(s) - m <= Len(r)
             /\ \A k \in m + 1..Len(s) : r[Len(r) - (Len(s) - k)] = s[k]
<1> DEFINE n == Len(s)
<1>0. n \in Nat /\ m \in Nat /\ m <= n /\ \A i \in 1..n : s[i] \in S
  OBVIOUS
<1>1. PICK f : PicksOf(f, s, at, S)
  BY SelectAtLoop
<1> DEFINE Ended(i) == /\ i - m <= Len(f[i])
                       /\ \A k \in m + 1..i : f[i][Len(f[i]) - (i - k)] = s[k]
           G == {i \in 0..n : i >= m => Ended(i)}
<1>2. \A i \in 0..n : f[i] \in Seq(S) /\ Len(f[i]) \in Nat
  BY <1>1 DEF PicksOf
<1>3. \A i \in 0..m : i \in G
  BY <1>0, <1>2
<1>4. ASSUME NEW i \in 1..n, i - 1 \in G PROVE i \in G
  <2>1. CASE i <= m
    BY <1>3, <2>1
  <2>2. CASE i > m
    <3>1. i - 1 >= m /\ Ended(i - 1) /\ i \in at /\ i \in 0..n /\ i - 1 \in 0..n /\ i \in Nat
      BY <1>0, <1>4, <2>2
    <3> DEFINE l == Len(f[i - 1])
    <3>2. f[i] = Append(f[i - 1], s[i]) /\ s[i] \in S /\ f[i - 1] \in Seq(S)
      BY <1>0, <1>1, <1>2, <3>1 DEF PicksOf
    <3>3. l \in Nat /\ Len(f[i]) = l + 1 /\ f[i][l + 1] = s[i]
          /\ \A k \in 1..l : f[i][k] = f[i - 1][k]
      BY <3>2, AppendProperties
    <3>4. i - m <= Len(f[i])
      BY <1>0, <3>1, <3>3
    <3>5. ASSUME NEW k \in m + 1..i PROVE f[i][Len(f[i]) - (i - k)] = s[k]
      <4>1. CASE k = i
        <5>1. Len(f[i]) - (i - k) = l + 1
          BY <3>1, <3>3, <4>1
        <5> QED BY <3>3, <4>1, <5>1
      <4>2. CASE k # i
        <5>1. k \in m + 1..i - 1 /\ k \in Nat
          BY <1>0, <4>2
        <5>2. f[i - 1][l - (i - 1 - k)] = s[k]
          BY <3>1, <5>1
        <5>3. Len(f[i]) - (i - k) = l - (i - 1 - k) /\ l - (i - 1 - k) \in 1..l
          BY <1>0, <3>1, <3>3, <5>1
        <5> QED BY <3>3, <5>2, <5>3
      <4> QED BY <4>1, <4>2
    <3>6. Ended(i)
      BY <3>4, <3>5
    <3> HIDE DEF Ended
    <3> QED BY <3>1, <3>6
  <2> QED BY <1>0, <2>1, <2>2
<1>5. n \in G
  <2>1. 0 \in G
    BY <1>0, <1>3
  <2>2. 0..n \subseteq G
    <3> HIDE DEF G, n
    <3> QED BY <1>0, <1>4, <2>1, InductionTo
  <2>3. n \in 0..n
    BY <1>0
  <2> HIDE DEF G
  <2> QED BY <2>2, <2>3
<1>6. SelectAt(s, at) = f[n]
  BY <1>1 DEF PicksOf
<1> QED BY <1>0, <1>5, <1>6

\* If all are selected, nothing changes.
LEMMA SelectAtAll ==
  ASSUME NEW S, NEW s \in Seq(S), NEW at, 1..Len(s) \subseteq at PROVE SelectAt(s, at) = s
<1> DEFINE r == SelectAt(s, at)
<1>1. r \in Seq(S) /\ Len(r) <= Len(s)
  BY SelectAtKeepsOrder
<1>2. Len(s) - 0 <= Len(r) /\ \A k \in 0 + 1..Len(s) : r[Len(r) - (Len(s) - k)] = s[k]
  <2>1. 0 \in 0..Len(s) /\ (0 + 1..Len(s)) \subseteq at
    OBVIOUS
  <2> QED BY <2>1, SelectAtEnd
<1> HIDE DEF r
<1>3. Len(r) = Len(s) /\ \A k \in 1..Len(s) : r[k] = s[k]
  <2>1. Len(r) = Len(s)
    BY <1>1, <1>2
  <2>2. \A k \in 1..Len(s) : Len(r) - (Len(s) - k) = k
    BY <2>1
  <2> QED BY <1>2, <2>1, <2>2
<1>4. r = s
  BY <1>1, <1>3, SeqEqual
<1> QED BY <1>4 DEF r

-----------------------------------------------------------------------------
(* Normalize: the passes of _leet. *)

\* The two passes: in each a token that is shaped like a number is anchored by a real digit of
\* its own or by the token before it, seen from where the pass begins.
IsAhead(f, n, sh, re) ==
  f = [i \in 0..n |-> i > 0 /\ i \in sh /\ (i \in re \/ f[i - 1])]
LinkedUp(i, sh, re) == \E a \in 1..i : a \in re /\ a..i \subseteq sh
LinkedDown(i, n, sh, re) == \E c \in i..n : LinkedUp(c, sh, re) /\ i..c \subseteq sh

\* The forward pass of _leet is defined, and finds what is linked to a real digit before it.
LEMMA AheadExists ==
  ASSUME NEW n \in Nat, NEW sh, NEW re
  PROVE  IsAhead([i \in 0..n |-> LinkedUp(i, sh, re)], n, sh, re)
<1> DEFINE f == [i \in 0..n |-> LinkedUp(i, sh, re)]
<1>1. ASSUME NEW i \in 0..n
      PROVE  LinkedUp(i, sh, re) <=> (i > 0 /\ i \in sh /\ (i \in re \/ f[i - 1]))
  <2>1. CASE i = 0
    BY <2>1 DEF LinkedUp
  <2>2. CASE i # 0
    <3>1. i \in Nat \ {0} /\ i - 1 \in 0..n /\ f[i - 1] = LinkedUp(i - 1, sh, re)
      BY <2>2
    <3>2. ASSUME LinkedUp(i, sh, re) PROVE i \in sh /\ (i \in re \/ LinkedUp(i - 1, sh, re))
      <4>1. PICK a \in 1..i : a \in re /\ a..i \subseteq sh
        BY <3>2 DEF LinkedUp
      <4>2. i \in a..i /\ i \in sh
        BY <3>1, <4>1
      <4>3. CASE a # i
        <5>1. a \in 1..i - 1 /\ a..i - 1 \subseteq a..i
          BY <3>1, <4>3
        <5> QED BY <4>1, <4>2, <5>1 DEF LinkedUp
      <4> QED BY <4>1, <4>2, <4>3
    <3>3. ASSUME i \in sh, i \in re PROVE LinkedUp(i, sh, re)
      <4>1. i \in 1..i /\ \A k \in i..i : k = i
        BY <3>1
      <4>2. i..i \subseteq sh
        BY <3>3, <4>1
      <4> QED BY <3>3, <4>1, <4>2 DEF LinkedUp
    <3>4. ASSUME i \in sh, LinkedUp(i - 1, sh, re) PROVE LinkedUp(i, sh, re)
      <4>1. PICK a \in 1..i - 1 : a \in re /\ a..i - 1 \subseteq sh
        BY <3>4 DEF LinkedUp
      <4>2. a \in 1..i /\ \A k \in a..i : k = i \/ k \in a..i - 1
        BY <3>1
      <4>3. a..i \subseteq sh
        BY <3>4, <4>1, <4>2
      <4> QED BY <4>1, <4>2, <4>3 DEF LinkedUp
    <3> QED BY <3>1, <3>2, <3>3, <3>4
  <2> QED BY <2>1, <2>2
<1>2. f = [i \in 0..n |-> i > 0 /\ i \in sh /\ (i \in re \/ f[i - 1])]
  <2>1. LinkedUp(0, sh, re) \in BOOLEAN
    BY DEF LinkedUp
  <2> DEFINE g == [i \in 0..n |-> i > 0 /\ i \in sh /\ (i \in re \/ f[i - 1])]
  <2>2. \A i \in 0..n : f[i] \in BOOLEAN /\ g[i] \in BOOLEAN /\ (f[i] <=> g[i])
    BY <1>1 DEF LinkedUp
  <2>3. \A i \in 0..n : f[i] = g[i]
    BY <2>2
  <2> QED BY <2>3
<1> QED BY <1>2 DEF IsAhead

\* There is only one such function, as the first pass goes.
LEMMA AheadIs ==
  ASSUME NEW n \in Nat, NEW sh, NEW re, NEW f, IsAhead(f, n, sh, re)
  PROVE  \A i \in 0..n : f[i] <=> LinkedUp(i, sh, re)
<1> DEFINE g == [i \in 0..n |-> LinkedUp(i, sh, re)]
           G == {i \in 0..n : f[i] <=> g[i]}
<1>1. \A i \in 0..n : f[i] = (i > 0 /\ i \in sh /\ (i \in re \/ f[i - 1]))
  <2> DEFINE h == [i \in 0..n |-> i > 0 /\ i \in sh /\ (i \in re \/ f[i - 1])]
  <2>1. f = h
    BY DEF IsAhead
  <2>2. \A i \in 0..n : h[i] = (i > 0 /\ i \in sh /\ (i \in re \/ f[i - 1]))
    OBVIOUS
  <2> HIDE DEF h
  <2> QED BY <2>1, <2>2
<1>2. \A i \in 0..n : g[i] = (i > 0 /\ i \in sh /\ (i \in re \/ g[i - 1]))
  <2> DEFINE h == [i \in 0..n |-> i > 0 /\ i \in sh /\ (i \in re \/ g[i - 1])]
  <2>1. g = h
    BY AheadExists DEF IsAhead
  <2>2. \A i \in 0..n : h[i] = (i > 0 /\ i \in sh /\ (i \in re \/ g[i - 1]))
    <3> HIDE DEF g
    <3> QED OBVIOUS
  <2> HIDE DEF h, g
  <2> QED BY <2>1, <2>2
<1>3. 0 \in G
  <2>1. 0 \in 0..n
    OBVIOUS
  <2>2. ~ f[0] /\ ~ g[0]
    <3>1. ~ (0 > 0)
      OBVIOUS
    <3> HIDE DEF g
    <3> QED BY <1>1, <1>2, <2>1, <3>1, Zenon
  <2> HIDE DEF g
  <2> QED BY <2>1, <2>2
<1>4. ASSUME NEW i \in 1..n, i - 1 \in G PROVE i \in G
  <2>1. i \in 0..n /\ i > 0
    OBVIOUS
  <2> HIDE DEF g
  <2> QED BY <1>1, <1>2, <1>4, <2>1
<1>5. 0..n \subseteq G
  <2> HIDE DEF G
  <2> QED BY <1>3, <1>4, InductionTo
<1>6. \A i \in 0..n : g[i] = LinkedUp(i, sh, re)
  OBVIOUS
<1> HIDE DEF g
<1> QED BY <1>5, <1>6

\* A token is linked to an anchored one after it, or is one, if it has the shape and the next
\* one is, or it is anchored by the first pass.
LEMMA DownStep ==
  ASSUME NEW n \in Nat, NEW sh, NEW re, NEW i \in 1..n
  PROVE  LinkedDown(i, n, sh, re)
         <=> (i \in sh /\ (LinkedUp(i, sh, re) \/ LinkedDown(i + 1, n, sh, re)))
<1> DEFINE D(j) == LinkedDown(j, n, sh, re)
<1>0. i \in 1..n /\ i \in Nat
  OBVIOUS
<1>1. ASSUME D(i) PROVE i \in sh /\ (LinkedUp(i, sh, re) \/ D(i + 1))
  <2>1. PICK c \in i..n : LinkedUp(c, sh, re) /\ i..c \subseteq sh
    BY <1>1 DEF LinkedDown
  <2>2. i \in i..c
    BY <1>0, <2>1
  <2>3. CASE c # i
    <3>1. c \in i + 1..n /\ i + 1..c \subseteq i..c
      BY <1>0, <2>3
    <3> QED BY <2>1, <2>2, <3>1 DEF LinkedDown
  <2> QED BY <2>1, <2>2, <2>3
<1>2. ASSUME i \in sh, LinkedUp(i, sh, re) PROVE D(i)
  <2>1. i \in i..n /\ \A k \in i..i : k = i
    BY <1>0
  <2>2. i..i \subseteq sh
    BY <1>2, <2>1
  <2> QED BY <1>2, <2>1, <2>2 DEF LinkedDown
<1>3. ASSUME i \in sh, D(i + 1) PROVE D(i)
  <2>1. PICK c \in i + 1..n : LinkedUp(c, sh, re) /\ i + 1..c \subseteq sh
    BY <1>3 DEF LinkedDown
  <2>2. c \in i..n /\ \A k \in i..c : k = i \/ k \in i + 1..c
    BY <1>0
  <2>3. i..c \subseteq sh
    BY <1>3, <2>1, <2>2
  <2> QED BY <2>1, <2>2, <2>3 DEF LinkedDown
<1> HIDE DEF D
<1>4. D(i) <=> (i \in sh /\ (LinkedUp(i, sh, re) \/ D(i + 1)))
  BY <1>1, <1>2, <1>3
<1> QED BY <1>4 DEF D

\* Nor as the second goes, which begins at the end.
LEMMA BackIs ==
  ASSUME NEW n \in Nat, NEW sh, NEW re, NEW ahead, \A i \in 0..n : ahead[i] <=> LinkedUp(i, sh, re),
         NEW f, f = [i \in 1..n + 1 |-> f[i]],
         \A i \in 1..n + 1 : f[i] <=> (i <= n /\ i \in sh /\ (ahead[i] \/ f[i + 1]))
  PROVE  \A i \in 1..n : f[i] <=> LinkedDown(i, n, sh, re)
<1> DEFINE D(i) == LinkedDown(i, n, sh, re)
           G == {j \in 0..n : f[n + 1 - j] <=> D(n + 1 - j)}
<1>1. 0 \in G
  <2>1. n + 1 - 0 = n + 1 /\ n + 1 \in 1..n + 1 /\ ~ (n + 1 <= n) /\ n + 1..n = {}
    OBVIOUS
  <2>2. ~ f[n + 1] /\ ~ D(n + 1)
    BY <2>1 DEF LinkedDown
  <2> HIDE DEF D
  <2> QED BY <2>1, <2>2
<1>2. ASSUME NEW j \in 1..n, j - 1 \in G PROVE j \in G
  <2> DEFINE i == n + 1 - j
  <2>1. i \in 1..n /\ i \in 1..n + 1 /\ i <= n /\ n + 1 - (j - 1) = i + 1
    OBVIOUS
  <2>2. f[i + 1] <=> D(i + 1)
    BY <1>2, <2>1
  <2>3. f[i] <=> (i \in sh /\ (LinkedUp(i, sh, re) \/ D(i + 1)))
    <3> HIDE DEF i, D
    <3>1. i \in 0..n
      BY <2>1
    <3> QED BY <2>1, <2>2, <3>1
  <2> HIDE DEF i
  <2>7. f[i] <=> D(i)
    <3>1. D(i) <=> (i \in sh /\ (LinkedUp(i, sh, re) \/ D(i + 1)))
      BY <2>1, DownStep
    <3> HIDE DEF D
    <3> QED BY <2>3, <3>1
  <2> HIDE DEF D
  <2> QED BY <2>7 DEF i
<1>3. 0..n \subseteq G
  <2> HIDE DEF G
  <2> QED BY <1>1, <1>2, InductionTo
<1>4. ASSUME NEW i \in 1..n PROVE f[i] <=> D(i)
  <2>1. n + 1 - i \in 0..n /\ n + 1 - (n + 1 - i) = i
    OBVIOUS
  <2> HIDE DEF D
  <2> QED BY <1>3, <2>1
<1> QED BY <1>4

\* What lies between blanks is a sequence.
LEMMA TokensAreSequence ==
  ASSUME NEW t \in Seq(Pieces)
  PROVE  \E n \in Nat : Len(TokensOf(t)) = n /\ DOMAIN TokensOf(t) = 1..n
<1> DEFINE at == [i \in DOMAIN t |-> i]
           first == SelectAt(at, Starts(t))
           last == SelectAt(at, Ends(t))
           tok == [k \in DOMAIN first |-> <<first[k], last[k]>>]
           S == {<<first[k], last[k]>> : k \in DOMAIN first}
<1>1. at \in Seq(Nat)
  <2>1. Len(t) \in Nat /\ at \in [1..Len(t) -> Nat]
    OBVIOUS
  <2> HIDE DEF at
  <2> QED BY <2>1, SeqDef
<1>2. first \in Seq(Nat)
  <2> HIDE DEF at
  <2> QED BY <1>1, SelectAtKeepsOrder
<1> HIDE DEF first, last
<1>3. Len(first) \in Nat /\ DOMAIN first = 1..Len(first)
  BY <1>2
<1>4. tok \in [1..Len(first) -> S]
  BY <1>3
<1>5. TokensOf(t) = tok
  BY DEF TokensOf, first, last
<1> HIDE DEF tok, S
<1>6. tok \in Seq(S)
  BY <1>3, <1>4, SeqDef
<1>7. DOMAIN tok = 1..Len(tok) /\ Len(tok) \in Nat /\ DOMAIN tok = 1..Len(first)
  BY <1>4, <1>6
<1>8. Len(tok) = Len(first)
  <2> DEFINE n == Len(tok)
             m == Len(first)
  <2>1. n \in Nat /\ m \in Nat /\ 1..n = 1..m
    BY <1>3, <1>7
  <2> HIDE DEF n, m
  <2>2. n = m
    BY <2>1, SameInterval
  <2> QED BY <2>2 DEF n, m
<1> QED BY <1>3, <1>5, <1>7, <1>8

\* README.md:75: the two passes anchor exactly the tokens that stand in a row of tokens shaped
\* like numbers with a real digit somewhere in it, on either side.
LEMMA PassesAnchorRows ==
  ASSUME NEW t \in Seq(Pieces) PROVE Anchored(t) = AnchoredByRow(t)
<1> DEFINE toks == TokensOf(t)
           n == Len(toks)
           sh == {i \in 1..n : Shaped(t, toks[i])}
           re == {i \in 1..n : Real(t, toks[i])}
           aheadOf(f) == [i \in 0..n |-> i > 0 /\ Shaped(t, toks[i]) /\ (Real(t, toks[i]) \/ f[i - 1])]
           ahead == CHOOSE f : f = aheadOf(f)
           backOf(f) == [i \in 1..n + 1 |-> i <= n /\ Shaped(t, toks[i]) /\ (ahead[i] \/ f[i + 1])]
           back == CHOOSE f : f = backOf(f)
<1>1. n \in Nat /\ DOMAIN toks = 1..n
  BY TokensAreSequence
<1> HIDE DEF toks
<1>2. re \subseteq sh
  BY DEF Real
<1>3. \A f : aheadOf(f) = [i \in 0..n |-> i > 0 /\ i \in sh /\ (i \in re \/ f[i - 1])]
  <2> SUFFICES ASSUME NEW f, NEW i \in 0..n
               PROVE  (i > 0 /\ Shaped(t, toks[i]) /\ (Real(t, toks[i]) \/ f[i - 1]))
                      = (i > 0 /\ i \in sh /\ (i \in re \/ f[i - 1]))
    OBVIOUS
  <2>1. CASE i = 0
    <3>1. ~ (i > 0)
      BY <2>1
    <3> QED BY <3>1, Zenon
  <2>2. CASE i # 0
    <3>1. i \in 1..n
      BY <1>1, <2>2
    <3>2. (i \in sh <=> Shaped(t, toks[i])) /\ (i \in re <=> Real(t, toks[i]))
      BY <3>1
    <3> HIDE DEF sh, re
    <3> QED BY <3>2, Zenon
  <2> QED BY <2>1, <2>2
<1>4. IsAhead(ahead, n, sh, re)
  <2>1. \E f : f = aheadOf(f)
    <3>1. IsAhead([i \in 0..n |-> LinkedUp(i, sh, re)], n, sh, re)
      <4> HIDE DEF n, sh, re
      <4> QED BY <1>1, AheadExists
    <3>2. PICK f : IsAhead(f, n, sh, re)
      BY <3>1
    <3>3. f = aheadOf(f)
      <4> HIDE DEF aheadOf, n, sh, re
      <4> QED BY <1>3, <3>2 DEF IsAhead
    <3> QED BY <3>3
  <2>2. ahead = aheadOf(ahead)
    <3> HIDE DEF aheadOf
    <3> QED BY <2>1
  <2> HIDE DEF ahead, aheadOf, n, sh, re
  <2> QED BY <1>3, <2>2 DEF IsAhead
<1>5. \A i \in 0..n : ahead[i] <=> LinkedUp(i, sh, re)
  <2> HIDE DEF ahead, n, sh, re
  <2> QED BY <1>1, <1>4, AheadIs
<1> HIDE DEF ahead
<1>6. back = backOf(back)
  <2> DEFINE f == [i \in 1..n + 1 |-> LinkedDown(i, n, sh, re)]
  <2>1. ASSUME NEW i \in 1..n + 1 PROVE f[i] = backOf(f)[i]
    <3>1. CASE i = n + 1
      <4>1. ~ (i <= n) /\ i..n = {} /\ f[i] = LinkedDown(i, n, sh, re)
        BY <1>1, <3>1
      <4>2. ~ LinkedDown(i, n, sh, re) /\ LinkedDown(i, n, sh, re) = FALSE
        BY <4>1 DEF LinkedDown
      <4>3. backOf(f)[i] = (i <= n /\ Shaped(t, toks[i]) /\ (ahead[i] \/ f[i + 1]))
        <5> HIDE DEF f
        <5> QED OBVIOUS
      <4> HIDE DEF f, backOf
      <4> QED BY <4>1, <4>2, <4>3, Zenon
    <3>2. CASE i # n + 1
      <4>1. i \in 1..n /\ i <= n /\ i \in 0..n /\ i + 1 \in 1..n + 1
        BY <1>1, <3>2
      <4>2. f[i] = LinkedDown(i, n, sh, re) /\ f[i + 1] = LinkedDown(i + 1, n, sh, re)
        BY <4>1
      <4>3. backOf(f)[i] = (i <= n /\ Shaped(t, toks[i]) /\ (ahead[i] \/ f[i + 1]))
        <5> HIDE DEF f
        <5> QED OBVIOUS
      <4>4. i \in sh <=> Shaped(t, toks[i])
        BY <4>1
      <4>5. LinkedDown(i, n, sh, re)
            <=> (i \in sh /\ (LinkedUp(i, sh, re) \/ LinkedDown(i + 1, n, sh, re)))
        <5> HIDE DEF sh, re, n
        <5> QED BY <1>1, <4>1, DownStep
      <4>6. LinkedDown(i, n, sh, re) \in BOOLEAN
        BY DEF LinkedDown
      <4>7. LinkedDown(i, n, sh, re)
            <=> (i <= n /\ Shaped(t, toks[i]) /\ (ahead[i] \/ f[i + 1]))
        <5> HIDE DEF f, sh, re, backOf
        <5> QED BY <1>5, <4>1, <4>2, <4>4, <4>5
      <4> HIDE DEF f, sh, re, backOf
      <4> QED BY <4>2, <4>3, <4>6, <4>7, Zenon
    <3> QED BY <3>1, <3>2
  <2>2. f = backOf(f)
    <3>1. f = [i \in 1..n + 1 |-> f[i]] /\ backOf(f) = [i \in 1..n + 1 |-> backOf(f)[i]]
      OBVIOUS
    <3> HIDE DEF f, backOf
    <3> QED BY <2>1, <3>1
  <2> HIDE DEF f, backOf
  <2> QED BY <2>2
<1> HIDE DEF back
<1>7. ASSUME NEW i \in 1..n PROVE back[i] <=> LinkedDown(i, n, sh, re)
  <2>1. back = [j \in 1..n + 1 |-> back[j]]
    <3>1. backOf(back) = [j \in 1..n + 1 |-> backOf(back)[j]]
      OBVIOUS
    <3> HIDE DEF backOf
    <3> QED BY <1>6, <3>1
  <2>2. ASSUME NEW j \in 1..n + 1
        PROVE  back[j] <=> (j <= n /\ j \in sh /\ (ahead[j] \/ back[j + 1]))
    <3>1. backOf(back)[j] = (j <= n /\ Shaped(t, toks[j]) /\ (ahead[j] \/ back[j + 1]))
      OBVIOUS
    <3>2. j <= n => (j \in sh <=> Shaped(t, toks[j]))
      BY <1>1
    <3> HIDE DEF backOf, sh, re
    <3> QED BY <1>6, <3>1, <3>2, Zenon
  <2> HIDE DEF n, sh, re, backOf
  <2> QED BY <1>1, <1>5, <2>1, <2>2, BackIs
<1>8. Anchored(t) = {i \in 1..n : back[i]}
  BY <1>1 DEF Anchored, back, ahead, toks
<1>9. AnchoredByRow(t) =
        {i \in 1..n : \E a, b \in 1..n : a <= i /\ i <= b /\ a..b \subseteq sh /\ \E k \in a..b : k \in re}
  <2>1. ASSUME NEW a \in 1..n, NEW b \in 1..n
        PROVE  /\ (\A k \in a..b : Shaped(t, toks[k])) <=> a..b \subseteq sh
               /\ (\E k \in a..b : Real(t, toks[k])) <=> \E k \in a..b : k \in re
    <3>1. \A k \in a..b : k \in 1..n
      BY <1>1
    <3> QED BY <3>1
  <2> HIDE DEF sh, re, n
  <2>2. AnchoredByRow(t) =
          {i \in 1..n : \E a, b \in 1..n : a <= i /\ i <= b /\ (\A k \in a..b : Shaped(t, toks[k]))
                                         /\ \E k \in a..b : Real(t, toks[k])}
    BY <1>1, Zenon DEF AnchoredByRow, toks
  <2> QED BY <2>1, <2>2
<1>10. ASSUME NEW i \in 1..n
       PROVE  LinkedDown(i, n, sh, re)
              <=> \E a, b \in 1..n : a <= i /\ i <= b /\ a..b \subseteq sh /\ \E k \in a..b : k \in re
  <2> HIDE DEF sh, re, n
  <2>1. ASSUME LinkedDown(i, n, sh, re)
        PROVE  \E a, b \in 1..n : a <= i /\ i <= b /\ a..b \subseteq sh /\ \E k \in a..b : k \in re
    <3>1. PICK c \in i..n : LinkedUp(c, sh, re) /\ i..c \subseteq sh
      BY <2>1 DEF LinkedDown
    <3>2. PICK k \in 1..c : k \in re /\ k..c \subseteq sh
      BY <3>1 DEF LinkedUp
    <3>3. c \in 1..n /\ k \in 1..n
      BY <1>1, <3>1, <3>2
    <3>4. CASE k <= i
      <4>1. k \in k..c
        BY <3>1, <3>2
      <4> QED BY <3>1, <3>2, <3>3, <3>4, <4>1
    <3>5. CASE ~ (k <= i)
      <4>1. k \in i..c
        BY <3>2, <3>5
      <4> QED BY <3>1, <3>2, <3>3, <4>1
    <3> QED BY <3>4, <3>5
  <2>2. ASSUME NEW a \in 1..n, NEW b \in 1..n, a <= i, i <= b, a..b \subseteq sh,
               NEW k \in a..b, k \in re
        PROVE  LinkedDown(i, n, sh, re)
    <3>1. CASE k <= i
      <4>1. k \in 1..i /\ i \in i..n /\ (\A j \in k..i : j \in a..b) /\ \A j \in i..i : j \in a..b
        BY <1>1, <2>2, <3>1
      <4>2. LinkedUp(i, sh, re)
        BY <2>2, <4>1 DEF LinkedUp
      <4> QED BY <2>2, <4>1, <4>2 DEF LinkedDown
    <3>2. CASE ~ (k <= i)
      <4>1. k \in i..n /\ k \in 1..k /\ (\A j \in i..k : j \in a..b) /\ \A j \in k..k : j \in a..b
        BY <1>1, <2>2, <3>2
      <4>2. LinkedUp(k, sh, re)
        BY <2>2, <4>1 DEF LinkedUp
      <4> QED BY <2>2, <4>1, <4>2 DEF LinkedDown
    <3> QED BY <3>1, <3>2
  <2> QED BY <2>1, <2>2
<1> HIDE DEF n, sh, re
<1> QED BY <1>7, <1>8, <1>9, <1>10

-----------------------------------------------------------------------------
(* Tier0: the checksum. *)

\* What a digit adds to the checksum.
LuhnDigit(d, i) == IF (Len(d) - i) % 2 = 1 THEN Doubled(d[i]) ELSE d[i]

\* It is a digit again.
LEMMA DigitAdds ==
  ASSUME NEW d \in Seq(0..9), NEW i \in DOMAIN d
  PROVE  LuhnDigit(d, i) \in 0..9
<1>1. d[i] \in 0..9
  OBVIOUS
<1> DEFINE x == d[i]
<1>2. x \in 0..9
  BY <1>1
<1> HIDE DEF x
<1>3. Doubled(x) \in 0..9
  BY <1>2 DEF Doubled
<1> QED BY <1>2, <1>3 DEF LuhnDigit, x

\* Of two digits in the same place each adds something else.
LEMMA DigitsAddApart ==
  ASSUME NEW x \in 0..9, NEW y \in 0..9, x # y
  PROVE  Doubled(x) # Doubled(y)
BY DEF Doubled

\* The checksum is taken digit by digit.
LEMMA LuhnLoop ==
  ASSUME NEW d \in Seq(0..9)
  PROVE  \E f \in [0..Len(d) -> Nat] :
           /\ f[0] = 0
           /\ \A i \in 1..Len(d) : f[i] = f[i - 1] + LuhnDigit(d, i)
           /\ Luhn(d) <=> f[Len(d)] % 10 = 0
<1> DEFINE n == Len(d)
           op(m, i) == m + IF (Len(d) - i) % 2 = 1 THEN Doubled(d[i]) ELSE d[i]
           at == [i \in DOMAIN d |-> i]
           step == [x \in Nat \X (1..n) |-> x[1] + LuhnDigit(d, x[2])]
           body(it) == [s \in SUBSET (DOMAIN at) |->
                          IF s = {} THEN 0 ELSE op(it[s \ {Max(s)}], at[Max(s)])]
           it0 == CHOOSE it : it = body(it)
<1>1. n \in Nat /\ DOMAIN d = 1..n /\ DOMAIN at = 1..n /\ \A i \in 1..n : d[i] \in 0..9 /\ at[i] = i
  OBVIOUS
<1>2. \A i \in 1..n : LuhnDigit(d, i) \in Nat
  BY <1>1, DigitAdds
<1> HIDE DEF at
<1>3. step \in [Nat \X (1..n) -> Nat]
  <2> SUFFICES ASSUME NEW x \in Nat \X (1..n) PROVE x[1] + LuhnDigit(d, x[2]) \in Nat
    OBVIOUS
  <2>1. x[1] \in Nat /\ x[2] \in 1..n
    OBVIOUS
  <2>2. LuhnDigit(d, x[2]) \in Nat
    BY <1>2, <2>1
  <2> QED BY <2>1, <2>2
<1>4. PICK it : IsFold(it, n, Nat, 0, step)
  <2> HIDE DEF n, step
  <2> QED BY <1>1, <1>3, FoldExists
<1>5. it = body(it)
  <2>1. ASSUME NEW s \in SUBSET (1..n) PROVE it[s] = body(it)[s]
    <3>1. CASE s = {}
      BY <1>1, <1>4, <3>1 DEF IsFold
    <3>2. CASE s # {}
      <4>1. Max(s) \in s
        BY <1>1, <3>2, MaxOfPart
      <4>2. Max(s) \in 1..n /\ it[s \ {Max(s)}] \in Nat
        BY <1>4, <4>1 DEF IsFold
      <4>3. it[s] = step[<<it[s \ {Max(s)}], Max(s)>>]
        BY <1>4, <3>2 DEF IsFold
      <4>4. it[s] = it[s \ {Max(s)}] + LuhnDigit(d, Max(s))
        <5> HIDE DEF n
        <5> QED BY <4>2, <4>3
      <4>5. body(it)[s] = op(it[s \ {Max(s)}], Max(s))
        <5>1. body(it)[s] = op(it[s \ {Max(s)}], at[Max(s)])
          <6> HIDE DEF op
          <6> QED BY <1>1, <3>2
        <5>2. at[Max(s)] = Max(s)
          BY <1>1, <4>2
        <5> HIDE DEF op, body
        <5> QED BY <5>1, <5>2
      <4> QED BY <4>4, <4>5 DEF LuhnDigit
    <3> QED BY <3>1, <3>2
  <2>2. it = [s \in SUBSET (1..n) |-> it[s]] /\ body(it) = [s \in SUBSET (1..n) |-> body(it)[s]]
    BY <1>1, <1>4 DEF IsFold
  <2> HIDE DEF body, n
  <2> QED BY <2>1, <2>2
<1>6. it0 = body(it0)
  <2> HIDE DEF body
  <2> QED BY <1>5
<1>7. Luhn(d) <=> it0[1..n] % 10 = 0
  <2>1. FoldLeftDomain(op, 0, d) = it0[DOMAIN at]
    BY DEF FoldLeftDomain, FoldLeft, MapThenFoldSet, at
  <2> QED BY <1>1, <2>1 DEF Luhn
<1> HIDE DEF it0
<1>8. it0[{}] = 0
  BY <1>1, <1>6
<1> DEFINE f == [i \in 0..n |-> it0[1..i]]
<1>9. ASSUME NEW i \in 1..n PROVE f[i] = f[i - 1] + LuhnDigit(d, i)
  <2>1. 1..i \in SUBSET (1..n) /\ 1..i # {} /\ i \in Nat \ {0} /\ i \in 0..n /\ i - 1 \in 0..n
    <3> HIDE DEF n
    <3>1. i \in Nat \ {0} /\ i <= n
      BY <1>1
    <3>2. ASSUME NEW j \in 1..i PROVE j \in 1..n
      BY <1>1, <3>1
    <3>3. i \in 1..i /\ i \in 0..n /\ i - 1 \in 0..n
      BY <1>1, <3>1
    <3>4. 1..i \in SUBSET (1..n) /\ 1..i # {}
      BY <3>2, <3>3
    <3> QED BY <3>1, <3>3, <3>4
  <2>2. Max(1..i) = i /\ (1..i) \ {i} = 1..(i - 1)
    BY <2>1, MaxOfInterval
  <2>3. it0[1..i] = op(it0[1..(i - 1)], i)
    <3>1. it0[1..i] = op(it0[(1..i) \ {Max(1..i)}], at[Max(1..i)])
      <4> HIDE DEF op
      <4> QED BY <1>1, <1>6, <2>1
    <3>2. at[i] = i
      BY <1>1
    <3> HIDE DEF op
    <3> QED BY <2>2, <3>1, <3>2
  <2>4. f[i] = it0[1..i] /\ f[i - 1] = it0[1..(i - 1)]
    BY <2>1
  <2> HIDE DEF f
  <2> QED BY <2>3, <2>4 DEF LuhnDigit
<1>10. f[0] = 0 /\ f[n] = it0[1..n]
  <2>1. 1..0 = {} /\ 0 \in 0..n /\ n \in 0..n
    BY <1>1
  <2> QED BY <1>8, <2>1
<1>11. f \in [0..n -> Nat]
  <2> DEFINE G == {i \in 0..n : f[i] \in Nat}
  <2>1. 0 \in G
    BY <1>1, <1>10
  <2>2. ASSUME NEW i \in 1..n, i - 1 \in G PROVE i \in G
    <3>1. i \in 0..n /\ f[i - 1] \in Nat
      BY <1>1, <2>2
    <3> HIDE DEF f, n
    <3> QED BY <1>2, <1>9, <3>1
  <2>3. 0..n \subseteq G
    <3> HIDE DEF G, n
    <3> QED BY <1>1, <2>1, <2>2, InductionTo
  <2>4. f = [i \in 0..n |-> f[i]]
    OBVIOUS
  <2> HIDE DEF f, n
  <2> QED BY <2>3, <2>4
<1> HIDE DEF f
<1> QED BY <1>7, <1>9, <1>10, <1>11

\* tier0.py:14: of two numbers that differ in one digit at most one passes the checksum.
LEMMA OneDigitChanged ==
  ASSUME NEW d \in Seq(0..9), NEW i \in DOMAIN d, NEW m \in (0..9) \ {d[i]}, Luhn(d)
  PROVE  ~ Luhn([d EXCEPT ![i] = m])
<1> DEFINE g == [d EXCEPT ![i] = m]
           n == Len(d)
<1>1. n \in Nat /\ i \in 1..n /\ m \in 0..9 /\ d[i] \in 0..9 /\ m # d[i]
  OBVIOUS
<1>2. g \in Seq(0..9) /\ Len(g) = n /\ g[i] = m /\ \A k \in 1..n : k # i => g[k] = d[k]
  BY <1>1, ExceptSeq
<1> HIDE DEF g
<1>3. PICK f \in [0..n -> Nat] : /\ f[0] = 0
                                 /\ \A k \in 1..n : f[k] = f[k - 1] + LuhnDigit(d, k)
                                 /\ Luhn(d) <=> f[n] % 10 = 0
  BY LuhnLoop
<1>4. PICK h \in [0..n -> Nat] : /\ h[0] = 0
                                 /\ \A k \in 1..n : h[k] = h[k - 1] + LuhnDigit(g, k)
                                 /\ Luhn(g) <=> h[n] % 10 = 0
  BY <1>2, LuhnLoop
<1> DEFINE a == LuhnDigit(d, i)
           b == LuhnDigit(g, i)
<1>5. a \in 0..9 /\ b \in 0..9 /\ a # b
  <2>1. a \in 0..9 /\ b \in 0..9
    BY <1>1, <1>2, DigitAdds
  <2>2. Doubled(d[i]) # Doubled(m)
    BY <1>1, DigitsAddApart
  <2>3. a # b
    <3> DEFINE odd == (n - i) % 2 = 1
    <3>1. a = IF odd THEN Doubled(d[i]) ELSE d[i]
      BY DEF LuhnDigit
    <3>2. b = IF odd THEN Doubled(m) ELSE m
      BY <1>2 DEF LuhnDigit
    <3> HIDE DEF a, b, odd
    <3> QED BY <1>1, <2>2, <3>1, <3>2
  <2> QED BY <2>1, <2>3
<1>6. \A k \in 1..n : k # i => LuhnDigit(g, k) = LuhnDigit(d, k) /\ LuhnDigit(d, k) \in Nat
  <2> SUFFICES ASSUME NEW k \in 1..n, k # i
               PROVE  LuhnDigit(g, k) = LuhnDigit(d, k) /\ LuhnDigit(d, k) \in Nat
    OBVIOUS
  <2>1. LuhnDigit(d, k) \in 0..9
    BY <1>1, DigitAdds
  <2>2. LuhnDigit(g, k) = LuhnDigit(d, k)
    BY <1>2 DEF LuhnDigit
  <2> QED BY <2>1, <2>2
<1> HIDE DEF a, b
<1> DEFINE G == {k \in 0..n : h[k] = f[k] + IF k < i THEN 0 ELSE b - a}
<1>7. 0 \in G
  <2>1. 0 \in 0..n /\ 0 < i
    BY <1>1
  <2> HIDE DEF n
  <2> QED BY <1>3, <1>4, <2>1
<1>8. ASSUME NEW k \in 1..n, k - 1 \in G PROVE k \in G
  <2>0. k \in 0..n /\ k - 1 \in 0..n
    BY <1>1
  <2>1. k \in 0..n /\ k - 1 \in 0..n /\ f[k - 1] \in Nat /\ h[k - 1] \in Nat
    <3> HIDE DEF n
    <3> QED BY <2>0
  <2>2. f[k] = f[k - 1] + LuhnDigit(d, k) /\ h[k] = h[k - 1] + LuhnDigit(g, k)
    BY <1>3, <1>4
  <2>3. CASE k = i
    <3>1. h[k - 1] = f[k - 1] + 0
      <4>1. k - 1 < i
        BY <1>1, <2>3
      <4> HIDE DEF n
      <4> QED BY <1>8, <4>1
    <3>2. f[k] = f[k - 1] + a /\ h[k] = h[k - 1] + b
      BY <2>2, <2>3 DEF a, b
    <3>3. h[k] = f[k] + (b - a)
      <4> DEFINE u == f[k - 1]
      <4>1. u \in Nat
        BY <2>1
      <4>2. h[k] = (u + 0) + b /\ f[k] = u + a
        BY <3>1, <3>2
      <4> HIDE DEF u
      <4> QED BY <1>5, <4>1, <4>2
    <3>4. ~ (k < i)
      BY <1>1, <2>3
    <3> HIDE DEF n
    <3> QED BY <2>1, <3>3, <3>4
  <2>4. CASE k # i
    <3>1. LuhnDigit(g, k) = LuhnDigit(d, k) /\ LuhnDigit(d, k) \in Nat
      BY <1>6, <2>4
    <3> DEFINE e == IF k < i THEN 0 ELSE b - a
               u == f[k - 1]
               v == LuhnDigit(d, k)
    <3>2. h[k - 1] = u + e
      <4>1. k - 1 < i <=> k < i
        BY <1>1, <2>4
      <4> HIDE DEF n
      <4> QED BY <1>8, <4>1
    <3>3. u \in Nat /\ v \in Nat /\ e \in Int
      BY <1>5, <2>1, <3>1
    <3>4. f[k] = u + v /\ h[k] = (u + e) + v
      BY <2>2, <3>1, <3>2
    <3> HIDE DEF u, v, e
    <3>5. h[k] = f[k] + e
      BY <3>3, <3>4
    <3> HIDE DEF n
    <3> QED BY <2>1, <3>5 DEF e
  <2> QED BY <2>3, <2>4
<1>9. h[n] = f[n] + (b - a)
  <2>1. 0..n \subseteq G
    <3> HIDE DEF G, n
    <3> QED BY <1>1, <1>7, <1>8, InductionTo
  <2>2. n \in 0..n /\ ~ (n < i)
    BY <1>1
  <2> HIDE DEF n
  <2> QED BY <2>1, <2>2
<1>10. f[n] \in Nat /\ h[n] \in Nat /\ f[n] % 10 = 0
  <2>1. n \in 0..n
    BY <1>1
  <2> HIDE DEF n
  <2> QED BY <1>3, <1>4, <2>1
<1>11. h[n] % 10 # 0
  <2> DEFINE x == f[n]
             y == h[n]
  <2>1. x \in Nat /\ y = x + (b - a) /\ x % 10 = 0 /\ y \in Nat
    BY <1>9, <1>10
  <2> HIDE DEF x, y
  <2>2. y % 10 # 0
    <3>1. b - a \in -9..9 /\ b - a # 0
      BY <1>5
    <3> DEFINE c == b - a
    <3>2. c \in -9..9 /\ c # 0 /\ y = x + c
      BY <2>1, <3>1
    <3> HIDE DEF c
    <3>3. PICK q \in Nat : x = 10 * q
      BY <2>1
    <3>4. SUFFICES ASSUME y % 10 = 0 PROVE FALSE
      OBVIOUS
    <3>5. PICK r \in Nat : y = 10 * r
      BY <2>1, <3>4
    <3> QED BY <3>2, <3>3, <3>5
  <2> QED BY <2>2 DEF y
<1>12. ~ Luhn(g)
  BY <1>4, <1>11
<1> QED BY <1>12 DEF g

-----------------------------------------------------------------------------
(* Normalize: the types of folded texts. *)

\* Joining digits keeps a text a sequence of pieces.
LEMMA JoinTyped ==
  ASSUME NEW done \in Seq(Pieces), NEW p \in Pieces
  PROVE  Join(done, p) \in Seq(Pieces)
<1> DEFINE at == DigitsAt(done)
           m == Max(at)
<1>1. Len(done) \in Nat /\ at \in SUBSET (1..Len(done))
  BY DEF DigitsAt
<1>2. Append(done, p) \in Seq(Pieces)
  OBVIOUS
<1>3. ASSUME at # {}
      PROVE  Append(SubSeq(done, 1, m - 1), Digits(done[m].digits \o p.digits)) \in Seq(Pieces)
  <2>1. m \in 1..Len(done)
    <3> HIDE DEF at
    <3> QED BY <1>1, <1>3, MaxOfPart
  <2> HIDE DEF m, at
  <2>2. done[m] \in Pieces
    BY <2>1
  <2>3. done[m].digits \o p.digits \in Seq(0..9)
    BY <2>2 DEF Pieces
  <2>4. Digits(done[m].digits \o p.digits) \in Pieces
    BY <2>3 DEF Digits, Piece, Pieces, Kinds, WordLike
  <2>5. SubSeq(done, 1, m - 1) \in Seq(Pieces)
    BY <2>1, SubSeqProperties
  <2> HIDE DEF Pieces
  <2> QED BY <2>4, <2>5
<1> QED BY <1>2, <1>3 DEF Join

\* What the tables know and the swap of look-alikes keep it one, piece by piece.
LEMMA UnfoldTyped == ASSUME NEW t \in Seq(Pieces) PROVE Unfold(t) \in Seq(Pieces)
<1>1. Len(t) \in Nat /\ DOMAIN t = 1..Len(t)
  OBVIOUS
<1>2. ASSUME NEW i \in DOMAIN t PROVE t[i] \in Pieces /\ Digits(t[i].digits) \in Pieces
  <2>1. t[i] \in Pieces
    OBVIOUS
  <2> DEFINE p == t[i]
  <2>2. p \in Pieces
    BY <2>1
  <2> HIDE DEF p
  <2>3. Digits(p.digits) \in Pieces
    BY <2>2 DEF Digits, Piece, Pieces, Kinds, WordLike
  <2> QED BY <2>1, <2>3 DEF p
<1>3. Unfold(t) \in [1..Len(t) -> Pieces]
  <2> HIDE DEF Pieces
  <2> QED BY <1>1, <1>2 DEF Unfold
<1> QED BY <1>1, <1>3, IsSequence

\* Swapping look-alike letters for digits keeps a text a sequence of pieces.
LEMMA LeetTyped == ASSUME NEW t \in Seq(Pieces) PROVE Leet(t) \in Seq(Pieces)
<1>1. Len(t) \in Nat /\ DOMAIN t = 1..Len(t)
  OBVIOUS
<1>2. ASSUME NEW i \in DOMAIN t PROVE t[i] \in Pieces /\ Digits(t[i].digits) \in Pieces
  <2>1. t[i] \in Pieces
    OBVIOUS
  <2> DEFINE p == t[i]
  <2>2. p \in Pieces
    BY <2>1
  <2> HIDE DEF p
  <2>3. Digits(p.digits) \in Pieces
    BY <2>2 DEF Digits, Piece, Pieces, Kinds, WordLike
  <2> QED BY <2>1, <2>3 DEF p
<1>3. Leet(t) \in [1..Len(t) -> Pieces]
  <2> HIDE DEF Pieces
  <2> QED BY <1>1, <1>2 DEF Leet
<1> QED BY <1>1, <1>3, IsSequence

\* A fold that keeps its values in a set ends in it.
LEMMA JoinLoop ==
  ASSUME NEW u \in Seq(Pieces)
  PROVE  FoldLeft(Join, <<>>, u) \in Seq(Pieces)
<1> DEFINE n == Len(u)
           V == Seq(Pieces)
           step == [x \in V \X (1..n) |-> Join(x[1], u[x[2]])]
           body(it) == [s \in SUBSET (DOMAIN u) |->
                          IF s = {} THEN <<>> ELSE Join(it[s \ {Max(s)}], u[Max(s)])]
           it0 == CHOOSE it : it = body(it)
<1>1. n \in Nat /\ DOMAIN u = 1..n /\ (\A i \in 1..n : u[i] \in Pieces) /\ <<>> \in V
  OBVIOUS
<1>2. step \in [V \X (1..n) -> V]
  <2> SUFFICES ASSUME NEW x \in V \X (1..n) PROVE Join(x[1], u[x[2]]) \in V
    OBVIOUS
  <2>1. x[1] \in V /\ u[x[2]] \in Pieces
    BY <1>1
  <2> QED BY <2>1, JoinTyped
<1> HIDE DEF V
<1>3. PICK it : IsFold(it, n, V, <<>>, step)
  <2> HIDE DEF n, step
  <2> QED BY <1>1, <1>2, FoldExists
<1>4. it = body(it)
  <2>1. ASSUME NEW s \in SUBSET (1..n) PROVE it[s] = body(it)[s]
    <3>1. CASE s = {}
      BY <1>1, <1>3, <3>1 DEF IsFold
    <3>2. CASE s # {}
      <4>1. Max(s) \in s
        BY <1>1, <3>2, MaxOfPart
      <4>2. Max(s) \in 1..n /\ it[s \ {Max(s)}] \in V
        BY <1>3, <4>1 DEF IsFold
      <4>3. it[s] = step[<<it[s \ {Max(s)}], Max(s)>>]
        BY <1>3, <3>2 DEF IsFold
      <4>4. it[s] = Join(it[s \ {Max(s)}], u[Max(s)])
        <5> HIDE DEF n
        <5> QED BY <4>2, <4>3
      <4>5. body(it)[s] = Join(it[s \ {Max(s)}], u[Max(s)])
        BY <1>1, <3>2
      <4> QED BY <4>4, <4>5
    <3> QED BY <3>1, <3>2
  <2>2. it = [s \in SUBSET (1..n) |-> it[s]] /\ body(it) = [s \in SUBSET (1..n) |-> body(it)[s]]
    BY <1>1, <1>3 DEF IsFold
  <2> HIDE DEF body, n
  <2> QED BY <2>1, <2>2
<1>5. it0 = body(it0)
  <2> HIDE DEF body
  <2> QED BY <1>4
<1>6. FoldLeft(Join, <<>>, u) = it0[DOMAIN u]
  BY DEF FoldLeft, MapThenFoldSet
<1> HIDE DEF it0
<1>7. ASSUME NEW s \in SUBSET (1..n) PROVE it0[s] = IF s = {} THEN <<>> ELSE Join(it0[s \ {Max(s)}], u[Max(s)])
  <2> HIDE DEF n
  <2> QED BY <1>1, <1>5, <1>7
<1> HIDE DEF body, n
<1> DEFINE G == {i \in 0..n : it0[1..i] \in V}
<1>8. 0 \in G
  <2>1. 1..0 = {} /\ 0 \in 0..n /\ {} \in SUBSET (1..n)
    BY <1>1
  <2> QED BY <1>1, <1>7, <2>1
<1>9. ASSUME NEW i \in 1..n, i - 1 \in G PROVE i \in G
  <2>1. i \in Nat \ {0} /\ i \in 0..n /\ i - 1 \in 0..n /\ i <= n
    BY <1>1
  <2>2. ASSUME NEW j \in 1..i PROVE j \in 1..n
    BY <1>1, <2>1
  <2>3. 1..i \in SUBSET (1..n) /\ i \in 1..i
    BY <2>1, <2>2
  <2>4. Max(1..i) = i /\ (1..i) \ {i} = 1..(i - 1)
    BY <2>1, MaxOfInterval
  <2>5. it0[1..i] = Join(it0[1..(i - 1)], u[i])
    BY <1>7, <2>3, <2>4
  <2>6. it0[1..(i - 1)] \in V /\ u[i] \in Pieces
    BY <1>1, <1>9
  <2>7. Join(it0[1..(i - 1)], u[i]) \in V
    BY <2>6, JoinTyped DEF V
  <2> QED BY <2>1, <2>5, <2>7
<1>10. 0..n \subseteq G
  <2> HIDE DEF G
  <2> QED BY <1>1, <1>8, <1>9, InductionTo
<1>11. it0[1..n] \in V
  BY <1>1, <1>10
<1> QED BY <1>1, <1>6, <1>11 DEF V

\* The folded form of a text is a sequence of pieces, and its digit groups are digits.
LEMMA FoldedTyped == ASSUME NEW t \in Seq(Pieces) PROVE Folded(t) \in Seq(Pieces)
BY UnfoldTyped, LeetTyped, JoinLoop DEF Folded

\* The digit groups of a text are sequences of digits.
LEMMA DigitGroupsTyped == ASSUME NEW t \in Seq(Pieces) PROVE DigitGroups(t) \in Seq(Seq(0..9))
<1> DEFINE u == Folded(t)
           runs == SelectAt(u, DigitsAt(u))
<1>1. u \in Seq(Pieces)
  BY FoldedTyped
<1> HIDE DEF u
<1>2. runs \in Seq(Pieces)
  BY <1>1, SelectAtKeepsOrder
<1> HIDE DEF runs
<1>3. Len(runs) \in Nat /\ [i \in DOMAIN runs |-> runs[i].digits] \in [1..Len(runs) -> Seq(0..9)]
  <2>1. Len(runs) \in Nat /\ DOMAIN runs = 1..Len(runs)
    BY <1>2
  <2>2. ASSUME NEW i \in DOMAIN runs PROVE runs[i].digits \in Seq(0..9)
    <3>1. runs[i] \in Pieces
      BY <1>2
    <3> QED BY <3>1 DEF Pieces
  <2> QED BY <2>1, <2>2
<1>4. [i \in DOMAIN runs |-> runs[i].digits] \in Seq(Seq(0..9))
  BY <1>3, IsSequence
<1> QED BY <1>4 DEF DigitGroups, DigitRuns, runs, u

-----------------------------------------------------------------------------
(* The window: what is left of it, and what is recent. *)

W == WindowRecords
InOrder(w) == \A i, j \in DOMAIN w : i < j => w[i].id # w[j].id /\ w[i].at <= w[j].at

\* r is what is left of w, in its order.
PartOf(r, w) ==
  /\ r \in Seq(W) /\ Len(r) <= Len(w)
  /\ \E g \in [1..Len(r) -> 1..Len(w)] : /\ \A k \in 1..Len(r) : r[k] = w[g[k]]
                                         /\ \A j, k \in 1..Len(r) : j < k => g[j] < g[k]
\* r ends as w does, on n elements.
EndsAs(r, w, n) == n <= Len(r) /\ n <= Len(w) /\ \A k \in 0..n - 1 : r[Len(r) - k] = w[Len(w) - k]

\* What is left of a sequence was in it.
LEMMA PartItems ==
  ASSUME NEW w \in Seq(W), NEW r, PartOf(r, w)
  PROVE  \A i \in DOMAIN r : \E j \in DOMAIN w : r[i] = w[j]
<1> HIDE DEF W
<1>1. PICK g \in [1..Len(r) -> 1..Len(w)] : \A k \in 1..Len(r) : r[k] = w[g[k]]
  BY DEF PartOf
<1>2. DOMAIN r = 1..Len(r) /\ DOMAIN w = 1..Len(w)
  BY DEF PartOf
<1> QED BY <1>1, <1>2

\* What is left of a window in order is in order.
LEMMA PartInOrder ==
  ASSUME NEW w \in Seq(W), NEW r, PartOf(r, w), InOrder(w)
  PROVE  InOrder(r)
<1> HIDE DEF W
<1>1. PICK g \in [1..Len(r) -> 1..Len(w)] : /\ \A k \in 1..Len(r) : r[k] = w[g[k]]
                                            /\ \A j, k \in 1..Len(r) : j < k => g[j] < g[k]
  BY DEF PartOf
<1>2. DOMAIN r = 1..Len(r) /\ DOMAIN w = 1..Len(w)
  BY DEF PartOf
<1>3. ASSUME NEW i \in DOMAIN r, NEW j \in DOMAIN r, i < j
      PROVE  r[i].id # r[j].id /\ r[i].at <= r[j].at
  <2>1. g[i] \in DOMAIN w /\ g[j] \in DOMAIN w /\ g[i] < g[j] /\ r[i] = w[g[i]] /\ r[j] = w[g[j]]
    BY <1>1, <1>2, <1>3
  <2> QED BY <2>1 DEF InOrder
<1> QED BY <1>3 DEF InOrder

\* A part of a part is a part.
LEMMA PartOfPart ==
  ASSUME NEW w \in Seq(W), NEW r, NEW q, PartOf(r, w), PartOf(q, r)
  PROVE  PartOf(q, w)
<1> HIDE DEF W
<1>1. PICK g \in [1..Len(r) -> 1..Len(w)] : /\ \A k \in 1..Len(r) : r[k] = w[g[k]]
                                            /\ \A j, k \in 1..Len(r) : j < k => g[j] < g[k]
  BY DEF PartOf
<1>2. PICK h \in [1..Len(q) -> 1..Len(r)] : /\ \A k \in 1..Len(q) : q[k] = r[h[k]]
                                            /\ \A j, k \in 1..Len(q) : j < k => h[j] < h[k]
  BY DEF PartOf
<1> DEFINE f == [k \in 1..Len(q) |-> g[h[k]]]
<1>3. f \in [1..Len(q) -> 1..Len(w)]
  OBVIOUS
<1>4. \A k \in 1..Len(q) : q[k] = w[f[k]]
  BY <1>1, <1>2
<1>5. \A j, k \in 1..Len(q) : j < k => f[j] < f[k]
  BY <1>1, <1>2
<1>6. q \in Seq(W) /\ Len(q) <= Len(w)
  <2>1. Len(q) \in Nat /\ Len(r) \in Nat /\ Len(w) \in Nat
    BY DEF PartOf
  <2> QED BY <2>1 DEF PartOf
<1> HIDE DEF f
<1> QED BY <1>3, <1>4, <1>5, <1>6 DEF PartOf

\* A sequence is a part of itself.
LEMMA PartOfSelf == ASSUME NEW w \in Seq(W) PROVE PartOf(w, w)
<1> HIDE DEF W
<1> DEFINE f == [k \in 1..Len(w) |-> k]
<1>1. f \in [1..Len(w) -> 1..Len(w)] /\ \A k \in 1..Len(w) : f[k] = k
  OBVIOUS
<1>2. Len(w) <= Len(w)
  OBVIOUS
<1> HIDE DEF f
<1> QED BY <1>1, <1>2 DEF PartOf

\* The others, when the messages of some ids are taken out.
LEMMA OthersArePart ==
  ASSUME NEW w \in Seq(W), NEW ids
  PROVE  /\ PartOf(Others(w, ids), w)
         /\ \A i \in DOMAIN Others(w, ids) : Others(w, ids)[i].id \notin ids
<1> HIDE DEF W
<1> DEFINE at == {i \in DOMAIN w : w[i].id \notin ids}
           r == SelectAt(w, at)
<1>1. r \in Seq(W) /\ Len(r) <= Len(w) /\ \E g : SelectedBy(g, r, w, at)
  <2> HIDE DEF at
  <2> QED BY SelectAtKeepsOrder
<1>2. PICK g : SelectedBy(g, r, w, at)
  BY <1>1
<1>3. Others(w, ids) = r
  BY DEF Others
<1>4. DOMAIN r = 1..Len(r) /\ DOMAIN w = 1..Len(w)
  BY <1>1
<1>5. \A i \in DOMAIN r : r[i].id \notin ids
  <2> HIDE DEF r
  <2> QED BY <1>2, <1>4 DEF SelectedBy
<1> HIDE DEF r, at
<1> QED BY <1>1, <1>2, <1>3, <1>5 DEF SelectedBy, PartOf

\* Taking messages out leaves the end alone, if none of them is there.
LEMMA OthersEnd ==
  ASSUME NEW w \in Seq(W), NEW ids, NEW n \in 0..Len(w),
         \A k \in 0..n - 1 : w[Len(w) - k].id \notin ids
  PROVE  EndsAs(Others(w, ids), w, n)
<1> HIDE DEF W
<1> DEFINE at == {i \in DOMAIN w : w[i].id \notin ids}
           r == SelectAt(w, at)
           m == Len(w) - n
<1>1. Len(w) \in Nat /\ m \in 0..Len(w) /\ n = Len(w) - m /\ DOMAIN w = 1..Len(w)
  OBVIOUS
<1>2. (m + 1..Len(w)) \subseteq at
  <2> SUFFICES ASSUME NEW i \in m + 1..Len(w) PROVE w[i].id \notin ids /\ i \in DOMAIN w
    OBVIOUS
  <2>1. Len(w) - i \in 0..n - 1 /\ Len(w) - (Len(w) - i) = i /\ i \in 1..Len(w)
    BY <1>1
  <2> QED BY <1>1, <2>1
<1>3. /\ Len(w) - m <= Len(r)
      /\ \A k \in m + 1..Len(w) : r[Len(r) - (Len(w) - k)] = w[k]
  <2> HIDE DEF at, m
  <2> QED BY <1>1, <1>2, SelectAtEnd
<1>4. ASSUME NEW k \in 0..n - 1 PROVE r[Len(r) - k] = w[Len(w) - k]
  <2> DEFINE i == Len(w) - k
  <2>1. i \in m + 1..Len(w) /\ Len(w) - i = k
    BY <1>1
  <2> HIDE DEF r, m, at
  <2>2. r[Len(r) - (Len(w) - i)] = w[i]
    BY <1>3, <2>1
  <2> QED BY <2>1, <2>2
<1>5. Others(w, ids) = r
  BY DEF Others
<1> HIDE DEF r, at, m
<1>6. n <= Len(r) /\ n <= Len(w)
  BY <1>1, <1>3
<1> QED BY <1>4, <1>5, <1>6 DEF EndsAs

\* What is not too old is the end of the window.
LEMMA RecentIs ==
  ASSUME NEW w \in Seq(W), NEW now \in Nat, InOrder(w)
  PROVE  /\ PartOf(Recent(w, now), w)
         /\ \A i \in DOMAIN Recent(w, now) : now - Recent(w, now)[i].at <= MaxAge
         /\ \A n \in 0..Len(w) : (\A k \in 0..n - 1 : now - w[Len(w) - k].at <= MaxAge)
                                 => EndsAs(Recent(w, now), w, n)
<1> DEFINE at == {i \in 1..Len(w) : now - w[i].at <= MaxAge}
           first == SelectInSeq(w, LAMBDA m : now - m.at <= MaxAge)
           r == Recent(w, now)
<1>1. Len(w) \in Nat /\ DOMAIN w = 1..Len(w) /\ \A i \in 1..Len(w) : w[i] \in W /\ w[i].at \in Nat
  <2>1. \A i \in 1..Len(w) : w[i] \in W
    <3> HIDE DEF W
    <3> QED OBVIOUS
  <2>2. \A m \in W : m.at \in Nat
    BY DEF W, WindowRecords
  <2> HIDE DEF W
  <2> QED BY <2>1, <2>2
<1>2. MaxAge \in Nat
  BY WindowAssumption
<1>3. first = IF at # {} THEN Min(at) ELSE 0
  BY DEF SelectInSeq
<1>4. r = IF first = 0 THEN <<>> ELSE SubSeq(w, first, Len(w))
  BY DEF Recent
<1>5. CASE at = {}
  <2>1. r = <<>>
    BY <1>3, <1>4, <1>5
  <2>2. PartOf(r, w)
    <3>1. r \in Seq(W) /\ Len(r) = 0 /\ 1..0 = {}
      BY <2>1
    <3>2. [k \in 1..0 |-> 0] \in [1..Len(r) -> 1..Len(w)]
      BY <3>1
    <3> DEFINE g == [k \in 1..0 |-> 0]
    <3>3. \A k \in 1..Len(r) : FALSE
      BY <3>1
    <3> HIDE DEF r, g, W
    <3>4. g \in [1..Len(r) -> 1..Len(w)]
      BY <3>2 DEF g
    <3>5. Len(r) <= Len(w)
      BY <1>1, <3>1
    <3> QED BY <3>1, <3>3, <3>4, <3>5 DEF PartOf
  <2>3. ASSUME NEW n \in 0..Len(w), \A k \in 0..n - 1 : now - w[Len(w) - k].at <= MaxAge
        PROVE  EndsAs(r, w, n)
    <3>1. n = 0
      <4> SUFFICES ASSUME n # 0 PROVE FALSE
        OBVIOUS
      <4>1. 0 \in 0..n - 1 /\ Len(w) - 0 = Len(w) /\ Len(w) \in 1..Len(w)
        BY <1>1
      <4>2. now - w[Len(w)].at <= MaxAge
        BY <2>3, <4>1
      <4> QED BY <1>5, <4>1, <4>2
    <3> QED BY <1>1, <2>1, <3>1 DEF EndsAs
  <2>4. \A i \in DOMAIN r : FALSE
    BY <2>1
  <2> HIDE DEF r
  <2> QED BY <2>2, <2>3, <2>4 DEF r
<1>6. CASE at # {}
  <2>1. first \in at /\ \A i \in at : first <= i
    <3>1. \E n \in at : \A m \in at : n <= m
      <4>1. at \in SUBSET Nat
        OBVIOUS
      <4> HIDE DEF at
      <4> QED BY <1>6, <4>1, LeastNat
    <3> HIDE DEF at, first
    <3> QED BY <1>3, <1>6, <3>1 DEF Min
  <2> HIDE DEF first
  <2>2. first \in 1..Len(w) /\ r = SubSeq(w, first, Len(w)) /\ now - w[first].at <= MaxAge
    BY <1>4, <2>1
  <2> DEFINE l == Len(w) - first + 1
  <2>3. l \in 1..Len(w) /\ Len(w) - l = first - 1
    BY <1>1, <2>2
  <2> HIDE DEF r
  <2>4. r \in Seq(W) /\ Len(r) = l /\ \A i \in 1..l : r[i] = w[first + i - 1]
    <3> HIDE DEF W
    <3>1. first \in 1..Len(w) + 1 /\ Len(w) \in first - 1..Len(w)
      BY <1>1, <2>2
    <3> QED BY <1>1, <2>2, <3>1, SubSeqProperties
  <2> HIDE DEF l, W
  <2>5. \A i \in 1..l : first + i - 1 \in 1..Len(w)
    BY <1>1, <2>2, <2>3
  <2>6. PartOf(r, w)
    <3> DEFINE g == [i \in 1..l |-> first + i - 1]
    <3>1. g \in [1..l -> 1..Len(w)]
      BY <2>5
    <3>2. \A i \in 1..l : r[i] = w[g[i]]
      BY <2>4
    <3>3. \A i, j \in 1..l : i < j => g[i] < g[j]
      BY <2>2, <2>3
    <3> HIDE DEF g
    <3>4. l <= Len(w)
      BY <1>1, <2>3
    <3> QED BY <2>4, <3>1, <3>2, <3>3, <3>4 DEF PartOf
  <2>7. ASSUME NEW i \in DOMAIN r PROVE now - r[i].at <= MaxAge
    <3>1. i \in 1..l /\ r[i] = w[first + i - 1] /\ first + i - 1 \in 1..Len(w)
      BY <2>3, <2>4, <2>5
    <3>2. w[first].at <= w[first + i - 1].at
      <4>1. first = first + i - 1 \/ first < first + i - 1
        BY <2>2, <2>3, <3>1
      <4> DEFINE j == first + i - 1
      <4>2. j \in DOMAIN w /\ first \in DOMAIN w
        BY <1>1, <2>2, <3>1
      <4> HIDE DEF j
      <4>3. first < j => w[first].at <= w[j].at
        BY <4>2 DEF InOrder
      <4>4. w[first].at \in Nat
        BY <1>1, <2>2
      <4> QED BY <4>1, <4>3, <4>4 DEF j
    <3> DEFINE x == w[first].at
               y == r[i].at
    <3>3. x \in Nat /\ y \in Nat /\ x <= y /\ now - x <= MaxAge
      BY <1>1, <2>2, <3>1, <3>2
    <3> HIDE DEF x, y
    <3>4. now - y <= MaxAge
      BY <1>2, <3>3
    <3> QED BY <3>4 DEF y
  <2>8. ASSUME NEW n \in 0..Len(w), \A k \in 0..n - 1 : now - w[Len(w) - k].at <= MaxAge
        PROVE  EndsAs(r, w, n)
    <3>1. n <= l
      <4> SUFFICES ASSUME n > 0 PROVE n <= l
        BY <1>1, <2>3
      <4>1. n - 1 \in 0..n - 1 /\ Len(w) - (n - 1) \in 1..Len(w)
        BY <1>1
      <4>2. Len(w) - (n - 1) \in at
        BY <2>8, <4>1
      <4>3. first <= Len(w) - (n - 1)
        BY <2>1, <4>2
      <4> QED BY <1>1, <2>2, <4>3 DEF l
    <3>2. ASSUME NEW k \in 0..n - 1 PROVE r[Len(r) - k] = w[Len(w) - k]
      <4>1. l - k \in 1..l /\ first + (l - k) - 1 = Len(w) - k
        BY <1>1, <2>2, <3>1 DEF l
      <4> QED BY <2>4, <4>1
    <3> QED BY <1>1, <2>3, <2>4, <3>1, <3>2 DEF EndsAs
  <2> QED BY <2>6, <2>7, <2>8 DEF r
<1> QED BY <1>5, <1>6

-----------------------------------------------------------------------------
(* The window: what add does. *)

\* The last n elements of a sequence.
LEMMA SuffixIs ==
  ASSUME NEW S, NEW s \in Seq(S), NEW n \in Nat
  PROVE  LET r == Suffix(s, n)
             m == IF Len(s) <= n THEN 0 ELSE Len(s) - n
         IN  r \in Seq(S) /\ m \in 0..Len(s) /\ Len(r) = Len(s) - m /\ \A i \in 1..Len(r) : r[i] = s[m + i]
<1> DEFINE m == IF Len(s) <= n THEN 0 ELSE Len(s) - n
           l == Len(s)
<1>1. l \in Nat /\ m \in 0..l
  OBVIOUS
<1>2. Max({1, l - n + 1}) = m + 1
  <2>1. m + 1 \in {1, l - n + 1} /\ \A y \in {1, l - n + 1} : m + 1 >= y
    BY <1>1
  <2>2. \A x \in {1, l - n + 1} : (\A y \in {1, l - n + 1} : x >= y) => x = m + 1
    BY <1>1, <2>1
  <2> HIDE DEF m, l
  <2> QED BY <2>1, <2>2 DEF Max
<1>3. Suffix(s, n) = SubSeq(s, m + 1, l)
  BY <1>2 DEF Suffix
<1>4. m + 1 \in 1..l + 1 /\ l \in m..l /\ (m + 1) - 1 = m
  BY <1>1
<1>5. /\ SubSeq(s, m + 1, l) \in Seq(S)
      /\ Len(SubSeq(s, m + 1, l)) = l - m
      /\ \A i \in 1..l - m : SubSeq(s, m + 1, l)[i] = s[m + i]
  <2> HIDE DEF m
  <2>1. /\ SubSeq(s, m + 1, l) \in Seq(S)
        /\ Len(SubSeq(s, m + 1, l)) = IF m + 1 <= l THEN l - (m + 1) + 1 ELSE 0
        /\ \A i \in 1..l - (m + 1) + 1 : SubSeq(s, m + 1, l)[i] = s[m + 1 + i - 1]
    BY <1>1, <1>4, SubSeqProperties
  <2>2. l - (m + 1) + 1 = l - m /\ (~ (m + 1 <= l) => l - m = 0)
    BY <1>1
  <2>3. \A i \in 1..l - m : m + 1 + i - 1 = m + i
    BY <1>1
  <2> HIDE DEF l
  <2> QED BY <2>1, <2>2, <2>3
<1> HIDE DEF m, l
<1>6. /\ Suffix(s, n) \in Seq(S) /\ m \in 0..l /\ Len(Suffix(s, n)) = l - m
      /\ \A i \in 1..Len(Suffix(s, n)) : Suffix(s, n)[i] = s[m + i]
  BY <1>1, <1>3, <1>5
<1> QED BY <1>6 DEF m, l

\* What add does to the window: the message is in it, once, and the others as they were.
Added(r, w, m) ==
  /\ r \in Seq(W) /\ Len(r) <= WindowSize /\ InOrder(r)
  /\ \A i \in DOMAIN r : \/ r[i].id # m.id /\ \E j \in DOMAIN w : r[i] = w[j]
                         \/ r[i].id = m.id /\ r[i].text = m.text /\ r[i].at <= m.at
  /\ (\A i \in DOMAIN w : w[i].id # m.id) =>
       \A n \in 0..Len(w) : n < WindowSize =>
         /\ n + 1 <= Len(r) /\ r[Len(r)] = m
         /\ \A k \in 1..n : r[Len(r) - k] = w[Len(w) - (k - 1)]

\* Adding an edit replaces the text where it stands.
LEMMA AddReplaces ==
  ASSUME NEW w \in Seq(W), NEW m \in W, InOrder(w), Len(w) <= WindowSize,
         \A i \in DOMAIN w : w[i].at <= m.at,
         NEW j \in DOMAIN w, w[j].id = m.id
  PROVE  Added(Add(w, m), w, m)
<1> DEFINE put(i) == IF w[i].id = m.id THEN [m EXCEPT !.at = w[i].at] ELSE w[i]
           r == [i \in DOMAIN w |-> put(i)]
<1>1. Add(w, m) = r
  BY DEF Add
<1>2. Len(w) \in Nat /\ DOMAIN w = 1..Len(w) /\ \A i \in DOMAIN w : w[i] \in W
  <2> HIDE DEF W
  <2> QED OBVIOUS
<1>3. ASSUME NEW i \in DOMAIN w PROVE put(i) \in W /\ put(i).id = w[i].id /\ put(i).at = w[i].at
  <2> DEFINE a == w[i]
  <2>1. a \in W
    BY <1>2
  <2> HIDE DEF a
  <2>2. [m EXCEPT !.at = a.at] \in W /\ [m EXCEPT !.at = a.at].id = m.id
        /\ [m EXCEPT !.at = a.at].at = a.at
    BY <2>1 DEF W, WindowRecords
  <2> HIDE DEF W
  <2> QED BY <2>1, <2>2 DEF a
<1>4. r \in [1..Len(w) -> W]
  <2> HIDE DEF W, put
  <2> QED BY <1>2, <1>3
<1>5. r \in Seq(W) /\ Len(r) = Len(w) /\ DOMAIN r = DOMAIN w
  <2> HIDE DEF W
  <2>1. r \in Seq(W)
    <3> HIDE DEF r
    <3> QED BY <1>2, <1>4, IsSequence
  <2>2. DOMAIN r = DOMAIN w
    OBVIOUS
  <2> HIDE DEF r
  <2>3. Len(r) = Len(w)
    BY <1>2, <2>1, <2>2
  <2> QED BY <2>1, <2>2, <2>3
<1>6. InOrder(r)
  <2>1. \A i \in DOMAIN w : r[i].id = w[i].id /\ r[i].at = w[i].at
    BY <1>3
  <2> HIDE DEF r
  <2> QED BY <1>5, <2>1 DEF InOrder
<1>7. ASSUME NEW i \in DOMAIN w
      PROVE  \/ r[i].id # m.id /\ \E k \in DOMAIN w : r[i] = w[k]
             \/ r[i].id = m.id /\ r[i].text = m.text /\ r[i].at <= m.at
  <2>1. CASE w[i].id # m.id
    BY <2>1
  <2>2. CASE w[i].id = m.id
    <3>1. r[i] = [m EXCEPT !.at = w[i].at]
      BY <2>2
    <3>2. [m EXCEPT !.at = w[i].at].text = m.text
      BY DEF W, WindowRecords
    <3>3. r[i].id = w[i].id /\ r[i].at = w[i].at
      BY <1>3
    <3> HIDE DEF r
    <3> QED BY <2>2, <3>1, <3>2, <3>3
  <2> QED BY <2>1, <2>2
<1> HIDE DEF r
<1> QED BY <1>1, <1>5, <1>6, <1>7 DEF Added

\* Adding a new message puts it last, and the oldest one may go.
LEMMA AddAppends ==
  ASSUME NEW w \in Seq(W), NEW m \in W, InOrder(w), Len(w) <= WindowSize,
         \A i \in DOMAIN w : w[i].at <= m.at, \A j \in DOMAIN w : w[j].id # m.id
  PROVE  Added(Add(w, m), w, m)
<1> USE WindowAssumption
<1> DEFINE s == Append(w, m)
           r == Suffix(s, WindowSize)
           c == IF Len(s) <= WindowSize THEN 0 ELSE Len(s) - WindowSize
           l == Len(w)
<1> HIDE DEF W
<1>1. Add(w, m) = r
  BY DEF Add
<1>2. /\ l \in Nat /\ DOMAIN w = 1..l /\ s \in Seq(W) /\ Len(s) = l + 1 /\ s[l + 1] = m
      /\ \A i \in 1..l : s[i] = w[i]
  BY AppendProperties
<1> HIDE DEF s
<1>3. r \in Seq(W) /\ c \in 0..Len(s) /\ Len(r) = Len(s) - c /\ \A i \in 1..Len(r) : r[i] = s[c + i]
  <2>1. WindowSize \in Nat
    OBVIOUS
  <2>2. LET q == Suffix(s, WindowSize)
            d == IF Len(s) <= WindowSize THEN 0 ELSE Len(s) - WindowSize
        IN  q \in Seq(W) /\ d \in 0..Len(s) /\ Len(q) = Len(s) - d /\ \A i \in 1..Len(q) : q[i] = s[d + i]
    BY <1>2, <2>1, SuffixIs
  <2> QED BY <2>2
<1>4. Len(r) <= WindowSize /\ Len(r) >= 1 /\ c \in 0..l /\ Len(r) = l + 1 - c /\ Len(r) \in Nat
  <2>1. l \in Nat /\ l <= WindowSize /\ WindowSize \in Nat \ {0}
        /\ c = IF l + 1 <= WindowSize THEN 0 ELSE l + 1 - WindowSize
    BY <1>2
  <2>2. Len(r) = l + 1 - c
    BY <1>2, <1>3
  <2> HIDE DEF s, r, c, l
  <2>3. l + 1 - c <= WindowSize /\ l + 1 - c >= 1 /\ c \in 0..l /\ l + 1 - c \in Nat
    BY <2>1
  <2> QED BY <2>2, <2>3
<1>5. DOMAIN r = 1..Len(r)
  BY <1>3
<1>51. c \in Nat /\ WindowSize \in Nat /\ \A n \in 0..l : n < WindowSize => n + 1 <= Len(r)
  <2>1. CASE Len(s) <= WindowSize
    BY <1>2, <1>4, <2>1
  <2>2. CASE ~ (Len(s) <= WindowSize)
    BY <1>2, <1>4, <2>2
  <2> QED BY <2>1, <2>2
<1> HIDE DEF r, c
<1>6. \A i \in 1..l + 1, j \in 1..l + 1 : i < j => s[i].id # s[j].id /\ s[i].at <= s[j].at
  <2> SUFFICES ASSUME NEW i \in 1..l + 1, NEW j \in 1..l + 1, i < j
               PROVE  s[i].id # s[j].id /\ s[i].at <= s[j].at
    OBVIOUS
  <2>1. i \in 1..l
    BY <1>2
  <2>2. CASE j = l + 1
    BY <1>2, <2>1, <2>2
  <2>3. CASE j \in 1..l
    BY <1>2, <2>1, <2>3 DEF InOrder
  <2>4. j = l + 1 \/ j \in 1..l
    BY <1>2
  <2> QED BY <2>2, <2>3, <2>4
<1>7. InOrder(r)
  <2> SUFFICES ASSUME NEW i \in DOMAIN r, NEW j \in DOMAIN r, i < j
               PROVE  r[i].id # r[j].id /\ r[i].at <= r[j].at
    BY DEF InOrder
  <2>1. c + i \in 1..l + 1 /\ c + j \in 1..l + 1 /\ c + i < c + j
    <3>1. i \in 1..Len(r) /\ j \in 1..Len(r)
      BY <1>5
    <3> QED BY <1>2, <1>4, <3>1
  <2>2. r[i] = s[c + i] /\ r[j] = s[c + j]
    BY <1>3, <1>5
  <2> QED BY <1>6, <2>1, <2>2
<1>8. ASSUME NEW i \in DOMAIN r
      PROVE  \/ r[i].id # m.id /\ \E k \in DOMAIN w : r[i] = w[k]
             \/ r[i].id = m.id /\ r[i].text = m.text /\ r[i].at <= m.at
  <2>1. c + i \in 1..l + 1 /\ r[i] = s[c + i]
    <3>1. i \in 1..Len(r)
      BY <1>5
    <3> QED BY <1>2, <1>3, <1>4, <3>1
  <2>2. CASE c + i = l + 1
    <3>1. r[i] = m
      BY <1>2, <2>1, <2>2
    <3>2. m.at \in Nat
      BY DEF W, WindowRecords
    <3> QED BY <3>1, <3>2
  <2>3. CASE c + i \in 1..l
    BY <1>2, <2>1, <2>3
  <2>4. c + i = l + 1 \/ c + i \in 1..l
    BY <1>2, <2>1
  <2> QED BY <2>2, <2>3, <2>4
<1>9. ASSUME NEW n \in 0..l, n < WindowSize
      PROVE  /\ n + 1 <= Len(r) /\ r[Len(r)] = m
             /\ \A k \in 1..n : r[Len(r) - k] = w[l - (k - 1)]
  <2>1. n + 1 <= Len(r)
    BY <1>51, <1>9
  <2>2. Len(r) \in 1..Len(r) /\ c + Len(r) = l + 1
    BY <1>4
  <2>3. r[Len(r)] = m
    BY <1>2, <1>3, <2>2
  <2>4. ASSUME NEW k \in 1..n PROVE r[Len(r) - k] = w[l - (k - 1)]
    <3>1. Len(r) - k \in 1..Len(r) /\ c + (Len(r) - k) = l - (k - 1) /\ l - (k - 1) \in 1..l
      <4>1. k \in Nat /\ k >= 1 /\ k <= n /\ n <= l /\ n \in Nat
        OBVIOUS
      <4> QED BY <1>2, <1>4, <2>1, <4>1
    <3>2. r[Len(r) - k] = s[l - (k - 1)]
      BY <1>3, <3>1
    <3> HIDE DEF l
    <3> QED BY <1>2, <3>1, <3>2
  <2> QED BY <2>1, <2>3, <2>4
<1> QED BY <1>1, <1>3, <1>4, <1>7, <1>8, <1>9 DEF Added

\* Both cases of adding a message to a window in order.
LEMMA AddDoes ==
  ASSUME NEW w \in Seq(W), NEW m \in W, InOrder(w), Len(w) <= WindowSize,
         \A i \in DOMAIN w : w[i].at <= m.at
  PROVE  Added(Add(w, m), w, m)
BY AddReplaces, AddAppends

-----------------------------------------------------------------------------
(* What is remembered, and the facts of the type invariant. *)

\* The window ends with the messages from i to n as they were posted.
RowEnds(w, i, n) ==
  /\ n - i < Len(w)
  /\ \A k \in i..n : LET m == w[Len(w) - (n - k)]
                     IN  m.id = k /\ m.text = Event(k).text /\ m.at >= sentAt[k]
RowDue(i, n) == /\ n - i < WindowSize /\ clock - sentAt[i] <= MaxAge
                /\ AsPosted(i, n) /\ (i..n) \cap Completing = {}

\* Remembered, in the terms of the proofs.
LEMMA RememberedIs == Remembered <=> \A i \in 1..Len(judgedAt) : RowDue(i, Len(judgedAt)) => RowEnds(window, i, Len(judgedAt))
BY DEF Remembered, RowDue, RowEnds

\* The same after a step.
LEMMA RememberedNext ==
  Remembered' <=> \A i \in 1..Len(judgedAt') : RowDue(i, Len(judgedAt))' => RowEnds(window, i, Len(judgedAt))'
BY DEF Remembered, RowDue, RowEnds

\* What the type invariant says about the lengths of the sequences and the events of a script.
LEMMA Lengths ==
  ASSUME ConversationTypeOK
  PROVE  /\ Len(sentAt) \in Nat /\ Len(judgedAt) \in Nat /\ Len(window) \in Nat /\ clock \in Nat
         /\ Sent = 1..Len(sentAt) /\ Judged = 1..Len(judgedAt) /\ Judged \subseteq Sent
         /\ DOMAIN window = 1..Len(window) /\ window \in Seq(W)
         /\ Len(judgedAt) <= Len(sentAt)
         /\ \A e \in Sent : sentAt[e] \in 0..clock
         /\ \A e \in Judged : judgedAt[e] \in 0..clock
<1> USE DEF ConversationTypeOK, Sent, Judged
<1> HIDE DEF WindowRecords
<1>1. Len(sentAt) \in Nat /\ Len(judgedAt) \in Nat /\ Len(window) \in Nat /\ clock \in Nat
  BY WindowAssumption
<1>2. Sent = 1..Len(sentAt) /\ Judged = 1..Len(judgedAt) /\ DOMAIN window = 1..Len(window)
  OBVIOUS
<1>3. Judged \subseteq Sent
  BY <1>1, <1>2
<1>4. (\A e \in Sent : sentAt[e] \in 0..clock) /\ (\A e \in Judged : judgedAt[e] \in 0..clock)
  OBVIOUS
<1>5. window \in Seq(W) /\ Len(judgedAt) <= Len(sentAt)
  BY DEF W
<1> QED BY <1>1, <1>2, <1>3, <1>4, <1>5

\* The events that were sent are messages, and an edit names an earlier one.
LEMMA Scripted ==
  ASSUME ConversationTypeOK
  PROVE  \A e \in Sent : /\ Event(e) \in EventRecords /\ Event(e).id \in 1..e
                         /\ Event(Event(e).id).id = Event(e).id
<1>1. script \in Seq(EventRecords) /\ \A e \in DOMAIN script : script[e].id \in 1..e /\ script[script[e].id].id = script[e].id
  BY ScriptsAssumption DEF ConversationTypeOK
<1>2. Sent \subseteq DOMAIN script
  <2>1. Sent = 1..Len(sentAt) /\ Len(sentAt) \in Nat
    BY Lengths
  <2>2. Len(sentAt) <= Len(script) /\ Len(script) \in Nat /\ DOMAIN script = 1..Len(script)
    <3> HIDE DEF EventRecords
    <3> QED BY <1>1 DEF ConversationTypeOK
  <2> QED BY <2>1, <2>2
<1>3. \A e \in DOMAIN script : script[e] \in EventRecords
  <2> HIDE DEF EventRecords
  <2> QED BY <1>1
<1> HIDE DEF EventRecords
<1> QED BY <1>1, <1>2, <1>3 DEF Event

\* What is in the window was judged, and not after now.
LEMMA ItemsWereJudged ==
  ASSUME ConversationTypeOK, WindowIsCurrent
  PROVE  \A i \in DOMAIN window : window[i].id \in Judged
<1> SUFFICES ASSUME NEW i \in DOMAIN window PROVE window[i].id \in Judged
  OBVIOUS
<1>1. PICK e \in Judged : Event(e).id = window[i].id
  BY DEF WindowIsCurrent, ToSet
<1>2. Event(e).id \in 1..e /\ e \in 1..Len(judgedAt) /\ Len(judgedAt) \in Nat
  BY Scripted, Lengths
<1>3. Judged = 1..Len(judgedAt)
  BY Lengths
<1> QED BY <1>1, <1>2, <1>3

\* A window that keeps its end keeps the row.
LEMMA RowKept ==
  ASSUME NEW w, NEW r, NEW n \in Nat, NEW i \in 1..n, EndsAs(r, w, n - i + 1), RowEnds(w, i, n), Len(r) \in Nat
  PROVE  RowEnds(r, i, n)
<1>1. n - i < Len(r)
  BY DEF EndsAs
<1>2. \A k \in i..n : n - k \in 0..(n - i + 1) - 1
  OBVIOUS
<1>3. \A k \in i..n : r[Len(r) - (n - k)] = w[Len(w) - (n - k)]
  BY <1>2 DEF EndsAs
<1> QED BY <1>1, <1>3 DEF RowEnds

\* A step that takes messages out of the window, and judges none.
LEMMA LessIsRemembered ==
  ASSUME ConversationInv, UNCHANGED <<script, clock, sentAt, judgedAt>>, PartOf(window', window),
         Completing' = Completing, gone \subseteq gone',
         \A i \in 1..Len(judgedAt) :
           RowEnds(window, i, Len(judgedAt)) /\ AsPosted(i, Len(judgedAt))'
             => EndsAs(window', window, Len(judgedAt) - i + 1)
  PROVE  WindowInOrder' /\ WindowIsCurrent' /\ Remembered'
<1> USE DEF ConversationInv
<1>1. /\ window \in Seq(W) /\ window' \in Seq(W) /\ Len(window') <= Len(window)
      /\ Len(window) \in Nat /\ Len(window') \in Nat
  <2> HIDE DEF W
  <2>1. window \in Seq(W) /\ window' \in Seq(W) /\ Len(window') <= Len(window)
    BY Lengths DEF PartOf
  <2> QED BY <2>1
<1>2. \A i \in DOMAIN window' : \E j \in DOMAIN window : window'[i] = window[j]
  BY <1>1, PartItems
<1>3. InOrder(window')
  <2>1. InOrder(window)
    BY DEF WindowInOrder, InOrder
  <2> QED BY <1>1, <2>1, PartInOrder
<1>4. WindowInOrder'
  <2>1. Len(window') <= WindowSize
    BY <1>1, WindowAssumption DEF WindowInOrder
  <2>2. \A i \in DOMAIN window' : window'[i].at <= clock'
    BY <1>2 DEF WindowInOrder
  <2>3. \A i, j \in DOMAIN window' : i < j => window'[i].id # window'[j].id
                                            /\ window'[i].at <= window'[j].at
    BY <1>3 DEF InOrder
  <2>4. /\ \A i, j \in Sent' : i < j => sentAt'[i] <= sentAt'[j]
        /\ \A e \in Judged' : sentAt'[e] <= judgedAt'[e]
    BY DEF WindowInOrder, Sent, Judged
  <2> QED BY <2>1, <2>2, <2>3, <2>4 DEF WindowInOrder
<1>5. WindowIsCurrent'
  <2> SUFFICES ASSUME NEW m \in ToSet(window')
               PROVE  /\ ReadsAs([id |-> m.id, text |-> m.text], Len(judgedAt))'
                      /\ \E e \in Judged' : script'[e].id = m.id /\ m.at <= judgedAt'[e]
    BY DEF WindowIsCurrent, ToSet, Event
  <2>1. m \in ToSet(window)
    BY <1>2 DEF ToSet
  <2>2. ReadsAs([id |-> m.id, text |-> m.text], Len(judgedAt))
        /\ \E e \in Judged : Event(e).id = m.id /\ m.at <= judgedAt[e]
    BY <2>1 DEF WindowIsCurrent
  <2> QED BY <2>2 DEF ReadsAs, Judged, Sent, Event
<1>6. Remembered'
  <2> DEFINE n == Len(judgedAt)
  <2>0. n \in Nat
    BY Lengths
  <2> SUFFICES ASSUME NEW i \in 1..n, RowDue(i, n)' PROVE RowEnds(window, i, n)'
    BY RememberedNext
  <2>1. RowDue(i, n)
    BY DEF RowDue, AsPosted, Event, Sent
  <2>2. RowEnds(window, i, n)
    BY <2>1, RememberedIs
  <2>3. AsPosted(i, n)'
    BY DEF RowDue
  <2>4. RowEnds(window', i, n)
    BY <1>1, <2>0, <2>2, <2>3, RowKept
  <2> QED BY <2>4 DEF RowEnds, Event
<1> QED BY <1>4, <1>5, <1>6

\* Removing messages from the window does that, as the row is not of those that are gone.
LEMMA RemovalIsRemembered ==
  ASSUME ConversationInv, UNCHANGED <<script, clock, sentAt, judgedAt>>, NEW ids,
         window' = Others(window, ids), gone' = gone \cup ids, Completing' = Completing
  PROVE  WindowInOrder' /\ WindowIsCurrent' /\ Remembered'
<1> USE DEF ConversationInv
<1>1. window \in Seq(W) /\ Len(window) \in Nat
  BY Lengths
<1>2. PartOf(window', window)
  BY <1>1, OthersArePart
<1> DEFINE n == Len(judgedAt)
<1>3. ASSUME NEW i \in 1..n, RowEnds(window, i, n), AsPosted(i, n)'
      PROVE  EndsAs(window', window, n - i + 1)
  <2>1. n \in Nat /\ n - i + 1 \in 0..Len(window)
    BY <1>1, <1>3, Lengths DEF RowEnds
  <2>2. ASSUME NEW k \in 0..(n - i + 1) - 1 PROVE window[Len(window) - k].id \notin ids
    <3>1. n - k \in i..n /\ n - (n - k) = k
      BY <2>1
    <3>2. window[Len(window) - k].id = n - k
      BY <1>3, <3>1 DEF RowEnds
    <3>3. n - k \notin gone'
      BY <1>3, <3>1 DEF AsPosted
    <3> QED BY <3>2, <3>3
  <2> QED BY <1>1, <2>1, <2>2, OthersEnd
<1> QED BY <1>2, <1>3, LessIsRemembered

-----------------------------------------------------------------------------
(* Steps other than triage. *)

ShownRecords == EventRecords \cup WindowRecords

\* The inductive invariant holds when the process starts.
LEMMA InitInv == ASSUME Init PROVE ConversationInv
<1> USE DEF Init, ConversationInv
<1>1. ConversationTypeOK
  <2>1. clock \in 0..MaxTime
    BY WindowAssumption
  <2>2. sentAt \in Seq(0..clock) /\ judgedAt \in Seq(0..clock) /\ window \in Seq(WindowRecords)
        /\ Len(judgedAt) = 0 /\ Len(sentAt) = 0
    OBVIOUS
  <2>3. Len(script) \in Nat
    <3>1. script \in Seq(EventRecords)
      BY ScriptsAssumption
    <3> HIDE DEF EventRecords
    <3> QED BY <3>1
  <2>4. deep \in Seq(Seq(EventRecords \cup WindowRecords)) /\ DOMAIN deep = DOMAIN judgedAt
    OBVIOUS
  <2> QED BY <2>1, <2>2, <2>3, <2>4 DEF ConversationTypeOK, Judged
<1>2. WindowInOrder
  <2>1. DOMAIN window = {} /\ Sent = {} /\ Judged = {} /\ Len(window) <= WindowSize
    BY WindowAssumption DEF Sent, Judged
  <2> QED BY <2>1 DEF WindowInOrder
<1>3. WindowIsCurrent
  BY DEF WindowIsCurrent, ToSet
<1>4. Remembered
  BY DEF Remembered
<1> QED BY <1>1, <1>2, <1>3, <1>4

\* Posting and editing keep the inductive invariant.
LEMMA WriteInv == ASSUME ConversationInv, Write PROVE ConversationInv'
<1> USE DEF ConversationInv
<1> DEFINE e == Len(sentAt) + 1
<1>1. /\ e \in DOMAIN script /\ script[e].id \notin gone
      /\ sentAt' = Append(sentAt, clock)
      /\ UNCHANGED <<script, clock, judgedAt, window, gone, deep, copies, hits>>
  BY DEF Write
<1>2. /\ Len(sentAt) \in Nat /\ Len(judgedAt) \in Nat /\ clock \in Nat /\ Sent = 1..Len(sentAt)
      /\ Judged = 1..Len(judgedAt) /\ Len(judgedAt) <= Len(sentAt) /\ Judged \subseteq Sent
      /\ sentAt \in Seq(0..clock) /\ \A d \in Sent : sentAt[d] \in 0..clock
  BY Lengths DEF ConversationTypeOK
<1>3. /\ sentAt' \in Seq(0..clock) /\ Len(sentAt') = e /\ sentAt'[e] = clock
      /\ \A d \in Sent : sentAt'[d] = sentAt[d]
  <2>1. clock \in 0..clock
    BY <1>2
  <2> QED BY <1>1, <1>2, <2>1, AppendProperties
<1>4. Sent' = 1..e
  BY <1>3 DEF Sent
<1>5. e <= Len(script)
  <2>1. script \in Seq(EventRecords)
    BY ScriptsAssumption DEF ConversationTypeOK
  <2> HIDE DEF EventRecords
  <2> QED BY <1>1, <2>1
<1>6. ConversationTypeOK'
  <2>1. Len(judgedAt') <= Len(sentAt') /\ Len(sentAt') <= Len(script')
    BY <1>1, <1>2, <1>3, <1>5
  <2>2. Judged' = Judged
    BY <1>1 DEF Judged
  <2> QED BY <1>1, <1>3, <2>1, <2>2 DEF ConversationTypeOK
<1>7. WindowInOrder'
  <2>1. ASSUME NEW i \in Sent', NEW j \in Sent', i < j PROVE sentAt'[i] <= sentAt'[j]
    <3>1. i \in Sent
      BY <1>2, <1>4, <2>1
    <3>2. CASE j = e
      BY <1>2, <1>3, <3>1, <3>2
    <3>3. CASE j \in Sent
      BY <1>3, <2>1, <3>1, <3>3 DEF WindowInOrder
    <3>4. j = e \/ j \in Sent
      BY <1>2, <1>4
    <3> QED BY <3>2, <3>3, <3>4
  <2>2. ASSUME NEW d \in Judged' PROVE sentAt'[d] <= judgedAt'[d]
    <3>1. d \in Judged /\ d \in Sent
      BY <1>1, <1>2 DEF Judged
    <3> QED BY <1>1, <1>3, <3>1 DEF WindowInOrder
  <2> QED BY <1>1, <2>1, <2>2 DEF WindowInOrder
<1>8. Sent \subseteq Sent'
  BY <1>2, <1>4
<1>9. Completing' = Completing /\ Judged' = Judged
  BY <1>1 DEF Completing, RuleHits, Judged
<1>10. WindowIsCurrent'
  BY <1>1, <1>8, <1>9 DEF WindowIsCurrent, ReadsAs, Event
<1>11. Remembered'
  <2> DEFINE n == Len(judgedAt)
  <2> SUFFICES ASSUME NEW i \in 1..n, RowDue(i, n)' PROVE RowEnds(window, i, n)'
    BY <1>1, RememberedNext
  <2>1. 1..n \subseteq Sent
    BY <1>2
  <2>2. RowDue(i, n)
    <3>1. sentAt'[i] = sentAt[i]
      BY <1>3, <2>1
    <3> QED BY <1>1, <1>8, <1>9, <3>1 DEF RowDue, AsPosted, Event
  <2>3. RowEnds(window, i, n)
    BY <2>2, RememberedIs
  <2>4. \A k \in i..n : sentAt'[k] = sentAt[k]
    <3>1. ASSUME NEW k \in i..n PROVE k \in 1..n
      BY <1>2
    <3> QED BY <1>3, <2>1, <3>1
  <2> QED BY <1>1, <2>3, <2>4 DEF RowEnds, Event
<1> QED BY <1>6, <1>7, <1>10, <1>11

\* The clock keeps the inductive invariant.
LEMMA TickInv == ASSUME ConversationInv, Tick PROVE ConversationInv'
<1> USE DEF ConversationInv
<1>1. clock < MaxTime /\ clock' = clock + 1 /\ UNCHANGED <<script, sentAt, judgedAt, window, gone, deep, copies, hits>>
  BY DEF Tick
<1>2. clock \in 0..MaxTime /\ MaxTime \in Nat /\ MaxAge \in Nat
  BY WindowAssumption DEF ConversationTypeOK
<1>3. ConversationTypeOK'
  <2>1. clock' \in 0..MaxTime' /\ 0..clock \subseteq 0..clock'
    BY <1>1, <1>2
  <2>2. Seq(0..clock) \subseteq Seq(0..clock')
    <3> DEFINE A == 0..clock
               B == 0..clock'
    <3>1. A \subseteq B
      BY <2>1
    <3> HIDE DEF A, B
    <3>2. ASSUME NEW s \in Seq(A) PROVE s \in Seq(B)
      <4>1. Len(s) \in Nat /\ s \in [1..Len(s) -> B]
        BY <3>1
      <4> QED BY <4>1, IsSequence
    <3> QED BY <3>2 DEF A, B
  <2>3. Judged' = Judged
    BY <1>1 DEF Judged
  <2> QED BY <1>1, <2>1, <2>2, <2>3 DEF ConversationTypeOK
<1>4. WindowInOrder'
  <2>1. \A i \in DOMAIN window : window[i].at <= clock + 1
    <3>1. \A i \in DOMAIN window : window[i].at \in Nat /\ window[i].at <= clock
      <4>1. \A i \in DOMAIN window : window[i] \in W
        <5> HIDE DEF W
        <5> QED BY Lengths
      <4>2. \A m \in W : m.at \in Nat
        BY DEF W, WindowRecords
      <4> HIDE DEF W
      <4> QED BY <4>1, <4>2 DEF WindowInOrder
    <3> QED BY <1>2, <3>1
  <2> QED BY <1>1, <2>1 DEF WindowInOrder, Sent, Judged
<1>5. Completing' = Completing /\ Judged' = Judged /\ Sent' = Sent
  BY <1>1 DEF Completing, RuleHits, Judged, Sent
<1>6. WindowIsCurrent'
  BY <1>1, <1>5 DEF WindowIsCurrent, ReadsAs, Event
<1>7. Remembered'
  <2> DEFINE n == Len(judgedAt)
  <2> SUFFICES ASSUME NEW i \in 1..n, RowDue(i, n)' PROVE RowEnds(window, i, n)'
    BY <1>1, RememberedNext
  <2>1. sentAt[i] \in Nat
    BY Lengths
  <2>2. RowDue(i, n)
    <3>1. clock - sentAt[i] <= MaxAge
      BY <1>1, <1>2, <2>1 DEF RowDue
    <3> QED BY <1>1, <1>5, <3>1 DEF RowDue, AsPosted, Event
  <2>3. RowEnds(window, i, n)
    BY <2>2, RememberedIs
  <2> QED BY <1>1, <2>3 DEF RowEnds, Event
<1> QED BY <1>3, <1>4, <1>6, <1>7

\* What an answer does to the state.
AnswerTakes(ids) == window' = Others(window, ids) /\ gone' = gone \cup ids
ByModel == \E parts, entity, value :
             hits' = hits \cup {[by |-> "model", parts |-> parts, entity |-> entity,
                                 value |-> value, upTo |-> Len(judgedAt')]}

\* What an answer of the model may change: the window, by removing messages.
LEMMA AnswerIs ==
  ASSUME NEW e, NEW a, Answer(e, a)
  PROVE  /\ UNCHANGED <<script, clock, sentAt, judgedAt>>
         /\ deep' = [deep EXCEPT ![e] = NoChain]
         /\ (window' = window /\ gone' = gone) \/ \E ids : AnswerTakes(ids)
         /\ hits' = hits \/ ByModel
<1> DEFINE chain == deep[e]
           found == RulesFind[Last(chain).text]
           split == RuleSplit(chain, SplitHit(Texts(chain)))
           items == Items(chain, a)
           encoded == Encoded(Last(chain).text, a)
           single == found \o SingleFindings(Last(chain).text, a.single)
           ruled == Ruled(found, split)
           windowed == Windowed(chain, items)
           findings == IF Decide(encoded) # "allow" THEN encoded ELSE single
<1>1. Run(chain, ruled, items, windowed, encoded, single)
  BY DEF Answer, RunOn
<1>2. UNCHANGED <<script, clock, sentAt, judgedAt>> /\ deep' = [deep EXCEPT ![e] = NoChain]
  BY DEF Answer
<1> HIDE DEF chain, ruled, items, windowed, encoded, single
<1>3. \/ Keep(window)
      \/ RemoveParts(chain, window, items[1].numbers, "model", items[1].entity, items[1].value)
      \/ RemoveOne(Last(chain), window, Decide(findings), findings)
  BY <1>1 DEF Run
<1> HIDE DEF findings
<1>4. CASE Keep(window)
  BY <1>2, <1>4 DEF Keep
<1>5. CASE RemoveParts(chain, window, items[1].numbers, "model", items[1].entity, items[1].value)
  BY <1>2, <1>5 DEF RemoveParts, AnswerTakes, ByModel
<1>6. CASE RemoveOne(Last(chain), window, Decide(findings), findings)
  BY <1>2, <1>6 DEF RemoveOne, AnswerTakes
<1> QED BY <1>3, <1>4, <1>5, <1>6

\* An answer of the model keeps the inductive invariant.
LEMMA AnswerInv ==
  ASSUME ConversationInv, NEW e \in DOMAIN deep, NEW a, Answer(e, a)
  PROVE  ConversationInv'
<1> USE DEF ConversationInv
<1>1. /\ UNCHANGED <<script, clock, sentAt, judgedAt>> /\ deep' = [deep EXCEPT ![e] = NoChain]
      /\ (window' = window /\ gone' = gone) \/ \E ids : AnswerTakes(ids)
      /\ hits' = hits \/ ByModel
  BY AnswerIs
<1>2. RuleHits' = RuleHits /\ \A h \in hits' : h \in hits \/ h.upTo = Len(judgedAt)
  <2>1. CASE hits' = hits
    BY <2>1 DEF RuleHits
  <2>2. CASE ByModel
    <3>1. PICK parts, entity, value :
            hits' = hits \cup {[by |-> "model", parts |-> parts, entity |-> entity,
                                value |-> value, upTo |-> Len(judgedAt')]}
      BY <2>2 DEF ByModel
    <3> DEFINE h == [by |-> "model", parts |-> parts, entity |-> entity, value |-> value,
                     upTo |-> Len(judgedAt')]
    <3>2. h.by # "rules" /\ h.upTo = Len(judgedAt)
      BY <1>1
    <3>3. hits' = hits \cup {h}
      BY <3>1
    <3> HIDE DEF h
    <3> QED BY <3>2, <3>3 DEF RuleHits
  <2> QED BY <1>1, <2>1, <2>2
<1>3. Completing' = Completing
  BY <1>2 DEF Completing
<1>4. WindowInOrder' /\ WindowIsCurrent' /\ Remembered'
  <2>1. CASE window' = window /\ gone' = gone
    <3>1. PartOf(window', window)
      BY <2>1, Lengths, PartOfSelf
    <3>2. \A i \in 1..Len(judgedAt) : RowEnds(window, i, Len(judgedAt))
             => EndsAs(window', window, Len(judgedAt) - i + 1)
      BY <2>1, Lengths DEF RowEnds, EndsAs
    <3> QED BY <1>1, <1>3, <2>1, <3>1, <3>2, LessIsRemembered
  <2>2. CASE \E ids : AnswerTakes(ids)
    BY <1>1, <1>3, <2>2, RemovalIsRemembered DEF AnswerTakes
  <2> QED BY <1>1, <2>1, <2>2
<1>5. window' \in Seq(WindowRecords)
  <2>1. window \in Seq(W)
    BY Lengths
  <2>2. \A ids : Others(window, ids) \in Seq(W)
    BY <2>1, OthersArePart DEF PartOf
  <2> QED BY <1>1, <2>1, <2>2 DEF AnswerTakes, W
<1>6. deep' \in Seq(Seq(ShownRecords)) /\ DOMAIN deep' = Judged'
  <2> DEFINE S == Seq(ShownRecords)
  <2>1. NoChain \in S /\ deep \in Seq(S)
    BY DEF NoChain, ConversationTypeOK, ShownRecords
  <2>2. DOMAIN deep' = DOMAIN deep
    BY <1>1
  <2>3. deep' \in Seq(S)
    <3> HIDE DEF S
    <3> QED BY <1>1, <2>1, ExceptSeq
  <2> QED BY <1>1, <2>2, <2>3 DEF Judged, ConversationTypeOK
<1>7. \A h \in hits' : h.upTo \in Judged'
  <2>1. Len(judgedAt) \in Judged
    <3>1. e \in 1..Len(judgedAt) /\ Len(judgedAt) \in Nat /\ Judged = 1..Len(judgedAt)
      BY Lengths DEF ConversationTypeOK
    <3> QED BY <3>1
  <2>2. Judged' = Judged
    BY <1>1 DEF Judged
  <2> QED BY <1>2, <2>1, <2>2 DEF ConversationTypeOK
<1>8. ConversationTypeOK'
  BY <1>1, <1>5, <1>6, <1>7 DEF ConversationTypeOK, ShownRecords
<1> QED BY <1>4, <1>8

-----------------------------------------------------------------------------
(* Triage. *)

\* What triage has before it, and what it does.
Reviewed == Event(Len(judgedAt) + 1)
RecentNow == Recent(window, clock)
ChainNow == Chain(RecentNow, Reviewed)
HitNow == SplitHit(Texts(ChainNow))
ReviewedItem == [id |-> Reviewed.id, text |-> Reviewed.text, at |-> clock]

JudgeTakes == /\ Len(judgedAt) + 1 \in Sent
              /\ judgedAt' = Append(judgedAt, clock)
              /\ UNCHANGED <<script, clock, sentAt>>
JudgeAdds == /\ FastCheck(RulesFind[Reviewed.text], RuleSplit(ChainNow, HitNow)) = Pol!NoAction
             /\ window' = Add(RecentNow, ReviewedItem)
             /\ gone' = gone /\ hits' = hits
             /\ deep' = Append(deep, ChainNow)
JudgeRemovesOne == /\ window' = Others(RecentNow, {Reviewed.id})
                   /\ gone' = gone \cup {Reviewed.id}
                   /\ hits' = hits
                   /\ deep' = Append(deep, NoChain)
RuleHit == [by |-> "rules", parts |-> Parts(ChainNow, HitNow.used), entity |-> HitNow.entity,
            value |-> <<>>, upTo |-> Len(judgedAt) + 1]
JudgeRemovesParts == /\ window' = Others(RecentNow, Ids(ChainNow, HitNow.used))
                     /\ gone' = gone \cup Ids(ChainNow, HitNow.used)
                     /\ hits' = hits \cup {RuleHit}
                     /\ deep' = Append(deep, NoChain)

\* Triage has three outcomes: the message is added, removed, or removed with others.
LEMMA JudgeIs ==
  ASSUME ConversationTypeOK, Judge
  PROVE  JudgeTakes /\ (JudgeAdds \/ JudgeRemovesOne \/ JudgeRemovesParts)
<1>1. JudgeTakes /\ Len(judgedAt') = Len(judgedAt) + 1
  <2>1. JudgeTakes
    BY DEF Judge, JudgeTakes
  <2>2. judgedAt \in Seq(0..clock)
    BY DEF ConversationTypeOK
  <2> QED BY <2>1, <2>2 DEF JudgeTakes
<1>2. TriageIn(Reviewed, RecentNow, ChainNow)
  BY DEF Judge, Reviewed, RecentNow, ChainNow
<1> DEFINE ev == Reviewed
           found == RulesFind[ev.text]
           verdict == FastCheck(found, RuleSplit(ChainNow, HitNow))
<1>3. Triage(ev, RecentNow, ChainNow, found, HitNow)
  BY <1>2 DEF TriageIn, HitNow
<1> HIDE DEF ev, found, verdict
<1>4. \/ verdict = Pol!NoAction /\ Keep(Add(RecentNow, [id |-> ev.id, text |-> ev.text, at |-> clock]))
                                /\ deep' = Append(deep, ChainNow)
      \/ RemoveOne(ev, RecentNow, verdict, found) /\ deep' = Append(deep, NoChain)
      \/ RemoveParts(ChainNow, RecentNow, HitNow.used, "rules", HitNow.entity, <<>>) /\ deep' = Append(deep, NoChain)
  BY <1>3 DEF Triage, verdict
<1>5. CASE verdict = Pol!NoAction /\ Keep(Add(RecentNow, [id |-> ev.id, text |-> ev.text, at |-> clock]))
                                  /\ deep' = Append(deep, ChainNow)
  BY <1>1, <1>5 DEF Keep, JudgeAdds, ReviewedItem, verdict, found, ev
<1>6. CASE RemoveOne(ev, RecentNow, verdict, found) /\ deep' = Append(deep, NoChain)
  BY <1>1, <1>6 DEF RemoveOne, JudgeRemovesOne, ev
<1>7. CASE RemoveParts(ChainNow, RecentNow, HitNow.used, "rules", HitNow.entity, <<>>) /\ deep' = Append(deep, NoChain)
  BY <1>1, <1>7 DEF RemoveParts, JudgeRemovesParts, RuleHit
<1> QED BY <1>1, <1>4, <1>5, <1>6, <1>7

\* What is common to the three outcomes.
LEMMA JudgeCommon ==
  ASSUME ConversationInv, JudgeTakes
  PROVE  /\ Len(judgedAt') = Len(judgedAt) + 1 /\ Judged' = 1..Len(judgedAt) + 1
         /\ judgedAt' \in Seq(0..clock) /\ judgedAt'[Len(judgedAt) + 1] = clock
         /\ \A e \in Judged : judgedAt'[e] = judgedAt[e]
         /\ Sent' = Sent /\ Judged \subseteq Judged'
         /\ Len(judgedAt) + 1 <= Len(sentAt)
         /\ Reviewed \in EventRecords /\ Reviewed.id \in 1..Len(judgedAt) + 1
         /\ ReviewedItem \in W
         /\ \A e \in Judged' : sentAt'[e] <= judgedAt'[e]
<1> USE DEF ConversationInv, JudgeTakes
<1>1. Len(judgedAt) \in Nat /\ clock \in Nat /\ Judged = 1..Len(judgedAt) /\ judgedAt \in Seq(0..clock)
  BY Lengths DEF ConversationTypeOK
<1>2. clock \in 0..clock
  BY <1>1
<1>3. /\ judgedAt' \in Seq(0..clock) /\ Len(judgedAt') = Len(judgedAt) + 1
      /\ judgedAt'[Len(judgedAt) + 1] = clock /\ \A e \in Judged : judgedAt'[e] = judgedAt[e]
  BY <1>1, <1>2, AppendProperties
<1>4. Judged' = 1..Len(judgedAt) + 1
  BY <1>3 DEF Judged
<1>5. Sent' = Sent /\ Sent = 1..Len(sentAt) /\ Len(judgedAt) + 1 <= Len(sentAt)
  BY <1>1, Lengths DEF Sent
<1>6. Reviewed \in EventRecords /\ Reviewed.id \in 1..Len(judgedAt) + 1
  BY Scripted DEF Reviewed
<1>7. ReviewedItem \in W
  BY <1>1, <1>6 DEF ReviewedItem, W, WindowRecords, EventRecords
<1>8. ASSUME NEW e \in Judged' PROVE sentAt'[e] <= judgedAt'[e]
  <2>1. CASE e = Len(judgedAt) + 1
    BY <1>3, <1>5, <2>1, Lengths
  <2>2. CASE e \in Judged
    BY <1>3, <2>2 DEF WindowInOrder
  <2>3. e = Len(judgedAt) + 1 \/ e \in Judged
    BY <1>1, <1>4
  <2> QED BY <2>1, <2>2, <2>3
<1>9. Judged \subseteq Judged'
  BY <1>1, <1>4
<1> QED BY <1>3, <1>4, <1>5, <1>6, <1>7, <1>8, <1>9

\* The window as it is looked at.
LEMMA RecentFacts ==
  ASSUME ConversationInv
  PROVE  /\ window \in Seq(W) /\ PartOf(RecentNow, window) /\ RecentNow \in Seq(W)
         /\ Len(RecentNow) <= Len(window) /\ Len(RecentNow) \in Nat
         /\ Len(RecentNow) <= WindowSize
         /\ DOMAIN RecentNow = 1..Len(RecentNow)
         /\ InOrder(RecentNow)
         /\ \A i \in DOMAIN RecentNow : \E j \in DOMAIN window : RecentNow[i] = window[j]
         /\ \A i \in DOMAIN RecentNow : clock - RecentNow[i].at <= MaxAge /\ RecentNow[i].at <= clock
         /\ \A n \in 0..Len(window) : (\A k \in 0..n - 1 : clock - window[Len(window) - k].at <= MaxAge)
                                      => EndsAs(RecentNow, window, n)
<1> USE DEF ConversationInv
<1> HIDE DEF W
<1>1. window \in Seq(W) /\ clock \in Nat /\ Len(window) \in Nat
  BY Lengths
<1>2. InOrder(window)
  BY DEF WindowInOrder, InOrder
<1>3. /\ PartOf(RecentNow, window)
      /\ \A i \in DOMAIN RecentNow : clock - RecentNow[i].at <= MaxAge
      /\ \A n \in 0..Len(window) : (\A k \in 0..n - 1 : clock - window[Len(window) - k].at <= MaxAge)
                                   => EndsAs(RecentNow, window, n)
  BY <1>1, <1>2, RecentIs DEF RecentNow
<1>4. RecentNow \in Seq(W) /\ Len(RecentNow) <= Len(window)
  BY <1>3 DEF PartOf
<1>5. InOrder(RecentNow)
  BY <1>1, <1>2, <1>3, PartInOrder
<1>6. \A i \in DOMAIN RecentNow : \E j \in DOMAIN window : RecentNow[i] = window[j]
  BY <1>1, <1>3, PartItems
<1>7. Len(window) <= WindowSize /\ \A j \in DOMAIN window : window[j].at <= clock
  BY DEF WindowInOrder
<1>8. DOMAIN RecentNow = 1..Len(RecentNow) /\ Len(RecentNow) \in Nat
  BY <1>4
<1>9. Len(RecentNow) <= WindowSize
  BY <1>1, <1>4, <1>7, <1>8, WindowAssumption
<1> QED BY <1>1, <1>3, <1>4, <1>5, <1>6, <1>7, <1>8, <1>9

\* An item stays current when another message is judged, or one that completes a number.
LEMMA CurrentStays ==
  ASSUME ConversationInv, JudgeTakes, Completing \subseteq Completing',
         NEW m \in ToSet(window), m.id # Reviewed.id \/ Len(judgedAt) + 1 \in Completing'
  PROVE  /\ ReadsAs([id |-> m.id, text |-> m.text], Len(judgedAt))'
         /\ \E e \in Judged' : script'[e].id = m.id /\ m.at <= judgedAt'[e]
<1> USE DEF ConversationInv
<1> DEFINE n == Len(judgedAt)
<1>1. /\ ReadsAs([id |-> m.id, text |-> m.text], n)
      /\ \E e \in Judged : Event(e).id = m.id /\ m.at <= judgedAt[e]
  BY DEF WindowIsCurrent
<1>2. /\ Len(judgedAt') = n + 1 /\ Judged \subseteq Judged' /\ Sent' = Sent
      /\ \A e \in Judged : judgedAt'[e] = judgedAt[e]
      /\ n \in Nat /\ Sent \subseteq Nat /\ script' = script
  BY JudgeCommon, Lengths DEF JudgeTakes
<1>3. \E e \in Judged' : script'[e].id = m.id /\ m.at <= judgedAt'[e]
  BY <1>1, <1>2 DEF Event
<1>4. PICK e \in Sent : /\ Event(e) = [id |-> m.id, text |-> m.text]
                        /\ \A d \in e + 1..n : Event(d).id = m.id => d \in Completing
  BY <1>1 DEF ReadsAs
<1>5. \A d \in e + 1..n + 1 : script'[d].id = m.id => d \in Completing'
  <2> SUFFICES ASSUME NEW d \in e + 1..n + 1, script'[d].id = m.id PROVE d \in Completing'
    OBVIOUS
  <2>1. CASE d = n + 1
    BY <1>2, <2>1 DEF Reviewed, Event
  <2>2. CASE d # n + 1
    <3>1. d \in e + 1..n
      BY <1>2, <2>2
    <3> QED BY <1>2, <1>4, <3>1 DEF Event
  <2> QED BY <2>1, <2>2
<1> HIDE DEF n
<1>6. ReadsAs([id |-> m.id, text |-> m.text], Len(judgedAt))'
  BY <1>2, <1>4, <1>5 DEF ReadsAs, Event
<1> QED BY <1>3, <1>6

\* What ends the window and is not too old, ends what is looked at.
LEMMA RowIsRecent ==
  ASSUME ConversationInv, JudgeTakes, NEW i \in 1..Len(judgedAt),
         Len(judgedAt) - i < WindowSize, clock - sentAt[i] <= MaxAge,
         AsPosted(i, Len(judgedAt)), (i..Len(judgedAt)) \cap Completing = {}
  PROVE  RowEnds(RecentNow, i, Len(judgedAt))
<1> USE DEF ConversationInv
<1> DEFINE n == Len(judgedAt)
<1>1. n \in Nat /\ clock \in Nat /\ MaxAge \in Nat /\ Sent = 1..Len(sentAt) /\ n <= Len(sentAt) /\ Len(sentAt) \in Nat
  BY Lengths, WindowAssumption
<1>2. RowEnds(window, i, n)
  BY RememberedIs DEF RowDue
<1>3. Len(window) \in Nat /\ n - i + 1 \in 0..Len(window)
  BY <1>1, <1>2, Lengths DEF RowEnds
<1>4. ASSUME NEW k \in 0..(n - i + 1) - 1 PROVE clock - window[Len(window) - k].at <= MaxAge
  <2> DEFINE b == n - k
             a == window[Len(window) - (n - b)].at
  <2>1. b \in i..n /\ n - b = k /\ b \in Sent /\ i \in Sent /\ (i = b \/ i < b)
    BY <1>1
  <2>2. a >= sentAt[b] /\ a = window[Len(window) - k].at
    BY <1>2, <2>1 DEF RowEnds
  <2>3. sentAt[i] <= sentAt[b] /\ sentAt[i] \in Nat /\ sentAt[b] \in Nat
    <3> HIDE DEF b
    <3>1. sentAt[i] \in Nat /\ sentAt[b] \in Nat
      BY <1>1, <2>1, Lengths
    <3>2. i < b => sentAt[i] <= sentAt[b]
      BY <2>1 DEF WindowInOrder
    <3>3. i = b => sentAt[i] <= sentAt[b]
      BY <3>1
    <3> QED BY <2>1, <3>1, <3>2, <3>3
  <2>4. a \in Nat
    <3>1. Len(window) - k \in DOMAIN window
      BY <1>1, <1>3, Lengths
    <3>2. window[Len(window) - k] \in W
      <4> HIDE DEF W
      <4> QED BY <3>1, RecentFacts
    <3> QED BY <2>2, <3>2 DEF W, WindowRecords
  <2> HIDE DEF a, b
  <2>5. clock - a <= MaxAge
    <3> DEFINE x == sentAt[i]
               y == sentAt[b]
    <3>1. clock - x <= MaxAge /\ x <= y /\ y <= a /\ x \in Nat /\ y \in Nat
      BY <2>2, <2>3
    <3> HIDE DEF x, y
    <3> QED BY <1>1, <2>4, <3>1
  <2> QED BY <2>2, <2>5
<1>5. EndsAs(RecentNow, window, n - i + 1)
  BY <1>3, <1>4, RecentFacts
<1> QED BY <1>1, <1>2, <1>5, RecentFacts, RowKept

\* The first outcome: the message is added.
LEMMA JudgeAddsInv ==
  ASSUME ConversationInv, JudgeTakes, JudgeAdds
  PROVE  WindowInOrder' /\ WindowIsCurrent' /\ Remembered' /\ window' \in Seq(W)
<1> USE DEF ConversationInv
<1> DEFINE n == Len(judgedAt)
           m == ReviewedItem
<1>1. Completing' = Completing
  BY DEF Completing, RuleHits, JudgeAdds
<1>2. n \in Nat /\ clock \in Nat /\ Sent = 1..Len(sentAt) /\ n + 1 <= Len(sentAt) /\ Len(sentAt) \in Nat
      /\ Len(judgedAt') = n + 1 /\ Sent' = Sent /\ Judged' = 1..n + 1 /\ judgedAt'[n + 1] = clock
  BY Lengths, JudgeCommon
<1>3. m \in W /\ m.id = Reviewed.id /\ m.text = Reviewed.text /\ m.at = clock
  BY JudgeCommon DEF ReviewedItem
<1> HIDE DEF m
<1>4. Added(window', RecentNow, m)
  <2>1. window' = Add(RecentNow, m)
    BY DEF JudgeAdds, m
  <2>2. \A i \in DOMAIN RecentNow : RecentNow[i].at <= m.at
    BY <1>3, RecentFacts
  <2> QED BY <1>3, <2>1, <2>2, RecentFacts, AddDoes
<1>5. window' \in Seq(W) /\ Len(window') <= WindowSize /\ InOrder(window')
  BY <1>4 DEF Added
<1>6. ASSUME NEW i \in DOMAIN window'
      PROVE  \/ window'[i].id # Reviewed.id /\ \E j \in DOMAIN window : window'[i] = window[j]
             \/ window'[i].id = Reviewed.id /\ window'[i].text = Reviewed.text /\ window'[i].at <= clock
  BY <1>3, <1>4, RecentFacts DEF Added
<1>7. WindowInOrder'
  <2>1. \A i \in DOMAIN window' : window'[i].at <= clock'
    BY <1>6 DEF JudgeTakes, WindowInOrder
  <2>2. \A i, j \in DOMAIN window' : i < j => window'[i].id # window'[j].id
                                            /\ window'[i].at <= window'[j].at
    BY <1>5 DEF InOrder
  <2>3. \A i, j \in Sent' : i < j => sentAt'[i] <= sentAt'[j]
    BY <1>2 DEF WindowInOrder, JudgeTakes
  <2>4. \A e \in Judged' : sentAt'[e] <= judgedAt'[e]
    BY JudgeCommon
  <2> QED BY <1>5, <2>1, <2>2, <2>3, <2>4 DEF WindowInOrder
<1>8. WindowIsCurrent'
  <2> SUFFICES ASSUME NEW q \in ToSet(window')
               PROVE  /\ ReadsAs([id |-> q.id, text |-> q.text], Len(judgedAt))'
                      /\ \E e \in Judged' : script'[e].id = q.id /\ q.at <= judgedAt'[e]
    BY DEF WindowIsCurrent, ToSet, Event
  <2>1. PICK i \in DOMAIN window' : q = window'[i]
    BY DEF ToSet
  <2>2. CASE q.id # Reviewed.id /\ \E j \in DOMAIN window : q = window[j]
    <3>1. q \in ToSet(window)
      BY <2>2 DEF ToSet
    <3> QED BY <1>1, <2>2, <3>1, CurrentStays
  <2>3. CASE q.id = Reviewed.id /\ q.text = Reviewed.text /\ q.at <= clock
    <3>1. Reviewed = [id |-> q.id, text |-> q.text]
      BY <2>3, JudgeCommon DEF EventRecords
    <3>2. script'[n + 1] = Reviewed /\ n + 1 \in Sent' /\ n + 1 \in Judged'
      BY <1>2 DEF Reviewed, Event, JudgeTakes
    <3>3. \A d \in (n + 1) + 1..n + 1 : FALSE
      BY <1>2
    <3>4. ReadsAs([id |-> q.id, text |-> q.text], Len(judgedAt))'
      BY <1>2, <3>1, <3>2, <3>3 DEF ReadsAs, Event
    <3>5. script'[n + 1].id = q.id /\ q.at <= judgedAt'[n + 1]
      BY <1>2, <2>3, <3>2
    <3> QED BY <3>2, <3>4, <3>5
  <2> QED BY <1>6, <2>1, <2>2, <2>3
<1>9. Remembered'
  <2> SUFFICES ASSUME NEW i \in 1..n + 1, RowDue(i, Len(judgedAt))' PROVE RowEnds(window, i, Len(judgedAt))'
    BY <1>2, RememberedNext
  <2>1. /\ (n + 1) - i < WindowSize /\ clock - sentAt[i] <= MaxAge
        /\ \A e \in i..n + 1 : Event(e).id = e /\ e \notin gone
        /\ \A e \in Sent : Event(e).id \in i..n + 1 => Event(e).id = e
        /\ (i..n + 1) \cap Completing = {}
    BY <1>1, <1>2 DEF RowDue, AsPosted, JudgeTakes, JudgeAdds, Event
  <2>2. Reviewed.id = n + 1
    BY <1>2, <2>1 DEF Reviewed
  <2>3. \A j \in DOMAIN RecentNow : RecentNow[j].id # m.id
    <3>1. \A j \in DOMAIN window : window[j].id \in Judged /\ Judged = 1..n
      BY ItemsWereJudged, Lengths
    <3>2. n + 1 \notin 1..n
      BY <1>2
    <3> QED BY <1>3, <2>2, <3>1, <3>2, RecentFacts
  <2> DEFINE c == n + 1 - i
             l == Len(window')
  <2>4. c \in 0..Len(RecentNow) /\ \A k \in i..n : /\ RecentNow[Len(RecentNow) - (n - k)].id = k
                                                   /\ RecentNow[Len(RecentNow) - (n - k)].text = Event(k).text
                                                   /\ RecentNow[Len(RecentNow) - (n - k)].at >= sentAt[k]
    <3>1. CASE i = n + 1
      <4>1. c = 0 /\ i..n = {}
        BY <1>2, <3>1
      <4> QED BY <4>1, RecentFacts
    <3>2. CASE i # n + 1
      <4>1. i \in 1..n /\ n - i < WindowSize
        BY <1>2, <2>1, <3>2, WindowAssumption
      <4>2. AsPosted(i, n) /\ (i..n) \cap Completing = {}
        <5>1. \A e \in i..n : e \in i..n + 1
          BY <1>2
        <5> QED BY <2>1, <5>1 DEF AsPosted
      <4>3. RowEnds(RecentNow, i, n)
        BY <2>1, <4>1, <4>2, RowIsRecent
      <4>4. n - i < Len(RecentNow) /\ Len(RecentNow) \in Nat
        BY <4>3, RecentFacts DEF RowEnds
      <4>5. c \in 0..Len(RecentNow)
        BY <1>2, <4>1, <4>4
      <4> QED BY <4>3, <4>5 DEF RowEnds
    <3> QED BY <3>1, <3>2
  <2>5. c < WindowSize
    BY <2>1
  <2>6. /\ c + 1 <= l /\ window'[l] = m
        /\ \A k \in 1..c : window'[l - k] = RecentNow[Len(RecentNow) - (k - 1)]
    <3> HIDE DEF c, l
    <3> QED BY <1>4, <2>3, <2>4, <2>5 DEF Added, l
  <2>7. ASSUME NEW k \in i..n + 1
        PROVE  LET q == window'[l - ((n + 1) - k)]
               IN  q.id = k /\ q.text = Event(k).text /\ q.at >= sentAt[k]
    <3>0. l \in Nat
      <4> HIDE DEF W
      <4> QED BY <1>5
    <3>1. CASE k = n + 1
      <4>1. l - ((n + 1) - k) = l
        BY <1>2, <3>0, <3>1
      <4>2. sentAt[n + 1] <= clock
        BY <1>2, Lengths
      <4>3. m.id = n + 1 /\ m.text = Event(n + 1).text /\ m.at = clock
        BY <1>3, <2>2 DEF Reviewed
      <4> HIDE DEF l, n
      <4> QED BY <2>6, <3>1, <4>1, <4>2, <4>3
    <3>2. CASE k # n + 1
      <4> DEFINE j == (n + 1) - k
      <4>1. j \in 1..c /\ j - 1 = n - k /\ k \in i..n
        BY <1>2, <3>2
      <4>2. window'[l - j] = RecentNow[Len(RecentNow) - (n - k)]
        <5> HIDE DEF c, l, j
        <5> QED BY <2>6, <4>1
      <4> HIDE DEF l, n
      <4> QED BY <2>4, <4>1, <4>2
    <3> QED BY <3>1, <3>2
  <2>8. (n + 1) - i < l
    <3>1. c \in Int /\ l \in Nat
      <4> HIDE DEF W
      <4> QED BY <1>2, <1>5
    <3> QED BY <2>6, <3>1
  <2> QED BY <1>2, <2>7, <2>8 DEF RowEnds, JudgeTakes, Event
<1> QED BY <1>5, <1>7, <1>8, <1>9

\* The other two outcomes: messages are taken out of what was looked at, for what was found in the
\* message alone, or for a number that it completes.
LEMMA JudgeRemovesInv ==
  ASSUME ConversationInv, JudgeTakes, NEW ids, window' = Others(RecentNow, ids),
         Completing \subseteq Completing',
         \/ ids = {Reviewed.id} /\ gone' = gone \cup ids
         \/ Len(judgedAt) + 1 \in Completing'
  PROVE  WindowInOrder' /\ WindowIsCurrent' /\ Remembered' /\ window' \in Seq(W)
<1> USE DEF ConversationInv
<1> DEFINE n == Len(judgedAt)
<1>1. n \in Nat /\ Len(judgedAt') = n + 1 /\ Sent' = Sent
  BY Lengths, JudgeCommon
<1>2. PartOf(window', RecentNow) /\ \A i \in DOMAIN window' : window'[i].id \notin ids
  BY RecentFacts, OthersArePart
<1>3. PartOf(window', window)
  BY <1>2, RecentFacts, PartOfPart
<1>4. window' \in Seq(W) /\ Len(window') <= Len(window) /\ Len(window') \in Nat /\ Len(window) \in Nat
      /\ window \in Seq(W)
  <2>1. window' \in Seq(W) /\ Len(window') <= Len(window) /\ window \in Seq(W)
    BY <1>3, RecentFacts DEF PartOf
  <2> HIDE DEF W
  <2> QED BY <2>1
<1>5. \A i \in DOMAIN window' : \E j \in DOMAIN window : window'[i] = window[j]
  BY <1>3, <1>4, PartItems
<1>6. WindowInOrder'
  <2>1. InOrder(window')
    <3>1. InOrder(window)
      BY DEF WindowInOrder, InOrder
    <3> QED BY <1>3, <1>4, <3>1, PartInOrder
  <2>2. \A i, j \in DOMAIN window' : i < j => window'[i].id # window'[j].id
                                            /\ window'[i].at <= window'[j].at
    BY <2>1 DEF InOrder
  <2>3. \A i \in DOMAIN window' : window'[i].at <= clock'
    BY <1>5 DEF WindowInOrder, JudgeTakes
  <2>4. Len(window') <= WindowSize
    BY <1>4, WindowAssumption DEF WindowInOrder
  <2>5. \A i, j \in Sent' : i < j => sentAt'[i] <= sentAt'[j]
    BY <1>1 DEF WindowInOrder, JudgeTakes
  <2>6. \A e \in Judged' : sentAt'[e] <= judgedAt'[e]
    BY JudgeCommon
  <2> QED BY <2>2, <2>3, <2>4, <2>5, <2>6 DEF WindowInOrder
<1>7. WindowIsCurrent'
  <2> SUFFICES ASSUME NEW q \in ToSet(window')
               PROVE  /\ ReadsAs([id |-> q.id, text |-> q.text], Len(judgedAt))'
                      /\ \E e \in Judged' : script'[e].id = q.id /\ q.at <= judgedAt'[e]
    BY DEF WindowIsCurrent, ToSet, Event
  <2>1. q \in ToSet(window) /\ q.id \notin ids
    BY <1>2, <1>5 DEF ToSet
  <2>2. q.id # Reviewed.id \/ n + 1 \in Completing'
    BY <2>1
  <2> QED BY <2>1, <2>2, CurrentStays
<1>8. Remembered'
  <2> SUFFICES ASSUME NEW i \in 1..n + 1, RowDue(i, Len(judgedAt))' PROVE FALSE
    BY <1>1, RememberedNext
  <2>1. i \in Nat /\ n + 1 \in i..n + 1
    BY <1>1
  <2>2. /\ \A e \in i..n + 1 : script'[e].id = e /\ e \notin gone'
        /\ (i..n + 1) \cap Completing' = {}
    BY <1>1 DEF RowDue, AsPosted, Event
  <2>3. n + 1 \notin Completing' /\ Reviewed.id = n + 1 /\ n + 1 \notin gone'
    BY <2>1, <2>2 DEF Reviewed, Event, JudgeTakes
  <2> QED BY <2>3
<1> QED BY <1>4, <1>6, <1>7, <1>8

\* What is looked at together is a sequence of messages.
LEMMA ChainTyped ==
  ASSUME ConversationInv, JudgeTakes
  PROVE  /\ Others(RecentNow, {Reviewed.id}) \in Seq(W)
         /\ ChainNow = Append(Others(RecentNow, {Reviewed.id}), Reviewed)
         /\ ChainNow \in Seq(ShownRecords)
<1> DEFINE o == Others(RecentNow, {Reviewed.id})
<1>1. o \in Seq(W)
  BY RecentFacts, OthersArePart DEF PartOf
<1> HIDE DEF o
<1>2. o \in Seq(ShownRecords)
  <2>1. W \subseteq ShownRecords
    BY DEF ShownRecords, W
  <2> HIDE DEF W, ShownRecords
  <2>2. Len(o) \in Nat /\ o \in [1..Len(o) -> ShownRecords]
    BY <1>1, <2>1
  <2> QED BY <2>2, IsSequence
<1>3. Reviewed \in ShownRecords
  BY JudgeCommon DEF ShownRecords
<1>4. ChainNow = Append(o, Reviewed)
  BY DEF ChainNow, Chain, o
<1>5. Append(o, Reviewed) \in Seq(ShownRecords)
  <2> HIDE DEF ShownRecords
  <2> QED BY <1>2, <1>3
<1> QED BY <1>1, <1>4, <1>5 DEF o

\* Triage keeps the inductive invariant.
LEMMA JudgeInv == ASSUME ConversationInv, Judge PROVE ConversationInv'
<1> USE DEF ConversationInv
<1>1. JudgeTakes /\ (JudgeAdds \/ JudgeRemovesOne \/ JudgeRemovesParts)
  BY JudgeIs
<1>2. /\ WindowInOrder' /\ WindowIsCurrent' /\ Remembered' /\ window' \in Seq(W)
      /\ \E c \in Seq(ShownRecords) : deep' = Append(deep, c)
      /\ \A h \in hits' : h \in hits \/ h.upTo = Len(judgedAt) + 1
  <2>1. CASE JudgeAdds
    <3>1. WindowInOrder' /\ WindowIsCurrent' /\ Remembered' /\ window' \in Seq(W)
      BY <1>1, <2>1, JudgeAddsInv
    <3>2. deep' = Append(deep, ChainNow) /\ hits' = hits
      BY <2>1 DEF JudgeAdds
    <3> QED BY <1>1, <3>1, <3>2, ChainTyped
  <2>2. NoChain \in Seq(ShownRecords)
    BY DEF NoChain
  <2>3. CASE JudgeRemovesOne
    <3>1. /\ window' = Others(RecentNow, {Reviewed.id}) /\ gone' = gone \cup {Reviewed.id}
          /\ hits' = hits /\ deep' = Append(deep, NoChain)
      BY <2>3 DEF JudgeRemovesOne
    <3>2. Completing' = Completing
      BY <3>1 DEF Completing, RuleHits
    <3>3. WindowInOrder' /\ WindowIsCurrent' /\ Remembered' /\ window' \in Seq(W)
      BY <1>1, <3>1, <3>2, JudgeRemovesInv
    <3> QED BY <2>2, <3>1, <3>3
  <2>4. CASE JudgeRemovesParts
    <3>1. /\ window' = Others(RecentNow, Ids(ChainNow, HitNow.used))
          /\ hits' = hits \cup {RuleHit} /\ deep' = Append(deep, NoChain)
      BY <2>4 DEF JudgeRemovesParts
    <3>2. RuleHit.by = "rules" /\ RuleHit.upTo = Len(judgedAt) + 1
      BY DEF RuleHit
    <3>3. Completing \subseteq Completing' /\ Len(judgedAt) + 1 \in Completing'
      BY <3>1, <3>2 DEF Completing, RuleHits
    <3>4. WindowInOrder' /\ WindowIsCurrent' /\ Remembered' /\ window' \in Seq(W)
      BY <1>1, <3>1, <3>3, JudgeRemovesInv
    <3> QED BY <2>2, <3>1, <3>2, <3>4
  <2> QED BY <1>1, <2>1, <2>3, <2>4
<1>3. /\ Len(judgedAt) \in Nat /\ Len(judgedAt') = Len(judgedAt) + 1 /\ Judged' = 1..Len(judgedAt) + 1
      /\ judgedAt' \in Seq(0..clock) /\ Judged \subseteq Judged' /\ Sent' = Sent
      /\ Len(judgedAt) + 1 <= Len(sentAt) /\ Judged = 1..Len(judgedAt)
  BY <1>1, JudgeCommon, Lengths
<1>4. deep' \in Seq(Seq(ShownRecords)) /\ DOMAIN deep' = Judged'
  <2> DEFINE S == Seq(ShownRecords)
  <2>1. deep \in Seq(S) /\ DOMAIN deep = Judged
    BY DEF ConversationTypeOK, ShownRecords
  <2>2. PICK c \in S : deep' = Append(deep, c)
    BY <1>2
  <2> HIDE DEF S
  <2>3. Len(deep) \in Nat /\ DOMAIN deep = 1..Len(deep)
    BY <2>1
  <2>4. Len(deep) = Len(judgedAt)
    BY <1>3, <2>1, <2>3, SameInterval
  <2>5. deep' \in Seq(S) /\ Len(deep') = Len(deep) + 1
    BY <2>1, <2>2, AppendProperties
  <2>6. DOMAIN deep' = 1..Len(deep')
    BY <2>5
  <2> QED BY <1>3, <2>4, <2>5, <2>6 DEF S
<1>5. \A h \in hits' : h.upTo \in Judged'
  <2>1. Len(judgedAt) + 1 \in Judged'
    BY <1>3
  <2> QED BY <1>2, <1>3, <2>1 DEF ConversationTypeOK
<1>6. /\ script' \in Scripts /\ clock' \in 0..MaxTime /\ sentAt' \in Seq(0..clock')
      /\ judgedAt' \in Seq(0..clock') /\ Len(judgedAt') <= Len(sentAt') /\ Len(sentAt') <= Len(script')
  BY <1>1, <1>3 DEF ConversationTypeOK, JudgeTakes
<1>7. ConversationTypeOK'
  BY <1>2, <1>4, <1>5, <1>6 DEF ConversationTypeOK, W, ShownRecords
<1> QED BY <1>2, <1>7

-----------------------------------------------------------------------------
(* Restart: the window is rebuilt. *)

\* The item that a restart makes of a message.
ItemFor(id) == [id |-> id, text |-> Reads(id), at |-> sentAt[id]]

\* A visible message has a latest version.
LEMMA LatestVersion ==
  ASSUME ConversationTypeOK, NEW id \in Visible
  PROVE  LET e == Max({d \in Sent : Event(d).id = id})
         IN  e \in Sent /\ Event(e).id = id /\ \A d \in Sent : Event(d).id = id => d <= e
<1> DEFINE S == {d \in Sent : Event(d).id = id}
<1>1. Len(sentAt) \in Nat /\ Sent = 1..Len(sentAt)
  BY Lengths
<1>2. S \in SUBSET (1..Len(sentAt)) /\ S # {}
  BY <1>1 DEF Visible
<1>3. Max(S) \in S /\ \A y \in S : y <= Max(S)
  <2> HIDE DEF S
  <2> QED BY <1>1, <1>2, MaxOfPart
<1> QED BY <1>3

\* What a restart reads back was judged before.
LEMMA SeenFacts ==
  ASSUME ConversationInv, NEW id \in Seen
  PROVE  id \in Visible /\ id \in Judged /\ Event(id).id = id /\ ItemFor(id) \in W
<1> USE DEF ConversationInv
<1>1. id \in Visible /\ id \in Sent /\ Event(id).id = id
  BY DEF Seen, Visible
<1>2. PICK e \in Judged : id <= Event(e).id
  BY DEF Seen
<1>3. /\ e \in Sent /\ Event(e).id \in 1..e /\ Judged = 1..Len(judgedAt) /\ Len(judgedAt) \in Nat
      /\ Sent = 1..Len(sentAt) /\ Len(sentAt) \in Nat
  BY Lengths, Scripted
<1>4. id \in Judged
  BY <1>1, <1>2, <1>3
<1>5. ItemFor(id) \in W
  <2> DEFINE d == Max({c \in Sent : Event(c).id = id})
  <2>1. d \in Sent
    BY <1>1, LatestVersion
  <2>2. script[d].text \in Seq(Pieces)
    <3>1. Event(d) \in EventRecords
      BY <2>1, Scripted
    <3> HIDE DEF d
    <3> QED BY <3>1 DEF EventRecords, Event
  <2>3. Reads(id) \in Seq(Pieces)
    BY <2>2 DEF Reads
  <2>4. sentAt[id] \in Nat /\ id \in Nat
    BY <1>1, <1>3, Lengths
  <2> QED BY <2>3, <2>4 DEF ItemFor, W, WindowRecords
<1> QED BY <1>1, <1>4, <1>5

\* Adding a message to a window gives a window.
LEMMA AddTyped == ASSUME NEW w \in Seq(W), NEW m \in W PROVE Add(w, m) \in Seq(W)
<1>1. \A a \in W : [m EXCEPT !.at = a.at] \in W
  BY DEF W, WindowRecords
<1> HIDE DEF W
<1>2. Len(w) \in Nat /\ DOMAIN w = 1..Len(w) /\ \A i \in DOMAIN w : w[i] \in W
  OBVIOUS
<1> DEFINE r == [i \in DOMAIN w |-> IF w[i].id = m.id THEN [m EXCEPT !.at = w[i].at] ELSE w[i]]
<1>3. r \in [1..Len(w) -> W]
  BY <1>1, <1>2
<1>4. r \in Seq(W)
  <2> HIDE DEF r
  <2> QED BY <1>2, <1>3, IsSequence
<1>5. Suffix(Append(w, m), WindowSize) \in Seq(W)
  <2>1. Append(w, m) \in Seq(W) /\ WindowSize \in Nat
    BY WindowAssumption
  <2> QED BY <2>1, SuffixIs
<1> QED BY <1>4, <1>5 DEF Add

\* So does adding one that is read back.
LEMMA AddSeenTyped ==
  ASSUME ConversationInv, NEW w \in Seq(W), NEW id
  PROVE  AddSeen(w, id) \in Seq(W)
<1>1. CASE id \in Seen
  <2>1. ItemFor(id) \in W
    BY <1>1, SeenFacts
  <2>2. Add(w, ItemFor(id)) \in Seq(W)
    BY <2>1, AddTyped
  <2> QED BY <1>1, <2>2 DEF AddSeen, ItemFor
<1>2. CASE id \notin Seen
  BY <1>2 DEF AddSeen
<1> QED BY <1>1, <1>2

\* A restart takes the messages one by one.
LEMMA RebuildLoop ==
  ASSUME ConversationInv
  PROVE  \E f \in [0..Len(sentAt) -> Seq(W)] :
           /\ f[0] = <<>>
           /\ \A i \in 1..Len(sentAt) : f[i] = AddSeen(f[i - 1], i)
           /\ FoldLeftDomain(AddSeen, <<>>, sentAt) = f[Len(sentAt)]
<1> DEFINE n == Len(sentAt)
           V == Seq(W)
           at == [i \in DOMAIN sentAt |-> i]
           step == [x \in V \X (1..n) |-> AddSeen(x[1], x[2])]
           body(it) == [s \in SUBSET (DOMAIN at) |->
                          IF s = {} THEN <<>> ELSE AddSeen(it[s \ {Max(s)}], at[Max(s)])]
           it0 == CHOOSE it : it = body(it)
<1> HIDE DEF W
<1>1. n \in Nat /\ DOMAIN sentAt = 1..n /\ <<>> \in V
  BY Lengths DEF ConversationInv, Sent
<1>2. DOMAIN at = 1..n /\ \A i \in 1..n : at[i] = i
  BY <1>1
<1> HIDE DEF at
<1>3. step \in [V \X (1..n) -> V]
  <2> SUFFICES ASSUME NEW x \in V \X (1..n) PROVE AddSeen(x[1], x[2]) \in V
    OBVIOUS
  <2>1. x[1] \in V
    OBVIOUS
  <2> QED BY <2>1, AddSeenTyped
<1> HIDE DEF V
<1>4. PICK it : IsFold(it, n, V, <<>>, step)
  <2> HIDE DEF n, step
  <2> QED BY <1>1, <1>3, FoldExists
<1>5. it = body(it)
  <2>1. ASSUME NEW s \in SUBSET (1..n) PROVE it[s] = body(it)[s]
    <3>1. CASE s = {}
      BY <1>2, <1>4, <3>1 DEF IsFold
    <3>2. CASE s # {}
      <4>1. Max(s) \in s
        BY <1>1, <3>2, MaxOfPart
      <4>2. Max(s) \in 1..n /\ it[s \ {Max(s)}] \in V
        BY <1>4, <4>1 DEF IsFold
      <4>3. it[s] = step[<<it[s \ {Max(s)}], Max(s)>>]
        BY <1>4, <3>2 DEF IsFold
      <4>4. it[s] = AddSeen(it[s \ {Max(s)}], Max(s))
        <5> HIDE DEF n
        <5> QED BY <4>2, <4>3
      <4>5. body(it)[s] = AddSeen(it[s \ {Max(s)}], at[Max(s)])
        BY <1>2, <3>2
      <4>6. at[Max(s)] = Max(s)
        BY <1>2, <4>2
      <4> HIDE DEF body
      <4> QED BY <4>4, <4>5, <4>6
    <3> QED BY <3>1, <3>2
  <2>2. it = [s \in SUBSET (1..n) |-> it[s]] /\ body(it) = [s \in SUBSET (1..n) |-> body(it)[s]]
    BY <1>2, <1>4 DEF IsFold
  <2> HIDE DEF body, n
  <2> QED BY <2>1, <2>2
<1>6. it0 = body(it0)
  <2> HIDE DEF body
  <2> QED BY <1>5
<1>7. FoldLeftDomain(AddSeen, <<>>, sentAt) = it0[1..n]
  <2>1. FoldLeftDomain(AddSeen, <<>>, sentAt) = it0[DOMAIN at]
    BY DEF FoldLeftDomain, FoldLeft, MapThenFoldSet, at
  <2> QED BY <1>2, <2>1
<1> HIDE DEF it0
<1>8. it0[{}] = <<>> /\ \A s \in SUBSET (1..n) : s # {} => it0[s] = AddSeen(it0[s \ {Max(s)}], at[Max(s)])
  <2> HIDE DEF n
  <2> QED BY <1>2, <1>6
<1> HIDE DEF body
<1> DEFINE f == [i \in 0..n |-> it0[1..i]]
<1>9. ASSUME NEW i \in 1..n PROVE f[i] = AddSeen(f[i - 1], i)
  <2>1. i \in Nat \ {0} /\ i \in 0..n /\ i - 1 \in 0..n /\ i <= n
    BY <1>1
  <2>2. ASSUME NEW j \in 1..i PROVE j \in 1..n
    BY <1>1, <2>1
  <2>3. 1..i \in SUBSET (1..n) /\ 1..i # {}
    <3>1. i \in 1..i
      BY <2>1
    <3> QED BY <2>2, <3>1
  <2>4. Max(1..i) = i /\ (1..i) \ {i} = 1..(i - 1) /\ at[i] = i
    BY <1>2, <2>1, MaxOfInterval
  <2>5. it0[1..i] = AddSeen(it0[1..(i - 1)], i)
    BY <1>8, <2>3, <2>4
  <2>6. f[i] = it0[1..i] /\ f[i - 1] = it0[1..(i - 1)]
    BY <2>1
  <2> HIDE DEF f
  <2> QED BY <2>5, <2>6
<1>10. f[0] = <<>> /\ f[n] = it0[1..n]
  <2>1. 1..0 = {} /\ 0 \in 0..n /\ n \in 0..n
    BY <1>1
  <2> QED BY <1>8, <2>1
<1>11. f \in [0..n -> V]
  <2> DEFINE G == {i \in 0..n : f[i] \in V}
  <2>1. 0 \in G
    BY <1>1, <1>10
  <2>2. ASSUME NEW i \in 1..n, i - 1 \in G PROVE i \in G
    <3>1. i \in 0..n /\ f[i - 1] \in V
      BY <1>1, <2>2
    <3>2. AddSeen(f[i - 1], i) \in V
      BY <3>1, AddSeenTyped DEF V
    <3> HIDE DEF f, n
    <3> QED BY <1>9, <3>1, <3>2
  <2>3. 0..n \subseteq G
    <3> HIDE DEF G, n
    <3> QED BY <1>1, <2>1, <2>2, InductionTo
  <2>4. f = [i \in 0..n |-> f[i]]
    OBVIOUS
  <2> HIDE DEF f, n
  <2> QED BY <2>3, <2>4
<1> HIDE DEF f
<1> QED BY <1>7, <1>9, <1>10, <1>11 DEF V

\* The window after the messages up to i were taken in, and the row that it ends with.
UpTo(i) == IF i <= Len(judgedAt) THEN i ELSE Len(judgedAt)
Built(w, i) ==
  /\ w \in Seq(W) /\ Len(w) <= WindowSize /\ InOrder(w)
  /\ \A k \in DOMAIN w : w[k].id \in Seen /\ w[k].id <= i /\ w[k] = ItemFor(w[k].id)
  /\ \A j \in 1..UpTo(i) : j..UpTo(i) \subseteq Seen /\ UpTo(i) - j < WindowSize =>
       /\ UpTo(i) - j < Len(w)
       /\ \A k \in j..UpTo(i) : w[Len(w) - (UpTo(i) - k)] = ItemFor(k)

\* Reading back one more message keeps what is said of the window built so far.
LEMMA BuiltStep ==
  ASSUME ConversationInv, NEW i \in Sent, NEW w, Built(w, i - 1)
  PROVE  Built(AddSeen(w, i), i)
<1> USE DEF ConversationInv
<1> DEFINE N == Len(judgedAt)
           m == ItemFor(i)
           r == Add(w, m)
<1>1. /\ N \in Nat /\ i \in Nat /\ i >= 1 /\ Judged = 1..N /\ Len(w) \in Nat /\ DOMAIN w = 1..Len(w)
      /\ w \in Seq(W) /\ Sent \subseteq Nat /\ WindowSize \in Nat /\ WindowSize >= 1
  <2>1. N \in Nat /\ Judged = 1..N /\ Sent = 1..Len(sentAt) /\ Len(sentAt) \in Nat
    BY Lengths
  <2>2. w \in Seq(W)
    BY DEF Built
  <2> HIDE DEF W
  <2>3. Len(w) \in Nat /\ DOMAIN w = 1..Len(w)
    BY <2>2
  <2> QED BY <2>1, <2>2, <2>3, WindowAssumption
<1>2. CASE i \notin Seen
  <2>1. AddSeen(w, i) = w
    BY <1>2 DEF AddSeen
  <2>2. \A k \in DOMAIN w : w[k].id \in Seen /\ w[k].id <= i /\ w[k] = ItemFor(w[k].id)
    <3> SUFFICES ASSUME NEW k \in DOMAIN w PROVE w[k].id \in Seen /\ w[k].id <= i /\ w[k] = ItemFor(w[k].id)
      OBVIOUS
    <3>1. w[k].id \in Seen /\ w[k].id <= i - 1 /\ w[k] = ItemFor(w[k].id)
      BY DEF Built
    <3>2. w[k].id \in Nat
      BY <1>1, <3>1, SeenFacts
    <3> QED BY <1>1, <3>1, <3>2
  <2>3. ASSUME NEW j \in 1..UpTo(i), j..UpTo(i) \subseteq Seen, UpTo(i) - j < WindowSize
        PROVE  /\ UpTo(i) - j < Len(w)
               /\ \A k \in j..UpTo(i) : w[Len(w) - (UpTo(i) - k)] = ItemFor(k)
    <3>1. i > N
      <4> SUFFICES ASSUME i <= N PROVE FALSE
        BY <1>1
      <4>1. UpTo(i) = i /\ i \in j..i
        BY <1>1, <2>3 DEF UpTo
      <4> QED BY <1>2, <2>3, <4>1
    <3>2. UpTo(i) = N /\ UpTo(i - 1) = N
      BY <1>1, <3>1 DEF UpTo
    <3> QED BY <2>3, <3>2 DEF Built
  <2> QED BY <2>1, <2>2, <2>3 DEF Built
<1>3. CASE i \in Seen
  <2>1. AddSeen(w, i) = r
    BY <1>3 DEF AddSeen, ItemFor
  <2>2. m \in W /\ m.id = i /\ m.at = sentAt[i] /\ i \in Judged /\ i <= N
    BY <1>1, <1>3, SeenFacts DEF ItemFor
  <2>3. UpTo(i) = i /\ UpTo(i - 1) = i - 1
    BY <1>1, <2>2 DEF UpTo
  <2>4. ASSUME NEW k \in DOMAIN w
        PROVE  /\ w[k].id \in Seen /\ w[k].id \in Nat /\ w[k].id < i /\ w[k] = ItemFor(w[k].id)
               /\ w[k].at <= m.at
    <3>1. w[k].id \in Seen /\ w[k].id <= i - 1 /\ w[k] = ItemFor(w[k].id)
      BY DEF Built
    <3>2. w[k].id \in Sent
      BY <3>1, SeenFacts DEF Visible
    <3>3. w[k].id \in Nat /\ w[k].id < i
      <4> DEFINE id == w[k].id
      <4>1. id \in Nat /\ id <= i - 1
        BY <1>1, <3>1, <3>2
      <4> HIDE DEF id
      <4>2. id \in Nat /\ id < i
        BY <1>1, <4>1
      <4> QED BY <4>2 DEF id
    <3>4. w[k].at = sentAt[w[k].id]
      <4> DEFINE id == w[k].id
      <4>1. ItemFor(id).at = sentAt[id]
        BY DEF ItemFor
      <4> QED BY <3>1, <4>1
    <3>5. sentAt[w[k].id] <= sentAt[i]
      BY <3>2, <3>3 DEF WindowInOrder
    <3> QED BY <2>2, <3>1, <3>3, <3>4, <3>5
  <2> HIDE DEF m
  <2>5. Added(r, w, m)
    <3>1. InOrder(w) /\ Len(w) <= WindowSize
      BY DEF Built
    <3>2. \A k \in DOMAIN w : w[k].at <= m.at
      BY <2>4
    <3> QED BY <1>1, <2>2, <3>1, <3>2, AddDoes
  <2>6. \A k \in DOMAIN w : w[k].id # m.id
    BY <2>2, <2>4
  <2> HIDE DEF r
  <2>7. ASSUME NEW k \in DOMAIN r PROVE r[k].id \in Seen /\ r[k].id <= i /\ r[k] = ItemFor(r[k].id)
    <3>1. (\E j \in DOMAIN w : r[k] = w[j]) \/ r[k].id = m.id
      BY <2>5 DEF Added
    <3>2. CASE \E j \in DOMAIN w : r[k] = w[j]
      BY <1>1, <2>4, <3>2
    <3>3. CASE r[k].id = m.id
      <4>1. r[Len(r)] = m /\ Len(r) >= 1
        <5>1. 0 \in 0..Len(w) /\ 0 < WindowSize
          BY <1>1
        <5>2. 0 + 1 <= Len(r) /\ r[Len(r)] = m
          BY <2>5, <2>6, <5>1 DEF Added
        <5> QED BY <5>2
      <4>2. r \in Seq(W) /\ InOrder(r)
        BY <2>5 DEF Added
      <4>3. DOMAIN r = 1..Len(r) /\ Len(r) \in Nat
        <5> HIDE DEF W
        <5> QED BY <4>2
      <4>4. k = Len(r)
        <5>1. k < Len(r) => r[k].id # r[Len(r)].id
          <6>1. Len(r) \in DOMAIN r
            BY <4>1, <4>3
          <6> QED BY <4>2, <6>1 DEF InOrder
        <5> QED BY <3>3, <4>1, <4>3, <5>1
      <4> QED BY <1>1, <1>3, <2>2, <4>1, <4>4 DEF m
    <3> QED BY <3>1, <3>2, <3>3
  <2>8. ASSUME NEW j \in 1..i, j..i \subseteq Seen, i - j < WindowSize
        PROVE  i - j < Len(r) /\ \A k \in j..i : r[Len(r) - (i - k)] = ItemFor(k)
    <3> DEFINE c == i - j
    <3>1. c \in 0..Len(w) /\ \A k \in j..i - 1 : w[Len(w) - ((i - 1) - k)] = ItemFor(k)
      <4>1. CASE j = i
        <5>1. c = 0 /\ j..i - 1 = {}
          BY <1>1, <4>1
        <5> QED BY <1>1, <5>1
      <4>2. CASE j # i
        <5>1. j \in 1..i - 1 /\ (i - 1) - j < WindowSize
          BY <1>1, <2>8, <4>2
        <5>2. j..i - 1 \subseteq Seen
          <6>1. \A k \in j..i - 1 : k \in j..i
            BY <1>1
          <6> QED BY <2>8, <6>1
        <5>3. (i - 1) - j < Len(w) /\ \A k \in j..i - 1 : w[Len(w) - ((i - 1) - k)] = ItemFor(k)
          BY <2>3, <5>1, <5>2 DEF Built
        <5>4. c \in 0..Len(w)
          BY <1>1, <5>1, <5>3
        <5> QED BY <5>3, <5>4
      <4> QED BY <4>1, <4>2
    <3>2. c < WindowSize
      BY <2>8
    <3>3. c + 1 <= Len(r) /\ r[Len(r)] = m /\ \A k \in 1..c : r[Len(r) - k] = w[Len(w) - (k - 1)]
      <4> HIDE DEF c
      <4> QED BY <2>5, <2>6, <3>1, <3>2 DEF Added
    <3>4. Len(r) \in Nat
      <4> HIDE DEF W
      <4> QED BY <2>5 DEF Added
    <3>5. ASSUME NEW k \in j..i PROVE r[Len(r) - (i - k)] = ItemFor(k)
      <4>1. CASE k = i
        <5>1. Len(r) - (i - k) = Len(r)
          BY <1>1, <3>4, <4>1
        <5> QED BY <3>3, <4>1, <5>1 DEF m
      <4>2. CASE k # i
        <5> DEFINE d == i - k
        <5>1. d \in 1..c /\ d - 1 = (i - 1) - k /\ k \in j..i - 1
          BY <1>1, <4>2
        <5> HIDE DEF d
        <5>2. r[Len(r) - d] = w[Len(w) - (d - 1)]
          <6> HIDE DEF c
          <6> QED BY <3>3, <5>1
        <5> QED BY <3>1, <5>1, <5>2 DEF d
      <4> QED BY <4>1, <4>2
    <3>6. i - j < Len(r)
      BY <1>1, <3>3, <3>4
    <3> QED BY <3>5, <3>6
  <2>9. r \in Seq(W) /\ Len(r) <= WindowSize /\ InOrder(r)
    BY <2>5 DEF Added
  <2> QED BY <2>1, <2>3, <2>7, <2>8, <2>9 DEF Built
<1> QED BY <1>2, <1>3

\* The window that a restart rebuilds is as Built says.
LEMMA Rebuilt == ASSUME ConversationInv PROVE Built(FoldLeftDomain(AddSeen, <<>>, sentAt), Len(sentAt))
<1> DEFINE n == Len(sentAt)
<1>1. PICK f \in [0..n -> Seq(W)] : /\ f[0] = <<>>
                                   /\ \A i \in 1..n : f[i] = AddSeen(f[i - 1], i)
                                   /\ FoldLeftDomain(AddSeen, <<>>, sentAt) = f[n]
  BY RebuildLoop
<1>2. n \in Nat /\ Sent = 1..n /\ Len(judgedAt) \in Nat
  BY Lengths DEF ConversationInv
<1> DEFINE G == {i \in 0..n : Built(f[i], i)}
<1>3. 0 \in G
  <2>1. UpTo(0) = 0
    BY <1>2 DEF UpTo
  <2>2. <<>> \in Seq(W) /\ Len(<<>>) <= WindowSize /\ DOMAIN <<>> = {} /\ 1..0 = {}
    BY WindowAssumption
  <2>3. InOrder(<<>>)
    BY <2>2 DEF InOrder
  <2> HIDE DEF W, n
  <2>4. Built(<<>>, 0)
    BY <2>1, <2>2, <2>3 DEF Built
  <2> QED BY <1>1, <1>2, <2>4
<1>4. ASSUME NEW i \in 1..n, i - 1 \in G PROVE i \in G
  <2>1. Built(f[i - 1], i - 1) /\ i \in 0..n
    BY <1>2, <1>4
  <2>2. Built(AddSeen(f[i - 1], i), i)
    BY <1>2, <2>1, BuiltStep
  <2>3. f[i] = AddSeen(f[i - 1], i)
    BY <1>1
  <2> HIDE DEF n
  <2> QED BY <2>1, <2>2, <2>3
<1>5. 0..n \subseteq G
  <2> HIDE DEF G, n
  <2> QED BY <1>2, <1>3, <1>4, InductionTo
<1>6. Built(f[n], n)
  BY <1>2, <1>5
<1> HIDE DEF n
<1> QED BY <1>1, <1>6 DEF n

\* A restart keeps the inductive invariant.
LEMMA RestartInv == ASSUME ConversationInv, Restart PROVE ConversationInv'
<1> USE DEF ConversationInv
<1> DEFINE N == Len(judgedAt)
           n == Len(sentAt)
<1>1. Built(window', n) /\ UNCHANGED <<script, clock, sentAt, judgedAt, gone, deep, copies, hits>>
  BY Rebuilt DEF Restart
<1>2. /\ N \in Nat /\ n \in Nat /\ N <= n /\ Sent = 1..n /\ Judged = 1..N /\ Judged \subseteq Sent
      /\ clock \in Nat /\ MaxAge \in Nat /\ \A e \in Sent : sentAt[e] \in Nat /\ sentAt[e] <= clock
  BY Lengths, WindowAssumption
<1>3. window' \in Seq(W) /\ Len(window') <= WindowSize /\ InOrder(window')
  BY <1>1 DEF Built
<1>4. ASSUME NEW k \in DOMAIN window'
      PROVE  /\ window'[k].id \in Seen /\ window'[k] = ItemFor(window'[k].id)
             /\ window'[k].at = sentAt[window'[k].id] /\ window'[k].text = Reads(window'[k].id)
  <2>1. window'[k].id \in Seen /\ window'[k] = ItemFor(window'[k].id)
    BY <1>1 DEF Built
  <2> DEFINE id == window'[k].id
  <2>2. ItemFor(id).at = sentAt[id] /\ ItemFor(id).text = Reads(id)
    BY DEF ItemFor
  <2> QED BY <2>1, <2>2
<1>5. Completing' = Completing /\ Judged' = Judged /\ Sent' = Sent
  BY <1>1 DEF Completing, RuleHits, Judged, Sent
<1>6. WindowInOrder'
  <2>1. \A i \in DOMAIN window' : window'[i].at <= clock'
    <3> SUFFICES ASSUME NEW i \in DOMAIN window' PROVE window'[i].at <= clock'
      OBVIOUS
    <3>1. window'[i].id \in Sent
      BY <1>2, <1>4, SeenFacts
    <3> QED BY <1>1, <1>2, <1>4, <3>1
  <2>2. \A i, j \in DOMAIN window' : i < j => window'[i].id # window'[j].id
                                            /\ window'[i].at <= window'[j].at
    BY <1>3 DEF InOrder
  <2>3. /\ \A i, j \in Sent' : i < j => sentAt'[i] <= sentAt'[j]
        /\ \A e \in Judged' : sentAt'[e] <= judgedAt'[e]
    BY <1>1, <1>5 DEF WindowInOrder
  <2> QED BY <1>3, <2>1, <2>2, <2>3 DEF WindowInOrder
<1>7. WindowIsCurrent'
  <2> SUFFICES ASSUME NEW q \in ToSet(window')
               PROVE  /\ ReadsAs([id |-> q.id, text |-> q.text], N)'
                      /\ \E e \in Judged' : script'[e].id = q.id /\ q.at <= judgedAt'[e]
    BY DEF WindowIsCurrent, ToSet, Event
  <2>1. PICK k \in DOMAIN window' : q = window'[k]
    BY DEF ToSet
  <2>2. q.id \in Seen /\ q.at = sentAt[q.id] /\ q.text = Reads(q.id)
    BY <1>4, <2>1
  <2>3. q.id \in Visible /\ q.id \in Judged /\ Event(q.id).id = q.id
    BY <2>2, SeenFacts
  <2>4. script'[q.id].id = q.id /\ q.at <= judgedAt'[q.id]
    BY <1>1, <2>2, <2>3 DEF WindowInOrder, Event
  <2> DEFINE e == Max({d \in Sent : Event(d).id = q.id})
  <2>5. e \in Sent /\ Event(e).id = q.id /\ \A d \in Sent : Event(d).id = q.id => d <= e
    BY <2>3, LatestVersion
  <2>6. q.text = Event(e).text
    BY <2>2 DEF Reads, Event
  <2> HIDE DEF e
  <2>7. Event(e) = [id |-> q.id, text |-> q.text]
    BY <2>5, <2>6, Scripted DEF EventRecords
  <2>8. \A d \in e + 1..N : Event(d).id # q.id
    <3> SUFFICES ASSUME NEW d \in e + 1..N, Event(d).id = q.id PROVE FALSE
      OBVIOUS
    <3>1. d \in Sent /\ d > e
      BY <1>2, <2>5
    <3>2. d <= e
      BY <2>5, <3>1
    <3> QED BY <1>2, <2>5, <3>1, <3>2
  <2>9. ReadsAs([id |-> q.id, text |-> q.text], N)'
    BY <1>1, <1>5, <2>5, <2>7, <2>8 DEF ReadsAs, Event
  <2> QED BY <1>5, <2>3, <2>4, <2>9
<1>8. Remembered'
  <2> SUFFICES ASSUME NEW i \in 1..N, RowDue(i, N)' PROVE RowEnds(window, i, N)'
    BY <1>1, RememberedNext
  <2>1. /\ N - i < WindowSize /\ clock - sentAt[i] <= MaxAge
        /\ \A e \in i..N : Event(e).id = e /\ e \notin gone
        /\ \A e \in Sent : Event(e).id \in i..N => Event(e).id = e
    BY <1>1, <1>5 DEF RowDue, AsPosted, Event
  <2>2. ASSUME NEW k \in i..N PROVE k \in Seen /\ Reads(k) = Event(k).text
    <3>1. k \in Sent /\ i \in Sent /\ N \in Judged /\ N \in i..N /\ k <= N /\ (i = k \/ i < k)
      BY <1>2
    <3>2. k \in Visible
      BY <2>1, <3>1 DEF Visible
    <3>3. sentAt[k] + MaxAge >= clock
      <4> DEFINE x == sentAt[i]
                 y == sentAt[k]
      <4>1. x <= y /\ x \in Nat /\ y \in Nat /\ clock - x <= MaxAge
        BY <1>2, <2>1, <3>1 DEF WindowInOrder
      <4> HIDE DEF x, y
      <4>2. y + MaxAge >= clock
        BY <1>2, <4>1
      <4> QED BY <4>2 DEF y
    <3>4. \E e \in Judged : k <= Event(e).id
      BY <2>1, <3>1
    <3>5. k \in Seen
      BY <3>2, <3>3, <3>4 DEF Seen
    <3> DEFINE e == Max({d \in Sent : Event(d).id = k})
    <3>6. e \in Sent /\ Event(e).id = k
      BY <3>2, LatestVersion
    <3>7. e = k
      BY <2>1, <3>6
    <3>8. Reads(k) = script[e].text
      BY DEF Reads
    <3> HIDE DEF e
    <3> QED BY <3>5, <3>7, <3>8 DEF Event
  <2>3. UpTo(n) = N
    BY <1>2 DEF UpTo
  <2>4. i..N \subseteq Seen
    BY <2>2
  <2> HIDE DEF N, n
  <2>5. N - i < Len(window') /\ \A k \in i..N : window'[Len(window') - (N - k)] = ItemFor(k)
    BY <1>1, <2>1, <2>3, <2>4 DEF Built
  <2>6. ASSUME NEW k \in i..N
        PROVE  LET q == window'[Len(window') - (N - k)]
               IN  q.id = k /\ q.text = script'[k].text /\ q.at >= sentAt'[k]
    <3>1. window'[Len(window') - (N - k)] = ItemFor(k)
      BY <2>5
    <3>2. ItemFor(k).id = k /\ ItemFor(k).text = Event(k).text /\ ItemFor(k).at = sentAt[k]
      BY <2>2 DEF ItemFor
    <3>3. sentAt[k] >= sentAt[k]
      <4>1. k \in Sent
        BY <2>2, SeenFacts, <1>2
      <4> QED BY <1>2, <4>1
    <3> QED BY <1>1, <3>1, <3>2, <3>3 DEF Event
  <2>7. N' = N
    BY <1>1 DEF N
  <2> QED BY <2>5, <2>6, <2>7 DEF RowEnds, Event
<1>9. ConversationTypeOK'
  BY <1>1, <1>3, <1>5 DEF ConversationTypeOK, W
<1> QED BY <1>6, <1>7, <1>8, <1>9

\* ConversationInv holds in every reachable state.
THEOREM ConversationInvariance == Spec => []ConversationInv
<1>1. ASSUME ConversationInv, [Next]_vars PROVE ConversationInv'
  <2>1. CASE Write
    BY <1>1, <2>1, WriteInv
  <2>2. CASE Judge
    BY <1>1, <2>2, JudgeInv
  <2>3. CASE Restart
    BY <1>1, <2>3, RestartInv
  <2>4. CASE Tick
    BY <1>1, <2>4, TickInv
  <2>5. ASSUME NEW e \in DOMAIN deep, NEW a \in Answers, Answer(e, a) PROVE ConversationInv'
    BY <1>1, <2>5, AnswerInv
  <2>6. CASE UNCHANGED vars
    <3> USE <2>6 DEF vars
    <3>1. Completing' = Completing /\ Judged' = Judged /\ Sent' = Sent
      BY DEF Completing, RuleHits, Judged, Sent
    <3>2. ConversationTypeOK'
      BY <1>1, <3>1 DEF ConversationInv, ConversationTypeOK
    <3>3. WindowInOrder'
      BY <1>1, <3>1 DEF ConversationInv, WindowInOrder
    <3>4. WindowIsCurrent'
      BY <1>1, <3>1 DEF ConversationInv, WindowIsCurrent, ReadsAs, Event
    <3>5. Remembered'
      BY <1>1, <3>1 DEF ConversationInv, Remembered, AsPosted, Event
    <3> QED BY <3>2, <3>3, <3>4, <3>5 DEF ConversationInv
  <2> QED BY <1>1, <2>1, <2>2, <2>3, <2>4, <2>5, <2>6 DEF Next
<1> QED BY InitInv, <1>1, PTL DEF Spec

-----------------------------------------------------------------------------
(* SplitDetect: the digit groups of several texts. *)

\* Flattening goes through the sequences one by one.
FlattenTo(f, seqs, S) ==
  /\ f \in [0..Len(seqs) -> Seq(S)]
  /\ f[0] = <<>>
  /\ \A i \in 1..Len(seqs) : f[i] = f[i - 1] \o seqs[i]
  /\ FlattenSeq(seqs) = f[Len(seqs)]

\* FlattenSeq is the last of its partial results.
LEMMA FlattenLoop ==
  ASSUME NEW S, NEW seqs \in Seq(Seq(S))
  PROVE  \E f : FlattenTo(f, seqs, S)
<1> DEFINE n == Len(seqs)
           V == Seq(S)
           step == [x \in V \X (1..n) |-> x[1] \o seqs[x[2]]]
           body(f) == [i \in 1..n |-> IF i = 1 THEN seqs[i] ELSE f[i - 1] \o seqs[i]]
           f0 == CHOOSE f : f = body(f)
<1>1. n \in Nat /\ DOMAIN seqs = 1..n /\ \A i \in 1..n : seqs[i] \in V
  OBVIOUS
<1>2. <<>> \in V /\ step \in [V \X (1..n) -> V]
  <2>1. ASSUME NEW x \in V \X (1..n) PROVE x[1] \o seqs[x[2]] \in V
    <3>1. x[1] \in V /\ seqs[x[2]] \in V
      BY <1>1
    <3> QED BY <3>1
  <2> QED BY <2>1
<1>3. \A a \in V : <<>> \o a = a
  OBVIOUS
<1> HIDE DEF V
<1>4. PICK f : IsLoop(f, n, V, <<>>, step)
  <2> HIDE DEF n, step
  <2> QED BY <1>1, <1>2, LoopExists
<1>5. \A i \in 1..n : f[i] = f[i - 1] \o seqs[i]
  <2> SUFFICES ASSUME NEW i \in 1..n PROVE f[i] = f[i - 1] \o seqs[i]
    OBVIOUS
  <2>1. f[i] = step[<<f[i - 1], i>>]
    BY <1>4 DEF IsLoop
  <2>2. f[i - 1] \in V
    <3>1. i - 1 \in 0..n
      BY <1>1
    <3> HIDE DEF n
    <3> QED BY <1>4, <3>1 DEF IsLoop
  <2> HIDE DEF n
  <2> QED BY <2>1, <2>2
<1>6. f \in [0..n -> V] /\ f[0] = <<>>
  BY <1>4 DEF IsLoop
<1> HIDE DEF step
<1> DEFINE h == [i \in 1..n |-> f[i]]
<1>7. h = body(h)
  <2>1. ASSUME NEW i \in 1..n PROVE h[i] = body(h)[i]
    <3>1. CASE i = 1
      <4>1. f[1] = <<>> \o seqs[1]
        <5>1. 1 - 1 = 0
          OBVIOUS
        <5> QED BY <1>5, <1>6, <3>1, <5>1
      <4>2. f[1] = seqs[1]
        BY <1>1, <1>3, <3>1, <4>1
      <4> HIDE DEF n
      <4> QED BY <3>1, <4>2
    <3>2. CASE i # 1
      <4>1. i - 1 \in 1..n
        BY <1>1, <3>2
      <4> HIDE DEF n
      <4> QED BY <1>5, <3>2, <4>1
    <3> QED BY <3>1, <3>2
  <2>2. h = [i \in 1..n |-> h[i]] /\ body(h) = [i \in 1..n |-> body(h)[i]]
    OBVIOUS
  <2> HIDE DEF h, body, n
  <2> QED BY <2>1, <2>2
<1>8. f0 = body(f0)
  <2> HIDE DEF body, h
  <2> QED BY <1>7
<1> HIDE DEF f0
<1>9. \A i \in 1..n : f0[i] = f[i]
  <2> DEFINE G == {i \in 0..n : i = 0 \/ f0[i] = f[i]}
  <2>1. ASSUME NEW i \in 1..n, i - 1 \in G PROVE i \in G
    <3>1. i \in 0..n /\ i - 1 \in 0..n
      BY <1>1
    <3>2. f0[i] = IF i = 1 THEN seqs[i] ELSE f0[i - 1] \o seqs[i]
      <4> HIDE DEF n
      <4> QED BY <1>8
    <3>3. CASE i = 1
      <4>1. f[1] = <<>> \o seqs[1]
        <5>1. 1 - 1 = 0
          OBVIOUS
        <5> QED BY <1>5, <1>6, <3>3, <5>1
      <4>2. f[1] = seqs[1]
        BY <1>1, <1>3, <3>3, <4>1
      <4> HIDE DEF n
      <4> QED BY <3>1, <3>2, <3>3, <4>2
    <3>4. CASE i # 1
      <4>1. f0[i - 1] = f[i - 1]
        <5>1. i - 1 # 0
          BY <1>1, <3>4
        <5> HIDE DEF n
        <5> QED BY <2>1, <5>1
      <4> HIDE DEF n
      <4> QED BY <1>5, <3>1, <3>2, <3>4, <4>1
    <3> QED BY <3>3, <3>4
  <2>2. 0 \in G
    BY <1>1
  <2>3. 0..n \subseteq G
    <3> HIDE DEF G, n
    <3> QED BY <1>1, <2>1, <2>2, InductionTo
  <2>4. \A i \in 1..n : i \in 0..n /\ i # 0
    BY <1>1
  <2> HIDE DEF n
  <2> QED BY <2>3, <2>4
<1>10. FlattenSeq(seqs) = f[n]
  <2>1. CASE n = 0
    <3>1. seqs = <<>>
      BY <2>1
    <3> QED BY <1>6, <2>1, <3>1 DEF FlattenSeq
  <2>2. CASE n # 0
    <3>1. FlattenSeq(seqs) = f0[n]
      BY <2>2 DEF FlattenSeq, f0
    <3>2. n \in 1..n
      BY <1>1, <2>2
    <3> QED BY <1>9, <3>1, <3>2
  <2> QED BY <2>1, <2>2
<1> QED BY <1>5, <1>6, <1>10 DEF FlattenTo, V

\* Flattening keeps the type of the elements.
LEMMA FlattenTyped ==
  ASSUME NEW S, NEW seqs \in Seq(Seq(S)) PROVE FlattenSeq(seqs) \in Seq(S)
<1>1. PICK f : FlattenTo(f, seqs, S)
  BY FlattenLoop
<1>2. Len(seqs) \in 0..Len(seqs)
  OBVIOUS
<1> QED BY <1>1, <1>2 DEF FlattenTo

\* Sequences that end alike flatten to sequences that end alike, element by element as Q says.
LEMMA FlattenEnd ==
  ASSUME NEW S, NEW R, NEW Q, NEW ts \in Seq(Seq(S)), NEW us \in Seq(Seq(R)), Len(us) <= Len(ts),
         \A k \in 1..Len(us) :
           LET t == ts[Len(ts) - Len(us) + k]
           IN  Len(t) = Len(us[k]) /\ \A x \in 1..Len(us[k]) : <<us[k][x], t[x]>> \in Q
  PROVE  \E c \in Nat : /\ Len(FlattenSeq(ts)) = c + Len(FlattenSeq(us))
                        /\ \A x \in 1..Len(FlattenSeq(us)) : <<FlattenSeq(us)[x], FlattenSeq(ts)[c + x]>> \in Q
<1> DEFINE m == Len(ts)
           n == Len(us)
           off == m - n
<1>1. m \in Nat /\ n \in Nat /\ off \in Nat /\ off + n = m
  OBVIOUS
<1>2. PICK f : FlattenTo(f, ts, S)
  BY FlattenLoop
<1>3. PICK g : FlattenTo(g, us, R)
  BY FlattenLoop
<1>4. /\ f \in [0..m -> Seq(S)] /\ FlattenSeq(ts) = f[m]
      /\ \A i \in 1..m : f[i] = f[i - 1] \o ts[i] /\ ts[i] \in Seq(S)
  BY <1>2 DEF FlattenTo
<1>5. /\ g \in [0..n -> Seq(R)] /\ g[0] = <<>> /\ FlattenSeq(us) = g[n]
      /\ \A i \in 1..n : g[i] = g[i - 1] \o us[i] /\ us[i] \in Seq(R)
  <2>1. g \in [0..n -> Seq(R)] /\ g[0] = <<>> /\ FlattenSeq(us) = g[n]
    BY <1>3 DEF FlattenTo
  <2>2. \A i \in 1..n : g[i] = g[i - 1] \o us[i]
    BY <1>3 DEF FlattenTo
  <2>3. \A i \in 1..n : us[i] \in Seq(R)
    OBVIOUS
  <2> QED BY <2>1, <2>2, <2>3
<1>6. \A k \in 1..n : Len(ts[off + k]) = Len(us[k]) /\ \A x \in 1..Len(us[k]) : <<us[k][x], ts[off + k][x]>> \in Q
  OBVIOUS
<1> DEFINE c == Len(f[off])
           SameEnd(k) == /\ Len(f[off + k]) = c + Len(g[k])
                        /\ \A x \in 1..Len(g[k]) : <<g[k][x], f[off + k][c + x]>> \in Q
           G == {k \in 0..n : SameEnd(k)}
<1>7. off \in 0..m /\ c \in Nat
  <2>1. off \in 0..m
    BY <1>1
  <2>2. f[off] \in Seq(S)
    <3> HIDE DEF off, m
    <3> QED BY <1>4, <2>1
  <2> QED BY <2>1, <2>2
<1> HIDE DEF m, n, off
<1>8. 0 \in G
  <2>1. off + 0 = off /\ Len(g[0]) = 0 /\ 0 \in 0..n /\ c + 0 = c
    BY <1>1, <1>5, <1>7
  <2> HIDE DEF c
  <2>2. Len(f[off + 0]) = c + Len(g[0])
    BY <2>1 DEF c
  <2>3. \A x \in 1..Len(g[0]) : FALSE
    BY <2>1
  <2> QED BY <2>1, <2>2, <2>3
<1>9. ASSUME NEW k \in 1..n, k - 1 \in G PROVE k \in G
  <2> DEFINE a == f[off + (k - 1)]
             b == g[k - 1]
             t == ts[off + k]
             u == us[k]
  <2>1. k \in 0..n /\ k - 1 \in 0..n /\ off + (k - 1) \in 0..m /\ off + k \in 1..m /\ (off + k) - 1 = off + (k - 1)
    BY <1>1, <1>7
  <2>2. a \in Seq(S) /\ b \in Seq(R) /\ t \in Seq(S) /\ u \in Seq(R)
    BY <1>4, <1>5, <2>1
  <2>3. f[off + k] = a \o t /\ g[k] = b \o u
    BY <1>4, <1>5, <2>1
  <2>4. Len(a) = c + Len(b) /\ \A x \in 1..Len(b) : <<b[x], a[c + x]>> \in Q
    BY <1>9
  <2>5. Len(t) = Len(u) /\ \A x \in 1..Len(u) : <<u[x], t[x]>> \in Q
    BY <1>6
  <2> HIDE DEF a, b, t, u, c
  <2>6. Len(a) \in Nat /\ Len(b) \in Nat /\ Len(t) \in Nat /\ Len(u) \in Nat
    BY <2>2
  <2>7. /\ Len(a \o t) = Len(a) + Len(t) /\ \A x \in 1..Len(a) + Len(t) :
             (a \o t)[x] = IF x <= Len(a) THEN a[x] ELSE t[x - Len(a)]
    BY <2>2
  <2>8. /\ Len(b \o u) = Len(b) + Len(u) /\ \A x \in 1..Len(b) + Len(u) :
             (b \o u)[x] = IF x <= Len(b) THEN b[x] ELSE u[x - Len(b)]
    BY <2>2
  <2>9. Len(f[off + k]) = c + Len(g[k])
    BY <1>7, <2>3, <2>4, <2>5, <2>6, <2>7, <2>8
  <2>10. ASSUME NEW x \in 1..Len(g[k]) PROVE <<g[k][x], f[off + k][c + x]>> \in Q
    <3>1. x \in 1..Len(b) + Len(u) /\ c + x \in 1..Len(a) + Len(t) /\ (c + x <= Len(a) <=> x <= Len(b))
      BY <1>7, <2>3, <2>4, <2>5, <2>6, <2>8
    <3>2. CASE x <= Len(b)
      <4>1. g[k][x] = b[x] /\ f[off + k][c + x] = a[c + x] /\ x \in 1..Len(b)
        BY <2>3, <2>6, <2>7, <2>8, <3>1, <3>2
      <4> QED BY <2>4, <4>1
    <3>3. CASE ~ (x <= Len(b))
      <4>1. x - Len(b) \in 1..Len(u) /\ (c + x) - Len(a) = x - Len(b)
        BY <1>7, <2>4, <2>6, <3>1, <3>3
      <4>2. g[k][x] = u[x - Len(b)] /\ f[off + k][c + x] = t[x - Len(b)]
        BY <2>3, <2>7, <2>8, <3>1, <3>3, <4>1
      <4> QED BY <2>5, <4>1, <4>2
    <3> QED BY <3>2, <3>3
  <2> QED BY <2>1, <2>9, <2>10
<1>10. n \in G
  <2>1. 0..n \subseteq G
    <3> HIDE DEF G
    <3> QED BY <1>1, <1>8, <1>9, InductionTo
  <2>2. n \in 0..n
    BY <1>1
  <2> HIDE DEF G
  <2> QED BY <2>1, <2>2
<1>11. /\ Len(f[m]) = c + Len(g[n])
       /\ \A x \in 1..Len(g[n]) : <<g[n][x], f[m][c + x]>> \in Q
  <2> HIDE DEF c
  <2> QED BY <1>1, <1>10
<1> HIDE DEF c
<1> QED BY <1>4, <1>5, <1>7, <1>11

GroupRecords(n) == [digits : Seq(0..9), msg : 1..n]
GroupsIn(texts) == [i \in DOMAIN texts |->
                      LET groups == DigitGroups(texts[i])
                      IN  [g \in DOMAIN groups |-> [digits |-> groups[g], msg |-> i]]]

\* The digit groups of each text, with its number.
LEMMA GroupsInTyped ==
  ASSUME NEW texts \in Seq(Seq(Pieces))
  PROVE  /\ GroupsOf(texts) = FlattenSeq(GroupsIn(texts))
         /\ GroupsIn(texts) \in Seq(Seq(GroupRecords(Len(texts)))) /\ Len(GroupsIn(texts)) = Len(texts)
         /\ \A i \in 1..Len(texts) :
              /\ DigitGroups(texts[i]) \in Seq(Seq(0..9))
              /\ Len(GroupsIn(texts)[i]) = Len(DigitGroups(texts[i]))
              /\ \A x \in 1..Len(DigitGroups(texts[i])) :
                   GroupsIn(texts)[i][x] = [digits |-> DigitGroups(texts[i])[x], msg |-> i]
<1> DEFINE n == Len(texts)
           S == GroupRecords(n)
           T(i) == LET groups == DigitGroups(texts[i])
                   IN  [g \in DOMAIN groups |-> [digits |-> groups[g], msg |-> i]]
<1> HIDE DEF Pieces
<1>1. n \in Nat /\ DOMAIN texts = 1..n /\ \A i \in 1..n : texts[i] \in Seq(Pieces)
  OBVIOUS
<1>2. GroupsOf(texts) = FlattenSeq(GroupsIn(texts))
  BY DEF GroupsOf, GroupsIn
<1>3. ASSUME NEW i \in 1..n
      PROVE  /\ T(i) \in Seq(S) /\ Len(T(i)) = Len(DigitGroups(texts[i]))
             /\ DigitGroups(texts[i]) \in Seq(Seq(0..9))
             /\ \A x \in 1..Len(DigitGroups(texts[i])) :
                  T(i)[x] = [digits |-> DigitGroups(texts[i])[x], msg |-> i]
  <2> DEFINE d == DigitGroups(texts[i])
             r == [g \in DOMAIN d |-> [digits |-> d[g], msg |-> i]]
  <2>1. d \in Seq(Seq(0..9))
    BY <1>1, DigitGroupsTyped
  <2>2. T(i) = r
    OBVIOUS
  <2> HIDE DEF d
  <2>3. Len(d) \in Nat /\ DOMAIN d = 1..Len(d) /\ \A x \in 1..Len(d) : d[x] \in Seq(0..9)
    BY <2>1
  <2>4. \A x \in 1..Len(d) : [digits |-> d[x], msg |-> i] \in S
    BY <2>3 DEF GroupRecords
  <2>5. r \in [1..Len(d) -> S] /\ \A x \in 1..Len(d) : r[x] = [digits |-> d[x], msg |-> i]
    <3> HIDE DEF S
    <3> QED BY <2>3, <2>4
  <2> HIDE DEF r, T, S
  <2>6. r \in Seq(S)
    BY <2>3, <2>5, IsSequence
  <2>7. DOMAIN r = 1..Len(r) /\ DOMAIN r = 1..Len(d) /\ Len(r) \in Nat
    BY <2>5, <2>6
  <2>8. Len(r) = Len(d)
    BY <2>3, <2>7, SameInterval
  <2> QED BY <2>1, <2>2, <2>5, <2>6, <2>8 DEF d
<1>4. GroupsIn(texts) = [i \in 1..n |-> T(i)]
  BY <1>1 DEF GroupsIn
<1> HIDE DEF T, S, n
<1>5. GroupsIn(texts) \in [1..n -> Seq(S)] /\ \A i \in 1..n : GroupsIn(texts)[i] = T(i)
  BY <1>3, <1>4
<1>6. GroupsIn(texts) \in Seq(Seq(S))
  BY <1>1, <1>5, IsSequence
<1>7. Len(GroupsIn(texts)) = n
  <2>1. DOMAIN GroupsIn(texts) = 1..Len(GroupsIn(texts)) /\ Len(GroupsIn(texts)) \in Nat
    BY <1>6
  <2>2. DOMAIN GroupsIn(texts) = 1..n
    BY <1>5
  <2> QED BY <1>1, <2>1, <2>2, SameInterval
<1> QED BY <1>2, <1>3, <1>5, <1>6, <1>7 DEF S, n

\* The groups of all texts are groups of digits, each of one of the texts.
LEMMA GroupsOfTyped ==
  ASSUME NEW texts \in Seq(Seq(Pieces))
  PROVE  GroupsOf(texts) \in Seq(GroupRecords(Len(texts)))
BY GroupsInTyped, FlattenTyped

\* Texts that end alike have groups that end alike.
LEMMA GroupsOfEnd ==
  ASSUME NEW ts \in Seq(Seq(Pieces)), NEW us \in Seq(Seq(Pieces)), Len(us) <= Len(ts),
         \A k \in 1..Len(us) : ts[Len(ts) - Len(us) + k] = us[k]
  PROVE  \E c \in Nat : /\ Len(GroupsOf(ts)) = c + Len(GroupsOf(us))
                        /\ \A x \in 1..Len(GroupsOf(us)) :
                             /\ GroupsOf(ts)[c + x].digits = GroupsOf(us)[x].digits
                             /\ GroupsOf(ts)[c + x].msg = Len(ts) - Len(us) + GroupsOf(us)[x].msg
<1> HIDE DEF Pieces
<1> DEFINE S == GroupRecords(Len(ts))
           R == GroupRecords(Len(us))
           off == Len(ts) - Len(us)
           Q == {p \in R \X S : p[2].digits = p[1].digits /\ p[2].msg = off + p[1].msg}
           a == GroupsIn(ts)
           b == GroupsIn(us)
<1>1. Len(ts) \in Nat /\ Len(us) \in Nat /\ off \in Nat /\ off + Len(us) = Len(ts)
  OBVIOUS
<1>2. a \in Seq(Seq(S)) /\ b \in Seq(Seq(R)) /\ Len(a) = Len(ts) /\ Len(b) = Len(us)
  BY GroupsInTyped
<1>3. ASSUME NEW k \in 1..Len(b)
      PROVE  LET t == a[Len(a) - Len(b) + k]
             IN  Len(t) = Len(b[k]) /\ \A x \in 1..Len(b[k]) : <<b[k][x], t[x]>> \in Q
  <2> DEFINE d == DigitGroups(us[k])
  <2>1. off + k \in 1..Len(ts) /\ k \in 1..Len(us) /\ Len(a) - Len(b) + k = off + k
    BY <1>1, <1>2
  <2>2. ts[off + k] = us[k]
    BY <2>1
  <2>3. Len(b[k]) = Len(d) /\ \A x \in 1..Len(d) : b[k][x] = [digits |-> d[x], msg |-> k]
    BY <2>1, GroupsInTyped
  <2>4. /\ Len(a[off + k]) = Len(d) /\ \A x \in 1..Len(d) : a[off + k][x] = [digits |-> d[x], msg |-> off + k]
        /\ d \in Seq(Seq(0..9))
    <3> DEFINE j == off + k
    <3>1. j \in 1..Len(ts) /\ DigitGroups(ts[j]) = d
      BY <2>1, <2>2
    <3> HIDE DEF j, d, off
    <3>2. /\ Len(a[j]) = Len(d) /\ \A x \in 1..Len(d) : a[j][x] = [digits |-> d[x], msg |-> j]
          /\ d \in Seq(Seq(0..9))
      BY <3>1, GroupsInTyped
    <3> QED BY <3>2 DEF j
  <2> HIDE DEF d
  <2>5. \A x \in 1..Len(d) : d[x] \in Seq(0..9)
    BY <2>4
  <2> HIDE DEF off
  <2>6. \A x \in 1..Len(d) : <<[digits |-> d[x], msg |-> k], [digits |-> d[x], msg |-> off + k]>> \in Q
    BY <2>1, <2>5 DEF GroupRecords
  <2> HIDE DEF Q
  <2> QED BY <2>1, <2>3, <2>4, <2>6
<1> HIDE DEF Q, S, R
<1>4. PICK c \in Nat : /\ Len(FlattenSeq(a)) = c + Len(FlattenSeq(b))
                       /\ \A x \in 1..Len(FlattenSeq(b)) : <<FlattenSeq(b)[x], FlattenSeq(a)[c + x]>> \in Q
  <2>1. Len(b) <= Len(a)
    BY <1>2
  <2> HIDE DEF a, b
  <2> QED BY <1>2, <1>3, <2>1, FlattenEnd
<1>5. FlattenSeq(a) = GroupsOf(ts) /\ FlattenSeq(b) = GroupsOf(us)
  BY GroupsInTyped
<1> HIDE DEF a, b
<1>6. \A x \in 1..Len(GroupsOf(us)) :
        /\ GroupsOf(ts)[c + x].digits = GroupsOf(us)[x].digits
        /\ GroupsOf(ts)[c + x].msg = off + GroupsOf(us)[x].msg
  BY <1>4, <1>5 DEF Q
<1> QED BY <1>4, <1>5, <1>6

\* Of some hits one comes first.
LEMMA FirstExists ==
  ASSUME NEW n \in Nat, NEW hs, hs # {},
         hs \subseteq [from : 1..n, to : 1..n, entity : {"CREDIT_CARD", "CA_SIN"}]
  PROVE  \E h \in hs : \A g \in hs : Before(h, g)
<1>1. \A h \in hs : h.from \in Nat /\ h.to \in Nat /\ h.entity \in {"CREDIT_CARD", "CA_SIN"}
  OBVIOUS
<1> DEFINE F == {h.from : h \in hs}
<1>2. PICK f \in F : \A m \in F : f <= m
  <2>1. F \in SUBSET Nat /\ F # {}
    BY <1>1
  <2> HIDE DEF F
  <2> QED BY <2>1, LeastNat
<1> DEFINE T == {h.to : h \in {g \in hs : g.from = f}}
<1>3. PICK t \in T : \A m \in T : t <= m
  <2>1. T \in SUBSET Nat /\ T # {}
    BY <1>1, <1>2
  <2> HIDE DEF T
  <2> QED BY <2>1, LeastNat
<1>4. PICK h \in hs : /\ h.from = f /\ h.to = t
                      /\ h.entity = "CREDIT_CARD" \/ \A g \in hs : g.from = f /\ g.to = t => g.entity # "CREDIT_CARD"
  BY <1>3
<1>5. ASSUME NEW g \in hs PROVE Before(h, g)
  <2>1. f <= g.from /\ (g.from = f => t <= g.to)
    BY <1>2, <1>3
  <2>2. g.from \in Nat /\ g.to \in Nat /\ h.from \in Nat /\ h.to \in Nat
    BY <1>1
  <2>3. CASE g.from = f /\ g.to = t
    <3>1. h.entity = "CREDIT_CARD" \/ h.entity = g.entity
      BY <1>1, <1>4, <2>3
    <3> QED BY <1>4, <2>3, <3>1 DEF Before
  <2>4. CASE g.from = f /\ g.to # t
    BY <1>4, <2>1, <2>2, <2>4 DEF Before
  <2>5. CASE g.from # f
    BY <1>4, <2>1, <2>2, <2>5 DEF Before
  <2> QED BY <2>3, <2>4, <2>5
<1> QED BY <1>5

\* What a hit uses are texts, the latest one with digits among them.
LEMMA SplitHitUses ==
  ASSUME NEW texts \in Seq(Seq(Pieces))
  PROVE  /\ SplitHit(texts).used \subseteq DOMAIN texts
         /\ Hits(texts, GroupsOf(texts)) # {} =>
              /\ SplitHit(texts) # NoHit
              /\ SplitHit(texts).entity \in {"CREDIT_CARD", "CA_SIN"}
              /\ LatestWithDigits(texts) \in SplitHit(texts).used
<1> HIDE DEF Pieces
<1> DEFINE groups == GroupsOf(texts)
           hs == Hits(texts, groups)
           first == CHOOSE h \in hs : \A g \in hs : Before(h, g)
<1>1. groups \in Seq(GroupRecords(Len(texts))) /\ DOMAIN texts = 1..Len(texts)
  BY GroupsOfTyped
<1> HIDE DEF groups
<1>2. Len(groups) \in Nat /\ DOMAIN groups = 1..Len(groups) /\ \A k \in DOMAIN groups : groups[k].msg \in 1..Len(texts)
  <2>1. Len(groups) \in Nat /\ DOMAIN groups = 1..Len(groups)
    BY <1>1
  <2>2. ASSUME NEW k \in DOMAIN groups PROVE groups[k].msg \in 1..Len(texts)
    <3>1. groups[k] \in GroupRecords(Len(texts))
      BY <1>1
    <3> QED BY <3>1 DEF GroupRecords
  <2> QED BY <2>1, <2>2
<1>3. SplitHit(texts) = IF hs = {} THEN NoHit ELSE [entity |-> first.entity, used |-> Used(groups, first.from, first.to)]
  BY DEF SplitHit, HitIn, FirstHit, groups
<1>4. hs = {h \in [from : DOMAIN groups, to : DOMAIN groups, entity : {"CREDIT_CARD", "CA_SIN"}] :
              h.from < h.to /\ Found(texts, groups, h.from, h.to, h.entity)}
  BY DEF Hits
<1> HIDE DEF hs
<1>5. CASE hs = {}
  BY <1>3, <1>5 DEF NoHit, groups, hs
<1>6. CASE hs # {}
  <2>1. \E h \in hs : \A g \in hs : Before(h, g)
    <3>1. hs \subseteq [from : 1..Len(groups), to : 1..Len(groups), entity : {"CREDIT_CARD", "CA_SIN"}]
      BY <1>2, <1>4
    <3> QED BY <1>2, <1>6, <3>1, FirstExists
  <2>2. first \in hs
    BY <2>1
  <2> HIDE DEF first
  <2>3. /\ first.from \in DOMAIN groups /\ first.to \in DOMAIN groups
        /\ first.entity \in {"CREDIT_CARD", "CA_SIN"}
        /\ Found(texts, groups, first.from, first.to, first.entity)
    BY <1>4, <2>2
  <2>4. LatestWithDigits(texts) \in Used(groups, first.from, first.to)
    BY <2>3 DEF Found
  <2>5. Used(groups, first.from, first.to) \subseteq DOMAIN texts
    <3>1. \A k \in first.from..first.to : k \in DOMAIN groups
      BY <1>2, <2>3
    <3> QED BY <1>1, <1>2, <3>1 DEF Used
  <2>6. SplitHit(texts) = [entity |-> first.entity, used |-> Used(groups, first.from, first.to)]
    BY <1>3, <1>6
  <2>7. SplitHit(texts) # NoHit
    <3>1. SplitHit(texts).entity = first.entity /\ NoHit.entity = "none"
      BY <2>6 DEF NoHit, None
    <3>2. first.entity # "none"
      BY <2>3
    <3> QED BY <3>1, <3>2
  <2> QED BY <2>3, <2>4, <2>5, <2>6, <2>7
<1> QED BY <1>5, <1>6 DEF hs, groups

-----------------------------------------------------------------------------
(* JoinedAreCurrent. *)

\* The messages that are looked at together: recent ones of the window, and the one under review.
LEMMA ChainFacts ==
  ASSUME ConversationInv, JudgeTakes
  PROVE  LET o == Others(RecentNow, {Reviewed.id})
             n == Len(ChainNow)
         IN  /\ o \in Seq(W) /\ Len(o) \in Nat /\ n = Len(o) + 1 /\ DOMAIN ChainNow = 1..n
             /\ ChainNow[n] = Reviewed /\ \A k \in 1..Len(o) : ChainNow[k] = o[k]
             /\ \A k \in 1..Len(o) : /\ o[k].id # Reviewed.id /\ o[k] \in ToSet(window)
                                     /\ clock - o[k].at <= MaxAge /\ o[k].at \in Nat
             /\ Texts(ChainNow) \in Seq(Seq(Pieces)) /\ Len(Texts(ChainNow)) = n
             /\ \A k \in 1..n : Texts(ChainNow)[k] = ChainNow[k].text
<1> DEFINE o == Others(RecentNow, {Reviewed.id})
           n == Len(ChainNow)
<1> HIDE DEF o
<1>1. o \in Seq(W) /\ ChainNow = Append(o, Reviewed) /\ ChainNow \in Seq(ShownRecords)
  BY ChainTyped DEF o
<1>2. Len(o) \in Nat /\ DOMAIN o = 1..Len(o)
  <2> HIDE DEF W
  <2> QED BY <1>1
<1>3. /\ n = Len(o) + 1 /\ DOMAIN ChainNow = 1..n /\ ChainNow[n] = Reviewed
      /\ \A k \in 1..Len(o) : ChainNow[k] = o[k]
  <2> DEFINE c == Append(o, Reviewed)
  <2> HIDE DEF W
  <2>1. Len(c) = Len(o) + 1 /\ DOMAIN c = 1..Len(c) /\ c[Len(o) + 1] = Reviewed
        /\ \A k \in 1..Len(o) : c[k] = o[k]
    BY <1>1, <1>2
  <2> HIDE DEF c
  <2>2. ChainNow = c
    BY <1>1 DEF c
  <2> QED BY <2>1, <2>2
<1>4. ASSUME NEW k \in 1..Len(o)
      PROVE  o[k].id # Reviewed.id /\ o[k] \in ToSet(window) /\ clock - o[k].at <= MaxAge /\ o[k].at \in Nat
  <2>1. o[k].id \notin {Reviewed.id}
    BY <1>2, RecentFacts, OthersArePart DEF o
  <2>2. PICK j \in DOMAIN RecentNow : o[k] = RecentNow[j]
    <3>1. PartOf(o, RecentNow)
      BY RecentFacts, OthersArePart DEF o
    <3>2. RecentNow \in Seq(W)
      BY RecentFacts
    <3> HIDE DEF W
    <3>3. \A i \in DOMAIN o : \E j \in DOMAIN RecentNow : o[i] = RecentNow[j]
      BY <3>1, <3>2, PartItems
    <3> QED BY <1>2, <3>3
  <2>3. o[k] \in ToSet(window)
    BY <2>2, RecentFacts DEF ToSet
  <2>4. o[k].at \in Nat
    <3>1. o[k] \in W
      <4> HIDE DEF W
      <4> QED BY <1>1, <1>2
    <3> QED BY <3>1 DEF W, WindowRecords
  <2> QED BY <2>1, <2>2, <2>3, <2>4, RecentFacts
<1>5. Texts(ChainNow) = [k \in 1..n |-> ChainNow[k].text]
  BY <1>3 DEF Texts
<1> DEFINE P == Seq(Pieces)
<1>6. Texts(ChainNow) \in [1..n -> P]
  <2>1. \A r \in ShownRecords : r.text \in P
    BY DEF ShownRecords, EventRecords, WindowRecords
  <2> HIDE DEF P, ShownRecords
  <2>2. \A k \in 1..n : ChainNow[k] \in ShownRecords
    BY <1>1, <1>3
  <2> QED BY <1>5, <2>1, <2>2
<1> HIDE DEF P
<1>7. n \in Nat
  BY <1>2, <1>3
<1> HIDE DEF n
<1>8. Texts(ChainNow) \in Seq(P)
  BY <1>6, <1>7, IsSequence
<1>9. Len(Texts(ChainNow)) = n
  <2> DEFINE x == Texts(ChainNow)
  <2>1. DOMAIN x = 1..n /\ x \in Seq(P)
    BY <1>6, <1>8
  <2> HIDE DEF x
  <2>2. DOMAIN x = 1..Len(x) /\ Len(x) \in Nat
    BY <2>1
  <2> QED BY <1>7, <2>1, <2>2, SameInterval DEF x
<1>10. \A k \in 1..n : Texts(ChainNow)[k] = ChainNow[k].text
  BY <1>5
<1> QED BY <1>1, <1>2, <1>3, <1>4, <1>8, <1>9, <1>10 DEF o, n, P

\* What a hit uses are messages that are looked at.
LEMMA HitNowUses ==
  ASSUME ConversationInv, JudgeTakes PROVE HitNow.used \subseteq DOMAIN ChainNow
<1>1. DOMAIN Texts(ChainNow) = DOMAIN ChainNow
  BY DEF Texts
<1> QED BY <1>1, ChainFacts, SplitHitUses DEF HitNow

\* What does not judge, and adds no removal by the rules, keeps what was said of those removals.
LEMMA JoinedStay ==
  ASSUME ConversationInv, JoinedAreCurrent, RuleHits' = RuleHits, Sent \subseteq Sent',
         Completing' = Completing, script' = script,
         \A e \in Judged : judgedAt'[e] = judgedAt[e]
  PROVE  JoinedAreCurrent'
<1> SUFFICES ASSUME NEW h \in RuleHits, NEW p \in h.parts
             PROVE  /\ ReadsAs(p, h.upTo)'
                    /\ \E e \in 1..h.upTo : script'[e].id = p.id /\ judgedAt'[h.upTo] - judgedAt'[e] <= MaxAge
  BY DEF JoinedAreCurrent, Event
<1>1. /\ ReadsAs(p, h.upTo)
      /\ \E e \in 1..h.upTo : script[e].id = p.id /\ judgedAt[h.upTo] - judgedAt[e] <= MaxAge
  BY DEF JoinedAreCurrent, Event
<1>2. h.upTo \in Judged /\ Judged = 1..Len(judgedAt) /\ Len(judgedAt) \in Nat
  BY Lengths DEF ConversationInv, ConversationTypeOK, RuleHits
<1>3. \A e \in 1..h.upTo : e \in Judged
  BY <1>2
<1>4. ReadsAs(p, h.upTo)'
  BY <1>1 DEF ReadsAs, Event
<1> QED BY <1>1, <1>2, <1>3, <1>4

\* When triage removes messages for a number, they are as JoinedAreCurrent says.
LEMMA JoinedByJudge ==
  ASSUME ConversationInv, JoinedAreCurrent, JudgeTakes, JudgeRemovesParts
  PROVE  JoinedAreCurrent'
<1> USE DEF ConversationInv
<1>1. PICK n \in Nat : n = Len(judgedAt) + 1
  BY Lengths
<1>2. PICK r : r = RuleHit
  OBVIOUS
<1>3. hits' = hits \cup {r}
  BY <1>2 DEF JudgeRemovesParts
<1>4. r.by = "rules" /\ r.upTo = n /\ r.parts = Parts(ChainNow, HitNow.used)
  BY <1>1, <1>2 DEF RuleHit
<1>5. RuleHits' = RuleHits \cup {r} /\ Completing \subseteq Completing' /\ n \in Completing'
  BY <1>3, <1>4 DEF RuleHits, Completing
<1>6. /\ n \in Nat /\ clock \in Nat /\ MaxAge \in Nat /\ Judged = 1..n - 1 /\ Judged \subseteq Judged'
      /\ Judged' = 1..n /\ Sent' = Sent /\ script' = script /\ Len(judgedAt') = n
      /\ judgedAt'[n] = clock /\ \A e \in Judged : judgedAt'[e] = judgedAt[e] /\ judgedAt[e] \in 0..clock
      /\ n \in Sent /\ Reviewed \in EventRecords /\ Reviewed = Event(n)
  <2>1. n - 1 = Len(judgedAt)
    BY <1>1, Lengths
  <2> QED BY <1>1, <2>1, Lengths, JudgeCommon, WindowAssumption DEF JudgeTakes, Reviewed
<1>7. ASSUME NEW h \in RuleHits, NEW p \in h.parts
      PROVE  /\ ReadsAs(p, h.upTo)'
             /\ \E e \in 1..h.upTo : script'[e].id = p.id /\ judgedAt'[h.upTo] - judgedAt'[e] <= MaxAge
  <2>1. /\ ReadsAs(p, h.upTo)
        /\ \E e \in 1..h.upTo : script[e].id = p.id /\ judgedAt[h.upTo] - judgedAt[e] <= MaxAge
    BY DEF JoinedAreCurrent, Event
  <2>2. h.upTo \in Judged
    BY DEF ConversationTypeOK, RuleHits
  <2>3. \A e \in 1..h.upTo : e \in Judged
    BY <1>6, <2>2
  <2>4. ReadsAs(p, h.upTo)'
    BY <1>5, <1>6, <2>1 DEF ReadsAs, Event
  <2> QED BY <1>6, <2>1, <2>2, <2>3, <2>4
<1>8. ASSUME NEW p \in r.parts
      PROVE  /\ ReadsAs(p, n)'
             /\ \E e \in 1..n : script'[e].id = p.id /\ judgedAt'[n] - judgedAt'[e] <= MaxAge
  <2> DEFINE o == Others(RecentNow, {Reviewed.id})
  <2>1. PICK k \in HitNow.used : p = [id |-> ChainNow[k].id, text |-> ChainNow[k].text]
    BY <1>4 DEF Parts
  <2>2. k \in 1..Len(o) + 1 /\ Len(o) \in Nat
    BY <2>1, ChainFacts, HitNowUses
  <2>3. CASE k = Len(o) + 1
    <3>1. p = Reviewed
      BY <1>6, <2>1, <2>3, ChainFacts DEF EventRecords
    <3>2. script'[n] = p /\ n \in Sent' /\ n \in 1..n
      BY <1>1, <1>6, <3>1 DEF Event
    <3>3. \A d \in n + 1..n : FALSE
      BY <1>1
    <3>4. ReadsAs(p, n)'
      BY <3>2, <3>3 DEF ReadsAs, Event
    <3>5. judgedAt'[n] - judgedAt'[n] <= MaxAge
      BY <1>6
    <3> QED BY <3>2, <3>4, <3>5
  <2>4. CASE k \in 1..Len(o)
    <3>1. PICK m : m = o[k]
      OBVIOUS
    <3>2. /\ p = [id |-> m.id, text |-> m.text] /\ m.id # Reviewed.id /\ m \in ToSet(window)
          /\ clock - m.at <= MaxAge /\ m.at \in Nat
      <4>1. /\ ChainNow[k] = o[k] /\ o[k].id # Reviewed.id /\ o[k] \in ToSet(window)
            /\ clock - o[k].at <= MaxAge /\ o[k].at \in Nat
        BY <2>4, ChainFacts
      <4> HIDE DEF o
      <4> QED BY <2>1, <3>1, <4>1
    <3>3. /\ ReadsAs([id |-> m.id, text |-> m.text], Len(judgedAt))'
          /\ \E e \in Judged' : script'[e].id = m.id /\ m.at <= judgedAt'[e]
      BY <1>5, <3>2, CurrentStays
    <3>4. ReadsAs(p, n)'
      BY <1>6, <3>2, <3>3 DEF ReadsAs, Event
    <3>5. PICK e \in 1..n : script'[e].id = m.id /\ m.at <= judgedAt'[e]
      BY <1>6, <3>3
    <3>6. judgedAt'[e] \in Nat
      <4>1. e = n \/ e \in Judged
        BY <1>6
      <4> QED BY <1>6, <4>1
    <3>7. clock - judgedAt'[e] <= MaxAge
      <4> DEFINE x == judgedAt'[e]
                 y == m.at
      <4>1. x \in Nat /\ y \in Nat /\ y <= x /\ clock - y <= MaxAge
        BY <3>2, <3>5, <3>6
      <4> HIDE DEF x, y
      <4>2. clock - x <= MaxAge
        BY <1>6, <4>1
      <4> QED BY <4>2 DEF x
    <3>8. p.id = m.id
      BY <3>2
    <3> QED BY <1>6, <3>4, <3>5, <3>7, <3>8
  <2>5. k = Len(o) + 1 \/ k \in 1..Len(o)
    <3> HIDE DEF o
    <3> QED BY <2>2
  <2> QED BY <2>3, <2>4, <2>5
<1> QED BY <1>4, <1>5, <1>7, <1>8 DEF JoinedAreCurrent, Event

\* JoinedAreCurrent holds in every reachable state.
THEOREM ShortMemory == Spec => []JoinedAreCurrent
<1>1. ASSUME Init PROVE JoinedAreCurrent
  BY <1>1 DEF Init, JoinedAreCurrent, RuleHits
<1>2. ASSUME ConversationInv, JoinedAreCurrent, [Next]_vars PROVE JoinedAreCurrent'
  <2> USE <1>2
  <2>1. ASSUME UNCHANGED <<script, judgedAt, hits>>, Sent \subseteq Sent' PROVE JoinedAreCurrent'
    <3>1. RuleHits' = RuleHits /\ Completing' = Completing
      BY <2>1 DEF RuleHits, Completing
    <3> QED BY <2>1, <3>1, JoinedStay
  <2>2. CASE Write
    <3>1. sentAt \in Seq(0..clock)
      BY DEF ConversationInv, ConversationTypeOK
    <3>2. Len(sentAt) \in Nat /\ Sent = 1..Len(sentAt)
      BY Lengths DEF ConversationInv
    <3>3. sentAt' = Append(sentAt, clock) /\ clock \in 0..clock
      BY <2>2, Lengths DEF Write, ConversationInv
    <3>4. Sent' = 1..Len(sentAt) + 1
      BY <3>1, <3>3, AppendProperties DEF Sent
    <3>5. Sent \subseteq Sent'
      BY <3>2, <3>4
    <3> QED BY <2>1, <2>2, <3>5 DEF Write
  <2>3. CASE Judge
    <3>1. JudgeTakes /\ (JudgeAdds \/ JudgeRemovesOne \/ JudgeRemovesParts)
      BY <2>3, JudgeIs DEF ConversationInv
    <3>2. CASE hits' = hits
      <4>1. RuleHits' = RuleHits /\ Completing' = Completing
        BY <3>2 DEF RuleHits, Completing
      <4>2. Sent' = Sent /\ \A e \in Judged : judgedAt'[e] = judgedAt[e]
        BY <3>1, JudgeCommon
      <4> QED BY <3>1, <4>1, <4>2, JoinedStay DEF JudgeTakes
    <3> QED BY <3>1, <3>2, JoinedByJudge DEF JudgeAdds, JudgeRemovesOne
  <2>4. CASE Restart
    BY <2>1, <2>4 DEF Restart, Sent
  <2>5. CASE Tick
    BY <2>1, <2>5 DEF Tick, Sent
  <2>6. ASSUME NEW e \in DOMAIN deep, NEW a \in Answers, Answer(e, a) PROVE JoinedAreCurrent'
    <3>1. UNCHANGED <<script, sentAt, judgedAt>> /\ (hits' = hits \/ ByModel)
      BY <2>6, AnswerIs
    <3>2. RuleHits' = RuleHits
      BY <3>1 DEF ByModel, RuleHits
    <3>3. Completing' = Completing /\ Sent' = Sent
      BY <3>1, <3>2 DEF Completing, Sent
    <3> QED BY <3>1, <3>2, <3>3, JoinedStay
  <2>7. CASE UNCHANGED vars
    BY <2>1, <2>7 DEF vars, Sent
  <2> QED BY <2>2, <2>3, <2>4, <2>5, <2>6, <2>7 DEF Next
<1> QED BY <1>1, <1>2, ConversationInvariance, PTL DEF Spec

-----------------------------------------------------------------------------
(* StandingSplitCaught. *)

\* A finite set has more than one element when it has two different ones, and conversely.
LEMMA TwoOfMany ==
  ASSUME NEW S, IsFiniteSet(S)
  PROVE  Cardinality(S) > 1 <=> \E x, y \in S : x # y
<1>0. Cardinality(S) \in Nat
  BY FS_CardinalityType
<1>1. ASSUME NEW x \in S, NEW y \in S, x # y PROVE Cardinality(S) > 1
  <2>1. IsFiniteSet({x}) /\ Cardinality({x}) = 1
    BY FS_Singleton
  <2>2. y \notin {x} /\ {x} \cup {y} \subseteq S
    BY <1>1
  <2>3. Cardinality({x} \cup {y}) = Cardinality({x}) + 1
    BY <2>1, <2>2, FS_AddElement
  <2>4. Cardinality({x} \cup {y}) <= Cardinality(S)
    BY <2>2, FS_Subset
  <2> QED BY <1>0, <2>1, <2>3, <2>4
<1>2. ASSUME Cardinality(S) > 1 PROVE \E x, y \in S : x # y
  <2>1. S # {}
    BY <1>2, FS_EmptySet
  <2>2. PICK x \in S : TRUE
    BY <2>1
  <2>3. Cardinality({x}) = 1
    BY FS_Singleton
  <2>4. S # {x}
    BY <1>2, <2>3
  <2> QED BY <2>2, <2>4
<1> QED BY <1>1, <1>2

\* A card that stays in the texts at the end of what is looked at is a hit there, and the last
\* message that has digits is one of those texts.
LEMMA StayingIsHit ==
  ASSUME NEW ts \in Seq(Seq(Pieces)), NEW us \in Seq(Seq(Pieces)), 1 <= Len(us), Len(us) <= Len(ts),
         \A k \in 1..Len(us) : ts[Len(ts) - Len(us) + k] = us[k], SplitStays(us)
  PROVE  /\ Hits(ts, GroupsOf(ts)) # {}
         /\ LatestWithDigits(ts) \in Len(ts) - Len(us) + 1..Len(ts)
<1> HIDE DEF Pieces
<1> DEFINE off == Len(ts) - Len(us)
           gu == GroupsOf(us)
           gt == GroupsOf(ts)
           n == Len(gu)
<1>1. /\ gu \in Seq(GroupRecords(Len(us))) /\ gt \in Seq(GroupRecords(Len(ts)))
      /\ Len(ts) \in Nat /\ Len(us) \in Nat /\ off \in Nat /\ off + Len(us) = Len(ts)
      /\ DOMAIN ts = 1..Len(ts) /\ DOMAIN us = 1..Len(us)
  BY GroupsOfTyped
<1>2. PICK c \in Nat : /\ Len(gt) = c + n
                       /\ \A x \in 1..n : gt[c + x].digits = gu[x].digits /\ gt[c + x].msg = off + gu[x].msg
  BY GroupsOfEnd
<1>3. PICK a \in 1..n - 1 :
        /\ SplitCard(gu, a, n)
        /\ IF DigitGroups(Last(us)) = <<>> THEN HasWord(Last(us))
           ELSE \/ \E t \in ToSet(us) : HasWord(t)
                \/ Hidden(us, {gu[k].msg : k \in a..n})
  BY DEF SplitStays
<1> HIDE DEF gu, gt
<1>4. /\ n \in Nat /\ DOMAIN gu = 1..n /\ Len(gt) \in Nat /\ DOMAIN gt = 1..Len(gt) /\ c + n = Len(gt)
      /\ \A x \in 1..n : gu[x].msg \in 1..Len(us)
  <2>1. \A x \in 1..n : gu[x] \in GroupRecords(Len(us))
    BY <1>1
  <2>2. \A x \in 1..n : gu[x].msg \in 1..Len(us)
    BY <2>1 DEF GroupRecords
  <2> QED BY <1>1, <1>2, <2>2
<1> HIDE DEF n, off
<1> DEFINE d == Joined(gu, a, n)
           used == Used(gu, a, n)
           usedT == Used(gt, c + a, c + n)
<1>5. n - a < MaxGroups /\ Cardinality(used) > 1 /\ IsCard(d)
  BY <1>3 DEF SplitCard, Joined, Used
<1>6. Joined(gt, c + a, c + n) = d
  <2>1. (c + n) - (c + a) + 1 = n - a + 1
    BY <1>4
  <2>2. ASSUME NEW k \in 1..n - a + 1 PROVE gt[(c + a) + k - 1].digits = gu[a + k - 1].digits
    <3>1. a + k - 1 \in 1..n /\ (c + a) + k - 1 = c + (a + k - 1)
      BY <1>4
    <3> QED BY <1>2, <3>1
  <2>3. [k \in 1..n - a + 1 |-> gt[(c + a) + k - 1].digits] = [k \in 1..n - a + 1 |-> gu[a + k - 1].digits]
    BY <2>2
  <2> QED BY <2>1, <2>3 DEF Joined
<1>7. /\ \A x \in used : off + x \in usedT
      /\ \A y \in usedT : \E x \in used : y = off + x
  <2>1. ASSUME NEW x \in used PROVE off + x \in usedT
    <3>1. PICK k \in a..n : x = gu[k].msg
      BY DEF Used
    <3>2. c + k \in c + a..c + n /\ k \in 1..n
      BY <1>4
    <3> QED BY <1>2, <3>1, <3>2 DEF Used
  <2>2. ASSUME NEW y \in usedT PROVE \E x \in used : y = off + x
    <3>1. PICK j \in c + a..c + n : y = gt[j].msg
      BY DEF Used
    <3>2. j - c \in a..n /\ j - c \in 1..n /\ c + (j - c) = j
      BY <1>4
    <3> QED BY <1>2, <3>1, <3>2 DEF Used
  <2> QED BY <2>1, <2>2
<1>8. used \subseteq 1..Len(us) /\ usedT \subseteq off + 1..Len(ts)
  <2>1. used \subseteq 1..Len(us)
    <3>1. \A k \in a..n : k \in 1..n
      BY <1>4
    <3> QED BY <1>4, <3>1 DEF Used
  <2>2. ASSUME NEW y \in usedT PROVE y \in off + 1..Len(ts)
    <3>1. PICK x \in used : y = off + x
      BY <1>7
    <3> HIDE DEF used
    <3> QED BY <1>1, <2>1, <3>1
  <2> QED BY <2>1, <2>2
<1>9. Cardinality(usedT) > 1
  <2>1. IsFiniteSet(used)
    <3>1. IsFiniteSet(1..Len(us))
      BY <1>1, FS_Interval
    <3> QED BY <1>8, <3>1, FS_Subset
  <2>2. IsFiniteSet(usedT)
    <3>1. IsFiniteSet(off + 1..Len(ts))
      BY <1>1, FS_Interval
    <3> QED BY <1>8, <3>1, FS_Subset
  <2>3. PICK x \in used, y \in used : x # y
    BY <1>5, <2>1, TwoOfMany
  <2>4. off + x \in usedT /\ off + y \in usedT /\ off + x # off + y
    <3>1. x \in Nat /\ y \in Nat /\ off \in Nat
      BY <1>1, <1>8
    <3> HIDE DEF used, usedT
    <3> QED BY <1>7, <2>3, <3>1
  <2> HIDE DEF usedT
  <2> QED BY <2>2, <2>4, TwoOfMany
<1>10. LatestWithDigits(ts) \in usedT
  <2>1. LatestWithDigits(ts) = gt[c + n].msg
    BY <1>4 DEF LatestWithDigits, Last, gt
  <2>2. c + n \in c + a..c + n
    BY <1>4
  <2> QED BY <2>1, <2>2 DEF Used
<1>11. LengthLimit(d) /\ Valid("CREDIT_CARD", d)
  BY <1>5, LengthAssumption DEF LengthLimit, Valid, IsCard
<1>12. \A k \in 1..Len(us) : off + k \in DOMAIN ts /\ ts[off + k] = us[k]
  BY <1>1 DEF off
<1>13. Last(ts) = Last(us) /\ Last(us) = us[Len(us)] /\ ts[Len(ts)] = us[Len(us)]
  <2>1. Len(us) \in 1..Len(us) /\ off + Len(us) = Len(ts)
    BY <1>1
  <2>2. ts[Len(ts)] = us[Len(us)]
    BY <1>12, <2>1
  <2> QED BY <2>2 DEF Last
<1>14. ContextWords["CREDIT_CARD"] = CardWords
  BY DEF ContextWords
<1>15. NeedsNoWord(ts, "CREDIT_CARD", usedT) \/ InContext(ts, "CREDIT_CARD")
  <2>1. CASE DigitGroups(Last(us)) = <<>>
    <3>1. NewContext(ts) /\ Mentions(Folded(ts[Len(ts)]), CardWords)
      BY <1>3, <1>13, <2>1 DEF NewContext, HasWord
    <3> QED BY <1>14, <3>1 DEF InContext
  <2>2. CASE DigitGroups(Last(us)) # <<>> /\ \E t \in ToSet(us) : HasWord(t)
    <3>1. ~ NewContext(ts)
      BY <1>13, <2>2 DEF NewContext
    <3>2. PICK k \in 1..Len(us) : HasWord(us[k])
      BY <1>1, <2>2 DEF ToSet
    <3>3. off + k \in DOMAIN ts /\ Mentions(Folded(ts[off + k]), CardWords)
      BY <1>12, <3>2 DEF HasWord
    <3> QED BY <1>14, <3>1, <3>3 DEF InContext
  <2>3. CASE DigitGroups(Last(us)) # <<>> /\ Hidden(us, used)
    <3>1. ~ NewContext(ts)
      BY <1>13, <2>3 DEF NewContext
    <3>2. ASSUME NEW y \in usedT PROVE Bare(ts[y]) \/ Disguised(ts[y])
      <4>1. PICK x \in used : y = off + x
        BY <1>7
      <4>2. ts[off + x] = us[x]
        BY <1>8, <1>12
      <4>3. Disguised(us[x]) \/ Bare(us[x])
        BY <2>3 DEF Hidden
      <4> QED BY <4>1, <4>2, <4>3
    <3> QED BY <3>1, <3>2 DEF NeedsNoWord
  <2> QED BY <1>3, <2>1, <2>2, <2>3 DEF Used
<1>16. Found(ts, gt, c + a, c + n, "CREDIT_CARD")
  <2>1. (c + n) - (c + a) < MaxGroups
    <3>1. (c + n) - (c + a) = n - a
      BY <1>4
    <3> QED BY <1>5, <3>1
  <2> QED BY <1>6, <1>9, <1>10, <1>11, <1>15, <2>1 DEF Found
<1> DEFINE h == [from |-> c + a, to |-> c + n, entity |-> "CREDIT_CARD"]
<1>17. h \in [from : DOMAIN gt, to : DOMAIN gt, entity : {"CREDIT_CARD", "CA_SIN"}] /\ h.from < h.to
  BY <1>4
<1>18. h \in Hits(ts, gt)
  BY <1>16, <1>17 DEF Hits
<1> QED BY <1>8, <1>10, <1>18 DEF gt, off

\* A hit on what is looked at makes triage act on it.
LEMMA HitIsActedOn ==
  ASSUME RemovesSplits, ConversationInv, JudgeTakes, Len(ChainNow) >= 2,
         HitNow # NoHit, HitNow.entity \in {"CREDIT_CARD", "CA_SIN"}
  PROVE  ~ JudgeAdds
<1> DEFINE n == Len(judgedAt) + 1
           in == [found |-> RulesFind[Reviewed.text], split |-> RuleSplit(ChainNow, HitNow), guests |-> FALSE]
<1>1. script \in Scripts /\ n \in DOMAIN script /\ script[n] = Reviewed
  <2>1. Sent = 1..Len(sentAt) /\ Len(sentAt) \in Nat /\ Len(sentAt) <= Len(script) /\ script \in Scripts
    BY Lengths DEF ConversationInv, ConversationTypeOK
  <2>2. script \in Seq(EventRecords)
    BY <2>1, ScriptsAssumption
  <2>3. Len(script) \in Nat /\ DOMAIN script = 1..Len(script)
    <3> HIDE DEF EventRecords
    <3> QED BY <2>2
  <2>4. n \in 1..Len(sentAt)
    BY <2>1 DEF JudgeTakes
  <2>5. n \in DOMAIN script
    <3> HIDE DEF n
    <3> QED BY <2>1, <2>3, <2>4
  <2> QED BY <2>1, <2>5 DEF Reviewed, Event
<1>2. Last(ChainNow) = Reviewed
  BY ChainFacts DEF Last
<1>3. Last(<<script[n]>>) = Reviewed
  <2> HIDE DEF n
  <2>1. \A x : Last(<<x>>) = x
    BY DEF Last
  <2> QED BY <1>1, <2>1
<1> HIDE DEF n
<1>4. RuleSplit(ChainNow, HitNow) = Across(<<script[n]>>, HitNow.entity, 90)
  <2>1. Len(ChainNow) \in Nat
    BY ChainFacts
  <2>2. ~ (Len(ChainNow) < 2)
    BY <2>1
  <2> QED BY <1>2, <1>3, <2>2 DEF RuleSplit, Across
<1>5. Decide(in.split) \in Pol!Removing
  BY <1>1, <1>4 DEF RemovesSplits
<1>6. in.split # <<>>
  <2>1. \A x : <<x>> # <<>>
    OBVIOUS
  <2> QED BY <1>4, <2>1 DEF Across
<1>7. Pol!Decide(Policy, in.split, in.guests) \in Pol!Removing
  BY <1>5 DEF Decide
<1> HIDE DEF in
<1>8. Pol!FastCheck(Policy, in) \in Pol!Removing
  BY <1>6, <1>7 DEF Pol!FastCheck, Pol!NotRemoving
<1>9. Pol!NoAction \notin Pol!Removing
  BY DEF Pol!NoAction, Pol!Removing
<1>10. FastCheck(RulesFind[Reviewed.text], RuleSplit(ChainNow, HitNow)) = Pol!FastCheck(Policy, in)
  BY DEF FastCheck, in
<1> QED BY <1>8, <1>9, <1>10 DEF JudgeAdds

\* The texts of a stretch that ends with the message under review end what is looked at.
LEMMA StretchIsSeen ==
  ASSUME ConversationInv, JudgeTakes, NEW n \in Nat, n = Len(judgedAt) + 1, NEW i \in 1..n - 1,
         n - i <= WindowSize, clock - sentAt[i] <= MaxAge, AsPosted(i, n),
         (i..n - 1) \cap Completing = {}
  PROVE  LET ts == Texts(ChainNow)
             us == TextsFrom(i, n)
             off == Len(ts) - Len(us)
         IN  /\ us \in Seq(Seq(Pieces)) /\ 2 <= Len(us) /\ Len(us) <= Len(ts) /\ Len(us) = n - i + 1
             /\ \A k \in 1..Len(us) : ts[off + k] = us[k] /\ ChainNow[off + k].id = i + k - 1
<1> USE DEF ConversationInv
<1> DEFINE m == Len(judgedAt)
           o == Others(RecentNow, {Reviewed.id})
           us == TextsFrom(i, n)
           ts == Texts(ChainNow)
<1>1. /\ m \in Nat /\ n = m + 1 /\ i \in 1..m /\ Sent = 1..Len(sentAt) /\ Len(sentAt) \in Nat
      /\ n <= Len(sentAt) /\ WindowSize \in Nat
  BY Lengths, JudgeCommon, WindowAssumption
<1>2. AsPosted(i, m)
  <2>1. \A e \in i..m : e \in i..n
    BY <1>1
  <2> QED BY <2>1 DEF AsPosted
<1>3. m - i < WindowSize /\ (i..m) \cap Completing = {}
  BY <1>1
<1>4. RowEnds(RecentNow, i, m)
  BY <1>1, <1>2, <1>3, RowIsRecent
<1>5. Reviewed.id = n /\ Reviewed.text = Event(n).text
  <2>1. n \in i..n
    BY <1>1
  <2> QED BY <2>1 DEF AsPosted, Reviewed, Event
<1>6. EndsAs(o, RecentNow, m - i + 1)
  <2>1. RecentNow \in Seq(W) /\ Len(RecentNow) \in Nat
    BY RecentFacts
  <2>2. m - i + 1 \in 0..Len(RecentNow)
    BY <1>1, <1>4, <2>1 DEF RowEnds
  <2>3. ASSUME NEW k \in 0..(m - i + 1) - 1 PROVE RecentNow[Len(RecentNow) - k].id \notin {Reviewed.id}
    <3>1. m - k \in i..m /\ m - (m - k) = k /\ m - k # n
      BY <1>1
    <3>2. RecentNow[Len(RecentNow) - k].id = m - k
      BY <1>4, <3>1 DEF RowEnds
    <3> QED BY <1>5, <3>1, <3>2
  <2> HIDE DEF W, m
  <2> QED BY <2>1, <2>2, <2>3, OthersEnd
<1>7. /\ Len(o) \in Nat /\ Len(ChainNow) = Len(o) + 1 /\ ts \in Seq(Seq(Pieces)) /\ Len(ts) = Len(o) + 1
      /\ ChainNow[Len(o) + 1] = Reviewed /\ \A k \in 1..Len(o) : ChainNow[k] = o[k]
      /\ \A k \in 1..Len(o) + 1 : ts[k] = ChainNow[k].text
  <2> HIDE DEF Pieces
  <2> QED BY ChainFacts
<1> HIDE DEF o, ts
<1>8. RowEnds(o, i, m)
  <2> HIDE DEF m
  <2> QED BY <1>1, <1>4, <1>6, <1>7, RowKept
<1> HIDE DEF m
<1>9. us \in Seq(Seq(Pieces)) /\ Len(us) = n - i + 1 /\ \A k \in 1..n - i + 1 : us[k] = Event(i + k - 1).text
  <2> DEFINE l == n - i + 1
  <2>1. l \in Nat
    BY <1>1
  <2>2. us = [k \in 1..l |-> Event(i + k - 1).text]
    BY DEF TextsFrom
  <2>3. ASSUME NEW k \in 1..l PROVE Event(i + k - 1).text \in Seq(Pieces)
    <3>1. i + k - 1 \in Sent
      BY <1>1
    <3>2. Event(i + k - 1) \in EventRecords
      BY <3>1, Scripted
    <3> QED BY <3>2 DEF EventRecords
  <2> DEFINE P == Seq(Pieces)
  <2> HIDE DEF us, l, P
  <2>4. us \in [1..l -> P]
    BY <2>2, <2>3 DEF P
  <2>5. us \in Seq(P)
    BY <2>1, <2>4, IsSequence
  <2>6. DOMAIN us = 1..Len(us) /\ Len(us) \in Nat /\ DOMAIN us = 1..l
    BY <2>4, <2>5
  <2>7. Len(us) = l
    BY <2>1, <2>6, SameInterval
  <2> QED BY <2>2, <2>5, <2>7 DEF l, P
<1> HIDE DEF us
<1> DEFINE lo == Len(o)
           lt == Len(ts)
           lu == Len(us)
<1>12. lo \in Nat /\ lt = lo + 1 /\ lu = n - i + 1 /\ m - i < lo /\ m \in Nat /\ n = m + 1 /\ i \in 1..m
  BY <1>1, <1>7, <1>8, <1>9 DEF RowEnds
<1>13. /\ ChainNow[lo + 1] = Reviewed /\ \A k \in 1..lo : ChainNow[k] = o[k]
       /\ \A k \in 1..lo + 1 : ts[k] = ChainNow[k].text
       /\ \A k \in i..m : o[lo - (m - k)].id = k /\ o[lo - (m - k)].text = Event(k).text
  BY <1>7, <1>8 DEF RowEnds
<1>10. 2 <= Len(us) /\ Len(us) <= Len(ts)
  <2>1. 2 <= lu /\ lu <= lt
    <3> HIDE DEF lo, lt, lu
    <3> QED BY <1>12
  <2> QED BY <2>1
<1>11. ASSUME NEW k \in 1..Len(us)
       PROVE  /\ ts[Len(ts) - Len(us) + k] = us[k]
              /\ ChainNow[Len(ts) - Len(us) + k].id = i + k - 1
  <2> DEFINE j == i + k - 1
             p == lt - lu + k
  <2>1. k \in 1..lu /\ us[k] = Event(j).text
    BY <1>9
  <2> HIDE DEF lo, lt, lu
  <2>2. CASE j = n
    <3>1. p = lo + 1 /\ p \in 1..lo + 1
      BY <1>12, <2>1, <2>2
    <3>2. ts[p] = us[k] /\ ChainNow[p].id = j
      <4> HIDE DEF p, j
      <4> QED BY <1>5, <1>13, <2>1, <2>2, <3>1
    <3> QED BY <3>2 DEF lt, lu
  <2>3. CASE j # n
    <3>3. k \in Nat /\ lo \in Nat /\ m \in Nat /\ i \in Nat
      BY <1>12, <2>1
    <3>4. p = lo - (m - j)
      BY <1>12, <3>3
    <3>5. j \in i..m
      BY <1>12, <2>1, <2>3, <3>3
    <3>1. j \in i..m /\ p = lo - (m - j) /\ p \in 1..lo /\ p \in 1..lo + 1
      <4> HIDE DEF p, j
      <4> QED BY <1>12, <3>3, <3>4, <3>5
    <3>2. ts[p] = us[k] /\ ChainNow[p].id = j
      <4> HIDE DEF p, j
      <4> QED BY <1>13, <2>1, <3>1
    <3> QED BY <3>2 DEF lt, lu
  <2> QED BY <2>2, <2>3
<1> QED BY <1>9, <1>10, <1>11 DEF ts, us

\* What does not judge, and puts no message back, adds no stretch.
LEMMA SplitsStayCaught ==
  ASSUME StandingSplitCaught, UNCHANGED <<script, judgedAt>>, gone \subseteq gone', Completing' = Completing,
         Sent \subseteq Sent', \A e \in Sent : sentAt'[e] = sentAt[e], ConversationInv
  PROVE  StandingSplitCaught'
<1>1. PICK n \in Nat : n = Len(judgedAt)
  BY Lengths DEF ConversationInv
<1>2. judgedAt' = judgedAt /\ Len(judgedAt') = n /\ script' = script
  BY <1>1
<1>3. SUFFICES ASSUME NEW i \in 1..n - 1, Stretch(i, n)' PROVE ~ SplitStays(TextsFrom(i, n))'
  BY <1>2 DEF StandingSplitCaught, Ending
<1>4. sentAt'[i] = sentAt[i]
  <2>1. i \in Sent
    BY <1>1, Lengths DEF ConversationInv
  <2> QED BY <2>1
<1>5. AsPosted(i, n)
  BY <1>2, <1>3 DEF Stretch, AsPosted, Event
<1>6. Stretch(i, n)
  BY <1>2, <1>3, <1>4, <1>5 DEF Stretch
<1>7. ~ SplitStays(TextsFrom(i, n))
  BY <1>1, <1>6 DEF StandingSplitCaught, Ending
<1>8. TextsFrom(i, n)' = TextsFrom(i, n)
  BY <1>2 DEF TextsFrom, Event
<1>9. SplitStays(TextsFrom(i, n))' <=> SplitStays(TextsFrom(i, n)')
  OBVIOUS
<1> QED BY <1>7, <1>8

\* Triage leaves no split in a stretch that ends with what it judges.
LEMMA JudgeCatches ==
  ASSUME RemovesSplits, ConversationInv, JudgeTakes, JudgeAdds \/ JudgeRemovesOne \/ JudgeRemovesParts
  PROVE  StandingSplitCaught'
<1> USE DEF ConversationInv
<1>1. PICK n \in Nat : n = Len(judgedAt) + 1
  BY Lengths
<1>2. /\ Len(judgedAt') = n /\ script' = script /\ judgedAt'[n] = clock /\ sentAt' = sentAt /\ Sent' = Sent
      /\ clock' = clock /\ n - 1 = Len(judgedAt)
  BY <1>1, JudgeCommon, Lengths DEF JudgeTakes
<1>3. SUFFICES ASSUME NEW i \in 1..n - 1, Stretch(i, n)' PROVE ~ SplitStays(TextsFrom(i, n))'
  BY <1>2 DEF StandingSplitCaught, Ending
<1>4. Completing \subseteq Completing' /\ gone \subseteq gone'
  BY DEF Completing, RuleHits, JudgeAdds, JudgeRemovesOne, JudgeRemovesParts
<1>5. /\ n - i <= WindowSize /\ clock - sentAt[i] <= MaxAge /\ (i..n - 1) \cap Completing = {}
      /\ \A e \in i..n : script[e].id = e /\ e \notin gone'
      /\ \A e \in Sent : script[e].id \in i..n => script[e].id = e
  BY <1>2, <1>3, <1>4 DEF Stretch, AsPosted, Event
<1>6. AsPosted(i, n)
  BY <1>4, <1>5 DEF AsPosted, Event
<1> DEFINE ts == Texts(ChainNow)
           us == TextsFrom(i, n)
           off == Len(ts) - Len(us)
<1>7. /\ us \in Seq(Seq(Pieces)) /\ 2 <= Len(us) /\ Len(us) <= Len(ts) /\ Len(us) = n - i + 1
      /\ \A k \in 1..Len(us) : ts[off + k] = us[k] /\ ChainNow[off + k].id = i + k - 1
  <2> HIDE DEF Pieces, ConversationInv
  <2> QED BY <1>1, <1>5, <1>6, StretchIsSeen
<1>8. /\ ts \in Seq(Seq(Pieces)) /\ Len(ts) = Len(ChainNow) /\ Len(ts) \in Nat /\ Len(us) \in Nat
      /\ DOMAIN ts = 1..Len(ts) /\ DOMAIN ChainNow = 1..Len(ts)
  <2> DEFINE P == Seq(Pieces)
  <2> HIDE DEF P, us
  <2>1. ts \in Seq(P) /\ Len(ts) = Len(ChainNow) /\ DOMAIN ChainNow = 1..Len(ChainNow)
    BY ChainFacts DEF P
  <2>2. us \in Seq(P)
    BY <1>7 DEF P
  <2> HIDE DEF ts
  <2>3. Len(ts) \in Nat /\ DOMAIN ts = 1..Len(ts)
    BY <2>1
  <2>4. Len(us) \in Nat
    BY <2>2
  <2> QED BY <2>1, <2>3, <2>4 DEF P
<1>9. ASSUME SplitStays(us) PROVE FALSE
  <2>1. /\ Hits(ts, GroupsOf(ts)) # {}
        /\ LatestWithDigits(ts) \in off + 1..Len(ts)
    <3> HIDE DEF ts, us, Pieces
    <3>1. 1 <= Len(us)
      BY <1>7, <1>8
    <3> QED BY <1>7, <1>8, <1>9, <3>1, StayingIsHit
  <2>2. /\ HitNow # NoHit /\ HitNow.entity \in {"CREDIT_CARD", "CA_SIN"}
        /\ LatestWithDigits(ts) \in HitNow.used
    <3> HIDE DEF Pieces
    <3> QED BY <1>8, <2>1, SplitHitUses DEF HitNow
  <2>3. PICK l : l = LatestWithDigits(ts)
    OBVIOUS
  <2>4. l \in 1..Len(ts) /\ ChainNow[l].id \in i..n
    <3> DEFINE lt == Len(ts)
               lu == Len(us)
               k == l - (lt - lu)
    <3>1. lt \in Nat /\ lu \in Nat /\ lu <= lt /\ lu = n - i + 1 /\ l \in (lt - lu) + 1..lt
      BY <1>7, <1>8, <2>1, <2>3
    <3>2. k \in 1..lu /\ (lt - lu) + k = l /\ l \in 1..lt /\ i + k - 1 \in i..n
      <4> HIDE DEF lt, lu
      <4> QED BY <1>1, <3>1
    <3>3. ChainNow[off + k].id = i + k - 1
      <4> HIDE DEF k
      <4> QED BY <1>7, <3>2
    <3> HIDE DEF k
    <3> QED BY <3>2, <3>3
  <2>5. ~ JudgeAdds
    <3>1. Len(ChainNow) >= 2
      <4> HIDE DEF ts, us
      <4> QED BY <1>7, <1>8
    <3> QED BY <2>2, <3>1, HitIsActedOn
  <2>6. ~ JudgeRemovesOne
    <3>1. n \in i..n
      BY <1>1
    <3>2. Reviewed.id = n
      BY <1>1, <1>5, <3>1 DEF Reviewed, Event
    <3> QED BY <1>5, <3>1, <3>2 DEF JudgeRemovesOne
  <2>7. ~ JudgeRemovesParts
    <3>1. ChainNow[l].id \in Ids(ChainNow, HitNow.used)
      BY <2>2, <2>3 DEF Ids
    <3> QED BY <1>5, <2>4, <3>1 DEF JudgeRemovesParts
  <2> QED BY <2>5, <2>6, <2>7
<1>10. TextsFrom(i, n)' = us
  BY <1>2 DEF TextsFrom, Event
<1> HIDE DEF us
<1> QED BY <1>9, <1>10

\* StandingSplitCaught holds in every reachable state, under a policy that removes what is split.
THEOREM SplitsAreCaught ==
  ASSUME RemovesSplits PROVE Spec => []StandingSplitCaught
<1>1. ASSUME Init PROVE StandingSplitCaught
  <2>1. Len(judgedAt) = 0
    BY <1>1 DEF Init
  <2>2. 1..Len(judgedAt) - 1 = {}
    BY <2>1
  <2> QED BY <2>2 DEF StandingSplitCaught, Ending
<1>2. ASSUME ConversationInv, StandingSplitCaught, [Next]_vars PROVE StandingSplitCaught'
  <2> USE <1>2
  <2>1. ASSUME UNCHANGED <<script, sentAt, judgedAt, gone, hits>> PROVE StandingSplitCaught'
    <3>1. Completing' = Completing /\ Sent' = Sent
      BY <2>1 DEF Completing, RuleHits, Sent
    <3> QED BY <2>1, <3>1, SplitsStayCaught
  <2>2. CASE Write
    <3>1. sentAt \in Seq(0..clock) /\ clock \in 0..clock /\ sentAt' = Append(sentAt, clock)
      BY <2>2, Lengths DEF Write, ConversationInv, ConversationTypeOK
    <3>2. Sent' = 1..Len(sentAt) + 1 /\ \A e \in 1..Len(sentAt) : sentAt'[e] = sentAt[e]
      BY <3>1, AppendProperties DEF Sent
    <3>3. Len(sentAt) \in Nat /\ Sent = 1..Len(sentAt)
      BY Lengths DEF ConversationInv
    <3>4. Sent \subseteq Sent' /\ \A e \in Sent : sentAt'[e] = sentAt[e]
      BY <3>2, <3>3
    <3>5. Completing' = Completing
      BY <2>2 DEF Completing, RuleHits, Write
    <3> QED BY <2>2, <3>4, <3>5, SplitsStayCaught DEF Write
  <2>3. CASE Judge
    BY <2>3, JudgeIs, JudgeCatches DEF ConversationInv
  <2>4. CASE Restart
    BY <2>1, <2>4 DEF Restart
  <2>5. CASE Tick
    BY <2>1, <2>5 DEF Tick
  <2>6. ASSUME NEW e \in DOMAIN deep, NEW a \in Answers, Answer(e, a) PROVE StandingSplitCaught'
    <3>1. /\ UNCHANGED <<script, sentAt, judgedAt>> /\ (hits' = hits \/ ByModel)
          /\ gone' = gone \/ \E ids : AnswerTakes(ids)
      BY <2>6, AnswerIs
    <3>2. RuleHits' = RuleHits
      BY <3>1 DEF ByModel, RuleHits
    <3>3. Completing' = Completing /\ Sent' = Sent
      BY <3>1, <3>2 DEF Completing, Sent
    <3>4. gone \subseteq gone'
      BY <3>1 DEF AnswerTakes
    <3> QED BY <3>1, <3>3, <3>4, SplitsStayCaught
  <2>7. CASE UNCHANGED vars
    BY <2>1, <2>7 DEF vars
  <2> QED BY <2>2, <2>3, <2>4, <2>5, <2>6, <2>7 DEF Next
<1> QED BY <1>1, <1>2, ConversationInvariance, PTL DEF Spec

-----------------------------------------------------------------------------
(* The detectors on every text. *)

\* The text that triage judged last is a sequence of pieces.
LEMMA JudgedTyped == ASSUME ConversationTypeOK PROVE JudgedTexts \subseteq Seq(Pieces)
<1> SUFFICES ASSUME NEW e \in Judged PROVE Event(e).text \in Seq(Pieces)
  BY DEF JudgedTexts
<1>1. e \in Sent
  BY Lengths
<1>2. Event(e) \in EventRecords
  BY <1>1, Scripted
<1> QED BY <1>2 DEF EventRecords

\* LookAlikesAnchored holds in every reachable state: the two passes of _leet anchor what they
\* should in any text.
THEOREM LookAlikes == Spec => []LookAlikesAnchored
<1>1. ASSUME ConversationInv PROVE LookAlikesAnchored
  <2> SUFFICES ASSUME NEW t \in JudgedTexts PROVE Anchored(Unfold(t)) = AnchoredByRow(Unfold(t))
    BY DEF LookAlikesAnchored
  <2>1. t \in Seq(Pieces)
    BY <1>1, JudgedTyped DEF ConversationInv
  <2> QED BY <2>1, UnfoldTyped, PassesAnchorRows
<1> QED BY <1>1, ConversationInvariance, PTL

\* OneDigitMatters holds in every reachable state: the checksum tells any digit group that passes
\* it from each one that differs in one digit.
THEOREM ChecksumTellsDigits == Spec => []OneDigitMatters
<1>1. ASSUME ConversationInv PROVE OneDigitMatters
  <2> SUFFICES ASSUME NEW t \in JudgedTexts, NEW g \in ToSet(DigitGroups(t)), Luhn(g),
                      NEW i \in DOMAIN g, NEW n \in (0..9) \ {g[i]}
               PROVE  ~ Luhn([g EXCEPT ![i] = n])
    BY DEF OneDigitMatters
  <2>1. t \in Seq(Pieces)
    BY <1>1, JudgedTyped DEF ConversationInv
  <2>2. DigitGroups(t) \in Seq(Seq(0..9))
    BY <2>1, DigitGroupsTyped
  <2>3. g \in Seq(0..9)
    <3> DEFINE D == Seq(0..9)
               x == DigitGroups(t)
    <3>1. x \in Seq(D) /\ g \in ToSet(x)
      BY <2>2
    <3> HIDE DEF D, x
    <3>2. g \in D
      BY <3>1 DEF ToSet
    <3> QED BY <3>2 DEF D
  <2> QED BY <2>3, OneDigitChanged
<1> QED BY <1>1, ConversationInvariance, PTL

-----------------------------------------------------------------------------
(* Tier0: matches, findings, and what is left of them when a text is masked. *)

\* The rules, and what they match.
RuleNames == {"CREDIT_CARD", "CA_SIN", "US_SSN", "API_KEY", "IBAN"}
MatchRecords == [entity : RuleNames, first : Nat, last : Nat]
MatchAt(t, entity, i) == [entity |-> entity, first |-> i, last |-> MatchEnd(t, entity, i)]

\* Latest is zero, or the greatest of the places.
LEMMA LatestIs ==
  ASSUME NEW n \in Nat, NEW i \in 1..n, NEW ends \in SUBSET (i..n)
  PROVE  /\ ends = {} => Latest(ends) = 0
         /\ ends # {} => /\ Latest(ends) \in ends /\ Latest(ends) # 0
                         /\ \A j \in ends : j <= Latest(ends)
<1>1. ends \in SUBSET (1..n)
  OBVIOUS
<1>2. ends # {} => Max(ends) \in ends /\ \A j \in ends : j <= Max(ends)
  BY <1>1, MaxOfPart
<1>3. ends # {} => Max(ends) # 0
  BY <1>1, <1>2
<1> QED BY <1>2, <1>3 DEF Latest

\* A match lies in the text, between word boundaries.
LEMMA EndIsApart ==
  ASSUME NEW t \in Seq(Pieces), NEW entity \in RuleNames, NEW i \in 1..Len(t)
  PROVE  LET j == MatchEnd(t, entity, i)
         IN  j \in Nat /\ (j # 0 => j \in i..Len(t) /\ Apart(t, i, j))
<1> DEFINE n == Len(t)
<1>1. n \in Nat /\ DOMAIN t = 1..n /\ i \in 1..n
  OBVIOUS
<1>2. ASSUME NEW j, Grouped(t, i, j) PROVE j \in i..n /\ Apart(t, i, j)
  BY <1>1, <1>2 DEF Grouped, DigitsAt
<1> HIDE DEF n
<1>3. ASSUME NEW ends \in SUBSET (i..n)
      PROVE  Latest(ends) \in Nat /\ (Latest(ends) # 0 => Latest(ends) \in ends)
  <2>1. CASE ends = {}
    BY <1>1, <2>1, LatestIs
  <2>2. CASE ends # {}
    <3>1. Latest(ends) \in ends
      BY <1>1, <2>2, LatestIs
    <3>2. \A j \in i..n : j \in Nat
      BY <1>1
    <3>3. Latest(ends) \in i..n
      BY <3>1
    <3> QED BY <3>1, <3>2, <3>3
  <2> QED BY <2>1, <2>2
<1>4. CASE entity = "CREDIT_CARD"
  <2> DEFINE ends == {j \in i..Len(t) : Grouped(t, i, j)
                                         /\ Len(DigitsIn(t, i, j)) \in CardMin..CardMax}
  <2>1. MatchEnd(t, entity, i) = Latest(ends) /\ ends \in SUBSET (i..n)
    BY <1>4 DEF MatchEnd, n
  <2>2. \A j \in ends : j \in i..n /\ Apart(t, i, j)
    BY <1>2
  <2> HIDE DEF ends
  <2> QED BY <1>3, <2>1, <2>2 DEF n
<1>5. CASE entity = "IBAN"
  <2> DEFINE ends == {j \in i..Len(t) : Account(t, i, j)}
  <2>1. MatchEnd(t, entity, i) = Latest(ends) /\ ends \in SUBSET (i..n)
    BY <1>5 DEF MatchEnd, n
  <2>2. \A j \in ends : j \in i..n /\ Apart(t, i, j)
    BY DEF Account, n
  <2> HIDE DEF ends
  <2> QED BY <1>3, <2>1, <2>2 DEF n
<1>6. ASSUME NEW shape, NEW seps, Shape(t, i, shape, seps)
      PROVE  LET j == i + 2 * (Len(shape) - 1) IN j \in i..n /\ Apart(t, i, j)
  BY <1>2, <1>6 DEF Shape
<1>7. CASE entity = "CA_SIN"
  <2>1. Shape(t, i, <<SinLen>>, {}) => i \in i..n /\ Apart(t, i, i)
    <3>1. i + 2 * (Len(<<SinLen>>) - 1) = i
      BY <1>1
    <3> QED BY <1>6, <3>1
  <2>2. MatchEnd(t, entity, i) = IF Shape(t, i, SinShape, {"space", "dash"})
                                 THEN i + 2 * (Len(SinShape) - 1)
                                 ELSE IF Shape(t, i, <<SinLen>>, {}) THEN i ELSE 0
    BY <1>7 DEF MatchEnd
  <2> QED BY <1>1, <1>6, <2>1, <2>2 DEF n
<1>8. CASE entity = "US_SSN"
  <2>1. MatchEnd(t, entity, i) = IF Shape(t, i, SsnShape, {"dash"})
                                 THEN i + 2 * (Len(SsnShape) - 1) ELSE 0
    BY <1>8 DEF MatchEnd
  <2> QED BY <1>1, <1>6, <2>1 DEF n
<1>9. CASE entity = "API_KEY"
  <2>1. MatchEnd(t, entity, i) = IF t[i].kind = "key" /\ Apart(t, i, i) THEN i ELSE 0
    BY <1>9 DEF MatchEnd
  <2> QED BY <1>1, <2>1 DEF n
<1> QED BY <1>4, <1>5, <1>7, <1>8, <1>9 DEF RuleNames

\* finditer, one position of the text after the other.
MatchTurn(t, entity, found, i) ==
  IF /\ found = <<>> \/ Last(found).last < i
     /\ MatchEnd(t, entity, i) # 0
  THEN Append(found, MatchAt(t, entity, i)) ELSE found
MatchStep(t, entity) ==
  [x \in Seq(MatchRecords) \X (1..Len(t)) |-> MatchTurn(t, entity, x[1], x[2])]

\* A turn of finditer keeps the list of matches a list of matches.
LEMMA MatchTyped ==
  ASSUME NEW t \in Seq(Pieces), NEW entity \in RuleNames
  PROVE  /\ \A i \in 1..Len(t) : MatchAt(t, entity, i) \in MatchRecords
         /\ MatchStep(t, entity) \in [Seq(MatchRecords) \X (1..Len(t)) -> Seq(MatchRecords)]
<1>1. ASSUME NEW i \in 1..Len(t) PROVE MatchAt(t, entity, i) \in MatchRecords
  <2>1. i \in Nat /\ MatchEnd(t, entity, i) \in Nat
    BY EndIsApart
  <2> QED BY <2>1 DEF MatchAt, MatchRecords
<1>2. ASSUME NEW x \in Seq(MatchRecords) \X (1..Len(t))
      PROVE  MatchTurn(t, entity, x[1], x[2]) \in Seq(MatchRecords)
  <2>1. x[1] \in Seq(MatchRecords) /\ x[2] \in 1..Len(t)
    OBVIOUS
  <2>2. MatchAt(t, entity, x[2]) \in MatchRecords
    BY <1>1, <2>1
  <2>3. Append(x[1], MatchAt(t, entity, x[2])) \in Seq(MatchRecords)
    BY <2>1, <2>2, AppendProperties
  <2> QED BY <2>1, <2>3 DEF MatchTurn
<1> QED BY <1>1, <1>2 DEF MatchStep

\* Matches goes through those turns.
LEMMA MatchesLoop ==
  ASSUME NEW t \in Seq(Pieces), NEW entity \in RuleNames
  PROVE  \E f : /\ IsLoop(f, Len(t), Seq(MatchRecords), <<>>, MatchStep(t, entity))
                /\ Matches(t, entity) = f[Len(t)]
<1> DEFINE n == Len(t)
           V == Seq(MatchRecords)
           op(found, i) == IF /\ found = <<>> \/ Last(found).last < i
                              /\ MatchEnd(t, entity, i) # 0
                           THEN Append(found, [entity |-> entity, first |-> i,
                                               last |-> MatchEnd(t, entity, i)])
                           ELSE found
           at == [i \in DOMAIN t |-> i]
           step == MatchStep(t, entity)
           body(it) == [s \in SUBSET (DOMAIN at) |->
                          IF s = {} THEN <<>> ELSE op(it[s \ {Max(s)}], at[Max(s)])]
           it0 == CHOOSE it : it = body(it)
<1>1. n \in Nat /\ DOMAIN at = 1..n /\ (\A i \in 1..n : at[i] = i) /\ <<>> \in V
  OBVIOUS
<1>2. step \in [V \X (1..n) -> V]
  BY MatchTyped
<1>3. \A found \in V, i \in 1..n : step[<<found, i>>] = op(found, i)
  BY DEF MatchStep, MatchTurn, MatchAt
<1>4. Matches(t, entity) = it0[1..n]
  <2>1. FoldLeftDomain(op, <<>>, t) = it0[DOMAIN at]
    BY DEF FoldLeftDomain, FoldLeft, MapThenFoldSet
  <2>2. Matches(t, entity) = FoldLeftDomain(op, <<>>, t)
    BY DEF Matches
  <2> HIDE DEF it0, at, op, n
  <2> QED BY <1>1, <2>1, <2>2
<1> HIDE DEF at, V, op, step
<1>5. PICK it : IsFold(it, n, V, <<>>, step)
  <2> HIDE DEF n
  <2> QED BY <1>1, <1>2, FoldExists
<1>6. ASSUME NEW s \in SUBSET (1..n), s # {}
      PROVE  Max(s) \in 1..n /\ at[Max(s)] = Max(s)
  <2>1. Max(s) \in s
    BY <1>1, <1>6, MaxOfPart
  <2> QED BY <1>1, <2>1
<1>7. it = body(it)
  <2>1. ASSUME NEW s \in SUBSET (1..n) PROVE it[s] = body(it)[s]
    <3>1. CASE s = {}
      BY <1>1, <1>5, <3>1 DEF IsFold
    <3>2. CASE s # {}
      <4>1. it[s \ {Max(s)}] \in V /\ it[s] = step[<<it[s \ {Max(s)}], Max(s)>>]
        BY <1>5, <3>2 DEF IsFold
      <4>2. it[s] = op(it[s \ {Max(s)}], Max(s))
        BY <1>3, <1>6, <3>2, <4>1
      <4>3. body(it)[s] = op(it[s \ {Max(s)}], at[Max(s)])
        BY <1>1, <3>2
      <4> QED BY <1>6, <3>2, <4>2, <4>3
    <3> QED BY <3>1, <3>2
  <2>2. it = [s \in SUBSET (1..n) |-> it[s]] /\ body(it) = [s \in SUBSET (1..n) |-> body(it)[s]]
    BY <1>1, <1>5 DEF IsFold
  <2> HIDE DEF body, n
  <2> QED BY <2>1, <2>2
<1>8. it0 = body(it0)
  <2> HIDE DEF body
  <2> QED BY <1>7
<1> HIDE DEF it0
<1>9. it0[{}] = <<>>
  BY <1>1, <1>8
<1>10. ASSUME NEW s \in SUBSET (1..n), s # {}, it0[s \ {Max(s)}] \in V
       PROVE  it0[s] = step[<<it0[s \ {Max(s)}], Max(s)>>]
  <2>1. it0[s] = op(it0[s \ {Max(s)}], at[Max(s)])
    BY <1>1, <1>8, <1>10
  <2> QED BY <1>3, <1>6, <1>10, <2>1
<1> DEFINE f == [i \in 0..n |-> it0[1..i]]
<1>11. IsLoop(f, n, V, <<>>, step)
  <2>1. \A s \in SUBSET (1..n) : s # {} /\ it0[s \ {Max(s)}] \in V
                                    => it0[s] = step[<<it0[s \ {Max(s)}], Max(s)>>]
    BY <1>10
  <2>2. n \in Nat /\ <<>> \in V /\ step \in [V \X (1..n) -> V] /\ it0[{}] = <<>>
    BY <1>1, <1>2, <1>9
  <2> HIDE DEF n, body
  <2>3. IsLoop([i \in 0..n |-> it0[1..i]], n, V, <<>>, step)
    BY <2>1, <2>2, LoopOfFixpoint
  <2> QED BY <2>3
<1>12. f[n] = it0[1..n]
  BY <1>1
<1> HIDE DEF f
<1> QED BY <1>4, <1>11, <1>12 DEF V, step

\* The matches of the first i positions, as a set.
MatchSets(g, t, entity) ==
  /\ g \in [0..Len(t) -> SUBSET MatchRecords]
  /\ g[0] = {}
  /\ \A i \in 1..Len(t) :
       g[i] = IF (\A m \in g[i - 1] : m.last < i) /\ MatchEnd(t, entity, i) # 0
              THEN g[i - 1] \cup {MatchAt(t, entity, i)} ELSE g[i - 1]
  /\ ToSet(Matches(t, entity)) = g[Len(t)]

\* The elements of a sequence that was appended to, and its last one.
LEMMA AppendedSet ==
  ASSUME NEW S, NEW s \in Seq(S), NEW x \in S
  PROVE  ToSet(Append(s, x)) = ToSet(s) \cup {x} /\ Last(Append(s, x)) = x
<1>1. /\ Len(s) \in Nat /\ DOMAIN s = 1..Len(s) /\ Append(s, x) \in Seq(S)
      /\ Len(Append(s, x)) = Len(s) + 1
      /\ DOMAIN Append(s, x) = 1..Len(s) + 1
      /\ \A i \in 1..Len(s) : Append(s, x)[i] = s[i]
      /\ Append(s, x)[Len(s) + 1] = x
  OBVIOUS
<1>2. \A i \in 1..Len(s) + 1 : i \in 1..Len(s) \/ i = Len(s) + 1
  BY <1>1
<1>3. \A i \in 1..Len(s) : i \in 1..Len(s) + 1
  BY <1>1
<1>4. Len(s) + 1 \in 1..Len(s) + 1
  BY <1>1
<1> DEFINE r == Append(s, x)
<1> HIDE DEF r
<1>5. ToSet(r) = ToSet(s) \cup {x}
  BY <1>1, <1>2, <1>3, <1>4 DEF ToSet, r
<1> QED BY <1>1, <1>5 DEF Last, r

\* The matches of the first positions exist as sets, position by position.
LEMMA MatchSetsExist ==
  ASSUME NEW t \in Seq(Pieces), NEW entity \in RuleNames
  PROVE  \E g : MatchSets(g, t, entity)
<1> DEFINE n == Len(t)
           V == Seq(MatchRecords)
           Highest(s) == \A m \in ToSet(s) : m.last <= Last(s).last
<1>1. PICK f : /\ IsLoop(f, n, V, <<>>, MatchStep(t, entity))
               /\ Matches(t, entity) = f[n]
  BY MatchesLoop
<1>2. /\ n \in Nat /\ f[0] = <<>> /\ \A i \in 0..n : f[i] \in V
      /\ \A i \in 1..n : f[i - 1] \in V /\ f[i] = MatchTurn(t, entity, f[i - 1], i)
  <2>1. n \in Nat /\ f[0] = <<>> /\ \A i \in 0..n : f[i] \in V
    BY <1>1 DEF IsLoop
  <2>2. ASSUME NEW i \in 1..n PROVE f[i - 1] \in V /\ f[i] = MatchTurn(t, entity, f[i - 1], i)
    <3>1. i - 1 \in 0..n
      BY <2>1
    <3>2. f[i - 1] \in V /\ f[i] = MatchStep(t, entity)[<<f[i - 1], i>>]
      BY <1>1, <2>1, <3>1 DEF IsLoop
    <3> HIDE DEF MatchTurn
    <3> QED BY <3>2 DEF MatchStep
  <2> QED BY <2>1, <2>2
<1>3. ASSUME NEW i \in 1..n
      PROVE  MatchAt(t, entity, i) \in MatchRecords /\ i \in Nat
  <2>1. MatchAt(t, entity, i) \in MatchRecords
    BY MatchTyped
  <2>2. i \in Nat
    BY <1>2
  <2> QED BY <2>1, <2>2
<1>31. \A m \in MatchRecords : m.last \in Nat
  BY DEF MatchRecords
<1>4. ASSUME NEW s \in V PROVE ToSet(s) \subseteq MatchRecords /\ (s # <<>> => Last(s) \in ToSet(s)) /\ (s = <<>> => ToSet(s) = {})
  <2>1. Len(s) \in Nat /\ DOMAIN s = 1..Len(s) /\ \A k \in 1..Len(s) : s[k] \in MatchRecords
    OBVIOUS
  <2>2. s # <<>> => Len(s) \in 1..Len(s)
    BY <2>1
  <2> QED BY <2>1, <2>2 DEF ToSet, Last
<1>5. ASSUME NEW i \in 1..n, Highest(f[i - 1])
      PROVE  /\ Highest(f[i])
             /\ ToSet(f[i]) = IF (\A m \in ToSet(f[i - 1]) : m.last < i) /\ MatchEnd(t, entity, i) # 0
                               THEN ToSet(f[i - 1]) \cup {MatchAt(t, entity, i)} ELSE ToSet(f[i - 1])
  <2> DEFINE s == f[i - 1]
             m == MatchAt(t, entity, i)
  <2>1. s \in V /\ m \in MatchRecords /\ i \in Nat /\ f[i] = MatchTurn(t, entity, s, i)
    BY <1>2, <1>3
  <2>2. m.last = MatchEnd(t, entity, i)
    BY DEF MatchAt
  <2>3. Highest(s)
    BY <1>5
  <2>4. m.last # 0 => i <= m.last
    BY <1>2, <2>1, <2>2, EndIsApart
  <2>5. ToSet(Append(s, m)) = ToSet(s) \cup {m} /\ Last(Append(s, m)) = m
    BY <2>1, AppendedSet
  <2> HIDE DEF s, m
  <2>6. ToSet(s) \subseteq MatchRecords /\ (s # <<>> => Last(s) \in ToSet(s)) /\ (s = <<>> => ToSet(s) = {})
    BY <1>4, <2>1
  <2>7. (s = <<>> \/ Last(s).last < i) <=> \A k \in ToSet(s) : k.last < i
    <3>1. CASE s = <<>>
      BY <2>6, <3>1
    <3>2. CASE s # <<>>
      <4>1. \A k \in ToSet(s) : k.last \in Nat /\ k.last <= Last(s).last
        BY <1>31, <2>3, <2>6
      <4>2. Last(s) \in ToSet(s) /\ Last(s).last \in Nat
        BY <1>31, <2>6, <3>2
      <4> QED BY <2>1, <3>2, <4>1, <4>2
    <3> QED BY <3>1, <3>2
  <2>8. CASE (\A k \in ToSet(s) : k.last < i) /\ m.last # 0
    <3>1. f[i] = Append(s, m)
      BY <2>1, <2>2, <2>7, <2>8 DEF MatchTurn, m
    <3>2. \A k \in ToSet(s) : k.last <= m.last
      BY <1>31, <2>1, <2>4, <2>6, <2>8
    <3>3. m.last <= m.last
      BY <1>31, <2>1
    <3>4. ToSet(f[i]) = ToSet(s) \cup {m} /\ Last(f[i]) = m
      BY <2>5, <3>1
    <3>5. Highest(f[i])
      BY <3>2, <3>3, <3>4
    <3> HIDE DEF Highest
    <3> QED BY <2>2, <2>8, <3>4, <3>5 DEF s, m
  <2>9. CASE ~ ((\A k \in ToSet(s) : k.last < i) /\ m.last # 0)
    <3>1. f[i] = s
      BY <2>1, <2>2, <2>7, <2>9 DEF MatchTurn
    <3> QED BY <2>2, <2>3, <2>9, <3>1 DEF s, m
  <2> QED BY <2>8, <2>9
<1> DEFINE G == {i \in 0..n : Highest(f[i])}
<1>6. 0..n \subseteq G
  <2>1. 0 \in G
    <3>1. 0 \in 0..n /\ ToSet(f[0]) = {}
      BY <1>2, <1>4
    <3> QED BY <3>1
  <2>2. \A i \in 1..n : i - 1 \in G => i \in G
    <3> SUFFICES ASSUME NEW i \in 1..n, i - 1 \in G PROVE i \in G
      OBVIOUS
    <3>1. i \in 0..n /\ Highest(f[i - 1])
      BY <1>2
    <3> HIDE DEF Highest, n
    <3> QED BY <1>5, <3>1
  <2> HIDE DEF G, n
  <2> QED BY <1>2, <2>1, <2>2, InductionTo
<1> DEFINE g == [i \in 0..n |-> ToSet(f[i])]
<1>7. g \in [0..n -> SUBSET MatchRecords] /\ g[0] = {} /\ g[n] = ToSet(Matches(t, entity))
  <2>1. 0 \in 0..n /\ n \in 0..n
    BY <1>2
  <2>2. \A i \in 0..n : ToSet(f[i]) \subseteq MatchRecords
    BY <1>2, <1>4
  <2> QED BY <1>1, <1>2, <1>4, <2>1, <2>2
<1>8. ASSUME NEW i \in 1..n
      PROVE  g[i] = IF (\A m \in g[i - 1] : m.last < i) /\ MatchEnd(t, entity, i) # 0
                    THEN g[i - 1] \cup {MatchAt(t, entity, i)} ELSE g[i - 1]
  <2>1. i \in 0..n /\ i - 1 \in 0..n
    BY <1>2
  <2>2. Highest(f[i - 1])
    BY <1>6, <2>1
  <2>3. g[i] = ToSet(f[i]) /\ g[i - 1] = ToSet(f[i - 1])
    BY <2>1
  <2> HIDE DEF g, n
  <2> QED BY <1>5, <2>2, <2>3
<1> HIDE DEF g
<1>9. MatchSets(g, t, entity)
  BY <1>7, <1>8 DEF MatchSets
<1> QED BY <1>9

\* Matches of a rule lie in the text, between word boundaries, and apart from each other.
LEMMA MatchesAre ==
  ASSUME NEW t \in Seq(Pieces), NEW entity \in RuleNames, NEW g, MatchSets(g, t, entity),
         NEW i \in 0..Len(t)
  PROVE  /\ \A m \in g[i] : /\ m \in MatchRecords /\ m.entity = entity /\ m.first \in 1..i
                             /\ m.last \in m.first..Len(t) /\ Apart(t, m.first, m.last)
         /\ \A m, k \in g[i] : m = k \/ m.last < k.first \/ k.last < m.first
         /\ \A j \in 0..i : g[j] \subseteq g[i]
<1> DEFINE n == Len(t)
           Placed(m, j) == /\ m \in MatchRecords /\ m.entity = entity /\ m.first \in 1..j
                           /\ m.last \in m.first..n /\ Apart(t, m.first, m.last)
           Good(j) == /\ \A m \in g[j] : Placed(m, j)
                      /\ \A m, k \in g[j] : m = k \/ m.last < k.first \/ k.last < m.first
                      /\ \A l \in 0..j : g[l] \subseteq g[j]
           G == {j \in 0..n : Good(j)}
<1>1. n \in Nat /\ g[0] = {}
  BY DEF MatchSets
<1>2. 0 \in G
  <2>1. 0 \in 0..n /\ \A l \in 0..0 : l = 0
    BY <1>1
  <2> HIDE DEF n
  <2> QED BY <1>1, <2>1
<1>3. ASSUME NEW j \in 1..n, Good(j - 1) PROVE Good(j)
  <2> DEFINE m0 == MatchAt(t, entity, j)
  <2>1. g[j] = IF (\A m \in g[j - 1] : m.last < j) /\ MatchEnd(t, entity, j) # 0
               THEN g[j - 1] \cup {m0} ELSE g[j - 1]
    BY DEF MatchSets
  <2>2. j \in Nat /\ m0 \in MatchRecords /\ m0.entity = entity /\ m0.first = j
        /\ m0.last = MatchEnd(t, entity, j)
    <3>1. m0 \in MatchRecords
      BY MatchTyped
    <3>2. j \in Nat
      BY <1>1
    <3> QED BY <3>1, <3>2 DEF MatchAt
  <2>3. MatchEnd(t, entity, j) # 0 => m0.last \in m0.first..n /\ Apart(t, m0.first, m0.last)
    BY <2>2, EndIsApart
  <2>4. MatchEnd(t, entity, j) # 0 => Placed(m0, j)
    <3>1. j \in 1..j
      BY <1>1
    <3> HIDE DEF m0, n
    <3> QED BY <2>2, <2>3, <3>1
  <2> HIDE DEF m0, n
  <2>5. \A m \in g[j - 1] : Placed(m, j)
    <3> SUFFICES ASSUME NEW m \in g[j - 1] PROVE m.first \in 1..j
      BY <1>3
    <3>1. m.first \in 1..(j - 1)
      BY <1>3
    <3> QED BY <2>2, <3>1
  <2>6. \A m \in g[j] : Placed(m, j)
    <3> HIDE DEF Placed
    <3> QED BY <2>1, <2>4, <2>5
  <2>7. ASSUME NEW m \in g[j], NEW k \in g[j] PROVE m = k \/ m.last < k.first \/ k.last < m.first
    <3>1. CASE m \in g[j - 1] /\ k \in g[j - 1]
      BY <1>3, <3>1
    <3>2. CASE ~ (m \in g[j - 1] /\ k \in g[j - 1])
      BY <2>1, <2>2, <3>2
    <3> QED BY <3>1, <3>2
  <2>8. \A l \in 0..j : g[l] \subseteq g[j]
    <3> SUFFICES ASSUME NEW l \in 0..j PROVE g[l] \subseteq g[j]
      OBVIOUS
    <3>1. g[j - 1] \subseteq g[j]
      BY <2>1
    <3>2. l = j \/ l \in 0..(j - 1)
      BY <2>2
    <3> QED BY <1>3, <3>1, <3>2
  <2> HIDE DEF Placed
  <2> QED BY <2>6, <2>7, <2>8
<1>4. 0..n \subseteq G
  <2>1. \A j \in 1..n : j - 1 \in G => j \in G
    <3> SUFFICES ASSUME NEW j \in 1..n, j - 1 \in G PROVE j \in G
      OBVIOUS
    <3>1. j \in 0..n /\ Good(j - 1)
      BY <1>1
    <3> HIDE DEF Good, n
    <3> QED BY <1>3, <3>1
  <2> HIDE DEF G, n
  <2> QED BY <1>1, <1>2, <2>1, InductionTo
<1>5. Good(i)
  BY <1>4
<1> QED BY <1>5
-----------------------------------------------------------------------------
\* The elements of sequences that are flattened.
LEMMA FlattenItems ==
  ASSUME NEW S, NEW seqs \in Seq(Seq(S))
  PROVE  ToSet(FlattenSeq(seqs)) = UNION {ToSet(seqs[i]) : i \in DOMAIN seqs}
<1> DEFINE n == Len(seqs)
           Upto(i) == UNION {ToSet(seqs[j]) : j \in 1..i}
<1>1. PICK f : FlattenTo(f, seqs, S)
  BY FlattenLoop
<1>2. /\ n \in Nat /\ f[0] = <<>> /\ (\A i \in 0..n : f[i] \in Seq(S)) /\ FlattenSeq(seqs) = f[n]
      /\ \A i \in 1..n : f[i] = f[i - 1] \o seqs[i]
  <2>1. n \in Nat /\ f[0] = <<>> /\ FlattenSeq(seqs) = f[n]
    BY <1>1 DEF FlattenTo
  <2>2. f \in [0..n -> Seq(S)]
    BY <1>1 DEF FlattenTo
  <2>3. \A i \in 1..n : f[i] = f[i - 1] \o seqs[i]
    BY <1>1 DEF FlattenTo
  <2> HIDE DEF n
  <2> QED BY <2>1, <2>2, <2>3
<1>3. ASSUME NEW a \in Seq(S), NEW b \in Seq(S) PROVE ToSet(a \o b) = ToSet(a) \cup ToSet(b)
  <2>1. /\ Len(a) \in Nat /\ Len(b) \in Nat /\ DOMAIN a = 1..Len(a) /\ DOMAIN b = 1..Len(b)
        /\ DOMAIN (a \o b) = 1..Len(a) + Len(b)
        /\ \A x \in 1..Len(a) + Len(b) : (a \o b)[x] = IF x <= Len(a) THEN a[x] ELSE b[x - Len(a)]
    OBVIOUS
  <2> DEFINE c == a \o b
  <2> HIDE DEF c
  <2>2. ToSet(c) \subseteq ToSet(a) \cup ToSet(b)
    <3> SUFFICES ASSUME NEW x \in 1..Len(a) + Len(b) PROVE c[x] \in ToSet(a) \cup ToSet(b)
      BY <2>1 DEF ToSet, c
    <3>1. CASE x <= Len(a)
      BY <2>1, <3>1 DEF ToSet, c
    <3>2. CASE ~ (x <= Len(a))
      <4>1. x - Len(a) \in 1..Len(b)
        BY <2>1, <3>2
      <4> QED BY <2>1, <3>2, <4>1 DEF ToSet, c
    <3> QED BY <3>1, <3>2
  <2>3. ASSUME NEW x \in 1..Len(a) PROVE a[x] \in ToSet(c)
    <3>1. x \in 1..Len(a) + Len(b) /\ x <= Len(a)
      BY <2>1
    <3> QED BY <2>1, <3>1 DEF ToSet, c
  <2>4. ASSUME NEW x \in 1..Len(b) PROVE b[x] \in ToSet(c)
    <3>1. Len(a) + x \in 1..Len(a) + Len(b) /\ ~ (Len(a) + x <= Len(a)) /\ (Len(a) + x) - Len(a) = x
      BY <2>1
    <3>2. c[Len(a) + x] = b[x]
      BY <2>1, <3>1 DEF c
    <3> QED BY <2>1, <3>1, <3>2 DEF ToSet, c
  <2>5. ToSet(a) \cup ToSet(b) \subseteq ToSet(c)
    BY <2>1, <2>3, <2>4 DEF ToSet
  <2> QED BY <2>2, <2>5 DEF c
<1> DEFINE G == {i \in 0..n : ToSet(f[i]) = Upto(i)}
<1>4. 0 \in G
  <2>1. 0 \in 0..n /\ 1..0 = {}
    BY <1>2
  <2>2. ToSet(<<>>) = {}
    BY DEF ToSet
  <2> QED BY <1>2, <2>1, <2>2
<1>5. ASSUME NEW i \in 1..n, i - 1 \in G PROVE i \in G
  <2>1. i \in 0..n /\ i - 1 \in 0..n /\ i \in 1..i /\ seqs[i] \in Seq(S)
    BY <1>2
  <2>2. \A j \in 1..i : j = i \/ j \in 1..(i - 1)
    BY <2>1
  <2>3. \A j \in 1..(i - 1) : j \in 1..i
    BY <2>1
  <2>4. Upto(i) = Upto(i - 1) \cup ToSet(seqs[i])
    <3> HIDE DEF n
    <3> QED BY <2>1, <2>2, <2>3
  <2>5. ToSet(f[i]) = ToSet(f[i - 1]) \cup ToSet(seqs[i])
    BY <1>2, <1>3, <2>1
  <2> HIDE DEF Upto, n
  <2> QED BY <1>5, <2>1, <2>4, <2>5
<1>6. 0..n \subseteq G
  <2> HIDE DEF G, n
  <2> QED BY <1>2, <1>4, <1>5, InductionTo
<1>7. ToSet(f[n]) = Upto(n)
  <2>1. n \in 0..n
    BY <1>2
  <2> HIDE DEF n, Upto
  <2> QED BY <1>6, <2>1
<1>8. DOMAIN seqs = 1..n
  OBVIOUS
<1> QED BY <1>2, <1>7, <1>8

\* What the rules match, rule by rule.
AllMatches(t) == FlattenSeq([r \in DOMAIN Rules |-> Matches(t, Rules[r])])

\* The rules are tried one after the other.
LEMMA AllMatchesAre ==
  ASSUME NEW t \in Seq(Pieces)
  PROVE  /\ AllMatches(t) \in Seq(MatchRecords)
         /\ ToSet(AllMatches(t)) = UNION {ToSet(Matches(t, entity)) : entity \in RuleNames}
<1> DEFINE V == Seq(MatchRecords)
           seqs == [r \in DOMAIN Rules |-> Matches(t, Rules[r])]
<1>1. ASSUME NEW entity \in RuleNames PROVE Matches(t, entity) \in V
  <2>1. PICK f : /\ IsLoop(f, Len(t), V, <<>>, MatchStep(t, entity))
                 /\ Matches(t, entity) = f[Len(t)]
    BY MatchesLoop
  <2>2. Len(t) \in 0..Len(t)
    OBVIOUS
  <2> QED BY <2>1, <2>2 DEF IsLoop
<1>2. DOMAIN Rules = 1..5 /\ RuleNames = {Rules[r] : r \in DOMAIN Rules}
  <2>1. /\ DOMAIN Rules = 1..5 /\ Rules[1] = "CREDIT_CARD" /\ Rules[2] = "CA_SIN"
        /\ Rules[3] = "US_SSN" /\ Rules[4] = "API_KEY" /\ Rules[5] = "IBAN"
    BY DEF Rules
  <2>2. \A r \in 1..5 : r = 1 \/ r = 2 \/ r = 3 \/ r = 4 \/ r = 5
    OBVIOUS
  <2>3. 1 \in 1..5 /\ 2 \in 1..5 /\ 3 \in 1..5 /\ 4 \in 1..5 /\ 5 \in 1..5
    OBVIOUS
  <2> QED BY <2>1, <2>2, <2>3 DEF RuleNames
<1> HIDE DEF V
<1>3. seqs \in Seq(V) /\ DOMAIN seqs = DOMAIN Rules
  <2>1. seqs \in [1..5 -> V]
    BY <1>1, <1>2
  <2> HIDE DEF seqs
  <2>2. seqs \in Seq(V)
    BY <2>1, IsSequence
  <2> QED BY <1>2, <2>1, <2>2
<1>4. \A r \in DOMAIN Rules : seqs[r] = Matches(t, Rules[r])
  OBVIOUS
<1> HIDE DEF seqs
<1>5. FlattenSeq(seqs) \in V /\ ToSet(FlattenSeq(seqs)) = UNION {ToSet(seqs[r]) : r \in DOMAIN seqs}
  BY <1>3, FlattenTyped, FlattenItems DEF V
<1>6. UNION {ToSet(seqs[r]) : r \in DOMAIN seqs} = UNION {ToSet(Matches(t, entity)) : entity \in RuleNames}
  BY <1>2, <1>3, <1>4
<1> QED BY <1>5, <1>6 DEF AllMatches, seqs, V

\* detect, one match after the other.
FindingOf(m) == Finding(m.entity, m.first, m.last, Confidence[m.entity], "")
FoundRecords == {FindingOf(m) : m \in MatchRecords}
FindTurn(t, out, m) ==
  IF (\E k \in DOMAIN out : Overlap(out[k], m)) \/ ~ Passes(t, m) THEN out
  ELSE Append(out, FindingOf(m))
FindStep(t, ms) == [x \in Seq(FoundRecords) \X (1..Len(ms)) |-> FindTurn(t, x[1], ms[x[2]])]

\* A turn of detect keeps the list of findings a list of findings.
LEMMA FindTyped ==
  ASSUME NEW t, NEW ms \in Seq(MatchRecords)
  PROVE  FindStep(t, ms) \in [Seq(FoundRecords) \X (1..Len(ms)) -> Seq(FoundRecords)]
<1>1. ASSUME NEW x \in Seq(FoundRecords) \X (1..Len(ms))
      PROVE  FindTurn(t, x[1], ms[x[2]]) \in Seq(FoundRecords)
  <2> DEFINE m == ms[x[2]]
  <2>1. x[1] \in Seq(FoundRecords) /\ m \in MatchRecords
    OBVIOUS
  <2> HIDE DEF m
  <2>2. FindingOf(m) \in FoundRecords
    BY <2>1 DEF FoundRecords
  <2>3. Append(x[1], FindingOf(m)) \in Seq(FoundRecords)
    BY <2>1, <2>2, AppendProperties
  <2> QED BY <2>1, <2>3 DEF FindTurn, m
<1> QED BY <1>1 DEF FindStep

\* Detect goes through those turns.
LEMMA DetectLoop ==
  ASSUME NEW t \in Seq(Pieces)
  PROVE  \E f : /\ IsLoop(f, Len(AllMatches(t)), Seq(FoundRecords), <<>>, FindStep(t, AllMatches(t)))
                /\ Detect(t) = f[Len(AllMatches(t))]
<1> DEFINE ms == AllMatches(t)
           n == Len(ms)
           V == Seq(FoundRecords)
           op(out, m) == IF (\E k \in DOMAIN out : Overlap(out[k], m)) \/ ~Passes(t, m) THEN out
                         ELSE Append(out, Finding(m.entity, m.first, m.last, Confidence[m.entity], ""))
           step == FindStep(t, ms)
           body(it) == [s \in SUBSET (DOMAIN ms) |->
                          IF s = {} THEN <<>> ELSE op(it[s \ {Max(s)}], ms[Max(s)])]
           it0 == CHOOSE it : it = body(it)
<1>1. ms \in Seq(MatchRecords) /\ n \in Nat /\ DOMAIN ms = 1..n /\ <<>> \in V
  BY AllMatchesAre
<1>2. step \in [V \X (1..n) -> V]
  BY <1>1, FindTyped
<1>3. \A out \in V, i \in 1..n : step[<<out, i>>] = op(out, ms[i])
  BY DEF FindStep, FindTurn, FindingOf
<1>4. Detect(t) = it0[1..n]
  <2>1. FoldLeft(op, <<>>, ms) = it0[DOMAIN ms]
    BY DEF FoldLeft, MapThenFoldSet
  <2>2. Detect(t) = FoldLeft(op, <<>>, ms)
    BY DEF Detect, AllMatches
  <2> HIDE DEF it0, op, n, ms
  <2> QED BY <1>1, <2>1, <2>2
<1> HIDE DEF ms, V, op, step
<1>5. PICK it : IsFold(it, n, V, <<>>, step)
  <2> HIDE DEF n
  <2> QED BY <1>1, <1>2, FoldExists
<1>6. ASSUME NEW s \in SUBSET (1..n), s # {}
      PROVE  Max(s) \in 1..n
  <2>1. Max(s) \in s
    BY <1>1, <1>6, MaxOfPart
  <2> QED BY <1>1, <2>1
<1>7. it = body(it)
  <2>1. ASSUME NEW s \in SUBSET (1..n) PROVE it[s] = body(it)[s]
    <3>1. CASE s = {}
      BY <1>1, <1>5, <3>1 DEF IsFold
    <3>2. CASE s # {}
      <4>1. it[s \ {Max(s)}] \in V /\ it[s] = step[<<it[s \ {Max(s)}], Max(s)>>]
        BY <1>5, <3>2 DEF IsFold
      <4>2. it[s] = op(it[s \ {Max(s)}], ms[Max(s)])
        BY <1>3, <1>6, <3>2, <4>1
      <4>3. body(it)[s] = op(it[s \ {Max(s)}], ms[Max(s)])
        BY <1>1, <3>2
      <4> QED BY <3>2, <4>2, <4>3
    <3> QED BY <3>1, <3>2
  <2>2. it = [s \in SUBSET (1..n) |-> it[s]] /\ body(it) = [s \in SUBSET (1..n) |-> body(it)[s]]
    BY <1>1, <1>5 DEF IsFold
  <2> HIDE DEF body, n
  <2> QED BY <2>1, <2>2
<1>8. it0 = body(it0)
  <2> HIDE DEF body
  <2> QED BY <1>7
<1> HIDE DEF it0
<1>9. it0[{}] = <<>>
  BY <1>1, <1>8
<1>10. \A s \in SUBSET (1..n) : s # {} /\ it0[s \ {Max(s)}] \in V
                                  => it0[s] = step[<<it0[s \ {Max(s)}], Max(s)>>]
  <2> SUFFICES ASSUME NEW s \in SUBSET (1..n), s # {}, it0[s \ {Max(s)}] \in V
               PROVE  it0[s] = step[<<it0[s \ {Max(s)}], Max(s)>>]
    OBVIOUS
  <2>1. it0[s] = op(it0[s \ {Max(s)}], ms[Max(s)])
    BY <1>1, <1>8
  <2> QED BY <1>3, <1>6, <2>1
<1> DEFINE f == [i \in 0..n |-> it0[1..i]]
<1>11. IsLoop(f, n, V, <<>>, step)
  <2>1. n \in Nat /\ <<>> \in V /\ step \in [V \X (1..n) -> V] /\ it0[{}] = <<>>
    BY <1>1, <1>2, <1>9
  <2> HIDE DEF n, body
  <2>2. IsLoop([i \in 0..n |-> it0[1..i]], n, V, <<>>, step)
    BY <1>10, <2>1, LoopOfFixpoint
  <2> QED BY <2>2
<1>12. f[n] = it0[1..n]
  BY <1>1
<1> HIDE DEF f
<1> QED BY <1>4, <1>11, <1>12 DEF V, step, ms

\* What detect returns was matched and passed its check, and whatever passes its check is
\* overlapped by something that it returns.
LEMMA DetectIs ==
  ASSUME NEW t \in Seq(Pieces)
  PROVE  LET ms == ToSet(AllMatches(t))
         IN  /\ \A f \in ToSet(Detect(t)) : \E m \in ms : f = FindingOf(m) /\ Passes(t, m)
             /\ \A m \in ms : Passes(t, m) => \E f \in ToSet(Detect(t)) : Overlap(f, m)
<1> DEFINE ms == AllMatches(t)
           n == Len(ms)
           V == Seq(FoundRecords)
           Sound(s) == \A f \in ToSet(s) : \E m \in ToSet(ms) : f = FindingOf(m) /\ Passes(t, m)
           Hitting(s, m) == \E f \in ToSet(s) : Overlap(f, m)
           Good(s, i) == Sound(s) /\ \A j \in 1..i : Passes(t, ms[j]) => Hitting(s, ms[j])
<1>1. PICK f : IsLoop(f, n, V, <<>>, FindStep(t, ms)) /\ Detect(t) = f[n]
  BY DetectLoop
<1>2. ms \in Seq(MatchRecords) /\ n \in Nat /\ DOMAIN ms = 1..n
  BY AllMatchesAre
<1>3. \A j \in 1..n : ms[j] \in ToSet(ms) /\ ms[j] \in MatchRecords
  BY <1>2 DEF ToSet
<1>4. ASSUME NEW m \in ToSet(ms)
      PROVE  m \in MatchRecords /\ Overlap(FindingOf(m), m)
  <2>1. PICK entity \in RuleNames : m \in ToSet(Matches(t, entity))
    BY AllMatchesAre
  <2>2. PICK g : MatchSets(g, t, entity)
    BY MatchSetsExist
  <2>3. m \in g[Len(t)] /\ Len(t) \in 0..Len(t)
    BY <2>1, <2>2 DEF MatchSets
  <2>4. m \in MatchRecords /\ m.first \in 1..Len(t) /\ m.last \in m.first..Len(t)
    BY <2>2, <2>3, MatchesAre
  <2>5. m.first <= m.last
    BY <2>4
  <2> QED BY <2>4, <2>5 DEF Overlap, FindingOf, Finding
<1>5. ASSUME NEW s \in V PROVE ToSet(s) = {s[k] : k \in DOMAIN s}
  BY DEF ToSet
<1> HIDE DEF ms, n
<1>6. f[0] = <<>> /\ (\A i \in 0..n : f[i] \in V)
      /\ \A i \in 1..n : f[i - 1] \in V /\ f[i] = FindTurn(t, f[i - 1], ms[i])
  <2>1. f[0] = <<>> /\ \A i \in 0..n : f[i] \in V
    BY <1>1 DEF IsLoop
  <2>2. ASSUME NEW i \in 1..n PROVE f[i - 1] \in V /\ f[i] = FindTurn(t, f[i - 1], ms[i])
    <3>1. i - 1 \in 0..n
      BY <1>2
    <3>2. f[i - 1] \in V /\ f[i] = FindStep(t, ms)[<<f[i - 1], i>>]
      BY <1>1, <2>1, <3>1 DEF IsLoop
    <3> HIDE DEF FindTurn
    <3> QED BY <3>2 DEF FindStep, n
  <2> QED BY <2>1, <2>2
<1>7. ASSUME NEW i \in 1..n, Good(f[i - 1], i - 1) PROVE Good(f[i], i)
  <2> DEFINE s == f[i - 1]
             m == ms[i]
  <2>1. s \in V /\ m \in ToSet(ms) /\ m \in MatchRecords /\ f[i] = FindTurn(t, s, m)
    BY <1>3, <1>6
  <2>2. Good(s, i - 1)
    BY <1>7
  <2>3. \A j \in 1..i : j \in 1..(i - 1) \/ ms[j] = m
    BY <1>2
  <2> HIDE DEF s, m
  <2>4. Hitting(s, m) <=> \E k \in DOMAIN s : Overlap(s[k], m)
    BY <1>5, <2>1
  <2>5. CASE Hitting(s, m) \/ ~ Passes(t, m)
    <3>1. f[i] = s
      BY <2>1, <2>4, <2>5 DEF FindTurn
    <3> HIDE DEF Hitting
    <3> QED BY <2>2, <2>3, <2>5, <3>1
  <2>6. CASE ~ Hitting(s, m) /\ Passes(t, m)
    <3>1. f[i] = Append(s, FindingOf(m))
      BY <2>1, <2>4, <2>6 DEF FindTurn
    <3>2. FindingOf(m) \in FoundRecords
      BY <2>1 DEF FoundRecords
    <3>3. ToSet(f[i]) = ToSet(s) \cup {FindingOf(m)}
      BY <2>1, <3>1, <3>2, AppendedSet
    <3>4. Hitting(f[i], m)
      BY <1>4, <2>1, <3>3
    <3>5. \A k : Hitting(s, k) => Hitting(f[i], k)
      BY <3>3
    <3>6. Sound(f[i])
      BY <2>1, <2>2, <2>6, <3>3
    <3> HIDE DEF Hitting, Sound
    <3> QED BY <2>2, <2>3, <3>4, <3>5, <3>6
  <2> QED BY <2>5, <2>6
<1> DEFINE G == {i \in 0..n : Good(f[i], i)}
<1>8. 0 \in G
  <2>1. 0 \in 0..n /\ ToSet(<<>>) = {} /\ 1..0 = {}
    BY <1>2 DEF ToSet
  <2> QED BY <1>6, <2>1
<1>9. \A i \in 1..n : i - 1 \in G => i \in G
  <2> SUFFICES ASSUME NEW i \in 1..n, i - 1 \in G PROVE i \in G
    OBVIOUS
  <2>1. i \in 0..n /\ Good(f[i - 1], i - 1)
    BY <1>2
  <2> HIDE DEF Good
  <2> QED BY <1>7, <2>1
<1>10. 0..n \subseteq G
  <2> HIDE DEF G
  <2> QED BY <1>2, <1>8, <1>9, InductionTo
<1>11. Good(Detect(t), n)
  <2>1. n \in 0..n
    BY <1>2
  <2> HIDE DEF Good
  <2> QED BY <1>1, <1>10, <2>1
<1>12. \A m \in ToSet(ms) : \E j \in 1..n : m = ms[j]
  BY <1>2 DEF ToSet
<1> QED BY <1>11, <1>12 DEF ms
-----------------------------------------------------------------------------
\* Findings that lie in a text, between word boundaries.
PlacedIn(t, fs) == \A f \in fs : /\ f.first \in 1..Len(t) /\ f.last \in f.first..Len(t)
                                /\ Apart(t, f.first, f.last)
Unmasked(fs, i) == \A f \in fs : i \notin f.first..f.last

\* A covered text has the unmasked pieces of the text, and bars in place of the others.
LEMMA CoverIs ==
  ASSUME NEW t \in Seq(Pieces), NEW fs
  PROVE  /\ Cover(t, fs) \in Seq(Pieces) /\ Len(Cover(t, fs)) = Len(t)
         /\ \A i \in 1..Len(t) : Cover(t, fs)[i] = IF Unmasked(fs, i) THEN t[i] ELSE Plain("bar")
<1> DEFINE u == Cover(t, fs)
           n == Len(t)
<1>1. n \in Nat /\ DOMAIN t = 1..n /\ \A i \in 1..n : t[i] \in Pieces
  OBVIOUS
<1>2. Plain("bar") \in Pieces
  <2>1. <<>> \in Seq(0..9) /\ "bar" \in Kinds
    BY DEF Kinds, Separators
  <2> QED BY <2>1 DEF Plain, Piece, Pieces
<1>3. u = [i \in 1..n |-> IF Unmasked(fs, i) THEN t[i] ELSE Plain("bar")]
  BY <1>1 DEF Cover, Unmasked
<1> HIDE DEF u, n
<1>4. u \in [1..n -> Pieces]
  BY <1>1, <1>2, <1>3
<1>5. u \in Seq(Pieces) /\ Len(u) = n
  <2>1. u \in Seq(Pieces)
    BY <1>1, <1>4, IsSequence
  <2>2. DOMAIN u = 1..n /\ DOMAIN u = 1..Len(u) /\ Len(u) \in Nat
    BY <1>4, <2>1
  <2> QED BY <1>1, <2>1, <2>2, SameInterval
<1> QED BY <1>3, <1>5 DEF u, n

\* A piece beside a finding is not part of a word.
LEMMA BesideFinding ==
  ASSUME NEW t \in Seq(Pieces), NEW fs, PlacedIn(t, fs), NEW i \in 1..Len(t), Unmasked(fs, i)
  PROVE  /\ i + 1 \in 1..Len(t) /\ ~ Unmasked(fs, i + 1) => t[i].kind \notin WordLike
         /\ i - 1 \in 1..Len(t) /\ ~ Unmasked(fs, i - 1) => t[i].kind \notin WordLike
<1>1. i \in Nat /\ Len(t) \in Nat
  OBVIOUS
<1>2. ASSUME i + 1 \in 1..Len(t), ~ Unmasked(fs, i + 1) PROVE t[i].kind \notin WordLike
  <2>1. PICK f \in fs : i + 1 \in f.first..f.last
    BY <1>2 DEF Unmasked
  <2>2. f.first \in Nat /\ f.last \in Nat /\ i \notin f.first..f.last /\ Apart(t, f.first, f.last)
    BY <1>1 DEF PlacedIn, Unmasked
  <2>3. f.first = i + 1
    BY <1>1, <2>1, <2>2
  <2>4. f.first # 1 /\ f.first - 1 = i
    BY <1>1, <2>3
  <2> QED BY <2>2, <2>4 DEF Apart
<1>3. ASSUME i - 1 \in 1..Len(t), ~ Unmasked(fs, i - 1) PROVE t[i].kind \notin WordLike
  <2>1. PICK f \in fs : i - 1 \in f.first..f.last
    BY <1>3 DEF Unmasked
  <2>2. f.first \in Nat /\ f.last \in Nat /\ i \notin f.first..f.last /\ Apart(t, f.first, f.last)
    BY <1>1 DEF PlacedIn, Unmasked
  <2>3. f.last = i - 1
    BY <1>1, <2>1, <2>2
  <2>4. f.last # Len(t) /\ f.last + 1 = i
    BY <1>1, <2>3
  <2> QED BY <2>2, <2>4 DEF Apart
<1> QED BY <1>2, <1>3

\* Digit groups of a covered text are those of the text that are unmasked.
LEMMA UnmaskedGroups ==
  ASSUME NEW t \in Seq(Pieces), NEW fs, PlacedIn(t, fs), NEW i, NEW j
  PROVE  Grouped(Cover(t, fs), i, j) <=> Grouped(t, i, j) /\ \A k \in i..j : Unmasked(fs, k)
<1> DEFINE u == Cover(t, fs)
           n == Len(t)
           Link(w, k) == \/ w[k].kind = "digits"
                         \/ w[k].kind \in {"space", "dash"} /\ w[k - 1].kind = "digits"
<1>1. /\ n \in Nat /\ DOMAIN t = 1..n /\ DOMAIN u = 1..n /\ Len(u) = n
      /\ \A k \in 1..n : u[k] = IF Unmasked(fs, k) THEN t[k] ELSE Plain("bar")
  BY CoverIs
<1>2. Plain("bar").kind = "bar"
  BY DEF Plain, Piece
<1>3. "digits" \in WordLike /\ "bar" \notin WordLike
  BY DEF WordLike, Words
<1> HIDE DEF u
<1>4. ASSUME NEW k \in 1..n, u[k].kind \in {"digits", "space", "dash"} PROVE Unmasked(fs, k) /\ u[k] = t[k]
  BY <1>1, <1>2, <1>4
<1>5. ASSUME i \in 1..n, j \in 1..n, i <= j, Unmasked(fs, i), Unmasked(fs, j),
             t[i].kind = "digits", t[j].kind = "digits"
      PROVE  Apart(u, i, j) <=> Apart(t, i, j)
  <2>1. i - 1 \in 1..n => Unmasked(fs, i - 1)
    BY <1>3, <1>5, BesideFinding
  <2>2. j + 1 \in 1..n => Unmasked(fs, j + 1)
    BY <1>3, <1>5, BesideFinding
  <2>3. i = 1 \/ i - 1 \in 1..n
    BY <1>1, <1>5
  <2>4. j = n \/ j + 1 \in 1..n
    <3> HIDE DEF n
    <3> QED BY <1>1, <1>5
  <2> QED BY <1>1, <2>1, <2>2, <2>3, <2>4 DEF Apart
<1>6. ASSUME Grouped(u, i, j) PROVE Grouped(t, i, j) /\ \A k \in i..j : Unmasked(fs, k)
  <2>1. /\ i \in 1..n /\ j \in 1..n /\ i <= j /\ u[i].kind = "digits" /\ u[j].kind = "digits"
        /\ Apart(u, i, j) /\ \A k \in i + 1..j : Link(u, k)
    BY <1>1, <1>6 DEF Grouped, DigitsAt
  <2>2. \A k \in i..j : k \in 1..n /\ (k = i \/ (k \in i + 1..j /\ k - 1 \in i..j))
    BY <1>1, <2>1
  <2>3. \A k \in i..j : Unmasked(fs, k) /\ u[k] = t[k]
    <3> SUFFICES ASSUME NEW k \in i..j PROVE Unmasked(fs, k) /\ u[k] = t[k]
      OBVIOUS
    <3>1. u[k].kind \in {"digits", "space", "dash"}
      BY <2>1, <2>2
    <3> QED BY <1>4, <2>2, <3>1
  <2>4. i \in i..j /\ j \in i..j /\ \A k \in i + 1..j : k \in i..j /\ k - 1 \in i..j
    BY <1>1, <2>1
  <2>5. \A k \in i + 1..j : Link(t, k)
    BY <2>1, <2>3, <2>4
  <2>6. Apart(t, i, j)
    BY <1>5, <2>1, <2>3, <2>4
  <2> QED BY <1>1, <2>1, <2>3, <2>4, <2>5, <2>6 DEF Grouped, DigitsAt
<1>7. ASSUME Grouped(t, i, j), \A k \in i..j : Unmasked(fs, k) PROVE Grouped(u, i, j)
  <2>1. /\ i \in 1..n /\ j \in 1..n /\ i <= j /\ t[i].kind = "digits" /\ t[j].kind = "digits"
        /\ Apart(t, i, j) /\ \A k \in i + 1..j : Link(t, k)
    BY <1>1, <1>7 DEF Grouped, DigitsAt
  <2>2. i \in i..j /\ j \in i..j /\ \A k \in i + 1..j : k \in i..j /\ k - 1 \in i..j
    BY <1>1, <2>1
  <2>3. \A k \in i..j : k \in 1..n /\ u[k] = t[k]
    BY <1>1, <1>7, <2>1
  <2>4. \A k \in i + 1..j : Link(u, k)
    BY <2>1, <2>2, <2>3
  <2>5. Apart(u, i, j)
    BY <1>5, <1>7, <2>1, <2>2
  <2> QED BY <1>1, <2>1, <2>2, <2>3, <2>4, <2>5 DEF Grouped, DigitsAt
<1> QED BY <1>6, <1>7 DEF u

\* They have the digits they had.
LEMMA UnmaskedDigits ==
  ASSUME NEW t \in Seq(Pieces), NEW fs, NEW i \in 1..Len(t), NEW j \in i..Len(t),
         \A k \in i..j : Unmasked(fs, k)
  PROVE  DigitsIn(Cover(t, fs), i, j) = DigitsIn(t, i, j)
<1> DEFINE u == Cover(t, fs)
           n == Len(t)
<1>1. /\ n \in Nat /\ DOMAIN t = 1..n /\ DOMAIN u = 1..n
      /\ \A k \in 1..n : u[k] = IF Unmasked(fs, k) THEN t[k] ELSE Plain("bar")
  BY CoverIs
<1> HIDE DEF u
<1>2. \A k \in i..j : k \in 1..n /\ u[k] = t[k]
  BY <1>1
<1>3. \A k \in 1..(j - i + 1) : i + k - 1 \in i..j
  BY <1>1
<1>4. \A k \in i..j : k \in DigitsAt(u) <=> k \in DigitsAt(t)
  BY <1>1, <1>2 DEF DigitsAt
<1>5. [k \in 1..j - i + 1 |-> IF i + k - 1 \in DigitsAt(u) THEN u[i + k - 1].digits ELSE <<>>]
      = [k \in 1..j - i + 1 |-> IF i + k - 1 \in DigitsAt(t) THEN t[i + k - 1].digits ELSE <<>>]
  BY <1>2, <1>3, <1>4
<1> QED BY <1>5 DEF DigitsIn, u

\* Of the places where a card may begin, a covered text has those that are unmasked to their end.
LEMMA UnmaskedEnds ==
  ASSUME NEW t \in Seq(Pieces), NEW fs, PlacedIn(t, fs), NEW i \in 1..Len(t)
  PROVE  LET EndIn(w) == MatchEnd(w, "CREDIT_CARD", i)
             u == Cover(t, fs)
         IN  /\ ~ Unmasked(fs, i) => EndIn(u) = 0
             /\ EndIn(t) = 0 => EndIn(u) = 0
             /\ EndIn(t) # 0 /\ (\A k \in i..EndIn(t) : Unmasked(fs, k)) => EndIn(u) = EndIn(t)
<1> DEFINE n == Len(t)
           u == Cover(t, fs)
           Reach(w) == {j \in i..Len(w) : Grouped(w, i, j)
                                           /\ Len(DigitsIn(w, i, j)) \in CardMin..CardMax}
<1>1. n \in Nat /\ Len(u) = n
  BY CoverIs
<1>2. \A w : MatchEnd(w, "CREDIT_CARD", i) = Latest(Reach(w))
  BY DEF MatchEnd
<1>3. ASSUME NEW j PROVE j \in Reach(u) <=> j \in Reach(t) /\ \A k \in i..j : Unmasked(fs, k)
  <2>1. CASE j \in i..n /\ \A k \in i..j : Unmasked(fs, k)
    <3>1. Grouped(u, i, j) <=> Grouped(t, i, j)
      BY <2>1, UnmaskedGroups
    <3>2. DigitsIn(u, i, j) = DigitsIn(t, i, j)
      BY <2>1, UnmaskedDigits
    <3> HIDE DEF u
    <3> QED BY <1>1, <2>1, <3>1, <3>2
  <2>2. CASE ~ (\A k \in i..j : Unmasked(fs, k))
    <3>1. ~ Grouped(u, i, j)
      BY <2>2, UnmaskedGroups
    <3> QED BY <2>2, <3>1
  <2>3. CASE j \notin i..n
    <3> HIDE DEF u
    <3> QED BY <1>1, <2>3
  <2> QED BY <2>1, <2>2, <2>3
<1>4. Reach(t) \in SUBSET (i..n) /\ Reach(u) \in SUBSET (i..n)
  <2> HIDE DEF u
  <2> QED BY <1>1
<1> HIDE DEF u, n, Reach
<1>5. i \in 1..n /\ i \in Nat
  BY <1>1 DEF n
<1> DEFINE a == Latest(Reach(t))
           b == Latest(Reach(u))
<1>6. /\ Reach(t) = {} => a = 0
      /\ Reach(t) # {} => a \in Reach(t) /\ a # 0 /\ \A j \in Reach(t) : j <= a
  BY <1>1, <1>4, <1>5, LatestIs
<1>7. /\ Reach(u) = {} => b = 0
      /\ Reach(u) # {} => b \in Reach(u) /\ b # 0 /\ \A j \in Reach(u) : j <= b
  BY <1>1, <1>4, <1>5, LatestIs
<1> HIDE DEF a, b
<1>8. ASSUME ~ Unmasked(fs, i) PROVE b = 0
  <2>1. \A j \in Reach(u) : i \in i..j
    BY <1>4, <1>5
  <2>2. Reach(u) = {}
    BY <1>3, <1>8, <2>1
  <2> QED BY <1>7, <2>2
<1>9. ASSUME a = 0 PROVE b = 0
  BY <1>3, <1>6, <1>7, <1>9
<1>10. ASSUME a # 0, \A k \in i..a : Unmasked(fs, k) PROVE b = a
  <2>1. a \in Reach(t) /\ a \in Reach(u)
    BY <1>3, <1>6, <1>10
  <2>2. b \in Reach(u) /\ b \in Reach(t) /\ a <= b /\ b <= a
    BY <1>3, <1>6, <1>7, <2>1
  <2>3. a \in i..n /\ b \in i..n
    BY <1>4, <2>1, <2>2
  <2>4. \A x, y \in i..n : x <= y /\ y <= x => x = y
    BY <1>5
  <2> QED BY <2>2, <2>3, <2>4
<1> QED BY <1>2, <1>8, <1>9, <1>10 DEF a, b, u

Untouched(fs, m) == \A k \in m.first..m.last : Unmasked(fs, k)

\* What masking leaves of the matches of the card rule: those that no finding touches, if every
\* other one is within a finding.
LEMMA MaskedMatches ==
  ASSUME NEW t \in Seq(Pieces), NEW fs, PlacedIn(t, fs),
         \A m \in ToSet(Matches(t, "CREDIT_CARD")) :
           Untouched(fs, m) \/ \A k \in m.first..m.last : ~ Unmasked(fs, k)
  PROVE  \A m \in ToSet(Matches(Cover(t, fs), "CREDIT_CARD")) :
           m \in ToSet(Matches(t, "CREDIT_CARD")) /\ Untouched(fs, m)
<1> DEFINE n == Len(t)
           u == Cover(t, fs)
           EndAt(w, i) == MatchEnd(w, "CREDIT_CARD", i)
           At(w, i) == MatchAt(w, "CREDIT_CARD", i)
           Covered(m) == \A k \in m.first..m.last : ~ Unmasked(fs, k)
<1>1. n \in Nat /\ Len(u) = n /\ u \in Seq(Pieces)
  BY CoverIs
<1>2. PICK g : MatchSets(g, t, "CREDIT_CARD")
  BY MatchSetsExist DEF RuleNames
<1>3. PICK h : MatchSets(h, u, "CREDIT_CARD")
  BY <1>1, MatchSetsExist DEF RuleNames
<1>4. ASSUME NEW i \in 1..n
      PROVE  /\ ~ Unmasked(fs, i) => EndAt(u, i) = 0
             /\ EndAt(t, i) = 0 => EndAt(u, i) = 0
             /\ EndAt(t, i) # 0 /\ (\A k \in i..EndAt(t, i) : Unmasked(fs, k)) => EndAt(u, i) = EndAt(t, i)
  BY UnmaskedEnds
<1>5. /\ g[0] = {} /\ ToSet(Matches(t, "CREDIT_CARD")) = g[n]
      /\ \A i \in 1..n : g[i] = IF (\A m \in g[i - 1] : m.last < i) /\ EndAt(t, i) # 0
                                THEN g[i - 1] \cup {At(t, i)} ELSE g[i - 1]
  BY <1>2 DEF MatchSets
<1>6. /\ h[0] = {} /\ ToSet(Matches(u, "CREDIT_CARD")) = h[n]
      /\ \A i \in 1..n : h[i] = IF (\A m \in h[i - 1] : m.last < i) /\ EndAt(u, i) # 0
                                THEN h[i - 1] \cup {At(u, i)} ELSE h[i - 1]
  BY <1>1, <1>3 DEF MatchSets
<1>7. ASSUME NEW i \in 0..n
      PROVE  /\ g[i] \subseteq g[n]
             /\ \A m \in g[i] : m.first \in 1..i /\ m.last \in m.first..n
  <2>1. n \in 0..n /\ i \in 0..n
    BY <1>1
  <2>2. "CREDIT_CARD" \in RuleNames
    BY DEF RuleNames
  <2>3. g[i] \subseteq g[n]
    BY <1>2, <2>1, <2>2, MatchesAre
  <2>4. \A m \in g[i] : m.first \in 1..i /\ m.last \in m.first..n
    BY <1>2, <2>1, <2>2, MatchesAre
  <2> QED BY <2>3, <2>4
<1> HIDE DEF u, n, EndAt
<1>8. \A w, i : At(w, i).first = i /\ At(w, i).last = EndAt(w, i)
  BY DEF MatchAt, EndAt
<1>9. ASSUME NEW i \in 1..n PROVE EndAt(t, i) = EndAt(u, i) => At(t, i) = At(u, i)
  BY DEF MatchAt, EndAt
<1> HIDE DEF At
<1> DEFINE Left(i) == h[i] = {m \in g[i] : Untouched(fs, m)}
           G == {i \in 0..n : Left(i)}
<1>10. ASSUME NEW i \in 1..n, Left(i - 1) PROVE Left(i)
  <2>1. i \in Nat /\ i \in 0..n /\ i - 1 \in 0..n
    BY <1>1
  <2>2. \A m \in g[i] : (Untouched(fs, m) \/ Covered(m)) /\ m.first \in 1..i /\ m.last \in m.first..n
    BY <1>5, <1>7, <2>1
  <2>3. CASE \A m \in g[i - 1] : m.last < i
    <3>1. \A m \in h[i - 1] : m.last < i
      BY <1>10, <2>3
    <3>2. CASE EndAt(t, i) = 0
      BY <1>4, <1>5, <1>6, <1>10, <3>2
    <3>3. CASE EndAt(t, i) # 0
      <4> DEFINE m == At(t, i)
      <4>1. g[i] = g[i - 1] \cup {m}
        BY <1>5, <2>3, <3>3
      <4>2. m.first = i /\ m.last = EndAt(t, i)
        BY <1>8
      <4>3. m.last \in i..n /\ i \in i..m.last
        BY <1>1, <2>1, <2>2, <4>1, <4>2
      <4> HIDE DEF m
      <4>4. CASE Untouched(fs, m)
        <5>1. EndAt(u, i) = EndAt(t, i)
          BY <1>4, <3>3, <4>2, <4>4 DEF Untouched
        <5>2. h[i] = h[i - 1] \cup {m}
          BY <1>6, <1>9, <3>1, <3>3, <5>1 DEF m
        <5> QED BY <1>10, <4>1, <4>4, <5>2
      <4>5. CASE ~ Untouched(fs, m)
        <5>1. ~ Unmasked(fs, i)
          BY <2>2, <4>1, <4>2, <4>3, <4>5
        <5>2. h[i] = h[i - 1]
          BY <1>4, <1>6, <5>1
        <5> QED BY <1>10, <4>1, <4>5, <5>2
      <4> QED BY <4>4, <4>5
    <3> QED BY <3>2, <3>3
  <2>4. CASE ~ (\A m \in g[i - 1] : m.last < i)
    <3>1. PICK m \in g[i - 1] : ~ (m.last < i)
      BY <2>4
    <3>2. g[i] = g[i - 1]
      BY <1>5, <2>4
    <3>3. m.first \in 1..(i - 1) /\ m.last \in m.first..n /\ (Untouched(fs, m) \/ Covered(m))
      BY <1>7, <2>1, <2>2, <3>1, <3>2
    <3>4. i \in m.first..m.last
      BY <1>1, <2>1, <3>1, <3>3
    <3>5. h[i] = h[i - 1]
      <4>1. CASE Untouched(fs, m)
        BY <1>6, <1>10, <3>1, <4>1
      <4>2. CASE Covered(m)
        BY <1>4, <1>6, <3>4, <4>2
      <4> QED BY <3>3, <4>1, <4>2
    <3> QED BY <1>10, <3>2, <3>5
  <2> QED BY <2>3, <2>4
<1>11. 0 \in G
  BY <1>1, <1>5, <1>6
<1>12. \A i \in 1..n : i - 1 \in G => i \in G
  <2> SUFFICES ASSUME NEW i \in 1..n, i - 1 \in G PROVE i \in G
    OBVIOUS
  <2>1. i \in 0..n /\ Left(i - 1)
    BY <1>1
  <2> HIDE DEF Left
  <2> QED BY <1>10, <2>1
<1>13. 0..n \subseteq G
  <2> HIDE DEF G
  <2> QED BY <1>1, <1>11, <1>12, InductionTo
<1>14. Left(n)
  <2>1. n \in 0..n
    BY <1>1
  <2> HIDE DEF Left
  <2> QED BY <1>13, <2>1
<1> QED BY <1>5, <1>6, <1>14 DEF u

\* Masking what detect found hides every card that it would find again.
LEMMA MaskHidesCards ==
  ASSUME NEW c, c.of \in Seq(Pieces), c.found = Detect(c.of), c.text = Mask(c.of, c.found),
         ~ CutThrough(c)
  PROVE  ShowsNoCard(c.text)
<1> DEFINE t == c.of
           fs == ToSet(Detect(t))
           u == Cover(t, fs)
           cards == ToSet(Matches(t, "CREDIT_CARD"))
<1>1. t \in Seq(Pieces) /\ Len(t) \in Nat /\ "CREDIT_CARD" \in RuleNames /\ c.text = u
  BY DEF Mask, RuleNames
<1>2. ~ \E f \in fs, m \in cards : f.entity # "CREDIT_CARD" /\ Cuts(f, m)
  BY DEF CutThrough
<1> HIDE DEF t, fs, u, cards
<1>3. ASSUME NEW w \in Seq(Pieces), NEW entity \in RuleNames, NEW m \in ToSet(Matches(w, entity))
      PROVE  /\ m.entity = entity /\ m.first \in 1..Len(w) /\ m.last \in m.first..Len(w)
             /\ Apart(w, m.first, m.last)
  <2>1. PICK g : MatchSets(g, w, entity)
    BY MatchSetsExist
  <2>2. m \in g[Len(w)] /\ Len(w) \in 0..Len(w)
    BY <2>1 DEF MatchSets
  <2> QED BY <2>1, <2>2, MatchesAre
<1>4. ASSUME NEW m \in cards, NEW k \in cards PROVE m = k \/ m.last < k.first \/ k.last < m.first
  <2>1. PICK g : MatchSets(g, t, "CREDIT_CARD")
    BY <1>1, MatchSetsExist
  <2>2. m \in g[Len(t)] /\ k \in g[Len(t)] /\ Len(t) \in 0..Len(t)
    BY <1>1, <2>1 DEF MatchSets, cards
  <2> QED BY <1>1, <2>1, <2>2, MatchesAre
<1>5. ASSUME NEW w \in Seq(Pieces), NEW f \in ToSet(Detect(w))
      PROVE  \E entity \in RuleNames : \E m \in ToSet(Matches(w, entity)) :
               /\ f.entity = entity /\ f.first = m.first /\ f.last = m.last
               /\ m.entity = entity /\ Passes(w, m)
  <2>1. PICK m \in ToSet(AllMatches(w)) : f = FindingOf(m) /\ Passes(w, m)
    BY DetectIs
  <2>2. PICK entity \in RuleNames : m \in ToSet(Matches(w, entity))
    BY AllMatchesAre
  <2>3. m.entity = entity
    BY <1>3, <2>2
  <2>4. f.entity = m.entity /\ f.first = m.first /\ f.last = m.last
    BY <2>1 DEF FindingOf, Finding
  <2> QED BY <2>1, <2>2, <2>3, <2>4
<1>6. PlacedIn(t, fs)
  <2> SUFFICES ASSUME NEW f \in fs
               PROVE  /\ f.first \in 1..Len(t) /\ f.last \in f.first..Len(t)
                      /\ Apart(t, f.first, f.last)
    BY DEF PlacedIn
  <2>1. PICK entity \in RuleNames : \E m \in ToSet(Matches(t, entity)) :
          f.first = m.first /\ f.last = m.last
    BY <1>1, <1>5 DEF fs
  <2>2. PICK m \in ToSet(Matches(t, entity)) : f.first = m.first /\ f.last = m.last
    BY <2>1
  <2> QED BY <1>1, <1>3, <2>2
<1>7. ASSUME NEW m \in cards, NEW f \in fs, Overlap(f, m)
      PROVE  f.first <= m.first /\ m.last <= f.last
  <2>1. CASE f.entity # "CREDIT_CARD"
    BY <1>2, <1>7, <2>1 DEF Cuts
  <2>2. CASE f.entity = "CREDIT_CARD"
    <3>1. PICK k \in cards : f.first = k.first /\ f.last = k.last
      BY <1>1, <1>5, <2>2 DEF fs, cards
    <3>2. /\ m.first \in Nat /\ m.last \in Nat /\ m.first <= m.last
          /\ k.first \in Nat /\ k.last \in Nat
      BY <1>1, <1>3 DEF cards
    <3>3. m = k
      BY <1>4, <1>7, <3>1, <3>2 DEF Overlap
    <3> QED BY <3>1, <3>2, <3>3
  <2> QED BY <2>1, <2>2
<1>8. ASSUME NEW m \in cards
      PROVE  /\ (\E f \in fs : Overlap(f, m)) => \A k \in m.first..m.last : ~ Unmasked(fs, k)
             /\ ~ (\E f \in fs : Overlap(f, m)) => Untouched(fs, m)
             /\ Passes(t, m) => \E f \in fs : Overlap(f, m)
             /\ m.first \in m.first..m.last
  <2>1. m.first \in Nat /\ m.last \in Nat /\ m.first <= m.last
    BY <1>1, <1>3 DEF cards
  <2>2. ASSUME NEW f \in fs PROVE f.first \in Nat /\ f.last \in Nat
    BY <1>1, <1>6 DEF PlacedIn
  <2>3. ASSUME NEW f \in fs, Overlap(f, m), NEW k \in m.first..m.last PROVE ~ Unmasked(fs, k)
    <3>1. f.first <= m.first /\ m.last <= f.last
      BY <1>7, <2>3
    <3>2. k \in f.first..f.last
      BY <2>1, <2>2, <2>3, <3>1
    <3> QED BY <3>2 DEF Unmasked
  <2>4. ASSUME ~ (\E f \in fs : Overlap(f, m)), NEW k \in m.first..m.last, NEW f \in fs
        PROVE  k \notin f.first..f.last
    BY <2>1, <2>2, <2>4 DEF Overlap
  <2>5. Passes(t, m) => \E f \in fs : Overlap(f, m)
    <3>1. m \in ToSet(AllMatches(t))
      BY <1>1, AllMatchesAre DEF cards
    <3> QED BY <1>1, <3>1, DetectIs DEF fs
  <2> QED BY <2>1, <2>3, <2>4, <2>5 DEF Untouched, Unmasked
<1>9. \A m \in ToSet(Matches(u, "CREDIT_CARD")) : m \in cards /\ Untouched(fs, m)
  BY <1>1, <1>6, <1>8, MaskedMatches DEF cards, u
<1>10. ASSUME NEW f \in ToSet(Detect(u)), f.entity = "CREDIT_CARD" PROVE FALSE
  <2>1. u \in Seq(Pieces)
    BY <1>1, CoverIs DEF u
  <2>2. PICK m \in ToSet(Matches(u, "CREDIT_CARD")) : m.entity = "CREDIT_CARD" /\ Passes(u, m)
    BY <1>5, <1>10, <2>1
  <2>3. m \in cards /\ Untouched(fs, m)
    BY <1>9
  <2>4. m.first \in 1..Len(t) /\ m.last \in m.first..Len(t)
    BY <1>1, <1>3, <2>3 DEF cards
  <2>5. DigitsIn(u, m.first, m.last) = DigitsIn(t, m.first, m.last)
    BY <1>1, <2>3, <2>4, UnmaskedDigits DEF Untouched, u
  <2>6. Passes(t, m)
    BY <2>2, <2>5 DEF Passes
  <2>7. ~ Unmasked(fs, m.first) /\ Unmasked(fs, m.first)
    BY <1>8, <2>3, <2>6 DEF Untouched
  <2> QED BY <2>7
<1> QED BY <1>1, <1>10 DEF ShowsNoCard, Entities
\* A copy is the mask of a text, for what was found in it.
IsMask(c) == c.of \in Seq(Pieces) /\ c.text = Mask(c.of, c.found)

\* What a handler posts in place of a message is one.
LEMMA NewCopies ==
  ASSUME NEW action, NEW t \in Seq(Pieces), NEW fs
  PROVE  \A c \in CopiesOf(action, t, fs) : IsMask(c)
  BY DEF CopiesOf, IsMask

\* Triage posts such a copy of what it reviews, or none.
LEMMA JudgeCopies ==
  ASSUME Judge
  PROVE  copies' = copies \/ \E action, fs : copies' = copies \cup CopiesOf(action, Reviewed.text, fs)
<1> DEFINE ev == Reviewed
           found == RulesFind[ev.text]
           verdict == FastCheck(found, RuleSplit(ChainNow, HitNow))
<1>1. TriageIn(ev, RecentNow, ChainNow)
  BY DEF Judge, Reviewed, RecentNow, ChainNow
<1>2. Triage(ev, RecentNow, ChainNow, found, HitNow)
  BY <1>1 DEF TriageIn, HitNow
<1> HIDE DEF ev, found, verdict
<1>3. \/ Keep(Add(RecentNow, [id |-> ev.id, text |-> ev.text, at |-> clock]))
      \/ RemoveOne(ev, RecentNow, verdict, found)
      \/ RemoveParts(ChainNow, RecentNow, HitNow.used, "rules", HitNow.entity, <<>>)
  BY <1>2 DEF Triage, verdict
<1> QED BY <1>3 DEF Keep, RemoveOne, RemoveParts, ev

\* An answer of the model posts such a copy of the last text of its chain, or none.
LEMMA AnswerCopies ==
  ASSUME NEW e, NEW a, Answer(e, a)
  PROVE  \/ copies' = copies
         \/ \E action, fs : copies' = copies \cup CopiesOf(action, Last(deep[e]).text, fs)
<1> DEFINE chain == deep[e]
           found == RulesFind[Last(chain).text]
           split == RuleSplit(chain, SplitHit(Texts(chain)))
           items == Items(chain, a)
           encoded == Encoded(Last(chain).text, a)
           single == found \o SingleFindings(Last(chain).text, a.single)
           ruled == Ruled(found, split)
           windowed == Windowed(chain, items)
           findings == IF Decide(encoded) # "allow" THEN encoded ELSE single
<1>1. Run(chain, ruled, items, windowed, encoded, single)
  BY DEF Answer, RunOn
<1> HIDE DEF chain, ruled, items, windowed, encoded, single
<1>2. \/ Keep(window)
      \/ RemoveParts(chain, window, items[1].numbers, "model", items[1].entity, items[1].value)
      \/ RemoveOne(Last(chain), window, Decide(findings), findings)
  BY <1>1 DEF Run
<1> HIDE DEF findings
<1> QED BY <1>2 DEF Keep, RemoveOne, RemoveParts, chain

\* Every copy is a mask, after every step.
LEMMA StepCopies ==
  ASSUME ConversationInv, \A c \in copies : IsMask(c), [Next]_vars
  PROVE  \A c \in copies' : IsMask(c)
<1>1. ASSUME NEW action, NEW t \in Seq(Pieces), NEW fs, copies' = copies \cup CopiesOf(action, t, fs)
      PROVE  \A c \in copies' : IsMask(c)
  BY <1>1, NewCopies
<1>2. CASE copies' = copies
  BY <1>2
<1>3. CASE Judge
  <2>1. JudgeTakes /\ ConversationTypeOK
    BY <1>3, JudgeIs DEF ConversationInv
  <2>2. Reviewed.text \in Seq(Pieces)
    BY <2>1, JudgeCommon DEF EventRecords
  <2> QED BY <1>1, <1>2, <1>3, <2>2, JudgeCopies
<1>4. ASSUME NEW e \in DOMAIN deep, NEW a \in Answers, Answer(e, a)
      PROVE  \A c \in copies' : IsMask(c)
  <2> DEFINE chain == deep[e]
             S == Seq(ShownRecords)
  <2>1. deep \in Seq(S) /\ chain # NoChain
    BY <1>4 DEF ConversationInv, ConversationTypeOK, ShownRecords, Answer
  <2>2. chain \in S
    <3> HIDE DEF S
    <3> QED BY <2>1
  <2>3. chain[Len(chain)] \in ShownRecords
    <3> HIDE DEF chain
    <3> QED BY <2>1, <2>2 DEF NoChain
  <2>4. Last(chain).text \in Seq(Pieces)
    <3> HIDE DEF chain
    <3> QED BY <2>3 DEF Last, ShownRecords, EventRecords, WindowRecords
  <2> QED BY <1>1, <1>2, <1>4, <2>4, AnswerCopies
<1>5. Write \/ Tick \/ Restart \/ UNCHANGED vars => copies' = copies
  BY DEF Write, Tick, Restart, vars
<1> QED BY <1>2, <1>3, <1>4, <1>5 DEF Next

\* MaskedCardsStayHidden holds in every reachable state: no card that the rules on the plain text
\* would find is left in the copy of a message, unless another mask cut through one's digits.
THEOREM MaskedStayHidden == Spec => []MaskedCardsStayHidden
<1> DEFINE Masks == \A c \in copies : IsMask(c)
<1>1. Init => Masks
  BY DEF Init
<1>2. ConversationInv /\ Masks /\ [Next]_vars => Masks'
  BY StepCopies DEF IsMask
<1>3. Masks => MaskedCardsStayHidden
  <2> SUFFICES ASSUME Masks, NEW c \in copies, c.found = Detect(c.of), ~ CutThrough(c)
               PROVE  ShowsNoCard(c.text)
    BY DEF MaskedCardsStayHidden
  <2>1. c.of \in Seq(Pieces) /\ c.text = Mask(c.of, c.found)
    BY DEF IsMask
  <2> QED BY <2>1, MaskHidesCards
<1> QED BY <1>1, <1>2, <1>3, ConversationInvariance, PTL DEF Spec
=============================================================================
