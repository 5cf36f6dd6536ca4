--------------------------- MODULE SlackPoolProofs ---------------------------
(***************************************************************************)
(* However many threads, connections and failures there are: every slot of *)
(* the pool is in one place, and a request is repeated only for a reason.  *)
(***************************************************************************)
EXTENDS SlackPool, SequenceTheorems, FiniteSetTheorems, TLAPS

\* The slots of a sequence that are taken from its head ...
LEMMA SlotsOfTail ==
  ASSUME NEW q \in Seq(Slots), q # <<>>, IsInjective(q)
  PROVE  /\ Head(q) \in Slots /\ Tail(q) \in Seq(Slots)
         /\ IsInjective(Tail(q))
         /\ ToSet(q) = ToSet(Tail(q)) \cup {Head(q)}
         /\ Head(q) \notin ToSet(Tail(q))
<1>1. /\ Head(q) = q[1] /\ Head(q) \in Slots /\ Tail(q) \in Seq(Slots) /\ Len(q) \in Nat \ {0}
      /\ Len(Tail(q)) = Len(q) - 1
      /\ \A i \in 1..(Len(q) - 1) : Tail(q)[i] = q[i + 1]
  BY HeadTailProperties, EmptySeq
<1>2. DOMAIN q = 1..Len(q) /\ DOMAIN Tail(q) = 1..(Len(q) - 1)
  BY <1>1, LenProperties
<1>3. /\ \A i \in 1..Len(q) : i # 1 => i - 1 \in 1..(Len(q) - 1) /\ q[i] = Tail(q)[i - 1]
      /\ \A i \in 1..(Len(q) - 1) : i + 1 \in 1..Len(q) /\ i + 1 # 1
  BY <1>1
<1>4. IsInjective(Tail(q))
  BY <1>1, <1>2, <1>3 DEF IsInjective
<1>5. ToSet(q) = ToSet(Tail(q)) \cup {Head(q)}
  <2>1. \A i \in DOMAIN q : i # 1 => \E j \in DOMAIN Tail(q) : q[i] = Tail(q)[j]
    BY <1>2, <1>3
  <2>2. \A j \in DOMAIN Tail(q) : \E i \in DOMAIN q : q[i] = Tail(q)[j]
    BY <1>1, <1>2, <1>3
  <2>3. 1 \in DOMAIN q
    BY <1>1, <1>2
  <2> QED
    BY <1>1, <2>1, <2>2, <2>3 DEF ToSet
<1>6. Head(q) \notin ToSet(Tail(q))
  BY <1>1, <1>2, <1>3 DEF ToSet, IsInjective
<1> QED
  BY <1>1, <1>4, <1>5, <1>6

\* ... put at its head ...
LEMMA SlotsOfPush ==
  ASSUME NEW q \in Seq(Slots), IsInjective(q), NEW s \in Slots, s \notin ToSet(q)
  PROVE  /\ <<s>> \o q \in Seq(Slots)
         /\ IsInjective(<<s>> \o q)
         /\ ToSet(<<s>> \o q) = ToSet(q) \cup {s}
<1> DEFINE r == <<s>> \o q
<1>1. /\ r \in Seq(Slots) /\ Len(r) = Len(q) + 1 /\ Len(q) \in Nat
      /\ \A i \in 1..(Len(q) + 1) : r[i] = IF i <= 1 THEN s ELSE q[i - 1]
  BY ConcatProperties, LenProperties
<1>2. DOMAIN q = 1..Len(q) /\ DOMAIN r = 1..(Len(q) + 1)
  BY <1>1, LenProperties
<1>3. r[1] = s /\ \A i \in 1..Len(q) : r[i + 1] = q[i]
  BY <1>1
<1>4. /\ \A i \in 1..(Len(q) + 1) : i # 1 => i - 1 \in 1..Len(q) /\ r[i] = q[i - 1]
      /\ \A i \in 1..Len(q) : i + 1 \in 1..(Len(q) + 1)
      /\ 1 \in 1..(Len(q) + 1)
  BY <1>1
<1> HIDE DEF r
<1>5. ToSet(r) = ToSet(q) \cup {s}
  <2>1. \A i \in DOMAIN r : i # 1 => \E j \in DOMAIN q : r[i] = q[j]
    BY <1>2, <1>4
  <2>2. \A j \in DOMAIN q : \E i \in DOMAIN r : r[i] = q[j]
    BY <1>2, <1>3, <1>4
  <2>3. 1 \in DOMAIN r
    BY <1>1, <1>2
  <2> QED
    BY <1>3, <2>1, <2>2, <2>3 DEF ToSet
<1>6. ASSUME NEW i \in DOMAIN r, NEW j \in DOMAIN r, r[i] = r[j] PROVE i = j
  <2>1. ASSUME NEW k \in DOMAIN r, k # 1 PROVE r[k] # s
    BY <1>2, <1>4, <2>1 DEF ToSet
  <2>2. i = 1 <=> j = 1
    BY <1>3, <1>6, <2>1
  <2>3. CASE i # 1
    <3>1. i - 1 \in DOMAIN q /\ j - 1 \in DOMAIN q /\ q[i - 1] = q[j - 1]
      BY <1>2, <1>4, <1>6, <2>2, <2>3
    <3>2. i - 1 = j - 1
      BY <3>1 DEF IsInjective
    <3> QED
      BY <1>1, <1>2, <3>2
  <2> QED
    BY <2>2, <2>3
<1> QED
  BY <1>1, <1>5, <1>6 DEF r, IsInjective

\* ... and appended to it.
LEMMA SlotsOfAppend ==
  ASSUME NEW q \in Seq(Slots), IsInjective(q), NEW s \in Slots, s \notin ToSet(q)
  PROVE  /\ Append(q, s) \in Seq(Slots)
         /\ IsInjective(Append(q, s))
         /\ ToSet(Append(q, s)) = ToSet(q) \cup {s}
<1> DEFINE r == Append(q, s)
<1>1. /\ r \in Seq(Slots) /\ Len(r) = Len(q) + 1 /\ Len(q) \in Nat
      /\ \A i \in 1..Len(q) : r[i] = q[i]
      /\ r[Len(q) + 1] = s
  BY AppendProperties, LenProperties
<1>2. DOMAIN q = 1..Len(q) /\ DOMAIN r = 1..(Len(q) + 1)
  BY <1>1, LenProperties
<1>3. \A i \in 1..(Len(q) + 1) : i \in 1..Len(q) \/ i = Len(q) + 1
  BY <1>1
<1> HIDE DEF r
<1>4. IsInjective(r)
  BY <1>1, <1>2, <1>3 DEF IsInjective, ToSet
<1>5. ToSet(r) = ToSet(q) \cup {s}
  BY <1>1, <1>2, <1>3 DEF ToSet
<1> QED
  BY <1>1, <1>4, <1>5 DEF r

\* The pool is filled with every slot once.
LEMMA SlotsToSeq ==
  /\ SetToSeq(Slots) \in Seq(Slots)
  /\ IsInjective(SetToSeq(Slots))
  /\ ToSet(SetToSeq(Slots)) = Slots
<1> DEFINE n == Cardinality(Slots)
           F == [1..n -> Slots]
<1>1. n \in Nat /\ ExistsBijection(1..n, Slots)
  BY FS_CardinalityType, PoolAssumption
<1>2. \E f \in F : IsInjective(f)
  BY <1>1 DEF ExistsBijection, Bijection, Injection
<1>3. SetToSeq(Slots) \in F /\ IsInjective(SetToSeq(Slots))
  BY <1>2 DEF SetToSeq
<1>4. SetToSeq(Slots) \in Injection(1..n, Slots)
  BY <1>3 DEF Injection
<1>5. Cardinality(1..n) = n
  BY <1>1, FS_Interval
<1>6. SetToSeq(Slots) \in Surjection(1..n, Slots)
  BY <1>4, <1>5, FS_Injection, PoolAssumption
<1>7. ToSet(SetToSeq(Slots)) = Slots
  BY <1>3, <1>6 DEF ToSet, Surjection
<1>8. SetToSeq(Slots) \in Seq(Slots)
  BY <1>1, <1>3
<1> QED
  BY <1>3, <1>7, <1>8
-----------------------------------------------------------------------------
Outcomes == {"none", "ok", "refused", "raised", "limited"}
Calls == [at : {"get", "send", "put", "end"}, slot : Slots \cup {NoSlot}, try : 1..MaxTries,
          effects : Nat, outcome : Outcomes]
PoolTypeOK ==
  /\ pool \in Seq(Slots)
  /\ conn \in [Slots -> {"none", "open", "stale"}]
  /\ call \in [Callers -> Calls]
  /\ warmer \in [at : {"wait", "take", "ping"}, taken : Seq(Slots), pinged : Nat]
  /\ faults \in 0..MaxFaults

\* A call has a slot from get() to put(); the pool, the warmer and the calls share no slot and
\* hold none twice, and together they hold all.
Apart ==
  /\ IsInjective(pool) /\ IsInjective(warmer.taken)
  /\ ToSet(pool) \cap ToSet(warmer.taken) = {}
  /\ \A c \in Callers : /\ (call[c].slot \in Slots) <=> (call[c].at \in {"send", "put"})
                        /\ call[c].slot \notin ToSet(pool) \cup ToSet(warmer.taken)
  /\ \A c, d \in Callers : call[c].slot = call[d].slot /\ call[c].slot \in Slots => c = d
  /\ \A s \in Slots : s \in ToSet(pool) \cup ToSet(warmer.taken) \/ \E c \in Callers : call[c].slot = s

\* The warmer has pinged none that it has not taken.
Pinged == /\ warmer.pinged <= Len(warmer.taken)
          /\ warmer.at # "ping" => warmer.pinged = 0
          /\ warmer.at = "wait" => warmer.taken = <<>>

PoolInv == PoolTypeOK /\ Apart /\ Pinged

\* At the start all slots are in the pool.
LEMMA InitPool == Init => PoolInv
<1> SUFFICES ASSUME Init PROVE PoolInv
  OBVIOUS
<1>1. /\ pool \in Seq(Slots) /\ IsInjective(pool) /\ ToSet(pool) = Slots
  BY SlotsToSeq DEF Init
<1>2. <<>> \in Seq(Slots) /\ Len(<<>>) = 0 /\ DOMAIN <<>> = {} /\ ToSet(<<>>) = {}
  BY EmptySeq DEF ToSet
<1>3. PoolTypeOK
  BY <1>1, <1>2, PoolAssumption DEF Init, PoolTypeOK, MaxTries, Calls, Outcomes
<1>4. Apart
  BY <1>1, <1>2, PoolAssumption DEF Init, Apart, IsInjective
<1> QED
  BY <1>2, <1>3, <1>4 DEF PoolInv, Pinged, Init

\* A step that moves no slot keeps them where they are.
LEMMA NothingMoves ==
  ASSUME PoolInv, UNCHANGED pool, warmer'.taken = warmer.taken,
         \A c \in Callers : /\ call'[c].slot = call[c].slot
                            /\ (call'[c].at \in {"send", "put"}) <=> (call[c].at \in {"send", "put"})
  PROVE  Apart'
<1>1. ToSet(pool)' = ToSet(pool) /\ ToSet(warmer.taken)' = ToSet(warmer.taken)
  OBVIOUS
<1>2. pool' = pool
  OBVIOUS
<1> QED
  BY <1>1, <1>2 DEF PoolInv, Apart

\* What an exchange does: the call ends or is tried again, with at most one effect more, which
\* is then its last or the network broke.  It keeps its slot.
ExchangeOf(c, r) ==
  /\ r \in Calls /\ r.slot = call[c].slot
  /\ \/ r.at = "put" /\ r.try = call[c].try
     \/ r.at = "send" /\ r.try = call[c].try + 1
  /\ r.effects \in {call[c].effects, call[c].effects + 1}
  /\ r.at = "send" /\ r.effects # call[c].effects => faults' = faults + 1

\* The records that End, Again and another effect make of a call.
LEMMA CallRecords ==
  ASSUME NEW r \in Calls
  PROVE  /\ \A outcome \in Outcomes :
              LET w == [r EXCEPT !.at = "put", !.outcome = outcome]
              IN  /\ w \in Calls /\ w.at = "put" /\ w.try = r.try /\ w.slot = r.slot
                  /\ w.effects = r.effects
         /\ r.try # MaxTries =>
              LET w == [r EXCEPT !.try = @ + 1]
              IN  /\ w \in Calls /\ w.at = r.at /\ w.try = r.try + 1 /\ w.slot = r.slot
                  /\ w.effects = r.effects
         /\ \A n \in {0, 1} :
              LET w == [r EXCEPT !.effects = @ + n]
              IN  /\ w \in Calls /\ w.at = r.at /\ w.try = r.try /\ w.slot = r.slot
                  /\ w.effects = r.effects + n
<1>1. ASSUME r.try # MaxTries PROVE r.try + 1 \in 1..MaxTries
  BY <1>1 DEF Calls, MaxTries
<1>2. \A n \in {0, 1} : r.effects + n \in Nat
  BY DEF Calls
<1> QED
  BY <1>1, <1>2 DEF Calls

\* An exchange may end a call or its connection, and moves no slot.
LEMMA ExchangeMoves ==
  ASSUME PoolInv, NEW c \in Callers, Exchange(c)
  PROVE  /\ call[c].at = "send" /\ UNCHANGED <<pool, warmer>>
         /\ conn' \in [Slots -> {"none", "open", "stale"}]
         /\ faults' \in {faults, faults + 1} /\ faults' \in 0..MaxFaults
         /\ \E r \in Calls : ExchangeOf(c, r) /\ call' = [call EXCEPT ![c] = r]
<1> DEFINE r == call[c]
<1>1. /\ r.at = "send" /\ r \in Calls /\ r.slot \in Slots
      /\ UNCHANGED <<pool, warmer>>
      /\ conn' \in [Slots -> {"none", "open", "stale"}]
      /\ faults' \in {faults, faults + 1} /\ faults' \in 0..MaxFaults
  BY PoolAssumption
     DEF PoolInv, PoolTypeOK, Apart, Exchange, Answered, Garbled, RateLimited, Broken
<1>2. ASSUME NEW outcome \in Outcomes
      PROVE  /\ End(c, outcome) \in Calls
             /\ End(c, outcome).at = "put" /\ End(c, outcome).try = r.try
             /\ End(c, outcome).slot = r.slot /\ End(c, outcome).effects = r.effects
  BY <1>1, CallRecords DEF End
<1>3. ASSUME r.try # MaxTries
      PROVE  /\ Again(c) \in Calls
             /\ Again(c).at = "send" /\ Again(c).try = r.try + 1
             /\ Again(c).slot = r.slot /\ Again(c).effects = r.effects
  BY <1>1, <1>3, CallRecords DEF Again, NextTry
<1>4. ASSUME NEW v \in Calls, NEW n \in {0, 1}
      PROVE  LET w == [v EXCEPT !.effects = @ + n]
             IN  /\ w \in Calls /\ w.at = v.at /\ w.try = v.try
                 /\ w.slot = v.slot /\ w.effects = v.effects + n
  BY CallRecords
<1>5. r.effects \in Nat
  BY <1>1 DEF Calls
<1>6. CASE Answered(c)
  <2>1. PICK outcome \in {"ok", "refused"} :
          call' = [call EXCEPT ![c] = [End(c, outcome) EXCEPT
                                    !.effects = IF outcome = "ok" THEN @ + 1 ELSE @]]
    BY <1>6 DEF Answered
  <2> DEFINE n == IF outcome = "ok" THEN 1 ELSE 0
             e == End(c, outcome)
             w == [e EXCEPT !.effects = @ + n]
  <2>2. outcome \in Outcomes /\ n \in {0, 1}
    BY DEF Outcomes
  <2>e. /\ e \in Calls /\ e.at = "put" /\ e.try = r.try
        /\ e.slot = r.slot /\ e.effects = r.effects
    BY <1>2, <2>2
  <2>f. e.effects + n = IF outcome = "ok" THEN e.effects + 1 ELSE e.effects
    BY <1>5, <2>e
  <2>4. call' = [call EXCEPT ![c] = w]
    BY <2>1, <2>f, Zenon
  <2> HIDE DEF e, n
  <2>3. /\ w \in Calls /\ w.at = "put" /\ w.try = r.try
        /\ w.slot = r.slot /\ w.effects = r.effects + n
    BY <1>4, <2>2, <2>e
  <2> HIDE DEF w
  <2>5. ExchangeOf(c, w)
    BY <1>5, <2>2, <2>3 DEF ExchangeOf
  <2> QED
    BY <1>1, <2>3, <2>4, <2>5
<1>7. CASE Garbled(c)
  <2>1. PICK done \in {0, 1} :
          call' = [call EXCEPT ![c] = [End(c, "raised") EXCEPT !.effects = @ + done]]
    BY <1>7 DEF Garbled
  <2> DEFINE e == End(c, "raised")
             w == [e EXCEPT !.effects = @ + done]
  <2>e. /\ e \in Calls /\ e.at = "put" /\ e.try = r.try
        /\ e.slot = r.slot /\ e.effects = r.effects
    BY <1>2 DEF Outcomes
  <2>3. call' = [call EXCEPT ![c] = w]
    BY <2>1
  <2> HIDE DEF e
  <2>2. /\ w \in Calls /\ w.at = "put" /\ w.try = r.try
        /\ w.slot = r.slot /\ w.effects = r.effects + done
    BY <1>4, <2>1, <2>e
  <2> HIDE DEF w
  <2>4. ExchangeOf(c, w)
    BY <1>5, <2>1, <2>2 DEF ExchangeOf
  <2> QED
    BY <1>1, <2>2, <2>3, <2>4
<1>8. CASE RateLimited(c)
  <2> DEFINE w == IF r.try = MaxTries THEN End(c, "limited") ELSE Again(c)
  <2>1. call' = [call EXCEPT ![c] = w]
    BY <1>8 DEF RateLimited
  <2>2. w \in Calls /\ ExchangeOf(c, w)
    BY <1>2, <1>3 DEF ExchangeOf, Outcomes
  <2> QED
    BY <1>1, <2>1, <2>2
<1>9. CASE Broken(c)
  <2> DEFINE v == IF r.try = MaxTries THEN End(c, "raised") ELSE Again(c)
             stale == conn[r.slot] = "stale"
  <2>1. PICK done \in {0, 1} : /\ call' = [call EXCEPT ![c] = [v EXCEPT !.effects = @ + done]]
                               /\ done = 0 \/ faults' = faults + 1
    BY <1>9 DEF Broken
  <2>2. /\ v \in Calls /\ v.slot = r.slot /\ v.effects = r.effects
        /\ \/ v.at = "put" /\ v.try = r.try
           \/ v.at = "send" /\ v.try = r.try + 1
    BY <1>2, <1>3 DEF Outcomes
  <2> HIDE DEF v
  <2> DEFINE w == [v EXCEPT !.effects = @ + done]
  <2>3. /\ w \in Calls /\ w.at = v.at /\ w.try = v.try
        /\ w.slot = r.slot /\ w.effects = r.effects + done
    BY <1>4, <2>1, <2>2
  <2>4. call' = [call EXCEPT ![c] = w]
    BY <2>1
  <2> HIDE DEF w
  <2>5. ExchangeOf(c, w)
    BY <1>5, <2>1, <2>2, <2>3 DEF ExchangeOf
  <2> QED
    BY <1>1, <2>3, <2>4, <2>5
<1> QED
  BY <1>1, <1>6, <1>7, <1>8, <1>9 DEF Exchange

\* An exchange keeps the invariant.
LEMMA ExchangeInv == ASSUME PoolInv, NEW c \in Callers, Exchange(c) PROVE PoolInv'
<1> USE DEF PoolInv
<1>1. PICK r \in Calls : ExchangeOf(c, r) /\ call' = [call EXCEPT ![c] = r]
  BY ExchangeMoves
<1>2. /\ call[c].at = "send" /\ r.at \in {"send", "put"} /\ r.slot = call[c].slot
      /\ call' \in [Callers -> Calls] /\ call'[c] = r
      /\ \A d \in Callers \ {c} : call'[d] = call[d]
      /\ UNCHANGED <<pool, warmer>>
  BY <1>1, ExchangeMoves DEF ExchangeOf, PoolTypeOK
<1>3. PoolTypeOK'
  BY <1>2, ExchangeMoves DEF PoolTypeOK
<1>4. Apart'
  BY <1>2, NothingMoves
<1> QED
  BY <1>2, <1>3, <1>4 DEF Pinged

\* A call gets a slot, or gives it up.
LEMMA CallMoves ==
  ASSUME PoolTypeOK, NEW c \in Callers, NEW a \in {"send", "end"}, NEW s \in Slots \cup {NoSlot},
         call' = [call EXCEPT ![c].at = a, ![c].slot = s]
  PROVE  /\ call' \in [Callers -> Calls]
         /\ call'[c].at = a /\ call'[c].slot = s
         /\ \A d \in Callers \ {c} : call'[d] = call[d]
<1> DEFINE r == [call[c] EXCEPT !.at = a, !.slot = s]
<1>1. call[c] \in Calls /\ call \in [Callers -> Calls]
  BY DEF PoolTypeOK
<1>2. r \in Calls /\ r.at = a /\ r.slot = s
  BY <1>1 DEF Calls
<1>3. call' = [call EXCEPT ![c] = r]
  BY <1>1
<1> HIDE DEF r
<1> QED
  BY <1>1, <1>2, <1>3

\* The steps that move a slot: from the pool to a call ...
LEMMA GetMoves == ASSUME PoolInv, NEW c \in Callers, Get(c) PROVE PoolInv'
<1> DEFINE h == Head(pool)
<1>1. /\ call[c].at = "get" /\ pool # <<>> /\ pool' = Tail(pool)
      /\ call' = [call EXCEPT ![c].at = "send", ![c].slot = h]
      /\ UNCHANGED <<conn, warmer, faults>>
  BY DEF Get
<1>2. /\ h \in Slots /\ pool' \in Seq(Slots) /\ IsInjective(pool')
      /\ ToSet(pool) = ToSet(pool') \cup {h} /\ h \notin ToSet(pool')
  BY <1>1, SlotsOfTail DEF PoolInv, PoolTypeOK, Apart
<1> HIDE DEF h
<1>3. /\ call' \in [Callers -> Calls]
      /\ call'[c].slot = h /\ call'[c].at = "send"
      /\ \A d \in Callers \ {c} : call'[d] = call[d]
  BY <1>1, <1>2, CallMoves DEF PoolInv
<1>4. PoolTypeOK'
  BY <1>1, <1>2, <1>3 DEF PoolInv, PoolTypeOK
<1>5. Apart'
  BY <1>1, <1>2, <1>3 DEF PoolInv, Apart
<1> QED
  BY <1>1, <1>4, <1>5 DEF PoolInv, Pinged

\* ... back to the pool ...
LEMMA PutMoves == ASSUME PoolInv, NEW c \in Callers, PutBack(c) PROVE PoolInv'
<1> DEFINE s == call[c].slot
<1>1. /\ call[c].at = "put" /\ pool' = <<s>> \o pool
      /\ call' = [call EXCEPT ![c].at = "end", ![c].slot = NoSlot]
      /\ UNCHANGED <<conn, warmer, faults>>
  BY DEF PutBack, Returned
<1>2. s \in Slots /\ s \notin ToSet(pool) /\ s \notin ToSet(warmer.taken)
  BY <1>1 DEF PoolInv, Apart
<1>3. pool' \in Seq(Slots) /\ IsInjective(pool') /\ ToSet(pool') = ToSet(pool) \cup {s}
  BY <1>1, <1>2, SlotsOfPush DEF PoolInv, PoolTypeOK, Apart
<1>4. /\ call' \in [Callers -> Calls]
      /\ call'[c].slot = NoSlot /\ call'[c].at = "end"
      /\ \A d \in Callers \ {c} : call'[d] = call[d]
  BY <1>1, CallMoves DEF PoolInv
<1>5. PoolTypeOK'
  BY <1>1, <1>3, <1>4 DEF PoolInv, PoolTypeOK
<1>s. \A d \in Callers \ {c} : call[d].slot # s
  BY <1>2 DEF PoolInv, Apart
<1>t. ToSet(pool) \cup ToSet(warmer.taken) \subseteq Slots
  BY DEF PoolInv, PoolTypeOK, ToSet
<1> HIDE DEF s
<1>6. Apart'
  <2>1. \A x \in Slots : x \in ToSet(pool') \cup ToSet(warmer'.taken)
                           \/ \E d \in Callers : call'[d].slot = x
    BY <1>1, <1>3, <1>4 DEF PoolInv, Apart, s
  <2>2. \A d \in Callers :
          /\ (call'[d].slot \in Slots) <=> (call'[d].at \in {"send", "put"})
          /\ call'[d].slot \notin ToSet(pool') \cup ToSet(warmer'.taken)
    <3>1. ASSUME NEW d \in Callers \ {c}
          PROVE  /\ (call'[d].slot \in Slots) <=> (call'[d].at \in {"send", "put"})
                 /\ call'[d].slot \notin ToSet(pool') \cup ToSet(warmer'.taken)
      BY <1>1, <1>3, <1>4, <1>s DEF PoolInv, Apart
    <3>2. NoSlot \notin ToSet(pool') \cup ToSet(warmer'.taken)
      BY <1>1, <1>2, <1>3, <1>t, PoolAssumption
    <3> QED
      BY <1>4, <3>1, <3>2, PoolAssumption
  <2>3. \A d, e \in Callers : call'[d].slot = call'[e].slot /\ call'[d].slot \in Slots => d = e
    BY <1>4, PoolAssumption DEF PoolInv, Apart
  <2>4. IsInjective(warmer'.taken) /\ ToSet(pool') \cap ToSet(warmer'.taken) = {}
    BY <1>1, <1>2, <1>3 DEF PoolInv, Apart
  <2> QED
    BY <1>3, <2>1, <2>2, <2>3, <2>4 DEF Apart
<1> QED
  BY <1>1, <1>5, <1>6 DEF PoolInv, Pinged

\* ... from the pool to the warmer ...
LEMMA TakeMoves == ASSUME PoolInv, Take PROVE PoolInv'
<1> DEFINE h == Head(pool)
           t == warmer.taken
<1>0. warmer.at = "take" /\ UNCHANGED <<conn, call, faults>> /\ warmer.pinged = 0
  BY DEF Take, PoolInv, Pinged
<1>1. CASE pool = <<>>
  <2>1. /\ warmer' = [warmer EXCEPT !.at = "ping"] /\ UNCHANGED pool
        /\ warmer'.taken = t /\ warmer'.pinged = 0
        /\ warmer'.at = "ping"
    BY <1>0, <1>1 DEF Take, PoolInv, PoolTypeOK
  <2>2. PoolTypeOK'
    BY <1>0, <2>1 DEF PoolInv, PoolTypeOK
  <2>3. Apart'
    BY <1>0, <2>1, NothingMoves
  <2> QED
    BY <1>0, <2>1, <2>2, <2>3 DEF PoolInv, Pinged
<1>2. CASE pool # <<>>
  <2>1. /\ warmer' = [warmer EXCEPT !.taken = Append(t, h)] /\ pool' = Tail(pool)
    BY <1>0, <1>2 DEF Take
  <2>2. /\ h \in Slots /\ pool' \in Seq(Slots) /\ IsInjective(pool')
        /\ ToSet(pool) = ToSet(pool') \cup {h} /\ h \notin ToSet(pool') /\ h \notin ToSet(t)
    BY <1>2, <2>1, SlotsOfTail DEF PoolInv, PoolTypeOK, Apart
  <2> HIDE DEF h
  <2>3. t \in Seq(Slots) /\ IsInjective(t)
    BY DEF PoolInv, PoolTypeOK, Apart
  <2>4. /\ Append(t, h) \in Seq(Slots) /\ IsInjective(Append(t, h))
        /\ ToSet(Append(t, h)) = ToSet(t) \cup {h} /\ Len(Append(t, h)) \in Nat
    BY <2>2, <2>3, SlotsOfAppend, LenProperties
  <2>5. /\ warmer'.taken = Append(t, h) /\ warmer'.pinged = 0 /\ warmer'.at = "take"
        /\ warmer' \in [at : {"wait", "take", "ping"}, taken : Seq(Slots), pinged : Nat]
    BY <1>0, <2>1, <2>4 DEF PoolInv, PoolTypeOK
  <2>6. PoolTypeOK'
    BY <1>0, <2>2, <2>5 DEF PoolInv, PoolTypeOK
  <2> HIDE DEF t
  <2>7. Apart'
    BY <1>0, <2>2, <2>4, <2>5 DEF PoolInv, Apart, t
  <2> QED
    BY <2>4, <2>5, <2>6, <2>7 DEF PoolInv, Pinged
<1> QED
  BY <1>1, <1>2

\* ... and back again.
LEMMA GiveBackMoves == ASSUME PoolInv, GiveBack PROVE PoolInv'
<1> DEFINE t == warmer.taken
           h == Head(t)
<1>0. /\ warmer.at = "ping" /\ UNCHANGED <<conn, call, faults>> /\ warmer.pinged = Len(t)
      /\ t \in Seq(Slots) /\ IsInjective(t) /\ pool \in Seq(Slots) /\ IsInjective(pool)
  BY DEF GiveBack, PoolInv, PoolTypeOK, Apart
<1>1. CASE t = <<>>
  <2>1. /\ warmer' = [warmer EXCEPT !.at = "wait"] /\ UNCHANGED pool
        /\ warmer'.taken = t /\ warmer'.pinged = 0 /\ Len(t) = 0
        /\ warmer'.at = "wait"
    BY <1>0, <1>1, EmptySeq DEF GiveBack, PoolInv, PoolTypeOK
  <2>2. PoolTypeOK'
    BY <1>0, <2>1 DEF PoolInv, PoolTypeOK
  <2>3. Apart'
    BY <1>0, <2>1, NothingMoves
  <2> QED
    BY <1>1, <2>1, <2>2, <2>3 DEF PoolInv, Pinged
<1>2. CASE t # <<>>
  <2>1. /\ warmer' = [warmer EXCEPT !.taken = Tail(t), !.pinged = @ - 1]
        /\ pool' = <<h>> \o pool
    BY <1>0, <1>2 DEF GiveBack
  <2>2. /\ h \in Slots /\ Tail(t) \in Seq(Slots) /\ IsInjective(Tail(t))
        /\ ToSet(t) = ToSet(Tail(t)) \cup {h} /\ h \notin ToSet(Tail(t))
        /\ Len(Tail(t)) = Len(t) - 1 /\ Len(t) - 1 \in Nat
    BY <1>0, <1>2, SlotsOfTail, HeadTailProperties, EmptySeq
  <2>3. h \notin ToSet(pool)
    BY <2>2 DEF PoolInv, Apart
  <2> HIDE DEF h
  <2>4. pool' \in Seq(Slots) /\ IsInjective(pool') /\ ToSet(pool') = ToSet(pool) \cup {h}
    BY <1>0, <2>1, <2>2, <2>3, SlotsOfPush
  <2>5. /\ warmer'.taken = Tail(t) /\ warmer'.pinged = Len(t) - 1 /\ warmer'.at = "ping"
        /\ warmer' \in [at : {"wait", "take", "ping"}, taken : Seq(Slots), pinged : Nat]
    BY <1>0, <2>1, <2>2 DEF PoolInv, PoolTypeOK
  <2>6. PoolTypeOK'
    BY <1>0, <2>4, <2>5 DEF PoolInv, PoolTypeOK
  <2> HIDE DEF t
  <2>7. Apart'
    BY <1>0, <2>2, <2>4, <2>5 DEF PoolInv, Apart, t
  <2> QED
    BY <2>2, <2>5, <2>6, <2>7 DEF PoolInv, Pinged
<1> QED
  BY <1>1, <1>2

\* Every step keeps the slots apart.
LEMMA NextPool == PoolInv /\ [Next]_vars => PoolInv'
<1> SUFFICES ASSUME PoolInv, [Next]_vars PROVE PoolInv'
  OBVIOUS
<1>1. ASSUME UNCHANGED <<pool, call>>, warmer'.taken = warmer.taken, PoolTypeOK', Pinged'
      PROVE  PoolInv'
  BY <1>1, NothingMoves DEF PoolInv
<1>2. CASE Wake
  <2>1. /\ warmer'.at = "take" /\ warmer'.taken = warmer.taken /\ warmer'.pinged = warmer.pinged
        /\ warmer.at = "wait" /\ warmer' \in [at : {"take"}, taken : Seq(Slots), pinged : Nat]
        /\ UNCHANGED <<pool, conn, call, faults>>
    BY <1>2 DEF Wake, PoolInv, PoolTypeOK
  <2> QED
    BY <1>1, <2>1 DEF PoolInv, PoolTypeOK, Pinged
<1>3. CASE Ping
  <2>1. /\ warmer.at = "ping" /\ warmer.pinged < Len(warmer.taken)
        /\ warmer' = [warmer EXCEPT !.pinged = @ + 1]
        /\ UNCHANGED <<pool, call>>
    BY <1>3 DEF Ping
  <2>2. /\ conn' \in [Slots -> {"none", "open", "stale"}] /\ faults' \in 0..MaxFaults
    BY <1>3, PoolAssumption DEF Ping, PoolInv, PoolTypeOK
  <2>3. /\ warmer'.at = "ping" /\ warmer'.taken = warmer.taken
        /\ warmer'.pinged = warmer.pinged + 1 /\ warmer.pinged \in Nat
        /\ Len(warmer.taken) \in Nat
        /\ warmer' \in [at : {"ping"}, taken : Seq(Slots), pinged : Nat]
    BY <2>1, LenProperties DEF PoolInv, PoolTypeOK
  <2>4. PoolTypeOK'
    BY <2>1, <2>2, <2>3 DEF PoolInv, PoolTypeOK
  <2>5. Pinged'
    BY <2>1, <2>3 DEF Pinged
  <2> QED
    BY <1>1, <2>1, <2>3, <2>4, <2>5
<1>4. ASSUME NEW s \in Slots, ServerCloses(s) PROVE PoolInv'
  BY <1>1, <1>4 DEF ServerCloses, PoolInv, PoolTypeOK, Pinged
<1>5. CASE UNCHANGED vars
  BY <1>1, <1>5 DEF vars, PoolInv, PoolTypeOK, Pinged
<1> QED
  BY <1>2, <1>3, <1>4, <1>5, GetMoves, ExchangeInv, PutMoves, TakeMoves, GiveBackMoves DEF Next

\* The pool never loses or doubles a connection.
THEOREM PoolInvariance == Spec => []PoolInv
BY InitPool, NextPool, PTL DEF Spec

\* For any number of threads, slots and failures: every slot is in the pool, with one call or
\* with the warmer, and no two threads have the same.
THEOREM SlotsAreKept == Spec => []EachSlotInOnePlace
<1>1. ASSUME PoolInv, NEW s \in Slots PROVE \E p \in Places(s) : Places(s) = {p}
  <2>0. /\ pool \in Seq(Slots) /\ warmer.taken \in Seq(Slots)
        /\ DOMAIN pool = 1..Len(pool) /\ DOMAIN warmer.taken = 1..Len(warmer.taken)
    BY <1>1, LenProperties DEF PoolInv, PoolTypeOK
  <2>a. /\ \A j \in 1..Len(pool) : pool[j] \in ToSet(pool)
        /\ \A j \in 1..Len(warmer.taken) : warmer.taken[j] \in ToSet(warmer.taken)
    BY <2>0 DEF ToSet
  <2>b. ToSet(pool) \cap ToSet(warmer.taken) = {}
    BY <1>1 DEF PoolInv, Apart
  <2>1. CASE s \in ToSet(pool)
    <3>1. PICK i \in 1..Len(pool) : pool[i] = s
      BY <2>0, <2>1 DEF ToSet
    <3>2. \A j \in 1..Len(pool) : pool[j] = s => j = i
      BY <1>1, <2>0, <3>1 DEF PoolInv, Apart, IsInjective
    <3>3. \A j \in 1..Len(warmer.taken) : warmer.taken[j] # s
      BY <2>1, <2>a, <2>b
    <3>4. \A c \in Callers : call[c].slot # s
      BY <1>1, <2>1 DEF PoolInv, Apart
    <3>5. Places(s) = {<<"pool", i>>}
      BY <3>1, <3>2, <3>3, <3>4 DEF Places
    <3> QED
      BY <3>5
  <2>2. CASE s \in ToSet(warmer.taken)
    <3>1. PICK i \in 1..Len(warmer.taken) : warmer.taken[i] = s
      BY <2>0, <2>2 DEF ToSet
    <3>2. \A j \in 1..Len(warmer.taken) : warmer.taken[j] = s => j = i
      BY <1>1, <2>0, <3>1 DEF PoolInv, Apart, IsInjective
    <3>3. \A j \in 1..Len(pool) : pool[j] # s
      BY <2>2, <2>a, <2>b
    <3>4. \A c \in Callers : call[c].slot # s
      BY <1>1, <2>2 DEF PoolInv, Apart
    <3>5. Places(s) = {<<"warmer", i>>}
      BY <3>1, <3>2, <3>3, <3>4 DEF Places
    <3> QED
      BY <3>5
  <2>3. ASSUME NEW c \in Callers, call[c].slot = s PROVE Places(s) = {<<"call", c>>}
    <3>1. \A j \in 1..Len(pool) : pool[j] # s
      BY <1>1, <2>3, <2>a DEF PoolInv, Apart
    <3>2. \A j \in 1..Len(warmer.taken) : warmer.taken[j] # s
      BY <1>1, <2>3, <2>a DEF PoolInv, Apart
    <3>3. \A d \in Callers : call[d].slot = s => d = c
      BY <1>1, <2>3 DEF PoolInv, Apart
    <3> QED
      BY <2>3, <3>1, <3>2, <3>3 DEF Places
  <2> QED
    BY <1>1, <2>1, <2>2, <2>3 DEF PoolInv, Apart
<1>2. PoolInv => EachSlotInOnePlace
  BY <1>1 DEF EachSlotInOnePlace
<1> QED
  BY <1>2, PoolInvariance, PTL
-----------------------------------------------------------------------------
\* A call that still tries has had an effect only in exchanges that broke; its tries are all
\* the effects it can have had.
Tried(c) == /\ call[c].at \in {"get", "send"} => /\ call[c].effects < call[c].try
                                                 /\ call[c].effects <= faults
            /\ call[c].effects <= call[c].try
            /\ call[c].effects <= 1 + faults
EffectInv == \A c \in Callers : Tried(c)

\* A request is acted on at most three times, and more than once only because the network
\* broke exchanges: EffectOnce fails in no other way.
RepeatedForAReason == \A c \in Callers : /\ call[c].effects <= MaxTries
                                         /\ call[c].effects <= 1 + faults

\* Every step keeps the account of what Slack has carried out.
LEMMA NextEffect == PoolInv /\ EffectInv /\ [Next]_vars => EffectInv'
<1> SUFFICES ASSUME PoolInv, EffectInv, [Next]_vars PROVE EffectInv'
  OBVIOUS
<1>0. /\ \A c \in Callers : call[c].effects \in Nat /\ call[c].try \in Nat
      /\ faults \in Nat
  BY PoolAssumption DEF PoolInv, PoolTypeOK, Calls, MaxTries
<1>f. faults' \in {faults, faults + 1}
  <2>1. \A c \in Callers : Exchange(c) => faults' \in {faults, faults + 1}
    BY ExchangeMoves
  <2> QED
    BY <2>1 DEF Next, Get, PutBack, Wake, Take, Ping, GiveBack, ServerCloses, vars
<1>1. ASSUME NEW c \in Callers, call'[c].effects = call[c].effects, call'[c].try = call[c].try,
             call'[c].at \in {"get", "send"} => call[c].at \in {"get", "send"}
      PROVE  Tried(c)'
  BY <1>0, <1>1, <1>f DEF EffectInv, Tried
<1>2. ASSUME NEW c \in Callers, Exchange(c) PROVE EffectInv'
  <2>1. PICK r \in Calls : ExchangeOf(c, r) /\ call' = [call EXCEPT ![c] = r]
    BY <1>2, ExchangeMoves DEF Next
  <2>2. call[c].at = "send" /\ call'[c] = r /\ \A d \in Callers \ {c} : call'[d] = call[d]
    BY <1>2, <2>1, ExchangeMoves DEF PoolInv, PoolTypeOK
  <2>3. Tried(c)'
    BY <1>0, <1>f, <2>1, <2>2 DEF EffectInv, Tried, ExchangeOf
  <2> QED
    BY <1>1, <2>2, <2>3 DEF EffectInv
<1>3. ASSUME NEW c \in Callers, Get(c) PROVE EffectInv'
  <2>1. /\ call[c].at = "get" /\ call'[c].effects = call[c].effects /\ call'[c].try = call[c].try
        /\ \A d \in Callers \ {c} : call'[d] = call[d]
    BY <1>3 DEF Get, PoolInv, PoolTypeOK, Calls
  <2> QED
    BY <1>1, <2>1 DEF EffectInv
<1>4. ASSUME NEW c \in Callers, PutBack(c) PROVE EffectInv'
  <2>1. /\ call'[c].at = "end" /\ call'[c].effects = call[c].effects /\ call'[c].try = call[c].try
        /\ \A d \in Callers \ {c} : call'[d] = call[d]
    BY <1>4 DEF PutBack, PoolInv, PoolTypeOK, Calls
  <2> QED
    BY <1>1, <2>1 DEF EffectInv
<1>5. CASE UNCHANGED call
  BY <1>1, <1>5 DEF EffectInv
<1> QED
  BY <1>2, <1>3, <1>4, <1>5 DEF Next, Wake, Take, Ping, GiveBack, ServerCloses, vars

\* For any number of threads, slots and failures.
THEOREM RepeatsHaveReasons == Spec => []RepeatedForAReason
<1>1. Init => EffectInv
  BY PoolAssumption DEF Init, EffectInv, Tried
<1>2. PoolInv /\ EffectInv => RepeatedForAReason
  BY PoolAssumption DEF PoolInv, PoolTypeOK, Calls, EffectInv, Tried, RepeatedForAReason, MaxTries
<1> QED
  BY <1>1, <1>2, NextEffect, PoolInvariance, PTL DEF Spec
=============================================================================
