--------------------------- MODULE PipelineProofs ---------------------------
(***************************************************************************)
(* Proofs about Pipeline, for any number of concurrent runs, any policies, *)
(* messages and answers of the model.  First what decide() returns, by     *)
(* induction over the findings; then the order of the checks, and what     *)
(* follows from both for the decisions of run().                           *)
(***************************************************************************)
EXTENDS Pipeline, FoldProofs

\* The first rule that matches decides, and it has an action of the policy's kind.
LEMMA ActionType ==
  ASSUME NEW p, RulesOf(p) \in Seq(RuleRecords), NEW f, NEW guests
  PROVE  ActionOn(p, f, guests) \in PolicyActions \cup {NoAction}
<1> DEFINE M == Matching(p, f, guests)
<1>1. CASE Exempt(p, f) \/ M = {}
  BY <1>1 DEF ActionOn
<1>2. CASE ~ (Exempt(p, f) \/ M = {})
  <2>1. M \in SUBSET Nat /\ M # {} /\ M \subseteq DOMAIN RulesOf(p)
    BY <1>2 DEF Matching
  <2> HIDE DEF M
  <2>2. PICK i \in M : \A j \in M : i <= j
    BY <2>1, LeastNat
  <2>3. Min(M) \in M
    BY <2>1, <2>2 DEF Min
  <2>4. RulesOf(p)[Min(M)] \in RuleRecords
    <3> DEFINE rules == RulesOf(p)
    <3>1. rules \in Seq(RuleRecords) /\ Min(M) \in DOMAIN rules
      BY <2>1, <2>3
    <3> HIDE DEF rules
    <3>2. rules[Min(M)] \in RuleRecords
      BY <3>1
    <3> QED BY <3>2 DEF rules
  <2> QED BY <1>2, <2>4 DEF ActionOn, M, RuleRecords
<1> QED BY <1>1, <1>2

\* The loop of decide() over the findings, as the best action after each of them.
LEMMA DecideLoop ==
  ASSUME NEW p, RulesOf(p) \in Seq(RuleRecords), NEW fs \in Seq(FindingRecords), NEW guests
  PROVE  \E best \in [0..Len(fs) -> PolicyActions \cup {NoAction}] :
            /\ best[0] = NoAction
            /\ \A i \in 1..Len(fs) :
                 best[i] = TakeMoreSevere(best[i - 1], ActionOn(p, fs[i], guests))
            /\ Decide(p, fs, guests) = IF best[Len(fs)] = NoAction THEN "allow" ELSE best[Len(fs)]
<1> DEFINE n == Len(fs)
           V == PolicyActions \cup {NoAction}
           op(b, f) == TakeMoreSevere(b, ActionOn(p, f, guests))
           step == [x \in V \X (1..n) |-> op(x[1], fs[x[2]])]
           body(it) == [s \in SUBSET (DOMAIN fs) |->
                          IF s = {} THEN NoAction ELSE op(it[s \ {Max(s)}], fs[Max(s)])]
           it0 == CHOOSE it : it = body(it)
<1>1. n \in Nat /\ DOMAIN fs = 1..n
  OBVIOUS
<1>2. \A f : \A b \in V : op(b, f) \in V
  <2> SUFFICES ASSUME NEW b \in V, NEW f PROVE op(b, f) \in V
    OBVIOUS
  <2>1. ActionOn(p, f, guests) \in V
    BY ActionType
  <2> QED BY <2>1 DEF TakeMoreSevere
<1>3. step \in [V \X (1..n) -> V] /\ NoAction \in V
  <2> HIDE DEF op, V
  <2>1. \A x \in V \X (1..n) : x[1] \in V
    OBVIOUS
  <2>2. NoAction \in V
    BY DEF V
  <2> QED BY <1>2, <2>1, <2>2
<1>4. PICK it : IsFold(it, n, V, NoAction, step)
  <2> HIDE DEF n, V, step, op, body, it0
  <2>1. n \in Nat /\ NoAction \in V /\ step \in [V \X (1..n) -> V]
    BY <1>1, <1>3
  <2> QED BY <2>1, FoldExists
<1>5. \A s \in SUBSET (1..n) : s # {} =>
        step[<<it[s \ {Max(s)}], Max(s)>>] = op(it[s \ {Max(s)}], fs[Max(s)])
  <2> SUFFICES ASSUME NEW s \in SUBSET (1..n), s # {}
               PROVE  step[<<it[s \ {Max(s)}], Max(s)>>] = op(it[s \ {Max(s)}], fs[Max(s)])
    OBVIOUS
  <2>1. Max(s) \in s
    BY <1>1, MaxOfPart
  <2>2. Max(s) \in 1..n /\ it[s \ {Max(s)}] \in V
    BY <1>4, <2>1 DEF IsFold
  <2> HIDE DEF op, n, V
  <2> QED BY <2>2
<1>6. it = body(it)
  <2>1. \A s \in SUBSET (1..n) : it[s] = body(it)[s]
    <3> HIDE DEF op, V, step
    <3> QED BY <1>1, <1>4, <1>5 DEF IsFold
  <2>2. body(it) = [s \in SUBSET (1..n) |-> body(it)[s]]
    BY <1>1
  <2>3. it = [s \in SUBSET (1..n) |-> it[s]]
    BY <1>4 DEF IsFold
  <2> HIDE DEF op, V, step, body, n
  <2> QED BY <2>1, <2>2, <2>3
<1>7. it0 = body(it0)
  <2> HIDE DEF body
  <2> QED BY <1>6
<1> DEFINE best == [i \in 0..n |-> it0[1..i]]
<1>8. it0[{}] = NoAction
  BY <1>1, <1>7
<1>9. ASSUME NEW i \in 1..n
      PROVE  it0[1..i] = op(it0[1..(i - 1)], fs[i])
  <2>1. 1..i \in SUBSET (1..n) /\ 1..i # {} /\ i \in Nat \ {0}
    <3> HIDE DEF n
    <3>1. i \in 1..i /\ (\A j \in 1..i : j \in 1..n) /\ i \in Nat \ {0}
      BY <1>1
    <3>2. 1..i \subseteq 1..n
      BY <3>1
    <3> QED BY <3>1, <3>2
  <2>2. Max(1..i) = i /\ (1..i) \ {i} = 1..(i - 1)
    BY <2>1, MaxOfInterval
  <2>3. it0[1..i] = op(it0[(1..i) \ {Max(1..i)}], fs[Max(1..i)])
    <3> HIDE DEF op
    <3> QED BY <1>1, <1>7, <2>1
  <2> QED BY <2>2, <2>3
<1>10. FoldLeft(op, NoAction, fs) = it0[DOMAIN fs]
  BY DEF FoldLeft, MapThenFoldSet
<1> HIDE DEF it0
<1>11. best[0] = NoAction /\ best[n] = it0[1..n]
  <2>1. 1..0 = {} /\ 0 \in 0..n /\ n \in 0..n
    BY <1>1
  <2> QED BY <1>8, <2>1
<1>12. \A i \in 1..n : best[i] = op(best[i - 1], fs[i])
  <2> SUFFICES ASSUME NEW i \in 1..n PROVE best[i] = op(best[i - 1], fs[i])
    OBVIOUS
  <2>1. i \in 0..n /\ i - 1 \in 0..n
    BY <1>1
  <2>2. best[i] = it0[1..i] /\ best[i - 1] = it0[1..(i - 1)]
    BY <2>1
  <2> HIDE DEF best, op
  <2> QED BY <1>9, <2>2
<1>13. best \in [0..n -> V]
  <2> DEFINE G == {i \in Nat : i <= n => best[i] \in V}
  <2>1. 0 \in G
    BY <1>11
  <2>2. ASSUME NEW i \in Nat, i \in G PROVE i + 1 \in G
    <3>1. CASE i + 1 <= n
      <4>1. i + 1 \in 1..n /\ (i + 1) - 1 = i /\ best[i] \in V
        BY <1>1, <2>2, <3>1
      <4>2. best[i + 1] = op(best[i], fs[i + 1])
        <5> HIDE DEF best, op
        <5> QED BY <1>12, <4>1
      <4> HIDE DEF best, op, V, n
      <4> QED BY <1>2, <4>1, <4>2
    <3>2. CASE ~ (i + 1 <= n)
      BY <3>2
    <3> QED BY <3>1, <3>2
  <2>3. Nat \subseteq G
    <3> HIDE DEF G
    <3> QED BY <2>1, <2>2, Induction
  <2>4. \A i \in 0..n : best[i] \in V
    <3> HIDE DEF best, V, n
    <3> QED BY <1>1, <2>3
  <2>5. best = [i \in 0..n |-> best[i]]
    OBVIOUS
  <2> HIDE DEF best, V, n
  <2> QED BY <2>4, <2>5
<1>14. Decide(p, fs, guests) = IF best[n] = NoAction THEN "allow" ELSE best[n]
  BY <1>1, <1>10, <1>11 DEF Decide
<1> HIDE DEF best
<1> QED BY <1>11, <1>12, <1>13, <1>14

\* No two actions are as severe as each other, so that the most severe one is unique.
LEMMA MostSevereIs ==
  ASSUME NEW A \in SUBSET (PolicyActions \cup {NoAction}), NEW a \in A, a # NoAction,
         \A b \in A \ {NoAction} : Rank[a] <= Rank[b]
  PROVE  MostSevere(A) = a
<1>1. \A b, c \in PolicyActions : Rank[b] \in Nat /\ (Rank[b] = Rank[c] => b = c)
  BY DEF Rank, PolicyActions
<1>2. \A c \in A \ {NoAction} : (\A b \in A \ {NoAction} : Rank[c] <= Rank[b]) => c = a
  BY <1>1
<1> HIDE DEF Rank
<1> QED BY <1>2 DEF MostSevere

\* policy.py:134-158: whatever the findings and their order, decide() comes to the most severe
\* of what the single findings call for.
LEMMA DecideTakesMostSevere ==
  ASSUME NEW p, RulesOf(p) \in Seq(RuleRecords), NEW fs \in Seq(FindingRecords), NEW guests
  PROVE  Decide(p, fs, guests) = MostSevere(ActionsOn(p, fs, guests))
<1> DEFINE n == Len(fs)
           act(i) == ActionOn(p, fs[i], guests)
<1>1. PICK best \in [0..n -> PolicyActions \cup {NoAction}] :
         /\ best[0] = NoAction
         /\ \A i \in 1..n : best[i] = TakeMoreSevere(best[i - 1], act(i))
         /\ Decide(p, fs, guests) = IF best[n] = NoAction THEN "allow" ELSE best[n]
  BY DecideLoop
<1> DEFINE Upto(i) == /\ best[i] = NoAction => \A j \in 1..i : act(j) = NoAction
                      /\ best[i] # NoAction =>
                           /\ \E j \in 1..i : best[i] = act(j)
                           /\ \A j \in 1..i : act(j) # NoAction => Rank[best[i]] <= Rank[act(j)]
           G == {i \in Nat : i <= n => Upto(i)}
<1>2. n \in Nat /\ \A i : act(i) \in PolicyActions \cup {NoAction}
  BY ActionType
<1>3. \A a \in PolicyActions : Rank[a] \in Nat
  BY DEF Rank, PolicyActions
<1>4. NoAction \notin PolicyActions
  BY DEF Rank, PolicyActions, NoAction
<1> HIDE DEF act, n
<1>5. 0 \in G
  BY <1>1
<1>6. ASSUME NEW i \in Nat, i \in G PROVE i + 1 \in G
  <2> SUFFICES ASSUME i + 1 <= n PROVE Upto(i + 1)
    OBVIOUS
  <2>1. i + 1 \in 1..n /\ i \in 0..n /\ i + 1 \in 0..n /\ (i + 1) - 1 = i /\ Upto(i)
    BY <1>2, <1>6
  <2>2. best[i + 1] = TakeMoreSevere(best[i], act(i + 1))
    BY <1>1, <2>1
  <2>3. \A j \in 1..(i + 1) : j \in 1..i \/ j = i + 1
    OBVIOUS
  <2>4. \A j \in 1..i : j \in 1..(i + 1)
    OBVIOUS
  <2>5. best[i] \in PolicyActions \cup {NoAction}
    BY <2>1
  <2>6. CASE best[i + 1] = best[i] /\ best[i] = NoAction
    <3>1. act(i + 1) = NoAction
      BY <2>2, <2>6 DEF TakeMoreSevere
    <3> QED BY <2>1, <2>3, <2>6, <3>1
  <2>7. CASE best[i + 1] = best[i] /\ best[i] # NoAction
    <3>1. act(i + 1) # NoAction => Rank[best[i]] <= Rank[act(i + 1)]
      BY <1>2, <1>3, <2>2, <2>5, <2>7 DEF TakeMoreSevere
    <3> QED BY <2>1, <2>3, <2>4, <2>7, <3>1
  <2>8. CASE best[i + 1] # best[i]
    <3>1. /\ best[i + 1] = act(i + 1) /\ act(i + 1) # NoAction
          /\ best[i] = NoAction \/ Rank[act(i + 1)] < Rank[best[i]]
      BY <2>2, <2>8 DEF TakeMoreSevere
    <3>2. ASSUME NEW j \in 1..(i + 1), act(j) # NoAction
          PROVE  Rank[best[i + 1]] <= Rank[act(j)]
      <4>1. CASE j = i + 1
        BY <1>2, <1>3, <3>1, <3>2, <4>1
      <4>2. CASE j \in 1..i
        BY <1>2, <1>3, <2>1, <2>5, <3>1, <3>2, <4>2
      <4> QED BY <2>3, <4>1, <4>2
    <3>3. i + 1 \in 1..(i + 1)
      OBVIOUS
    <3> QED BY <3>1, <3>2, <3>3
  <2> QED BY <2>6, <2>7, <2>8
<1>7. Nat \subseteq G
  <2> HIDE DEF G
  <2> QED BY <1>5, <1>6, Induction
<1>8. Upto(n)
  BY <1>2, <1>7
<1> DEFINE A == ActionsOn(p, fs, guests)
<1>9. A = {act(i) : i \in 1..n}
  BY DEF act, n, ActionsOn
<1> HIDE DEF A
<1>10. CASE best[n] = NoAction
  <2>1. A \ {NoAction} = {}
    BY <1>8, <1>9, <1>10
  <2> QED BY <1>1, <1>10, <2>1 DEF MostSevere, A
<1>11. CASE best[n] # NoAction
  <2>1. best[n] \in A /\ \A b \in A \ {NoAction} : Rank[best[n]] <= Rank[b]
    BY <1>8, <1>9, <1>11
  <2>2. A \in SUBSET (PolicyActions \cup {NoAction})
    BY <1>2, <1>9
  <2>3. MostSevere(A) = best[n]
    BY <1>11, <2>1, <2>2, MostSevereIs
  <2> QED BY <1>1, <1>11, <2>3 DEF A
<1> QED BY <1>10, <1>11

\* After a set of checks is submitted, or what is left of it, the run waits for one of them.
LEMMA FirstWaitType ==
  ASSUME NEW checks \in SUBSET Checks
  PROVE  FirstWait(checks) \in {"conclude"} \cup Checks
<1>1. CASE checks = {}
  BY <1>1 DEF FirstWait
<1>2. CASE checks # {}
  <2>1. \E c \in checks : \A k \in checks : Turn[c] <= Turn[k]
    <3>1. CASE "window" \in checks
      BY <3>1 DEF Turn, Checks
    <3>2. CASE "window" \notin checks /\ "encoded" \in checks
      BY <3>2 DEF Turn, Checks
    <3>3. CASE "window" \notin checks /\ "encoded" \notin checks
      <4>1. checks = {"single"}
        BY <1>2, <3>3 DEF Checks
      <4> QED BY <4>1 DEF Turn
    <3> QED BY <3>1, <3>2, <3>3
  <2> QED BY <1>2, <2>1 DEF FirstWait
<1> QED BY <1>1, <1>2

\* Until the first read of the policy nothing has been decided.
LEMMA InitOrder == Init => OrderInv
<1> SUFFICES ASSUME Init PROVE OrderInv
  OBVIOUS
<1>1. 1 \in DOMAIN Policies
  BY PoliciesAssumption
<1>2. PipelineTypeOK
  BY <1>1 DEF Init, PipelineTypeOK, JobStates
<1>3. \A r \in Runs : ~RuleHit(r) /\ asked[r] = {}
  BY DEF Init, RuleHit
<1> QED BY <1>2, <1>3 DEF OrderInv, RuleHitStands

\* The result of a check, or its absence, moves the run on to a later check only.
LEMMA ContinueOrder ==
  ASSUME OrderInv, NEW r \in Runs, NEW c \in Checks, NEW hits \in Seq(FindingRecords),
         at[r] = c, Continue(r, c, hits), heard' = [q \in Runs |-> heard'[q]]
  PROVE  OrderInv'
<1>1. FirstWait({k \in asked[r] : Turn[k] > Turn[c]}) \in {"conclude"} \cup Checks
  BY FirstWaitType DEF OrderInv, PipelineTypeOK
<1>2. PipelineTypeOK'
  <2>1. findings' \in [Runs -> Seq(FindingRecords)]
    <3>1. findings[r] \o hits \in Seq(FindingRecords)
      BY DEF OrderInv, PipelineTypeOK
    <3> QED BY <3>1 DEF OrderInv, PipelineTypeOK, Continue
  <2> QED BY <1>1, <2>1 DEF OrderInv, PipelineTypeOK, Continue
<1>3. ~RuleHit(r)
  BY DEF OrderInv, Checks
<1>4. ~RuleHit(r)'
  BY <1>3 DEF RuleHit, Continue
<1>5. \A q \in Runs \ {r} : /\ RuleHit(q)' => RuleHit(q)
                            /\ at'[q] = at[q] /\ decision'[q] = decision[q]
                            /\ asked'[q] = asked[q] /\ ruled'[q] = ruled[q]
  BY DEF RuleHit, Continue, OrderInv, PipelineTypeOK
<1>6. at'[r] \in {"conclude"} \cup Checks
  BY <1>1 DEF Continue, OrderInv, PipelineTypeOK
<1> QED BY <1>2, <1>4, <1>5, <1>6 DEF OrderInv, RuleHitStands, Checks

\* One case per action.  A run whose rules found something goes straight to its end.
LEMMA NextOrder == OrderInv /\ [Next]_vars => OrderInv'
<1> SUFFICES ASSUME OrderInv, [Next]_vars PROVE OrderInv'
  OBVIOUS
<1> USE DEF OrderInv, PipelineTypeOK, RuleHitStands, RuleHit
<1>1. ASSUME NEW r \in Runs, Rules(r) PROVE OrderInv'
  <2> DEFINE d == IF input[r].found = <<>> THEN NoAction ELSE Judge(r, input[r].found)
  <2>1. /\ decision' = [decision EXCEPT ![r] = d] /\ ruled' = [ruled EXCEPT ![r] = d]
        /\ at' = [at EXCEPT ![r] = IF Open(d) THEN "split" ELSE "conclude"]
        /\ at[r] = "rules" /\ findings' = [findings EXCEPT ![r] = input[r].found]
        /\ UNCHANGED <<version, input, asked, job, reply, heard>>
    BY <1>1 DEF Rules
  <2> HIDE DEF d
  <2>2. PipelineTypeOK'
    <3>1. input[r].found \in Seq(FindingRecords)
      BY InputsAssumption
    <3> QED BY <2>1, <3>1
  <2>3. Open(d) <=> d \in {NoAction, "allow"}
    BY DEF Open
  <2> QED BY <2>1, <2>2, <2>3
<1>2. ASSUME NEW r \in Runs, Across(r) PROVE OrderInv'
  <2> DEFINE d == IF input[r].split = <<>> THEN decision[r] ELSE Judge(r, input[r].split)
  <2>1. /\ decision' = [decision EXCEPT ![r] = d]
        /\ at' = [at EXCEPT ![r] = IF Open(d) THEN "submit" ELSE "conclude"]
        /\ at[r] = "split"
        /\ UNCHANGED <<version, input, findings, asked, job, reply, ruled, heard>>
    BY <1>2 DEF Across
  <2> HIDE DEF d
  <2>2. PipelineTypeOK'
    BY <2>1
  <2> QED BY <2>1, <2>2
<1>3. ASSUME NEW r \in Runs, Submit(r) PROVE OrderInv'
  <2> DEFINE worth == IF policy.trigger = "never" THEN {} ELSE input[r].gates
  <2>1. /\ asked' = [asked EXCEPT ![r] = worth]
        /\ job' = [job EXCEPT ![r] = [c \in Checks |-> IF c \in worth THEN "queued" ELSE "none"]]
        /\ at' = [at EXCEPT ![r] = FirstWait(worth)]
        /\ at[r] = "submit"
        /\ UNCHANGED <<version, input, decision, findings, reply, ruled, heard>>
    BY <1>3 DEF Submit
  <2>2. worth \in SUBSET Checks
    BY InputsAssumption
  <2> HIDE DEF worth
  <2>3. FirstWait(worth) \in {"conclude"} \cup Checks
    BY <2>2, FirstWaitType
  <2>4. PipelineTypeOK'
    BY <2>1, <2>2, <2>3 DEF JobStates
  <2> QED BY <2>1, <2>3, <2>4 DEF Checks
<1>4. ASSUME NEW r \in Runs, NEW c \in Checks, Hear(r, c) PROVE OrderInv'
  <2>1. reply[r][c] \in Seq(FindingRecords)
    OBVIOUS
  <2>2. heard' = [q \in Runs |-> heard'[q]]
    BY <1>4 DEF Hear
  <2> QED BY <1>4, <2>1, <2>2, ContinueOrder DEF Hear
<1>5. ASSUME NEW r \in Runs, NEW c \in Checks, Miss(r, c) PROVE OrderInv'
  <2>1. <<>> \in Seq(FindingRecords)
    OBVIOUS
  <2>2. heard' = [q \in Runs |-> heard'[q]]
    BY <1>5 DEF Miss
  <2> QED BY <1>5, <2>1, <2>2, ContinueOrder DEF Miss
<1>6. ASSUME NEW r \in Runs, Conclude(r) PROVE OrderInv'
  <2> DEFINE d == IF decision[r] = NoAction THEN Judge(r, findings[r]) ELSE decision[r]
  <2>1. /\ decision' = [decision EXCEPT ![r] = d] /\ at' = [at EXCEPT ![r] = "end"]
        /\ at[r] = "conclude"
        /\ RuleHit(r) => d = decision[r]
        /\ UNCHANGED <<version, input, findings, asked, job, reply, ruled, heard>>
    BY <1>6 DEF Conclude
  <2> HIDE DEF d
  <2>2. PipelineTypeOK'
    BY <2>1
  <2> QED BY <2>1, <2>2
<1>7. CASE StartJob
  BY <1>7 DEF StartJob, JobStates
<1>8. ASSUME NEW r \in Runs, NEW c \in Checks, FinishJob(r, c) PROVE OrderInv'
  <2>1. PICK s \in {"answered", "failed"} : job' = [job EXCEPT ![r][c] = s]
    BY <1>8 DEF FinishJob
  <2>2. UNCHANGED <<version, input, at, decision, findings, asked, ruled, heard>>
    BY <1>8 DEF FinishJob
  <2>3. reply' \in [Runs -> [Checks -> Seq(FindingRecords)]]
    <3>1. CASE UNCHANGED reply
      BY <3>1
    <3>2. ASSUME NEW hits \in Replies[c], reply' = [reply EXCEPT ![r][c] = hits]
          PROVE  reply' \in [Runs -> [Checks -> Seq(FindingRecords)]]
      <4>1. hits \in Seq(FindingRecords)
        BY RepliesAssumption
      <4> QED BY <3>2, <4>1
    <3> QED BY <1>8, <3>1, <3>2 DEF FinishJob
  <2> QED BY <2>1, <2>2, <2>3 DEF JobStates
<1>9. CASE Reload
  BY <1>9 DEF Reload
<1>10. CASE UNCHANGED vars
  BY <1>10 DEF vars
<1> QED
  BY <1>1, <1>2, <1>3, <1>4, <1>5, <1>6, <1>7, <1>8, <1>9, <1>10 DEF Next, RunStep

\* policy.py:134-158: a policy that is asked about no finding at all allows the message.
LEMMA NothingIsAllowed ==
  ASSUME NEW p, NEW guests
  PROVE  Decide(p, <<>>, guests) = "allow"
<1> DEFINE op(b, f) == TakeMoreSevere(b, ActionOn(p, f, guests))
<1>1. FoldLeft(op, NoAction, <<>>) = NoAction
  <2> DEFINE body(it) == [s \in SUBSET (DOMAIN <<>>) |->
                            IF s = {} THEN NoAction
                            ELSE op(it[s \ {Max(s)}], <<>>[Max(s)])]
             it0 == CHOOSE it : it = body(it)
  <2>1. SUBSET (DOMAIN <<>>) = {{}}
    OBVIOUS
  <2>2. \E it : it = body(it)
    <3> DEFINE it1 == [s \in SUBSET (DOMAIN <<>>) |-> NoAction]
    <3>1. it1 = body(it1)
      BY <2>1
    <3> QED BY <3>1
  <2>3. it0 = body(it0)
    <3> HIDE DEF body
    <3> QED BY <2>2
  <2>4. it0[{}] = NoAction
    BY <2>1, <2>3
  <2>5. FoldLeft(op, NoAction, <<>>) = it0[DOMAIN <<>>]
    BY DEF FoldLeft, MapThenFoldSet
  <2>6. DOMAIN <<>> = {}
    OBVIOUS
  <2> QED BY <2>4, <2>5, <2>6
<1> QED BY <1>1 DEF Decide

\* decide() always answers with an action.
LEMMA DecideDecides ==
  ASSUME NEW p, NEW fs, NEW guests
  PROVE  Decide(p, fs, guests) # NoAction
BY DEF Decide, NoAction

\* A run that a step leaves alone agrees with the triage lane as before.
LEMMA LeftAlone ==
  ASSUME NEW q \in Runs, LanesAgree(q), version' = version, input' = input, at'[q] = at[q],
         decision'[q] = decision[q], findings'[q] = findings[q], asked'[q] = asked[q]
  PROVE  LanesAgree(q)'
BY DEF LanesAgree, Alone, Judge, policy, Open

\* A result that is waited for, or its absence, belongs to a run that has asked the model.
LEMMA ContinueAgrees ==
  ASSUME OrderInv, NEW r \in Runs, NEW c \in Checks, NEW hits, at[r] = c, LanesAgree(r),
         Continue(r, c, hits)
  PROVE  LanesAgree(r)'
<1>1. asked'[r] = asked[r] /\ asked[r] # {}
  BY DEF LanesAgree, Continue
<1>2. at'[r] \in {"conclude"} \cup Checks
  <2>1. FirstWait({k \in asked[r] : Turn[k] > Turn[c]}) \in {"conclude"} \cup Checks
    BY FirstWaitType DEF OrderInv, PipelineTypeOK
  <2> QED BY <2>1 DEF Continue, OrderInv, PipelineTypeOK
<1> QED BY <1>1, <1>2 DEF LanesAgree, Checks

\* One case per action that runs under the first policy.  The three that decide by rules are
\* the three places at which the lanes could part.
LEMMA NextAgrees ==
  ASSUME OrderInv, Next, version' = version, \A r \in Runs : LanesAgree(r), NEW q \in Runs
  PROVE  LanesAgree(q)'
<1> USE DEF OrderInv, PipelineTypeOK
<1>1. ASSUME NEW r \in Runs, Rules(r) PROVE LanesAgree(q)'
  <2>1. CASE q # r
    BY <1>1, <2>1, LeftAlone DEF Rules
  <2>2. CASE q = r
    <3>1. /\ decision'[r] = Alone(r) /\ findings'[r] = input[r].found
          /\ at'[r] = IF Open(Alone(r)) THEN "split" ELSE "conclude"
          /\ asked'[r] = {} /\ input' = input
      <4>1. /\ decision' = [decision EXCEPT ![r] = Alone(r)]
            /\ findings' = [findings EXCEPT ![r] = input[r].found]
            /\ at' = [at EXCEPT ![r] = IF Open(Alone(r)) THEN "split" ELSE "conclude"]
            /\ asked' = asked /\ input' = input /\ asked[r] = {}
        BY <1>1 DEF Rules, Alone
      <4> QED BY <4>1
    <3>2. Alone(r)' = Alone(r) /\ policy' = policy
      BY <3>1 DEF Alone, Judge, policy
    <3>3. Alone(r) = NoAction => input[r].found = <<>>
      BY DecideDecides DEF Alone, Judge
    <3>4. Alone(r) \in Removing => FastCheck(policy, input[r]) = Alone(r)
      BY DEF FastCheck, NotRemoving, Alone, Judge
    <3>5. Open(Alone(r)) => Open(decision[r])'
      BY <3>1 DEF Open
    <3> QED BY <2>2, <3>1, <3>2, <3>3, <3>4, <3>5 DEF LanesAgree, Checks
  <2> QED BY <2>1, <2>2
<1>2. ASSUME NEW r \in Runs, Across(r) PROVE LanesAgree(q)'
  <2>1. CASE q # r
    BY <1>2, <2>1, LeftAlone DEF Across
  <2>2. CASE q = r
    <3> DEFINE d == IF input[r].split = <<>> THEN decision[r] ELSE Judge(r, input[r].split)
    <3>1. /\ decision'[r] = d /\ at'[r] = IF Open(d) THEN "submit" ELSE "conclude"
          /\ findings' = findings /\ asked' = asked /\ input' = input
      BY <1>2 DEF Across
    <3>2. /\ decision[r] = Alone(r) /\ Open(decision[r])
          /\ decision[r] = NoAction => findings[r] = <<>>
      BY <1>2 DEF LanesAgree, Across
    <3>3. d = NoAction => findings[r] = <<>>
      BY <3>2, DecideDecides DEF Judge
    <3>4. d \in Removing => FastCheck(policy, input[r]) = d
      BY <3>2 DEF FastCheck, NotRemoving, Alone, Judge, Open, Removing, NoAction
    <3>5. policy' = policy
      BY DEF policy
    <3> HIDE DEF d
    <3>6. Open(d) => Open(decision[r])'
      BY <3>1 DEF Open
    <3> QED BY <2>2, <3>1, <3>3, <3>4, <3>5, <3>6 DEF LanesAgree, Checks
  <2> QED BY <2>1, <2>2
<1>3. ASSUME NEW r \in Runs, Submit(r) PROVE LanesAgree(q)'
  <2>1. CASE q # r
    BY <1>3, <2>1, LeftAlone DEF Submit
  <2>2. CASE q = r
    <3> DEFINE worth == IF policy.trigger = "never" THEN {} ELSE input[r].gates
    <3>1. /\ asked'[r] = worth /\ at'[r] = FirstWait(worth)
          /\ decision' = decision /\ findings' = findings
      BY <1>3 DEF Submit
    <3>2. worth \in SUBSET Checks
      BY InputsAssumption
    <3> HIDE DEF worth
    <3>3. /\ FirstWait(worth) \in {"conclude"} \cup Checks
          /\ worth = {} => FirstWait(worth) = "conclude"
      BY <3>2, FirstWaitType DEF FirstWait
    <3>4. /\ decision[r] = NoAction => findings[r] = <<>>
          /\ decision[r] \notin Removing
      BY <1>3 DEF LanesAgree, Submit, Open, Removing, NoAction
    <3> QED BY <2>2, <3>1, <3>3, <3>4 DEF LanesAgree, Checks
  <2> QED BY <2>1, <2>2
<1>4. ASSUME NEW r \in Runs, NEW c \in Checks, NEW hits, at[r] = c, Continue(r, c, hits)
      PROVE  LanesAgree(q)'
  <2>1. CASE q # r
    BY <1>4, <2>1, LeftAlone DEF Continue
  <2>2. CASE q = r
    BY <1>4, <2>2, ContinueAgrees
  <2> QED BY <2>1, <2>2
<1>5. ASSUME NEW r \in Runs, NEW c \in Checks, Hear(r, c) \/ Miss(r, c) PROVE LanesAgree(q)'
  BY <1>4, <1>5 DEF Hear, Miss
<1>6. ASSUME NEW r \in Runs, Conclude(r) PROVE LanesAgree(q)'
  <2>1. CASE q # r
    BY <1>6, <2>1, LeftAlone DEF Conclude
  <2>2. CASE q = r
    <3> DEFINE d == IF decision[r] = NoAction THEN Judge(r, findings[r]) ELSE decision[r]
    <3>1. /\ decision'[r] = d /\ at[r] = "conclude" /\ at'[r] = "end"
          /\ asked' = asked /\ input' = input
      BY <1>6 DEF Conclude
    <3>2. policy' = policy
      BY DEF policy
    <3>3. asked[r] = {} /\ decision[r] = NoAction => d = "allow"
      BY <3>1, NothingIsAllowed DEF LanesAgree, Judge
    <3> HIDE DEF d
    <3>4. asked[r] = {} /\ d \in Removing => FastCheck(policy, input[r]) = d
      <4>1. asked[r] = {} /\ d \in Removing => decision[r] # NoAction
        BY <3>3 DEF Removing
      <4>2. decision[r] # NoAction => d = decision[r]
        BY DEF d
      <4> QED BY <3>1, <4>1, <4>2 DEF LanesAgree
    <3> QED BY <2>2, <3>1, <3>2, <3>4 DEF LanesAgree, Checks
  <2> QED BY <2>1, <2>2
<1>7. CASE StartJob
  BY <1>7, LeftAlone DEF StartJob
<1>8. ASSUME NEW r \in Runs, NEW c \in Checks, FinishJob(r, c) PROVE LanesAgree(q)'
  BY <1>8, LeftAlone DEF FinishJob
<1>9. CASE Reload
  BY <1>9, LeftAlone DEF Reload
<1> QED
  BY <1>1, <1>2, <1>3, <1>5, <1>6, <1>7, <1>8, <1>9 DEF Next, RunStep

\* Sequences without repetitions and without a common element have none when joined either.
LEMMA JoinedOnce ==
  ASSUME NEW A, NEW B, A \cap B = {}, NEW s \in Seq(A), NEW t \in Seq(B),
         IsInjective(s), IsInjective(t)
  PROVE  s \o t \in Seq(A \cup B) /\ IsInjective(s \o t)
<1> DEFINE u == s \o t
<1>1. u \in Seq(A \cup B)
  <2>1. s \in Seq(A \cup B) /\ t \in Seq(A \cup B)
    OBVIOUS
  <2> QED BY <2>1
<1>2. Len(s) \in Nat /\ DOMAIN s = 1..Len(s) /\ DOMAIN t = 1..Len(t) /\ Len(t) \in Nat
  OBVIOUS
<1>3. ASSUME NEW i \in DOMAIN u
      PROVE  \/ i \in DOMAIN s /\ u[i] = s[i] /\ s[i] \in A
             \/ i \in Nat /\ i - Len(s) \in DOMAIN t /\ u[i] = t[i - Len(s)]
                /\ t[i - Len(s)] \in B
  <2>1. i \in 1..Len(s) + Len(t)
    OBVIOUS
  <2>2. CASE i <= Len(s)
    BY <1>2, <2>1, <2>2
  <2>3. CASE ~ (i <= Len(s))
    <3>1. i - Len(s) \in DOMAIN t
      BY <1>2, <2>1, <2>3
    <3> QED BY <1>2, <2>1, <2>3, <3>1
  <2> QED BY <2>2, <2>3
<1> HIDE DEF u
<1>4. ASSUME NEW i \in DOMAIN u, NEW j \in DOMAIN u, u[i] = u[j] PROVE i = j
  <2>1. CASE u[i] \in A
    <3>1. i \in DOMAIN s /\ u[i] = s[i] /\ j \in DOMAIN s /\ u[j] = s[j]
      BY <1>3, <1>4, <2>1
    <3> QED BY <1>4, <3>1 DEF IsInjective
  <2>2. CASE u[i] \in B
    <3>1. /\ i \in Nat /\ i - Len(s) \in DOMAIN t /\ u[i] = t[i - Len(s)]
          /\ j \in Nat /\ j - Len(s) \in DOMAIN t /\ u[j] = t[j - Len(s)]
      BY <1>3, <1>4, <2>2
    <3>2. i - Len(s) = j - Len(s)
      BY <1>4, <3>1 DEF IsInjective
    <3> QED BY <1>2, <3>1, <3>2
  <2> QED BY <1>3, <2>1, <2>2
<1> QED BY <1>1, <1>4 DEF IsInjective, u

\* What is left of such a sequence behind its head has no repetitions, and not the head.
LEMMA TailOnce ==
  ASSUME NEW A, NEW s \in Seq(A), s # <<>>, IsInjective(s)
  PROVE  /\ Head(s) \in A /\ Tail(s) \in Seq(A) /\ IsInjective(Tail(s))
         /\ \A i \in DOMAIN Tail(s) : /\ Tail(s)[i] # Head(s)
                                      /\ \E j \in DOMAIN s : Tail(s)[i] = s[j]
<1>1. /\ Len(s) \in Nat \ {0} /\ DOMAIN s = 1..Len(s) /\ Head(s) = s[1]
      /\ Tail(s) \in Seq(A) /\ DOMAIN Tail(s) = 1..Len(s) - 1
      /\ \A i \in 1..Len(s) - 1 : Tail(s)[i] = s[i + 1]
  OBVIOUS
<1>2. ASSUME NEW i \in DOMAIN Tail(s)
      PROVE  i \in Nat /\ i + 1 \in DOMAIN s /\ i + 1 # 1 /\ Tail(s)[i] = s[i + 1]
  BY <1>1
<1>3. Head(s) \in A /\ 1 \in DOMAIN s
  BY <1>1
<1>4. \A i \in DOMAIN Tail(s) : Tail(s)[i] # Head(s)
  BY <1>1, <1>2, <1>3 DEF IsInjective
<1>5. IsInjective(Tail(s))
  <2> SUFFICES ASSUME NEW i \in DOMAIN Tail(s), NEW j \in DOMAIN Tail(s),
                      Tail(s)[i] = Tail(s)[j]
               PROVE  i = j
    BY DEF IsInjective
  <2>1. i + 1 = j + 1
    BY <1>2 DEF IsInjective
  <2> QED BY <1>2, <2>1
<1> QED BY <1>1, <1>2, <1>3, <1>4, <1>5

\* A task of the executor is queued once, by the run that asks for the check.
LEMMA TasksOfRun ==
  ASSUME NEW r, NEW checks \in SUBSET Checks
  PROVE  Tasks(r, checks) \in Seq({r} \X checks) /\ IsInjective(Tasks(r, checks))
<1> DEFINE Kind(c) == {r} \X (checks \cap {c})
<1>1. \A c : Task(r, c, checks) \in Seq(Kind(c)) /\ IsInjective(Task(r, c, checks))
  <2> SUFFICES ASSUME NEW c
               PROVE  Task(r, c, checks) \in Seq(Kind(c)) /\ IsInjective(Task(r, c, checks))
    OBVIOUS
  <2>1. CASE c \in checks
    <3>1. <<r, c>> \in Kind(c)
      BY <2>1
    <3>2. Task(r, c, checks) = << <<r, c>> >>
      BY <2>1 DEF Task
    <3>3. << <<r, c>> >> \in Seq(Kind(c)) /\ DOMAIN << <<r, c>> >> = {1}
      BY <3>1
    <3> QED BY <3>2, <3>3 DEF IsInjective
  <2>2. CASE c \notin checks
    <3>1. Task(r, c, checks) = <<>>
      BY <2>2 DEF Task
    <3>2. <<>> \in Seq(Kind(c)) /\ DOMAIN <<>> = {}
      OBVIOUS
    <3> QED BY <3>1, <3>2 DEF IsInjective
  <2> QED BY <2>1, <2>2
<1> DEFINE s == Task(r, "single", checks)
           w == Task(r, "window", checks)
           e == Task(r, "encoded", checks)
           SW == Kind("single") \cup Kind("window")
<1>2. Kind("single") \cap Kind("window") = {} /\ SW \cap Kind("encoded") = {}
  OBVIOUS
<1>3. SW \cup Kind("encoded") = {r} \X checks
  BY DEF Checks
<1>4. Tasks(r, checks) = (s \o w) \o e
  BY DEF Tasks
<1> HIDE DEF Kind
<1>5. /\ s \in Seq(Kind("single")) /\ IsInjective(s) /\ w \in Seq(Kind("window"))
      /\ IsInjective(w) /\ e \in Seq(Kind("encoded")) /\ IsInjective(e)
  BY <1>1
<1> HIDE DEF s, w, e
<1>6. s \o w \in Seq(SW) /\ IsInjective(s \o w)
  BY <1>2, <1>5, JoinedOnce
<1> HIDE DEF SW
<1>7. (s \o w) \o e \in Seq(SW \cup Kind("encoded")) /\ IsInjective((s \o w) \o e)
  BY <1>2, <1>5, <1>6, JoinedOnce
<1> QED BY <1>3, <1>4, <1>7

\* The queue of the executor and the futures go together.
LEMMA NextTasks ==
  ASSUME OrderInv, TasksWait, \A r \in Runs : NothingAgainst(r), [Next]_vars
  PROVE  TasksWait'
<1> USE DEF OrderInv, PipelineTypeOK, TasksWait
<1>1. ASSUME NEW r \in Runs, Submit(r) PROVE TasksWait'
  <2> DEFINE worth == IF policy.trigger = "never" THEN {} ELSE input[r].gates
             new == Tasks(r, worth)
  <2>1. /\ job' = [job EXCEPT ![r] = [c \in Checks |-> IF c \in worth THEN "queued" ELSE "none"]]
        /\ tasks' = tasks \o new
        /\ at[r] = "submit"
    BY <1>1 DEF Submit
  <2>2. worth \in SUBSET Checks
    BY InputsAssumption
  <2> HIDE DEF worth
  <2>3. new \in Seq({r} \X worth) /\ IsInjective(new)
    BY <2>2, TasksOfRun
  <2> HIDE DEF new
  <2> DEFINE Others == (Runs \ {r}) \X Checks
  <2>4. tasks \in Seq(Others)
    <3>1. \A c \in Checks : job[r][c] = "none"
      BY <2>1 DEF NothingAgainst
    <3>2. ASSUME NEW i \in DOMAIN tasks PROVE tasks[i] \in Others
      <4>1. tasks[i] \in Runs \X Checks /\ job[tasks[i][1]][tasks[i][2]] = "queued"
        OBVIOUS
      <4> QED BY <3>1, <4>1
    <3>3. Len(tasks) \in Nat /\ DOMAIN tasks = 1..Len(tasks)
      OBVIOUS
    <3>4. tasks = [i \in DOMAIN tasks |-> tasks[i]]
      OBVIOUS
    <3> HIDE DEF Others
    <3>5. tasks \in [1..Len(tasks) -> Others]
      BY <3>2, <3>3, <3>4
    <3> QED BY <3>3, <3>5, IsSequence
  <2>5. tasks' \in Seq(Others \cup {r} \X worth) /\ IsInjective(tasks')
    <3>1. Others \cap ({r} \X worth) = {}
      OBVIOUS
    <3> HIDE DEF Others
    <3> QED BY <2>1, <2>3, <2>4, <3>1, JoinedOnce
  <2>6. tasks' \in Seq(Runs \X Checks)
    <3>1. Others \cup {r} \X worth \subseteq Runs \X Checks
      BY <2>2
    <3> HIDE DEF Others
    <3> QED BY <2>5, <3>1, SeqMonotonic
  <2>7. \A i \in DOMAIN tasks' : job'[tasks'[i][1]][tasks'[i][2]] = "queued"
    <3> SUFFICES ASSUME NEW i \in DOMAIN tasks'
                 PROVE  job'[tasks'[i][1]][tasks'[i][2]] = "queued"
      OBVIOUS
    <3>1. tasks'[i] \in Others \cup {r} \X worth
      BY <2>5
    <3>2. CASE tasks'[i] \in Others
      <4>1. i \in DOMAIN tasks /\ tasks'[i] = tasks[i]
        <5>1. /\ DOMAIN tasks = 1..Len(tasks) /\ Len(tasks) \in Nat
              /\ DOMAIN new = 1..Len(new) /\ Len(new) \in Nat
          BY <2>3
        <5>2. i \in 1..Len(tasks) + Len(new)
          BY <2>1, <2>3, <2>4
        <5>3. ASSUME ~ (i <= Len(tasks)) PROVE FALSE
          <6>1. i - Len(tasks) \in DOMAIN new /\ tasks'[i] = new[i - Len(tasks)]
            BY <2>1, <2>3, <2>4, <5>1, <5>2, <5>3
          <6> QED BY <2>3, <3>2, <6>1
        <5> QED BY <2>1, <2>3, <2>4, <5>1, <5>2, <5>3
      <4>2. tasks[i] \in Runs \X Checks /\ job[tasks[i][1]][tasks[i][2]] = "queued"
        BY <4>1
      <4> QED BY <2>1, <3>2, <4>1, <4>2
    <3>3. CASE tasks'[i] \in {r} \X worth
      <4>1. PICK c \in worth : tasks'[i] = <<r, c>>
        BY <3>3
      <4>2. tasks'[i][1] = r /\ tasks'[i][2] = c /\ c \in Checks
        BY <2>2, <4>1
      <4> QED BY <2>1, <4>2
    <3> QED BY <3>1, <3>2, <3>3
  <2> QED BY <2>5, <2>6, <2>7
<1>2. CASE StartJob
  <2>1. /\ tasks # <<>> /\ tasks' = Tail(tasks)
        /\ job' = [job EXCEPT ![Head(tasks)[1]][Head(tasks)[2]] = "running"]
    BY <1>2 DEF StartJob
  <2>2. /\ Head(tasks) \in Runs \X Checks /\ tasks' \in Seq(Runs \X Checks)
        /\ IsInjective(tasks')
        /\ \A i \in DOMAIN tasks' : /\ tasks'[i] # Head(tasks)
                                    /\ \E j \in DOMAIN tasks : tasks'[i] = tasks[j]
    BY <2>1, TailOnce
  <2>3. PICK r \in Runs, d \in Checks : Head(tasks) = <<r, d>>
    BY <2>2
  <2>4. job' = [job EXCEPT ![r][d] = "running"]
    <3>1. Head(tasks)[1] = r /\ Head(tasks)[2] = d
      BY <2>3
    <3> QED BY <2>1, <3>1
  <2>5. \A i \in DOMAIN tasks' : job'[tasks'[i][1]][tasks'[i][2]] = "queued"
    <3> SUFFICES ASSUME NEW i \in DOMAIN tasks'
                 PROVE  job'[tasks'[i][1]][tasks'[i][2]] = "queued"
      OBVIOUS
    <3>1. PICK j \in DOMAIN tasks : tasks'[i] = tasks[j]
      BY <2>2
    <3>2. tasks[j] \in Runs \X Checks /\ job[tasks[j][1]][tasks[j][2]] = "queued"
      OBVIOUS
    <3>3. PICK q \in Runs, c \in Checks : tasks'[i] = <<q, c>>
      BY <3>1, <3>2
    <3>4. job[q][c] = "queued"
      <4>1. tasks[j][1] = q /\ tasks[j][2] = c
        BY <3>1, <3>3
      <4> QED BY <3>2, <4>1
    <3>5. q # r \/ c # d
      BY <2>2, <2>3, <3>3
    <3>6. job'[q][c] = "queued"
      BY <2>4, <3>4, <3>5
    <3>7. tasks'[i][1] = q /\ tasks'[i][2] = c
      BY <3>3
    <3> QED BY <3>6, <3>7
  <2> QED BY <2>2, <2>5
<1>3. ASSUME NEW r \in Runs, NEW c \in Checks, FinishJob(r, c) PROVE TasksWait'
  <2>1. PICK s \in {"answered", "failed"} : job' = [job EXCEPT ![r][c] = s]
    BY <1>3 DEF FinishJob
  <2>2. tasks' = tasks /\ job[r][c] = "running"
    BY <1>3 DEF FinishJob
  <2>3. \A i \in DOMAIN tasks : job'[tasks[i][1]][tasks[i][2]] = "queued"
    <3> SUFFICES ASSUME NEW i \in DOMAIN tasks
                 PROVE  job'[tasks[i][1]][tasks[i][2]] = "queued"
      OBVIOUS
    <3>1. tasks[i] \in Runs \X Checks /\ job[tasks[i][1]][tasks[i][2]] = "queued"
      OBVIOUS
    <3> QED BY <2>1, <2>2, <3>1
  <2> QED BY <2>2, <2>3
<1>4. UNCHANGED <<job, tasks>> => TasksWait'
  OBVIOUS
<1> QED
  BY <1>1, <1>2, <1>3, <1>4 DEF Next, RunStep, Rules, Across, Hear, Miss, Continue, Conclude,
     Reload, vars

\* Findings are allowed when the policy in force has allowed them.
LEMMA JudgedAllowed ==
  ASSUME PipelineTypeOK, NEW r \in Runs, NEW fs, fs = <<>> \/ Judge(r, fs) = "allow"
  PROVE  Allows(r, fs)
<1>1. version \in 1..version
  BY PoliciesAssumption DEF PipelineTypeOK
<1>2. Decide(Policies[version], fs, input[r].guests) = "allow"
  BY NothingIsAllowed DEF Judge, policy
<1> QED BY <1>1, <1>2 DEF Allows

\* Findings that were allowed stay so: an earlier policy has said it.
LEMMA AllowedOnce ==
  ASSUME PipelineTypeOK, NEW q \in Runs, NEW fs, Allows(q, fs), input' = input,
         version' \in {version, version + 1}
  PROVE  Allows(q, fs)'
<1>1. 1..version \subseteq 1..version'
  BY PoliciesAssumption DEF PipelineTypeOK
<1> QED BY <1>1 DEF Allows

\* A decision to allow is one in which nothing calls for another action.
LEMMA MostSevereAllows ==
  ASSUME NEW A \in SUBSET (PolicyActions \cup {NoAction})
  PROVE  MostSevere(A) = "allow" <=> A \subseteq {NoAction, "allow"}
<1>1. \A a \in PolicyActions : Rank[a] \in 1..6 /\ (a # "allow" => Rank[a] < Rank["allow"])
  BY DEF Rank, PolicyActions
<1>2. CASE A \ {NoAction} = {}
  BY <1>2 DEF MostSevere
<1>3. CASE A \ {NoAction} # {}
  <2> DEFINE T == {Rank[a] : a \in A \ {NoAction}}
  <2>1. T \in SUBSET Nat /\ T # {}
    BY <1>1, <1>3
  <2>2. PICK n \in T : \A m \in T : n <= m
    BY <2>1, LeastNat
  <2>3. PICK a \in A \ {NoAction} : n = Rank[a]
    BY <2>2
  <2>4. \A b \in A \ {NoAction} : Rank[a] <= Rank[b]
    BY <2>2, <2>3
  <2>5. MostSevere(A) = a
    BY <2>3, <2>4, MostSevereIs
  <2>6. CASE a = "allow"
    <3>1. \A b \in A \ {NoAction} : b = "allow"
      BY <1>1, <2>4, <2>6
    <3> QED BY <2>5, <2>6, <3>1
  <2>7. CASE a # "allow"
    BY <2>3, <2>5, <2>7
  <2> QED BY <2>6, <2>7
<1> QED BY <1>2, <1>3

\* policy.py:134-158: findings that are allowed together with others are allowed alone.
LEMMA AllowedInPart ==
  ASSUME NEW p, RulesOf(p) \in Seq(RuleRecords), NEW guests,
         NEW fs \in Seq(FindingRecords), NEW gs \in Seq(FindingRecords),
         Decide(p, fs \o gs, guests) = "allow"
  PROVE  Decide(p, gs, guests) = "allow"
<1> DEFINE hs == fs \o gs
<1>1. hs \in Seq(FindingRecords)
  OBVIOUS
<1>2. ActionsOn(p, gs, guests) \subseteq ActionsOn(p, hs, guests)
  <2>1. \A i \in DOMAIN gs : Len(fs) + i \in DOMAIN hs /\ hs[Len(fs) + i] = gs[i]
    OBVIOUS
  <2> HIDE DEF hs
  <2> QED BY <2>1 DEF ActionsOn
<1>3. ActionsOn(p, hs, guests) \in SUBSET (PolicyActions \cup {NoAction})
  BY ActionType DEF ActionsOn
<1> HIDE DEF hs
<1>4. ActionsOn(p, hs, guests) \subseteq {NoAction, "allow"}
  BY <1>1, <1>3, DecideTakesMostSevere, MostSevereAllows DEF hs
<1>5. MostSevere(ActionsOn(p, gs, guests)) = "allow"
  BY <1>2, <1>3, <1>4, MostSevereAllows
<1> QED BY <1>5, DecideTakesMostSevere

\* The rules of every policy that may be in force are typed as the file was validated to be.
LEMMA PolicyRules ==
  ASSUME NEW v \in DOMAIN Policies
  PROVE  RulesOf(Policies[v]) \in Seq(RuleRecords)
<1>1. Policies[v].overrides \in Seq(RuleRecords) /\ Policies[v].rules \in Seq(RuleRecords)
  BY PoliciesAssumption
<1> QED BY <1>1 DEF RulesOf

\* After the result of a check, or its absence, a decision that leaves the message standing
\* was one before, and the result does not speak against the message.
LEMMA OutcomeOpen ==
  ASSUME PipelineTypeOK, NEW r \in Runs, NothingAgainst(r), NEW c \in Checks, at[r] = c,
         NEW hits \in Seq(FindingRecords), Open(Outcome(r, c, hits))
  PROVE  Open(decision[r]) /\ Allows(r, hits)
<1>1. Judge(r, hits) # NoAction /\ Judge(r, findings[r] \o hits) # NoAction
  BY DecideDecides DEF Judge
<1>2. Open(Judge(r, hits)) => Allows(r, hits)
  BY <1>1, JudgedAllowed DEF Open
<1>3. hits = <<>> => Allows(r, hits)
  BY JudgedAllowed
<1>4. CASE c = "window"
  BY <1>2, <1>3, <1>4 DEF Outcome, NothingAgainst
<1>5. CASE c = "encoded"
  <2>1. Outcome(r, c, hits) = IF hits # <<>> /\ Open(decision[r]) THEN Judge(r, hits)
                              ELSE decision[r]
    BY <1>5 DEF Outcome, DecideEncoded
  <2> QED BY <1>2, <1>3, <2>1
<1>6. CASE c = "single"
  <2>1. Outcome(r, c, hits) = IF Open(decision[r]) THEN Judge(r, findings[r] \o hits)
                              ELSE decision[r]
    BY <1>6 DEF Outcome
  <2>2. Open(decision[r])
    BY <2>1
  <2>3. Decide(policy, findings[r] \o hits, input[r].guests) = "allow"
    BY <1>1, <2>1, <2>2 DEF Open, Judge
  <2>4. RulesOf(policy) \in Seq(RuleRecords) /\ findings[r] \in Seq(FindingRecords)
    BY PolicyRules DEF policy, PipelineTypeOK
  <2>5. Judge(r, hits) = "allow"
    BY <2>3, <2>4, AllowedInPart DEF Judge
  <2> QED BY <2>2, <2>5, JudgedAllowed
<1> QED BY <1>4, <1>5, <1>6 DEF Checks

\* A run that a step leaves alone has as little against its message as before.
LEMMA StillNothing ==
  ASSUME PipelineTypeOK, NEW q \in Runs, NothingAgainst(q), input' = input, at'[q] = at[q],
         decision'[q] = decision[q], heard'[q] = heard[q], job'[q] = job[q],
         reply'[q] = reply[q], version' \in {version, version + 1}
  PROVE  NothingAgainst(q)'
<1>1. \A fs : Allows(q, fs) => Allows(q, fs)'
  BY AllowedOnce
<1>2. Open(decision[q]) <=> Open(decision[q])'
  BY DEF Open
<1>3. Allows(q, input[q].found) => Allows(q, input[q].found)'
  BY <1>1
<1>4. Allows(q, input[q].split) => Allows(q, input[q].split)'
  BY <1>1
<1>5. \A c \in heard[q] : Allows(q, reply[q][c]) => Allows(q, reply[q][c])'
  BY AllowedOnce DEF Allows
<1> QED BY <1>2, <1>3, <1>4, <1>5 DEF NothingAgainst

\* One case per action.  Every decision that may let the message stand is followed through.
LEMMA NextAgainst ==
  ASSUME OrderInv, TasksWait, \A r \in Runs : NothingAgainst(r), Next, NEW q \in Runs
  PROVE  NothingAgainst(q)'
<1> USE DEF OrderInv, PipelineTypeOK
<1>1. PipelineTypeOK /\ PipelineTypeOK'
  BY NextOrder
<1> HIDE DEF PipelineTypeOK
<1>2. ASSUME NEW r \in Runs, Rules(r) PROVE NothingAgainst(q)'
  <2>1. CASE q # r
    BY <1>1, <1>2, <2>1, StillNothing DEF Rules, PipelineTypeOK
  <2>2. CASE q = r
    <3> DEFINE d == IF input[r].found = <<>> THEN NoAction ELSE Judge(r, input[r].found)
    <3>1. /\ decision'[r] = d /\ at'[r] = IF Open(d) THEN "split" ELSE "conclude"
          /\ at[r] = "rules" /\ UNCHANGED <<version, input, job, reply, heard>>
      <4>1. /\ decision' = [decision EXCEPT ![r] = d]
            /\ at' = [at EXCEPT ![r] = IF Open(d) THEN "split" ELSE "conclude"]
            /\ at[r] = "rules" /\ UNCHANGED <<version, input, job, reply, heard>>
        BY <1>2 DEF Rules
      <4> HIDE DEF d
      <4> QED BY <1>1, <4>1 DEF PipelineTypeOK
    <3>2. Open(d) => Allows(r, input[r].found)
      BY <1>1, JudgedAllowed, DecideDecides DEF Open, Judge
    <3>3. heard[r] = {}
      BY <3>1 DEF NothingAgainst
    <3> HIDE DEF d
    <3>4. Open(decision[r])' <=> Open(d)
      BY <3>1 DEF Open
    <3>5. Allows(r, input[r].found)' <=> Allows(r, input[r].found)
      BY <3>1 DEF Allows
    <3> QED BY <2>2, <3>1, <3>2, <3>3, <3>4, <3>5 DEF NothingAgainst
  <2> QED BY <2>1, <2>2
<1>3. ASSUME NEW r \in Runs, Across(r) PROVE NothingAgainst(q)'
  <2>1. CASE q # r
    BY <1>1, <1>3, <2>1, StillNothing DEF Across, PipelineTypeOK
  <2>2. CASE q = r
    <3> DEFINE d == IF input[r].split = <<>> THEN decision[r] ELSE Judge(r, input[r].split)
    <3>1. /\ decision'[r] = d /\ at'[r] = IF Open(d) THEN "submit" ELSE "conclude"
          /\ at[r] = "split" /\ UNCHANGED <<version, input, job, reply, heard>>
      <4>1. /\ decision' = [decision EXCEPT ![r] = d]
            /\ at' = [at EXCEPT ![r] = IF Open(d) THEN "submit" ELSE "conclude"]
            /\ at[r] = "split" /\ UNCHANGED <<version, input, job, reply, heard>>
        BY <1>3 DEF Across
      <4> HIDE DEF d
      <4> QED BY <1>1, <4>1 DEF PipelineTypeOK
    <3>2. Open(d) => Allows(r, input[r].split)
      BY <1>1, JudgedAllowed, DecideDecides DEF Open, Judge
    <3>3. Allows(r, input[r].found) /\ \A c \in heard[r] : Allows(r, reply[r][c])
      BY <3>1 DEF NothingAgainst
    <3> HIDE DEF d
    <3>4. Open(decision[r])' <=> Open(d)
      BY <3>1 DEF Open
    <3>5. /\ Allows(r, input[r].found)' <=> Allows(r, input[r].found)
          /\ Allows(r, input[r].split)' <=> Allows(r, input[r].split)
          /\ \A c \in heard[r] : Allows(r, reply[r][c])' <=> Allows(r, reply[r][c])
      BY <3>1 DEF Allows
    <3> QED BY <2>2, <3>1, <3>2, <3>3, <3>4, <3>5 DEF NothingAgainst
  <2> QED BY <2>1, <2>2
<1>4. ASSUME NEW r \in Runs, Submit(r) PROVE NothingAgainst(q)'
  <2>1. CASE q # r
    BY <1>1, <1>4, <2>1, StillNothing DEF Submit, PipelineTypeOK
  <2>2. CASE q = r
    <3> DEFINE worth == IF policy.trigger = "never" THEN {} ELSE input[r].gates
    <3>1. /\ at'[r] = FirstWait(worth) /\ at[r] = "submit"
          /\ UNCHANGED <<version, input, decision, reply, heard>>
      BY <1>1, <1>4 DEF Submit, PipelineTypeOK
    <3>2. worth \in SUBSET Checks
      BY <1>1, InputsAssumption DEF PipelineTypeOK
    <3> HIDE DEF worth
    <3>3. FirstWait(worth) \in {"conclude"} \cup Checks
      BY <3>2, FirstWaitType
    <3>4. heard[r] = {} /\ Open(decision[r])
      BY <3>1 DEF NothingAgainst
    <3>5. /\ Allows(r, input[r].found)' <=> Allows(r, input[r].found)
          /\ Allows(r, input[r].split)' <=> Allows(r, input[r].split)
          /\ Open(decision[r])' <=> Open(decision[r])
      BY <3>1 DEF Allows, Open
    <3> QED BY <2>2, <3>1, <3>3, <3>4, <3>5 DEF NothingAgainst, Checks
  <2> QED BY <2>1, <2>2
<1>5. ASSUME NEW r \in Runs, NEW c \in Checks, NEW hits \in Seq(FindingRecords), at[r] = c,
             Continue(r, c, hits),
             \/ heard' = [heard EXCEPT ![r] = @ \cup {c}] /\ hits = reply[r][c]
                /\ job[r][c] = "answered"
             \/ heard' = heard
      PROVE  NothingAgainst(q)'
  <2>1. CASE q # r
    <3>1. /\ heard'[q] = heard[q] /\ at'[q] = at[q] /\ decision'[q] = decision[q]
          /\ job' = job /\ reply' = reply /\ input' = input /\ version' = version
      BY <1>1, <1>5, <2>1 DEF Continue, PipelineTypeOK
    <3> QED BY <1>1, <3>1, StillNothing
  <2>2. CASE q = r
    <3>1. /\ decision'[r] = Outcome(r, c, hits)
          /\ at'[r] = FirstWait({k \in asked[r] : Turn[k] > Turn[c]})
          /\ UNCHANGED <<version, input, job, reply>>
      BY <1>1, <1>5 DEF Continue, PipelineTypeOK
    <3>2. at'[r] \in {"conclude", "encoded", "single"}
      <4> DEFINE left == {k \in asked[r] : Turn[k] > Turn[c]}
      <4>1. left \in SUBSET Checks /\ "window" \notin left
        BY <1>1 DEF PipelineTypeOK, Turn, Checks
      <4> HIDE DEF left
      <4>2. CASE left = {}
        BY <3>1, <4>2 DEF FirstWait, left
      <4>3. CASE left # {}
        <5>1. \E x \in left : \A k \in left : Turn[x] <= Turn[k]
          <6>1. CASE "encoded" \in left
            BY <4>1, <6>1 DEF Turn, Checks
          <6>2. CASE "encoded" \notin left
            <7>1. left = {"single"}
              BY <4>1, <4>3, <6>2 DEF Checks
            <7> QED BY <7>1 DEF Turn
          <6> QED BY <6>1, <6>2
        <5>2. FirstWait(left) \in left
          BY <4>3, <5>1 DEF FirstWait
        <5> QED BY <3>1, <4>1, <5>2 DEF left, Checks
      <4> QED BY <4>2, <4>3
    <3>3. Open(decision[r])' => Open(decision[r]) /\ Allows(r, hits)
      <4>1. Open(decision[r])' => Open(Outcome(r, c, hits))
        BY <3>1 DEF Open
      <4> QED BY <1>1, <1>5, <4>1, OutcomeOpen
    <3>4. /\ Allows(r, input[r].found)' <=> Allows(r, input[r].found)
          /\ Allows(r, input[r].split)' <=> Allows(r, input[r].split)
          /\ \A k \in Checks : Allows(r, reply[r][k])' <=> Allows(r, reply[r][k])
      BY <3>1 DEF Allows
    <3>5. /\ heard'[r] \subseteq heard[r] \cup {c}
          /\ c \in heard'[r] \ heard[r] => hits = reply[r][c] /\ job[r][c] = "answered"
      BY <1>1, <1>5 DEF PipelineTypeOK
    <3>6. at[r] \in Checks
      BY <1>5
    <3> QED BY <2>2, <3>1, <3>2, <3>3, <3>4, <3>5, <3>6 DEF NothingAgainst, Checks
  <2> QED BY <2>1, <2>2
<1>6. ASSUME NEW r \in Runs, NEW c \in Checks, Hear(r, c) PROVE NothingAgainst(q)'
  <2>1. reply[r][c] \in Seq(FindingRecords)
    BY <1>1 DEF PipelineTypeOK
  <2> QED BY <1>5, <1>6, <2>1 DEF Hear
<1>7. ASSUME NEW r \in Runs, NEW c \in Checks, Miss(r, c) PROVE NothingAgainst(q)'
  <2>1. <<>> \in Seq(FindingRecords)
    OBVIOUS
  <2> QED BY <1>5, <1>7, <2>1 DEF Miss
<1>8. ASSUME NEW r \in Runs, Conclude(r) PROVE NothingAgainst(q)'
  <2>1. CASE q # r
    BY <1>1, <1>8, <2>1, StillNothing DEF Conclude, PipelineTypeOK
  <2>2. CASE q = r
    <3>1. /\ decision'[r] = IF decision[r] = NoAction THEN Judge(r, findings[r]) ELSE decision[r]
          /\ at[r] = "conclude" /\ at'[r] = "end"
          /\ UNCHANGED <<version, input, job, reply, heard>>
      BY <1>1, <1>8 DEF Conclude, PipelineTypeOK
    <3>2. Open(decision[r])' => Open(decision[r])
      BY <3>1 DEF Open
    <3>3. /\ Allows(r, input[r].found)' <=> Allows(r, input[r].found)
          /\ Allows(r, input[r].split)' <=> Allows(r, input[r].split)
          /\ \A k : Allows(r, reply[r][k])' <=> Allows(r, reply[r][k])
      BY <3>1 DEF Allows
    <3> QED BY <2>2, <3>1, <3>2, <3>3 DEF NothingAgainst
  <2> QED BY <2>1, <2>2
<1>9. CASE StartJob
  <2>1. /\ tasks # <<>> /\ job' = [job EXCEPT ![Head(tasks)[1]][Head(tasks)[2]] = "running"]
        /\ UNCHANGED <<version, input, at, decision, reply, heard>>
    BY <1>9 DEF StartJob
  <2>2. /\ tasks \in Seq(Runs \X Checks) /\ 1 \in DOMAIN tasks /\ Head(tasks) = tasks[1]
        /\ tasks[1] \in Runs \X Checks
    BY <2>1 DEF TasksWait
  <2>3. PICK r \in Runs, d \in Checks : tasks[1] = <<r, d>>
    BY <2>2
  <2>4. job[r][d] = "queued" /\ job' = [job EXCEPT ![r][d] = "running"]
    <3>1. tasks[1][1] = r /\ tasks[1][2] = d
      BY <2>3
    <3> QED BY <2>1, <2>2, <3>1 DEF TasksWait
  <2>5. CASE q # r
    <3>1. job'[q] = job[q]
      BY <1>1, <2>4, <2>5 DEF PipelineTypeOK
    <3> QED BY <1>1, <2>1, <3>1, StillNothing
  <2>6. CASE q = r
    <3>1. d \notin heard[r] /\ at[r] \notin {"rules", "split", "submit"}
      BY <2>4 DEF NothingAgainst
    <3>2. \A c \in Checks \ {d} : job'[r][c] = job[r][c]
      BY <1>1, <2>4 DEF PipelineTypeOK
    <3>3. /\ Allows(r, input[r].found)' <=> Allows(r, input[r].found)
          /\ Allows(r, input[r].split)' <=> Allows(r, input[r].split)
          /\ \A k : Allows(r, reply[r][k])' <=> Allows(r, reply[r][k])
          /\ Open(decision[r])' <=> Open(decision[r])
      BY <2>1 DEF Allows, Open
    <3> QED BY <2>1, <2>6, <3>1, <3>2, <3>3 DEF NothingAgainst
  <2> QED BY <2>5, <2>6
<1>10. ASSUME NEW r \in Runs, NEW d \in Checks, FinishJob(r, d) PROVE NothingAgainst(q)'
  <2>1. PICK s \in {"answered", "failed"} : job' = [job EXCEPT ![r][d] = s]
    BY <1>10 DEF FinishJob
  <2>2. job[r][d] = "running" /\ UNCHANGED <<version, input, at, decision, heard>>
    BY <1>10 DEF FinishJob
  <2>3. /\ \A p \in Runs \ {r} : reply'[p] = reply[p]
        /\ \A c \in Checks \ {d} : reply'[r][c] = reply[r][c]
    <3>1. CASE UNCHANGED reply
      BY <3>1
    <3>2. ASSUME NEW hits, reply' = [reply EXCEPT ![r][d] = hits]
          PROVE  /\ \A p \in Runs \ {r} : reply'[p] = reply[p]
                 /\ \A c \in Checks \ {d} : reply'[r][c] = reply[r][c]
      BY <1>1, <3>2 DEF PipelineTypeOK
    <3> QED BY <1>10, <3>1, <3>2 DEF FinishJob
  <2>4. CASE q # r
    <3>1. job'[q] = job[q]
      BY <1>1, <2>1, <2>4 DEF PipelineTypeOK
    <3> QED BY <1>1, <2>2, <2>3, <2>4, <3>1, StillNothing
  <2>5. CASE q = r
    <3>1. d \notin heard[r] /\ at[r] \notin {"rules", "split", "submit"}
      BY <2>2 DEF NothingAgainst
    <3>2. \A c \in Checks \ {d} : job'[r][c] = job[r][c]
      BY <1>1, <2>1 DEF PipelineTypeOK
    <3>3. /\ Allows(r, input[r].found)' <=> Allows(r, input[r].found)
          /\ Allows(r, input[r].split)' <=> Allows(r, input[r].split)
          /\ Open(decision[r])' <=> Open(decision[r])
      BY <2>2 DEF Allows, Open
    <3>4. \A c \in Checks \ {d} : Allows(r, reply[r][c])' <=> Allows(r, reply[r][c])
      BY <2>2, <2>3 DEF Allows
    <3> QED BY <2>2, <2>5, <3>1, <3>2, <3>3, <3>4 DEF NothingAgainst
  <2> QED BY <2>4, <2>5
<1>11. CASE Reload
  BY <1>1, <1>11, StillNothing DEF Reload
<1> QED
  BY <1>2, <1>3, <1>4, <1>6, <1>7, <1>8, <1>9, <1>10, <1>11 DEF Next, RunStep

\* When all runs are at their start the lanes have had no occasion to part.
LEMMA InitInv == Init => PipelineInv
<1> SUFFICES ASSUME Init PROVE PipelineInv
  OBVIOUS
<1>1. \A r \in Runs : LanesAgree(r)
  BY DEF Init, LanesAgree, Checks
<1>2. TasksWait
  <2>1. tasks \in Seq(Runs \X Checks) /\ DOMAIN tasks = {}
    BY DEF Init
  <2> QED BY <2>1 DEF TasksWait, IsInjective
<1>3. \A r \in Runs : NothingAgainst(r)
  BY DEF Init, NothingAgainst
<1> QED BY <1>1, <1>2, <1>3, InitOrder DEF PipelineInv

\* The first policy is in force only while there was no reload, so each step to a state under
\* it is a step under it.
LEMMA NextInv == PipelineInv /\ [Next]_vars => PipelineInv'
<1> SUFFICES ASSUME PipelineInv, [Next]_vars PROVE PipelineInv'
  OBVIOUS
<1>1. OrderInv'
  BY NextOrder DEF PipelineInv
<1>2. version' = version \/ version' = version + 1
  BY DEF Next, RunStep, Rules, Across, Submit, Hear, Miss, Continue, Conclude, StartJob,
         FinishJob, Reload, vars
<1>3. version \in Nat \ {0}
  BY PoliciesAssumption DEF PipelineInv, OrderInv, PipelineTypeOK
<1>4. ASSUME version' = 1, NEW q \in Runs PROVE LanesAgree(q)'
  <2>1. version' = version /\ version = 1
    BY <1>2, <1>3, <1>4
  <2>2. \A r \in Runs : LanesAgree(r)
    BY <2>1 DEF PipelineInv
  <2>3. CASE Next
    BY <2>1, <2>2, <2>3, NextAgrees DEF PipelineInv
  <2>4. CASE UNCHANGED vars
    BY <2>2, <2>4, LeftAlone DEF vars
  <2> QED BY <2>3, <2>4
<1>5. TasksWait'
  BY NextTasks DEF PipelineInv
<1>6. ASSUME NEW q \in Runs PROVE NothingAgainst(q)'
  <2>1. CASE Next
    BY <2>1, NextAgainst DEF PipelineInv
  <2>2. CASE UNCHANGED vars
    BY <2>2, StillNothing DEF vars, PipelineInv, OrderInv
  <2> QED BY <2>1, <2>2
<1> QED BY <1>1, <1>4, <1>5, <1>6 DEF PipelineInv

\* pipeline.py:110,150: the invariant holds in every reachable state.
THEOREM PipelineInvariance == Spec => []PipelineInv
<1>1. PipelineInv /\ [Next]_vars => PipelineInv'
  BY NextInv
<1> QED BY InitInv, <1>1, PTL DEF Spec

\* README.md:141 "On failure the rules still run": what the rules decide on a message is what
\* run() decides, whatever the model answers or fails to, and whenever the policy is reloaded.
THEOREM RulesStand == Spec => []RuleHitStands
<1>1. PipelineInv => RuleHitStands
  BY DEF PipelineInv, OrderInv
<1> QED BY PipelineInvariance, <1>1, PTL

\* README.md:93: what run() removes without asking the model, the triage lane removes too, for
\* any policy and message, though the two lanes go on to the split check on different
\* conditions.
THEOREM TriageDeletes == Spec => []RulesDeleteInTriage
<1>1. PipelineInv => RulesDeleteInTriage
  BY DEF PipelineInv, LanesAgree, RulesDeleteInTriage
<1> QED BY PipelineInvariance, <1>1, PTL

\* policy.py:134-158, README.md:49: for any policies and any findings, with those of the model
\* among them, the order in which a message's findings come does not matter to the decision.
THEOREM OrderOfFindings == Spec => []DecideIsMostSevere
<1>1. PipelineInv => DecideIsMostSevere
  <2> SUFFICES ASSUME PipelineInv, NEW r \in Runs,
                      NEW fs \in {input[r].found, input[r].split, findings[r]}
               PROVE  Judge(r, fs) = MostSevere(ActionsOn(policy, fs, input[r].guests))
    BY DEF DecideIsMostSevere
  <2>1. RulesOf(policy) \in Seq(RuleRecords)
    BY PolicyRules DEF PipelineInv, OrderInv, PipelineTypeOK, policy
  <2>2. fs \in Seq(FindingRecords)
    BY InputsAssumption DEF PipelineInv, OrderInv, PipelineTypeOK
  <2> QED BY <2>1, <2>2, DecideTakesMostSevere DEF Judge
<1> QED BY PipelineInvariance, <1>1, PTL

\* A message is only allowed when a policy that was in force allows what the rules found, and
\* what each of the answers that came in time has brought.
THEOREM NothingOverlooked == Spec => []AllowedForAReason
<1>1. PipelineInv => AllowedForAReason
  <2> SUFFICES ASSUME PipelineInv, NEW r \in Runs, at[r] = "end", decision[r] = "allow",
                      NEW fs \in {reply[r][c] : c \in heard[r]}
                                 \cup {input[r].found, input[r].split}
               PROVE  Allows(r, fs)
    BY DEF AllowedForAReason
  <2> QED BY DEF PipelineInv, NothingAgainst, Open
<1> QED BY PipelineInvariance, <1>1, PTL
=============================================================================
