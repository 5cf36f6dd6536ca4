------------------------- MODULE SlackWorkerProofs -------------------------
(***************************************************************************)
(* Theorems about the worker for every set of messages, rules, verdicts,   *)
(* faults and crashes.                                                     *)
(***************************************************************************)
EXTENDS SlackWorker, JobQueueProofs, SequenceTheorems, FiniteSetTheorems

\* Jobs of stored events are jobs of the queue, in both lanes.
LEMMA JobsAreKeys ==
  /\ \A e \in Events : <<TRIAGE, e>> \in Keys /\ <<DEEP, e>> \in Keys
  /\ \A k \in Keys : EventOf(k) \in Events /\ k[1] \in {TRIAGE, DEEP} /\ k = <<k[1], k[2]>>
  /\ \A s \in {"held", "deleted", "released", "reposted", "notified"} : s \in Stages \ {NoStage}
<1>1. \A s \in {"held", "deleted", "released", "reposted", "notified"} : s \in Range(STAGES)
  BY DEF STAGES, Range
<1> QED
  BY <1>1, KeyAssumption DEF EventOf, NoStage

(***************************************************************************)
(* The worker is a client of the queue: what it does to the queue is a     *)
(* step of the queue.                                                      *)
(***************************************************************************)

\* Every step of the worker is a step of the queue, or leaves the queue alone.
LEMMA QueueStep == StateTypeOK /\ [WorkerNext]_vars => [Next]_queueVars
<1> SUFFICES ASSUME StateTypeOK, [WorkerNext]_vars PROVE [Next]_queueVars
  OBVIOUS
<1> USE JobsAreKeys
<1>1. CASE UNCHANGED vars
  BY <1>1 DEF vars
<1>2. ASSUME NEW e \in Events, Enqueue(e) PROVE [Next]_queueVars
  BY <1>2 DEF Enqueue, Next
<1>3. CASE Outside
  BY <1>3 DEF Outside, Write, Drop
<1>4. CASE Lifecycle
  <2>1. ASSUME NEW expired \in SUBSET Keys, NEW lay \in Layouts, WorkerRestart(expired, lay)
        PROVE  [Next]_queueVars
    BY <2>1 DEF WorkerRestart, Next
  <2>2. CASE CatchUp
    <3>1. Head(backlog) \in Events
      BY <2>2, HeadTailProperties DEF CatchUp, StateTypeOK, WorldTypeOK
    <3> QED
      BY <2>2, <3>1, <1>2 DEF CatchUp
  <2>3. CASE WorkerStart
    BY <2>3 DEF WorkerStart, Next
  <2>4. CASE WorkerCrash
    BY <2>4 DEF WorkerCrash, Next
  <2>5. CASE WorkerTick
    BY <2>5 DEF WorkerTick, Next
  <2> QED
    BY <1>4, <2>1, <2>2, <2>3, <2>4, <2>5 DEF Lifecycle
<1>5. ASSUME NEW e \in Events, Deliver(e) PROVE [Next]_queueVars
  BY <1>5, <1>2 DEF Deliver
<1>6. ASSUME NEW k \in Keys, ClaimJob(k) PROVE [Next]_queueVars
  BY <1>6 DEF ClaimJob, Next
<1>7. ASSUME NEW k \in Keys, ThreadStep(k) PROVE [Next]_queueVars
  <2>1. CASE TriageStep(k)
    <3>1. CASE HandOff(k)
      <4>1. EventOf(k) \in Events
        OBVIOUS
      <4> QED
        BY <3>1, <4>1 DEF HandOff, Next
    <3>2. CASE RecordHeld(k)
      BY <3>2 DEF RecordHeld, Next
    <3> QED
      BY <2>1, <3>1, <3>2 DEF TriageStep, Triage, Lookup, DeleteToHold
  <2>2. CASE DeepStep(k)
    BY <2>2 DEF DeepStep, Deep, Release, RecordReleased, Next
  <2>3. CASE EffectStep(k)
    BY <2>3 DEF EffectStep, Delete, RecordDeleted, FallBackToWarn, Repost, RecordReposted,
                Notice, RecordNotified, Audit, Next
  <2>4. CASE Return(k) \/ Advance(k) \/ Raise(k)
    BY <2>4 DEF Return, Advance, Raise, Next
  <2> QED
    BY <1>7, <2>1, <2>2, <2>3, <2>4 DEF ThreadStep
<1>8. ASSUME NEW k \in Keys, WriteFault(k) PROVE [Next]_queueVars
  BY <1>8 DEF WriteFault, WriteRaises, ThreadEnds, Next
<1> QED
  BY <1>1, <1>3, <1>4, <1>5, <1>6, <1>7, <1>8 DEF WorkerNext

(***************************************************************************)
(* Types.                                                                  *)
(***************************************************************************)

\* The history is a sequence of versions that people see.
LEMMA HistoryType == ASSUME live \in [Msgs -> Events \cup {NotLive}], NEW h \in History
                     PROVE  h \in Seq(Visibles)
<1>1. CASE cursor[CHANNEL] = 0
  BY <1>1, EmptySeq DEF History
<1>2. CASE cursor[CHANNEL] # 0
  <2>1. Visibles \subseteq Events
    BY DEF Visibles
  <2>2. IsFiniteSet(Visibles)
    BY <2>1, FS_Subset, EventAssumption
  <2>3. Cardinality(Visibles) \in Nat
    BY <2>2, FS_CardinalityType
  <2>4. h \in [1..Cardinality(Visibles) -> Visibles]
    BY <1>2 DEF History, SetToSeqs
  <2> QED
    BY <2>3, <2>4, SeqDef
<1> QED
  BY <1>1, <1>2

\* The worker starts with the types of StateTypeOK.
LEMMA InitTypes == WorkerInit => StateTypeOK
  BY EmptySeq, FaultAssumption DEF WorkerInit, Init, StateTypeOK, WorldTypeOK, TaskTypeOK, Tasks, Idle, Places

\* What a handler goes on to.
LEMMA NotifyPlace == ASSUME NEW act, NEW s
                     PROVE  /\ Notify(act, s) \in {"post", "notice", "audit"}
                            /\ NotifyUnlessAllowed(act, s) \in {"post", "notice", "audit"}
  BY DEF Notify, NotifyUnlessAllowed

\* A counted fault stays within the bound.
LEMMA CountType == ASSUME faults \in 0..MaxFaults, NEW a \in Answers, Count(a)
                   PROVE  faults' \in 0..MaxFaults
  BY FaultAssumption DEF Answers, Count

\* The messages of a finding are messages.
LEMMA RelatedType ==
  /\ \A es \in SUBSET Events : MsgsOf(es) \in SUBSET Msgs
  /\ \A e \in Events, earlier \in SUBSET Events :
       /\ RulesSay(e, earlier).act \in Removing \cup {"none"}
       /\ RulesSay(e, earlier).related \in SUBSET Msgs
       /\ MsgOf[e] \in Msgs
<1>1. \A es \in SUBSET Events : MsgsOf(es) \in SUBSET Msgs
  BY DEF MsgsOf, Msgs
<1>2. ASSUME NEW e \in Events, NEW earlier \in SUBSET Events
      PROVE  /\ RulesSay(e, earlier).act \in Removing \cup {"none"}
             /\ RulesSay(e, earlier).related \in SUBSET Msgs
             /\ MsgOf[e] \in Msgs
  <2>1. Split[e] \cup {e} \in SUBSET Events
    BY EventAssumption
  <2> QED
    BY <1>1, <2>1, EventAssumption DEF RulesSay, Removing, Msgs
<1> QED
  BY <1>1, <1>2

\* Where a handler goes on; only its own task changes.
LEMMA GoType ==
  ASSUME TaskTypeOK, NEW k \in Keys, NEW p \in Places, Go(k, p)
  PROVE  /\ task' \in [Keys -> Tasks]
         /\ task'[k].at = p
         /\ \A j \in Keys \ {k} : task'[j] = task[j]
<1>1. task[k] \in Tasks
  BY DEF TaskTypeOK
<1>2. [task[k] EXCEPT !.at = p] \in Tasks /\ [task[k] EXCEPT !.at = p].at = p
  BY <1>1 DEF Tasks
<1>3. task' = [task EXCEPT ![k] = [task[k] EXCEPT !.at = p]]
  BY DEF Go
<1> QED
  BY <1>2, <1>3 DEF TaskTypeOK

\* A handler goes on with another task of its own, as long as it does not end.
LEMMA TaskStep ==
  ASSUME TaskTypeOK, NEW k \in Keys, NEW t \in Tasks, task[k].at # "idle", t.at # "idle",
         task' = [task EXCEPT ![k] = t], hand' = hand
  PROVE  /\ TaskTypeOK'
         /\ task'[k] = t
         /\ \A j \in Keys \ {k} : task'[j] = task[j]
  BY DEF TaskTypeOK

\* A handler that only moves on keeps the types of all tasks.
LEMMA GoStep ==
  ASSUME TaskTypeOK, NEW k \in Keys, NEW p \in Places, task[k].at # "idle", p # "idle", Go(k, p),
         hand' = hand
  PROVE  TaskTypeOK'
  BY GoType DEF TaskTypeOK

\* Steps of Slack, its users and the process.
LEMMA OutsideTypes == StateTypeOK /\ (Outside \/ \E e \in Events : Deliver(e)) => StateTypeOK'
<1> SUFFICES ASSUME StateTypeOK, Outside \/ \E e \in Events : Deliver(e) PROVE StateTypeOK'
  OBVIOUS
<1> USE DEF memory, files, slack, queueVars
<1>1. ASSUME NEW e \in Events, Write(e) PROVE StateTypeOK'
  BY <1>1 DEF Write, StateTypeOK, WorldTypeOK, TaskTypeOK, Msgs
<1>2. ASSUME NEW e \in Events, Drop(e) PROVE StateTypeOK'
  BY <1>2 DEF Drop, StateTypeOK, WorldTypeOK, TaskTypeOK
<1>3. ASSUME NEW e \in Events, Deliver(e) PROVE StateTypeOK'
  BY <1>3 DEF Deliver, Enqueue, Put, StateTypeOK, WorldTypeOK, TaskTypeOK
<1> QED
  BY <1>1, <1>2, <1>3 DEF Outside

\* Starts, stops and the passing of time keep the types.
LEMMA LifecycleTypes == StateTypeOK /\ Lifecycle => StateTypeOK'
<1> SUFFICES ASSUME StateTypeOK, Lifecycle PROVE StateTypeOK'
  OBVIOUS
<1> USE DEF memory, files, slack, intake, StateTypeOK, WorldTypeOK
<1>1. ASSUME NEW expired \in SUBSET Keys, NEW lay \in Layouts, WorkerRestart(expired, lay)
      PROVE  StateTypeOK'
  <2>1. PICK a \in Answers \ {"failed", "lost"} :
          Count(a) /\ backlog' \in IF a = "ok" THEN History ELSE {<<>>}
    BY <1>1 DEF WorkerRestart
  <2>2. Visibles \subseteq Events
    BY DEF Visibles
  <2>3. backlog' \in Seq(Events)
    <3>1. CASE backlog' \in History
      <4>1. backlog' \in Seq(Visibles)
        BY <3>1, HistoryType
      <4> QED
        BY <2>2, <4>1, SeqMonotonic
    <3>2. CASE backlog' = <<>>
      BY <3>2, EmptySeq
    <3> QED
      BY <2>1, <3>1, <3>2
  <2>4. TaskTypeOK'
    BY <1>1 DEF WorkerRestart, Restart, TaskTypeOK
  <2>5. faults' \in 0..MaxFaults
    BY <2>1, CountType
  <2> QED
    BY <1>1, <2>3, <2>4, <2>5 DEF WorkerRestart
<1>2. CASE CatchUp
  <2>1. Head(backlog) \in Events /\ Tail(backlog) \in Seq(Events)
    BY <1>2, HeadTailProperties DEF CatchUp
  <2>2. /\ UNCHANGED <<hand, sent, inbox, live, posts, notices, name, carried, trail, task, faults>>
        /\ backlog' = Tail(backlog)
    BY <1>2 DEF CatchUp, Enqueue, Put, queueVars
  <2> QED
    BY <2>1, <2>2 DEF TaskTypeOK
<1>3. CASE WorkerStart
  BY <1>3 DEF WorkerStart, StartThreads, TaskTypeOK
<1>4. CASE WorkerCrash
  <2>1. hand' = [k \in Keys |-> "free"]
    BY <1>4 DEF WorkerCrash, Crash, CrashInFail
  <2>2. Idle \in Tasks /\ Idle.at = "idle"
    BY DEF Tasks, Idle, Places
  <2>3. TaskTypeOK'
    BY <1>4, <2>1, <2>2 DEF WorkerCrash, TaskTypeOK
  <2>4. WorldTypeOK'
    BY <1>4, EmptySeq DEF WorkerCrash
  <2> QED
    BY <2>3, <2>4
<1>5. CASE WorkerTick
  BY <1>5 DEF WorkerTick, Tick, TaskTypeOK
<1> QED
  BY <1>1, <1>2, <1>3, <1>4, <1>5 DEF Lifecycle

\* A removal, of the message alone or with those related to it.
Findings == [act : Actions \cup {"none"}, related : SUBSET Msgs]
\* What a decision to remove makes of the task and the window is well typed.
LEMMA RemovalTypes ==
  ASSUME TaskTypeOK, NEW k \in Keys, task[k].at = "decide",
         NEW said \in Findings, NEW todo \in SUBSET Msgs, Removal(k, said, todo), hand' = hand
  PROVE  TaskTypeOK'
<1>1. Notify(said.act, stage[k]) \in Places \ {"idle"}
  BY NotifyPlace DEF Places
<1>2. task[k] \in Tasks
  BY DEF TaskTypeOK
<1>3. CASE Reached(k, "deleted")
  <2> DEFINE t == [task[k] EXCEPT !.at = Notify(said.act, stage[k]), !.act = said.act,
                                  !.related = said.related]
  <2>1. t \in Tasks /\ t.at # "idle"
    BY <1>1, <1>2 DEF Tasks, Findings
  <2>2. task' = [task EXCEPT ![k] = t]
    BY <1>3 DEF Removal, TaskTypeOK
  <2> HIDE DEF t
  <2> QED
    BY <2>1, <2>2, TaskStep
<1>4. CASE ~Reached(k, "deleted")
  <2> DEFINE t == [task[k] EXCEPT !.at = "delete", !.act = said.act,
                                  !.related = said.related, !.todo = todo]
  <2>1. t \in Tasks /\ t.at # "idle"
    BY <1>2 DEF Tasks, Findings, Places
  <2>2. task' = [task EXCEPT ![k] = t]
    BY <1>4 DEF Removal, TaskTypeOK
  <2> HIDE DEF t
  <2> QED
    BY <2>1, <2>2, TaskStep
<1> QED
  BY <1>3, <1>4

\* The steps of the triage lane keep the types.
LEMMA TriageTypes == ASSUME StateTypeOK, NEW k \in Keys, TriageStep(k) PROVE StateTypeOK'
<1> USE JobsAreKeys DEF memory, files, slack, intake, queueVars, rows, StateTypeOK
<1>1. CASE Triage(k)
  <2> DEFINE e == EventOf(k)
             earlier == Others(window[Author[e]], e)
             said == RulesSay(e, earlier)
  <2>1. WorldTypeOK' /\ hand' = hand /\ task[k].at = "decide" /\ task[k] \in Tasks
    BY <1>1 DEF Triage, WorldTypeOK, TaskTypeOK
  <2>2. e \in Events /\ earlier \in SUBSET Events
    BY DEF Others
  <2>3. said \in Findings /\ MsgOf[e] \in Msgs
    <3>1. said = [act |-> said.act, related |-> said.related]
      BY DEF RulesSay
    <3> QED
      BY <2>2, <3>1, RelatedType DEF Actions, Findings
  <2>4. CASE said.act # "none"
    <3>1. Removal(k, said, IF said.related = {} THEN {MsgOf[e]} ELSE said.related)
      BY <1>1, <2>4 DEF Triage
    <3> HIDE DEF said
    <3>2. (IF said.related = {} THEN {MsgOf[e]} ELSE said.related) \in SUBSET Msgs
      BY <2>3 DEF Findings
    <3> QED
      BY <2>1, <2>3, <3>1, <3>2, RemovalTypes
  <2>5. CASE said.act = "none"
    <3> DEFINE t == [task[k] EXCEPT !.at = "lookup", !.asks = (name = "unknown"),
                                    !.earlier = earlier]
    <3>1. task' = [task EXCEPT ![k] = t]
      BY <1>1, <2>5 DEF Triage, TaskTypeOK
    <3> HIDE DEF earlier
    <3>2. t \in Tasks /\ t.at # "idle"
      BY <2>1, <2>2 DEF Tasks, Places
    <3> HIDE DEF t
    <3> QED
      BY <2>1, <3>1, <3>2, TaskStep
  <2> QED
    BY <2>4, <2>5
<1>2. CASE Lookup(k)
  <2>1. PICK asks \in BOOLEAN, a \in Answers :
          /\ Count(a)
          /\ Raises(a) => Go(k, "raised") /\ UNCHANGED name
          /\ ~Raises(a) => /\ LearnName(a, asks)
                           /\ task' = [task EXCEPT ![k].hold = HoldWanted(k),
                                                   ![k].at = IF HoldWanted(k) /\ ~Reached(k, "held")
                                                             THEN "hold" ELSE "handoff"]
    BY <1>2 DEF Lookup, Answers
  <2>2. task[k] \in Tasks /\ task[k].at = "lookup" /\ hand' = hand
    BY <1>2 DEF Lookup, TaskTypeOK
  <2>3. WorldTypeOK'
    BY <1>2, <2>1, CountType DEF Lookup, LearnName, WorldTypeOK
  <2>4. CASE Raises(a)
    BY <2>1, <2>2, <2>3, <2>4, GoStep DEF Places
  <2>5. CASE ~Raises(a)
    <3> DEFINE t == [task[k] EXCEPT !.hold = HoldWanted(k),
                                    !.at = IF HoldWanted(k) /\ ~Reached(k, "held")
                                           THEN "hold" ELSE "handoff"]
    <3>1. task' = [task EXCEPT ![k] = t]
      BY <2>1, <2>5 DEF TaskTypeOK
    <3>2. t \in Tasks /\ t.at # "idle"
      BY <2>2 DEF Tasks, Places, HoldWanted
    <3> HIDE DEF t
    <3> QED
      BY <2>2, <2>3, <3>1, <3>2, TaskStep
  <2> QED
    BY <2>4, <2>5
<1>3. CASE DeleteToHold(k)
  <2>1. PICK a \in Answers :
          /\ Count(a)
          /\ DeleteOne(MsgAt(k), a)
          /\ task' = [task EXCEPT ![k].at = CASE a = "ok" -> "held"
                                              [] a = "refused" -> "handoff"
                                              [] OTHER -> "raised",
                                  ![k].hold = HoldAfter(a)]
    BY <1>3 DEF DeleteToHold
  <2>2. task[k] \in Tasks /\ task[k].at = "hold" /\ hand' = hand
    BY <1>3 DEF DeleteToHold, TaskTypeOK
  <2>3. WorldTypeOK'
    BY <1>3, <2>1, CountType DEF DeleteToHold, DeleteOne, WorldTypeOK
  <2> DEFINE t == [task[k] EXCEPT !.at = CASE a = "ok" -> "held"
                                           [] a = "refused" -> "handoff"
                                           [] OTHER -> "raised",
                                  !.hold = HoldAfter(a)]
  <2>4. task' = [task EXCEPT ![k] = t]
    BY <2>1 DEF TaskTypeOK
  <2>5. t \in Tasks /\ t.at # "idle"
    BY <2>2 DEF Tasks, Places, HoldAfter
  <2> HIDE DEF t
  <2> QED
    BY <2>2, <2>3, <2>4, <2>5, TaskStep
<1>4. CASE RecordHeld(k)
  <2>1. WorldTypeOK' /\ hand' = hand /\ task[k].at # "idle" /\ Go(k, "handoff")
    BY <1>4 DEF RecordHeld, SetStage, WorldTypeOK
  <2> QED
    BY <2>1, GoStep DEF Places
<1>5. CASE HandOff(k)
  <2>1. hand' = hand /\ task[k].at # "idle" /\ Go(k, "return") /\ task[k] \in Tasks
    BY <1>5 DEF HandOff, Put, TaskTypeOK
  <2>2. [chain |-> task[k].earlier, held |-> task[k].hold] \in [chain : SUBSET Events, held : BOOLEAN]
    BY <2>1 DEF Tasks
  <2>3. carried' \in [Events -> [chain : SUBSET Events, held : BOOLEAN]]
    BY <1>5, <2>2 DEF HandOff, WorldTypeOK
  <2>4. WorldTypeOK'
    BY <1>5, <2>3 DEF HandOff, WorldTypeOK
  <2> QED
    BY <2>1, <2>4, GoStep DEF Places
<1> QED
  BY <1>1, <1>2, <1>3, <1>4, <1>5 DEF TriageStep

\* What Deep(k) does after an answer a, given the verdict v.
LEMMA DeepTypes == ASSUME StateTypeOK, NEW k \in Keys, DeepStep(k) PROVE StateTypeOK'
<1> USE JobsAreKeys DEF memory, files, slack, intake, queueVars, rows, StateTypeOK
<1>1. CASE Deep(k)
  <2> DEFINE e == EventOf(k)
             Related(v) == IF v.parts = {} THEN {} ELSE MsgsOf(v.parts \cup {e})
             gone == IF carried[e].held THEN {MsgOf[e]} ELSE {}
             Said(v) == [act |-> v.act, related |-> Related(v)]
             Todo(v) == (IF Related(v) = {} THEN {MsgOf[e]} ELSE Related(v)) \ gone
             Place(v) == IF carried[e].held /\ ~Reached(k, "released") THEN "release"
                         ELSE NotifyUnlessAllowed(v.act, stage[k])
             Going(v) == [task[k] EXCEPT !.at = Place(v), !.act = v.act, !.related = Related(v)]
  <2>0. PICK a \in Answers, asks \in BOOLEAN, v \in Verdicts[e] :
          /\ MayAsk(k, asks) /\ Count(a)
          /\ v.parts \subseteq carried[e].chain
          /\ IF Raises(a) THEN Go(k, "raised") /\ UNCHANGED memory
             ELSE /\ LearnName(a, asks)
                  /\ IF v.act \in Removing THEN Removal(k, Said(v), Todo(v))
                     ELSE /\ task' = [task EXCEPT ![k].at = Place(v), ![k].act = v.act,
                                                  ![k].related = Related(v)]
                          /\ UNCHANGED window
    BY <1>1, ZenonT(30) DEF Deep
  <2>1.   /\ Count(a)
          /\ Raises(a) => Go(k, "raised") /\ UNCHANGED memory
          /\ ~Raises(a) =>
               /\ LearnName(a, asks)
               /\ v.act \in Removing => Removal(k, Said(v), Todo(v))
               /\ v.act \notin Removing =>
                    task' = [task EXCEPT ![k].at = Place(v), ![k].act = v.act,
                                         ![k].related = Related(v)]
    BY <2>0, Zenon
  <2>2. e \in Events /\ v.act \in Actions /\ v.parts \in SUBSET Events
    BY EventAssumption
  <2>3. Related(v) \in SUBSET Msgs /\ MsgOf[e] \in Msgs
    <3>1. v.parts \cup {e} \in SUBSET Events
      BY <2>2
    <3> QED
      BY <2>2, <3>1, RelatedType DEF Msgs
  <2>4. Todo(v) \in SUBSET Msgs /\ Said(v) \in Findings
    BY <2>2, <2>3 DEF Findings
  <2>5. /\ task[k].at = "decide" /\ task[k] \in Tasks /\ hand' = hand
        /\ UNCHANGED <<sent, live, posts, notices, inbox, backlog, carried, trail>>
    BY <1>1 DEF Deep, TaskTypeOK
  <2>6. WorldTypeOK'
    BY <2>1, <2>5, CountType DEF LearnName, WorldTypeOK
  <2>7. CASE Raises(a)
    BY <2>1, <2>5, <2>6, <2>7, GoStep DEF Places
  <2>8. CASE ~Raises(a) /\ v.act \in Removing
    <3>1. Removal(k, Said(v), Todo(v))
      BY <2>1, <2>8
    <3> HIDE DEF Said, Todo
    <3> QED
      BY <2>4, <2>5, <2>6, <3>1, RemovalTypes
  <2>9. CASE ~Raises(a) /\ v.act \notin Removing
    <3>1. Place(v) \in Places \ {"idle"}
      BY NotifyPlace DEF Places
    <3>2. task' = [task EXCEPT ![k] = Going(v)]
      BY <2>1, <2>9 DEF TaskTypeOK
    <3> HIDE DEF Place, Related
    <3>3. Going(v) \in Tasks /\ Going(v).at # "idle"
      BY <2>2, <2>3, <2>5, <3>1 DEF Tasks
    <3> HIDE DEF Going
    <3> QED
      BY <2>5, <2>6, <3>2, <3>3, TaskStep
  <2> QED
    BY <2>7, <2>8, <2>9
<1>2. CASE Release(k)
  <2>1. PICK a \in Answers :
          /\ Count(a)
          /\ posts' = IF Effective(a) THEN [posts EXCEPT ![EventOf(k)].released = @ + 1] ELSE posts
          /\ Go(k, IF a = "ok" THEN "released" ELSE "raised")
    BY <1>2 DEF Release
  <2>2. posts' \in [Events -> [released : Nat, redacted : Nat]]
    <3> DEFINE p == [posts[EventOf(k)] EXCEPT !.released = @ + 1]
    <3>1. EventOf(k) \in Events /\ posts[EventOf(k)] \in [released : Nat, redacted : Nat]
      BY DEF WorldTypeOK
    <3>2. p \in [released : Nat, redacted : Nat]
      BY <3>1
    <3>3. posts' = [posts EXCEPT ![EventOf(k)] = p] \/ posts' = posts
      BY <2>1 DEF WorldTypeOK
    <3> HIDE DEF p
    <3> QED
      BY <3>1, <3>2, <3>3 DEF WorldTypeOK
  <2>3. WorldTypeOK' /\ hand' = hand /\ task[k].at # "idle"
    BY <1>2, <2>1, <2>2, CountType DEF Release, WorldTypeOK
  <2> QED
    BY <2>1, <2>3, GoStep DEF Places
<1>3. CASE RecordReleased(k)
  <2>1. NotifyUnlessAllowed(task[k].act, "released") \in Places \ {"idle"}
    BY NotifyPlace DEF Places
  <2>2. WorldTypeOK' /\ hand' = hand /\ task[k].at # "idle"
        /\ Go(k, NotifyUnlessAllowed(task[k].act, "released"))
    BY <1>3 DEF RecordReleased, SetStage, WorldTypeOK
  <2> QED
    BY <2>1, <2>2, GoStep
<1> QED
  BY <1>1, <1>2, <1>3 DEF DeepStep

\* The steps of the side effects keep the types.
LEMMA EffectTypes == ASSUME StateTypeOK, NEW k \in Keys, EffectStep(k) PROVE StateTypeOK'
<1> USE JobsAreKeys DEF memory, files, slack, intake, queueVars, rows, StateTypeOK
<1>0. EventOf(k) \in Events /\ task[k] \in Tasks
  BY DEF TaskTypeOK
<1>1. CASE Delete(k)
  <2>1. PICK a \in Answers :
          /\ Count(a)
          /\ DeleteOne(Oldest(task[k].todo), a)
          /\ task' = [task EXCEPT ![k].todo = @ \ {Oldest(task[k].todo)},
                                  ![k].ok = @ /\ Deleted(a),
                                  ![k].at = CatchRefusal(a, "delete")]
    BY <1>1 DEF Delete
  <2>2. WorldTypeOK' /\ hand' = hand /\ task[k].at # "idle"
    BY <1>1, <2>1, CountType DEF Delete, DeleteOne, WorldTypeOK
  <2> DEFINE t == [task[k] EXCEPT !.todo = @ \ {Oldest(task[k].todo)},
                                  !.ok = @ /\ Deleted(a), !.at = CatchRefusal(a, "delete")]
  <2>3. task' = [task EXCEPT ![k] = t]
    BY <2>1 DEF TaskTypeOK
  <2>4. t \in Tasks /\ t.at # "idle"
    BY <1>0 DEF Tasks, Places, CatchRefusal, Deleted
  <2> HIDE DEF t
  <2> QED
    BY <2>2, <2>3, <2>4, TaskStep
<1>2. CASE RecordDeleted(k)
  <2>1. Notify(task[k].act, "deleted") \in Places \ {"idle"}
    BY NotifyPlace DEF Places
  <2>2. WorldTypeOK' /\ hand' = hand /\ task[k].at # "idle" /\ Go(k, Notify(task[k].act, "deleted"))
    BY <1>2 DEF RecordDeleted, SetStage, WorldTypeOK
  <2> QED
    BY <2>1, <2>2, GoStep
<1>3. CASE FallBackToWarn(k)
  <2> DEFINE t == [task[k] EXCEPT !.act = "warn", !.at = Notify("warn", stage[k])]
  <2>1. Notify("warn", stage[k]) \in Places \ {"idle"}
    BY NotifyPlace DEF Places
  <2>2. WorldTypeOK' /\ hand' = hand /\ task[k].at # "idle"
    BY <1>3 DEF FallBackToWarn, WorldTypeOK
  <2>3. task' = [task EXCEPT ![k] = t]
    BY <1>3 DEF FallBackToWarn, TaskTypeOK
  <2>4. t \in Tasks /\ t.at # "idle"
    BY <1>0, <2>1 DEF Tasks, Actions
  <2> HIDE DEF t
  <2> QED
    BY <2>2, <2>3, <2>4, TaskStep
<1>4. CASE Repost(k)
  <2>1. PICK a \in Answers :
          /\ Count(a)
          /\ posts' = IF Effective(a) THEN [posts EXCEPT ![EventOf(k)].redacted = @ + 1] ELSE posts
          /\ Go(k, IF a = "ok" THEN "reposted" ELSE "raised")
    BY <1>4 DEF Repost
  <2>2. posts' \in [Events -> [released : Nat, redacted : Nat]]
    <3> DEFINE p == [posts[EventOf(k)] EXCEPT !.redacted = @ + 1]
    <3>1. EventOf(k) \in Events /\ posts[EventOf(k)] \in [released : Nat, redacted : Nat]
      BY DEF WorldTypeOK
    <3>2. p \in [released : Nat, redacted : Nat]
      BY <3>1
    <3>3. posts' = [posts EXCEPT ![EventOf(k)] = p] \/ posts' = posts
      BY <2>1 DEF WorldTypeOK
    <3> HIDE DEF p
    <3> QED
      BY <3>1, <3>2, <3>3 DEF WorldTypeOK
  <2>3. WorldTypeOK' /\ hand' = hand /\ task[k].at # "idle"
    BY <1>4, <2>1, <2>2, CountType DEF Repost, WorldTypeOK
  <2> QED
    BY <2>1, <2>3, GoStep DEF Places
<1>5. CASE RecordReposted(k)
  <2>1. WorldTypeOK' /\ hand' = hand /\ task[k].at # "idle" /\ Go(k, "notice")
    BY <1>5 DEF RecordReposted, SetStage, WorldTypeOK
  <2> QED
    BY <2>1, GoStep DEF Places
<1>6. CASE Notice(k)
  <2>1. PICK a \in Answers :
          /\ Count(a)
          /\ notices' = IF Effective(a) THEN [notices EXCEPT ![EventOf(k)] = @ + 1] ELSE notices
          /\ Go(k, CatchRefusal(a, "notified"))
    BY <1>6 DEF Notice
  <2>2. WorldTypeOK' /\ hand' = hand /\ task[k].at # "idle"
    BY <1>6, <2>1, CountType DEF Notice, WorldTypeOK
  <2> QED
    BY <2>1, <2>2, GoStep DEF Places, CatchRefusal
<1>7. CASE RecordNotified(k)
  <2>1. WorldTypeOK' /\ hand' = hand /\ task[k].at # "idle" /\ Go(k, "audit")
    BY <1>7 DEF RecordNotified, SetStage, WorldTypeOK
  <2> QED
    BY <2>1, GoStep DEF Places
<1>8. CASE Audit(k)
  <2> DEFINE l == [act |-> task[k].act, msgs |-> Targets(k)]
  <2>1. PICK a \in Answers \ {"refused"} :
          /\ Count(a)
          /\ trail' = IF Effective(a) THEN [trail EXCEPT ![EventOf(k)] = @ \cup {l}] ELSE trail
          /\ Go(k, IF a = "ok" THEN "return" ELSE "raised")
    BY <1>8 DEF Audit
  <2>2. Targets(k) \in SUBSET Msgs
    BY <1>0 DEF Targets, Tasks, MsgAt, EventOf, Msgs
  <2>3. l \in [act : Actions \cup {"none"}, msgs : SUBSET Msgs]
    BY <1>0, <2>2 DEF Tasks
  <2> HIDE DEF l
  <2>4. trail' \in [Events -> SUBSET [act : Actions \cup {"none"}, msgs : SUBSET Msgs]]
    BY <1>0, <2>1, <2>3 DEF WorldTypeOK
  <2>5. WorldTypeOK' /\ hand' = hand /\ task[k].at # "idle"
    BY <1>8, <2>1, <2>4, CountType DEF Audit, WorldTypeOK
  <2> QED
    BY <2>1, <2>5, GoStep DEF Places
<1> QED
  BY <1>1, <1>2, <1>3, <1>4, <1>5, <1>6, <1>7, <1>8 DEF EffectStep

\* A write fails.
LEMMA FaultTypes == ASSUME TypeOK, StateTypeOK, NEW k \in Keys, WriteFault(k) PROVE StateTypeOK'
<1> USE DEF StateTypeOK
<1>1. faults' \in 0..MaxFaults
  BY FaultAssumption DEF WriteFault, WriteRaises, ThreadEnds, WorldTypeOK
<1>2. WorldTypeOK'
  BY <1>1 DEF WriteFault, WriteRaises, ThreadEnds, WorldTypeOK, memory, files, slack, intake
<1>3. CASE WriteRaises(k)
  <2>1. hand' = hand /\ task[k].at # "idle"
    BY <1>3 DEF WriteRaises, AtWrite, queueVars
  <2> QED
    BY <1>2, <1>3, <2>1, GoStep DEF WriteRaises, Places
<1>4. CASE ThreadEnds(k)
  <2>1. Idle \in Tasks /\ Idle.at = "idle"
    BY DEF Idle, Tasks, Places
  <2> HIDE DEF Idle
  <2> QED
    BY <1>2, <1>4, <2>1 DEF ThreadEnds, EndThread, TaskTypeOK, TypeOK
<1> QED
  BY <1>3, <1>4 DEF WriteFault

\* A claimed job starts from scratch, and the other tasks stay.
LEMMA ClaimTask ==
  ASSUME task \in [Keys -> Tasks], NEW k \in Keys, ClaimJob(k)
  PROVE  /\ \A j \in Keys \ {k} : task'[j] = task[j]
         /\ task'[k].at = "decide" /\ task'[k].ok /\ ~task'[k].hold /\ task'[k].earlier = {}
<1>1. \A b \in BOOLEAN : LET t == [Idle EXCEPT !.at = "decide", !.asks = b]
                        IN  t.at = "decide" /\ t.ok /\ ~t.hold /\ t.earlier = {}
  BY DEF Idle
<1> DEFINE b == k[1] = DEEP /\ name = "unknown"
           t == [Idle EXCEPT !.at = "decide", !.asks = b]
<1>2. task' = [task EXCEPT ![k] = t]
  BY DEF ClaimJob
<1>3. b \in BOOLEAN
  OBVIOUS
<1>4. t.at = "decide" /\ t.ok /\ ~t.hold /\ t.earlier = {}
  BY <1>1, <1>3
<1> HIDE DEF t
<1> QED
  BY <1>2, <1>4

\* A job begins and ends.
LEMMA JobTypes ==
  ASSUME TypeOK, StateTypeOK, NEW k \in Keys, ClaimJob(k) \/ Return(k) \/ Advance(k) \/ Raise(k)
  PROVE  StateTypeOK'
<1> USE DEF memory, files, slack, intake, StateTypeOK
<1>1. Idle \in Tasks /\ Idle.at = "idle"
      /\ \A b \in BOOLEAN : /\ [Idle EXCEPT !.at = "decide", !.asks = b] \in Tasks
                            /\ [Idle EXCEPT !.at = "decide", !.asks = b].at = "decide"
  BY DEF Idle, Tasks, Places
<1> HIDE DEF Idle
<1>2. WorldTypeOK'
  BY DEF ClaimJob, Return, Advance, Raise, WorldTypeOK
<1>3. CASE ClaimJob(k)
  BY <1>1, <1>2, <1>3 DEF ClaimJob, Claim, TaskTypeOK, TypeOK
<1>4. CASE Return(k)
  BY <1>1, <1>2, <1>4 DEF Return, Done, TaskTypeOK, TypeOK
<1>5. CASE Advance(k)
  BY <1>1, <1>2, <1>5 DEF Advance, AdvanceCursor, TaskTypeOK, TypeOK
<1>6. CASE Raise(k)
  BY <1>1, <1>2, <1>6 DEF Raise, Fail, TaskTypeOK, TypeOK
<1> QED
  BY <1>3, <1>4, <1>5, <1>6

\* Every step of the worker preserves the types of its state.
LEMMA StepTypes == TypeOK /\ StateTypeOK /\ [WorkerNext]_vars => StateTypeOK'
<1> SUFFICES ASSUME TypeOK, StateTypeOK, [WorkerNext]_vars PROVE StateTypeOK'
  OBVIOUS
<1>1. CASE UNCHANGED vars
  BY <1>1 DEF vars, queueVars, slack, intake, memory, files, StateTypeOK, WorldTypeOK, TaskTypeOK
<1>2. CASE Outside \/ \E e \in Events : Deliver(e)
  BY <1>2, OutsideTypes
<1>3. CASE Lifecycle
  BY <1>3, LifecycleTypes
<1>4. ASSUME NEW k \in Keys, ClaimJob(k) \/ ThreadStep(k) \/ WriteFault(k) PROVE StateTypeOK'
  BY <1>4, TriageTypes, DeepTypes, EffectTypes, JobTypes, FaultTypes DEF ThreadStep
<1> QED
  BY <1>1, <1>2, <1>3, <1>4 DEF WorkerNext

\* The types of the worker's state, but for its window of messages.
THEOREM WorkerTypes == WorkerSpec => []StateTypeOK
<1>1. WorkerInit => TypeOK /\ StateTypeOK
  BY InitTypes, InitType DEF WorkerInit
<1>2. TypeOK /\ StateTypeOK /\ [WorkerNext]_vars => TypeOK' /\ StateTypeOK'
  BY StepTypes, QueueStep, NextType
<1> QED
  BY <1>1, <1>2, PTL DEF WorkerSpec

\* The worker is a client of the queue: whatever it does to the queue, through all handlers,
\* crashes and restarts, is a behaviour of the queue.
THEOREM WorkerIsAClient == WorkerSpec => Spec
<1>1. WorkerInit => Init
  BY DEF WorkerInit
<1> QED
  BY <1>1, QueueStep, WorkerTypes, PTL DEF WorkerSpec, Spec

\* So the queue's invariant holds in the worker, and with it, for one layout, the order per author.
THEOREM QueueInWorker == WorkerSpec => []IInv
  BY WorkerIsAClient, Invariance, PTL

\* With fixed partition counts, the worker handles the jobs of one author one at a time and in
\* the order they were stored.
THEOREM WorkerKeepsOrder == ASSUME FixedLayout PROVE WorkerSpec => []OrderPerAuthor
  BY WorkerIsAClient, AuthorsInOrder, PTL

(***************************************************************************)
(* Nothing gets past the checks.                                           *)
(***************************************************************************)

\* What a step may do to records, decisions and rows.
Traces ==
  /\ LanesApart'
  /\ \A e \in Events : trail[e] \subseteq trail'[e]
  /\ \A j \in Keys : task'[j].at = "return" =>
       \/ task[j].at = "return"
       \/ trail'[EventOf(j)] # {}
       \/ j[1] = TRIAGE /\ (InDeepLane(EventOf(j))' \/ trail[EventOf(j)] # {})
  /\ \A j \in Keys : status'[j] = "done" => status[j] = "done" \/ task[j].at = "return"
  /\ \A e \in Events : InDeepLane(e) => InDeepLane(e)' \/ task[<<DEEP, e>>].at = "return"

\* A step that leaves traces as it must keeps every decision traced.
LEMMA TracesSuffice == DecisionsTraced /\ Traces => DecisionsTraced'
<1> SUFFICES ASSUME DecisionsTraced, Traces PROVE DecisionsTraced'
  OBVIOUS
<1> USE JobsAreKeys
<1>1. ASSUME NEW e \in Events
      PROVE  /\ (DoneFor(DEEP, e) \/ task[<<DEEP, e>>].at = "return" => trail[e] # {})'
             /\ (DoneFor(TRIAGE, e) \/ task[<<TRIAGE, e>>].at = "return" =>
                   trail[e] # {} \/ InDeepLane(e))'
  <2> DEFINE t == <<TRIAGE, e>>
             d == <<DEEP, e>>
  <2>1. /\ EventOf(t) = e /\ EventOf(d) = e /\ d[1] # TRIAGE
        /\ t \in Keys /\ d \in Keys
    BY DEF EventOf, TRIAGE, DEEP
  <2>2. trail[e] # {} => trail'[e] # {}
    BY DEF Traces
  <2>3. status'[d] = "done" \/ task'[d].at = "return" => trail'[e] # {}
    BY <2>1, <2>2 DEF Traces, DecisionsTraced, DoneFor
  <2>4. status'[t] = "done" \/ task'[t].at = "return" => trail'[e] # {} \/ InDeepLane(e)'
    BY <2>1, <2>2 DEF Traces, DecisionsTraced, DoneFor
  <2> QED
    BY <2>3, <2>4 DEF DoneFor
<1> QED
  BY <1>1 DEF DecisionsTraced, Traces

\* A step that only moves one handler, short of its end, within its lane.
LEMMA MoveTraces ==
  ASSUME LanesApart, NEW k \in Keys, \A j \in Keys \ {k} : task'[j] = task[j],
         task'[k].at # "return",
         task'[k].at \in {"lookup", "hold", "held", "handoff"} => k[1] = TRIAGE,
         status' = status, trail' = trail
  PROVE  Traces
  BY DEF Traces, LanesApart, InDeepLane

\* Triage ends with a line on record or with the deep lane in charge.
LEMMA TriageTraces ==
  ASSUME TypeOK, StateTypeOK, DecisionsTraced, NEW k \in Keys, TriageStep(k) PROVE Traces
<1> USE JobsAreKeys DEF StateTypeOK
<1>0. task[k] \in Tasks /\ task \in [Keys -> Tasks] /\ LanesApart
  BY DEF TaskTypeOK, DecisionsTraced
<1>1. CASE Triage(k)
  <2>1. /\ status' = status /\ trail' = trail /\ k[1] = TRIAGE
        /\ \A j \in Keys \ {k} : task'[j] = task[j]
        /\ task'[k].at \in Places \ {"return"}
    BY <1>0, <1>1, NotifyPlace DEF Triage, Removal, queueVars, rows, files, Tasks, Places
  <2> QED
    BY <1>0, <2>1, MoveTraces
<1>2. CASE Lookup(k)
  <2>1. /\ status' = status /\ trail' = trail /\ k[1] = TRIAGE
        /\ \A j \in Keys \ {k} : task'[j] = task[j]
        /\ task'[k].at # "return"
    BY <1>0, <1>2 DEF Lookup, Go, queueVars, rows, files, Tasks, Places, LanesApart
  <2> QED
    BY <1>0, <2>1, MoveTraces
<1>3. CASE DeleteToHold(k)
  <2>1. /\ status' = status /\ trail' = trail /\ k[1] = TRIAGE
        /\ \A j \in Keys \ {k} : task'[j] = task[j]
        /\ task'[k].at # "return"
    BY <1>0, <1>3 DEF DeleteToHold, queueVars, rows, files, Tasks, Places, LanesApart
  <2> QED
    BY <1>0, <2>1, MoveTraces
<1>4. CASE RecordHeld(k)
  <2>1. /\ status' = status /\ trail' = trail /\ k[1] = TRIAGE
        /\ \A j \in Keys \ {k} : task'[j] = task[j]
        /\ task'[k].at # "return"
    BY <1>0, <1>4 DEF RecordHeld, SetStage, Go, files, Tasks, LanesApart
  <2> QED
    BY <1>0, <2>1, MoveTraces
<1>5. CASE HandOff(k)
  <2> DEFINE e == EventOf(k)
             d == <<DEEP, e>>
  <2>1. /\ k[1] = TRIAGE /\ trail' = trail /\ e \in Events /\ d \in Keys
        /\ \A j \in Keys \ {k} : task'[j] = task[j]
        /\ task'[k].at = "return"
    BY <1>0, <1>5 DEF HandOff, Go, LanesApart, Tasks
  <2>2. CASE Put(d)
    <3>1. status[d] = "absent" /\ status' = [status EXCEPT ![d] = "queued"]
      BY <2>2 DEF Put
    <3>2. InDeepLane(e)' /\ \A f \in Events : InDeepLane(f) => InDeepLane(f)'
      <4>1. ASSUME NEW f \in Events PROVE InDeepLane(f) => InDeepLane(f)'
        BY <2>1, <3>1 DEF InDeepLane, TypeOK
      <4> QED
        BY <2>1, <3>1, <4>1 DEF InDeepLane, TypeOK
    <3> QED
      BY <1>0, <2>1, <3>1, <3>2 DEF Traces, LanesApart
  <2>3. CASE status[d] # "absent" /\ UNCHANGED <<queueVars, carried>>
    <3>1. trail[e] # {} \/ InDeepLane(e)
      BY <2>1, <2>3 DEF DecisionsTraced, DoneFor, InDeepLane, TypeOK, Statuses
    <3> QED
      BY <1>0, <2>1, <2>3, <3>1 DEF Traces, LanesApart, InDeepLane, queueVars, rows
  <2> QED
    BY <1>5, <2>2, <2>3 DEF HandOff
<1> QED
  BY <1>1, <1>2, <1>3, <1>4, <1>5 DEF TriageStep

\* What a deep job goes on to once it has its verdict.
LEMMA DeepMoves ==
  ASSUME StateTypeOK, NEW k \in Keys, Deep(k)
  PROVE  /\ \A j \in Keys \ {k} : task'[j] = task[j]
         /\ task'[k].ok = task[k].ok
         /\ \/ task'[k].at = "raised"
            \/ /\ Reached(k, "deleted") /\ task'[k].act \in Removing
               /\ task'[k].at = Notify(task'[k].act, stage[k])
            \/ /\ task'[k].at = "delete" /\ task'[k].act \in Removing
               /\ MsgAt(k) \in task'[k].todo \/ carried[EventOf(k)].held
            \/ /\ task'[k].act \notin Removing
               /\ \/ task'[k].at = "release" /\ carried[EventOf(k)].held
                  \/ task'[k].at = NotifyUnlessAllowed(task'[k].act, stage[k])
<1> DEFINE e == EventOf(k)
           Related(v) == IF v.parts = {} THEN {} ELSE MsgsOf(v.parts \cup {e})
           Todo(v) == (IF Related(v) = {} THEN {MsgOf[e]} ELSE Related(v))
                      \ (IF carried[e].held THEN {MsgOf[e]} ELSE {})
           Place(v) == IF carried[e].held /\ ~Reached(k, "released") THEN "release"
                       ELSE NotifyUnlessAllowed(v.act, stage[k])
<1>1. PICK a \in Answers, v \in Verdicts[e] :
        \/ Go(k, "raised")
        \/ v.act \in Removing /\ Removal(k, [act |-> v.act, related |-> Related(v)], Todo(v))
        \/ /\ v.act \notin Removing
           /\ task' = [task EXCEPT ![k].at = Place(v), ![k].act = v.act, ![k].related = Related(v)]
  BY DEF Deep
<1>2. task \in [Keys -> Tasks] /\ task[k] \in Tasks
  BY DEF StateTypeOK, TaskTypeOK
<1>3. MsgAt(k) \in Todo(v) \/ carried[e].held
  BY DEF MsgsOf, MsgAt, EventOf
<1> HIDE DEF Todo, Related, Place
<1>4. CASE Go(k, "raised")
  BY <1>2, <1>4 DEF Go, Tasks
<1>5. CASE v.act \in Removing /\ Removal(k, [act |-> v.act, related |-> Related(v)], Todo(v))
  BY <1>2, <1>3, <1>5 DEF Removal, Tasks
<1>6. CASE /\ v.act \notin Removing
           /\ task' = [task EXCEPT ![k].at = Place(v), ![k].act = v.act, ![k].related = Related(v)]
  BY <1>2, <1>6 DEF Place, Tasks
<1> QED
  BY <1>1, <1>4, <1>5, <1>6

\* So does the deep lane, with a line on record.
LEMMA DeepTraces ==
  ASSUME StateTypeOK, DecisionsTraced, NEW k \in Keys, DeepStep(k) PROVE Traces
<1> USE JobsAreKeys DEF StateTypeOK
<1>0. task[k] \in Tasks /\ task \in [Keys -> Tasks] /\ LanesApart
  BY DEF TaskTypeOK, DecisionsTraced
<1>1. CASE Deep(k)
  <2>1. status' = status /\ trail' = trail
    BY <1>1 DEF Deep, queueVars, rows, files
  <2>2. /\ \A j \in Keys \ {k} : task'[j] = task[j]
        /\ task'[k].at \in {"raised", "delete", "release", "post", "notice", "audit"}
    BY <1>1, DeepMoves, NotifyPlace
  <2> QED
    BY <1>0, <2>1, <2>2, MoveTraces
<1>2. CASE Release(k)
  <2>1. /\ status' = status /\ trail' = trail
        /\ \A j \in Keys \ {k} : task'[j] = task[j]
        /\ task'[k].at \in {"released", "raised"}
    BY <1>0, <1>2 DEF Release, Go, queueVars, rows, files, Tasks
  <2> QED
    BY <1>0, <2>1, MoveTraces
<1>3. CASE RecordReleased(k)
  <2>1. /\ status' = status /\ trail' = trail
        /\ \A j \in Keys \ {k} : task'[j] = task[j]
        /\ task'[k].at \in {"post", "notice", "audit"}
    BY <1>0, <1>3, NotifyPlace DEF RecordReleased, SetStage, Go, files, Tasks
  <2> QED
    BY <1>0, <2>1, MoveTraces
<1> QED
  BY <1>1, <1>2, <1>3 DEF DeepStep

\* So do the side effects, which end with the audit line.
LEMMA EffectTraces ==
  ASSUME StateTypeOK, DecisionsTraced, NEW k \in Keys, EffectStep(k) PROVE Traces
<1> USE JobsAreKeys DEF StateTypeOK
<1>0. task[k] \in Tasks /\ task \in [Keys -> Tasks] /\ LanesApart
  BY DEF TaskTypeOK, DecisionsTraced
<1>1. ASSUME ~Audit(k) PROVE Traces
  <2>1. /\ status' = status /\ trail' = trail
        /\ \A j \in Keys \ {k} : task'[j] = task[j]
    BY <1>0, <1>1 DEF EffectStep, Delete, RecordDeleted, FallBackToWarn, Repost, RecordReposted,
       Notice, RecordNotified, SetStage, Go, queueVars, rows, files
  <2>2. CASE Delete(k)
    BY <1>0, <2>1, <2>2, MoveTraces DEF Delete, CatchRefusal, Tasks
  <2>3. CASE RecordDeleted(k) \/ FallBackToWarn(k)
    <3>1. task'[k].at \in {"post", "notice", "audit"}
      BY <1>0, <2>3, NotifyPlace DEF RecordDeleted, FallBackToWarn, Go, Tasks
    <3> QED
      BY <1>0, <2>1, <3>1, MoveTraces
  <2>4. CASE Repost(k) \/ RecordReposted(k)
    BY <1>0, <2>1, <2>4, MoveTraces DEF Repost, RecordReposted, Go, Tasks
  <2>5. CASE Notice(k) \/ RecordNotified(k)
    BY <1>0, <2>1, <2>5, MoveTraces DEF Notice, RecordNotified, CatchRefusal, Go, Tasks
  <2> QED
    BY <1>1, <2>2, <2>3, <2>4, <2>5 DEF EffectStep
<1>2. CASE Audit(k)
  <2>1. PICK a \in Answers \ {"refused"} :
          /\ trail' = IF Effective(a)
                      THEN [trail EXCEPT ![EventOf(k)] =
                              @ \cup {[act |-> task[k].act, msgs |-> Targets(k)]}]
                      ELSE trail
          /\ Go(k, IF a = "ok" THEN "return" ELSE "raised")
    BY <1>2 DEF Audit
  <2>2. /\ status' = status
        /\ \A j \in Keys \ {k} : task'[j] = task[j]
        /\ task'[k].at \in {"return", "raised"}
        /\ task'[k].at = "return" => a = "ok"
    BY <1>0, <1>2, <2>1 DEF Audit, Go, queueVars, rows, Tasks
  <2>3. /\ \A e \in Events : trail[e] \subseteq trail'[e]
        /\ a = "ok" => trail'[EventOf(k)] # {}
    BY <2>1 DEF Effective, WorldTypeOK
  <2> QED
    BY <1>0, <2>2, <2>3 DEF Traces, LanesApart, InDeepLane
<1> QED
  BY <1>1, <1>2

\* Jobs begin and end, and the process stops and starts.
LEMMA JobTraces ==
  ASSUME TypeOK, HandsAgree, StateTypeOK, DecisionsTraced,
         NEW k \in Keys, ClaimJob(k) \/ Return(k) \/ Advance(k) \/ Raise(k)
  PROVE  Traces
<1> USE JobsAreKeys DEF StateTypeOK
<1>0. task[k] \in Tasks /\ task \in [Keys -> Tasks] /\ LanesApart
  BY DEF TaskTypeOK, DecisionsTraced
<1>1. CASE ClaimJob(k)
  <2>1. /\ trail' = trail /\ status[k] = "queued"
        /\ \A j \in Keys \ {k} : task'[j] = task[j] /\ status'[j] = status[j]
        /\ task'[k].at = "decide" /\ status'[k] = "processing"
    BY <1>0, <1>1 DEF ClaimJob, Claim, LaneHead, files, Idle, TypeOK
  <2> QED
    BY <1>0, <2>1 DEF Traces, LanesApart, InDeepLane
<1>2. CASE Return(k)
  <2>1. /\ trail' = trail /\ task[k].at = "return"
        /\ \A j \in Keys \ {k} : task'[j] = task[j] /\ status'[j] = status[j]
        /\ task'[k].at = "idle" /\ status'[k] = "done"
    BY <1>0, <1>2 DEF Return, Done, files, Idle, TypeOK
  <2> QED
    BY <1>0, <2>1 DEF Traces, LanesApart, InDeepLane
<1>3. CASE Advance(k)
  BY <1>0, <1>3 DEF Advance, AdvanceCursor, rows, files, Traces, LanesApart, InDeepLane
<1>4. CASE Raise(k)
  <2>1. /\ trail' = trail
        /\ \A j \in Keys \ {k} : task'[j] = task[j] /\ status'[j] = status[j]
        /\ task'[k].at = "idle" /\ status'[k] \in {"dead", "queued"}
    BY <1>0, <1>4 DEF Raise, Fail, files, Idle, TypeOK
  <2> QED
    BY <1>0, <2>1 DEF Traces, LanesApart, InDeepLane
<1> QED
  BY <1>1, <1>2, <1>3, <1>4

\* A write that fails settles nothing but a dead job.
LEMMA FaultTraces ==
  ASSUME TypeOK, HandsAgree, StateTypeOK, DecisionsTraced, NEW k \in Keys, WriteFault(k) PROVE Traces
<1> USE JobsAreKeys DEF StateTypeOK
<1>0. task[k] \in Tasks /\ task \in [Keys -> Tasks] /\ LanesApart
  BY DEF TaskTypeOK, DecisionsTraced
<1>1. CASE WriteRaises(k)
  <2>1. /\ trail' = trail /\ status' = status
        /\ \A j \in Keys \ {k} : task'[j] = task[j]
        /\ task'[k].at = "raised"
    BY <1>0, <1>1 DEF WriteRaises, Go, files, queueVars, rows, Tasks
  <2> QED
    BY <1>0, <2>1, MoveTraces
<1>2. CASE ThreadEnds(k)
  <2>1. /\ trail' = trail
        /\ \A j \in Keys \ {k} : task'[j] = task[j] /\ status'[j] = status[j]
        /\ task'[k].at = "idle" /\ status'[k] \in {status[k], "dead"}
        /\ status'[k] # status[k] => status[k] # "done"
    BY <1>0, <1>2, KeyAssumption DEF ThreadEnds, EndThread, files, Idle, TypeOK, HandsAgree
  <2> QED
    BY <1>0, <2>1 DEF Traces, LanesApart, InDeepLane
<1> QED
  BY <1>1, <1>2 DEF WriteFault

\* An event that is stored leaves what is in the deep lane there.
LEMMA EnqueueTraces ==
  ASSUME TypeOK, DecisionsTraced, NEW e \in Events, Enqueue(e), trail' = trail, task' = task
  PROVE  Traces
<1>1. \A j \in Keys : status'[j] = status[j] \/ (status[j] = "absent" /\ status'[j] = "queued")
  BY JobsAreKeys DEF Enqueue, Put, queueVars, rows, TypeOK
<1> QED
  BY <1>1, JobsAreKeys DEF DecisionsTraced, Traces, LanesApart, InDeepLane

\* Starts and stops lose no trace; what is pruned was done.
LEMMA LifecycleTraces ==
  ASSUME TypeOK, HandsAgree, StateTypeOK, DecisionsTraced, Lifecycle PROVE Traces
<1> USE JobsAreKeys DEF StateTypeOK
<1>0. task \in [Keys -> Tasks] /\ LanesApart
  BY DEF TaskTypeOK, DecisionsTraced
<1>1. ASSUME NEW expired \in SUBSET Keys, NEW lay \in Layouts, WorkerRestart(expired, lay)
      PROVE  Traces
  <2>1. /\ trail' = trail /\ task' = task
        /\ \A j \in Keys : \/ status[j] = "done" /\ status'[j] \in {"done", "absent"}
                           \/ status[j] # "done" /\ status'[j] = Recovered(status[j])
    BY <1>1 DEF WorkerRestart, Restart, files, Recovered, Prunable
  <2> QED
    BY <1>0, <2>1 DEF Traces, LanesApart, InDeepLane, Recovered
<1>2. CASE CatchUp
  <2>1. Head(backlog) \in Events /\ trail' = trail /\ task' = task
    BY <1>2, HeadTailProperties DEF CatchUp, WorldTypeOK, files
  <2>2. CASE Enqueue(Head(backlog))
    BY <2>1, <2>2, EnqueueTraces
  <2>3. CASE UNCHANGED queueVars
    BY <1>0, <2>1, <2>3 DEF Traces, LanesApart, InDeepLane, queueVars, rows
  <2> QED
    BY <1>2, <2>2, <2>3 DEF CatchUp
<1>3. CASE WorkerStart
  BY <1>0, <1>3 DEF WorkerStart, StartThreads, rows, files, Traces, LanesApart, InDeepLane
<1>4. CASE WorkerCrash
  <2>1. /\ trail' = trail /\ \A j \in Keys : task'[j].at = "idle"
        /\ \A j \in Keys : status'[j] = status[j] \/ (status[j] = "processing" /\ status'[j] = "dead")
    BY <1>4 DEF WorkerCrash, Crash, CrashInFail, HandsAgree, rows, files, Idle, TypeOK, TaskTypeOK
  <2> QED
    BY <1>0, <2>1 DEF Traces, LanesApart, InDeepLane
<1>5. CASE WorkerTick
  BY <1>0, <1>5 DEF WorkerTick, Tick, files, Traces, LanesApart, InDeepLane
<1> QED
  BY <1>1, <1>2, <1>3, <1>4, <1>5 DEF Lifecycle

\* Every step of the worker keeps the decisions traced.
LEMMA StepTraces ==
  ASSUME IInv, StateTypeOK, DecisionsTraced, [WorkerNext]_vars PROVE DecisionsTraced'
<1>0. TypeOK /\ HandsAgree /\ LanesApart
  BY DEF IInv, DecisionsTraced
<1>1. ASSUME UNCHANGED vars \/ Outside PROVE DecisionsTraced'
  <2>1. status' = status /\ trail' = trail /\ task' = task
    BY <1>1 DEF vars, Outside, Write, Drop, queueVars, rows, files
  <2> QED
    BY <2>1, <1>0 DEF DecisionsTraced, DoneFor, LanesApart, InDeepLane
<1>2. ASSUME NEW e \in Events, Deliver(e) PROVE Traces
  <2>1. Enqueue(e) /\ trail' = trail /\ task' = task
    BY <1>2 DEF Deliver, files
  <2> QED
    BY <1>0, <2>1, EnqueueTraces
<1>3. ASSUME Lifecycle PROVE Traces
  BY <1>0, <1>3, LifecycleTraces
<1>4. ASSUME NEW k \in Keys, ClaimJob(k) \/ ThreadStep(k) \/ WriteFault(k) PROVE Traces
  BY <1>0, <1>4, TriageTraces, DeepTraces, EffectTraces, JobTraces, FaultTraces DEF ThreadStep
<1>5. \/ UNCHANGED vars \/ Outside
      \/ \E e \in Events : Deliver(e)
      \/ Lifecycle
      \/ \E k \in Keys : ClaimJob(k) \/ ThreadStep(k) \/ WriteFault(k)
  BY DEF WorkerNext
<1> QED
  BY <1>1, <1>2, <1>3, <1>4, <1>5, TracesSuffice

\* Decisions are on record before handlers return.
LEMMA AllTraced == WorkerSpec => []DecisionsTraced
<1>1. WorkerInit => DecisionsTraced
  BY JobsAreKeys DEF WorkerInit, Init, DecisionsTraced, LanesApart, DoneFor, Idle
<1> QED
  BY <1>1, StepTraces, QueueInWorker, WorkerTypes, PTL DEF WorkerSpec

\* No message gets past the checks: whatever the interleaving of lanes, failures, crashes and
\* restarts, a settled job has its decision on record or has passed it on to the deep lane.
THEOREM NothingSkips == WorkerSpec => []NothingSkipsTheChecks
<1>1. DecisionsTraced => NothingSkipsTheChecks
  BY DEF DecisionsTraced, NothingSkipsTheChecks, InDeepLane, Open, DeadFor
<1> QED
  BY <1>1, AllTraced, PTL

(***************************************************************************)
(* The author of a removed message is told, unless Slack refuses calls.    *)
(***************************************************************************)

\* A step loses no notice, and takes for notified only what was or is.
Tells ==
  /\ \A e \in Events : notices[e] > 0 => notices'[e] > 0
  /\ \A j \in Keys : ToldBy(j)' => ToldBy(j) \/ notices'[EventOf(j)] > 0
  /\ \A e \in Events : \A l \in trail'[e] : SaidToRemove(l) => l \in trail[e] \/ notices'[e] > 0

\* A step that tells before it records keeps removals told.
LEMMA TellsSuffice == RemovalsTold /\ ("refused" \notin Faults => Tells) => RemovalsTold'
  BY JobsAreKeys DEF RemovalsTold, Tells, RemovalIsNotified

\* A step that tells nobody, and after which no removal is taken for notified.
LEMMA MoveTells ==
  ASSUME NEW k \in Keys, \A j \in Keys \ {k} : task'[j] = task[j] /\ stage'[j] \in {stage[j], NoStage},
         ToldBy(k)' => ToldBy(k), notices' = notices, trail' = trail
  PROVE  Tells
  BY DEF Tells, ToldBy, NoStage

\* Of the stages, only the last counts as notified.
LEMMA LastStage ==
  ASSUME NEW s \in Stages
  PROVE  /\ AtLeast(s, "notified") <=> s = "notified"
         /\ AtLeast(s, "reposted") <=> s \in {"reposted", "notified"}
         /\ AtLeast(s, "released") <=> s \in {"released", "reposted", "notified"}
         /\ AtLeast(s, "deleted") <=> s \in {"deleted", "released", "reposted", "notified"}
         /\ AtLeast(s, "held") <=> s # NoStage
  BY KeyAssumption DEF AtLeast, STAGES, NoStage, Range

\* Triage records no removal that was not told.
LEMMA TriageTells ==
  ASSUME TypeOK, StateTypeOK, LanesApart, NEW k \in Keys, TriageStep(k) PROVE Tells
<1> USE JobsAreKeys DEF StateTypeOK
<1>0. task[k] \in Tasks /\ task \in [Keys -> Tasks] /\ stage[k] \in Stages
  BY DEF TaskTypeOK, TypeOK
<1>1. CASE Triage(k)
  <2>1. /\ stage' = stage /\ notices' = notices /\ trail' = trail
        /\ \A j \in Keys \ {k} : task'[j] = task[j]
        /\ \/ task'[k].at = Notify(task'[k].act, stage[k])
           \/ task'[k].at \in {"delete", "lookup"}
    BY <1>0, <1>1 DEF Triage, Removal, queueVars, rows, slack, files, Tasks
  <2>2. ToldBy(k)' => ToldBy(k)
    BY <1>0, <2>1, LastStage DEF ToldBy, Notify
  <2> QED
    BY <2>1, <2>2, MoveTells
<1>2. CASE Lookup(k)
  <2>1. /\ stage' = stage /\ notices' = notices /\ trail' = trail
        /\ \A j \in Keys \ {k} : task'[j] = task[j]
        /\ task'[k].at \in {"raised", "hold", "handoff"}
    BY <1>0, <1>2 DEF Lookup, Go, queueVars, rows, slack, files, Tasks
  <2> QED
    BY <2>1, MoveTells DEF ToldBy
<1>3. CASE DeleteToHold(k)
  <2>1. /\ stage' = stage /\ notices' = notices /\ trail' = trail
        /\ \A j \in Keys \ {k} : task'[j] = task[j]
        /\ task'[k].at \in {"raised", "held", "handoff"}
    BY <1>0, <1>3 DEF DeleteToHold, queueVars, rows, files, Tasks
  <2> QED
    BY <2>1, MoveTells DEF ToldBy
<1>4. CASE RecordHeld(k)
  <2>1. /\ stage' = [stage EXCEPT ![k] = "held"] /\ notices' = notices /\ trail' = trail
        /\ \A j \in Keys \ {k} : task'[j] = task[j]
        /\ task'[k].at = "handoff"
    BY <1>0, <1>4 DEF RecordHeld, SetStage, Go, slack, files, Tasks
  <2>2. stage'[k] = "held" /\ \A j \in Keys \ {k} : stage'[j] = stage[j]
    BY <2>1 DEF TypeOK
  <2> QED
    BY <2>1, <2>2, MoveTells DEF ToldBy
<1>5. CASE HandOff(k)
  <2>1. /\ notices' = notices /\ trail' = trail
        /\ \A j \in Keys \ {k} : task'[j] = task[j]
        /\ task'[k].at = "return" /\ k # <<DEEP, EventOf(k)>>
    BY <1>0, <1>5 DEF HandOff, Go, slack, Tasks, LanesApart, TRIAGE, DEEP
  <2>2. \A j \in Keys : stage'[j] \in {stage[j], NoStage}
    BY <1>5 DEF HandOff, Put, queueVars, rows, TypeOK
  <2>3. ToldBy(k)' => ToldBy(k)
    BY <2>1, <2>2 DEF ToldBy, NoStage
  <2> QED
    BY <2>1, <2>2, <2>3, MoveTells
<1> QED
  BY <1>1, <1>2, <1>3, <1>4, <1>5 DEF TriageStep

\* Nor does the deep lane.
LEMMA DeepTells ==
  ASSUME TypeOK, StateTypeOK, NEW k \in Keys, DeepStep(k) PROVE Tells
<1> USE JobsAreKeys DEF StateTypeOK
<1>0. task[k] \in Tasks /\ task \in [Keys -> Tasks] /\ stage[k] \in Stages
  BY DEF TaskTypeOK, TypeOK
<1>1. CASE Deep(k)
  <2>1. stage' = stage /\ notices' = notices /\ trail' = trail
    BY <1>1 DEF Deep, queueVars, rows, slack, files
  <2>2. /\ \A j \in Keys \ {k} : task'[j] = task[j]
        /\ task'[k].at = "audit" => stage[k] = "notified" \/ task'[k].act \notin Removing
        /\ task'[k].at # "notified"
    BY <1>0, <1>1, DeepMoves, LastStage DEF Notify, NotifyUnlessAllowed
  <2> QED
    BY <2>1, <2>2, MoveTells DEF ToldBy
<1>2. CASE Release(k)
  <2>1. /\ stage' = stage /\ notices' = notices /\ trail' = trail
        /\ \A j \in Keys \ {k} : task'[j] = task[j]
        /\ task'[k].at \in {"released", "raised"}
    BY <1>0, <1>2 DEF Release, Go, queueVars, rows, files, Tasks
  <2> QED
    BY <2>1, MoveTells DEF ToldBy
<1>3. CASE RecordReleased(k)
  <2>1. /\ stage' = [stage EXCEPT ![k] = "released"] /\ notices' = notices /\ trail' = trail
        /\ \A j \in Keys \ {k} : task'[j] = task[j]
        /\ task'[k].at = NotifyUnlessAllowed(task[k].act, "released")
        /\ task'[k].act = task[k].act
    BY <1>0, <1>3 DEF RecordReleased, SetStage, Go, slack, files, Tasks
  <2>2. /\ stage'[k] = "released" /\ \A j \in Keys \ {k} : stage'[j] = stage[j]
        /\ task'[k].at = "audit" => task'[k].act \notin Removing
        /\ task'[k].at # "notified"
    BY <2>1, LastStage DEF TypeOK, NotifyUnlessAllowed, Notify, Removing
  <2> QED
    BY <2>1, <2>2, MoveTells DEF ToldBy
<1> QED
  BY <1>1, <1>2, <1>3 DEF DeepStep

\* Nor do the side effects: the notice comes before its stage and before the audit line.
LEMMA EffectTells ==
  ASSUME TypeOK, StateTypeOK, RemovalsTold, "refused" \notin Faults,
         NEW k \in Keys, EffectStep(k)
  PROVE  Tells
<1> USE JobsAreKeys DEF StateTypeOK
<1>0. task[k] \in Tasks /\ task \in [Keys -> Tasks] /\ stage[k] \in Stages
  BY DEF TaskTypeOK, TypeOK
<1>1. CASE Delete(k)
  <2>1. /\ stage' = stage /\ notices' = notices /\ trail' = trail
        /\ \A j \in Keys \ {k} : task'[j] = task[j]
        /\ task'[k].at \in {"delete", "raised"}
    BY <1>0, <1>1 DEF Delete, CatchRefusal, queueVars, rows, files, Tasks
  <2> QED
    BY <2>1, MoveTells DEF ToldBy
<1>2. CASE RecordDeleted(k)
  <2>1. /\ stage' = [stage EXCEPT ![k] = "deleted"] /\ notices' = notices /\ trail' = trail
        /\ \A j \in Keys \ {k} : task'[j] = task[j]
        /\ task'[k].at = Notify(task[k].act, "deleted")
    BY <1>0, <1>2 DEF RecordDeleted, SetStage, Go, slack, files, Tasks
  <2>2. /\ stage'[k] = "deleted" /\ \A j \in Keys \ {k} : stage'[j] = stage[j]
        /\ task'[k].at \in {"post", "notice"}
    BY <2>1, LastStage, JobsAreKeys DEF TypeOK, Notify
  <2> QED
    BY <2>1, <2>2, MoveTells DEF ToldBy
<1>3. CASE FallBackToWarn(k)
  <2>1. /\ stage' = stage /\ notices' = notices /\ trail' = trail
        /\ \A j \in Keys \ {k} : task'[j] = task[j]
        /\ task'[k].act = "warn" /\ task'[k].at \in {"post", "notice", "audit"}
    BY <1>0, <1>3, NotifyPlace DEF FallBackToWarn, queueVars, rows, slack, files, Tasks
  <2> QED
    BY <2>1, MoveTells DEF ToldBy, Removing
<1>4. CASE Repost(k)
  <2>1. /\ stage' = stage /\ notices' = notices /\ trail' = trail
        /\ \A j \in Keys \ {k} : task'[j] = task[j]
        /\ task'[k].at \in {"reposted", "raised"}
    BY <1>0, <1>4 DEF Repost, Go, queueVars, rows, files, Tasks
  <2> QED
    BY <2>1, MoveTells DEF ToldBy
<1>5. CASE RecordReposted(k)
  <2>1. /\ stage' = [stage EXCEPT ![k] = "reposted"] /\ notices' = notices /\ trail' = trail
        /\ \A j \in Keys \ {k} : task'[j] = task[j]
        /\ task'[k].at = "notice"
    BY <1>0, <1>5 DEF RecordReposted, SetStage, Go, slack, files, Tasks
  <2>2. stage'[k] = "reposted" /\ \A j \in Keys \ {k} : stage'[j] = stage[j]
    BY <2>1 DEF TypeOK
  <2> QED
    BY <2>1, <2>2, MoveTells DEF ToldBy
<1>6. CASE Notice(k)
  <2>1. PICK a \in Answers :
          /\ notices' = IF Effective(a) THEN [notices EXCEPT ![EventOf(k)] = @ + 1] ELSE notices
          /\ Go(k, CatchRefusal(a, "notified"))
    BY <1>6 DEF Notice
  <2>2. /\ stage' = stage /\ trail' = trail
        /\ \A j \in Keys \ {k} : task'[j] = task[j]
        /\ task'[k].at = CatchRefusal(a, "notified")
    BY <1>0, <1>6, <2>1 DEF Notice, Go, queueVars, rows, files, Tasks
  <2>3. a # "refused"
    BY DEF Answers
  <2>4. /\ \A e \in Events : notices[e] > 0 => notices'[e] > 0
        /\ Effective(a) => notices'[EventOf(k)] > 0
    BY <2>1 DEF WorldTypeOK
  <2>5. task'[k].at = "raised" \/ (task'[k].at = "notified" /\ Effective(a))
    <3>1. a \in {"ok", "failed", "lost"}
      BY <2>3, FaultAssumption DEF Answers
    <3>2. CASE a \in {"failed", "lost"}
      <4>1. task'[k].at = "raised"
        BY <2>2, <3>2 DEF CatchRefusal, Raises
      <4> QED
        BY <4>1
    <3>3. CASE a = "ok"
      <4>1. task'[k].at = "notified"
        BY <2>2, <3>3 DEF CatchRefusal, Raises
      <4> QED
        BY <3>3, <4>1 DEF Effective
    <3> QED
      BY <3>1, <3>2, <3>3
  <2>6. ASSUME NEW j \in Keys, ToldBy(j)' PROVE ToldBy(j) \/ notices'[EventOf(j)] > 0
    <3>1. CASE j = k
      BY <2>2, <2>4, <2>5, <2>6, <3>1 DEF ToldBy
    <3>2. CASE j # k
      BY <2>2, <2>6, <3>2 DEF ToldBy
    <3> QED
      BY <3>1, <3>2
  <2> QED
    BY <2>2, <2>4, <2>6 DEF Tells
<1>7. CASE RecordNotified(k)
  <2>1. /\ stage' = [stage EXCEPT ![k] = "notified"] /\ notices' = notices /\ trail' = trail
        /\ \A j \in Keys \ {k} : task'[j] = task[j]
        /\ task[k].at = "notified"
    BY <1>0, <1>7 DEF RecordNotified, SetStage, Go, slack, files, Tasks
  <2> QED
    BY <2>1, MoveTells DEF ToldBy, TypeOK
<1>8. CASE Audit(k)
  <2> DEFINE l == [act |-> task[k].act, msgs |-> Targets(k)]
  <2>1. PICK a \in Answers : Go(k, IF a = "ok" THEN "return" ELSE "raised")
    BY <1>8 DEF Audit
  <2>4. /\ stage' = stage /\ notices' = notices /\ task[k].at = "audit"
        /\ trail' \in {trail, [trail EXCEPT ![EventOf(k)] = @ \cup {l}]}
    BY <1>8 DEF Audit, queueVars, rows, slack
  <2>5. /\ \A j \in Keys \ {k} : task'[j] = task[j]
        /\ task'[k].at \in {"return", "raised"}
    BY <1>0, <2>1 DEF Go, Tasks
  <2>2. SaidToRemove(l) => notices[EventOf(k)] > 0
    BY <2>4 DEF SaidToRemove, RemovalsTold, ToldBy
  <2> HIDE DEF l
  <2>3. \A e \in Events : \A x \in trail'[e] : x \in trail[e] \/ (e = EventOf(k) /\ x = l)
    BY <2>4 DEF WorldTypeOK
  <2> QED
    BY <2>2, <2>3, <2>4, <2>5 DEF Tells, ToldBy
<1> QED
  BY <1>1, <1>2, <1>3, <1>4, <1>5, <1>6, <1>7, <1>8 DEF EffectStep

\* Steps of Slack, of the process and of the queue.
Rest == \/ UNCHANGED vars \/ Outside \/ Lifecycle \/ \E e \in Events : Deliver(e)
        \/ \E k \in Keys : ClaimJob(k) \/ Return(k) \/ Advance(k) \/ Raise(k) \/ WriteFault(k)

\* They leave tasks and stages alone, or have handlers and rows begin anew, or handlers fail.
Anew(j) == task'[j].at \in {"idle", "decide", "raised"} /\ (task[j].ok => task'[j].ok)
\* What those steps do to stages and tasks; they have no effect in Slack.
LEMMA RestMoves ==
  ASSUME TypeOK, StateTypeOK, Rest
  PROVE  /\ \A j \in Keys : stage'[j] \in {stage[j], NoStage}
         /\ \A j \in Keys : task'[j] = task[j] \/ Anew(j)
         /\ UNCHANGED <<notices, posts, files>>
<1> USE JobsAreKeys DEF StateTypeOK, Rest
<1>1. \A j \in Keys : stage'[j] \in {stage[j], NoStage}
  <2>1. ASSUME NEW e \in Events, Enqueue(e) PROVE \A j \in Keys : stage'[j] \in {stage[j], NoStage}
    BY <2>1 DEF Enqueue, Put, queueVars, rows, TypeOK
  <2>2. CASE CatchUp
    <3>1. CASE Enqueue(Head(backlog))
      <4>1. Head(backlog) \in Events
        BY <2>2, HeadTailProperties DEF CatchUp, WorldTypeOK
      <4> QED
        BY <2>1, <3>1, <4>1
    <3>2. CASE UNCHANGED queueVars
      BY <3>2 DEF queueVars, rows
    <3> QED
      BY <2>2, <3>1, <3>2 DEF CatchUp
  <2>3. CASE \E e \in Events : Deliver(e)
    BY <2>1, <2>3 DEF Deliver
  <2>4. CASE UNCHANGED vars \/ Outside
    BY <2>4 DEF vars, Outside, Write, Drop, queueVars, rows
  <2>5. CASE Lifecycle /\ ~CatchUp
    BY <2>5 DEF Lifecycle, WorkerRestart, Restart, WorkerStart, StartThreads, WorkerCrash, Crash,
       CrashInFail, WorkerTick, Tick, rows
  <2>6. CASE \E k \in Keys : ClaimJob(k) \/ Return(k) \/ Advance(k) \/ Raise(k)
    BY <2>6 DEF ClaimJob, Claim, Return, Done, Advance, AdvanceCursor, Raise, Fail, rows
  <2>7. CASE \E k \in Keys : WriteFault(k)
    BY <2>7 DEF WriteFault, WriteRaises, ThreadEnds, EndThread, queueVars, rows
  <2> QED
    BY <2>2, <2>3, <2>4, <2>5, <2>6, <2>7
<1>2. \A j \in Keys : task'[j] = task[j] \/ Anew(j)
  <2>1. CASE UNCHANGED vars \/ Outside \/ \E e \in Events : Deliver(e)
    BY <2>1 DEF vars, Outside, Write, Drop, Deliver, Anew
  <2>2. CASE Lifecycle
    BY <2>2 DEF Lifecycle, WorkerRestart, CatchUp, WorkerStart, WorkerCrash, WorkerTick, Idle, Anew
  <2>3. ASSUME NEW k \in Keys, ClaimJob(k) \/ Return(k) \/ Advance(k) \/ Raise(k), NEW j \in Keys
        PROVE  task'[j] = task[j] \/ Anew(j)
    <3>1. CASE ClaimJob(k)
      BY <3>1, ClaimTask DEF TaskTypeOK, Anew
    <3>2. CASE Return(k) \/ Advance(k) \/ Raise(k)
      BY <3>2 DEF Return, Advance, Raise, Idle, TaskTypeOK, Anew
    <3> QED
      BY <2>3, <3>1, <3>2
  <2>4. ASSUME NEW k \in Keys, WriteFault(k), NEW j \in Keys
        PROVE  task'[j] = task[j] \/ Anew(j)
    BY <2>4 DEF WriteFault, WriteRaises, ThreadEnds, Go, Idle, TaskTypeOK, Tasks, Anew
  <2> QED
    BY <2>1, <2>2, <2>3, <2>4
<1>3. UNCHANGED <<notices, posts, files>>
  BY DEF vars, Outside, Write, Drop, Lifecycle, WorkerRestart, CatchUp, WorkerStart, WorkerCrash,
         WorkerTick, Deliver, ClaimJob, Return, Advance, Raise, WriteFault, WriteRaises,
         ThreadEnds, slack, files
<1> QED
  BY <1>1, <1>2, <1>3

\* They record nothing.
LEMMA RestTells == ASSUME TypeOK, StateTypeOK, Rest PROVE Tells
  BY RestMoves DEF Tells, ToldBy, NoStage, files, Anew

\* Every step of the worker keeps removals told.
LEMMA StepTells ==
  ASSUME TypeOK, StateTypeOK, LanesApart, RemovalsTold, [WorkerNext]_vars PROVE RemovalsTold'
<1>1. ASSUME "refused" \notin Faults PROVE Tells
  <2>1. ASSUME NEW k \in Keys, TriageStep(k) \/ DeepStep(k) \/ EffectStep(k) PROVE Tells
    BY <1>1, <2>1, TriageTells, DeepTells, EffectTells
  <2>2. \/ Rest
        \/ \E k \in Keys : TriageStep(k) \/ DeepStep(k) \/ EffectStep(k)
    BY DEF WorkerNext, ThreadStep, Rest
  <2> QED
    BY <2>1, <2>2, RestTells
<1> QED
  BY <1>1, TellsSuffice

\* Removals are told before they are put on record.
LEMMA AllTold == WorkerSpec => []RemovalsTold
<1>1. WorkerInit => RemovalsTold
  BY JobsAreKeys DEF WorkerInit, Init, RemovalsTold, RemovalIsNotified, ToldBy, Idle, NoStage
<1>2. IInv => TypeOK
  BY DEF IInv
<1>3. DecisionsTraced => LanesApart
  BY DEF DecisionsTraced
<1> QED
  BY <1>1, <1>2, <1>3, StepTells, QueueInWorker, WorkerTypes, AllTraced, PTL DEF WorkerSpec

\* As long as Slack refuses no call, the author of a message that is put on record as removed
\* got a notice, whatever calls fail or are lost and wherever the process ends.
THEOREM RemovedAreTold == ASSUME "refused" \notin Faults PROVE WorkerSpec => []RemovalIsNotified
<1>1. RemovalsTold => RemovalIsNotified
  BY DEF RemovalsTold
<1> QED
  BY <1>1, AllTold, PTL

(***************************************************************************)
(* What the worker takes for gone is gone.                                 *)
(***************************************************************************)

\* Only people write messages; whatever else happens can only make one disappear.
LEMMA WorldSteps ==
  ASSUME StateTypeOK, [WorkerNext]_vars, ~(\E e \in Events : Write(e))
  PROVE  sent' = sent /\ \A m \in Msgs : live'[m] \in {live[m], NotLive}
<1> USE DEF StateTypeOK, WorldTypeOK
<1> DEFINE Goal == sent' = sent /\ \A m \in Msgs : live'[m] \in {live[m], NotLive}
<1>1. ASSUME sent' = sent, live' = live PROVE Goal
  BY <1>1
<1>2. ASSUME NEW k \in Keys, ThreadStep(k) PROVE Goal
  <2>1. CASE DeleteToHold(k) \/ Delete(k)
    <3>1. sent' = sent /\ \E n, a : DeleteOne(n, a)
      BY <2>1 DEF DeleteToHold, Delete
    <3> QED
      BY <3>1 DEF DeleteOne
  <2>2. CASE ~DeleteToHold(k) /\ ~Delete(k)
    BY <1>1, <1>2, <2>2
       DEF ThreadStep, TriageStep, Triage, Lookup, RecordHeld, HandOff, DeepStep, Deep, Release,
           RecordReleased, EffectStep, RecordDeleted, FallBackToWarn, Repost, RecordReposted,
           Notice, RecordNotified, Audit, Return, Advance, Raise, slack
  <2> QED
    BY <2>1, <2>2
<1>3. ASSUME UNCHANGED vars \/ Lifecycle PROVE Goal
  BY <1>1, <1>3 DEF vars, Lifecycle, WorkerRestart, CatchUp, WorkerStart, WorkerCrash,
     WorkerTick, slack
<1>4. ASSUME NEW e \in Events, Drop(e) \/ Deliver(e) PROVE Goal
  BY <1>1, <1>4 DEF Drop, Deliver, slack
<1>5. ASSUME NEW k \in Keys, ClaimJob(k) \/ WriteFault(k) PROVE Goal
  BY <1>1, <1>5 DEF ClaimJob, WriteFault, WriteRaises, ThreadEnds, slack
<1> QED
  BY <1>2, <1>3, <1>4, <1>5 DEF WorkerNext, Outside

\* A message that is gone never comes back: nobody posts it again, or edits it.
LEMMA GoneStays ==
  ASSUME StateTypeOK, [WorkerNext]_vars, NEW m \in Msgs, Gone(m) PROVE Gone(m)'
<1> USE DEF StateTypeOK, WorldTypeOK
<1>1. ASSUME NEW e \in Events, Write(e) PROVE Gone(m)'
  <2>1. PICK f \in sent : MsgOf[f] = m
    BY DEF Gone
  <2>2. MsgOf[e] # m
    <3>1. CASE Edits[e] = e
      <4>1. Posted[MsgOf[f]] < Posted[MsgOf[e]]
        BY <1>1, <2>1, <3>1 DEF Write
      <4>2. Posted[MsgOf[f]] \in Nat
        BY <2>1, EventAssumption DEF Msgs
      <4> QED
        BY <2>1, <4>1, <4>2
    <3>2. CASE Edits[e] # e
      <4>1. live[MsgOf[e]] = Edits[e] /\ Edits[e] \in Events
        BY <1>1, <3>2, EventAssumption DEF Write
      <4> QED
        BY <4>1, EventAssumption DEF Gone
    <3> QED
      BY <3>1, <3>2
  <2>3. live'[m] = live[m] /\ sent' = sent \cup {e}
    BY <1>1, <2>2 DEF Write
  <2> QED
    BY <2>3 DEF Gone
<1>2. CASE ~(\E e \in Events : Write(e))
  BY <1>2, WorldSteps DEF Gone
<1> QED
  BY <1>1, <1>2

\* What the worker handles was written before.
LEMMA StepWritten ==
  ASSUME IInv, StateTypeOK, WrittenFirst, [WorkerNext]_vars PROVE WrittenFirst'
<1> USE JobsAreKeys DEF StateTypeOK, WorldTypeOK
<1>0. HandsAgree /\ TypeOK
  BY DEF IInv
<1>1. sent \subseteq sent'
  BY WorldSteps DEF Write
<1>2. \A j \in Keys : status'[j] # "absent" => status[j] # "absent" \/ EventOf(j) \in sent
  <2>1. ASSUME NEW e \in sent, Enqueue(e), NEW j \in Keys, status'[j] # "absent"
        PROVE  status[j] # "absent" \/ EventOf(j) \in sent
    BY <1>0, <2>1 DEF Enqueue, Put, queueVars, rows, TypeOK, EventOf
  <2>2. ASSUME NEW k \in Keys, HandOff(k), NEW j \in Keys, status'[j] # "absent"
        PROVE  status[j] # "absent" \/ EventOf(j) \in sent
    <3>1. status[k] # "absent"
      BY <1>0, <2>2 DEF HandOff, TaskTypeOK, HandsAgree
    <3>2. EventOf(k) \in sent
      BY <3>1 DEF WrittenFirst
    <3> QED
      BY <1>0, <2>2, <3>2 DEF HandOff, Put, queueVars, rows, TypeOK, EventOf
  <2>3. ASSUME UNCHANGED status, NEW j \in Keys, status'[j] # "absent"
        PROVE  status[j] # "absent" \/ EventOf(j) \in sent
    BY <2>3
  <2>4. CASE UNCHANGED vars \/ Outside
    BY <2>3, <2>4 DEF vars, Outside, Write, Drop, queueVars, rows
  <2>5. CASE \E e \in Events : Deliver(e)
    BY <2>1, <2>5 DEF Deliver
  <2>6. CASE Lifecycle
    <3>1. CASE CatchUp
      <4>1. Head(backlog) \in sent
        BY <3>1, HeadTailProperties DEF CatchUp, WrittenFirst
      <4> QED
        BY <2>1, <2>3, <3>1, <4>1 DEF CatchUp, queueVars, rows
    <3>2. CASE ~CatchUp
      BY <1>0, <2>6, <3>2 DEF Lifecycle, WorkerRestart, Restart, WorkerStart, StartThreads,
         WorkerCrash, Crash, CrashInFail, WorkerTick, Tick, rows, HandsAgree, TypeOK, Recovered
    <3> QED
      BY <3>1, <3>2
  <2>7. ASSUME NEW k \in Keys,
               ClaimJob(k) \/ Return(k) \/ Advance(k) \/ Raise(k) \/ WriteFault(k)
        PROVE  \A j \in Keys : status'[j] # "absent" => status[j] # "absent"
    BY <1>0, <2>7 DEF ClaimJob, Claim, LaneHead, Return, Done, Advance, AdvanceCursor, Raise, Fail,
       WriteFault, WriteRaises, ThreadEnds, EndThread, queueVars, rows, HandsAgree, TypeOK
  <2>8. ASSUME NEW k \in Keys, TriageStep(k) \/ DeepStep(k) \/ EffectStep(k), ~HandOff(k)
        PROVE  UNCHANGED status
    BY <2>8 DEF TriageStep, Triage, Lookup, DeleteToHold, RecordHeld, DeepStep, Deep, Release,
       RecordReleased, EffectStep, Delete, RecordDeleted, FallBackToWarn, Repost, RecordReposted,
       Notice, RecordNotified, Audit, SetStage, queueVars, rows
  <2>9. CASE \E k \in Keys : ClaimJob(k) \/ ThreadStep(k) \/ WriteFault(k)
    BY <2>2, <2>3, <2>7, <2>8, <2>9 DEF ThreadStep
  <2> QED
    BY <2>4, <2>5, <2>6, <2>9 DEF WorkerNext
<1>3. \A i \in DOMAIN backlog' : backlog'[i] \in sent
  <2>1. ASSUME backlog' = backlog PROVE \A i \in DOMAIN backlog' : backlog'[i] \in sent
    BY <2>1 DEF WrittenFirst
  <2>2. CASE CatchUp
    <3>1. backlog # <<>> /\ backlog' = Tail(backlog)
      BY <2>2 DEF CatchUp
    <3>2. ASSUME NEW i \in DOMAIN backlog' PROVE backlog'[i] = backlog[i + 1] /\ i + 1 \in DOMAIN backlog
      BY <3>1, <3>2, HeadTailProperties
    <3> QED
      BY <3>2 DEF WrittenFirst
  <2>3. ASSUME NEW expired \in SUBSET Keys, NEW lay \in Layouts, WorkerRestart(expired, lay)
        PROVE  \A i \in DOMAIN backlog' : backlog'[i] \in sent
    <3>1. Visibles \subseteq sent
      BY DEF Visibles, WrittenFirst
    <3>2. backlog' \in Seq(Visibles)
      BY <2>3, HistoryType, EmptySeq DEF WorkerRestart
    <3> QED
      BY <3>1, <3>2
  <2>4. CASE WorkerCrash
    BY <2>4 DEF WorkerCrash
  <2>5. CASE UNCHANGED vars \/ Outside \/ WorkerStart \/ WorkerTick \/ \E e \in Events : Deliver(e)
    BY <2>1, <2>5 DEF vars, intake, Outside, Write, Drop, WorkerStart, WorkerTick, Deliver
  <2>6. CASE \E k \in Keys : ClaimJob(k) \/ ThreadStep(k) \/ WriteFault(k)
    <3>1. backlog' = backlog
      BY <2>6, ZenonT(30) DEF ClaimJob, WriteFault, WriteRaises, ThreadEnds, ThreadStep, TriageStep, Triage, Lookup,
         DeleteToHold, RecordHeld, HandOff, DeepStep, Deep, Release, RecordReleased, EffectStep,
         Delete, RecordDeleted, FallBackToWarn, Repost, RecordReposted, Notice, RecordNotified,
         Audit, Return, Advance, Raise, intake
    <3> QED
      BY <2>1, <3>1
  <2> QED
    BY <2>2, <2>3, <2>4, <2>5, <2>6 DEF WorkerNext, Lifecycle
<1>4. \A m \in Msgs : live'[m] # NotLive => live'[m] \in sent'
  <2>1. ASSUME NEW e \in Events, Write(e) PROVE \A m \in Msgs : live'[m] # NotLive => live'[m] \in sent'
    BY <2>1 DEF Write, WrittenFirst
  <2>2. CASE ~(\E e \in Events : Write(e))
    BY <2>2, WorldSteps DEF WrittenFirst
  <2> QED
    BY <2>1, <2>2
<1> QED
  BY <1>1, <1>2, <1>3, <1>4 DEF WrittenFirst

\* Who stands still keeps what it takes for granted; a row that is stored anew has no stage.
LEMMA StillGone ==
  ASSUME NEW j \in Keys, GoneAsAssumed(j), task'[j] = task[j], stage'[j] \in {stage[j], NoStage},
         Gone(MsgAt(j)) => Gone(MsgAt(j))'
  PROVE  GoneAsAssumed(j)'
<1>1. /\ stage'[j] \in {"deleted", "released", "reposted", "held", "notified"} => stage'[j] = stage[j]
  BY DEF NoStage
<1>2. /\ FoundAlone(j)' <=> FoundAlone(j)
  BY DEF FoundAlone, EventOf
<1>3. /\ MsgAt(j)' = MsgAt(j)
  BY DEF MsgAt
<1> HIDE DEF MsgAt
<1> QED
  BY <1>1, <1>2, <1>3 DEF GoneAsAssumed

\* A handler that begins has done nothing yet.
LEMMA BeginsGone ==
  ASSUME NEW j \in Keys, GoneAsAssumed(j), task'[j].at \in {"idle", "decide", "raised", "return"},
         task'[j].ok \/ "refused" \in Faults, stage'[j] \in {stage[j], NoStage},
         Gone(MsgAt(j)) => Gone(MsgAt(j))'
  PROVE  GoneAsAssumed(j)'
<1>1. /\ stage'[j] \in {"deleted", "released", "reposted", "held", "notified"} => stage'[j] = stage[j]
  BY DEF NoStage
<1>2. /\ FoundAlone(j)' <=> FoundAlone(j)
  BY DEF FoundAlone, EventOf
<1>3. /\ MsgAt(j)' = MsgAt(j)
  BY DEF MsgAt
<1> HIDE DEF MsgAt
<1> QED
  BY <1>1, <1>2, <1>3 DEF GoneAsAssumed

\* What the proof of a step starts from.
Ready == IInv /\ StateTypeOK /\ LanesApart /\ WrittenFirst /\ HeldIsGone

\* What the lemmas on single steps use of it.
LEMMA ReadyFacts ==
  ASSUME Ready, RefusalsSpareSplits, [WorkerNext]_vars, NEW k \in Keys
  PROVE  /\ task[k] \in Tasks /\ task \in [Keys -> Tasks]
         /\ stage \in [Keys -> Stages] /\ stage[k] \in Stages
         /\ GoneAsAssumed(k) /\ (FoundAlone(k)' <=> FoundAlone(k))
         /\ MsgAt(k) \in Msgs /\ MsgAt(k)' = MsgAt(k)
         /\ Gone(MsgAt(k)) => Gone(MsgAt(k))'
         /\ task[k].at # "idle" => EventOf(k) \in sent
<1>1. MsgAt(k) \in Msgs /\ MsgAt(k)' = MsgAt(k) /\ (FoundAlone(k)' <=> FoundAlone(k))
  BY JobsAreKeys DEF MsgAt, EventOf, Msgs, FoundAlone
<1>2. task[k].at # "idle" => EventOf(k) \in sent
  BY DEF Ready, StateTypeOK, TaskTypeOK, IInv, HandsAgree, WrittenFirst
<1>3. Gone(MsgAt(k)) => Gone(MsgAt(k))'
  BY <1>1, GoneStays DEF Ready
<1> QED
  BY <1>1, <1>2, <1>3 DEF Ready, HeldIsGone, StateTypeOK, TaskTypeOK, IInv, TypeOK

\* What triage goes on to.
LEMMA TriageMoves ==
  ASSUME StateTypeOK, NEW k \in Keys, Triage(k)
  PROVE  /\ \A j \in Keys \ {k} : task'[j] = task[j]
         /\ task'[k].ok = task[k].ok
         /\ \/ task'[k].at = "lookup" /\ ~FoundAlone(k)
            \/ /\ Reached(k, "deleted")
               /\ task'[k].at = Notify(task'[k].act, stage[k])
            \/ /\ FoundAlone(k) \/ Split[EventOf(k)] # {}
               /\ task'[k].at = "delete" /\ MsgAt(k) \in task'[k].todo
<1> DEFINE e == EventOf(k)
           said == RulesSay(e, Others(window[Author[e]], e))
           todo == IF said.related = {} THEN {MsgOf[e]} ELSE said.related
<1>1. task \in [Keys -> Tasks] /\ task[k] \in Tasks
  BY DEF StateTypeOK, TaskTypeOK
<1>2. /\ said.act # "none" => Rule[e] # "none" \/ Split[e] # {}
      /\ said.act = "none" => Rule[e] = "none"
  BY DEF RulesSay
<1>3. MsgAt(k) \in todo
  BY DEF RulesSay, MsgsOf, MsgAt, EventOf
<1>4. \/ said.act # "none" /\ Removal(k, said, todo)
      \/ said.act = "none" /\ task' = [task EXCEPT ![k].at = "lookup", ![k].asks = (name = "unknown"),
                                                    ![k].earlier = Others(window[Author[e]], e)]
  BY DEF Triage
<1> HIDE DEF said, todo
<1>5. CASE said.act # "none" /\ Removal(k, said, todo)
  BY <1>1, <1>2, <1>3, <1>5 DEF Removal, Tasks, FoundAlone
<1>6. CASE said.act = "none" /\ task' = [task EXCEPT ![k].at = "lookup", ![k].asks = (name = "unknown"),
                                                     ![k].earlier = Others(window[Author[e]], e)]
  BY <1>1, <1>2, <1>6 DEF Tasks, FoundAlone
<1> QED
  BY <1>4, <1>5, <1>6

\* After a step of triage, what its handler takes for gone is gone.
LEMMA TriageGone ==
  ASSUME Ready, RefusalsSpareSplits, [WorkerNext]_vars, NEW k \in Keys, TriageStep(k)
  PROVE  /\ \A j \in Keys \ {k} : task'[j] = task[j]
         /\ GoneAsAssumed(k)'
<1> USE ReadyFacts, JobsAreKeys
<1>0. stage[k] \in Stages /\ k[1] = TRIAGE
  BY DEF Ready, LanesApart, TriageStep, Triage, Lookup, DeleteToHold, RecordHeld, HandOff
<1>1. CASE Triage(k)
  <2>1. stage' = stage
    BY <1>1 DEF Triage, queueVars, rows
  <2>2. /\ \A j \in Keys \ {k} : task'[j] = task[j]
        /\ task'[k].ok = task[k].ok
        /\ \/ task'[k].at = "lookup" /\ ~FoundAlone(k)
           \/ Reached(k, "deleted") /\ task'[k].at = Notify(task'[k].act, stage[k])
           \/ /\ FoundAlone(k) \/ Split[EventOf(k)] # {}
              /\ task'[k].at = "delete" /\ MsgAt(k) \in task'[k].todo
    BY <1>1, TriageMoves DEF Ready
  <2>3. task'[k].ok \/ "refused" \in Faults
    BY <2>2 DEF GoneAsAssumed
  <2>4. CASE task'[k].at = "lookup" /\ ~FoundAlone(k)
    BY <1>0, <2>1, <2>2, <2>3, <2>4 DEF GoneAsAssumed
  <2>5. CASE Reached(k, "deleted") /\ task'[k].at = Notify(task'[k].act, stage[k])
    <3>1. stage[k] \in {"deleted", "released", "reposted", "notified"}
      BY <1>0, <2>5, LastStage DEF Reached
    <3>2. \/ task'[k].at \in {"post", "notice"} /\ stage[k] # "notified"
          \/ task'[k].at = "audit"
      BY <1>0, <2>5, LastStage DEF Notify
    <3> QED
      BY <1>0, <2>1, <2>2, <2>3, <3>1, <3>2 DEF GoneAsAssumed
  <2>6. CASE /\ FoundAlone(k) \/ Split[EventOf(k)] # {}
             /\ task'[k].at = "delete" /\ MsgAt(k) \in task'[k].todo
    <3>1. "refused" \in Faults => FoundAlone(k)
      BY <2>6 DEF RefusalsSpareSplits
    <3> QED
      BY <1>0, <2>1, <2>2, <2>3, <2>6, <3>1 DEF GoneAsAssumed
  <2> QED
    BY <2>2, <2>4, <2>5, <2>6
<1>2. CASE Lookup(k)
  <2>1. /\ stage' = stage /\ task[k].at = "lookup"
        /\ \A j \in Keys \ {k} : task'[j] = task[j]
        /\ task'[k].ok = task[k].ok
        /\ \/ task'[k].at \in {"raised", "hold"}
           \/ task'[k].at = "handoff" /\ (task'[k].hold => Reached(k, "held"))
    BY <1>2 DEF Lookup, Go, queueVars, rows, Tasks
  <2>2. ~FoundAlone(k)
    BY <2>1 DEF GoneAsAssumed
  <2>3. Reached(k, "held") => Gone(MsgAt(k))
    <3>1. Reached(k, "held") => stage[k] \in {"held", "deleted", "released", "reposted", "notified"}
      BY <1>0, LastStage, KeyAssumption DEF Reached, STAGES, Range, NoStage
    <3> QED
      BY <1>0, <2>2, <3>1 DEF GoneAsAssumed
  <2> QED
    BY <1>0, <2>1, <2>2, <2>3 DEF GoneAsAssumed
<1>3. CASE DeleteToHold(k)
  <2>1. PICK a \in Answers :
          /\ DeleteOne(MsgAt(k), a)
          /\ task' = [task EXCEPT ![k].at = CASE a = "ok" -> "held"
                                              [] a = "refused" -> "handoff"
                                              [] OTHER -> "raised",
                                  ![k].hold = HoldAfter(a)]
    BY <1>3 DEF DeleteToHold
  <2>2. /\ stage' = stage /\ task[k].at = "hold" /\ sent' = sent
    BY <1>3 DEF DeleteToHold, queueVars, rows
  <2>3. /\ \A j \in Keys \ {k} : task'[j] = task[j]
        /\ task'[k].ok = task[k].ok
        /\ \/ task'[k].at = "held" /\ a = "ok"
           \/ task'[k].at = "handoff" /\ ~task'[k].hold
           \/ task'[k].at = "raised"
    BY <2>1 DEF HoldAfter, Tasks
  <2>4. a = "ok" => Gone(MsgAt(k))'
    BY <2>1, <2>2 DEF DeleteOne, Effective, Gone, MsgAt, EventOf, Ready, StateTypeOK, WorldTypeOK
  <2> QED
    BY <1>0, <2>2, <2>3, <2>4 DEF GoneAsAssumed
<1>4. CASE RecordHeld(k)
  <2>1. /\ stage' = [stage EXCEPT ![k] = "held"] /\ task[k].at = "held"
        /\ \A j \in Keys \ {k} : task'[j] = task[j]
        /\ task'[k].at = "handoff" /\ task'[k].ok = task[k].ok
    BY <1>4 DEF RecordHeld, SetStage, Go, Tasks
  <2> QED
    BY <1>0, <2>1 DEF GoneAsAssumed
<1>5. CASE HandOff(k)
  <2>1. /\ \A j \in Keys \ {k} : task'[j] = task[j]
        /\ task'[k].at = "return" /\ task'[k].ok = task[k].ok
    BY <1>5 DEF HandOff, Go, Tasks
  <2>2. stage'[k] \in {stage[k], NoStage}
    BY <1>5 DEF HandOff, Put, queueVars, rows
  <2>3. task'[k].ok \/ "refused" \in Faults
    BY <2>1 DEF GoneAsAssumed
  <2> QED
    BY <2>1, <2>2, <2>3, BeginsGone
<1> QED
  BY <1>1, <1>2, <1>3, <1>4, <1>5 DEF TriageStep

\* After a step of the deep lane, too.
LEMMA DeepGone ==
  ASSUME Ready, RefusalsSpareSplits, [WorkerNext]_vars, NEW k \in Keys, DeepStep(k)
  PROVE  /\ \A j \in Keys \ {k} : task'[j] = task[j]
         /\ GoneAsAssumed(k)'
<1> USE ReadyFacts, JobsAreKeys
<1>0. stage[k] \in Stages /\ EventOf(k) \in Events
  OBVIOUS
<1>1. CASE Deep(k)
  <2>1. stage' = stage /\ k[1] = DEEP
    BY <1>1 DEF Deep, queueVars, rows
  <2>2. k[1] # TRIAGE
    BY <2>1 DEF TRIAGE, DEEP
  <2>3. carried[EventOf(k)].held => Gone(MsgAt(k))
    BY <1>0 DEF Ready, HeldIsGone, MsgAt, EventOf
  <2>4. /\ \A j \in Keys \ {k} : task'[j] = task[j]
        /\ task'[k].ok = task[k].ok
        /\ \/ task'[k].at = "raised"
           \/ Reached(k, "deleted") /\ task'[k].at = Notify(task'[k].act, stage[k])
           \/ task'[k].at = "delete" /\ (MsgAt(k) \in task'[k].todo \/ carried[EventOf(k)].held)
           \/ task'[k].at = "release" /\ carried[EventOf(k)].held
           \/ /\ task'[k].act \notin Removing
              /\ task'[k].at = NotifyUnlessAllowed(task'[k].act, stage[k])
    BY <1>1, DeepMoves DEF Ready
  <2>5. task'[k].ok \/ "refused" \in Faults
    BY <2>4 DEF GoneAsAssumed
  <2>6. CASE Reached(k, "deleted") /\ task'[k].at = Notify(task'[k].act, stage[k])
    <3>1. \/ task'[k].at = "post" /\ stage[k] \in {"deleted", "released"}
          \/ task'[k].at \in {"notice", "audit"}
      BY <1>0, <2>6, LastStage DEF Notify
    <3> QED
      BY <2>1, <2>2, <2>4, <2>5, <3>1 DEF GoneAsAssumed
  <2>7. CASE /\ task'[k].act \notin Removing
             /\ task'[k].at = NotifyUnlessAllowed(task'[k].act, stage[k])
    <3>1. task'[k].at \in {"notice", "audit"}
      BY <2>7 DEF NotifyUnlessAllowed, Notify, Removing
    <3> QED
      BY <2>1, <2>2, <2>4, <2>5, <3>1 DEF GoneAsAssumed
  <2>8. CASE task'[k].at = "delete" /\ (MsgAt(k) \in task'[k].todo \/ carried[EventOf(k)].held)
    BY <2>1, <2>2, <2>3, <2>4, <2>5, <2>8 DEF GoneAsAssumed
  <2>9. CASE task'[k].at = "raised" \/ (task'[k].at = "release" /\ carried[EventOf(k)].held)
    BY <2>1, <2>2, <2>3, <2>4, <2>5, <2>9 DEF GoneAsAssumed
  <2> QED
    BY <2>4, <2>6, <2>7, <2>8, <2>9
<1>2. CASE Release(k)
  <2>1. /\ stage' = stage /\ task[k].at = "release"
        /\ \A j \in Keys \ {k} : task'[j] = task[j]
        /\ task'[k].at \in {"released", "raised"} /\ task'[k].ok = task[k].ok
    BY <1>2 DEF Release, Go, queueVars, rows, Tasks
  <2> QED
    BY <2>1 DEF GoneAsAssumed
<1>3. CASE RecordReleased(k)
  <2>1. /\ stage' = [stage EXCEPT ![k] = "released"] /\ task[k].at = "released"
        /\ \A j \in Keys \ {k} : task'[j] = task[j]
        /\ task'[k].at = NotifyUnlessAllowed(task[k].act, "released")
        /\ task'[k].ok = task[k].ok
    BY <1>3 DEF RecordReleased, SetStage, Go, Tasks
  <2>2. task'[k].at \in {"post", "notice", "audit"}
    BY <2>1, NotifyPlace
  <2> QED
    BY <2>1, <2>2 DEF GoneAsAssumed
<1> QED
  BY <1>1, <1>2, <1>3 DEF DeepStep

\* After a step of the side effects, too.
LEMMA EffectGone ==
  ASSUME Ready, RefusalsSpareSplits, [WorkerNext]_vars, NEW k \in Keys, EffectStep(k)
  PROVE  /\ \A j \in Keys \ {k} : task'[j] = task[j]
         /\ GoneAsAssumed(k)'
<1> USE ReadyFacts, JobsAreKeys
<1>0. stage[k] \in Stages /\ EventOf(k) \in Events
  OBVIOUS
<1>1. CASE Delete(k)
  <2> DEFINE m == Oldest(task[k].todo)
  <2>1. PICK a \in Answers :
          /\ DeleteOne(m, a)
          /\ task' = [task EXCEPT ![k].todo = @ \ {m}, ![k].ok = @ /\ Deleted(a),
                                  ![k].at = CatchRefusal(a, "delete")]
    BY <1>1 DEF Delete
  <2>2. /\ stage' = stage /\ task[k].at = "delete" /\ sent' = sent
    BY <1>1 DEF Delete, queueVars, rows
  <2> HIDE DEF m
  <2>3. /\ \A j \in Keys \ {k} : task'[j] = task[j]
        /\ task'[k].todo = task[k].todo \ {m}
        /\ task'[k].ok = (task[k].ok /\ a # "refused")
        /\ task'[k].at = CatchRefusal(a, "delete")
    BY <2>1 DEF Deleted, Tasks
  <2>4. task'[k].ok \/ "refused" \in Faults
    <3>1. a = "refused" => "refused" \in Faults
      BY DEF Answers
    <3> QED
      BY <2>3, <3>1 DEF GoneAsAssumed
  <2>5. a = "ok" /\ m = MsgAt(k) => Gone(MsgAt(k))'
    BY <2>1, <2>2 DEF DeleteOne, Effective, Gone, MsgAt, EventOf, Ready, StateTypeOK, WorldTypeOK
  <2>6. \/ task'[k].at = "delete" /\ a \in {"ok", "refused"}
        \/ task'[k].at = "raised"
    <3>1. a \in {"ok", "refused", "failed", "lost"}
      BY FaultAssumption DEF Answers
    <3> QED
      BY <2>3, <3>1 DEF CatchRefusal, Raises
  <2>7. task'[k].at = "delete" /\ task'[k].ok => MsgAt(k) \in task'[k].todo \/ Gone(MsgAt(k))'
    BY <2>2, <2>3, <2>5, <2>6 DEF GoneAsAssumed
  <2> QED
    BY <1>0, <2>2, <2>3, <2>4, <2>6, <2>7 DEF GoneAsAssumed
<1>2. CASE RecordDeleted(k)
  <2>1. /\ stage' = [stage EXCEPT ![k] = "deleted"]
        /\ \A j \in Keys \ {k} : task'[j] = task[j]
        /\ task'[k].at = Notify(task[k].act, "deleted") /\ task'[k].ok = task[k].ok
    BY <1>2 DEF RecordDeleted, SetStage, Go, Tasks
  <2>2. Gone(MsgAt(k))
    <3>1. /\ task[k].at = "delete" /\ task[k].todo = {}
          /\ task[k].ok \/ carried[EventOf(k)].held
      BY <1>2 DEF RecordDeleted, HeldInDeep, EventOf
    <3>2. carried[EventOf(k)].held => Gone(MsgAt(k))
      BY <1>0 DEF Ready, HeldIsGone, MsgAt, EventOf
    <3> QED
      BY <3>1, <3>2 DEF GoneAsAssumed
  <2>3. task'[k].at \in {"post", "notice", "audit"}
    BY <2>1, NotifyPlace
  <2> QED
    BY <2>1, <2>2, <2>3 DEF GoneAsAssumed
<1>3. CASE FallBackToWarn(k)
  <2>1. /\ stage' = stage /\ task[k].at = "delete" /\ ~task[k].ok
        /\ \A j \in Keys \ {k} : task'[j] = task[j]
        /\ task'[k].at = Notify("warn", stage[k]) /\ task'[k].ok = task[k].ok
    BY <1>3 DEF FallBackToWarn, queueVars, rows, Tasks
  <2>2. task'[k].at \in {"notice", "audit"}
    BY <2>1 DEF Notify
  <2>3. k[1] = TRIAGE => FoundAlone(k)
    BY <2>1 DEF GoneAsAssumed
  <2> QED
    BY <2>1, <2>2, <2>3 DEF GoneAsAssumed
<1>4. CASE Repost(k)
  <2>1. /\ stage' = stage /\ task[k].at = "post"
        /\ \A j \in Keys \ {k} : task'[j] = task[j]
        /\ task'[k].at \in {"reposted", "raised"} /\ task'[k].ok = task[k].ok
    BY <1>4 DEF Repost, Go, queueVars, rows, Tasks
  <2> QED
    BY <2>1 DEF GoneAsAssumed
<1>5. CASE RecordReposted(k)
  <2>1. /\ stage' = [stage EXCEPT ![k] = "reposted"] /\ task[k].at = "reposted"
        /\ \A j \in Keys \ {k} : task'[j] = task[j]
        /\ task'[k].at = "notice" /\ task'[k].ok = task[k].ok
    BY <1>5 DEF RecordReposted, SetStage, Go, Tasks
  <2> QED
    BY <2>1 DEF GoneAsAssumed
<1>6. CASE Notice(k)
  <2>1. /\ stage' = stage /\ task[k].at = "notice"
        /\ \A j \in Keys \ {k} : task'[j] = task[j]
        /\ task'[k].at \in {"raised", "notified"} /\ task'[k].ok = task[k].ok
    BY <1>6 DEF Notice, CatchRefusal, Go, queueVars, rows, Tasks
  <2> QED
    BY <2>1 DEF GoneAsAssumed
<1>7. CASE RecordNotified(k)
  <2>1. /\ stage' = [stage EXCEPT ![k] = "notified"] /\ task[k].at = "notified"
        /\ \A j \in Keys \ {k} : task'[j] = task[j]
        /\ task'[k].at = "audit" /\ task'[k].ok = task[k].ok
    BY <1>7 DEF RecordNotified, SetStage, Go, Tasks
  <2> QED
    BY <2>1 DEF GoneAsAssumed
<1>8. CASE Audit(k)
  <2>1. /\ stage' = stage
        /\ \A j \in Keys \ {k} : task'[j] = task[j]
        /\ task'[k].at \in {"raised", "return"} /\ task'[k].ok = task[k].ok
    BY <1>8 DEF Audit, Go, queueVars, rows, Tasks
  <2> QED
    BY <2>1 DEF GoneAsAssumed
<1> QED
  BY <1>1, <1>2, <1>3, <1>4, <1>5, <1>6, <1>7, <1>8 DEF EffectStep

\* A handler that moves.
LEMMA MovesGone ==
  ASSUME Ready, RefusalsSpareSplits, [WorkerNext]_vars,
         NEW k \in Keys, TriageStep(k) \/ DeepStep(k) \/ EffectStep(k)
  PROVE  \A j \in Keys : GoneAsAssumed(j)'
<1>1. /\ \A j \in Keys \ {k} : task'[j] = task[j]
      /\ GoneAsAssumed(k)'
  BY TriageGone, DeepGone, EffectGone
<1>2. \A j \in Keys \ {k} : stage'[j] \in {stage[j], NoStage}
  BY DEF TriageStep, Triage, Lookup, DeleteToHold, RecordHeld, HandOff, DeepStep, Deep, Release,
     RecordReleased, EffectStep, Delete, RecordDeleted, FallBackToWarn, Repost, RecordReposted,
     Notice, RecordNotified, Audit, SetStage, Put, queueVars, rows, Ready, IInv, TypeOK
<1>3. ASSUME NEW j \in Keys \ {k} PROVE GoneAsAssumed(j)'
  <2>1. GoneAsAssumed(j) /\ (Gone(MsgAt(j)) => Gone(MsgAt(j))')
    BY ReadyFacts
  <2> QED
    BY <1>1, <1>2, <2>1, StillGone
<1> QED
  BY <1>1, <1>3

\* What is held is gone, and copies are posted of what is gone.
LEMMA PostsGone ==
  ASSUME Ready, RefusalsSpareSplits, [WorkerNext]_vars, NEW e \in Events
  PROVE  /\ carried'[e].held => carried[e].held \/ Gone(MsgOf[e])
         /\ Copies(e)' > 0 => Copies(e) > 0 \/ Gone(MsgOf[e])
<1> USE JobsAreKeys DEF Ready
<1> DEFINE Goal == /\ carried'[e].held => carried[e].held \/ Gone(MsgOf[e])
                   /\ Copies(e)' > 0 => Copies(e) > 0 \/ Gone(MsgOf[e])
<1>0. /\ posts \in [Events -> [released : Nat, redacted : Nat]]
      /\ carried \in [Events -> [chain : SUBSET Events, held : BOOLEAN]]
  BY DEF StateTypeOK, WorldTypeOK
<1>1. ASSUME carried' = carried, posts' = posts PROVE Goal
  BY <1>1 DEF Copies
<1>2. ASSUME NEW k \in Keys, HandOff(k) PROVE Goal
  <2>1. task[k].hold => Gone(MsgAt(k))
    BY <1>2, ReadyFacts DEF HandOff, GoneAsAssumed
  <2>2. carried' \in {carried, [carried EXCEPT ![EventOf(k)] = [chain |-> task[k].earlier,
                                                                held |-> task[k].hold]]}
        /\ posts' = posts
    BY <1>2 DEF HandOff, slack
  <2> QED
    BY <1>0, <2>1, <2>2 DEF Copies, MsgAt, EventOf
<1>3. ASSUME NEW k \in Keys, Release(k) \/ Repost(k) PROVE Goal
  <2>1. Gone(MsgAt(k)) /\ carried' = carried
    BY <1>3, ReadyFacts DEF Release, Repost, GoneAsAssumed, files
  <2>2. \A f \in Events \ {EventOf(k)} : posts'[f] = posts[f]
    BY <1>0, <1>3 DEF Release, Repost
  <2> QED
    BY <2>1, <2>2 DEF Copies, MsgAt, EventOf
<1>4. ASSUME NEW k \in Keys, TriageStep(k) \/ DeepStep(k) \/ EffectStep(k) PROVE Goal
  <2>1. CASE HandOff(k)
    BY <1>2, <2>1
  <2>2. CASE Release(k) \/ Repost(k)
    BY <1>3, <2>2
  <2>3. CASE ~HandOff(k) /\ ~Release(k) /\ ~Repost(k)
    BY <1>1, <1>4, <2>3
       DEF TriageStep, Triage, Lookup, DeleteToHold, RecordHeld, DeepStep, Deep, RecordReleased,
           EffectStep, Delete, RecordDeleted, FallBackToWarn, RecordReposted, Notice,
           RecordNotified, Audit, slack, files
  <2> QED
    BY <2>1, <2>2, <2>3
<1>5. ASSUME Rest PROVE Goal
  BY <1>1, <1>5, RestMoves DEF files, IInv
<1> QED
  BY <1>4, <1>5 DEF WorkerNext, ThreadStep, Rest

\* Every step of the worker keeps held messages gone.
LEMMA StepGone ==
  ASSUME Ready, [WorkerNext]_vars PROVE HeldIsGone'
<1> SUFFICES ASSUME RefusalsSpareSplits
             PROVE  /\ \A j \in Keys : GoneAsAssumed(j)'
                    /\ \A e \in Events : carried'[e].held => Gone(MsgOf[e])'
                    /\ NoCopyBesideOriginal'
  BY DEF HeldIsGone
<1>1. \A j \in Keys : GoneAsAssumed(j)'
  <2>1. CASE Rest
    <3>1. ASSUME NEW j \in Keys PROVE GoneAsAssumed(j)'
      <4>1. GoneAsAssumed(j) /\ (Gone(MsgAt(j)) => Gone(MsgAt(j))')
        BY ReadyFacts
      <4>2. /\ stage'[j] \in {stage[j], NoStage}
            /\ task'[j] = task[j] \/ Anew(j)
        BY <2>1, RestMoves DEF Ready, IInv
      <4>3. task[j].ok \/ "refused" \in Faults
        BY <4>1 DEF GoneAsAssumed
      <4> QED
        BY <4>1, <4>2, <4>3, StillGone, BeginsGone DEF Anew
    <3> QED
      BY <3>1
  <2>2. ASSUME NEW k \in Keys, TriageStep(k) \/ DeepStep(k) \/ EffectStep(k)
        PROVE  \A j \in Keys : GoneAsAssumed(j)'
    BY <2>2, MovesGone
  <2> QED
    BY <2>1, <2>2 DEF WorkerNext, ThreadStep, Rest
<1>2. ASSUME NEW e \in Events
      PROVE  /\ carried'[e].held => Gone(MsgOf[e])'
             /\ Copies(e)' > 0 => Gone(MsgOf[e])'
  <2>1. MsgOf[e] \in Msgs
    BY DEF Msgs
  <2>2. carried[e].held \/ Copies(e) > 0 => Gone(MsgOf[e])
    BY DEF Ready, HeldIsGone, NoCopyBesideOriginal
  <2>3. Gone(MsgOf[e]) => Gone(MsgOf[e])'
    BY <2>1, GoneStays DEF Ready
  <2> QED
    BY <2>2, <2>3, PostsGone
<1> QED
  BY <1>1, <1>2 DEF NoCopyBesideOriginal

\* What is assumed before each step holds in every reachable state.
LEMMA AllReady == WorkerSpec => []Ready
<1>1. WorkerInit => WrittenFirst /\ HeldIsGone
  <2> SUFFICES ASSUME WorkerInit PROVE WrittenFirst /\ HeldIsGone
    OBVIOUS
  <2>1. WrittenFirst
    BY DEF WorkerInit, Init, WrittenFirst
  <2>2. \A k \in Keys : GoneAsAssumed(k)
    BY DEF WorkerInit, Init, GoneAsAssumed, Idle, NoStage
  <2>3. NoCopyBesideOriginal /\ \A e \in Events : ~carried[e].held
    BY DEF WorkerInit, NoCopyBesideOriginal, Copies
  <2> QED
    BY <2>1, <2>2, <2>3 DEF HeldIsGone
<1>2. IInv /\ StateTypeOK /\ DecisionsTraced /\ WrittenFirst /\ HeldIsGone => Ready
  BY DEF Ready, DecisionsTraced
<1>3. IInv /\ StateTypeOK /\ DecisionsTraced /\ WrittenFirst /\ HeldIsGone /\ [WorkerNext]_vars
      => WrittenFirst' /\ HeldIsGone'
  BY <1>2, StepWritten, StepGone
<1>4. WorkerSpec => [](WrittenFirst /\ HeldIsGone)
  BY <1>1, <1>3, QueueInWorker, WorkerTypes, AllTraced, PTL DEF WorkerSpec
<1> QED
  BY <1>2, <1>4, QueueInWorker, WorkerTypes, AllTraced, PTL

\* A message that the deep lane takes for held is gone from the channel, so that releasing it
\* makes no second copy, unless Slack refuses calls and messages are removed together.
THEOREM HeldIsGoneAlways == ASSUME RefusalsSpareSplits PROVE WorkerSpec => []HeldMeansGone
<1>1. Ready => HeldMeansGone
  BY DEF Ready, HeldIsGone, HeldMeansGone
<1> QED
  BY <1>1, AllReady, PTL

\* A copy that the bot posted never stands beside its original, under the same condition.
THEOREM CopyReplaces == ASSUME RefusalsSpareSplits PROVE WorkerSpec => []NoCopyBesideOriginal
<1>1. Ready => NoCopyBesideOriginal
  BY DEF Ready, HeldIsGone
<1> QED
  BY <1>1, AllReady, PTL

(***************************************************************************)
(* What the worker remembers was written before, and is bounded.           *)
(***************************************************************************)

\* A window of versions in S, within its size.
WindowOf(S) == {w \in Seq(S) : Len(w) <= WindowSize}

\* add keeps a window one.
LEMMA AddKeeps == ASSUME NEW S, NEW w \in WindowOf(S), NEW e \in S PROVE Add(w, e) \in WindowOf(S)
<1> DEFINE at == {i \in 1..Len(w) : MsgOf[w[i]] = MsgOf[e]}
<1>1. w \in Seq(S) /\ Len(w) \in Nat /\ Len(w) <= WindowSize /\ WindowSize \in Nat \ {0}
  BY LenProperties, WindowAssumption DEF WindowOf
<1>2. CASE at # {}
  <2> DEFINE v == [i \in 1..Len(w) |-> IF i \in at THEN e ELSE w[i]]
  <2>1. \A i \in 1..Len(w) : w[i] \in S
    BY <1>1, ElementOfSeq
  <2>2. v \in [1..Len(w) -> S]
    BY <2>1
  <2>3. v \in Seq(S) /\ Len(v) = Len(w)
    BY <1>1, <2>2, IsASeq, LenProperties
  <2>4. Add(w, e) = v
    BY <1>2 DEF Add
  <2> HIDE DEF v
  <2> QED
    BY <1>1, <2>3, <2>4 DEF WindowOf
<1>3. CASE at = {}
  <2>1. Append(w, e) \in Seq(S) /\ Len(Append(w, e)) = Len(w) + 1
    BY <1>1, AppendProperties
  <2>2. Append(w, e) # <<>> /\ Tail(Append(w, e)) \in Seq(S) /\ Len(Tail(Append(w, e))) = Len(w)
    BY <1>1, <2>1, HeadTailProperties, EmptySeq
  <2>3. Add(w, e) = IF Len(Append(w, e)) > WindowSize THEN Tail(Append(w, e)) ELSE Append(w, e)
    BY <1>3 DEF Add
  <2>4. CASE Len(Append(w, e)) > WindowSize
    BY <1>1, <2>2, <2>3, <2>4 DEF WindowOf
  <2>5. CASE ~(Len(Append(w, e)) > WindowSize)
    BY <1>1, <2>1, <2>3, <2>5 DEF WindowOf
  <2> QED
    BY <2>4, <2>5
<1> QED
  BY <1>2, <1>3

\* An interval from 1 determines its end.
LEMMA SameInterval == ASSUME NEW m \in Nat, NEW n \in Nat, 1..m = 1..n PROVE m = n
<1>1. m > 0 => m \in 1..n
  OBVIOUS
<1>2. n > 0 => n \in 1..m
  OBVIOUS
<1> QED
  BY <1>1, <1>2

\* forget drops versions, and adds none.
LEMMA WithoutKeeps ==
  ASSUME NEW S, NEW w \in WindowOf(S), NEW ms, NEW v \in Without(w, ms) PROVE v \in WindowOf(S)
<1> DEFINE R == Range(w)
           K == {f \in R : MsgOf[f] \notin ms}
<1>1. w \in Seq(S) /\ Len(w) \in Nat /\ Len(w) <= WindowSize /\ WindowSize \in Nat
      /\ w \in [1..Len(w) -> S]
  BY LenProperties, WindowAssumption DEF WindowOf
<1>2. w \in Surjection(1..Len(w), R)
  BY <1>1 DEF Surjection, Range
<1>3. IsFiniteSet(1..Len(w)) /\ Cardinality(1..Len(w)) = Len(w)
  <2> DEFINE n == Len(w)
  <2>1. n \in Nat
    BY <1>1
  <2> HIDE DEF n
  <2>2. IsFiniteSet(1..n) /\ Cardinality(1..n) = IF 1 > n THEN 0 ELSE n - 1 + 1
    BY <2>1, FS_Interval
  <2>3. Cardinality(1..n) = n
    BY <2>1, <2>2
  <2> QED
    BY <2>2, <2>3 DEF n
<1>4. IsFiniteSet(R) /\ Cardinality(R) <= Len(w)
  BY <1>2, <1>3, FS_Surjection
<1>5. R \subseteq S
  BY <1>1 DEF Range
<1> HIDE DEF R
<1>6. IsFiniteSet(K) /\ Cardinality(K) <= Cardinality(R)
  <2>1. K \in SUBSET R
    OBVIOUS
  <2> HIDE DEF K
  <2> QED
    BY <1>4, <2>1, FS_Subset
<1>7. Cardinality(K) \in Nat /\ Cardinality(R) \in Nat
  BY <1>4, <1>6, FS_CardinalityType
<1>8. v \in [1..Cardinality(K) -> K]
  BY DEF Without, SetToSeqs, R
<1>9. v \in Seq(S) /\ Len(v) = Cardinality(K)
  <2>1. v \in Seq(K)
    BY <1>7, <1>8, SeqDef
  <2>2. K \subseteq S
    BY <1>5
  <2>3. v \in Seq(S)
    BY <2>1, <2>2, SeqMonotonic
  <2>4. DOMAIN v = 1..Len(v) /\ DOMAIN v = 1..Cardinality(K) /\ Len(v) \in Nat
    BY <1>8, <2>3, LenProperties
  <2> HIDE DEF K
  <2> DEFINE n == Cardinality(K)
  <2>5. n \in Nat /\ 1..Len(v) = 1..n
    BY <1>7, <2>4
  <2> HIDE DEF n
  <2>6. Len(v) = n
    BY <2>4, <2>5, SameInterval
  <2> QED
    BY <2>3, <2>6 DEF n
<1> HIDE DEF K
<1> QED
  BY <1>1, <1>4, <1>6, <1>7, <1>9 DEF WindowOf

\* The steps that forget messages.
Forgets(k) == Triage(k) \/ Deep(k) \/ RecordDeleted(k)

\* How the windows change: all are lost, a version is added, or messages are forgotten.
LEMMA WindowMoves ==
  ASSUME IInv, StateTypeOK, WrittenFirst, [WorkerNext]_vars
  PROVE  \/ window' = window
         \/ WorkerCrash /\ window' = [a \in Authors |-> <<>>]
         \/ \E e \in sent : window' = [window EXCEPT ![Author[e]] = Add(@, e)]
         \/ \E k \in Keys : Forgets(k) /\ \E ms : Forget(ms)
<1> USE JobsAreKeys
<1> DEFINE Goal == \/ window' = window
                   \/ WorkerCrash /\ window' = [a \in Authors |-> <<>>]
                   \/ \E e \in sent : window' = [window EXCEPT ![Author[e]] = Add(@, e)]
                   \/ \E k \in Keys : Forgets(k) /\ \E ms : Forget(ms)
<1>1. ASSUME NEW k \in Keys, task[k].at # "idle" PROVE EventOf(k) \in sent
  BY <1>1 DEF IInv, HandsAgree, StateTypeOK, TaskTypeOK, WrittenFirst
<1>2. ASSUME NEW k \in Keys, TriageStep(k) PROVE Goal
  <2>1. CASE Triage(k)
    <3>1. (\E ms : Forget(ms)) \/ window' = window
      BY <2>1 DEF Triage, Removal
    <3> QED
      BY <2>1, <3>1 DEF Forgets
  <2>2. CASE HandOff(k)
    <3>1. /\ EventOf(k) \in sent
          /\ window' = [window EXCEPT ![Author[EventOf(k)]] = Add(@, EventOf(k))]
      BY <1>1, <2>2 DEF HandOff
    <3> QED
      BY <3>1
  <2>3. CASE Lookup(k) \/ DeleteToHold(k) \/ RecordHeld(k)
    BY <2>3 DEF Lookup, DeleteToHold, RecordHeld, memory
  <2> QED
    BY <1>2, <2>1, <2>2, <2>3 DEF TriageStep
<1>3. ASSUME NEW k \in Keys, DeepStep(k) PROVE Goal
  <2>1. CASE Deep(k)
    <3>1. (\E ms : Forget(ms)) \/ window' = window
      BY <2>1, ZenonT(30) DEF Deep, Removal, memory
    <3> QED
      BY <2>1, <3>1 DEF Forgets
  <2>2. CASE Release(k) \/ RecordReleased(k)
    BY <2>2 DEF Release, RecordReleased, memory
  <2> QED
    BY <1>3, <2>1, <2>2 DEF DeepStep
<1>4. ASSUME NEW k \in Keys, EffectStep(k) PROVE Goal
  <2>1. CASE RecordDeleted(k)
    <3>1. \E ms : Forget(ms)
      BY <2>1 DEF RecordDeleted
    <3> QED
      BY <2>1, <3>1 DEF Forgets
  <2>2. CASE FallBackToWarn(k)
    <3>1. EventOf(k) \in sent
      BY <1>1, <2>2 DEF FallBackToWarn
    <3>2. \/ window' = [window EXCEPT ![Author[EventOf(k)]] = Add(@, EventOf(k))]
          \/ window' = window
      BY <2>2 DEF FallBackToWarn
    <3> QED
      BY <3>1, <3>2
  <2>3. CASE ~RecordDeleted(k) /\ ~FallBackToWarn(k)
    BY <1>4, <2>3 DEF EffectStep, Delete, Repost, RecordReposted, Notice, RecordNotified, Audit, memory
  <2> QED
    BY <2>1, <2>2, <2>3
<1>5. ASSUME NEW k \in Keys, WriteFault(k) PROVE Goal
  <2>1. CASE WriteRaises(k)
    <3>1. EventOf(k) \in sent
      BY <1>1, <2>1 DEF WriteRaises, AtWrite
    <3>2. \/ window' = [window EXCEPT ![Author[EventOf(k)]] = Add(@, EventOf(k))]
          \/ window' = window
      BY <2>1 DEF WriteRaises
    <3> QED
      BY <3>1, <3>2
  <2>2. CASE ThreadEnds(k)
    BY <2>2 DEF ThreadEnds, memory
  <2> QED
    BY <1>5, <2>1, <2>2 DEF WriteFault
<1>6. ASSUME NEW k \in Keys, ClaimJob(k) \/ Return(k) \/ Advance(k) \/ Raise(k) PROVE Goal
  BY <1>6 DEF ClaimJob, Return, Advance, Raise, memory
<1>7. ASSUME Lifecycle PROVE Goal
  <2>1. CASE CatchUp
    <3>1. Head(backlog) \in sent
      BY <2>1, HeadTailProperties DEF CatchUp, WrittenFirst, StateTypeOK, WorldTypeOK
    <3>2. \/ window' = window
          \/ window' = [window EXCEPT ![Author[Head(backlog)]] = Add(@, Head(backlog))]
      BY <2>1 DEF CatchUp
    <3> QED
      BY <3>1, <3>2
  <2>2. CASE WorkerCrash
    BY <2>2 DEF WorkerCrash
  <2>3. CASE Lifecycle /\ ~CatchUp /\ ~WorkerCrash
    BY <2>3 DEF Lifecycle, WorkerRestart, WorkerStart, WorkerTick, memory
  <2> QED
    BY <1>7, <2>1, <2>2, <2>3
<1>8. ASSUME UNCHANGED vars \/ Outside \/ \E e \in Events : Deliver(e) PROVE Goal
  BY <1>8 DEF vars, Outside, Write, Drop, Deliver, memory
<1> HIDE DEF Goal
<1>9. Goal
  BY <1>2, <1>3, <1>4, <1>5, <1>6, <1>7, <1>8 DEF WorkerNext, ThreadStep
<1> QED
  BY <1>9 DEF Goal

\* A removal leaves the windows as they are or forgets its messages.
LEMMA RemovalLeaves ==
  ASSUME task \in [Keys -> Tasks], NEW k \in Keys, NEW said, NEW todo, Removal(k, said, todo)
  PROVE  \A j \in Keys : task'[j].earlier = task[j].earlier
<1>1. CASE task' = [task EXCEPT ![k].at = Notify(said.act, stage[k]), ![k].act = said.act,
                                ![k].related = said.related]
  BY <1>1 DEF Tasks
<1>2. CASE task' = [task EXCEPT ![k].at = "delete", ![k].act = said.act,
                                ![k].related = said.related, ![k].todo = todo]
  BY <1>2 DEF Tasks
<1> QED
  BY <1>1, <1>2 DEF Removal

\* What a handler knows of earlier messages comes from a window, and a deep job's from a handler.
LEMMA EarlierMoves ==
  ASSUME IInv, StateTypeOK, [WorkerNext]_vars
  PROVE  /\ \A k \in Keys : \/ task'[k].earlier \in {task[k].earlier, {}}
                            \/ task'[k].earlier = Others(window[Author[EventOf(k)]], EventOf(k))
         /\ \A e \in Events : \/ carried'[e] = carried[e]
                              \/ \E k \in Keys : carried'[e].chain = task[k].earlier
<1> USE JobsAreKeys
<1> DEFINE Goal1 == \A j \in Keys : \/ task'[j].earlier \in {task[j].earlier, {}}
                                    \/ task'[j].earlier = Others(window[Author[EventOf(j)]], EventOf(j))
           Goal2 == \A e \in Events : \/ carried'[e] = carried[e]
                                      \/ \E j \in Keys : carried'[e].chain = task[j].earlier
<1>0. task \in [Keys -> Tasks] /\ Idle.earlier = {}
  BY DEF StateTypeOK, TaskTypeOK, Idle
<1>1. CASE UNCHANGED vars \/ Outside \/ Lifecycle \/ \E e \in Events : Deliver(e)
  <2>1. carried' = carried /\ (task' = task \/ task' = [k \in Keys |-> Idle])
    BY <1>1 DEF vars, Outside, Write, Drop, Lifecycle, WorkerRestart, CatchUp, WorkerStart, WorkerCrash,
       WorkerTick, Deliver, files
  <2> QED
    BY <1>0, <2>1
<1>2. ASSUME NEW k \in Keys, ClaimJob(k) \/ Return(k) \/ Advance(k) \/ Raise(k) \/ WriteFault(k)
      PROVE  Goal1 /\ Goal2
  <2>1. carried' = carried
    BY <1>2 DEF ClaimJob, Return, Advance, Raise, WriteFault, WriteRaises, ThreadEnds, files
  <2>2. \A j \in Keys : task'[j].earlier \in {task[j].earlier, {}}
    <3>1. CASE ClaimJob(k)
      BY <1>0, <3>1, ClaimTask
    <3>2. CASE Return(k) \/ Advance(k) \/ Raise(k) \/ WriteFault(k)
      BY <1>0, <3>2 DEF Return, Advance, Raise, WriteFault, WriteRaises, ThreadEnds, Go, Idle, Tasks
    <3> QED
      BY <1>2, <3>1, <3>2
  <2> QED
    BY <2>1, <2>2
<1>3. ASSUME NEW k \in Keys, TriageStep(k) \/ DeepStep(k) \/ EffectStep(k), ~HandOff(k)
      PROVE  Goal2
  <2>1. carried' = carried
    BY <1>3 DEF TriageStep, Triage, Lookup, DeleteToHold, RecordHeld, DeepStep, Deep, Release,
       RecordReleased, EffectStep, Delete, RecordDeleted, FallBackToWarn, Repost, RecordReposted,
       Notice, RecordNotified, Audit, files
  <2> QED
    BY <2>1
<1>4. ASSUME NEW k \in Keys, HandOff(k) PROVE Goal1 /\ Goal2
  <2>1. /\ \A j \in Keys : task'[j].earlier = task[j].earlier
        /\ carried' \in {carried, [carried EXCEPT ![EventOf(k)] = [chain |-> task[k].earlier,
                                                                   held |-> task[k].hold]]}
    BY <1>0, <1>4 DEF HandOff, Go, Tasks
  <2> QED
    BY <2>1 DEF StateTypeOK, WorldTypeOK
<1>5. ASSUME NEW k \in Keys, TriageStep(k) \/ DeepStep(k) \/ EffectStep(k), ~Triage(k)
      PROVE  \A j \in Keys : task'[j].earlier = task[j].earlier
  <2>1. CASE Deep(k)
    <3> DEFINE e == EventOf(k)
               Related(v) == IF v.parts = {} THEN {} ELSE MsgsOf(v.parts \cup {e})
               Todo(v) == (IF Related(v) = {} THEN {MsgOf[e]} ELSE Related(v))
                          \ (IF carried[e].held THEN {MsgOf[e]} ELSE {})
               Place(v) == IF carried[e].held /\ ~Reached(k, "released") THEN "release"
                           ELSE NotifyUnlessAllowed(v.act, stage[k])
    <3>1. PICK a \in Answers, v \in Verdicts[e] :
            \/ Go(k, "raised")
            \/ Removal(k, [act |-> v.act, related |-> Related(v)], Todo(v))
            \/ task' = [task EXCEPT ![k].at = Place(v), ![k].act = v.act, ![k].related = Related(v)]
      BY <2>1 DEF Deep
    <3> HIDE DEF Place, Related, Todo
    <3>2. CASE Go(k, "raised")
      BY <1>0, <3>2 DEF Go, Tasks
    <3>3. CASE Removal(k, [act |-> v.act, related |-> Related(v)], Todo(v))
      BY <1>0, <3>3, RemovalLeaves
    <3>4. CASE task' = [task EXCEPT ![k].at = Place(v), ![k].act = v.act, ![k].related = Related(v)]
      BY <1>0, <3>4 DEF Tasks
    <3> QED
      BY <3>1, <3>2, <3>3, <3>4
  <2>2. CASE Lookup(k) \/ DeleteToHold(k) \/ RecordHeld(k) \/ HandOff(k)
    <3>1. CASE Lookup(k)
      <4>1. \/ Go(k, "raised")
            \/ task' = [task EXCEPT ![k].hold = HoldWanted(k),
                                    ![k].at = IF HoldWanted(k) /\ ~Reached(k, "held")
                                              THEN "hold" ELSE "handoff"]
        BY <3>1 DEF Lookup
      <4> QED
        BY <1>0, <4>1 DEF Go, Tasks
    <3>2. CASE DeleteToHold(k)
      BY <1>0, <3>2 DEF DeleteToHold, Tasks
    <3>3. CASE RecordHeld(k) \/ HandOff(k)
      BY <1>0, <3>3 DEF RecordHeld, HandOff, Go, Tasks
    <3> QED
      BY <2>2, <3>1, <3>2, <3>3
  <2>3. CASE Release(k) \/ RecordReleased(k)
    BY <1>0, <2>3 DEF Release, RecordReleased, Go, Tasks
  <2>4. CASE EffectStep(k)
    <3>1. CASE Delete(k)
      BY <1>0, <3>1 DEF Delete, Tasks
    <3>2. CASE FallBackToWarn(k)
      BY <1>0, <3>2 DEF FallBackToWarn, Tasks
    <3>3. CASE ~Delete(k) /\ ~FallBackToWarn(k)
      <4>1. \E p : Go(k, p)
        BY <2>4, <3>3 DEF EffectStep, RecordDeleted, Repost, RecordReposted, Notice, RecordNotified, Audit
      <4> QED
        BY <1>0, <4>1 DEF Go, Tasks
    <3> QED
      BY <3>1, <3>2, <3>3
  <2> QED
    BY <1>5, <2>1, <2>2, <2>3, <2>4 DEF TriageStep, DeepStep
<1>6. ASSUME NEW k \in Keys, Triage(k) PROVE Goal1
  <2> DEFINE o == Others(window[Author[EventOf(k)]], EventOf(k))
  <2> DEFINE said == RulesSay(EventOf(k), o)
             todo == IF said.related = {} THEN {MsgOf[EventOf(k)]} ELSE said.related
  <2>1. \/ Removal(k, said, todo)
        \/ task' = [task EXCEPT ![k].at = "lookup", ![k].asks = (name = "unknown"),
                              ![k].earlier = o]
    BY <1>6 DEF Triage
  <2> HIDE DEF o, said, todo
  <2>3. /\ \A j \in Keys \ {k} : task'[j].earlier = task[j].earlier
        /\ task'[k].earlier = task[k].earlier \/ task'[k].earlier = o
    <3>1. CASE Removal(k, said, todo)
      <4>1. \A j \in Keys : task'[j].earlier = task[j].earlier
        BY <1>0, <3>1, RemovalLeaves
      <4> QED
        BY <4>1
    <3>2. CASE task' = [task EXCEPT ![k].at = "lookup", ![k].asks = (name = "unknown"),
                              ![k].earlier = o]
      BY <1>0, <3>2 DEF Tasks
    <3> QED
      BY <2>1, <3>1, <3>2
  <2>4. ASSUME NEW j \in Keys
        PROVE  \/ task'[j].earlier \in {task[j].earlier, {}}
               \/ task'[j].earlier = Others(window[Author[EventOf(j)]], EventOf(j))
    <3>0. o = Others(window[Author[EventOf(k)]], EventOf(k))
      BY DEF o
    <3>1. CASE j = k
      <4>1. task'[j].earlier = task[j].earlier \/ task'[j].earlier = o
        BY <2>3, <3>1
      <4> QED
        BY <3>0, <3>1, <4>1
    <3>2. CASE j # k
      BY <2>3, <3>2
    <3> QED
      BY <3>1, <3>2
  <2> QED
    BY <2>4
<1> HIDE DEF Goal1, Goal2
<1>7. Goal2
  BY <1>1, <1>2, <1>3, <1>4 DEF WorkerNext, ThreadStep, Goal2
<1>8. Goal1
  BY <1>1, <1>2, <1>5, <1>6 DEF WorkerNext, ThreadStep, Goal1
<1> QED
  BY <1>7, <1>8 DEF Goal1, Goal2

\* Every step of the worker remembers only what was written, within the size of the window.
LEMMA StepRemembered ==
  ASSUME IInv, StateTypeOK, WrittenFirst, WindowTypeOK, MemoryWritten, [WorkerNext]_vars
  PROVE  WindowTypeOK' /\ MemoryWritten'
<1> USE JobsAreKeys
<1>1. sent \subseteq sent' /\ sent' \subseteq Events /\ sent \subseteq Events
  <2>1. sent \subseteq sent'
    BY WorldSteps DEF Write
  <2> QED
    BY <2>1, StepTypes DEF IInv, StateTypeOK, WorldTypeOK
<1>2. window \in [Authors -> WindowOf(sent)]
  BY DEF WindowTypeOK, MemoryWritten, WindowOf
<1>3. \A e \in Events : Author[e] \in Authors
  BY DEF Authors
<1>4. window' \in [Authors -> WindowOf(sent)]
  <2>1. CASE window' = [a \in Authors |-> <<>>]
    BY <2>1, EmptySeq, WindowAssumption DEF WindowOf
  <2>2. ASSUME NEW e \in sent, window' = [window EXCEPT ![Author[e]] = Add(@, e)]
        PROVE  window' \in [Authors -> WindowOf(sent)]
    <3>1. Add(window[Author[e]], e) \in WindowOf(sent)
      BY <1>1, <1>2, <1>3, AddKeeps
    <3> QED
      BY <1>2, <2>2, <3>1
  <2>3. ASSUME NEW ms, Forget(ms) PROVE window' \in [Authors -> WindowOf(sent)]
    <3>1. ASSUME NEW a \in Authors PROVE window'[a] \in WindowOf(sent)
      BY <1>2, <2>3, WithoutKeeps DEF Forget
    <3> QED
      BY <2>3, <3>1 DEF Forget
  <2> QED
    BY <1>2, <2>1, <2>2, <2>3, WindowMoves
<1>5. \A a \in Authors : window'[a] \in Seq(sent') /\ window'[a] \in Seq(Events) /\ Len(window'[a]) <= WindowSize
  <2> SUFFICES ASSUME NEW a \in Authors
               PROVE  window'[a] \in Seq(sent') /\ window'[a] \in Seq(Events)
                      /\ Len(window'[a]) <= WindowSize
    OBVIOUS
  <2>1. window'[a] \in Seq(sent) /\ Len(window'[a]) <= WindowSize
    BY <1>4 DEF WindowOf
  <2> QED
    BY <1>1, <2>1, SeqMonotonic
<1>6. \A e \in Events : Others(window[Author[e]], e) \subseteq sent
  <2> SUFFICES ASSUME NEW e \in Events PROVE Others(window[Author[e]], e) \subseteq sent
    OBVIOUS
  <2>1. window[Author[e]] \in Seq(sent)
    BY <1>3 DEF MemoryWritten
  <2>2. Range(window[Author[e]]) \subseteq sent
    BY <2>1 DEF Range
  <2> QED
    BY <2>2 DEF Others
<1>7. \A k \in Keys : task'[k].earlier \subseteq sent'
  <2>1. \A k \in Keys : EventOf(k) \in Events
    OBVIOUS
  <2> QED
    BY <1>1, <1>6, <2>1, EarlierMoves DEF MemoryWritten
<1>8. \A e \in Events : carried'[e].chain \subseteq sent'
  BY <1>1, EarlierMoves DEF MemoryWritten
<1>9. window' \in [Authors -> Seq(Events)]
  BY <1>4, <1>5
<1> QED
  BY <1>5, <1>7, <1>8, <1>9 DEF WindowTypeOK, MemoryWritten

(***************************************************************************)
(* A line that says a message was removed is true.                         *)
(***************************************************************************)

\* What the proof of a step starts from.
Steady == "refused" \notin Faults /\ SteadyVerdicts
Audited == /\ Ready /\ MemoryWritten
           /\ \A k \in Keys : TrueToVerdict(k) /\ RemovedIsGone(k)
           /\ HeldByPolicy /\ AuditIsTrue

\* Removals by one job are of the same messages.
LEMMA OneRemoval ==
  ASSUME SteadyVerdicts, NEW k \in Keys
  PROVE  /\ \A S, T \in RemovalsOf(k) : S = T
         /\ \A T \in RemovalsOf(k) : T \subseteq Msgs
         /\ RemovalsOf(k)' = RemovalsOf(k)
<1> DEFINE e == EventOf(k)
<1>0. e \in Events
  BY JobsAreKeys
<1>1. CASE k[1] = TRIAGE
  <2>1. MsgsOf(Split[e] \cup {e}) \subseteq Msgs /\ MsgOf[e] \in Msgs
    BY <1>0, EventAssumption DEF MsgsOf, Msgs
  <2>2. RemovalsOf(k) = {IF FoundAlone(k) THEN {MsgOf[e]} ELSE MsgsOf(Split[e] \cup {e})}
    BY <1>1 DEF RemovalsOf
  <2> HIDE DEF e
  <2> QED
    BY <2>1, <2>2 DEF RemovalsOf, FoundAlone, EventOf, MsgsOf
<1>2. CASE k[1] # TRIAGE
  <2> DEFINE T(v) == IF v.parts = {} THEN {MsgOf[e]} ELSE MsgsOf(v.parts \cup {e})
  <2>1. ASSUME NEW v \in Verdicts[e] PROVE T(v) \subseteq Msgs
    BY <1>0, EventAssumption DEF MsgsOf, Msgs
  <2>2. RemovalsOf(k) = {T(v) : v \in {w \in Verdicts[e] : w.act \in Removing}}
    BY <1>2 DEF RemovalsOf
  <2>3. ASSUME NEW v \in Verdicts[e], NEW w \in Verdicts[e], v.act \in Removing, w.act \in Removing
        PROVE  T(v) = T(w)
    <3>1. v.parts = w.parts
      BY <1>0, <2>3 DEF SteadyVerdicts
    <3> QED
      BY <3>1
  <2>4. RemovalsOf(k)' = RemovalsOf(k)
    BY DEF RemovalsOf, FoundAlone, EventOf, MsgsOf
  <2> HIDE DEF T
  <2> QED
    BY <2>1, <2>2, <2>3, <2>4
<1> QED
  BY <1>1, <1>2

\* What the lemmas on audited steps use of the invariant.
LEMMA AuditFacts ==
  ASSUME Steady, Audited, [WorkerNext]_vars, NEW k \in Keys
  PROVE  /\ task \in [Keys -> Tasks] /\ task[k] \in Tasks /\ stage[k] \in Stages
         /\ EventOf(k) \in Events /\ task[k].ok
         /\ TrueToVerdict(k) /\ RemovedIsGone(k)
         /\ \A m \in Msgs : Gone(m) => Gone(m)'
         /\ MsgsOf(sent) \subseteq MsgsOf(sent)' /\ MsgsOf(sent) \subseteq Msgs
         /\ task[k].at # "idle" => EventOf(k) \in sent
         /\ carried[EventOf(k)].held => HoldChannel /\ Gone(MsgAt(k))
<1>1. RefusalsSpareSplits
  BY DEF Steady, RefusalsSpareSplits
<1>2. /\ task \in [Keys -> Tasks] /\ task[k] \in Tasks /\ stage[k] \in Stages
      /\ GoneAsAssumed(k) /\ (task[k].at # "idle" => EventOf(k) \in sent)
  BY <1>1, ReadyFacts DEF Audited
<1>3. EventOf(k) \in Events
  BY JobsAreKeys
<1>4. task[k].ok
  BY <1>2 DEF GoneAsAssumed, Steady
<1>5. \A m \in Msgs : Gone(m) => Gone(m)'
  BY GoneStays DEF Audited, Ready
<1>6. MsgsOf(sent) \subseteq MsgsOf(sent)' /\ MsgsOf(sent) \subseteq Msgs
  <2>1. sent \subseteq sent' /\ sent \subseteq Events
    BY WorldSteps DEF Audited, Ready, StateTypeOK, WorldTypeOK, Write
  <2> QED
    BY <2>1 DEF MsgsOf, Msgs
<1>7. carried[EventOf(k)].held => HoldChannel /\ Gone(MsgAt(k))
  BY <1>1, <1>3 DEF Audited, HeldByPolicy, Ready, HeldIsGone, MsgAt, EventOf
<1> QED
  BY <1>2, <1>3, <1>4, <1>5, <1>6, <1>7 DEF Audited

\* A handler that stands still, or carries out nothing, stays true.
LEMMA RestSound ==
  ASSUME Steady, Audited, [WorkerNext]_vars, NEW k \in Keys,
         stage'[k] \in {stage[k], NoStage, "held"},
         \/ task'[k].at \notin Effects \cup {"release", "released"}
         \/ task'[k] = task[k] /\ carried'[EventOf(k)] = carried[EventOf(k)]
  PROVE  TrueToVerdict(k)' /\ RemovedIsGone(k)'
<1> USE AuditFacts
<1>1. SteadyVerdicts
  BY DEF Steady
<1>2. PastDelete(k)' => PastDelete(k)
  BY DEF PastDelete, NoStage
<1>3. PastDelete(k)' => \A T \in RemovalsOf(k) : \A m \in T : Gone(m)'
  BY <1>1, <1>2, OneRemoval DEF RemovedIsGone
<1>4. RemovalsOf(k)' = RemovalsOf(k)
  BY <1>1, OneRemoval
<1>5. CASE task'[k].at \notin Effects \cup {"release", "released"}
  <2>1. TrueToVerdict(k)'
    BY <1>5 DEF TrueToVerdict, Effects
  <2>2. RemovedIsGone(k)'
    BY <1>3, <1>4, <1>5 DEF RemovedIsGone, Effects
  <2> QED
    BY <2>1, <2>2
<1>6. CASE task'[k] = task[k] /\ carried'[EventOf(k)] = carried[EventOf(k)]
  <2>1. Targets(k)' = Targets(k)
    BY <1>6 DEF Targets, MsgAt, EventOf
  <2>2. task[k].at \in Effects /\ task[k].act \in Removing =>
          Targets(k) \subseteq MsgsOf(sent)' /\ Targets(k) \subseteq Msgs
    BY DEF TrueToVerdict
  <2>3. EventOf(k)' = EventOf(k)
    BY DEF EventOf
  <2>4. TrueToVerdict(k)'
    BY <1>4, <1>6, <2>1, <2>2, <2>3 DEF TrueToVerdict
  <2>5. task[k].at = "delete" => task[k].act \in Removing
    BY DEF TrueToVerdict
  <2>6. RemovedIsGone(k)'
    BY <1>3, <1>4, <1>6, <2>1, <2>2, <2>5 DEF RemovedIsGone, Effects
  <2> QED
    BY <2>4, <2>6
<1> QED
  BY <1>5, <1>6

\* A decision to remove a message that is one of its job's removals.
LEMMA RemovalSound ==
  ASSUME Steady, Audited, [WorkerNext]_vars, NEW k \in Keys, NEW said, NEW todo,
         said.act \in Removing,
         (IF said.related = {} THEN {MsgAt(k)} ELSE said.related) \in RemovalsOf(k),
         (IF said.related = {} THEN {MsgAt(k)} ELSE said.related) \subseteq MsgsOf(sent),
         \A m \in (IF said.related = {} THEN {MsgAt(k)} ELSE said.related) \ todo : Gone(m),
         Removal(k, said, todo), stage' = stage
  PROVE  TrueToVerdict(k)' /\ RemovedIsGone(k)'
<1> USE AuditFacts
<1> DEFINE T == IF said.related = {} THEN {MsgAt(k)} ELSE said.related
<1>1. SteadyVerdicts
  BY DEF Steady
<1>2. PastDelete(k)' <=> PastDelete(k)
  BY DEF PastDelete
<1>3. PastDelete(k) => \A S \in RemovalsOf(k) : \A m \in S : Gone(m)'
  BY <1>1, OneRemoval DEF RemovedIsGone
<1>4. RemovalsOf(k)' = RemovalsOf(k) /\ T \in RemovalsOf(k) /\ T \subseteq MsgsOf(sent)' /\ T \subseteq Msgs
  BY <1>1, OneRemoval
<1>5. task'[k].act = said.act /\ task'[k].related = said.related
  BY DEF Removal, Tasks
<1>6. Targets(k)' = T
  BY <1>5 DEF Targets, MsgAt, EventOf
<1>7. CASE Reached(k, "deleted")
  <2>1. task'[k].at = Notify(said.act, stage[k])
    BY <1>7 DEF Removal, Tasks
  <2>2. task'[k].at \in {"post", "notice", "audit"}
    BY <2>1, NotifyPlace
  <2>3. PastDelete(k)
    BY <1>7, LastStage DEF Reached, PastDelete
  <2>4. \A m \in T : Gone(m)'
    BY <1>3, <1>4, <2>3
  <2> HIDE DEF T
  <2>5. TrueToVerdict(k)'
    BY <1>4, <1>5, <1>6, <2>2 DEF TrueToVerdict
  <2>6. RemovedIsGone(k)'
    BY <1>2, <1>3, <1>4, <1>6, <2>2, <2>4 DEF RemovedIsGone
  <2> QED
    BY <2>5, <2>6
<1>8. CASE ~Reached(k, "deleted")
  <2>1. task'[k].at = "delete" /\ task'[k].todo = todo
    BY <1>8 DEF Removal, Tasks
  <2>2. \A m \in T \ todo : Gone(m)'
    BY <1>4
  <2> HIDE DEF T
  <2>3. TrueToVerdict(k)'
    BY <1>4, <1>5, <1>6, <2>1 DEF TrueToVerdict
  <2>4. RemovedIsGone(k)'
    BY <1>2, <1>3, <1>4, <1>6, <2>1, <2>2 DEF RemovedIsGone, Effects
  <2> QED
    BY <2>3, <2>4
<1> QED
  BY <1>7, <1>8

\* A handler that goes on with the decision it has, past the deletes.
LEMMA OnwardSound ==
  ASSUME Steady, Audited, [WorkerNext]_vars, NEW k \in Keys,
         task'[k].act = task[k].act, task'[k].related = task[k].related, carried' = carried,
         task[k].at \in Effects \cup {"release", "released"},
         \/ task'[k].at = "raised"
         \/ task'[k].at = "released" /\ task[k].at = "release"
         \/ task'[k].at \in {"post", "reposted"} /\ task[k].act \in Removing
         \/ task'[k].at \in {"notice", "notified"} /\ task[k].act \in Removing \cup {"warn"}
         \/ task'[k].at = "audit",
         task[k].act \in Removing => \A m \in Targets(k) : Gone(m)',
         PastDelete(k)' => \A T \in RemovalsOf(k) : \A m \in T : Gone(m)'
  PROVE  TrueToVerdict(k)' /\ RemovedIsGone(k)'
<1> USE AuditFacts
<1>1. RemovalsOf(k)' = RemovalsOf(k)
  BY OneRemoval DEF Steady
<1>2. Targets(k)' = Targets(k)
  BY DEF Targets, MsgAt, EventOf
<1>3. EventOf(k)' = EventOf(k)
  BY DEF EventOf
<1>4. task[k].act \in Removing => task[k].at \in Effects
  BY DEF TrueToVerdict
<1>5. task[k].act \in Removing => Targets(k) \in RemovalsOf(k) /\ Targets(k) \subseteq MsgsOf(sent)'
  BY <1>4 DEF TrueToVerdict
<1>6. task[k].act \notin Removing =>
        k[1] = DEEP /\ \E v \in Verdicts[EventOf(k)] : v.act = task[k].act
  BY DEF TrueToVerdict
<1>7. /\ task'[k].at # "delete"
      /\ task'[k].at = "release" \/ task'[k].at = "released" =>
           task[k].at = "release" /\ task[k].act \notin Removing /\ carried[EventOf(k)].held
  BY DEF TrueToVerdict
<1>8. TrueToVerdict(k)'
  <2>1. (task[k].at \in Effects /\ task[k].act \in Removing =>
           Targets(k) \in RemovalsOf(k) /\ Targets(k) \subseteq MsgsOf(sent))'
    BY <1>1, <1>2, <1>5
  <2>2. (\/ task[k].at \in Effects /\ task[k].act \notin Removing
         \/ task[k].at \in {"release", "released"}
         => k[1] = DEEP /\ task[k].act \notin Removing
            /\ \E v \in Verdicts[EventOf(k)] : v.act = task[k].act)'
    BY <1>3, <1>6, <1>7
  <2>3. (task[k].at \in {"delete", "post", "reposted"} => task[k].act \in Removing)'
    BY <1>7
  <2>4. (task[k].at \in {"notice", "notified"} => task[k].act \in Removing \cup {"warn"})'
    BY <1>7
  <2>5. (task[k].at \in {"release", "released"} => carried[EventOf(k)].held)'
    BY <1>3, <1>7
  <2> QED
    BY <2>1, <2>2, <2>3, <2>4, <2>5 DEF TrueToVerdict
<1>9. RemovedIsGone(k)'
  BY <1>1, <1>2, <1>7 DEF RemovedIsGone
<1> QED
  BY <1>8, <1>9

\* A step of triage carries out what the rules decided.
LEMMA TriageSound ==
  ASSUME Steady, Audited, [WorkerNext]_vars, NEW k \in Keys, TriageStep(k)
  PROVE  TrueToVerdict(k)' /\ RemovedIsGone(k)'
<1> USE AuditFacts
<1>1. CASE Triage(k)
  <2> DEFINE e == EventOf(k)
             earlier == Others(window[Author[e]], e)
             said == RulesSay(e, earlier)
             T == IF said.related = {} THEN {MsgAt(k)} ELSE said.related
  <2>1. k[1] = TRIAGE /\ task[k].at = "decide" /\ stage' = stage /\ MsgAt(k) = MsgOf[e]
    BY <1>1 DEF Triage, queueVars, rows, MsgAt, EventOf
  <2>2. e \in sent /\ sent \subseteq Events
    BY <2>1 DEF Audited, Ready, StateTypeOK, WorldTypeOK
  <2>3. earlier \subseteq sent
    <3>1. window[Author[e]] \in Seq(sent)
      BY DEF Audited, MemoryWritten, Authors
    <3>2. Range(window[Author[e]]) \subseteq sent
      BY <3>1 DEF Range
    <3> QED
      BY <3>2 DEF Others
  <2>4. CASE said.act = "none"
    <3>1. task' = [task EXCEPT ![k].at = "lookup", ![k].asks = (name = "unknown"),
                                 ![k].earlier = earlier]
      BY <1>1, <2>4 DEF Triage
    <3> HIDE DEF said, earlier
    <3>2. task'[k].at = "lookup"
      BY <3>1 DEF Tasks
    <3> QED
      BY <2>1, <3>2, RestSound DEF Effects
  <2>5. CASE said.act # "none"
    <3>1. Removal(k, said, T)
      BY <1>1, <2>1, <2>5 DEF Triage
    <3>2. said.act \in Removing
      BY <2>5, EventAssumption DEF RulesSay, Removing
    <3>3. T \in RemovalsOf(k)
      <4>1. CASE FoundAlone(k)
        <5>1. T = {MsgOf[e]}
          BY <2>1, <4>1 DEF RulesSay, FoundAlone
        <5> QED
          BY <2>1, <4>1, <5>1 DEF RemovalsOf
      <4>2. CASE ~FoundAlone(k)
        <5>1. said.related = MsgsOf(Split[e] \cup {e})
          BY <2>5, <4>2 DEF RulesSay, FoundAlone
        <5>2. MsgOf[e] \in MsgsOf(Split[e] \cup {e})
          BY DEF MsgsOf
        <5>3. T = MsgsOf(Split[e] \cup {e})
          BY <5>1, <5>2
        <5> QED
          BY <2>1, <4>2, <5>3 DEF RemovalsOf
      <4> QED
        BY <4>1, <4>2
    <3>4. T \subseteq MsgsOf(sent)
      <4>1. \/ said.related = {}
            \/ said.related = MsgsOf(Split[e] \cup {e}) /\ Split[e] \subseteq earlier
        BY <2>5 DEF RulesSay
      <4>2. {MsgOf[e]} \subseteq MsgsOf(sent)
        BY <2>2 DEF MsgsOf
      <4>3. Split[e] \subseteq earlier => MsgsOf(Split[e] \cup {e}) \subseteq MsgsOf(sent)
        BY <2>2, <2>3 DEF MsgsOf
      <4> QED
        BY <2>1, <4>1, <4>2, <4>3
    <3>5. \A m \in T \ T : Gone(m)
      OBVIOUS
    <3> HIDE DEF said
    <3> QED
      BY <2>1, <3>1, <3>2, <3>3, <3>4, <3>5, RemovalSound
  <2> QED
    BY <2>4, <2>5
<1>2. CASE Lookup(k) \/ DeleteToHold(k)
  <2>1. stage' = stage
    BY <1>2 DEF Lookup, DeleteToHold, queueVars, rows
  <2>2. task'[k].at \in {"raised", "hold", "handoff", "held"}
    <3>1. CASE Lookup(k)
      BY <3>1 DEF Lookup, Go, Tasks
    <3>2. CASE DeleteToHold(k)
      BY <3>2 DEF DeleteToHold, Tasks
    <3> QED
      BY <1>2, <3>1, <3>2
  <2> QED
    BY <2>1, <2>2, RestSound DEF Effects
<1>3. CASE RecordHeld(k)
  <2>1. stage'[k] = "held" /\ task'[k].at = "handoff"
    BY <1>3 DEF RecordHeld, SetStage, Go, Tasks, Audited, Ready, IInv, TypeOK
  <2> QED
    BY <2>1, RestSound DEF Effects
<1>4. CASE HandOff(k)
  <2>1. stage'[k] \in {stage[k], NoStage} /\ task'[k].at = "return"
    BY <1>4 DEF HandOff, Put, Go, queueVars, rows, Tasks, Audited, Ready, IInv, TypeOK
  <2> QED
    BY <2>1, RestSound DEF Effects
<1> QED
  BY <1>1, <1>2, <1>3, <1>4 DEF TriageStep

\* A step of the deep lane carries out a verdict.
LEMMA DeepSound ==
  ASSUME Steady, Audited, [WorkerNext]_vars, NEW k \in Keys, DeepStep(k)
  PROVE  TrueToVerdict(k)' /\ RemovedIsGone(k)'
<1> USE AuditFacts
<1>1. CASE Deep(k)
  <2> DEFINE e == EventOf(k)
             Related(v) == IF v.parts = {} THEN {} ELSE MsgsOf(v.parts \cup {e})
             Said(v) == [act |-> v.act, related |-> Related(v)]
             T(v) == IF Related(v) = {} THEN {MsgAt(k)} ELSE Related(v)
             Gones == IF carried[e].held THEN {MsgAt(k)} ELSE {}
             Place(v) == IF carried[e].held /\ ~Reached(k, "released") THEN "release"
                         ELSE NotifyUnlessAllowed(v.act, stage[k])
  <2>1. k[1] = DEEP /\ k[1] # TRIAGE /\ stage' = stage /\ MsgAt(k) = MsgOf[e] /\ carried' = carried
    BY <1>1 DEF Deep, queueVars, rows, files, MsgAt, EventOf, TRIAGE, DEEP
  <2>2. PICK v \in Verdicts[e] :
          /\ v.parts \subseteq carried[e].chain
          /\ \/ Go(k, "raised")
             \/ v.act \in Removing /\ Removal(k, Said(v), T(v) \ Gones)
             \/ /\ v.act \notin Removing
                /\ task' = [task EXCEPT ![k].at = Place(v), ![k].act = v.act,
                                        ![k].related = Related(v)]
    BY <1>1, <2>1 DEF Deep
  <2>3. CASE Go(k, "raised")
    <3>1. task'[k].at = "raised"
      BY <2>3 DEF Go, Tasks
    <3> QED
      BY <2>1, <3>1, RestSound DEF Effects
  <2>4. CASE v.act \in Removing /\ Removal(k, Said(v), T(v) \ Gones)
    <3>1. T(v) = IF v.parts = {} THEN {MsgOf[e]} ELSE MsgsOf(v.parts \cup {e})
      <4>1. MsgsOf(v.parts \cup {e}) # {}
        BY DEF MsgsOf
      <4> QED
        BY <2>1, <4>1
    <3>2. T(v) \in RemovalsOf(k)
      BY <2>1, <2>4, <3>1 DEF RemovalsOf
    <3>3. T(v) \subseteq MsgsOf(sent)
      <4>1. e \in sent /\ v.parts \subseteq sent
        BY <1>1, <2>2 DEF Deep, Audited, MemoryWritten
      <4> QED
        BY <3>1, <4>1 DEF MsgsOf
    <3>4. \A m \in T(v) \ (T(v) \ Gones) : Gone(m)
      OBVIOUS
    <3>5. Said(v).act = v.act /\ Said(v).related = Related(v)
      OBVIOUS
    <3> DEFINE said == Said(v)
               todo == T(v) \ Gones
    <3>6. /\ T(v) = IF said.related = {} THEN {MsgAt(k)} ELSE said.related
          /\ said.act \in Removing /\ Removal(k, said, todo)
      BY <2>4, <3>5
    <3>7. \A m \in T(v) \ todo : Gone(m)
      BY <3>4
    <3> HIDE DEF T, Related, Said, Gones, said, todo
    <3> QED
      BY <2>1, <3>2, <3>3, <3>6, <3>7, RemovalSound
  <2>5. CASE /\ v.act \notin Removing
             /\ task' = [task EXCEPT ![k].at = Place(v), ![k].act = v.act,
                                     ![k].related = Related(v)]
    <3>1. /\ \/ Place(v) = "release" /\ carried[e].held
             \/ Place(v) = NotifyUnlessAllowed(v.act, stage[k])
      OBVIOUS
    <3> HIDE DEF Related, Place
    <3>2. task'[k].act = v.act /\ task'[k].at = Place(v)
      BY <2>5 DEF Tasks
    <3>3. v.act \in Actions
      BY EventAssumption
    <3>4. \/ Place(v) = "release" /\ carried[e].held
          \/ Place(v) = "notice" /\ v.act = "warn"
          \/ Place(v) = "audit"
      BY <2>5, <3>1, <3>3 DEF NotifyUnlessAllowed, Notify, Actions, Removing
    <3>5. /\ EventOf(k)' = e
          /\ PastDelete(k)' <=> PastDelete(k)
      BY <2>1 DEF EventOf, PastDelete
    <3>6. TrueToVerdict(k)'
      BY <2>1, <2>5, <3>2, <3>4, <3>5 DEF TrueToVerdict
    <3>7. PastDelete(k) => \A T1 \in RemovalsOf(k) : \A m \in T1 : Gone(m)'
      BY OneRemoval DEF RemovedIsGone, Steady
    <3>8. RemovedIsGone(k)'
      BY <2>5, <3>2, <3>4, <3>5, <3>7, OneRemoval DEF RemovedIsGone, Steady
    <3> QED
      BY <3>6, <3>8
  <2> QED
    BY <2>2, <2>3, <2>4, <2>5
<1>2. CASE Release(k)
  <2>1. /\ stage' = stage /\ carried' = carried /\ task[k].at = "release"
        /\ task'[k].at \in {"raised", "released"}
        /\ task'[k].act = task[k].act /\ task'[k].related = task[k].related
    BY <1>2 DEF Release, Go, queueVars, rows, files, Tasks
  <2>2. task[k].act \notin Removing
    BY <2>1 DEF TrueToVerdict
  <2>3. PastDelete(k)' => \A T \in RemovalsOf(k) : \A m \in T : Gone(m)'
    BY <2>1, OneRemoval DEF PastDelete, RemovedIsGone, Steady
  <2> QED
    BY <2>1, <2>2, <2>3, OnwardSound
<1>3. CASE RecordReleased(k)
  <2>1. /\ carried' = carried /\ task[k].at = "released"
        /\ task'[k].at = NotifyUnlessAllowed(task[k].act, "released")
        /\ task'[k].act = task[k].act /\ task'[k].related = task[k].related
    BY <1>3 DEF RecordReleased, SetStage, Go, files, Tasks
  <2>2. /\ task[k].act \notin Removing /\ k[1] # TRIAGE /\ carried[EventOf(k)].held
        /\ \E v \in Verdicts[EventOf(k)] : v.act = task[k].act
    BY <2>1 DEF TrueToVerdict, TRIAGE, DEEP
  <2>3. \A T \in RemovalsOf(k) : T = {MsgAt(k)}
    <3>1. ASSUME NEW v \in Verdicts[EventOf(k)], v.act \in Removing PROVE v.parts = {}
      BY <2>2, <3>1 DEF Steady, SteadyVerdicts
    <3> QED
      BY <2>2, <3>1 DEF RemovalsOf, MsgAt, EventOf
  <2>4. MsgAt(k) \in Msgs
    BY DEF MsgAt, EventOf, Msgs
  <2>5. \A T \in RemovalsOf(k) : \A m \in T : Gone(m)'
    BY <2>2, <2>3, <2>4
  <2>6. \/ task'[k].at = "notice" /\ task[k].act = "warn"
        \/ task'[k].at = "audit"
    <3>1. task[k].act \in Actions
      BY <2>2, EventAssumption
    <3>2. task[k].act \in {"allow", "log", "warn"}
      BY <2>2, <3>1 DEF Actions
    <3> QED
      BY <2>1, <3>2 DEF NotifyUnlessAllowed, Notify
  <2> QED
    BY <2>1, <2>2, <2>5, <2>6, OnwardSound
<1> QED
  BY <1>1, <1>2, <1>3 DEF DeepStep

\* A step of the side effects carries out what its lane decided.
LEMMA EffectSound ==
  ASSUME Steady, Audited, [WorkerNext]_vars, NEW k \in Keys, EffectStep(k)
  PROVE  TrueToVerdict(k)' /\ RemovedIsGone(k)'
<1> USE AuditFacts
<1>0. stage \in [Keys -> Stages]
  BY DEF Audited, Ready, IInv, TypeOK
<1>1. CASE Delete(k)
  <2>0. PICK m : m = Oldest(task[k].todo)
    OBVIOUS
  <2>1. PICK a \in Answers :
          /\ DeleteOne(m, a)
          /\ task' = [task EXCEPT ![k].todo = @ \ {m}, ![k].ok = @ /\ Deleted(a),
                                  ![k].at = CatchRefusal(a, "delete")]
    BY <1>1, <2>0 DEF Delete
  <2>2. /\ stage' = stage /\ task[k].at = "delete" /\ sent' = sent /\ carried' = carried
    BY <1>1 DEF Delete, queueVars, rows, files
  <2>3. /\ task'[k].todo = task[k].todo \ {m}
        /\ task'[k].at = CatchRefusal(a, "delete")
        /\ task'[k].act = task[k].act /\ task'[k].related = task[k].related
    BY <2>1 DEF Tasks
  <2>4. \/ task'[k].at = "raised"
        \/ task'[k].at = "delete" /\ a = "ok"
    <3>1. a \in {"ok", "failed", "lost"}
      BY FaultAssumption DEF Answers, Steady
    <3> QED
      BY <2>3, <3>1 DEF CatchRefusal, Raises
  <2>5. CASE task'[k].at = "raised"
    BY <2>2, <2>5, RestSound DEF Effects
  <2>6. CASE task'[k].at = "delete" /\ a = "ok"
    <3>1. /\ task[k].act \in Removing
          /\ Targets(k) \in RemovalsOf(k) /\ Targets(k) \subseteq MsgsOf(sent)
      BY <2>2 DEF TrueToVerdict, Effects
    <3>2. m \in Targets(k) => Gone(m)'
      <4>1. m \in Targets(k) => m \in Msgs /\ \E e \in sent : MsgOf[e] = m
        <5>1. MsgsOf(sent) \subseteq Msgs
          OBVIOUS
        <5>2. m \in MsgsOf(sent) => \E e \in sent : MsgOf[e] = m
          BY DEF MsgsOf
        <5> HIDE AuditFacts
        <5> QED
          BY <3>1, <5>1, <5>2
      <4>2. live' = [live EXCEPT ![m] = NotLive] /\ live \in [Msgs -> Events \cup {NotLive}]
        BY <2>1, <2>6 DEF DeleteOne, Effective, Audited, Ready, StateTypeOK, WorldTypeOK
      <4> HIDE AuditFacts
      <4> QED
        BY <2>2, <4>1, <4>2 DEF Gone
    <3>3. Targets(k)' = Targets(k)
      BY <2>3 DEF Targets, MsgAt, EventOf
    <3>4. RemovalsOf(k)' = RemovalsOf(k) /\ (PastDelete(k)' <=> PastDelete(k))
      BY <2>2, OneRemoval DEF Steady, PastDelete
    <3>5. \A n \in Targets(k) \ task'[k].todo : Gone(n)'
      <4> SUFFICES ASSUME NEW n \in Targets(k) \ task'[k].todo PROVE Gone(n)'
        OBVIOUS
      <4>1. n \in Msgs
        <5>1. MsgsOf(sent) \subseteq Msgs
          OBVIOUS
        <5> HIDE AuditFacts
        <5> QED
          BY <3>1, <5>1
      <4>2. CASE n = m
        BY <3>2, <4>2
      <4>3. CASE n # m
        <5>1. Gone(n)
          BY <2>2, <2>3, <4>3 DEF RemovedIsGone
        <5>2. Gone(n) => Gone(n)'
          BY <4>1
        <5> QED
          BY <5>1, <5>2
      <4> QED
        BY <4>2, <4>3
    <3>6. TrueToVerdict(k)'
      BY <2>3, <2>6, <3>1, <3>3, <3>4 DEF TrueToVerdict
    <3>7. PastDelete(k) => \A T \in RemovalsOf(k) : \A n \in T : Gone(n)'
      BY OneRemoval DEF RemovedIsGone, Steady
    <3>8. RemovedIsGone(k)'
      BY <2>6, <3>3, <3>4, <3>5, <3>7 DEF RemovedIsGone
    <3> QED
      BY <3>6, <3>8
  <2> QED
    BY <2>4, <2>5, <2>6
<1>2. CASE FallBackToWarn(k)
  BY <1>2 DEF FallBackToWarn
<1> DEFINE Past == \A T \in RemovalsOf(k) : \A m \in T : Gone(m)'
<1>3. task[k].act \in Removing /\ task[k].at \in Effects =>
        /\ Targets(k) \in RemovalsOf(k) /\ Targets(k) \subseteq Msgs
        /\ (\A m \in Targets(k) : Gone(m)') => Past
  BY OneRemoval DEF TrueToVerdict, Steady
<1>4. PastDelete(k) => Past
  BY OneRemoval DEF RemovedIsGone, Steady
<1>5. task[k].act \in Removing /\ task[k].at \in Effects \ {"delete"} => \A m \in Targets(k) : Gone(m)'
  BY <1>3 DEF RemovedIsGone
<1>6. stage'[k] = stage[k] => (PastDelete(k)' <=> PastDelete(k))
  BY DEF PastDelete
<1>7. CASE RecordDeleted(k)
  <2>1. /\ stage' = [stage EXCEPT ![k] = "deleted"] /\ carried' = carried
        /\ task[k].at = "delete" /\ task[k].todo = {}
        /\ task'[k].at = Notify(task[k].act, "deleted")
        /\ task'[k].act = task[k].act /\ task'[k].related = task[k].related
    BY <1>7 DEF RecordDeleted, SetStage, Go, files, Tasks
  <2>2. task[k].act \in Removing /\ task[k].at \in Effects
    BY <2>1 DEF TrueToVerdict, Effects
  <2>3. \A m \in Targets(k) : Gone(m)'
    BY <1>3, <2>1, <2>2 DEF RemovedIsGone
  <2>4. Past
    BY <1>3, <2>2, <2>3
  <2>5. task'[k].at \in {"post", "notice", "audit"}
    BY <2>1, NotifyPlace
  <2> HIDE DEF Past
  <2>6. PastDelete(k)' => \A T \in RemovalsOf(k) : \A m \in T : Gone(m)'
    BY <2>4 DEF Past
  <2> QED
    BY <2>1, <2>2, <2>3, <2>5, <2>6, OnwardSound
<1>8. CASE Repost(k)
  <2>1. /\ stage' = stage /\ carried' = carried
        /\ task[k].at = "post"
        /\ task'[k].at \in {"reposted", "raised"}
        /\ task'[k].act = task[k].act /\ task'[k].related = task[k].related
    BY <1>8 DEF Repost, Go, queueVars, rows, files, Tasks
  <2>2. task[k].act \in Removing
    BY <2>1 DEF TrueToVerdict
  <2>3. PastDelete(k)' => \A T \in RemovalsOf(k) : \A m \in T : Gone(m)'
    BY <1>4, <1>6, <2>1
  <2> QED
    BY <1>5, <2>1, <2>2, <2>3, OnwardSound DEF Effects
<1>9. CASE RecordReposted(k)
  <2>1. /\ carried' = carried
        /\ task[k].at = "reposted"
        /\ task'[k].at = "notice"
        /\ task'[k].act = task[k].act /\ task'[k].related = task[k].related
    BY <1>9 DEF RecordReposted, SetStage, Go, files, Tasks
  <2>2. task[k].act \in Removing
    BY <2>1 DEF TrueToVerdict
  <2>3. Past
    BY <1>3, <1>5, <2>1, <2>2 DEF Effects
  <2> QED
    BY <1>5, <2>1, <2>2, <2>3, OnwardSound DEF Effects
<1>10. CASE Notice(k)
  <2>1. /\ stage' = stage /\ carried' = carried
        /\ task[k].at = "notice"
        /\ task'[k].at \in {"notified", "raised"}
        /\ task'[k].act = task[k].act /\ task'[k].related = task[k].related
    BY <1>10 DEF Notice, CatchRefusal, Go, queueVars, rows, files, Tasks
  <2>2. task[k].act \in Removing \cup {"warn"}
    BY <2>1 DEF TrueToVerdict
  <2>3. PastDelete(k)' => \A T \in RemovalsOf(k) : \A m \in T : Gone(m)'
    BY <1>4, <1>6, <2>1
  <2> QED
    BY <1>5, <2>1, <2>2, <2>3, OnwardSound DEF Effects
<1>11. CASE RecordNotified(k)
  <2>1. /\ carried' = carried
        /\ task[k].at = "notified"
        /\ task'[k].at = "audit"
        /\ task'[k].act = task[k].act /\ task'[k].related = task[k].related
    BY <1>11 DEF RecordNotified, SetStage, Go, files, Tasks
  <2>2. task[k].act \in Removing \cup {"warn"}
    BY <2>1 DEF TrueToVerdict
  <2>3. Past
    <3>1. CASE task[k].act \in Removing
      BY <1>3, <1>5, <2>1, <3>1 DEF Effects
    <3>2. CASE task[k].act = "warn"
      <4>1. /\ k[1] # TRIAGE
            /\ \E v \in Verdicts[EventOf(k)] : v.act = "warn"
        BY <2>1, <3>2 DEF TrueToVerdict, TRIAGE, DEEP, Effects, Removing
      <4>2. \A v \in Verdicts[EventOf(k)] : v.act \notin Removing
        BY <4>1 DEF Steady, SteadyVerdicts
      <4>3. RemovalsOf(k) = {}
        BY <4>1, <4>2 DEF RemovalsOf
      <4> QED
        BY <4>3
    <3> QED
      BY <2>2, <3>1, <3>2
  <2> QED
    BY <1>5, <2>1, <2>2, <2>3, OnwardSound DEF Effects
<1>12. CASE Audit(k)
  <2>1. /\ stage' = stage
        /\ task'[k].at \in {"return", "raised"}
    BY <1>12 DEF Audit, Go, queueVars, rows, Tasks
  <2> QED
    BY <2>1, RestSound DEF Effects
<1> QED
  BY <1>1, <1>2, <1>7, <1>8, <1>9, <1>10, <1>11, <1>12 DEF EffectStep

\* The handlers, moved or not, stay true to their verdicts.
LEMMA StepSound ==
  ASSUME Steady, Audited, [WorkerNext]_vars, NEW j \in Keys
  PROVE  TrueToVerdict(j)' /\ RemovedIsGone(j)'
<1> USE JobsAreKeys
<1>0. TypeOK /\ StateTypeOK /\ HandsAgree /\ stage \in [Keys -> Stages] /\ LanesApart
  BY DEF Audited, Ready, IInv, TypeOK
<1>1. CASE Rest
  <2>1. /\ stage'[j] \in {stage[j], NoStage}
        /\ task'[j] = task[j] \/ Anew(j)
        /\ carried' = carried
    BY <1>0, <1>1, RestMoves DEF files
  <2> QED
    BY <2>1, RestSound DEF Anew, Effects
<1>2. ASSUME NEW k \in Keys, TriageStep(k) \/ DeepStep(k) \/ EffectStep(k)
      PROVE  TrueToVerdict(j)' /\ RemovedIsGone(j)'
  <2>1. CASE j = k
    <3>1. TrueToVerdict(k)' /\ RemovedIsGone(k)'
      BY <1>2, TriageSound, DeepSound, EffectSound
    <3> QED
      BY <2>1, <3>1
  <2>2. CASE j # k
    <3>1. task'[j] = task[j]
      <4>1. RefusalsSpareSplits /\ Ready
        BY DEF Steady, RefusalsSpareSplits, Audited
      <4> QED
        BY <1>2, <2>2, <4>1, TriageGone, DeepGone, EffectGone
    <3>2. stage'[j] \in {stage[j], NoStage}
      BY <1>0, <1>2, <2>2
         DEF TriageStep, Triage, Lookup, DeleteToHold, RecordHeld, HandOff, DeepStep, Deep, Release,
         RecordReleased, EffectStep, Delete, RecordDeleted, FallBackToWarn, Repost, RecordReposted,
         Notice, RecordNotified, Audit, SetStage, Put, queueVars, rows
    <3>3. CASE HandOff(k)
      <4>1. CASE carried' = carried
        BY <3>1, <3>2, <4>1, RestSound
      <4>2. CASE carried' # carried
        <5>1. /\ status[<<DEEP, EventOf(k)>>] = "absent" /\ <<DEEP, EventOf(k)>> \in Keys
              /\ carried' = [carried EXCEPT ![EventOf(k)] = [chain |-> task[k].earlier,
                                                              held |-> task[k].hold]]
              /\ k[1] = TRIAGE
          BY <1>0, <3>3, <4>2 DEF HandOff, Put, LanesApart
        <5>2. task[<<DEEP, EventOf(k)>>].at = "idle"
          BY <1>0, <5>1 DEF HandsAgree, StateTypeOK, TaskTypeOK
        <5>3. CASE EventOf(j) # EventOf(k)
          <6>1. carried'[EventOf(j)] = carried[EventOf(j)]
            BY <1>0, <5>1, <5>3 DEF StateTypeOK, WorldTypeOK
          <6> QED
            BY <3>1, <3>2, <6>1, RestSound
        <5>4. CASE EventOf(j) = EventOf(k)
          <6>1. j = <<DEEP, EventOf(k)>>
            <7>1. j[1] # k[1]
              BY <2>2, <5>4 DEF EventOf
            <7> QED
              BY <5>1, <5>4, <7>1 DEF EventOf
          <6>2. task'[j].at = "idle"
            BY <3>1, <5>2, <6>1
          <6> QED
            BY <3>2, <6>2, RestSound DEF Effects
        <5> QED
          BY <5>3, <5>4
      <4> QED
        BY <4>1, <4>2
    <3>4. CASE ~HandOff(k)
      <4>1. carried' = carried
        BY <1>2, <3>4
           DEF TriageStep, Triage, Lookup, DeleteToHold, RecordHeld, DeepStep, Deep, Release,
           RecordReleased, EffectStep, Delete, RecordDeleted, FallBackToWarn, Repost, RecordReposted,
           Notice, RecordNotified, Audit, files
      <4> QED
        BY <3>1, <3>2, <4>1, RestSound
    <3> QED
      BY <3>3, <3>4
  <2> QED
    BY <2>1, <2>2
<1> QED
  BY <1>1, <1>2 DEF WorkerNext, ThreadStep, Rest

\* A removal asks for no hold.
LEMMA RemovalHolds ==
  ASSUME task \in [Keys -> Tasks], NEW k \in Keys, NEW said, NEW todo, Removal(k, said, todo)
  PROVE  \A j \in Keys : task'[j].hold \/ task'[j].at = "hold" => task[j].hold \/ task[j].at = "hold"
<1>1. Notify(said.act, stage[k]) # "hold"
  BY NotifyPlace
<1>2. CASE Reached(k, "deleted")
  BY <1>1, <1>2 DEF Removal, Tasks
<1>3. CASE ~Reached(k, "deleted")
  BY <1>3 DEF Removal, Tasks
<1> QED
  BY <1>2, <1>3

\* Only in a hold channel is a message held.
LEMMA StepHeldByPolicy ==
  ASSUME TypeOK, StateTypeOK, HeldByPolicy, [WorkerNext]_vars PROVE HeldByPolicy'
<1> USE JobsAreKeys
<1> DEFINE Holds(t) == t.hold \/ t.at = "hold"
<1>0. task \in [Keys -> Tasks] /\ carried \in [Events -> [chain : SUBSET Events, held : BOOLEAN]]
  BY DEF StateTypeOK, TaskTypeOK, WorldTypeOK
<1>1. ASSUME NEW k \in Keys, TriageStep(k) \/ DeepStep(k) \/ EffectStep(k), ~Lookup(k), ~DeleteToHold(k)
      PROVE  \A j \in Keys : Holds(task'[j]) => Holds(task[j])
  <2>1. CASE Triage(k)
    <3> DEFINE e == EventOf(k)
               o == Others(window[Author[e]], e)
               said == RulesSay(e, o)
               todo == IF said.related = {} THEN {MsgOf[e]} ELSE said.related
    <3>1. \/ Removal(k, said, todo)
          \/ task' = [task EXCEPT ![k].at = "lookup", ![k].asks = (name = "unknown"),
                              ![k].earlier = o]
      BY <2>1 DEF Triage
    <3> HIDE DEF o, said, todo
    <3>2. CASE Removal(k, said, todo)
      BY <1>0, <3>2, RemovalHolds
    <3>3. CASE task' = [task EXCEPT ![k].at = "lookup", ![k].asks = (name = "unknown"),
                              ![k].earlier = o]
      BY <1>0, <3>3 DEF Tasks
    <3> QED
      BY <3>1, <3>2, <3>3
  <2>2. CASE Deep(k)
    <3> DEFINE e == EventOf(k)
               Related(v) == IF v.parts = {} THEN {} ELSE MsgsOf(v.parts \cup {e})
               Todo(v) == (IF Related(v) = {} THEN {MsgOf[e]} ELSE Related(v))
                          \ (IF carried[e].held THEN {MsgOf[e]} ELSE {})
               Place(v) == IF carried[e].held /\ ~Reached(k, "released") THEN "release"
                           ELSE NotifyUnlessAllowed(v.act, stage[k])
    <3>1. PICK v \in Verdicts[e] :
            \/ Go(k, "raised")
            \/ Removal(k, [act |-> v.act, related |-> Related(v)], Todo(v))
            \/ task' = [task EXCEPT ![k].at = Place(v), ![k].act = v.act, ![k].related = Related(v)]
      BY <2>2 DEF Deep
    <3>2. Place(v) # "hold"
      BY NotifyPlace
    <3> HIDE DEF Place, Related, Todo
    <3>3. CASE Go(k, "raised")
      BY <1>0, <3>3 DEF Go, Tasks
    <3>4. CASE Removal(k, [act |-> v.act, related |-> Related(v)], Todo(v))
      BY <1>0, <3>4, RemovalHolds
    <3>5. CASE task' = [task EXCEPT ![k].at = Place(v), ![k].act = v.act, ![k].related = Related(v)]
      BY <1>0, <3>2, <3>5 DEF Tasks
    <3> QED
      BY <3>1, <3>3, <3>4, <3>5
  <2>3. CASE Delete(k)
    BY <1>0, <2>3 DEF Delete, CatchRefusal, Tasks
  <2>4. CASE FallBackToWarn(k)
    BY <1>0, <2>4, NotifyPlace DEF FallBackToWarn, Tasks
  <2>5. CASE ~Triage(k) /\ ~Deep(k) /\ ~Delete(k) /\ ~FallBackToWarn(k)
    <3>1. \E p : Go(k, p) /\ p # "hold"
      BY <1>1, <2>5, NotifyPlace
         DEF TriageStep, RecordHeld, HandOff, DeepStep, Release, RecordReleased, EffectStep,
             RecordDeleted, Repost, RecordReposted, Notice, CatchRefusal, RecordNotified, Audit
    <3> QED
      BY <1>0, <3>1 DEF Go, Tasks
  <2> QED
    BY <2>1, <2>2, <2>3, <2>4, <2>5
<1>2. ASSUME NEW k \in Keys, Lookup(k) \/ DeleteToHold(k), NEW j \in Keys, Holds(task'[j])
      PROVE  HoldChannel
  <2>1. Holds(task[j]) => HoldChannel
    BY DEF HeldByPolicy
  <2>2. CASE Lookup(k)
    <3>1. \/ Go(k, "raised")
          \/ task' = [task EXCEPT ![k].hold = HoldWanted(k),
                                  ![k].at = IF HoldWanted(k) /\ ~Reached(k, "held")
                                            THEN "hold" ELSE "handoff"]
      BY <2>2 DEF Lookup
    <3>2. (HoldWanted(k) => HoldChannel) /\ HoldWanted(k) \in BOOLEAN
      BY DEF HoldWanted
    <3> HIDE DEF HoldWanted
    <3>3. CASE ~HoldWanted(k)
      <4>1. Go(k, "raised") \/ task' = [task EXCEPT ![k].hold = FALSE, ![k].at = "handoff"]
        BY <3>1, <3>2, <3>3
      <4>2. CASE Go(k, "raised")
        BY <1>0, <1>2, <2>1, <4>2 DEF Go, Tasks
      <4>3. CASE task' = [task EXCEPT ![k].hold = FALSE, ![k].at = "handoff"]
        <5>1. CASE j # k
          BY <1>0, <1>2, <2>1, <4>3, <5>1
        <5>2. CASE j = k
          <6> DEFINE t == [task[k] EXCEPT !.hold = FALSE, !.at = "handoff"]
          <6>1. task'[k] = t
            BY <1>0, <4>3
          <6>2. ~t.hold /\ t.at = "handoff"
            BY <1>0 DEF Tasks
          <6> HIDE DEF t
          <6> QED
            BY <1>2, <5>2, <6>1, <6>2
        <5> QED
          BY <5>1, <5>2
      <4> QED
        BY <4>1, <4>2, <4>3
    <3> QED
      BY <3>2, <3>3
  <2>3. CASE DeleteToHold(k)
    <3>1. HoldChannel
      BY <2>3 DEF DeleteToHold, HeldByPolicy
    <3> QED
      BY <3>1
  <2> QED
    BY <1>2, <2>2, <2>3
<1>3. ASSUME Rest, NEW j \in Keys, Holds(task'[j]) PROVE HoldChannel
  <2>1. CASE task'[j] = task[j]
    BY <1>3, <2>1 DEF HeldByPolicy
  <2>2. Holds(task[j]) => HoldChannel
    BY DEF HeldByPolicy
  <2>3. CASE UNCHANGED vars \/ Outside \/ \E e \in Events : Deliver(e)
    BY <1>3, <2>2, <2>3 DEF vars, Outside, Write, Drop, Deliver
  <2>4. CASE Lifecycle
    BY <1>3, <2>2, <2>4 DEF Lifecycle, WorkerRestart, CatchUp, WorkerStart, WorkerCrash, WorkerTick, Idle
  <2>5. ASSUME NEW k \in Keys, ClaimJob(k) \/ Return(k) \/ Advance(k) \/ Raise(k) \/ WriteFault(k)
        PROVE  HoldChannel
    <3>1. CASE ClaimJob(k)
      BY <1>0, <1>3, <2>2, <3>1, ClaimTask
    <3>2. CASE Return(k) \/ Advance(k) \/ Raise(k) \/ WriteFault(k)
      BY <1>0, <1>3, <2>2, <3>2
         DEF Return, Advance, Raise, WriteFault, WriteRaises, ThreadEnds, Go, Idle, Tasks
    <3> QED
      BY <2>5, <3>1, <3>2
  <2> QED
    BY <1>3, <2>3, <2>4, <2>5 DEF Rest
<1>4. \A j \in Keys : Holds(task'[j]) => HoldChannel
  <2>1. \A j \in Keys : Holds(task[j]) => HoldChannel
    BY DEF HeldByPolicy
  <2> HIDE DEF Holds
  <2> QED
    BY <1>1, <1>2, <1>3, <2>1 DEF WorkerNext, ThreadStep, Rest
<1>5. ASSUME NEW e \in Events, carried'[e].held PROVE HoldChannel
  <2>1. CASE carried'[e] = carried[e]
    BY <1>5, <2>1 DEF HeldByPolicy
  <2>2. ASSUME NEW k \in Keys, HandOff(k) PROVE HoldChannel
    <3>1. carried' \in {carried, [carried EXCEPT ![EventOf(k)] = [chain |-> task[k].earlier,
                                                                  held |-> task[k].hold]]}
      BY <2>2 DEF HandOff
    <3>2. carried'[e].held => carried[e].held \/ task[k].hold
      <4>1. EventOf(k) \in Events
        OBVIOUS
      <4>2. CASE carried' = carried
        BY <4>2
      <4>3. CASE carried' = [carried EXCEPT ![EventOf(k)] = [chain |-> task[k].earlier,
                                                             held |-> task[k].hold]]
        <5> DEFINE p == [chain |-> task[k].earlier, held |-> task[k].hold]
        <5>1. p.held = task[k].hold
          OBVIOUS
        <5> HIDE DEF p
        <5>2. carried' = [carried EXCEPT ![EventOf(k)] = p]
          BY <4>3 DEF p
        <5>3. carried'[e] = carried[e] \/ carried'[e] = p
          BY <1>0, <4>1, <5>2
        <5> QED
          BY <5>1, <5>3
      <4> QED
        BY <3>1, <4>2, <4>3
    <3> QED
      BY <1>5, <3>2 DEF HeldByPolicy
  <2>3. ASSUME NEW k \in Keys, TriageStep(k) \/ DeepStep(k) \/ EffectStep(k), ~HandOff(k)
        PROVE  carried' = carried
    BY <2>3
       DEF TriageStep, Triage, Lookup, DeleteToHold, RecordHeld, DeepStep, Deep, Release,
       RecordReleased, EffectStep, Delete, RecordDeleted, FallBackToWarn, Repost, RecordReposted,
       Notice, RecordNotified, Audit, files
  <2>4. Rest => carried' = carried
    BY RestMoves DEF files
  <2> QED
    BY <2>1, <2>2, <2>3, <2>4 DEF WorkerNext, ThreadStep, Rest
<1> QED
  BY <1>4, <1>5 DEF HeldByPolicy

\* A line is only written by a handler that is past the deletes.
LEMMA StepAuditTrue ==
  ASSUME Steady, Audited, [WorkerNext]_vars PROVE AuditIsTrue'
<1>0. /\ trail \in [Events -> SUBSET [act : Actions \cup {"none"}, msgs : SUBSET Msgs]]
      /\ \A m \in Msgs : Gone(m) => Gone(m)'
  BY GoneStays DEF Audited, Ready, StateTypeOK, WorldTypeOK
<1>1. ASSUME NEW e \in Events, NEW l \in trail[e], SaidToRemove(l) PROVE \A m \in l.msgs : Gone(m)'
  <2>1. l.msgs \subseteq Msgs /\ \A m \in l.msgs : Gone(m)
    BY <1>0, <1>1 DEF Audited, AuditIsTrue
  <2> QED
    BY <1>0, <2>1
<1>2. ASSUME NEW k \in Keys, Audit(k), NEW e \in Events, NEW l \in trail'[e], SaidToRemove(l),
             l \notin trail[e]
      PROVE  \A m \in l.msgs : Gone(m)'
  <2>1. l = [act |-> task[k].act, msgs |-> Targets(k)] /\ task[k].at = "audit"
    BY <1>0, <1>2 DEF Audit
  <2>2. task[k].act \in Removing
    BY <1>2, <2>1 DEF SaidToRemove
  <2>3. Targets(k) \subseteq MsgsOf(sent) /\ \A m \in Targets(k) : Gone(m)
    BY <2>1, <2>2 DEF Audited, TrueToVerdict, RemovedIsGone, Effects
  <2>4. MsgsOf(sent) \subseteq Msgs
    BY AuditFacts
  <2>5. \A m \in Targets(k) : Gone(m)'
    BY <1>0, <2>3, <2>4
  <2> QED
    BY <2>1, <2>5
<1>3. trail' = trail \/ \E k \in Keys : Audit(k)
  <2>1. ASSUME NEW k \in Keys, TriageStep(k) \/ DeepStep(k) \/ EffectStep(k), ~Audit(k)
        PROVE  trail' = trail
    BY <2>1 DEF TriageStep, Triage, Lookup, DeleteToHold, RecordHeld, HandOff, DeepStep, Deep, Release,
       RecordReleased, EffectStep, Delete, RecordDeleted, FallBackToWarn, Repost, RecordReposted,
       Notice, RecordNotified, files
  <2>2. Rest => trail' = trail
    BY RestMoves DEF files, Audited, Ready, IInv
  <2> QED
    BY <2>1, <2>2 DEF WorkerNext, ThreadStep, Rest
<1>4. ASSUME NEW e \in Events, NEW l \in trail'[e], SaidToRemove(l) PROVE \A m \in l.msgs : Gone(m)'
  BY <1>1, <1>2, <1>3, <1>4
<1> QED
  BY <1>4 DEF AuditIsTrue, SaidToRemove

\* Every step of the worker keeps the audit trail true.
LEMMA StepAudited ==
  ASSUME Ready, WindowTypeOK, MemoryWritten, AuditInv, [WorkerNext]_vars PROVE AuditInv'
<1> SUFFICES ASSUME "refused" \notin Faults, SteadyVerdicts
             PROVE  /\ \A k \in Keys : TrueToVerdict(k)' /\ RemovedIsGone(k)'
                    /\ HeldByPolicy' /\ AuditIsTrue'
  BY DEF AuditInv, SteadyVerdicts
<1>1. Steady /\ Audited
  BY DEF Steady, Audited, AuditInv
<1>2. TypeOK /\ StateTypeOK /\ HeldByPolicy
  BY <1>1 DEF Ready, IInv, Audited
<1>3. \A k \in Keys : TrueToVerdict(k)' /\ RemovedIsGone(k)'
  BY <1>1, StepSound
<1>4. HeldByPolicy' /\ AuditIsTrue'
  BY <1>1, <1>2, StepHeldByPolicy, StepAuditTrue
<1> QED
  BY <1>3, <1>4

\* The worker starts with nothing remembered and nothing on record.
LEMMA InitAudited == WorkerInit => WindowTypeOK /\ MemoryWritten /\ AuditInv
<1> SUFFICES ASSUME WorkerInit PROVE WindowTypeOK /\ MemoryWritten /\ AuditInv
  OBVIOUS
<1>1. WindowTypeOK /\ MemoryWritten
  BY EmptySeq, WindowAssumption DEF WorkerInit, WindowTypeOK, MemoryWritten, Idle
<1>2. \A k \in Keys : TrueToVerdict(k) /\ RemovedIsGone(k)
  BY DEF WorkerInit, Init, TrueToVerdict, RemovedIsGone, Idle, Effects, PastDelete, NoStage
<1>3. HeldByPolicy /\ AuditIsTrue
  BY DEF WorkerInit, HeldByPolicy, AuditIsTrue, Idle
<1> QED
  BY <1>1, <1>2, <1>3 DEF AuditInv

\* The memory of the worker is well formed in every reachable state.
LEMMA AllRemembered == WorkerSpec => [](WindowTypeOK /\ MemoryWritten)
<1>1. WorkerInit => WindowTypeOK /\ MemoryWritten
  BY InitAudited
<1>2. Ready /\ WindowTypeOK /\ MemoryWritten /\ [WorkerNext]_vars => WindowTypeOK' /\ MemoryWritten'
  BY StepRemembered DEF Ready
<1> QED
  BY <1>1, <1>2, AllReady, PTL DEF WorkerSpec

\* What is behind the truth of the audit trail holds in every reachable state.
LEMMA AllAudited == WorkerSpec => []AuditInv
<1>1. WorkerInit => AuditInv
  BY InitAudited
<1>2. Ready /\ WindowTypeOK /\ MemoryWritten /\ AuditInv /\ [WorkerNext]_vars => AuditInv'
  BY StepAudited
<1> QED
  BY <1>1, <1>2, AllReady, AllRemembered, PTL DEF WorkerSpec

\* As long as Slack refuses no call and the verdicts of a message agree on what is removed, a line
\* of the audit trail that says a message was removed is written after it is gone.
THEOREM AuditTellsTruth ==
  ASSUME "refused" \notin Faults, SteadyVerdicts PROVE WorkerSpec => []AuditIsTrue
<1>1. AuditInv => AuditIsTrue
  BY DEF AuditInv
<1> QED
  BY <1>1, AllAudited, PTL

\* Types, the windows included.
THEOREM WorkerTypesAlways == WorkerSpec => []WorkerTypeOK
<1>1. StateTypeOK /\ WindowTypeOK => WorkerTypeOK
  BY DEF WorkerTypeOK
<1> QED
  BY <1>1, WorkerTypes, AllRemembered, PTL

(***************************************************************************)
(* Who made a message disappear can be asked.                              *)
(***************************************************************************)

Sure == "refused" \notin Faults /\ DecidedAlone /\ SureVerdicts
\* Verdicts on messages decided alone, and sure to remove or not, are steady.
LEMMA SureIsSteady == Sure => Steady
  BY DEF Sure, Steady, DecidedAlone, SureVerdicts, SteadyVerdicts, Removing

\* What the proof of a step starts from.
Counted == /\ Audited /\ DecisionsTraced
           /\ name \in {"unknown", "known"}
           /\ \A k \in Keys : DeletesOwn(k) /\ HeldComesBack(k)
           /\ RemovalsAnswered /\ DeepIsHeld /\ GoneIsSpokenFor

\* Copies and lines stay.
LEMMA AnswersStay ==
  ASSUME TypeOK, StateTypeOK, [WorkerNext]_vars, NEW e \in Events
  PROVE  /\ posts[e].released > 0 => posts'[e].released > 0
         /\ trail[e] \subseteq trail'[e]
         /\ posts[e].released \in Nat
<1> USE JobsAreKeys
<1>0. /\ posts \in [Events -> [released : Nat, redacted : Nat]] /\ posts[e].released \in Nat
      /\ trail \in [Events -> SUBSET [act : Actions \cup {"none"}, msgs : SUBSET Msgs]]
  BY DEF StateTypeOK, WorldTypeOK
<1> DEFINE Goal == (posts[e].released > 0 => posts'[e].released > 0) /\ trail[e] \subseteq trail'[e]
<1>1. CASE Rest
  <2>1. UNCHANGED <<notices, posts, files>>
    BY <1>1, RestMoves
  <2> QED
    BY <1>0, <2>1 DEF files
<1>2. ASSUME NEW k \in Keys, Release(k) PROVE Goal
  <2>1. posts' = posts \/ posts' = [posts EXCEPT ![EventOf(k)].released = @ + 1]
    BY <1>2 DEF Release
  <2>2. trail' = trail
    BY <1>2 DEF Release, files
  <2> QED
    BY <1>0, <2>1, <2>2
<1>3. ASSUME NEW k \in Keys, Repost(k) PROVE Goal
  <2>1. posts' = posts \/ posts' = [posts EXCEPT ![EventOf(k)].redacted = @ + 1]
    BY <1>3 DEF Repost
  <2>2. trail' = trail
    BY <1>3 DEF Repost, files
  <2> QED
    BY <1>0, <2>1, <2>2
<1>4. ASSUME NEW k \in Keys, Audit(k) PROVE Goal
  <2> DEFINE l == [act |-> task[k].act, msgs |-> Targets(k)]
  <2>1. trail' = trail \/ trail' = [trail EXCEPT ![EventOf(k)] = @ \cup {l}]
    BY <1>4 DEF Audit
  <2>2. posts' = posts
    BY <1>4 DEF Audit, slack
  <2> HIDE DEF l
  <2> QED
    BY <1>0, <2>1, <2>2
<1>5. ASSUME NEW k \in Keys, TriageStep(k) \/ DeepStep(k) \/ EffectStep(k),
             ~Release(k), ~Repost(k), ~Audit(k)
      PROVE Goal
  <2>1. posts' = posts /\ trail' = trail
    BY <1>5 DEF TriageStep, Triage, Lookup, DeleteToHold, RecordHeld, HandOff, DeepStep, Deep,
       RecordReleased, EffectStep, Delete, RecordDeleted, FallBackToWarn, RecordReposted,
       Notice, RecordNotified, slack, files
  <2> QED
    BY <2>1
<1> QED
  BY <1>0, <1>1, <1>2, <1>3, <1>4, <1>5 DEF WorkerNext, ThreadStep, Rest

\* What the lemmas on accounted steps use of the invariant.
LEMMA AccountFacts ==
  ASSUME Sure, Counted, [WorkerNext]_vars, NEW k \in Keys
  PROVE  /\ task \in [Keys -> Tasks] /\ task[k] \in Tasks
         /\ stage \in [Keys -> Stages] /\ stage[k] \in Stages
         /\ EventOf(k) \in Events /\ task[k].ok
         /\ TypeOK /\ StateTypeOK
         /\ TrueToVerdict(k) /\ DeletesOwn(k) /\ HeldComesBack(k)
         /\ posts[EventOf(k)].released > 0 => posts'[EventOf(k)].released > 0
         /\ task[k].at # "idle" => EventOf(k) \in sent /\ status[k] = "processing"
<1>1. Steady /\ Audited
  BY SureIsSteady DEF Counted
<1>2. TypeOK /\ StateTypeOK /\ HandsAgree
  BY <1>1 DEF Audited, Ready, IInv
<1>3. EventOf(k) \in Events
  BY JobsAreKeys
<1>4. task[k].at # "idle" => status[k] = "processing"
  BY <1>2 DEF HandsAgree, StateTypeOK, TaskTypeOK
<1>5. posts[EventOf(k)].released > 0 => posts'[EventOf(k)].released > 0
  BY <1>2, <1>3, AnswersStay
<1>6. stage \in [Keys -> Stages]
  BY <1>2 DEF TypeOK
<1> QED
  BY <1>1, <1>2, <1>3, <1>4, <1>5, <1>6, AuditFacts DEF Counted

\* All removals by a job are of its message alone.
LEMMA RemovalsAreOwn ==
  ASSUME Sure, NEW k \in Keys PROVE RemovalsOf(k) \subseteq {{MsgAt(k)}}
<1> DEFINE e == EventOf(k)
<1>0. e \in Events /\ MsgAt(k) = MsgOf[e]
  BY JobsAreKeys DEF MsgAt, EventOf
<1>1. Split[e] = {} /\ \A v \in Verdicts[e] : v.parts = {}
  BY <1>0 DEF Sure, DecidedAlone
<1>2. MsgsOf({} \cup {e}) = {MsgOf[e]}
  BY DEF MsgsOf
<1> QED
  BY <1>0, <1>1, <1>2 DEF RemovalsOf

\* In the deep lane, who removes once removes in every attempt.
LEMMA RemovesAlways ==
  ASSUME Sure, Counted, [WorkerNext]_vars, NEW k \in Keys,
         task[k].at \in Effects, task[k].act \in Removing
  PROVE  /\ Targets(k) = {MsgAt(k)}
         /\ k[1] # TRIAGE => RemovedInDeep(EventOf(k))
<1>1. Targets(k) \in RemovalsOf(k)
  BY AccountFacts DEF TrueToVerdict
<1>2. Targets(k) = {MsgAt(k)}
  BY <1>1, RemovalsAreOwn
<1>3. CASE k[1] # TRIAGE
  <2>1. \E v \in Verdicts[EventOf(k)] : v.act \in Removing
    BY <1>1, <1>3 DEF RemovalsOf
  <2>2. EventOf(k) \in Events
    BY JobsAreKeys
  <2> QED
    BY <1>2, <2>1, <2>2 DEF Sure, SureVerdicts, RemovedInDeep
<1> QED
  BY <1>2, <1>3

\* A handler that stands still or has nothing to show for goes on as it should.
LEMMA RestComesBack ==
  ASSUME Sure, Counted, [WorkerNext]_vars, NEW k \in Keys,
         stage'[k] \in {stage[k], NoStage, "held", "deleted"},
         \/ task'[k].at \notin {"delete", "held", "handoff", "released", "notice", "notified", "audit"}
         \/ task'[k].at \in {"notice", "notified", "audit"} /\ task'[k].act \in Removing
         \/ task'[k] = task[k]
  PROVE  DeletesOwn(k)' /\ HeldComesBack(k)'
<1> DEFINE e == EventOf(k)
<1>1. DeletesOwn(k) /\ HeldComesBack(k) /\ (posts[e].released > 0 => posts'[e].released > 0)
  BY AccountFacts
<1>2. EventOf(k)' = e /\ MsgAt(k)' = MsgAt(k) /\ (FoundAlone(k)' <=> FoundAlone(k))
  BY DEF EventOf, MsgAt, FoundAlone
<1>3. stage'[k] \in {"released", "reposted", "notified"} => stage'[k] = stage[k]
  BY DEF NoStage
<1> HIDE DEF e
<1>4. DeletesOwn(k)'
  BY <1>1, <1>2 DEF DeletesOwn
<1>5. HeldComesBack(k)'
  BY <1>1, <1>2, <1>3 DEF HeldComesBack, e
<1> QED
  BY <1>4, <1>5

\* A decision to remove deletes the job's own message only.
LEMMA RemovalComesBack ==
  ASSUME Sure, Counted, [WorkerNext]_vars, NEW k \in Keys, NEW said, NEW todo,
         said.act \in Removing, todo \subseteq {MsgAt(k)}, k[1] = TRIAGE => FoundAlone(k),
         Removal(k, said, todo), stage' = stage
  PROVE  DeletesOwn(k)' /\ HeldComesBack(k)'
<1>0. task \in [Keys -> Tasks] /\ task[k] \in Tasks
  BY AccountFacts
<1>1. task'[k].act = said.act
  BY <1>0 DEF Removal, Tasks
<1>2. CASE Reached(k, "deleted")
  <2>1. task'[k].at = Notify(said.act, stage[k])
    BY <1>0, <1>2 DEF Removal, Tasks
  <2>2. task'[k].at \in {"post", "notice", "audit"}
    BY <2>1, NotifyPlace
  <2> QED
    BY <1>1, <2>2, RestComesBack
<1>3. CASE ~Reached(k, "deleted")
  <2>1. task'[k].at = "delete" /\ task'[k].todo = todo
    BY <1>0, <1>3 DEF Removal, Tasks
  <2>2. EventOf(k)' = EventOf(k) /\ MsgAt(k)' = MsgAt(k) /\ (FoundAlone(k)' <=> FoundAlone(k))
    BY DEF EventOf, MsgAt, FoundAlone
  <2>3. DeletesOwn(k)'
    BY <2>1, <2>2 DEF DeletesOwn
  <2>4. HeldComesBack(k) /\ (posts[EventOf(k)].released > 0 => posts'[EventOf(k)].released > 0)
    BY AccountFacts
  <2>5. HeldComesBack(k)'
    BY <2>1, <2>2, <2>4 DEF HeldComesBack
  <2> QED
    BY <2>3, <2>5
<1> QED
  BY <1>2, <1>3

\* A handler that acts holds a job in processing, and a deep one of a held message in a hold channel.
LEMMA InHand ==
  ASSUME Sure, Counted, [WorkerNext]_vars, NEW k \in Keys, task[k].at # "idle"
  PROVE  /\ status[k] = "processing" /\ EventOf(k) \in sent
         /\ k[1] # TRIAGE => Rule[EventOf(k)] = "none" /\ (HoldChannel => carried[EventOf(k)].held)
         /\ k[1] # TRIAGE => k = <<DEEP, EventOf(k)>>
<1>1. status[k] = "processing" /\ EventOf(k) \in sent
  BY AccountFacts
<1>2. ASSUME k[1] # TRIAGE
      PROVE  /\ Rule[EventOf(k)] = "none" /\ (HoldChannel => carried[EventOf(k)].held)
             /\ k = <<DEEP, EventOf(k)>>
  <2>1. k = <<DEEP, EventOf(k)>> /\ EventOf(k) \in Events
    BY <1>2, JobsAreKeys DEF EventOf
  <2> QED
    BY <1>1, <2>1 DEF Counted, DeepIsHeld
<1> QED
  BY <1>1, <1>2

\* A step of triage deletes only its own message, and passes on what it held.
LEMMA TriageComesBack ==
  ASSUME Sure, Counted, [WorkerNext]_vars, NEW k \in Keys, TriageStep(k)
  PROVE  DeletesOwn(k)' /\ HeldComesBack(k)'
<1> USE JobsAreKeys
<1>0. /\ task \in [Keys -> Tasks] /\ task[k] \in Tasks /\ EventOf(k) \in Events
      /\ stage \in [Keys -> Stages] /\ HeldComesBack(k)
      /\ posts[EventOf(k)].released > 0 => posts'[EventOf(k)].released > 0
  BY AccountFacts
<1>k. /\ k[1] = TRIAGE /\ k[1] # DEEP /\ EventOf(k)' = EventOf(k) /\ MsgAt(k)' = MsgAt(k)
      /\ FoundAlone(k)' <=> FoundAlone(k)
  BY DEF TRIAGE, DEEP, EventOf, MsgAt, FoundAlone, Counted, Audited, Ready, LanesApart,
     TriageStep, Triage, Lookup, DeleteToHold, RecordHeld, HandOff
<1>1. CASE Triage(k)
  <2> DEFINE e == EventOf(k)
             earlier == Others(window[Author[e]], e)
             said == RulesSay(e, earlier)
             todo == IF said.related = {} THEN {MsgOf[e]} ELSE said.related
  <2>1. stage' = stage /\ MsgAt(k) = MsgOf[e]
    BY <1>1 DEF Triage, queueVars, rows, MsgAt, EventOf
  <2>2. Split[e] = {}
    BY <1>0 DEF Sure, DecidedAlone
  <2>3. /\ said.related = {} /\ (said.act # "none" => FoundAlone(k) /\ said.act \in Removing)
    BY <1>0, <2>2, EventAssumption DEF RulesSay, FoundAlone, Removing
  <2>4. \/ said.act # "none" /\ Removal(k, said, todo)
        \/ task' = [task EXCEPT ![k].at = "lookup", ![k].asks = (name = "unknown"),
                                ![k].earlier = earlier]
    BY <1>1 DEF Triage
  <2>5. todo \subseteq {MsgAt(k)}
    BY <2>1, <2>3
  <2> HIDE DEF earlier, said, todo
  <2>6. CASE said.act # "none" /\ Removal(k, said, todo)
    BY <2>1, <2>3, <2>5, <2>6, RemovalComesBack
  <2>7. CASE task' = [task EXCEPT ![k].at = "lookup", ![k].asks = (name = "unknown"),
                                 ![k].earlier = earlier]
    <3>1. task'[k].at = "lookup"
      BY <1>0, <2>7 DEF Tasks
    <3> QED
      BY <2>1, <3>1, RestComesBack
  <2> QED
    BY <2>4, <2>6, <2>7
<1>2. CASE Lookup(k)
  <2>1. stage' = stage
    BY <1>2 DEF Lookup, queueVars, rows
  <2>2. PICK asks \in BOOLEAN, a \in Answers \cup {"ok"} :
          \/ Go(k, "raised")
          \/ /\ ~Raises(a) /\ LearnName(a, asks) /\ MayAsk(k, asks)
             /\ task' = [task EXCEPT ![k].hold = HoldWanted(k),
                                     ![k].at = IF HoldWanted(k) /\ ~Reached(k, "held")
                                               THEN "hold" ELSE "handoff"]
    BY <1>2 DEF Lookup
  <2>3. CASE Go(k, "raised")
    <3>1. task'[k].at = "raised"
      BY <1>0, <2>3 DEF Go, Tasks
    <3> QED
      BY <2>1, <3>1, RestComesBack
  <2>4. CASE /\ ~Raises(a) /\ LearnName(a, asks) /\ MayAsk(k, asks)
             /\ task' = [task EXCEPT ![k].hold = HoldWanted(k),
                                     ![k].at = IF HoldWanted(k) /\ ~Reached(k, "held")
                                               THEN "hold" ELSE "handoff"]
    <3>1. a = "ok"
      BY <2>4, FaultAssumption DEF Answers, Raises, Sure
    <3>2. name' = "known"
      BY <2>4, <3>1 DEF LearnName, MayAsk, Counted
    <3> DEFINE p == IF HoldWanted(k) /\ ~Reached(k, "held") THEN "hold" ELSE "handoff"
    <3>3. p \in {"hold", "handoff"}
      OBVIOUS
    <3>4. task'[k].at = p
      BY <1>0, <2>4 DEF Tasks
    <3>5. HoldChannel => task'[k].hold
      <4> SUFFICES ASSUME HoldChannel PROVE task'[k].hold
        OBVIOUS
      <4>1. HoldWanted(k) = TRUE
        BY <3>2 DEF HoldWanted
      <4> HIDE DEF p
      <4>2. task' = [task EXCEPT ![k].hold = TRUE, ![k].at = p]
        BY <2>4, <4>1 DEF p
      <4> QED
        BY <1>0, <4>2 DEF Tasks
    <3> HIDE DEF p
    <3>7. DeletesOwn(k)'
      BY <3>3, <3>4 DEF DeletesOwn
    <3>8. HeldComesBack(k)'
      BY <1>0, <1>k, <2>1, <3>3, <3>4, <3>5 DEF HeldComesBack
    <3> QED
      BY <3>7, <3>8
  <2> QED
    BY <2>2, <2>3, <2>4
<1>3. CASE DeleteToHold(k)
  <2>1. stage' = stage
    BY <1>3 DEF DeleteToHold, queueVars, rows
  <2>2. PICK a \in Answers :
          task' = [task EXCEPT ![k].at = CASE a = "ok" -> "held"
                                           [] a = "refused" -> "handoff"
                                           [] OTHER -> "raised",
                               ![k].hold = HoldAfter(a)]
    BY <1>3 DEF DeleteToHold
  <2>3. a \in {"ok", "failed", "lost"}
    BY FaultAssumption DEF Answers, Sure
  <2>4. CASE a = "ok"
    <3>1. task' = [task EXCEPT ![k].at = "held", ![k].hold = TRUE]
      BY <2>2, <2>4 DEF HoldAfter
    <3>2. task'[k].at = "held" /\ task'[k].hold
      BY <1>0, <3>1 DEF Tasks
    <3>3. DeletesOwn(k)'
      BY <3>2 DEF DeletesOwn
    <3>4. HeldComesBack(k)'
      BY <1>0, <1>k, <2>1, <3>2 DEF HeldComesBack
    <3> QED
      BY <3>3, <3>4
  <2>5. CASE a # "ok"
    <3>1. task' = [task EXCEPT ![k].at = "raised", ![k].hold = FALSE]
      BY <2>2, <2>3, <2>5 DEF HoldAfter
    <3>2. task'[k].at = "raised"
      BY <1>0, <3>1 DEF Tasks
    <3> QED
      BY <2>1, <3>2, RestComesBack
  <2> QED
    BY <2>4, <2>5
<1>4. CASE RecordHeld(k)
  <2>1. /\ stage' = [stage EXCEPT ![k] = "held"] /\ task[k].at = "held"
        /\ task'[k].at = "handoff" /\ task'[k].hold = task[k].hold
    BY <1>0, <1>4 DEF RecordHeld, SetStage, Go, Tasks
  <2>2. DeletesOwn(k)'
    BY <2>1 DEF DeletesOwn
  <2>3. HeldComesBack(k)'
    BY <1>0, <1>k, <2>1 DEF HeldComesBack
  <2> QED
    BY <2>2, <2>3
<1>5. CASE HandOff(k)
  <2>1. stage'[k] \in {stage[k], NoStage} /\ task'[k].at = "return"
    BY <1>0, <1>5 DEF HandOff, Put, Go, queueVars, rows, Tasks
  <2> QED
    BY <2>1, RestComesBack
<1> QED
  BY <1>1, <1>2, <1>3, <1>4, <1>5 DEF TriageStep

\* A step of the deep lane releases what it does not remove.
LEMMA DeepComesBack ==
  ASSUME Sure, Counted, [WorkerNext]_vars, NEW k \in Keys, DeepStep(k)
  PROVE  DeletesOwn(k)' /\ HeldComesBack(k)'
<1> USE JobsAreKeys
<1>0. /\ task \in [Keys -> Tasks] /\ task[k] \in Tasks /\ EventOf(k) \in Events
      /\ stage \in [Keys -> Stages] /\ stage[k] \in Stages /\ HeldComesBack(k) /\ TrueToVerdict(k)
      /\ posts[EventOf(k)].released > 0 => posts'[EventOf(k)].released > 0
  BY AccountFacts
<1>k. /\ EventOf(k)' = EventOf(k) /\ MsgAt(k)' = MsgAt(k)
      /\ FoundAlone(k)' <=> FoundAlone(k)
  BY DEF EventOf, MsgAt, FoundAlone
<1>1. CASE Deep(k)
  <2> DEFINE e == EventOf(k)
             Related(v) == IF v.parts = {} THEN {} ELSE MsgsOf(v.parts \cup {e})
             Said(v) == [act |-> v.act, related |-> Related(v)]
             Todo(v) == (IF Related(v) = {} THEN {MsgOf[e]} ELSE Related(v))
                        \ (IF carried[e].held THEN {MsgOf[e]} ELSE {})
             Place(v) == IF carried[e].held /\ ~Reached(k, "released") THEN "release"
                         ELSE NotifyUnlessAllowed(v.act, stage[k])
  <2>1. /\ k[1] = DEEP /\ k[1] # TRIAGE /\ stage' = stage /\ MsgAt(k) = MsgOf[e]
        /\ task[k].at # "idle" /\ posts' = posts
    BY <1>1 DEF Deep, queueVars, rows, slack, MsgAt, EventOf, TRIAGE, DEEP
  <2>2. PICK v \in Verdicts[e] :
             \/ Go(k, "raised")
             \/ v.act \in Removing /\ Removal(k, Said(v), Todo(v))
             \/ /\ v.act \notin Removing
                /\ task' = [task EXCEPT ![k].at = Place(v), ![k].act = v.act,
                                        ![k].related = Related(v)]
    BY <1>1, <2>1 DEF Deep
  <2>3. CASE Go(k, "raised")
    <3>1. task'[k].at = "raised"
      BY <1>0, <2>3 DEF Go, Tasks
    <3> QED
      BY <2>1, <3>1, RestComesBack
  <2>4. CASE v.act \in Removing /\ Removal(k, Said(v), Todo(v))
    <3> DEFINE said == Said(v)
               todo == Todo(v)
    <3>1. v.parts = {}
      BY <1>0 DEF Sure, DecidedAlone
    <3>2. todo \subseteq {MsgAt(k)}
      BY <2>1, <3>1
    <3>3. said.act \in Removing /\ Removal(k, said, todo)
      BY <2>4
    <3> HIDE DEF said, todo
    <3> QED
      BY <2>1, <3>2, <3>3, RemovalComesBack
  <2>5. CASE /\ v.act \notin Removing
             /\ task' = [task EXCEPT ![k].at = Place(v), ![k].act = v.act,
                                     ![k].related = Related(v)]
    <3>1. \/ Place(v) = "release"
          \/ /\ carried[e].held => Reached(k, "released")
             /\ Place(v) \in {"post", "notice", "audit"}
      BY NotifyPlace
    <3> HIDE DEF Related, Place
    <3>2. task'[k].act = v.act /\ task'[k].at = Place(v)
      BY <1>0, <2>5 DEF Tasks
    <3>3. DeletesOwn(k)'
      BY <3>1, <3>2 DEF DeletesOwn
    <3>4. CASE Place(v) = "release"
      BY <2>1, <3>2, <3>4, RestComesBack
    <3>5. CASE /\ carried[e].held => Reached(k, "released")
               /\ Place(v) \in {"post", "notice", "audit"}
      <4>1. HoldChannel => carried[e].held
        BY <2>1, InHand
      <4>2. Reached(k, "released") => stage[k] \in {"released", "reposted", "notified"}
        BY <1>0, LastStage DEF Reached
      <4>3. HoldChannel => posts[e].released > 0
        BY <1>0, <2>1, <2>5, <3>5, <4>1, <4>2 DEF HeldComesBack
      <4>4. HeldComesBack(k)'
        BY <1>0, <1>k, <2>1, <3>2, <3>5, <4>3 DEF HeldComesBack
      <4> QED
        BY <3>3, <4>4
    <3> QED
      BY <3>1, <3>4, <3>5
  <2> QED
    BY <2>2, <2>3, <2>4, <2>5
<1>2. CASE Release(k)
  <2>1. PICK a \in Answers :
          /\ posts' = IF Effective(a) THEN [posts EXCEPT ![EventOf(k)].released = @ + 1] ELSE posts
          /\ Go(k, IF a = "ok" THEN "released" ELSE "raised")
    BY <1>2 DEF Release
  <2>2. stage' = stage
    BY <1>2 DEF Release, queueVars, rows
  <2>3. CASE a = "ok"
    <3>1. posts' = [posts EXCEPT ![EventOf(k)].released = @ + 1]
      BY <2>1, <2>3 DEF Effective
    <3>2. /\ posts \in [Events -> [released : Nat, redacted : Nat]]
          /\ posts[EventOf(k)].released \in Nat
      BY <1>0, AccountFacts DEF StateTypeOK, WorldTypeOK
    <3>3. posts'[EventOf(k)].released > 0
      BY <1>0, <3>1, <3>2
    <3>4. task'[k].at = "released"
      BY <1>0, <2>1, <2>3 DEF Go, Tasks
    <3>5. DeletesOwn(k)'
      BY <3>4 DEF DeletesOwn
    <3>6. HeldComesBack(k)'
      BY <1>k, <3>3, <3>4 DEF HeldComesBack
    <3> QED
      BY <3>5, <3>6
  <2>4. CASE a # "ok"
    <3>1. task'[k].at = "raised"
      BY <1>0, <2>1, <2>4 DEF Go, Tasks
    <3> QED
      BY <2>2, <3>1, RestComesBack
  <2> QED
    BY <2>3, <2>4
<1>3. CASE RecordReleased(k)
  <2>1. /\ task[k].at = "released" /\ posts' = posts
        /\ task'[k].at = NotifyUnlessAllowed(task[k].act, "released")
    BY <1>0, <1>3 DEF RecordReleased, SetStage, Go, slack, Tasks
  <2>2. HoldChannel => posts[EventOf(k)].released > 0
    BY <1>0, <2>1 DEF HeldComesBack
  <2>3. task'[k].at \in {"post", "notice", "audit"}
    BY <2>1, NotifyPlace
  <2>4. DeletesOwn(k)'
    BY <2>3 DEF DeletesOwn
  <2>5. HeldComesBack(k)'
    BY <1>k, <2>1, <2>2, <2>3 DEF HeldComesBack
  <2> QED
    BY <2>4, <2>5
<1> QED
  BY <1>1, <1>2, <1>3 DEF DeepStep

\* A step of the side effects does not lose a message that was held.
LEMMA EffectComesBack ==
  ASSUME Sure, Counted, [WorkerNext]_vars, NEW k \in Keys, EffectStep(k)
  PROVE  DeletesOwn(k)' /\ HeldComesBack(k)'
<1> USE JobsAreKeys
<1>0. /\ task \in [Keys -> Tasks] /\ task[k] \in Tasks /\ EventOf(k) \in Events
      /\ stage \in [Keys -> Stages] /\ HeldComesBack(k) /\ TrueToVerdict(k) /\ DeletesOwn(k)
      /\ posts[EventOf(k)].released > 0 => posts'[EventOf(k)].released > 0
      /\ task[k].ok
  BY AccountFacts
<1>k. /\ EventOf(k)' = EventOf(k) /\ MsgAt(k)' = MsgAt(k)
      /\ FoundAlone(k)' <=> FoundAlone(k)
  BY DEF EventOf, MsgAt, FoundAlone
<1>1. CASE Delete(k)
  <2>0. PICK m : m = Oldest(task[k].todo)
    OBVIOUS
  <2>1. PICK a \in Answers :
          task' = [task EXCEPT ![k].todo = @ \ {m}, ![k].ok = @ /\ Deleted(a),
                               ![k].at = CatchRefusal(a, "delete")]
    BY <1>1, <2>0 DEF Delete
  <2>2. stage' = stage /\ task[k].at = "delete"
    BY <1>1 DEF Delete, queueVars, rows
  <2>3. task'[k].todo = task[k].todo \ {m} /\ task'[k].at \in {"delete", "raised"}
    BY <1>0, <2>1 DEF CatchRefusal, Tasks
  <2>4. DeletesOwn(k)'
    BY <1>0, <1>k, <2>2, <2>3 DEF DeletesOwn
  <2>5. HeldComesBack(k)'
    BY <1>0, <1>k, <2>2, <2>3 DEF HeldComesBack
  <2> QED
    BY <2>4, <2>5
<1>2. CASE FallBackToWarn(k)
  BY <1>0, <1>2 DEF FallBackToWarn
<1>3. CASE RecordDeleted(k)
  <2>1. /\ stage'[k] = "deleted" /\ task[k].at = "delete"
        /\ task'[k].at = Notify(task[k].act, "deleted") /\ task'[k].act = task[k].act
    BY <1>0, <1>3 DEF RecordDeleted, SetStage, Go, Tasks
  <2>2. task[k].act \in Removing
    BY <1>0, <2>1 DEF TrueToVerdict
  <2>3. task'[k].at \in {"post", "notice", "audit"}
    BY <2>1, NotifyPlace
  <2> QED
    BY <2>1, <2>2, <2>3, RestComesBack
<1>4. CASE Repost(k)
  <2>1. stage' = stage /\ task'[k].at \in {"reposted", "raised"}
    BY <1>0, <1>4 DEF Repost, Go, queueVars, rows, Tasks
  <2> QED
    BY <2>1, RestComesBack
<1>5. ASSUME RecordReposted(k) \/ RecordNotified(k) PROVE DeletesOwn(k)' /\ HeldComesBack(k)'
  <2>1. /\ \/ task[k].at = "reposted" /\ stage'[k] = "reposted" /\ task'[k].at = "notice"
           \/ task[k].at = "notified" /\ stage'[k] = "notified" /\ task'[k].at = "audit"
        /\ task'[k].act = task[k].act
    BY <1>0, <1>5 DEF RecordReposted, RecordNotified, SetStage, Go, Tasks
  <2>2. task[k].at \in Effects /\ (task[k].at = "reposted" => task[k].act \in Removing)
    BY <1>0, <2>1 DEF TrueToVerdict, Effects
  <2>3. DeletesOwn(k)'
    BY <2>1 DEF DeletesOwn
  <2>4. CASE task[k].act \in Removing
    <3>1. k[1] # TRIAGE => RemovedInDeep(EventOf(k))
      BY <2>2, <2>4, RemovesAlways
    <3>2. k[1] = DEEP => \A v \in Verdicts[EventOf(k)] : v.act \in Removing
      BY <3>1 DEF RemovedInDeep, TRIAGE, DEEP
    <3>3. HeldComesBack(k)'
      BY <1>k, <2>1, <2>4, <3>2 DEF HeldComesBack
    <3> QED
      BY <2>3, <3>3
  <2>5. CASE task[k].act \notin Removing
    <3>1. task[k].at = "notified"
      BY <2>1, <2>2, <2>5
    <3>2. HoldChannel => posts'[EventOf(k)].released > 0
      BY <1>0, <2>5, <3>1 DEF HeldComesBack
    <3>3. HeldComesBack(k)'
      BY <1>k, <2>1, <3>2 DEF HeldComesBack
    <3> QED
      BY <2>3, <3>3
  <2> QED
    BY <2>4, <2>5
<1>6. CASE Notice(k)
  <2>1. /\ stage' = stage /\ task[k].at = "notice"
        /\ task'[k].at \in {"notified", "raised"} /\ task'[k].act = task[k].act
    BY <1>0, <1>6 DEF Notice, CatchRefusal, Go, queueVars, rows, Tasks
  <2>2. DeletesOwn(k)'
    BY <2>1 DEF DeletesOwn
  <2>3. HeldComesBack(k)'
    BY <1>0, <1>k, <2>1 DEF HeldComesBack
  <2> QED
    BY <2>2, <2>3
<1>7. CASE Audit(k)
  <2>1. stage' = stage /\ task'[k].at \in {"return", "raised"}
    BY <1>0, <1>7 DEF Audit, Go, queueVars, rows, Tasks
  <2> QED
    BY <2>1, RestComesBack
<1> QED
  BY <1>1, <1>2, <1>3, <1>4, <1>5, <1>6, <1>7 DEF EffectStep

\* A step of one handler leaves the others alone, and does to their rows at most what storing does.
LEMMA OthersStand ==
  ASSUME Ready, RefusalsSpareSplits, [WorkerNext]_vars, NEW k \in Keys,
         TriageStep(k) \/ DeepStep(k) \/ EffectStep(k), NEW j \in Keys \ {k}
  PROVE  task'[j] = task[j] /\ stage'[j] \in {stage[j], NoStage}
<1>1. task'[j] = task[j]
  BY TriageGone, DeepGone, EffectGone
<1>2. stage \in [Keys -> Stages]
  BY DEF Ready, IInv, TypeOK
<1>3. stage'[j] \in {stage[j], NoStage}
  BY <1>2, JobsAreKeys
     DEF TriageStep, Triage, Lookup, DeleteToHold, RecordHeld, HandOff, DeepStep, Deep, Release,
     RecordReleased, EffectStep, Delete, RecordDeleted, FallBackToWarn, Repost, RecordReposted,
     Notice, RecordNotified, Audit, SetStage, Put, queueVars, rows
<1> QED
  BY <1>1, <1>3

\* Every step of the worker keeps held messages on their way back.
LEMMA StepComesBack ==
  ASSUME Sure, Counted, [WorkerNext]_vars, NEW j \in Keys
  PROVE  DeletesOwn(j)' /\ HeldComesBack(j)'
<1>0. TypeOK /\ StateTypeOK /\ Ready /\ RefusalsSpareSplits
  BY DEF Counted, Audited, Ready, IInv, Sure, RefusalsSpareSplits
<1>1. CASE Rest
  <2>1. /\ stage'[j] \in {stage[j], NoStage}
        /\ task'[j] = task[j] \/ Anew(j)
    BY <1>0, <1>1, RestMoves
  <2> QED
    BY <2>1, RestComesBack DEF Anew
<1>2. ASSUME NEW k \in Keys, TriageStep(k) \/ DeepStep(k) \/ EffectStep(k)
      PROVE  DeletesOwn(j)' /\ HeldComesBack(j)'
  <2>1. CASE j = k
    <3>1. DeletesOwn(k)' /\ HeldComesBack(k)'
      BY <1>2, TriageComesBack, DeepComesBack, EffectComesBack
    <3> QED
      BY <2>1, <3>1
  <2>2. CASE j # k
    <3>1. task'[j] = task[j] /\ stage'[j] \in {stage[j], NoStage}
      BY <1>0, <1>2, <2>2, OthersStand
    <3> QED
      BY <3>1, RestComesBack
  <2> QED
    BY <2>1, <2>2
<1> QED
  BY <1>1, <1>2 DEF WorkerNext, ThreadStep, Rest

\* Without refusals the name of the channel is never learned wrong.
LEMMA StepNamed ==
  ASSUME Sure, StateTypeOK, name \in {"unknown", "known"}, [WorkerNext]_vars
  PROVE  name' \in {"unknown", "known"}
<1>1. ASSUME NEW a \in Answers \cup {"ok"}, NEW asks \in BOOLEAN, ~Raises(a), LearnName(a, asks)
      PROVE  name' \in {"unknown", "known"}
  <2>1. a = "ok"
    BY <1>1, FaultAssumption DEF Answers, Raises, Sure
  <2> QED
    BY <1>1, <2>1 DEF LearnName
<1>2. ASSUME NEW k \in Keys, Lookup(k) PROVE name' \in {"unknown", "known"}
  <2>1. PICK asks \in BOOLEAN, a \in Answers \cup {"ok"} :
          name' = name \/ (~Raises(a) /\ LearnName(a, asks))
    BY <1>2 DEF Lookup
  <2> QED
    BY <1>1, <2>1
<1>3. ASSUME NEW k \in Keys, Deep(k) PROVE name' \in {"unknown", "known"}
  <2>1. PICK asks \in BOOLEAN, a \in Answers :
          name' = name \/ (~Raises(a) /\ LearnName(a, asks))
    BY <1>3 DEF Deep, memory
  <2> QED
    BY <1>1, <2>1
<1>4. ASSUME NEW k \in Keys, TriageStep(k) \/ DeepStep(k) \/ EffectStep(k), ~Lookup(k), ~Deep(k)
      PROVE  name' = name
  BY <1>4 DEF TriageStep, Triage, DeleteToHold, RecordHeld, HandOff, DeepStep, Release,
     RecordReleased, EffectStep, Delete, RecordDeleted, FallBackToWarn, Repost, RecordReposted,
     Notice, RecordNotified, Audit, memory
<1>5. ASSUME Rest PROVE name' \in {name, "unknown"}
  BY <1>5 DEF Rest, vars, Outside, Write, Drop, Lifecycle, WorkerRestart, CatchUp, WorkerStart,
     WorkerCrash, WorkerTick, Deliver, ClaimJob, Return, Advance, Raise, WriteFault, WriteRaises,
     ThreadEnds, memory
<1> QED
  BY <1>2, <1>3, <1>4, <1>5 DEF WorkerNext, ThreadStep, Rest

\* The rows: triage stores deep jobs, and nobody else; an open row stays, or is settled.
LEMMA RowSteps ==
  ASSUME IInv, StateTypeOK, [WorkerNext]_vars, NEW j \in Keys
  PROVE  /\ status'[j] \in Statuses
         /\ status[j] \in {"queued", "processing", "dead"} => status'[j] # "absent"
         /\ status'[j] = "done" => status[j] = "done" \/ task[j].at = "return"
         /\ status[j] = "dead" => status'[j] = "dead"
         /\ status[j] = "absent" /\ status'[j] # "absent" =>
              j[1] = TRIAGE \/ \E k \in Keys : HandOff(k) /\ EventOf(k) = EventOf(j)
<1> USE JobsAreKeys
<1>0. /\ status \in [Keys -> Statuses] /\ HandsAgree
      /\ hand \in [Keys -> {"free", "handling", "finished", "lost"}]
      /\ \A k \in Keys : task[k].at # "idle" <=> hand[k] = "handling"
  BY DEF IInv, TypeOK, StateTypeOK, TaskTypeOK
<1> DEFINE Goal == /\ status[j] \in {"queued", "processing", "dead"} => status'[j] # "absent"
                   /\ status'[j] = "done" => status[j] = "done" \/ task[j].at = "return"
                   /\ status[j] = "dead" => status'[j] = "dead"
                   /\ status[j] = "absent" /\ status'[j] # "absent" =>
                        j[1] = TRIAGE \/ \E k \in Keys : HandOff(k) /\ EventOf(k) = EventOf(j)
<1>1. ASSUME UNCHANGED status PROVE Goal
  BY <1>1
<1>2. ASSUME NEW k \in Keys, Put(k),
             k[1] = TRIAGE \/ \E i \in Keys : HandOff(i) /\ EventOf(i) = EventOf(k)
      PROVE  Goal
  BY <1>0, <1>2 DEF Put
<1>3. ASSUME NEW e \in Events, Enqueue(e) PROVE Goal
  <2>1. <<TRIAGE, e>> \in Keys /\ <<TRIAGE, e>>[1] = TRIAGE
    OBVIOUS
  <2> QED
    BY <1>1, <1>2, <1>3, <2>1 DEF Enqueue, queueVars, rows
<1>4. ASSUME UNCHANGED vars \/ Outside PROVE Goal
  BY <1>1, <1>4 DEF vars, Outside, Write, Drop, queueVars, rows
<1>5. ASSUME NEW e \in Events, Deliver(e) PROVE Goal
  BY <1>3, <1>5 DEF Deliver
<1>6. ASSUME Lifecycle PROVE Goal
  <2>1. CASE CatchUp
    <3>1. Head(backlog) \in Events
      BY <2>1, HeadTailProperties DEF CatchUp, StateTypeOK, WorldTypeOK
    <3> QED
      BY <1>1, <1>3, <2>1, <3>1 DEF CatchUp, queueVars, rows
  <2>2. CASE \E expired \in SUBSET Keys, lay \in Layouts : WorkerRestart(expired, lay)
    BY <1>0, <2>2 DEF WorkerRestart, Restart, Prunable, Recovered, Statuses
  <2>3. CASE WorkerStart \/ WorkerTick
    BY <1>1, <2>3 DEF WorkerStart, StartThreads, WorkerTick, Tick, rows
  <2>4. CASE WorkerCrash
    BY <1>0, <2>4, KeyAssumption DEF WorkerCrash, Crash, CrashInFail, rows, HandsAgree
  <2> QED
    BY <1>6, <2>1, <2>2, <2>3, <2>4 DEF Lifecycle
<1>7. ASSUME NEW k \in Keys, TriageStep(k) \/ DeepStep(k) \/ EffectStep(k), ~HandOff(k) PROVE Goal
  <2>1. UNCHANGED status
    BY <1>7 DEF TriageStep, Triage, Lookup, DeleteToHold, RecordHeld, DeepStep, Deep, Release,
       RecordReleased, EffectStep, Delete, RecordDeleted, FallBackToWarn, Repost, RecordReposted,
       Notice, RecordNotified, Audit, SetStage, queueVars, rows
  <2> QED
    BY <1>1, <2>1
<1>8. ASSUME NEW k \in Keys, HandOff(k) PROVE Goal
  <2>1. <<DEEP, EventOf(k)>> \in Keys /\ EventOf(<<DEEP, EventOf(k)>>) = EventOf(k)
    BY DEF EventOf
  <2>2. Put(<<DEEP, EventOf(k)>>) \/ UNCHANGED status
    BY <1>8 DEF HandOff, queueVars, rows
  <2> QED
    BY <1>1, <1>2, <1>8, <2>1, <2>2
<1>9. ASSUME NEW k \in Keys, ClaimJob(k) \/ Return(k) \/ Advance(k) \/ Raise(k) \/ WriteFault(k) PROVE Goal
  <2>1. CASE ClaimJob(k)
    BY <1>0, <2>1 DEF ClaimJob, Claim, LaneHead
  <2>2. CASE Return(k)
    BY <1>0, <2>2 DEF Return, Done, HandsAgree
  <2>3. CASE Advance(k)
    BY <1>1, <2>3 DEF Advance, AdvanceCursor, rows
  <2>4. CASE Raise(k)
    BY <1>0, <2>4, KeyAssumption DEF Raise, Fail, HandsAgree
  <2>5. CASE WriteRaises(k)
    BY <1>1, <2>5 DEF WriteRaises, queueVars, rows
  <2>6. CASE ThreadEnds(k)
    BY <1>0, <2>6, KeyAssumption DEF ThreadEnds, EndThread, HandsAgree
  <2> QED
    BY <1>9, <2>1, <2>2, <2>3, <2>4, <2>5, <2>6 DEF WriteFault
<1> HIDE DEF Goal
<1>10. Goal
  BY <1>4, <1>5, <1>6, <1>7, <1>8, <1>9 DEF WorkerNext, ThreadStep
<1>11. status'[j] \in Statuses
  BY QueueStep, NextType DEF IInv, TypeOK
<1> QED
  BY <1>10, <1>11 DEF Goal

\* Only triage fills in what a deep job carries, and only when it stores the job.
LEMMA CarriedMoves ==
  ASSUME TypeOK, StateTypeOK, [WorkerNext]_vars, NEW e \in Events
  PROVE  \/ carried'[e] = carried[e]
         \/ \E k \in Keys : /\ HandOff(k) /\ EventOf(k) = e /\ status[<<DEEP, e>>] = "absent"
                            /\ carried'[e].held = task[k].hold
<1> USE JobsAreKeys
<1>1. CASE Rest
  BY <1>1, RestMoves DEF files
<1>2. ASSUME NEW k \in Keys, HandOff(k)
      PROVE  \/ carried'[e] = carried[e]
             \/ /\ EventOf(k) = e /\ status[<<DEEP, e>>] = "absent"
                /\ carried'[e].held = task[k].hold
  <2> DEFINE c == [chain |-> task[k].earlier, held |-> task[k].hold]
  <2>0. carried \in [Events -> [chain : SUBSET Events, held : BOOLEAN]] /\ EventOf(k) \in Events
    BY DEF StateTypeOK, WorldTypeOK
  <2>1. \/ carried' = carried
        \/ Put(<<DEEP, EventOf(k)>>) /\ carried' = [carried EXCEPT ![EventOf(k)] = c]
    BY <1>2 DEF HandOff
  <2>2. c.held = task[k].hold
    OBVIOUS
  <2> HIDE DEF c
  <2>3. CASE Put(<<DEEP, EventOf(k)>>) /\ carried' = [carried EXCEPT ![EventOf(k)] = c]
    <3>1. status[<<DEEP, EventOf(k)>>] = "absent"
      BY <2>3 DEF Put
    <3> QED
      BY <2>0, <2>2, <2>3, <3>1
  <2> QED
    BY <2>1, <2>3
<1>3. ASSUME NEW k \in Keys, TriageStep(k) \/ DeepStep(k) \/ EffectStep(k), ~HandOff(k)
      PROVE  carried' = carried
  BY <1>3 DEF TriageStep, Triage, Lookup, DeleteToHold, RecordHeld, DeepStep, Deep, Release,
     RecordReleased, EffectStep, Delete, RecordDeleted, FallBackToWarn, Repost, RecordReposted,
     Notice, RecordNotified, Audit, files
<1> QED
  BY <1>1, <1>2, <1>3 DEF WorkerNext, ThreadStep, Rest

\* Every deep job is of a message without a rule hit, held if the channel is.
LEMMA StepDeepIsHeld == ASSUME Sure, Counted, [WorkerNext]_vars PROVE DeepIsHeld'
<1>1. SUFFICES ASSUME NEW e \in Events, status'[<<DEEP, e>>] # "absent"
               PROVE  Rule[e] = "none" /\ (HoldChannel => carried'[e].held)
  BY DEF DeepIsHeld
<1> DEFINE d == <<DEEP, e>>
<1>2. IInv /\ TypeOK /\ StateTypeOK /\ DeepIsHeld /\ RefusalsSpareSplits /\ Ready
  BY DEF Counted, Audited, Ready, IInv, Sure, RefusalsSpareSplits
<1>3. d \in Keys /\ EventOf(d) = e /\ d[1] # TRIAGE
  BY JobsAreKeys DEF EventOf, TRIAGE, DEEP
<1>4. CASE status[d] # "absent"
  <2>1. carried'[e] = carried[e]
    BY <1>2, <1>4, CarriedMoves
  <2> QED
    BY <1>2, <1>4, <2>1 DEF DeepIsHeld
<1>5. CASE status[d] = "absent"
  <2>1. PICK k \in Keys : HandOff(k) /\ EventOf(k) = e
    BY <1>1, <1>2, <1>3, <1>5, RowSteps
  <2>2. task[k].at = "handoff" /\ HeldComesBack(k)
    BY <2>1, AccountFacts DEF HandOff
  <2>3. GoneAsAssumed(k)
    BY <1>2, ReadyFacts
  <2>4. Rule[e] = "none"
    BY <2>1, <2>2, <2>3 DEF GoneAsAssumed, FoundAlone
  <2>5. HoldChannel => task[k].hold
    BY <2>2 DEF HeldComesBack
  <2>6. carried' = [carried EXCEPT ![e] = [chain |-> task[k].earlier, held |-> task[k].hold]]
    BY <1>5, <2>1 DEF HandOff
  <2>7. carried'[e].held = task[k].hold
    BY <1>2, <2>6 DEF StateTypeOK, WorldTypeOK
  <2> QED
    BY <2>4, <2>5, <2>7
<1> QED
  BY <1>4, <1>5

\* What answers for a message stays.
LEMMA AnsweredStays ==
  ASSUME TypeOK, StateTypeOK, [WorkerNext]_vars, NEW e \in Events, Answered(e)
  PROVE  Answered(e)'
<1>1. /\ posts[e].released > 0 => posts'[e].released > 0
      /\ trail[e] \subseteq trail'[e]
  BY AnswersStay
<1> QED
  BY <1>1 DEF Answered, OnRecord, SaidToRemove

\* A handler returns when the decision is on record, or the deep lane has the message.
LEMMA ReturnAnswered ==
  ASSUME Sure, Counted, [WorkerNext]_vars, NEW j \in Keys, Accountable(EventOf(j)),
         task'[j].at = "return"
  PROVE  \/ task[j].at = "return"
         \/ Answered(EventOf(j))'
         \/ j[1] = TRIAGE /\ InDeepLane(EventOf(j))'
<1> USE JobsAreKeys
<1> DEFINE e == EventOf(j)
           d == <<DEEP, e>>
<1>0. /\ task \in [Keys -> Tasks] /\ task[j] \in Tasks /\ e \in Events
      /\ TypeOK /\ StateTypeOK /\ TrueToVerdict(j) /\ HeldComesBack(j)
      /\ posts[e].released > 0 => posts'[e].released > 0
  BY AccountFacts
<1>1. CASE Rest
  BY <1>0, <1>1, RestMoves DEF Anew
<1>2. ASSUME NEW k \in Keys \ {j}, TriageStep(k) \/ DeepStep(k) \/ EffectStep(k) PROVE task'[j] = task[j]
  BY <1>2, OthersStand DEF Counted, Audited, Sure, RefusalsSpareSplits
<1>3. ASSUME HandOff(j) PROVE j[1] = TRIAGE /\ (InDeepLane(e)' \/ Answered(e)')
  <2>1. j[1] = TRIAGE
    BY <1>3 DEF HandOff, Counted, Audited, Ready, LanesApart
  <2>2. d \in Keys /\ status \in [Keys -> Statuses]
    BY <1>0 DEF TypeOK
  <2>3. CASE Put(d)
    BY <2>1, <2>2, <2>3 DEF Put, InDeepLane
  <2>4. CASE status[d] # "absent" /\ status' = status
    <3>1. status[d] \in {"queued", "processing", "dead"} \/ DoneFor(DEEP, e)
      BY <2>2, <2>4 DEF Statuses, DoneFor
    <3>2. DoneFor(DEEP, e) => Answered(e)
      BY <1>0 DEF Counted, RemovalsAnswered
    <3> QED
      BY <1>0, <2>1, <2>4, <3>1, <3>2, AnsweredStays DEF InDeepLane
  <2> QED
    BY <1>3, <2>3, <2>4 DEF HandOff, queueVars, rows
<1>4. ASSUME Audit(j) PROVE Answered(e)'
  <2> DEFINE l == [act |-> task[j].act, msgs |-> Targets(j)]
  <2>1. task[j].at = "audit"
    BY <1>4 DEF Audit
  <2>2. PICK a \in Answers \ {"refused"} :
          /\ trail' = IF Effective(a) THEN [trail EXCEPT ![e] = @ \cup {l}] ELSE trail
          /\ Go(j, IF a = "ok" THEN "return" ELSE "raised")
    BY <1>4 DEF Audit
  <2>3. a = "ok"
    BY <1>0, <2>2 DEF Go, Tasks
  <2>4. l \in trail'[e]
    <3>1. trail' = [trail EXCEPT ![e] = @ \cup {l}]
      BY <2>2, <2>3 DEF Effective
    <3>2. trail \in [Events -> SUBSET [act : Actions \cup {"none"}, msgs : SUBSET Msgs]]
      BY <1>0 DEF StateTypeOK, WorldTypeOK
    <3> HIDE DEF l
    <3> QED
      BY <1>0, <3>1, <3>2
  <2>5. CASE task[j].act \in Removing
    <3>1. Targets(j) = {MsgOf[e]}
      BY <2>1, <2>5, RemovesAlways DEF MsgAt, EventOf, Effects
    <3> QED
      BY <2>4, <2>5, <3>1 DEF Answered, OnRecord, SaidToRemove
  <2>6. CASE task[j].act \notin Removing
    <3>1. j[1] = DEEP /\ \E v \in Verdicts[e] : v.act = task[j].act
      BY <1>0, <2>1, <2>6 DEF TrueToVerdict, Effects
    <3>2. Rule[e] = "none" /\ ~RemovedInDeep(e)
      BY <2>1, <2>6, <3>1, InHand DEF RemovedInDeep, TRIAGE, DEEP
    <3>3. HoldChannel
      BY <3>2 DEF Accountable
    <3>4. posts[e].released > 0
      BY <1>0, <2>1, <2>6, <3>3 DEF HeldComesBack
    <3> QED
      BY <1>0, <3>4 DEF Answered
  <2> QED
    BY <2>5, <2>6
<1>5. ASSUME TriageStep(j) \/ DeepStep(j) \/ EffectStep(j), ~HandOff(j), ~Audit(j)
      PROVE  task'[j].at # "return"
  <2>0. task \in [Keys -> Tasks] /\ task[j] \in Tasks
    BY <1>0
  <2>1. ASSUME NEW said, NEW todo, Removal(j, said, todo) PROVE task'[j].at # "return"
    BY <2>0, <2>1, NotifyPlace DEF Removal, Tasks
  <2>2. ASSUME Triage(j) \/ Lookup(j) \/ DeleteToHold(j) PROVE task'[j].at # "return"
    <3>1. Triage(j) => task'[j].at # "return"
      BY <2>0, <2>1 DEF Triage, Tasks
    <3>2. Lookup(j) => task'[j].at # "return"
      BY <2>0 DEF Lookup, Go, Tasks
    <3>3. DeleteToHold(j) => task'[j].at # "return"
      BY <2>0 DEF DeleteToHold, Tasks
    <3> QED
      BY <2>2, <3>1, <3>2, <3>3
  <2>3. ASSUME Deep(j) PROVE task'[j].at # "return"
    <3> DEFINE f == EventOf(j)
               Related(v) == IF v.parts = {} THEN {} ELSE MsgsOf(v.parts \cup {f})
               Todo(v) == (IF Related(v) = {} THEN {MsgOf[f]} ELSE Related(v))
                          \ (IF carried[f].held THEN {MsgOf[f]} ELSE {})
               Place(v) == IF carried[f].held /\ ~Reached(j, "released") THEN "release"
                           ELSE NotifyUnlessAllowed(v.act, stage[j])
    <3>1. PICK a \in Answers, v \in Verdicts[f] :
            \/ Go(j, "raised")
            \/ Removal(j, [act |-> v.act, related |-> Related(v)], Todo(v))
            \/ task' = [task EXCEPT ![j].at = Place(v), ![j].act = v.act, ![j].related = Related(v)]
      BY <2>3 DEF Deep
    <3>2. Place(v) # "return"
      BY NotifyPlace
    <3> HIDE DEF Place, Related, Todo
    <3> QED
      BY <2>0, <2>1, <3>1, <3>2 DEF Go, Tasks
  <2>4. ASSUME RecordHeld(j) \/ Release(j) \/ RecordReleased(j) PROVE task'[j].at # "return"
    BY <2>0, <2>4, NotifyPlace DEF RecordHeld, Release, RecordReleased, Go, Tasks
  <2>5. ASSUME Delete(j) \/ RecordDeleted(j) \/ FallBackToWarn(j) PROVE task'[j].at # "return"
    <3>1. Delete(j) => task'[j].at # "return"
      BY <2>0 DEF Delete, CatchRefusal, Tasks
    <3>2. RecordDeleted(j) => task'[j].at # "return"
      BY <2>0, NotifyPlace DEF RecordDeleted, Go, Tasks
    <3>3. FallBackToWarn(j) => task'[j].at # "return"
      BY <2>0, NotifyPlace DEF FallBackToWarn, Tasks
    <3> QED
      BY <2>5, <3>1, <3>2, <3>3
  <2>6. ASSUME Repost(j) \/ RecordReposted(j) \/ Notice(j) \/ RecordNotified(j)
        PROVE  task'[j].at # "return"
    BY <2>0, <2>6 DEF Repost, RecordReposted, Notice, RecordNotified, CatchRefusal, Go, Tasks
  <2> QED
    BY <1>5, <2>2, <2>3, <2>4, <2>5, <2>6 DEF TriageStep, DeepStep, EffectStep
<1> HIDE DEF e
<1> QED
  BY <1>1, <1>2, <1>3, <1>4, <1>5 DEF WorkerNext, ThreadStep, Rest, e

\* Nothing that answers for a message is taken back, and a job ends with an answer.
LEMMA StepAnswered == ASSUME Sure, Counted, [WorkerNext]_vars PROVE RemovalsAnswered'
<1> USE JobsAreKeys
<1>1. SUFFICES ASSUME NEW e \in Events, Accountable(e)
               PROVE  /\ DoneFor(DEEP, e)' \/ task'[<<DEEP, e>>].at = "return" => Answered(e)'
                      /\ DoneFor(TRIAGE, e)' \/ task'[<<TRIAGE, e>>].at = "return" =>
                           Answered(e)' \/ InDeepLane(e)'
  BY DEF RemovalsAnswered, Accountable, RemovedInDeep
<1> DEFINE t == <<TRIAGE, e>>
           d == <<DEEP, e>>
<1>2. /\ t \in Keys /\ EventOf(t) = e
      /\ d \in Keys /\ EventOf(d) = e /\ d[1] # TRIAGE
  BY DEF EventOf, TRIAGE, DEEP
<1>3. IInv /\ TypeOK /\ StateTypeOK /\ RemovalsAnswered
  BY DEF Counted, Audited, Ready, IInv
<1>4. Answered(e) => Answered(e)'
  BY <1>3, AnsweredStays
<1>5. /\ DoneFor(DEEP, e) \/ task[d].at = "return" => Answered(e)
      /\ DoneFor(TRIAGE, e) \/ task[t].at = "return" => Answered(e) \/ InDeepLane(e)
  BY <1>1, <1>3 DEF RemovalsAnswered
<1>6. InDeepLane(e) => InDeepLane(e)' \/ Answered(e)
  <2>1. status[d] \in {"queued", "processing", "dead"} =>
          /\ status'[d] \in Statuses \ {"absent"}
          /\ status'[d] = "done" => task[d].at = "return"
    BY <1>2, <1>3, RowSteps
  <2> QED
    BY <1>5, <2>1 DEF InDeepLane, Statuses
<1>7. DoneFor(DEEP, e)' \/ task'[d].at = "return" => Answered(e)'
  <2>1. DoneFor(DEEP, e)' => DoneFor(DEEP, e) \/ task[d].at = "return"
    BY <1>2, <1>3, RowSteps DEF DoneFor
  <2>2. task'[d].at = "return" => task[d].at = "return" \/ Answered(e)'
    BY <1>1, <1>2, ReturnAnswered
  <2> QED
    BY <1>4, <1>5, <2>1, <2>2
<1>8. DoneFor(TRIAGE, e)' \/ task'[t].at = "return" => Answered(e)' \/ InDeepLane(e)'
  <2>1. DoneFor(TRIAGE, e)' => DoneFor(TRIAGE, e) \/ task[t].at = "return"
    BY <1>2, <1>3, RowSteps DEF DoneFor
  <2>2. task'[t].at = "return" => task[t].at = "return" \/ Answered(e)' \/ InDeepLane(e)'
    BY <1>1, <1>2, ReturnAnswered
  <2> QED
    BY <1>4, <1>5, <1>6, <2>1, <2>2
<1> QED
  BY <1>7, <1>8

\* A message for whose disappearance somebody can be asked stays one.
LEMMA SpokenStays ==
  ASSUME Sure, Counted, [WorkerNext]_vars, NEW e \in Events, Accountable(e), SpokenFor(e)
  PROVE  SpokenFor(e)'
<1> USE JobsAreKeys
<1> DEFINE t == <<TRIAGE, e>>
           d == <<DEEP, e>>
<1>1. t \in Keys /\ d \in Keys
  OBVIOUS
<1>2. IInv /\ TypeOK /\ StateTypeOK
  BY DEF Counted, Audited, Ready, IInv
<1>3. /\ DoneFor(DEEP, e)' => Answered(e)'
      /\ DoneFor(TRIAGE, e)' => Answered(e)' \/ InDeepLane(e)'
  <2>1. Accountable(e)'
    BY DEF Accountable, RemovedInDeep
  <2> QED
    BY <2>1, StepAnswered DEF RemovalsAnswered
<1>4. ASSUME NEW j \in {t, d}, status[j] \in {"queued", "processing"} PROVE SpokenFor(e)'
  <2>1. status'[j] \in {"queued", "processing", "dead", "done"}
    BY <1>1, <1>2, <1>4, RowSteps DEF Statuses
  <2>2. CASE status'[j] = "done"
    BY <1>3, <2>2 DEF DoneFor, SpokenFor, InDeepLane, Pending, DeadFor, Open
  <2>3. CASE status'[j] # "done"
    BY <2>1, <2>3 DEF SpokenFor, Pending, DeadFor, Open
  <2> QED
    BY <2>2, <2>3
<1>5. ASSUME DeadFor(e) PROVE SpokenFor(e)'
  BY <1>1, <1>2, <1>5, RowSteps DEF SpokenFor, DeadFor
<1>6. ASSUME Answered(e) PROVE SpokenFor(e)'
  BY <1>2, <1>6, AnsweredStays DEF SpokenFor
<1> QED
  BY <1>4, <1>5, <1>6 DEF SpokenFor, Pending, Open

\* A message disappears when the handler of one of its jobs deletes it.
LEMMA NewlyGone ==
  ASSUME Sure, Counted, [WorkerNext]_vars, NEW m \in Msgs, Gone(m)', ~Gone(m)
  PROVE  \E k \in Keys : task[k].at \in {"hold", "delete"} /\ m = MsgAt(k)
<1>0. StateTypeOK /\ live \in [Msgs -> Events \cup {NotLive}]
  BY DEF Counted, Audited, Ready, StateTypeOK, WorldTypeOK
<1>1. ~(\E e \in Events : Write(e))
  <2> SUFFICES ASSUME NEW e \in Events, Write(e) PROVE FALSE
    OBVIOUS
  <2>1. sent' = sent \cup {e} /\ live' = [live EXCEPT ![MsgOf[e]] = e] /\ e # NotLive
    BY EventAssumption DEF Write
  <2>2. live'[m] = NotLive /\ \E f \in sent' : MsgOf[f] = m
    BY DEF Gone
  <2>3. m # MsgOf[e]
    BY <1>0, <2>1, <2>2
  <2> QED
    BY <1>0, <2>1, <2>2, <2>3 DEF Gone
<1>2. sent' = sent
  BY <1>0, <1>1, WorldSteps
<1>3. live'[m] = NotLive /\ live[m] # NotLive
  BY <1>2 DEF Gone
<1>4. ASSUME NEW k \in Keys, DeleteToHold(k) PROVE task[k].at = "hold" /\ m = MsgAt(k)
  <2>1. task[k].at = "hold" /\ \E a \in Answers : DeleteOne(MsgAt(k), a)
    BY <1>4 DEF DeleteToHold
  <2> QED
    BY <1>0, <1>3, <2>1 DEF DeleteOne
<1>5. ASSUME NEW k \in Keys, Delete(k) PROVE task[k].at = "delete" /\ m = MsgAt(k)
  <2>1. /\ task[k].at = "delete" /\ task[k].todo # {}
        /\ \E a \in Answers : DeleteOne(Oldest(task[k].todo), a)
    BY <1>5 DEF Delete
  <2>2. task[k].todo = {MsgAt(k)}
    BY <2>1 DEF Counted, DeletesOwn
  <2>3. MsgAt(k) \in Msgs
    BY JobsAreKeys DEF MsgAt, EventOf, Msgs
  <2>4. Oldest({MsgAt(k)}) = MsgAt(k)
    BY <2>3, EventAssumption DEF Oldest
  <2>5. \E a \in Answers : DeleteOne(MsgAt(k), a)
    BY <2>1, <2>2, <2>4
  <2> QED
    BY <1>0, <1>3, <2>1, <2>5 DEF DeleteOne
<1>6. ASSUME NEW k \in Keys, ThreadStep(k), ~DeleteToHold(k), ~Delete(k) PROVE live' = live
  BY <1>6 DEF ThreadStep, TriageStep, Triage, Lookup, RecordHeld, HandOff, DeepStep, Deep, Release,
     RecordReleased, EffectStep, RecordDeleted, FallBackToWarn, Repost, RecordReposted, Notice,
     RecordNotified, Audit, Return, Advance, Raise, slack
<1>7. ASSUME ~(\E k \in Keys : ThreadStep(k)) PROVE live' = live
  BY <1>1, <1>7 DEF WorkerNext, vars, Outside, Drop, Lifecycle, WorkerRestart, CatchUp, WorkerStart,
     WorkerCrash, WorkerTick, Deliver, ClaimJob, WriteFault, WriteRaises, ThreadEnds, slack
<1> QED
  BY <1>3, <1>4, <1>5, <1>6, <1>7

\* It is a message that the policy holds, that a rule found, or that every verdict removes.
LEMMA StepSpokenFor == ASSUME Sure, Counted, [WorkerNext]_vars PROVE GoneIsSpokenFor'
<1> USE JobsAreKeys
<1>0. StateTypeOK /\ Steady /\ Audited /\ GoneIsSpokenFor /\ sent \subseteq Events
  BY SureIsSteady DEF Counted, Audited, Ready, StateTypeOK, WorldTypeOK
<1>1. sent \subseteq sent'
  BY <1>0, WorldSteps DEF Write
<1>2. SUFFICES ASSUME NEW m \in Msgs, Gone(m)'
               PROVE  \E e \in sent : MsgOf[e] = m /\ Accountable(e) /\ SpokenFor(e)
  <2>1. \A e \in sent : Accountable(e) /\ SpokenFor(e) => SpokenFor(e)'
    BY <1>0, SpokenStays
  <2>2. \A e \in Events : Accountable(e)' <=> Accountable(e)
    BY DEF Accountable, RemovedInDeep
  <2>3. Msgs' = Msgs
    BY DEF Msgs
  <2> QED
    BY <1>0, <1>1, <1>2, <2>1, <2>2, <2>3 DEF GoneIsSpokenFor
<1>3. CASE Gone(m)
  BY <1>0, <1>3 DEF GoneIsSpokenFor
<1>4. CASE ~Gone(m)
  <2>1. PICK k \in Keys : task[k].at \in {"hold", "delete"} /\ m = MsgAt(k)
    BY <1>2, <1>4, NewlyGone
  <2> DEFINE e == EventOf(k)
  <2>2. /\ e \in sent /\ MsgOf[e] = m /\ status[k] = "processing"
        /\ k = <<TRIAGE, e>> \/ k = <<DEEP, e>>
    BY <2>1, InHand DEF MsgAt, EventOf
  <2>3. SpokenFor(e)
    BY <2>2 DEF SpokenFor, Pending, Open
  <2>4. CASE task[k].at = "hold"
    <3>1. HoldChannel
      BY <1>0, <2>4 DEF Audited, HeldByPolicy
    <3> QED
      BY <2>2, <2>3, <3>1 DEF Accountable
  <2>5. CASE task[k].at = "delete"
    <3>1. DeletesOwn(k) /\ TrueToVerdict(k)
      BY AccountFacts
    <3>2. CASE k[1] = TRIAGE
      BY <2>2, <2>3, <2>5, <3>1, <3>2 DEF Accountable, DeletesOwn, FoundAlone
    <3>3. CASE k[1] # TRIAGE
      <4>1. RemovedInDeep(e)
        BY <2>5, <3>1, <3>3, RemovesAlways DEF TrueToVerdict, Effects
      <4> QED
        BY <2>2, <2>3, <4>1 DEF Accountable
    <3> QED
      BY <3>2, <3>3
  <2> QED
    BY <2>1, <2>4, <2>5
<1> QED
  BY <1>3, <1>4

\* Every step of the worker keeps messages that are gone accounted for.
LEMMA StepAccount ==
  ASSUME Ready, DecisionsTraced, MemoryWritten, AuditInv, AccountInv, [WorkerNext]_vars
  PROVE  AccountInv'
<1> SUFFICES ASSUME "refused" \notin Faults, DecidedAlone, SureVerdicts
             PROVE  /\ name' # "blank"
                    /\ \A k \in Keys : DeletesOwn(k)' /\ HeldComesBack(k)'
                    /\ RemovalsAnswered' /\ DeepIsHeld' /\ GoneIsSpokenFor'
  BY DEF AccountInv, DecidedAlone, SureVerdicts
<1>1. Sure /\ Steady
  BY SureIsSteady DEF Sure
<1>2. StateTypeOK /\ name \in {"unknown", "known"}
  BY DEF Ready, StateTypeOK, WorldTypeOK, AccountInv
<1>3. Audited
  BY <1>1 DEF Audited, AuditInv, Steady
<1>4. Counted
  BY <1>2, <1>3 DEF Counted, AccountInv
<1>5. name' # "blank"
  BY <1>1, <1>2, StepNamed
<1>6. \A k \in Keys : DeletesOwn(k)' /\ HeldComesBack(k)'
  BY <1>1, <1>4, StepComesBack
<1> QED
  BY <1>1, <1>4, <1>5, <1>6, StepAnswered, StepDeepIsHeld, StepSpokenFor

\* The worker starts with nothing to account for.
LEMMA InitAccount == WorkerInit => AccountInv
<1> SUFFICES ASSUME WorkerInit PROVE AccountInv
  OBVIOUS
<1> USE JobsAreKeys
<1>1. \A k \in Keys : DeletesOwn(k) /\ HeldComesBack(k)
  BY DEF WorkerInit, Init, DeletesOwn, HeldComesBack, Idle, NoStage
<1>2. RemovalsAnswered
  BY DEF WorkerInit, Init, RemovalsAnswered, DoneFor, Idle
<1>3. DeepIsHeld /\ GoneIsSpokenFor /\ name # "blank"
  BY DEF WorkerInit, Init, DeepIsHeld, GoneIsSpokenFor, Gone
<1> QED
  BY <1>1, <1>2, <1>3 DEF AccountInv

\* What is behind the account of gone messages holds in every reachable state.
LEMMA AllAccounted == WorkerSpec => []AccountInv
<1>1. WorkerInit => AccountInv
  BY InitAccount
<1>2. Ready /\ DecisionsTraced /\ MemoryWritten /\ AuditInv /\ AccountInv /\ [WorkerNext]_vars => AccountInv'
  BY StepAccount
<1> QED
  BY <1>1, <1>2, AllReady, AllTraced, AllRemembered, AllAudited, PTL DEF WorkerSpec

\* Where Slack refuses no call, messages are decided on alone and every attempt agrees on whether to
\* remove them, a message that is gone from the channel is still being worked on, on the dead list,
\* back under its author's name, or named by an audit line that says it was removed.
THEOREM GoneIsAlwaysAccountedFor ==
  ASSUME "refused" \notin Faults, DecidedAlone, SureVerdicts PROVE WorkerSpec => []GoneIsAccountedFor
<1>1. AccountInv => GoneIsAccountedFor
  BY DEF AccountInv, GoneIsSpokenFor, SpokenFor, Answered, OnRecord, GoneIsAccountedFor
<1> QED
  BY <1>1, AllAccounted, PTL

(***************************************************************************)
(* Nothing is repeated without a reason: what a stage is on record for is  *)
(* counted once, and the crashes and faults count the rest.                *)
(***************************************************************************)

\* The stages for which an effect is counted.
CountedStages == {"released", "reposted", "notified"}

\* A step of a handler: where it goes on, what it writes to its row, and what it still knows.
Onward(k) ==
  /\ \A j \in Keys \ {k} : task'[j] = task[j]
  /\ LaneByRule(k)' /\ StageAhead(k)'
  /\ \A s \in CountedStages : Noted(k, s) => Noted(k, s)'

\* A handler that goes on without a record.
LEMMA OnwardUnrecorded ==
  ASSUME NEW k \in Keys, LaneByRule(k), StageAhead(k), stage'[k] = stage[k],
         \A j \in Keys \ {k} : task'[j] = task[j], task[k].at \notin CountedStages,
         \/ task'[k].at \in {"raised", "return", "audit", "lookup"}
         \/ task'[k].at = task[k].at
         \/ task'[k].at \in {"hold", "held", "handoff"} /\ task[k].at \in {"lookup", "hold"}
            /\ (task'[k].at \in {"hold", "held"} => ~Reached(k, "held"))
         \/ task'[k].at = "delete" /\ ~Reached(k, "deleted")
         \/ task'[k].at \in {"release", "released"} /\ ~Reached(k, "released") /\ k[1] = DEEP
         \/ task'[k].at \in {"post", "reposted"} /\ ~Reached(k, "reposted")
         \/ task'[k].at \in {"notice", "notified"} /\ ~Reached(k, "notified"),
         task'[k].at = "lookup" => ~FoundAlone(k),
         k[1] = TRIAGE /\ task'[k].at \in Effects /\ Split[EventOf(k)] = {} => FoundAlone(k)
  PROVE  Onward(k)
<1>1. /\ FoundAlone(k)' <=> FoundAlone(k)
      /\ EventOf(k)' = EventOf(k)
      /\ \A s : Reached(k, s)' <=> Reached(k, s)
  BY DEF FoundAlone, EventOf, Reached, AtLeast
<1>2. LaneByRule(k)'
  BY <1>1, JobsAreKeys DEF LaneByRule, TRIAGE, DEEP, Effects
<1>3. StageAhead(k)'
  BY <1>1 DEF StageAhead
<1>4. \A s \in CountedStages : Noted(k, s) => Noted(k, s)'
  BY <1>1 DEF Noted
<1> QED
  BY <1>2, <1>3, <1>4 DEF Onward

\* A handler that records the stage it is at, which is further than the last one.
LEMMA OnwardRecorded ==
  ASSUME NEW k \in Keys, LaneByRule(k), StageAhead(k), stage[k] \in Stages, NEW s \in Stages,
         stage'[k] = s, \A j \in Keys \ {k} : task'[j] = task[j],
         \/ s = "held" /\ task[k].at = "held" /\ task'[k].at = "handoff"
         \/ s = "deleted" /\ task[k].at = "delete" /\ task'[k].at \in {"post", "notice", "audit"}
         \/ s = "released" /\ task[k].at = "released" /\ task'[k].at \in {"post", "notice", "audit"}
         \/ s = "reposted" /\ task[k].at = "reposted" /\ task'[k].at = "notice"
         \/ s = "notified" /\ task[k].at = "notified" /\ task'[k].at = "audit"
  PROVE  Onward(k)
<1>1. /\ FoundAlone(k)' <=> FoundAlone(k)
      /\ EventOf(k)' = EventOf(k)
      /\ \A t : Reached(k, t)' <=> AtLeast(s, t)
  BY DEF FoundAlone, EventOf, Reached, AtLeast
<1>2. LaneByRule(k)'
  BY <1>1, JobsAreKeys DEF LaneByRule, TRIAGE, DEEP, Effects
<1>3. StageAhead(k)'
  BY <1>1, LastStage DEF StageAhead
<1>4. ASSUME NEW t \in CountedStages, Noted(k, t) PROVE Noted(k, t)'
  <2>1. /\ Reached(k, "released") <=> stage[k] \in {"released", "reposted", "notified"}
        /\ Reached(k, "reposted") <=> stage[k] \in {"reposted", "notified"}
        /\ Reached(k, "notified") <=> stage[k] = "notified"
        /\ Reached(k, "deleted") <=> stage[k] \in {"deleted", "released", "reposted", "notified"}
        /\ Reached(k, "held") <=> stage[k] # NoStage
    BY LastStage DEF Reached
  <2>2. /\ Reached(k, "released")' <=> s \in {"released", "reposted", "notified"}
        /\ Reached(k, "reposted")' <=> s \in {"reposted", "notified"}
        /\ Reached(k, "notified")' <=> s = "notified"
    BY <1>1, LastStage
  <2> QED
    BY <1>4, <2>1, <2>2 DEF Noted, StageAhead, CountedStages, NoStage
<1> QED
  BY <1>2, <1>3, <1>4 DEF Onward

\* The steps of triage go onward.
LEMMA TriageOnward ==
  ASSUME TypeOK, StateTypeOK, LanesApart, NEW k \in Keys, LaneByRule(k), StageAhead(k), TriageStep(k)
  PROVE  Onward(k)
<1> USE JobsAreKeys DEF StateTypeOK
<1>0. task[k] \in Tasks /\ task \in [Keys -> Tasks] /\ stage[k] \in Stages /\ stage \in [Keys -> Stages]
  BY DEF TaskTypeOK, TypeOK
<1>1. CASE Triage(k)
  <2> DEFINE said == RulesSay(EventOf(k), Others(window[Author[EventOf(k)]], EventOf(k)))
  <2>1. /\ stage' = stage /\ task[k].at = "decide" /\ k[1] = TRIAGE
        /\ \A j \in Keys \ {k} : task'[j] = task[j]
        /\ \/ said.act # "none" /\ Reached(k, "deleted") /\ task'[k].at = Notify(said.act, stage[k])
           \/ said.act # "none" /\ task'[k].at = "delete" /\ ~Reached(k, "deleted")
           \/ said.act = "none" /\ task'[k].at = "lookup"
    BY <1>0, <1>1 DEF Triage, Removal, queueVars, rows, Tasks
  <2>2. /\ said.act = "none" => ~FoundAlone(k)
        /\ said.act # "none" => FoundAlone(k) \/ Split[EventOf(k)] # {}
    BY DEF RulesSay, FoundAlone
  <2> HIDE DEF said
  <2>3. /\ task'[k].at \in {"post", "notice", "audit", "delete", "lookup"}
        /\ task'[k].at = "post" => ~Reached(k, "reposted")
        /\ task'[k].at = "notice" => ~Reached(k, "notified")
        /\ task'[k].at = "delete" => ~Reached(k, "deleted")
    BY <2>1 DEF Notify, Reached
  <2>4. task'[k].at = "lookup" => said.act = "none"
    BY <2>1, NotifyPlace
  <2>5. task'[k].at \in Effects => said.act # "none"
    BY <2>1 DEF Effects
  <2> QED
    BY <2>1, <2>2, <2>3, <2>4, <2>5, OnwardUnrecorded DEF CountedStages
<1>2. CASE Lookup(k)
  <2>1. /\ stage' = stage /\ task[k].at = "lookup"
        /\ \A j \in Keys \ {k} : task'[j] = task[j]
        /\ task'[k].at \in {"raised", "hold", "handoff"}
        /\ task'[k].at = "hold" => ~Reached(k, "held")
    BY <1>0, <1>2 DEF Lookup, Go, queueVars, rows, Tasks
  <2> QED
    BY <2>1, OnwardUnrecorded DEF CountedStages, Effects
<1>3. CASE DeleteToHold(k)
  <2>1. /\ stage' = stage /\ task[k].at = "hold"
        /\ \A j \in Keys \ {k} : task'[j] = task[j]
        /\ task'[k].at \in {"raised", "held", "handoff"}
    BY <1>0, <1>3 DEF DeleteToHold, queueVars, rows, Tasks
  <2>2. ~Reached(k, "held")
    BY <2>1 DEF StageAhead
  <2> QED
    BY <2>1, <2>2, OnwardUnrecorded DEF CountedStages, Effects
<1>4. CASE RecordHeld(k)
  <2>1. /\ stage'[k] = "held" /\ task[k].at = "held"
        /\ \A j \in Keys \ {k} : task'[j] = task[j]
        /\ task'[k].at = "handoff"
    BY <1>0, <1>4 DEF RecordHeld, SetStage, Go, Tasks
  <2> QED
    BY <1>0, <2>1, OnwardRecorded
<1>5. CASE HandOff(k)
  <2>1. /\ task[k].at = "handoff" /\ k[1] = TRIAGE /\ k # <<DEEP, EventOf(k)>>
        /\ \A j \in Keys \ {k} : task'[j] = task[j]
        /\ task'[k].at = "return"
    BY <1>0, <1>5 DEF HandOff, Go, Tasks, LanesApart, TRIAGE, DEEP
  <2>2. stage'[k] = stage[k]
    BY <1>0, <1>5, <2>1 DEF HandOff, Put, queueVars, rows
  <2> QED
    BY <2>1, <2>2, OnwardUnrecorded DEF CountedStages, Effects
<1> QED
  BY <1>1, <1>2, <1>3, <1>4, <1>5 DEF TriageStep

\* The steps of the deep lane go onward.
LEMMA DeepOnward ==
  ASSUME TypeOK, StateTypeOK, NEW k \in Keys, LaneByRule(k), StageAhead(k), DeepStep(k)
  PROVE  Onward(k)
<1> USE JobsAreKeys DEF StateTypeOK
<1>0. /\ task[k] \in Tasks /\ task \in [Keys -> Tasks] /\ stage[k] \in Stages /\ stage \in [Keys -> Stages]
      /\ TRIAGE # DEEP
  BY DEF TaskTypeOK, TypeOK, TRIAGE, DEEP
<1>1. CASE Deep(k)
  <2>1. stage' = stage /\ task[k].at = "decide" /\ k[1] = DEEP
    BY <1>1 DEF Deep, queueVars, rows
  <2>2. /\ \A j \in Keys \ {k} : task'[j] = task[j]
        /\ task'[k].at \in {"raised", "post", "notice", "audit", "delete", "release"}
        /\ task'[k].at = "post" => ~Reached(k, "reposted")
        /\ task'[k].at = "notice" => ~Reached(k, "notified")
    BY <1>0, <1>1, DeepMoves DEF Notify, NotifyUnlessAllowed, Reached
  <2>3. /\ task'[k].at = "delete" => ~Reached(k, "deleted")
        /\ task'[k].at = "release" => ~Reached(k, "released")
    <3> DEFINE e == EventOf(k)
               Said(v) == [act |-> v.act,
                           related |-> IF v.parts = {} THEN {} ELSE MsgsOf(v.parts \cup {e})]
               Todo(v) == (IF Said(v).related = {} THEN {MsgOf[e]} ELSE Said(v).related)
                          \ (IF carried[e].held THEN {MsgOf[e]} ELSE {})
               Place(v) == IF carried[e].held /\ ~Reached(k, "released") THEN "release"
                           ELSE NotifyUnlessAllowed(v.act, stage[k])
    <3>1. PICK a \in Answers, v \in Verdicts[e] :
            \/ Go(k, "raised")
            \/ Removal(k, Said(v), Todo(v))
            \/ task' = [task EXCEPT ![k].at = Place(v), ![k].act = v.act, ![k].related = Said(v).related]
      BY <1>1, ZenonT(30) DEF Deep
    <3> HIDE DEF Said, Todo, Place
    <3>4. CASE Go(k, "raised")
      BY <1>0, <3>4 DEF Go, Tasks
    <3>2. CASE Removal(k, Said(v), Todo(v))
      <4>1. \/ task'[k].at = Notify(Said(v).act, stage[k])
            \/ task'[k].at = "delete" /\ ~Reached(k, "deleted")
        BY <1>0, <3>2 DEF Removal, Tasks
      <4> QED
        BY <4>1, NotifyPlace
    <3>3. CASE task' = [task EXCEPT ![k].at = Place(v), ![k].act = v.act, ![k].related = Said(v).related]
      <4>1. task'[k].at = Place(v)
        BY <1>0, <3>3 DEF Tasks
      <4> QED
        BY <4>1, NotifyPlace DEF Place
    <3> QED
      BY <3>1, <3>2, <3>3, <3>4
  <2> QED
    BY <1>0, <2>1, <2>2, <2>3, OnwardUnrecorded DEF CountedStages
<1>2. CASE Release(k)
  <2>1. /\ stage' = stage /\ task[k].at = "release"
        /\ \A j \in Keys \ {k} : task'[j] = task[j]
        /\ task'[k].at \in {"released", "raised"}
    BY <1>0, <1>2 DEF Release, Go, queueVars, rows, Tasks
  <2>2. ~Reached(k, "released") /\ k[1] = DEEP
    BY <2>1 DEF StageAhead, LaneByRule
  <2> QED
    BY <1>0, <2>1, <2>2, OnwardUnrecorded DEF CountedStages, Effects
<1>3. CASE RecordReleased(k)
  <2>1. /\ stage'[k] = "released" /\ task[k].at = "released"
        /\ \A j \in Keys \ {k} : task'[j] = task[j]
        /\ task'[k].at = NotifyUnlessAllowed(task[k].act, "released")
    BY <1>0, <1>3 DEF RecordReleased, SetStage, Go, Tasks
  <2> QED
    BY <1>0, <2>1, NotifyPlace, OnwardRecorded
<1> QED
  BY <1>1, <1>2, <1>3 DEF DeepStep

\* The steps of the side effects go onward.
LEMMA EffectOnward ==
  ASSUME TypeOK, StateTypeOK, NEW k \in Keys, LaneByRule(k), StageAhead(k), EffectStep(k)
  PROVE  Onward(k)
<1> USE JobsAreKeys DEF StateTypeOK
<1>0. task[k] \in Tasks /\ task \in [Keys -> Tasks] /\ stage[k] \in Stages /\ stage \in [Keys -> Stages]
  BY DEF TaskTypeOK, TypeOK
<1>a. task[k].at \in Effects /\ k[1] = TRIAGE /\ Split[EventOf(k)] = {} => FoundAlone(k)
  BY DEF LaneByRule
<1>1. CASE Delete(k)
  <2>1. /\ stage' = stage /\ task[k].at = "delete"
        /\ \A j \in Keys \ {k} : task'[j] = task[j]
        /\ task'[k].at \in {"delete", "raised"}
    BY <1>0, <1>1 DEF Delete, CatchRefusal, queueVars, rows, Tasks
  <2> QED
    BY <1>a, <2>1, OnwardUnrecorded DEF CountedStages, Effects
<1>2. CASE RecordDeleted(k)
  <2>1. /\ stage'[k] = "deleted" /\ task[k].at = "delete"
        /\ \A j \in Keys \ {k} : task'[j] = task[j]
        /\ task'[k].at = Notify(task[k].act, "deleted")
    BY <1>0, <1>2 DEF RecordDeleted, SetStage, Go, Tasks
  <2> QED
    BY <1>0, <2>1, NotifyPlace, OnwardRecorded
<1>3. CASE FallBackToWarn(k)
  <2>1. /\ stage' = stage /\ task[k].at = "delete"
        /\ \A j \in Keys \ {k} : task'[j] = task[j]
        /\ task'[k].at = Notify("warn", stage[k])
    BY <1>0, <1>3 DEF FallBackToWarn, queueVars, rows, Tasks
  <2>2. /\ task'[k].at \in {"notice", "audit"}
        /\ task'[k].at = "notice" => ~Reached(k, "notified")
    BY <2>1 DEF Notify, Reached
  <2> QED
    BY <1>a, <2>1, <2>2, OnwardUnrecorded DEF CountedStages, Effects
<1>4. CASE Repost(k)
  <2>1. /\ stage' = stage /\ task[k].at = "post"
        /\ \A j \in Keys \ {k} : task'[j] = task[j]
        /\ task'[k].at \in {"reposted", "raised"}
    BY <1>0, <1>4 DEF Repost, Go, queueVars, rows, Tasks
  <2>2. ~Reached(k, "reposted")
    BY <2>1 DEF StageAhead
  <2> QED
    BY <1>a, <2>1, <2>2, OnwardUnrecorded DEF CountedStages, Effects
<1>5. CASE RecordReposted(k)
  <2>1. /\ stage'[k] = "reposted" /\ task[k].at = "reposted"
        /\ \A j \in Keys \ {k} : task'[j] = task[j]
        /\ task'[k].at = "notice"
    BY <1>0, <1>5 DEF RecordReposted, SetStage, Go, Tasks
  <2> QED
    BY <1>0, <2>1, OnwardRecorded
<1>6. CASE Notice(k)
  <2>1. /\ stage' = stage /\ task[k].at = "notice"
        /\ \A j \in Keys \ {k} : task'[j] = task[j]
        /\ task'[k].at \in {"notified", "raised"}
    BY <1>0, <1>6 DEF Notice, CatchRefusal, Go, queueVars, rows, Tasks
  <2>2. ~Reached(k, "notified")
    BY <2>1 DEF StageAhead
  <2> QED
    BY <1>a, <2>1, <2>2, OnwardUnrecorded DEF CountedStages, Effects
<1>7. CASE RecordNotified(k)
  <2>1. /\ stage'[k] = "notified" /\ task[k].at = "notified"
        /\ \A j \in Keys \ {k} : task'[j] = task[j]
        /\ task'[k].at = "audit"
    BY <1>0, <1>7 DEF RecordNotified, SetStage, Go, Tasks
  <2> QED
    BY <1>0, <2>1, OnwardRecorded
<1>8. CASE Audit(k)
  <2>1. /\ stage' = stage /\ task[k].at = "audit"
        /\ \A j \in Keys \ {k} : task'[j] = task[j]
        /\ task'[k].at \in {"return", "raised"}
    BY <1>0, <1>8 DEF Audit, Go, queueVars, rows, Tasks
  <2> QED
    BY <2>1, OnwardUnrecorded DEF CountedStages, Effects
<1> QED
  BY <1>1, <1>2, <1>3, <1>4, <1>5, <1>6, <1>7, <1>8 DEF EffectStep

\* Sums of counters that only grow.
LEMMA SumsGrow ==
  ASSUME NEW c \in Nat, NEW d \in Nat, NEW f \in Nat, NEW g \in Nat, d >= c, g >= f
  PROVE  /\ c + f \in Nat /\ d + g \in Nat /\ d + g >= c + f
         /\ d > c \/ g > f => d + g >= c + f + 1
         /\ c + 0 = c /\ d + 0 = d
  OBVIOUS

\* Crashes and faults are counted, and only ever more of them.
LEMMA FaultsGrow ==
  ASSUME TypeOK, StateTypeOK, [WorkerNext]_vars
  PROVE  /\ Repeats \in Nat /\ Repeats' \in Nat /\ Repeats' >= Repeats
         /\ crashes' > crashes => Repeats' >= Repeats + 1
         /\ faults' > faults /\ ("lost" \in Faults \/ WritesMayFail) => Repeats' >= Repeats + 1
<1>1. faults \in Nat /\ crashes \in Nat
  BY FaultAssumption, LimitAssumption DEF TypeOK, StateTypeOK, WorldTypeOK
<1>2. ASSUME NEW a \in Answers, Count(a) PROVE faults' \in {faults, faults + 1}
  BY <1>1, <1>2 DEF Count
<1>3. faults' \in {faults, faults + 1}
  <2>1. CASE UNCHANGED faults
    BY <2>1
  <2>2. CASE Lifecycle
    BY <1>2, <2>2 DEF Lifecycle, WorkerRestart, CatchUp, WorkerStart, WorkerCrash, WorkerTick, files
  <2>3. CASE UNCHANGED vars \/ Outside \/ \E e \in Events : Deliver(e)
    BY <2>3 DEF vars, Outside, Write, Drop, Deliver
  <2>4. ASSUME NEW k \in Keys, ClaimJob(k) \/ Return(k) \/ Advance(k) \/ Raise(k) \/ WriteFault(k)
        PROVE  faults' \in {faults, faults + 1}
    BY <2>4 DEF ClaimJob, Return, Advance, Raise, WriteFault, WriteRaises, ThreadEnds
  <2>5. ASSUME NEW k \in Keys, TriageStep(k) \/ DeepStep(k) PROVE faults' \in {faults, faults + 1}
    <3>1. CASE Lookup(k)
      <4>1. \E a \in Answers \cup {"ok"} : Count(a)
        BY <3>1 DEF Lookup
      <4>2. Answers \cup {"ok"} = Answers
        BY DEF Answers
      <4> QED
        BY <1>2, <4>1, <4>2
    <3> QED
      BY <1>2, <2>5, <3>1 DEF TriageStep, Triage, DeleteToHold, RecordHeld, HandOff, DeepStep, Deep,
         Release, RecordReleased
  <2>6. ASSUME NEW k \in Keys, EffectStep(k) PROVE faults' \in {faults, faults + 1}
    BY <1>2, <2>6 DEF EffectStep, Delete, RecordDeleted, FallBackToWarn, Repost, RecordReposted,
       Notice, RecordNotified, Audit
  <2> QED
    BY <2>2, <2>3, <2>4, <2>5, <2>6 DEF WorkerNext, ThreadStep
<1>4. crashes' \in {crashes, crashes + 1}
  <2>1. [Next]_queueVars
    BY QueueStep
  <2>2. ASSUME NEW k \in Keys,
               \/ Put(k) \/ Claim(k) \/ Done(k) \/ AdvanceCursor(k) \/ Fail(k) \/ CrashInFail(k)
               \/ EndThread(k) \/ \E s \in Stages \ {NoStage} : SetStage(k, s)
        PROVE  crashes' \in {crashes, crashes + 1}
    BY <2>2 DEF Put, Claim, SetStage, Done, AdvanceCursor, Fail, CrashInFail, EndThread
  <2>3. ASSUME \/ Crash \/ StartThreads \/ Tick
               \/ \E expired \in SUBSET Keys, lay \in Layouts : Restart(expired, lay)
        PROVE  crashes' \in {crashes, crashes + 1}
    BY <2>3 DEF Crash, Restart, StartThreads, Tick
  <2>4. CASE UNCHANGED queueVars
    BY <2>4 DEF queueVars
  <2> QED
    BY <2>1, <2>2, <2>3, <2>4 DEF Next
<1>7. crashes' \in Nat /\ faults' \in Nat /\ crashes' >= crashes /\ faults' >= faults
  BY <1>1, <1>3, <1>4
<1>5. CASE "lost" \in Faults \/ WritesMayFail
  <2>1. Repeats = crashes + faults /\ Repeats' = crashes' + faults'
    BY <1>5 DEF Repeats
  <2>2. /\ Repeats \in Nat /\ Repeats' \in Nat /\ Repeats' >= Repeats
        /\ crashes' > crashes => Repeats' >= Repeats + 1
        /\ faults' > faults => Repeats' >= Repeats + 1
    BY <1>1, <1>7, <2>1, SumsGrow, Zenon
  <2> QED
    BY <2>2
<1>6. CASE ~("lost" \in Faults \/ WritesMayFail)
  <2>1. Repeats = crashes /\ Repeats' = crashes'
    <3>1. Repeats = crashes + 0 /\ Repeats' = crashes' + 0
      BY <1>6 DEF Repeats
    <3>2. crashes + 0 = crashes /\ crashes' + 0 = crashes'
      BY <1>1, <1>7, SumsGrow, Zenon
    <3> QED
      BY <3>1, <3>2, Zenon
  <2>2. /\ Repeats \in Nat /\ Repeats' \in Nat /\ Repeats' >= Repeats
        /\ crashes' > crashes => Repeats' >= Repeats + 1
    <3>1. /\ crashes \in Nat /\ crashes' \in Nat /\ crashes' >= crashes
          /\ crashes' > crashes => crashes' >= crashes + 1
      BY <1>1, <1>7
    <3> QED
      BY <2>1, <3>1, Zenon
  <2> QED
    BY <1>6, <2>2
<1> QED
  BY <1>5, <1>6

\* What the database still has: a row goes only when it is pruned, and loses its stage only then.
LEMMA RowsStay ==
  ASSUME IInv, StateTypeOK, [WorkerNext]_vars, NEW k \in Keys, status[k] # "absent", phase # "down"
  PROVE  /\ status'[k] # "absent"
         /\ phase' = "down" => crashes' > crashes
<1>1. crashes \in Nat /\ status \in [Keys -> Statuses] /\ HandsAgree
  BY LimitAssumption DEF IInv, TypeOK
<1> DEFINE Goal == status'[k] # "absent" /\ (phase' = "down" => crashes' > crashes)
<1>2. ASSUME NEW j \in Keys,
             \/ Put(j) \/ Claim(j) \/ Done(j) \/ AdvanceCursor(j) \/ Fail(j) \/ CrashInFail(j)
             \/ EndThread(j) \/ \E s \in Stages \ {NoStage} : SetStage(j, s)
      PROVE  Goal
  BY <1>1, <1>2 DEF Put, Claim, SetStage, Done, AdvanceCursor, Fail, CrashInFail, EndThread, rows
<1>3. ASSUME \/ Crash \/ StartThreads \/ Tick
             \/ \E expired \in SUBSET Keys, lay \in Layouts : Restart(expired, lay)
      PROVE  Goal
  BY <1>1, <1>3 DEF Crash, Restart, StartThreads, Tick, rows
<1>4. CASE UNCHANGED queueVars
  BY <1>4 DEF queueVars, rows
<1>5. [Next]_queueVars
  BY QueueStep
<1> QED
  BY <1>2, <1>3, <1>4, <1>5 DEF Next

\* Steps of Slack, of the process and of the queue forget no stage, and no effect without a crash or
\* a failed write.
LEMMA RestKeeps ==
  ASSUME IInv, StateTypeOK, [WorkerNext]_vars, Rest, NEW k \in Keys, status[k] # "absent"
  PROVE  /\ stage'[k] = stage[k]
         /\ task[k].at \in CountedStages =>
              \/ task'[k] = task[k] \/ crashes' > crashes
              \/ faults' > faults /\ WritesMayFail
<1> USE JobsAreKeys DEF StateTypeOK
<1>0. /\ TypeOK /\ stage \in [Keys -> Stages] /\ crashes \in Nat /\ faults \in Nat
      /\ task \in [Keys -> Tasks] /\ (task[k].at # "idle" => hand[k] = "handling")
  <2>1. TypeOK /\ stage \in [Keys -> Stages] /\ crashes \in Nat
    BY LimitAssumption DEF IInv, TypeOK
  <2>2. faults \in Nat
    BY FaultAssumption DEF WorldTypeOK
  <2> QED
    BY <2>1, <2>2 DEF TaskTypeOK
<1>1. stage'[k] = stage[k]
  <2>1. ASSUME NEW e \in Events, Enqueue(e) PROVE stage'[k] = stage[k]
    <3>1. CASE Put(<<TRIAGE, e>>)
      <4>1. k # <<TRIAGE, e>>
        BY <3>1 DEF Put
      <4> QED
        BY <1>0, <3>1, <4>1 DEF Put
    <3> QED
      BY <2>1, <3>1 DEF Enqueue, queueVars, rows
  <2>2. CASE CatchUp
    <3>1. Head(backlog) \in Events
      BY <2>2, HeadTailProperties DEF CatchUp, WorldTypeOK
    <3> QED
      BY <2>1, <2>2, <3>1 DEF CatchUp, queueVars, rows
  <2>3. CASE \E e \in Events : Deliver(e)
    BY <2>1, <2>3 DEF Deliver
  <2>4. CASE UNCHANGED vars \/ Outside
    BY <2>4 DEF vars, Outside, Write, Drop, queueVars, rows
  <2>5. CASE Lifecycle /\ ~CatchUp
    BY <2>5 DEF Lifecycle, WorkerRestart, Restart, WorkerStart, StartThreads, WorkerCrash, Crash,
       CrashInFail, WorkerTick, Tick, rows
  <2>6. CASE \E j \in Keys : ClaimJob(j) \/ Return(j) \/ Advance(j) \/ Raise(j)
    BY <2>6 DEF ClaimJob, Claim, Return, Done, Advance, AdvanceCursor, Raise, Fail, rows
  <2>7. CASE \E j \in Keys : WriteFault(j)
    BY <2>7 DEF WriteFault, WriteRaises, ThreadEnds, EndThread, queueVars, rows
  <2> QED
    BY <2>2, <2>3, <2>4, <2>5, <2>6, <2>7 DEF Rest
<1>2. ASSUME task[k].at \in CountedStages
      PROVE  \/ task'[k] = task[k] \/ crashes' > crashes
             \/ faults' > faults /\ WritesMayFail
  <2> USE <1>2 DEF CountedStages
  <2>1. CASE UNCHANGED vars \/ Outside \/ \E e \in Events : Deliver(e)
    BY <2>1 DEF vars, Outside, Write, Drop, Deliver
  <2>2. CASE Lifecycle
    BY <1>0, <2>2 DEF Lifecycle, WorkerRestart, CatchUp, WorkerStart, WorkerCrash, Crash, CrashInFail,
       WorkerTick
  <2>3. ASSUME NEW j \in Keys, ClaimJob(j) \/ Return(j) \/ Advance(j) \/ Raise(j)
        PROVE  task'[k] = task[k]
    <3>1. ClaimJob(j) => hand[j] = "free"
      BY DEF ClaimJob, Claim, LaneIdle, SameLane
    <3> QED
      BY <1>0, <2>3, <3>1 DEF ClaimJob, Return, Advance, Raise
  <2>4. ASSUME NEW j \in Keys, WriteFault(j)
        PROVE  task'[k] = task[k] \/ (faults' > faults /\ WritesMayFail)
    BY <1>0, <2>4 DEF WriteFault, WriteRaises, ThreadEnds, EndThread
  <2> QED
    BY <2>1, <2>2, <2>3, <2>4 DEF Rest
<1> QED
  BY <1>1, <1>2

\* What the rules and the stages say of every handler.
ByRule == \A k \in Keys : LaneByRule(k) /\ StageAhead(k)

\* A handler that stands still, fails or begins anew, on a row that stays or is new.
LEMMA StandsByRule ==
  ASSUME NEW j \in Keys, LaneByRule(j), StageAhead(j), stage'[j] \in {stage[j], NoStage},
         task'[j] = task[j] \/ task'[j].at \in {"idle", "decide", "raised"}
  PROVE  LaneByRule(j)' /\ StageAhead(j)'
<1>1. /\ FoundAlone(j)' <=> FoundAlone(j)
      /\ EventOf(j)' = EventOf(j)
      /\ \A s : Reached(j, s)' <=> AtLeast(stage'[j], s)
  BY DEF FoundAlone, EventOf, Reached, AtLeast
<1>2. NoStage \in Stages
  BY StageAssumption
<1>3. \A s \in {"held", "deleted", "released", "reposted", "notified"} : Reached(j, s)' => Reached(j, s)
  BY <1>1, <1>2, LastStage DEF Reached, NoStage
<1>4. LaneByRule(j)'
  BY <1>1 DEF LaneByRule, Effects
<1>5. StageAhead(j)'
  BY <1>3 DEF StageAhead
<1> QED
  BY <1>4, <1>5

\* A step of one handler leaves the rows of the others alone, or stores a new one.
LEMMA OtherRows ==
  ASSUME TypeOK, NEW k \in Keys, TriageStep(k) \/ DeepStep(k) \/ EffectStep(k), NEW j \in Keys \ {k}
  PROVE  /\ stage'[j] \in {stage[j], NoStage}
         /\ status[j] # "absent" => stage'[j] = stage[j]
<1>1. stage \in [Keys -> Stages]
  BY DEF TypeOK
<1>2. ASSUME HandOff(k) PROVE stage'[j] \in {stage[j], NoStage} /\ (status[j] # "absent" => stage'[j] = stage[j])
  <2>1. CASE Put(<<DEEP, EventOf(k)>>)
    BY <1>1, <2>1 DEF Put
  <2>2. CASE UNCHANGED queueVars
    BY <2>2 DEF queueVars, rows
  <2> QED
    BY <1>2, <2>1, <2>2 DEF HandOff, queueVars
<1>3. ASSUME ~HandOff(k) PROVE stage'[j] = stage[j]
  BY <1>1, <1>3
     DEF TriageStep, Triage, Lookup, DeleteToHold, RecordHeld, DeepStep, Deep, Release,
     RecordReleased, EffectStep, Delete, RecordDeleted, FallBackToWarn, Repost, RecordReposted,
     Notice, RecordNotified, Audit, SetStage, queueVars, rows
<1> QED
  BY <1>2, <1>3

\* Every step of a handler goes onward.
LEMMA HandlerOnward ==
  ASSUME TypeOK, StateTypeOK, LanesApart, ByRule, NEW k \in Keys,
         TriageStep(k) \/ DeepStep(k) \/ EffectStep(k)
  PROVE  Onward(k)
  BY TriageOnward, DeepOnward, EffectOnward DEF ByRule

\* Every step of the worker keeps lanes by the rules and handlers ahead of their stages.
LEMMA StepByRule ==
  ASSUME IInv, StateTypeOK, LanesApart, ByRule, [WorkerNext]_vars PROVE ByRule'
<1>0. TypeOK
  BY DEF IInv
<1> SUFFICES ASSUME NEW j \in Keys PROVE LaneByRule(j)' /\ StageAhead(j)'
  BY DEF ByRule
<1>1. CASE Rest
  <2>1. /\ stage'[j] \in {stage[j], NoStage}
        /\ task'[j] = task[j] \/ task'[j].at \in {"idle", "decide", "raised"}
    BY <1>0, <1>1, RestMoves DEF Anew
  <2> QED
    BY <2>1, StandsByRule DEF ByRule
<1>2. ASSUME NEW k \in Keys, TriageStep(k) \/ DeepStep(k) \/ EffectStep(k)
      PROVE  LaneByRule(j)' /\ StageAhead(j)'
  <2>1. Onward(k)
    BY <1>0, <1>2, HandlerOnward
  <2>2. CASE j = k
    BY <2>1, <2>2 DEF Onward
  <2>3. CASE j # k
    <3>1. task'[j] = task[j] /\ stage'[j] \in {stage[j], NoStage}
      BY <1>0, <1>2, <2>1, <2>3, OtherRows DEF Onward
    <3> QED
      BY <3>1, StandsByRule DEF ByRule
  <2> QED
    BY <2>2, <2>3
<1> QED
  BY <1>1, <1>2 DEF WorkerNext, ThreadStep, Rest

\* The deep lane gets no message that the rules remove alone.
LEMMA StepUnfound ==
  ASSUME IInv, StateTypeOK, ByRule, DeepUnfound, [WorkerNext]_vars PROVE DeepUnfound'
<1> SUFFICES ASSUME NEW e \in Events, status'[<<DEEP, e>>] # "absent" PROVE Rule[e] = "none"
  BY DEF DeepUnfound
<1> DEFINE d == <<DEEP, e>>
<1>1. d \in Keys /\ EventOf(d) = e /\ d[1] # TRIAGE
  BY JobsAreKeys DEF EventOf, TRIAGE, DEEP
<1>2. CASE status[d] # "absent"
  BY <1>2 DEF DeepUnfound
<1>3. CASE status[d] = "absent"
  <2>1. PICK k \in Keys : HandOff(k) /\ EventOf(k) = e
    BY <1>1, <1>3, RowSteps
  <2>2. task[k].at = "handoff" /\ LaneByRule(k)
    BY <2>1 DEF HandOff, ByRule
  <2> QED
    BY <2>1, <2>2 DEF LaneByRule, FoundAlone
<1> QED
  BY <1>2, <1>3

\* What a row or its handler knows to be done stays known, unless a crash or a failed write is
\* counted for it.
LEMMA StepKnown ==
  ASSUME IInv, StateTypeOK, LanesApart, ByRule, [WorkerNext]_vars,
         NEW k \in Keys, NEW s \in CountedStages, Known(k, s)
  PROVE  Known(k, s)' \/ Repeats' >= Repeats + 1
<1>0. TypeOK /\ status[k] # "absent" /\ phase # "down" /\ Noted(k, s)
  BY DEF IInv, Known
<1>1. status'[k] # "absent" /\ (phase' = "down" => Repeats' >= Repeats + 1)
  BY <1>0, RowsStay, FaultsGrow
<1>2. Noted(k, s)' \/ Repeats' >= Repeats + 1
  <2>1. CASE Rest
    <3>1. /\ stage'[k] = stage[k]
          /\ task[k].at \in CountedStages =>
               \/ task'[k] = task[k] \/ crashes' > crashes
               \/ faults' > faults /\ WritesMayFail
      BY <1>0, <2>1, RestKeeps
    <3>2. task[k].at \in CountedStages => task'[k] = task[k] \/ Repeats' >= Repeats + 1
      BY <1>0, <3>1, FaultsGrow
    <3>3. Reached(k, s)' <=> Reached(k, s)
      BY <3>1 DEF Reached, AtLeast
    <3> QED
      BY <1>0, <3>2, <3>3 DEF Noted
  <2>2. ASSUME NEW j \in Keys, TriageStep(j) \/ DeepStep(j) \/ EffectStep(j) PROVE Noted(k, s)'
    <3>1. Onward(j)
      BY <1>0, <2>2, HandlerOnward
    <3>2. CASE j = k
      BY <1>0, <3>1, <3>2 DEF Onward
    <3>3. CASE j # k
      <4>1. task'[k] = task[k] /\ stage'[k] = stage[k]
        BY <1>0, <2>2, <3>1, <3>3, OtherRows DEF Onward
      <4> QED
        BY <1>0, <4>1 DEF Noted, Reached, AtLeast
    <3> QED
      BY <3>2, <3>3
  <2> QED
    BY <2>1, <2>2 DEF WorkerNext, ThreadStep, Rest
<1> QED
  BY <1>1, <1>2 DEF Known

\* An effect is had by a handler that does not know of it yet, and then does, or its answer is lost.
NewlyDone(k, s) == /\ ~Known(k, s)
                   /\ Known(k, s)' \/ Repeats' >= Repeats + 1

\* What comes of the answer to a call that posts or notifies.
LEMMA EffectNoted ==
  ASSUME IInv, StateTypeOK, ByRule, [WorkerNext]_vars, NEW k \in Keys, NEW s \in CountedStages,
         NEW a \in Answers, Count(a), Effective(a), UNCHANGED queueVars,
         task[k].at = CASE s = "released" -> "release" [] s = "reposted" -> "post" [] OTHER -> "notice",
         a = "ok" => task'[k].at = s
  PROVE  NewlyDone(k, s)
<1>1. /\ status[k] = "processing" /\ phase = "up"
      /\ faults \in Nat
  <2>1. task[k].at # "idle"
    BY DEF CountedStages
  <2>2. faults \in Nat
    BY FaultAssumption DEF StateTypeOK, WorldTypeOK
  <2> QED
    BY <2>1, <2>2 DEF StateTypeOK, TaskTypeOK, IInv, HandsAgree
<1>2. ~Noted(k, s)
  BY DEF ByRule, StageAhead, Noted, CountedStages
<1>3. CASE a = "ok"
  <2>1. status' = status /\ phase' = phase
    BY DEF queueVars, rows
  <2>2. Known(k, s)'
    BY <1>1, <1>3, <2>1 DEF Known, Noted
  <2> QED
    BY <1>2, <2>2 DEF NewlyDone, Known
<1>4. CASE a = "lost"
  <2>1. faults' > faults /\ "lost" \in Faults
    BY <1>1, <1>4 DEF Count, Answers
  <2>2. Repeats' >= Repeats + 1
    BY <2>1, FaultsGrow DEF IInv
  <2> QED
    BY <1>2, <2>2 DEF NewlyDone, Known
<1> QED
  BY <1>3, <1>4 DEF Effective

\* The job that posts and notifies for a message that completes no finding.
LEMMA JobByRule ==
  ASSUME IInv, StateTypeOK, ByRule, DeepUnfound, NEW k \in Keys, task[k].at \in {"post", "notice"},
         Split[EventOf(k)] = {}
  PROVE  k = JobOf(EventOf(k))
<1>1. status[k] = "processing"
  BY DEF StateTypeOK, TaskTypeOK, IInv, HandsAgree
<1>2. CASE k[1] = TRIAGE
  BY <1>2, JobsAreKeys DEF ByRule, LaneByRule, Effects, FoundAlone, JobOf, EventOf
<1>3. CASE k[1] = DEEP
  <2>1. k = <<DEEP, EventOf(k)>> /\ EventOf(k) \in Events
    BY <1>3, JobsAreKeys DEF EventOf
  <2>2. Rule[EventOf(k)] = "none"
    BY <1>1, <2>1 DEF DeepUnfound
  <2> QED
    BY <2>1, <2>2 DEF JobOf
<1> QED
  BY <1>2, <1>3, JobsAreKeys

\* How often something was done about a message: no more often, or once more by its job.
OnceMore(n, m, k, s) == m = n \/ (m = n + 1 /\ NewlyDone(k, s))
\* Every step of the worker has an effect at most once more, and by the job it belongs to.
LEMMA StepEffects ==
  ASSUME IInv, StateTypeOK, ByRule, DeepUnfound, [WorkerNext]_vars, NEW e \in Events
  PROVE  /\ OnceMore(posts[e].released, posts'[e].released, <<DEEP, e>>, "released")
         /\ Split[e] = {} =>
              /\ OnceMore(posts[e].redacted, posts'[e].redacted, JobOf(e), "reposted")
              /\ OnceMore(notices[e], notices'[e], JobOf(e), "notified")
<1> USE JobsAreKeys
<1>0. /\ posts \in [Events -> [released : Nat, redacted : Nat]] /\ notices \in [Events -> Nat]
      /\ task \in [Keys -> Tasks] /\ TypeOK
  BY DEF StateTypeOK, WorldTypeOK, TaskTypeOK, IInv
<1>1. CASE UNCHANGED <<posts, notices>>
  BY <1>1 DEF OnceMore
<1>2. ASSUME NEW k \in Keys, Release(k)
      PROVE  /\ notices' = notices /\ posts'[e].redacted = posts[e].redacted
             /\ OnceMore(posts[e].released, posts'[e].released, <<DEEP, e>>, "released")
  <2>1. PICK a \in Answers :
          /\ Count(a) /\ Go(k, IF a = "ok" THEN "released" ELSE "raised")
          /\ posts' = IF Effective(a) THEN [posts EXCEPT ![EventOf(k)].released = @ + 1] ELSE posts
    BY <1>2 DEF Release
  <2>2. task[k].at = "release" /\ notices' = notices /\ UNCHANGED queueVars
    BY <1>2 DEF Release
  <2>3. CASE Effective(a)
    <3>1. /\ posts'[e].redacted = posts[e].redacted
          /\ posts'[e].released = IF e = EventOf(k) THEN posts[e].released + 1 ELSE posts[e].released
      BY <1>0, <2>1, <2>3
    <3>2. a = "ok" => task'[k].at = "released"
      BY <1>0, <2>1 DEF Go, Tasks
    <3>3. NewlyDone(k, "released")
      BY <2>1, <2>2, <2>3, <3>2, EffectNoted DEF CountedStages
    <3>4. e = EventOf(k) => k = <<DEEP, e>>
      BY <2>2 DEF ByRule, LaneByRule, EventOf
    <3> QED
      BY <2>2, <3>1, <3>3, <3>4 DEF OnceMore
  <2> QED
    BY <2>1, <2>2, <2>3 DEF OnceMore
<1>3. ASSUME NEW k \in Keys, Repost(k)
      PROVE  /\ notices' = notices /\ posts'[e].released = posts[e].released
             /\ Split[e] = {} => OnceMore(posts[e].redacted, posts'[e].redacted, JobOf(e), "reposted")
  <2>1. PICK a \in Answers :
          /\ Count(a) /\ Go(k, IF a = "ok" THEN "reposted" ELSE "raised")
          /\ posts' = IF Effective(a) THEN [posts EXCEPT ![EventOf(k)].redacted = @ + 1] ELSE posts
    BY <1>3 DEF Repost
  <2>2. task[k].at = "post" /\ notices' = notices /\ UNCHANGED queueVars
    BY <1>3 DEF Repost
  <2>3. CASE Effective(a)
    <3>1. /\ posts'[e].released = posts[e].released
          /\ posts'[e].redacted = IF e = EventOf(k) THEN posts[e].redacted + 1 ELSE posts[e].redacted
      BY <1>0, <2>1, <2>3
    <3>2. a = "ok" => task'[k].at = "reposted"
      BY <1>0, <2>1 DEF Go, Tasks
    <3>3. NewlyDone(k, "reposted")
      BY <2>1, <2>2, <2>3, <3>2, EffectNoted DEF CountedStages
    <3>4. e = EventOf(k) /\ Split[e] = {} => k = JobOf(e)
      BY <2>2, JobByRule
    <3> QED
      BY <2>2, <3>1, <3>3, <3>4 DEF OnceMore
  <2> QED
    BY <2>1, <2>2, <2>3 DEF OnceMore
<1>4. ASSUME NEW k \in Keys, Notice(k)
      PROVE  /\ posts' = posts
             /\ Split[e] = {} => OnceMore(notices[e], notices'[e], JobOf(e), "notified")
  <2>1. PICK a \in Answers :
          /\ Count(a) /\ Go(k, CatchRefusal(a, "notified"))
          /\ notices' = IF Effective(a) THEN [notices EXCEPT ![EventOf(k)] = @ + 1] ELSE notices
    BY <1>4 DEF Notice
  <2>2. task[k].at = "notice" /\ posts' = posts /\ UNCHANGED queueVars
    BY <1>4 DEF Notice
  <2>3. CASE Effective(a)
    <3>1. notices'[e] = IF e = EventOf(k) THEN notices[e] + 1 ELSE notices[e]
      BY <1>0, <2>1, <2>3
    <3>2. a = "ok" => task'[k].at = "notified"
      BY <1>0, <2>1 DEF Go, Tasks, CatchRefusal, Raises
    <3>3. NewlyDone(k, "notified")
      BY <2>1, <2>2, <2>3, <3>2, EffectNoted DEF CountedStages
    <3>4. e = EventOf(k) /\ Split[e] = {} => k = JobOf(e)
      BY <2>2, JobByRule
    <3> QED
      BY <2>2, <3>1, <3>3, <3>4 DEF OnceMore
  <2> QED
    BY <2>1, <2>2, <2>3 DEF OnceMore
<1>5. ASSUME NEW k \in Keys, TriageStep(k) \/ DeepStep(k) \/ EffectStep(k),
             ~Release(k), ~Repost(k), ~Notice(k)
      PROVE  UNCHANGED <<posts, notices>>
  BY <1>5 DEF TriageStep, Triage, Lookup, DeleteToHold, RecordHeld, HandOff, DeepStep, Deep,
     RecordReleased, EffectStep, Delete, RecordDeleted, FallBackToWarn, RecordReposted,
     RecordNotified, Audit, slack
<1>6. ASSUME Rest PROVE UNCHANGED <<posts, notices>>
  BY <1>0, <1>6, RestMoves
<1>7. \/ Rest
      \/ \E k \in Keys : TriageStep(k) \/ DeepStep(k) \/ EffectStep(k)
  BY DEF WorkerNext, ThreadStep, Rest
<1> QED
  BY <1>1, <1>2, <1>3, <1>4, <1>5, <1>6, <1>7 DEF OnceMore

\* Counting up what is known, or what explains it.
LEMMA Tally ==
  ASSUME NEW n \in Nat, NEW m \in Nat, NEW r \in Nat, NEW q \in Nat,
         NEW P \in BOOLEAN, NEW Q \in BOOLEAN,
         q >= r, n <= r + (IF P THEN 1 ELSE 0), P => Q \/ q >= r + 1,
         m = n \/ (m = n + 1 /\ ~P /\ (Q \/ q >= r + 1))
  PROVE  m <= q + IF Q THEN 1 ELSE 0
<1>1. CASE P /\ Q
  BY <1>1
<1>2. CASE P /\ ~Q
  BY <1>2
<1>3. CASE ~P /\ Q
  BY <1>3
<1>4. CASE ~P /\ ~Q
  BY <1>4
<1> QED
  BY <1>1, <1>2, <1>3, <1>4

\* The count goes up only with what explains it.
LEMMA StillOnce ==
  ASSUME IInv, StateTypeOK, LanesApart, ByRule, [WorkerNext]_vars,
         NEW k \in Keys, NEW s \in CountedStages, NEW n \in Nat, NEW m \in Nat,
         DoneOnce(n, k, s), OnceMore(n, m, k, s)
  PROVE  m <= Repeats' + IF Known(k, s)' THEN 1 ELSE 0
<1>1. Repeats \in Nat /\ Repeats' \in Nat /\ Repeats' >= Repeats
  BY FaultsGrow DEF IInv
<1>2. Known(k, s) => Known(k, s)' \/ Repeats' >= Repeats + 1
  BY StepKnown
<1>3. /\ n <= Repeats + IF Known(k, s) THEN 1 ELSE 0
      /\ m = n \/ (m = n + 1 /\ ~Known(k, s) /\ (Known(k, s)' \/ Repeats' >= Repeats + 1))
  BY DEF DoneOnce, OnceMore, NewlyDone
<1>4. Known(k, s) \in BOOLEAN /\ Known(k, s)' \in BOOLEAN
  BY DEF Known
<1> QED
  BY <1>1, <1>2, <1>3, <1>4, Tally

\* The repeats that are explained are a number.
LEMMA RepeatsCount == ASSUME TypeOK, StateTypeOK PROVE Repeats \in Nat
<1>1. faults \in Nat /\ crashes \in Nat
  BY FaultAssumption, LimitAssumption DEF TypeOK, StateTypeOK, WorldTypeOK
<1>2. crashes + faults \in Nat /\ crashes + 0 \in Nat
  BY <1>1
<1>3. CASE "lost" \in Faults \/ WritesMayFail
  <2>1. Repeats = crashes + faults
    BY <1>3 DEF Repeats
  <2> QED
    BY <1>2, <2>1, Zenon
<1>4. CASE ~("lost" \in Faults \/ WritesMayFail)
  <2>1. Repeats = crashes + 0
    BY <1>4 DEF Repeats
  <2> QED
    BY <1>2, <2>1, Zenon
<1> QED
  BY <1>3, <1>4

\* Every step of the worker keeps effects counted.
LEMMA StepRepeats ==
  ASSUME IInv, StateTypeOK, LanesApart, RepeatsInv, [WorkerNext]_vars PROVE RepeatsInv'
<1>0. ByRule /\ DeepUnfound
  BY DEF RepeatsInv, ByRule
<1>1. ByRule' /\ DeepUnfound'
  BY <1>0, StepByRule, StepUnfound
<1>2. ASSUME NEW e \in Events
      PROVE  /\ DoneOnce(posts[e].released, <<DEEP, e>>, "released")'
             /\ Split[e] = {} => /\ DoneOnce(posts[e].redacted, JobOf(e), "reposted")'
                                 /\ DoneOnce(notices[e], JobOf(e), "notified")'
  <2>0. /\ <<DEEP, e>> \in Keys /\ JobOf(e) \in Keys /\ JobOf(e)' = JobOf(e)
        /\ {"released", "reposted", "notified"} = CountedStages
    BY JobsAreKeys DEF JobOf, CountedStages
  <2>1. /\ posts[e].released \in Nat /\ posts[e].redacted \in Nat /\ notices[e] \in Nat
        /\ posts'[e].released \in Nat /\ posts'[e].redacted \in Nat /\ notices'[e] \in Nat
    <3>1. StateTypeOK'
      BY StepTypes DEF IInv
    <3> QED
      BY <3>1 DEF StateTypeOK, WorldTypeOK
  <2>2. /\ OnceMore(posts[e].released, posts'[e].released, <<DEEP, e>>, "released")
        /\ Split[e] = {} =>
             /\ OnceMore(posts[e].redacted, posts'[e].redacted, JobOf(e), "reposted")
             /\ OnceMore(notices[e], notices'[e], JobOf(e), "notified")
    BY <1>0, StepEffects
  <2>3. /\ DoneOnce(posts[e].released, <<DEEP, e>>, "released")
        /\ Split[e] = {} => /\ DoneOnce(posts[e].redacted, JobOf(e), "reposted")
                            /\ DoneOnce(notices[e], JobOf(e), "notified")
    BY DEF RepeatsInv
  <2>4. posts'[e].released <= Repeats' + IF Known(<<DEEP, e>>, "released")' THEN 1 ELSE 0
    BY <1>0, <2>0, <2>1, <2>2, <2>3, StillOnce
  <2>5. ASSUME Split[e] = {}
        PROVE  /\ posts'[e].redacted <= Repeats' + IF Known(JobOf(e), "reposted")' THEN 1 ELSE 0
               /\ notices'[e] <= Repeats' + IF Known(JobOf(e), "notified")' THEN 1 ELSE 0
    BY <1>0, <2>0, <2>1, <2>2, <2>3, <2>5, StillOnce
  <2> QED
    BY <2>4, <2>5 DEF DoneOnce
<1> QED
  BY <1>1, <1>2 DEF RepeatsInv, ByRule

\* The worker starts with no effect.
LEMMA InitRepeats == WorkerInit => RepeatsInv
<1> SUFFICES ASSUME WorkerInit PROVE RepeatsInv
  OBVIOUS
<1> USE JobsAreKeys
<1>1. \A k \in Keys : LaneByRule(k) /\ StageAhead(k)
  BY DEF WorkerInit, LaneByRule, StageAhead, Idle, Effects
<1>2. DeepUnfound
  BY DEF WorkerInit, Init, DeepUnfound
<1>3. Repeats = 0
  BY DEF WorkerInit, Init, Repeats
<1>4. ASSUME NEW k \in Keys, NEW s PROVE DoneOnce(0, k, s)
  <2>1. ~Known(k, s)
    BY DEF WorkerInit, Init, Known
  <2> QED
    BY <1>3, <2>1 DEF DoneOnce
<1>5. \A e \in Events : JobOf(e) \in Keys
  BY DEF JobOf
<1>6. \A e \in Events : posts[e].released = 0 /\ posts[e].redacted = 0 /\ notices[e] = 0
  BY DEF WorkerInit
<1> QED
  <2>2. ASSUME NEW e \in Events
        PROVE  /\ DoneOnce(posts[e].released, <<DEEP, e>>, "released")
               /\ DoneOnce(posts[e].redacted, JobOf(e), "reposted")
               /\ DoneOnce(notices[e], JobOf(e), "notified")
    <3>1. posts[e].released = 0 /\ posts[e].redacted = 0 /\ notices[e] = 0
      BY <1>6
    <3>2. DoneOnce(0, <<DEEP, e>>, "released") /\ DoneOnce(0, JobOf(e), "reposted")
          /\ DoneOnce(0, JobOf(e), "notified")
      BY <1>4, <1>5
    <3> QED
      BY <3>1, <3>2
  <2> QED
    BY <1>1, <1>2, <2>2 DEF RepeatsInv

\* Nothing is posted or notified more often than its stage, and the repeats, account for.
LEMMA AllRepeats == WorkerSpec => []RepeatsInv
<1>1. WorkerInit => RepeatsInv
  BY InitRepeats
<1>2. IInv /\ StateTypeOK /\ DecisionsTraced /\ RepeatsInv /\ [WorkerNext]_vars => RepeatsInv'
  BY StepRepeats DEF DecisionsTraced
<1> QED
  BY <1>1, <1>2, QueueInWorker, WorkerTypes, AllTraced, PTL DEF WorkerSpec

\* However often a message is retried and decided anew: its released copies, and, if it completes
\* no finding with others, its redacted copies and notices, are one each, and one more for each
\* crash and each call or write that failed after its effect, at most.
THEOREM RepeatsAreExplained == WorkerSpec => []RepeatsExplained
<1>1. IInv /\ StateTypeOK /\ RepeatsInv => RepeatsExplained
  <2> SUFFICES ASSUME IInv, StateTypeOK, RepeatsInv, NEW e \in Events
               PROVE  /\ posts[e].released <= 1 + Repeats
                      /\ Split[e] = {} => posts[e].redacted <= 1 + Repeats /\ notices[e] <= 1 + Repeats
    BY DEF RepeatsExplained
  <2>1. Repeats \in Nat
    BY RepeatsCount DEF IInv
  <2>2. posts[e].released \in Nat /\ posts[e].redacted \in Nat /\ notices[e] \in Nat
    BY DEF StateTypeOK, WorldTypeOK
  <2>3. ASSUME NEW n \in Nat, NEW k, NEW s, DoneOnce(n, k, s) PROVE n <= 1 + Repeats
    <3>1. CASE Known(k, s)
      <4>1. n <= Repeats + 1
        BY <2>3, <3>1 DEF DoneOnce
      <4> QED
        BY <2>1, <4>1
    <3>2. CASE ~Known(k, s)
      <4>1. n <= Repeats + 0
        BY <2>3, <3>2 DEF DoneOnce
      <4> QED
        BY <2>1, <4>1
    <3> QED
      BY <3>1, <3>2
  <2> QED
    BY <2>2, <2>3 DEF RepeatsInv
<1> QED
  BY <1>1, AllRepeats, QueueInWorker, WorkerTypes, PTL

(***************************************************************************)
(* Messages that complete a finding together do not all stay visible, as   *)
(* long as the process was not stopped: the window follows the order of    *)
(* the queue.                                                              *)
(***************************************************************************)

\* As long as the process was not stopped, rows stay in the partition of their owner, whatever
\* layout it was started with.
LEMMA HomeStays ==
  ASSUME IInv, RowsAtHome, phase # "down", [Next]_queueVars PROVE RowsAtHome'
<1>1. TypeOK /\ TypeOK'
  BY NextType DEF IInv
<1>2. layout' = layout
  BY DEF Next, Put, Claim, SetStage, Done, AdvanceCursor, Fail, CrashInFail, EndThread, Crash,
         Restart, StartThreads, Tick, queueVars
<1>3. \A k \in Keys : PartitionOf(k)' = PartitionOf(k)
  BY <1>2 DEF PartitionOf
<1>4. ASSUME NEW k \in Keys, status'[k] # "absent" PROVE partition'[k] = PartitionOf(k)
  <2>1. CASE \E j \in Keys : Put(j)
    BY <1>1, <1>4, <2>1 DEF Put, RowsAtHome, TypeOK
  <2>2. CASE ~ \E j \in Keys : Put(j)
    <3>1. partition' = partition
      BY <2>2 DEF Next, Claim, SetStage, Done, AdvanceCursor, Fail, CrashInFail,
                  EndThread, Crash, Restart, StartThreads, Tick, queueVars, rows
    <3>2. status[k] # "absent"
      BY <1>1, <1>4, <2>2 DEF Next, Claim, LaneHead, SetStage, Done, AdvanceCursor, Fail,
         CrashInFail, EndThread, Crash, Restart, StartThreads, Tick, queueVars, rows, TypeOK,
         IInv, HandsAgree
    <3> QED
      BY <3>1, <3>2 DEF RowsAtHome
  <2> QED
    BY <2>1, <2>2
<1> QED
  BY <1>3, <1>4 DEF RowsAtHome

\* The process stops only with a crash that is counted.
LEMMA StillRunning ==
  ASSUME TypeOK, [Next]_queueVars, crashes' = 0
  PROVE  crashes = 0 /\ (phase # "down" => phase' # "down")
<1>1. crashes \in Nat
  BY LimitAssumption DEF TypeOK
<1>2. UNCHANGED crashes \/ crashes' = crashes + 1
  BY DEF Next, Put, Claim, SetStage, Done, AdvanceCursor, Fail, CrashInFail, EndThread, Crash,
         Restart, StartThreads, Tick, queueVars
<1>3. UNCHANGED crashes /\ crashes = 0
  BY <1>1, <1>2
<1>4. phase # "down" => phase' # "down"
  BY <1>1, <1>3 DEF Next, Put, Claim, SetStage, Done, AdvanceCursor, Fail, CrashInFail, EndThread,
     Crash, Restart, StartThreads, Tick, queueVars, rows
<1> QED
  BY <1>3, <1>4

\* A stored row keeps its id, and a new one gets a higher id than all that are stored.
LEMMA IdsStay ==
  ASSUME IInv, [Next]_queueVars, phase # "down", NEW j \in Keys, NEW k \in Keys, status[k] # "absent"
  PROVE  /\ id'[k] = id[k]
         /\ status[j] # "absent" => id'[j] = id[j]
         /\ status[j] = "absent" /\ status'[j] # "absent" => id'[j] > id[k]
<1>0. /\ id \in [Keys -> Nat] /\ lastId \in Nat /\ id[k] <= lastId
      /\ status \in [Keys -> Statuses] /\ HandsAgree
  BY DEF IInv, TypeOK, RowIds
<1>1. CASE \E i \in Keys : Put(i)
  <2>1. PICK i \in Keys : Put(i)
    BY <1>1
  <2>2. /\ i # k /\ status[i] = "absent"
        /\ id' = [id EXCEPT ![i] = lastId + 1] /\ status' = [status EXCEPT ![i] = "queued"]
    BY <2>1 DEF Put
  <2> QED
    BY <1>0, <2>2
<1>2. CASE ~ \E i \in Keys : Put(i)
  <2>1. UNCHANGED id
    BY <1>2 DEF Next, Claim, SetStage, Done, AdvanceCursor, Fail, CrashInFail, EndThread, Crash,
       Restart, StartThreads, Tick, queueVars, rows
  <2>2. status[j] = "absent" => status'[j] = "absent"
    BY <1>0, <1>2 DEF Next, Claim, LaneHead, SetStage, Done, AdvanceCursor, Fail, CrashInFail,
       EndThread, Crash, Restart, StartThreads, Tick, queueVars, rows, HandsAgree
  <2> QED
    BY <2>1, <2>2
<1> QED
  BY <1>1, <1>2

\* The authors have finitely many messages.
LEMMA FewMessages ==
  ASSUME NEW a \in Authors
  PROVE  /\ IsFiniteSet(MsgsOf({e \in Events : Author[e] = a}))
         /\ Cardinality(MsgsOf({e \in Events : Author[e] = a})) \in Nat
<1> DEFINE E == {e \in Events : Author[e] = a}
           f == [e \in E |-> MsgOf[e]]
<1>1. IsFiniteSet(E)
  <2>1. E \in SUBSET Events
    OBVIOUS
  <2> HIDE DEF E
  <2> QED
    BY <2>1, EventAssumption, FS_Subset
<1>2. f \in Surjection(E, MsgsOf(E))
  BY DEF Surjection, MsgsOf
<1> HIDE DEF E, f
<1>3. IsFiniteSet(MsgsOf(E))
  BY <1>1, <1>2, FS_Surjection
<1> QED
  BY <1>3, FS_CardinalityType DEF E

\* add drops no message of an author whose messages all have their place.
LEMMA AddKeepsAll ==
  ASSUME NEW a \in Authors, NEW w \in WindowOf(Events), EachOnce(w, a), WindowSuffices,
         NEW e \in Events, Author[e] = a
  PROVE  /\ EachOnce(Add(w, e), a)
         /\ e \in Range(Add(w, e))
         /\ \A f \in Range(w) : MsgOf[f] # MsgOf[e] => f \in Range(Add(w, e))
<1> DEFINE at == {i \in 1..Len(w) : MsgOf[w[i]] = MsgOf[e]}
<1>1. /\ w \in Seq(Events) /\ Len(w) \in Nat /\ WindowSize \in Nat /\ DOMAIN w = 1..Len(w)
      /\ \A i \in 1..Len(w) : w[i] \in Events
  BY LenProperties, WindowAssumption, ElementOfSeq DEF WindowOf
<1>2. CASE at # {}
  <2> DEFINE v == [i \in 1..Len(w) |-> IF i \in at THEN e ELSE w[i]]
  <2>1. Add(w, e) = v
    BY <1>2 DEF Add
  <2>2. /\ DOMAIN v = 1..Len(w)
        /\ \A i \in 1..Len(w) : v[i] = IF MsgOf[w[i]] = MsgOf[e] THEN e ELSE w[i]
    OBVIOUS
  <2>3. PICK i \in 1..Len(w) : MsgOf[w[i]] = MsgOf[e]
    BY <1>2
  <2> HIDE DEF v
  <2>4. EachOnce(v, a)
    <3>1. ASSUME NEW p \in 1..Len(w), NEW q \in 1..Len(w)
          PROVE  Author[v[p]] = a /\ (p # q => MsgOf[v[p]] # MsgOf[v[q]])
      <4>1. Author[w[p]] = a /\ (p # q => MsgOf[w[p]] # MsgOf[w[q]])
        BY <1>1 DEF EachOnce
      <4>2. /\ v[p] = IF MsgOf[w[p]] = MsgOf[e] THEN e ELSE w[p]
            /\ v[q] = IF MsgOf[w[q]] = MsgOf[e] THEN e ELSE w[q]
        BY <2>2
      <4> QED
        BY <4>1, <4>2
    <3> QED
      BY <2>2, <3>1 DEF EachOnce
  <2>5. e \in Range(v)
    BY <2>2, <2>3 DEF Range
  <2>6. \A f \in Range(w) : MsgOf[f] # MsgOf[e] => f \in Range(v)
    BY <1>1, <2>2 DEF Range
  <2> QED
    BY <2>1, <2>4, <2>5, <2>6
<1>3. CASE at = {}
  <2> DEFINE v == Append(w, e)
             n == Len(w)
             M == MsgsOf({f \in Events : Author[f] = a})
             g == [i \in 1..(n + 1) |-> MsgOf[v[i]]]
  <2>1. /\ v \in Seq(Events) /\ Len(v) = n + 1 /\ v[n + 1] = e
        /\ \A i \in 1..n : v[i] = w[i]
    BY <1>1, AppendProperties
  <2>2. DOMAIN v = 1..(n + 1)
    BY <2>1, LenProperties
  <2> HIDE DEF v
  <2>3. \A i \in 1..n : MsgOf[w[i]] # MsgOf[e]
    BY <1>3
  <2> HIDE DEF at
  <2>4. EachOnce(v, a)
    BY <1>1, <2>1, <2>2, <2>3 DEF EachOnce
  <2>5. \A i \in 1..(n + 1) : v[i] \in Events /\ Author[v[i]] = a
    <3>1. \A i \in 1..(n + 1) : v[i] \in Events
      BY <2>1, ElementOfSeq
    <3> QED
      BY <2>2, <2>4, <3>1 DEF EachOnce
  <2>6. g \in Injection(1..(n + 1), M)
    BY <2>2, <2>4, <2>5 DEF Injection, IsInjective, MsgsOf, EachOnce
  <2>7. IsFiniteSet(M) /\ Cardinality(M) \in Nat /\ Cardinality(M) <= WindowSize
    BY FewMessages DEF WindowSuffices
  <2> HIDE DEF M, g, n
  <2>8. Cardinality(1..(n + 1)) <= Cardinality(M)
    BY <2>6, <2>7, FS_Injection
  <2>9. n + 1 <= WindowSize
    <3>1. n \in Nat
      BY <1>1 DEF n
    <3>2. Cardinality(1..(n + 1)) = n + 1
      <4>1. n + 1 \in Int /\ 1 \in Int /\ ~(1 > n + 1) /\ (n + 1) - 1 + 1 = n + 1
        BY <3>1
      <4>2. Cardinality(1..(n + 1)) = IF 1 > n + 1 THEN 0 ELSE (n + 1) - 1 + 1
        BY <4>1, FS_Interval
      <4> QED
        BY <4>1, <4>2
    <3> QED
      BY <1>1, <2>7, <2>8, <3>1, <3>2
  <2>10. Add(w, e) = v
    <3>1. ~(Len(v) > WindowSize)
      BY <1>1, <2>1, <2>9 DEF n
    <3> QED
      BY <1>3, <3>1 DEF Add, v, at
  <2>11. e \in Range(v) /\ \A f \in Range(w) : f \in Range(v)
    BY <1>1, <2>1, <2>2 DEF Range, n
  <2> QED
    BY <2>4, <2>10, <2>11
<1> QED
  BY <1>2, <1>3

\* forget keeps the messages that it is not told to forget.
LEMMA WithoutKeepsRest ==
  ASSUME NEW a \in Authors, NEW w \in WindowOf(Events), EachOnce(w, a), NEW ms,
         NEW v \in Without(w, ms)
  PROVE  /\ EachOnce(v, a)
         /\ \A f \in Range(w) : MsgOf[f] \notin ms => f \in Range(v)
<1> DEFINE R == Range(w)
           K == {f \in R : MsgOf[f] \notin ms}
           n == Cardinality(K)
           D == 1..n
<1>1. DOMAIN w = 1..Len(w) /\ Len(w) \in Nat /\ w \in [1..Len(w) -> Events]
  BY LenProperties DEF WindowOf
<1>2. w \in Surjection(1..Len(w), R) /\ IsFiniteSet(1..Len(w))
  BY <1>1, FS_Interval DEF Surjection, Range
<1>3. IsFiniteSet(R)
  BY <1>2, FS_Surjection
<1>4. v \in [D -> K] /\ \A i, j \in D : i # j => v[i] # v[j]
  BY DEF Without, SetToSeqs
<1>5. \A f \in K : \E i \in DOMAIN w : f = w[i]
  BY DEF Range
<1> HIDE DEF R
<1>6. IsFiniteSet(K)
  <2>1. K \in SUBSET R
    OBVIOUS
  <2> HIDE DEF K
  <2> QED
    BY <1>3, <2>1, FS_Subset
<1>7. n \in Nat
  BY <1>6, FS_CardinalityType
<1>8. Cardinality(D) = n
  <2> HIDE DEF n
  <2>1. Cardinality(1..n) = IF 1 > n THEN 0 ELSE n - 1 + 1
    BY <1>7, FS_Interval
  <2> QED
    BY <1>7, <2>1
<1>9. \A f \in R : MsgOf[f] \notin ms => f \in K
  OBVIOUS
<1> HIDE DEF K, D
<1>10. v \in Injection(D, K)
  BY <1>4 DEF Injection, IsInjective
<1>11. v \in Surjection(D, K)
  BY <1>6, <1>8, <1>10, FS_Injection
<1>12. \A f \in K : \E i \in D : v[i] = f
  BY <1>11 DEF Surjection
<1>13. DOMAIN v = D
  BY <1>4
<1>14. K \subseteq Range(v)
  BY <1>12, <1>13 DEF Range
<1>15. EachOnce(v, a)
  BY <1>4, <1>5, <1>13 DEF EachOnce
<1> QED
  BY <1>9, <1>14, <1>15 DEF R

\* A removal that goes on without deleting forgets what an earlier attempt deleted.
LEMMA RemovalForgetsGone ==
  ASSUME Steady, Audited, [WorkerNext]_vars, NEW k \in Keys, NEW said, NEW todo,
         (IF said.related = {} THEN {MsgAt(k)} ELSE said.related) \in RemovalsOf(k),
         Removal(k, said, todo)
  PROVE  window' = window \/ \E ms : Forget(ms) /\ \A m \in ms : Gone(m)'
<1> USE AuditFacts
<1> DEFINE T == IF said.related = {} THEN {MsgAt(k)} ELSE said.related
<1>1. CASE Reached(k, "deleted")
  <2>1. PastDelete(k)
    BY <1>1, LastStage DEF Reached, PastDelete
  <2>2. T \subseteq Msgs /\ \A m \in T : Gone(m)
    BY <2>1, OneRemoval DEF RemovedIsGone, Steady
  <2>3. Forget(T)
    BY <1>1 DEF Removal
  <2> HIDE DEF T
  <2>4. \A m \in T : Gone(m)'
    BY <2>2
  <2> QED
    BY <2>3, <2>4
<1>2. CASE ~Reached(k, "deleted")
  BY <1>2 DEF Removal
<1> QED
  BY <1>1, <1>2

\* Whatever is forgotten is gone.
LEMMA ForgetsGone ==
  ASSUME Steady, Audited, [WorkerNext]_vars, NEW k \in Keys, Forgets(k)
  PROVE  window' = window \/ \E ms : Forget(ms) /\ \A m \in ms : Gone(m)'
<1> USE AuditFacts
<1>1. CASE Triage(k)
  <2> DEFINE e == EventOf(k)
             said == RulesSay(e, Others(window[Author[e]], e))
             T == IF said.related = {} THEN {MsgAt(k)} ELSE said.related
  <2>1. k[1] = TRIAGE /\ MsgAt(k) = MsgOf[e]
    BY <1>1 DEF Triage, MsgAt, EventOf
  <2>2. CASE said.act = "none"
    BY <1>1, <2>2 DEF Triage
  <2>3. CASE said.act # "none"
    <3>1. Removal(k, said, T)
      BY <1>1, <2>1, <2>3 DEF Triage
    <3>2. T \in RemovalsOf(k)
      <4>1. CASE FoundAlone(k)
        <5>1. T = {MsgOf[e]}
          BY <2>1, <4>1 DEF RulesSay, FoundAlone
        <5> QED
          BY <2>1, <4>1, <5>1 DEF RemovalsOf
      <4>2. CASE ~FoundAlone(k)
        <5>1. said.related = MsgsOf(Split[e] \cup {e})
          BY <2>3, <4>2 DEF RulesSay, FoundAlone
        <5>2. MsgOf[e] \in MsgsOf(Split[e] \cup {e})
          BY DEF MsgsOf
        <5>3. T = MsgsOf(Split[e] \cup {e})
          BY <5>1, <5>2
        <5> QED
          BY <2>1, <4>2, <5>3 DEF RemovalsOf
      <4> QED
        BY <4>1, <4>2
    <3> HIDE DEF said
    <3> QED
      BY <3>1, <3>2, RemovalForgetsGone
  <2> QED
    BY <2>2, <2>3
<1>2. CASE Deep(k)
  <2> DEFINE e == EventOf(k)
             Related(v) == IF v.parts = {} THEN {} ELSE MsgsOf(v.parts \cup {e})
             Said(v) == [act |-> v.act, related |-> Related(v)]
             T(v) == IF Related(v) = {} THEN {MsgAt(k)} ELSE Related(v)
             Gones == IF carried[e].held THEN {MsgAt(k)} ELSE {}
  <2>1. k[1] = DEEP /\ k[1] # TRIAGE /\ MsgAt(k) = MsgOf[e]
    BY <1>2 DEF Deep, MsgAt, EventOf, TRIAGE, DEEP
  <2>2. PICK v \in Verdicts[e] :
          \/ window' = window
          \/ v.act \in Removing /\ Removal(k, Said(v), T(v) \ Gones)
    BY <1>2, <2>1 DEF Deep, memory
  <2>3. CASE v.act \in Removing /\ Removal(k, Said(v), T(v) \ Gones)
    <3>1. T(v) = IF v.parts = {} THEN {MsgOf[e]} ELSE MsgsOf(v.parts \cup {e})
      <4>1. MsgsOf(v.parts \cup {e}) # {}
        BY DEF MsgsOf
      <4> QED
        BY <2>1, <4>1
    <3>2. T(v) \in RemovalsOf(k)
      BY <2>1, <2>3, <3>1 DEF RemovalsOf
    <3>3. Said(v).related = Related(v)
      OBVIOUS
    <3> DEFINE said == Said(v)
               todo == T(v) \ Gones
    <3>4. /\ T(v) = IF said.related = {} THEN {MsgAt(k)} ELSE said.related
          /\ Removal(k, said, todo)
      BY <2>3, <3>3
    <3> HIDE DEF T, Related, Said, Gones, said, todo
    <3> QED
      BY <3>2, <3>4, RemovalForgetsGone
  <2> QED
    BY <2>2, <2>3
<1>3. CASE RecordDeleted(k)
  <2>1. task[k].at = "delete" /\ task[k].todo = {} /\ Forget(Targets(k))
    BY <1>3 DEF RecordDeleted
  <2>2. task[k].act \in Removing /\ Targets(k) \subseteq Msgs
    BY <2>1 DEF TrueToVerdict, Effects
  <2>3. \A m \in Targets(k) : Gone(m)
    BY <2>1 DEF RemovedIsGone
  <2>4. \A m \in Targets(k) : Gone(m)'
    BY <2>2, <2>3
  <2> QED
    BY <2>1, <2>4
<1> QED
  BY <1>1, <1>2, <1>3 DEF Forgets

\* What the lemmas on steps before the first crash start from.
Followed == Audited /\ WindowTypeOK /\ DecisionsTraced /\ SplitInv

\* What they use of it.
LEMMA FollowedFacts ==
  ASSUME PlainSplits, Followed, [WorkerNext]_vars, crashes' = 0
  PROVE  /\ Steady /\ RefusalsSpareSplits /\ ~HoldChannel /\ WindowSuffices
         /\ IInv /\ StateTypeOK /\ WrittenFirst /\ LanesApart /\ Ready
         /\ crashes = 0 /\ phase # "down" /\ phase' # "down"
         /\ RowsAtHome /\ RowsAtHome' /\ [Next]_queueVars
         /\ WindowsApart /\ \A a \in Authors : window[a] \in WindowOf(Events)
         /\ \A e \in Events : PassedOn(e)
         /\ \A e \in Events : NotFound(e) /\ Split[e] # {} => \E f \in Split[e] : MayMiss(f, e)
         /\ ~WorkerCrash
<1>1. /\ Steady /\ RefusalsSpareSplits /\ ~HoldChannel /\ WindowSuffices
      /\ IInv /\ StateTypeOK /\ WrittenFirst /\ LanesApart /\ Ready
  BY DEF PlainSplits, Steady, RefusalsSpareSplits, Followed, Audited, Ready
<1>2. [Next]_queueVars /\ TypeOK
  BY <1>1, QueueStep DEF IInv
<1>3. crashes = 0 /\ (phase # "down" => phase' # "down")
  BY <1>2, StillRunning
<1>4. SplitInv /\ WindowTypeOK
  BY DEF Followed
<1>5. /\ phase # "down" /\ RowsAtHome /\ WindowsApart
      /\ \A e \in Events : PassedOn(e)
      /\ \A e \in Events : NotFound(e) /\ Split[e] # {} => \E f \in Split[e] : MayMiss(f, e)
  BY <1>3, <1>4 DEF SplitInv
<1>6. RowsAtHome'
  BY <1>1, <1>2, <1>5, HomeStays
<1>7. \A a \in Authors : window[a] \in WindowOf(Events)
  BY <1>4 DEF WindowTypeOK, WindowOf
<1>8. ~WorkerCrash
  BY <1>3 DEF WorkerCrash, Crash, CrashInFail
<1> QED
  BY <1>1, <1>2, <1>3, <1>5, <1>6, <1>7, <1>8

\* The windows keep what is not edited and not gone, and each message once.
LEMMA WindowsKeep ==
  ASSUME PlainSplits, Followed, [WorkerNext]_vars, crashes' = 0
  PROVE  /\ WindowsApart'
         /\ \A e \in Events : Unedited(e) /\ e \in Range(window[Author[e]]) => Remembered(e)'
<1> USE FollowedFacts
<1>1. window \in [Authors -> Seq(Events)] /\ \A e \in Events : Author[e] \in Authors
  BY DEF Followed, WindowTypeOK, Authors
<1>2. CASE window' = window
  BY <1>2 DEF WindowsApart, Remembered
<1>3. ASSUME NEW f \in sent, window' = [window EXCEPT ![Author[f]] = Add(@, f)]
      PROVE  /\ WindowsApart'
             /\ \A e \in Events : Unedited(e) /\ e \in Range(window[Author[e]]) => Remembered(e)'
  <2> DEFINE b == Author[f]
  <2>1. f \in Events /\ b \in Authors
    BY <1>1 DEF StateTypeOK, WorldTypeOK
  <2>2. window[b] \in WindowOf(Events) /\ EachOnce(window[b], b)
    BY <2>1 DEF WindowsApart
  <2>3. /\ EachOnce(Add(window[b], f), b) /\ f \in Range(Add(window[b], f))
        /\ \A e \in Range(window[b]) : MsgOf[e] # MsgOf[f] => e \in Range(Add(window[b], f))
    BY <2>1, <2>2, AddKeepsAll
  <2>4. window'[b] = Add(window[b], f) /\ \A a \in Authors \ {b} : window'[a] = window[a]
    BY <1>1, <1>3, <2>1
  <2>5. WindowsApart'
    BY <2>3, <2>4 DEF WindowsApart
  <2>6. ASSUME NEW e \in Events, Unedited(e), e \in Range(window[Author[e]])
        PROVE  e \in Range(window'[Author[e]])
    <3>1. CASE Author[e] = b
      <4>1. MsgOf[f] = MsgOf[e] => f = e
        BY <2>1, <2>6 DEF Unedited
      <4> QED
        BY <2>3, <2>4, <2>6, <3>1, <4>1
    <3>2. CASE Author[e] # b
      BY <1>1, <2>4, <2>6, <3>2
    <3> QED
      BY <3>1, <3>2
  <2> QED
    BY <2>5, <2>6 DEF Remembered
<1>4. ASSUME NEW ms, Forget(ms), \A m \in ms : Gone(m)'
      PROVE  /\ WindowsApart'
             /\ \A e \in Events : Unedited(e) /\ e \in Range(window[Author[e]]) => Remembered(e)'
  <2>1. \A a \in Authors : window'[a] \in Without(window[a], ms)
    BY <1>4 DEF Forget
  <2>2. ASSUME NEW a \in Authors
        PROVE  /\ EachOnce(window'[a], a)
               /\ \A e \in Range(window[a]) : MsgOf[e] \notin ms => e \in Range(window'[a])
    <3>1. window[a] \in WindowOf(Events) /\ EachOnce(window[a], a)
      BY DEF WindowsApart
    <3> QED
      BY <2>1, <3>1, WithoutKeepsRest
  <2>3. WindowsApart'
    BY <2>2 DEF WindowsApart
  <2>4. ASSUME NEW e \in Events, e \in Range(window[Author[e]]) PROVE Remembered(e)'
    BY <1>1, <1>4, <2>2, <2>4 DEF Remembered
  <2> QED
    BY <2>3, <2>4
<1>5. \/ window' = window
      \/ \E f \in sent : window' = [window EXCEPT ![Author[f]] = Add(@, f)]
      \/ \E k \in Keys : Forgets(k)
  BY WindowMoves
<1>6. ASSUME NEW k \in Keys, Forgets(k)
      PROVE  window' = window \/ \E ms : Forget(ms) /\ \A m \in ms : Gone(m)'
  BY <1>6, ForgetsGone DEF Followed
<1> QED
  BY <1>2, <1>3, <1>4, <1>5, <1>6

\* Only an audit writes a line, and only a release posts a released copy.
LEMMA LinesAndCopies ==
  ASSUME TypeOK, StateTypeOK, [WorkerNext]_vars, NEW e \in Events
  PROVE  /\ trail'[e] = trail[e] \/ \E k \in Keys : task[k].at = "audit" /\ EventOf(k) = e
         /\ \/ posts'[e].released = posts[e].released
            \/ \E k \in Keys : task[k].at = "release" /\ EventOf(k) = e
<1> USE JobsAreKeys
<1>0. /\ posts \in [Events -> [released : Nat, redacted : Nat]]
      /\ trail \in [Events -> SUBSET [act : Actions \cup {"none"}, msgs : SUBSET Msgs]]
  BY DEF StateTypeOK, WorldTypeOK
<1> DEFINE Goal == /\ trail'[e] = trail[e] \/ \E k \in Keys : task[k].at = "audit" /\ EventOf(k) = e
                   /\ \/ posts'[e].released = posts[e].released
                      \/ \E k \in Keys : task[k].at = "release" /\ EventOf(k) = e
<1>1. CASE Rest
  <2>1. UNCHANGED <<notices, posts, files>>
    BY <1>1, RestMoves
  <2> QED
    BY <2>1 DEF files
<1>2. ASSUME NEW k \in Keys, TriageStep(k) \/ DeepStep(k) \/ EffectStep(k) PROVE Goal
  <2>1. CASE Audit(k)
    <3>1. task[k].at = "audit" /\ posts' = posts
      BY <2>1 DEF Audit, slack
    <3>2. EventOf(k) # e => trail'[e] = trail[e]
      BY <1>0, <2>1 DEF Audit
    <3> QED
      BY <3>1, <3>2
  <2>2. CASE Release(k)
    <3>1. task[k].at = "release" /\ trail' = trail
      BY <2>2 DEF Release, files
    <3>2. EventOf(k) # e => posts'[e] = posts[e]
      BY <1>0, <2>2 DEF Release
    <3> QED
      BY <3>1, <3>2
  <2>3. CASE Repost(k)
    <3>1. trail' = trail
      BY <2>3 DEF Repost, files
    <3>2. posts'[e].released = posts[e].released
      BY <1>0, <2>3 DEF Repost
    <3> QED
      BY <3>1, <3>2
  <2>4. CASE ~Audit(k) /\ ~Release(k) /\ ~Repost(k)
    <3>1. trail' = trail /\ posts' = posts
      BY <1>2, <2>4
         DEF TriageStep, Triage, Lookup, DeleteToHold, RecordHeld, HandOff, DeepStep, Deep,
             RecordReleased, EffectStep, Delete, RecordDeleted, FallBackToWarn, RecordReposted,
             Notice, RecordNotified, slack, files
    <3> QED
      BY <3>1
  <2> QED
    BY <2>1, <2>2, <2>3, <2>4
<1> QED
  BY <1>1, <1>2 DEF WorkerNext, ThreadStep, Rest

\* A job in hand is stored; one of an event is that of the triage or of the deep lane.
LEMMA JobInHand ==
  ASSUME IInv, StateTypeOK, LanesApart, NEW k \in Keys, task[k].at # "idle"
  PROVE  /\ status[k] = "processing" /\ hand[k] = "handling"
         /\ k \in {<<TRIAGE, EventOf(k)>>, <<DEEP, EventOf(k)>>}
         /\ task[k].at \in {"lookup", "hold", "held", "handoff"} => k = <<TRIAGE, EventOf(k)>>
  BY JobsAreKeys DEF IInv, HandsAgree, StateTypeOK, TaskTypeOK, EventOf, LanesApart

\* What the deep lane has is remembered or gone, and what triage decided is gone.
LEMMA StepPassedOn ==
  ASSUME PlainSplits, Followed, [WorkerNext]_vars, crashes' = 0, NEW e \in Events
  PROVE  PassedOn(e)'
<1> USE FollowedFacts, JobsAreKeys
<1> DEFINE t == <<TRIAGE, e>>
           d == <<DEEP, e>>
<1>0. /\ t \in Keys /\ d \in Keys /\ t[1] = TRIAGE /\ d[1] = DEEP /\ EventOf(t) = e
      /\ EventOf(d) = e /\ TRIAGE # DEEP /\ MsgOf[e] \in Msgs /\ PassedOn(e)
      /\ Unedited(e)' = Unedited(e)
  BY DEF EventOf, TRIAGE, DEEP, Msgs, Unedited
<1>1. /\ status[t] # "absent" => status'[t] # "absent"
      /\ status[d] # "absent" => status'[d] # "absent"
  BY <1>0, RowsStay
<1>2. Gone(MsgOf[e]) => Gone(MsgOf[e])'
  BY <1>0, GoneStays
<1>3. ASSUME status'[d] # "absent", Unedited(e) PROVE Remembered(e)'
  <2>1. CASE status[d] # "absent"
    <3>1. Remembered(e)
      BY <1>0, <1>3, <2>1 DEF PassedOn
    <3>2. CASE Gone(MsgOf[e])
      BY <1>2, <3>2 DEF Remembered
    <3>3. CASE e \in Range(window[Author[e]])
      BY <1>3, <3>3, WindowsKeep
    <3> QED
      BY <3>1, <3>2, <3>3 DEF Remembered
  <2>2. CASE status[d] = "absent"
    <3>1. PICK k \in Keys : HandOff(k) /\ EventOf(k) = e
      BY <1>0, <1>3, <2>2, RowSteps
    <3>2. window \in [Authors -> Seq(Events)] /\ Author[e] \in Authors
      BY DEF Followed, WindowTypeOK, Authors
    <3>3. window'[Author[e]] = Add(window[Author[e]], e)
      BY <3>1, <3>2 DEF HandOff
    <3>4. window[Author[e]] \in WindowOf(Events) /\ EachOnce(window[Author[e]], Author[e])
      BY <3>2 DEF WindowsApart
    <3> QED
      BY <3>2, <3>3, <3>4, AddKeepsAll DEF Remembered
  <2> QED
    BY <2>1, <2>2
<1>4. ASSUME trail'[e] # trail[e] PROVE status[t] # "absent" /\ (status[d] # "absent" \/ Gone(MsgOf[e]))
  <2>1. PICK k \in Keys : task[k].at = "audit" /\ EventOf(k) = e
    BY <1>4, LinesAndCopies DEF IInv
  <2>2. k \in {t, d} /\ status[k] = "processing"
    BY <2>1, JobInHand
  <2>3. CASE k = d
    BY <1>0, <2>2, <2>3 DEF PassedOn
  <2>4. CASE k = t
    <3>1. TrueToVerdict(k) /\ RemovedIsGone(k)
      BY DEF Followed, Audited
    <3>2. task[k].act \in Removing /\ Targets(k) \in RemovalsOf(k)
      BY <1>0, <2>1, <2>4, <3>1 DEF TrueToVerdict, Effects
    <3>3. \A m \in Targets(k) : Gone(m)
      BY <2>1, <3>1, <3>2 DEF RemovedIsGone, Effects
    <3>4. MsgOf[e] \in Targets(k)
      BY <1>0, <2>1, <2>4, <3>2 DEF RemovalsOf, MsgsOf
    <3> QED
      BY <2>2, <2>4, <3>3, <3>4
  <2> QED
    BY <2>2, <2>3, <2>4
<1>5. ASSUME status'[d] = "absent", trail'[e] # {} PROVE Gone(MsgOf[e])'
  BY <1>0, <1>1, <1>2, <1>4, <1>5 DEF PassedOn
<1>6. ASSUME status'[d] # "absent" \/ trail'[e] # {} PROVE status'[t] # "absent"
  <2>1. CASE status'[d] # "absent" /\ status[d] = "absent"
    <3>1. PICK k \in Keys : HandOff(k) /\ EventOf(k) = e
      BY <1>0, <2>1, RowSteps
    <3>2. task[k].at = "handoff"
      BY <3>1 DEF HandOff
    <3> QED
      BY <1>1, <3>1, <3>2, JobInHand
  <2>2. CASE status[d] # "absent" \/ trail'[e] # {}
    BY <1>0, <1>1, <1>4, <2>2 DEF PassedOn
  <2> QED
    BY <1>6, <2>1, <2>2
<1>7. posts'[e].released = 0
  <2>1. ASSUME NEW k \in Keys, task[k].at = "release" PROVE FALSE
    <3>1. carried[EventOf(k)].held
      BY <2>1 DEF Followed, Audited, TrueToVerdict
    <3> QED
      BY <3>1 DEF Followed, Audited, HeldByPolicy
  <2> QED
    BY <1>0, <2>1, LinesAndCopies DEF PassedOn, IInv
<1> QED
  BY <1>0, <1>3, <1>5, <1>6, <1>7 DEF PassedOn

\* Why a part was missed stays true.
LEMMA MissStays ==
  ASSUME PlainSplits, Followed, [WorkerNext]_vars, crashes' = 0, NEW e \in Events, NEW f \in Events,
         status[<<TRIAGE, e>>] # "absent", MayMiss(f, e)
  PROVE  MayMiss(f, e)'
<1> USE FollowedFacts, JobsAreKeys
<1> DEFINE t == <<TRIAGE, f>>
           d == <<DEEP, f>>
           te == <<TRIAGE, e>>
<1>0. /\ t \in Keys /\ d \in Keys /\ te \in Keys /\ t[1] = TRIAGE /\ d[1] = DEEP /\ EventOf(t) = f
      /\ EventOf(d) = f /\ TRIAGE # DEEP /\ MsgOf[f] \in Msgs
  BY DEF EventOf, TRIAGE, DEEP, Msgs
<1>1. CASE Gone(MsgOf[f])
  BY <1>0, <1>1, GoneStays DEF MayMiss
<1>2. CASE NeverJudged(f)
  <2>1. status'[t] = "dead"
    BY <1>0, <1>2, RowSteps DEF NeverJudged
  <2>2. status'[d] = "absent"
    <3>1. SUFFICES ASSUME status'[d] # "absent" PROVE FALSE
      OBVIOUS
    <3>2. PICK k \in Keys : HandOff(k) /\ EventOf(k) = f
      BY <1>0, <1>2, <3>1, RowSteps DEF NeverJudged
    <3>3. task[k].at = "handoff"
      BY <3>2 DEF HandOff
    <3> QED
      BY <1>2, <3>2, <3>3, JobInHand DEF NeverJudged
  <2>3. trail'[f] = {}
    <3>1. SUFFICES ASSUME trail'[f] # trail[f] PROVE FALSE
      BY <1>2 DEF NeverJudged
    <3>2. PICK k \in Keys : task[k].at = "audit" /\ EventOf(k) = f
      BY <3>1, LinesAndCopies DEF IInv
    <3> QED
      BY <1>2, <3>2, JobInHand DEF NeverJudged
  <2> QED
    BY <2>1, <2>2, <2>3 DEF MayMiss, NeverJudged
<1>3. CASE Later(f, e)
  <2>1. /\ id'[te] = id[te]
        /\ status[t] # "absent" => id'[t] = id[t]
        /\ status[t] = "absent" /\ status'[t] # "absent" => id'[t] > id[te]
    BY <1>0, IdsStay
  <2>2. id \in [Keys -> Nat] /\ id'\in [Keys -> Nat]
    BY NextInv DEF IInv, TypeOK
  <2> HIDE DEF t, te
  <2>3. status'[t] = "absent" \/ id'[t] >= id'[te]
    BY <1>0, <1>3, <2>1, <2>2 DEF Later, t, te
  <2> QED
    BY <2>3 DEF MayMiss, Later, t, te
<1> QED
  BY <1>1, <1>2, <1>3 DEF MayMiss

\* The places of a handler of triage that found nothing.
Passing == {"lookup", "hold", "held", "handoff"}

\* A handler gets to such a place from another one with the verdict of the rules only.
LEMMA BeginsPassing ==
  ASSUME Ready, RefusalsSpareSplits, TypeOK, [WorkerNext]_vars, NEW j \in Keys,
         task'[j].at \in Passing, task[j].at \notin Passing
  PROVE  Triage(j)
<1> USE JobsAreKeys
<1>0. StateTypeOK /\ task \in [Keys -> Tasks] /\ \A k \in Keys : task[k] \in Tasks
  BY DEF Ready, StateTypeOK, TaskTypeOK
<1>1. CASE Rest
  BY <1>0, <1>1, RestMoves DEF Anew, Passing
<1>2. ASSUME NEW k \in Keys, TriageStep(k) \/ DeepStep(k) \/ EffectStep(k) PROVE Triage(j)
  <2>1. j = k
    BY <1>2, OthersStand
  <2>2. CASE TriageStep(k)
    BY <2>1, <2>2, <1>0 DEF TriageStep, Lookup, DeleteToHold, RecordHeld, HandOff, Passing
  <2>3. CASE DeepStep(k)
    <3>1. CASE Deep(k)
      BY <1>0, <2>1, <3>1, DeepMoves, NotifyPlace DEF Passing
    <3>2. CASE Release(k)
      BY <1>0, <2>1, <3>2 DEF Release, Go, Passing, Tasks
    <3>3. CASE RecordReleased(k)
      BY <1>0, <2>1, <3>3, NotifyPlace DEF RecordReleased, Go, Passing, Tasks
    <3> QED
      BY <2>3, <3>1, <3>2, <3>3 DEF DeepStep
  <2>4. CASE EffectStep(k)
    <3>1. CASE Delete(k) \/ Repost(k) \/ RecordReposted(k) \/ Notice(k) \/ RecordNotified(k) \/ Audit(k)
      <4>1. CASE Delete(k)
        BY <1>0, <2>1, <4>1 DEF Delete, CatchRefusal, Passing, Tasks
      <4>2. CASE Repost(k) \/ RecordReposted(k)
        BY <1>0, <2>1, <4>2 DEF Repost, RecordReposted, Go, Passing, Tasks
      <4>3. CASE Notice(k) \/ RecordNotified(k)
        BY <1>0, <2>1, <4>3 DEF Notice, RecordNotified, CatchRefusal, Go, Passing, Tasks
      <4>4. CASE Audit(k)
        BY <1>0, <2>1, <4>4 DEF Audit, Go, Passing, Tasks
      <4> QED
        BY <3>1, <4>1, <4>2, <4>3, <4>4
    <3>2. CASE RecordDeleted(k) \/ FallBackToWarn(k)
      <4>1. task'[k].at = Notify(task[k].act, "deleted") \/ task'[k].at = Notify("warn", stage[k])
        BY <1>0, <3>2 DEF RecordDeleted, FallBackToWarn, Go, Tasks
      <4> QED
        BY <2>1, <4>1, NotifyPlace DEF Passing
    <3> QED
      BY <2>4, <3>1, <3>2 DEF EffectStep
  <2> QED
    BY <1>2, <2>2, <2>3, <2>4
<1> QED
  BY <1>1, <1>2 DEF WorkerNext, ThreadStep, Rest

\* The rules miss a part of a finding for a reason: what came before is in the window, once it
\* is judged.
LEMMA MissedForAReason ==
  ASSUME PlainSplits, Followed, [WorkerNext]_vars, crashes' = 0, NEW e \in Events, Split[e] # {},
         Triage(<<TRIAGE, e>>), task'[<<TRIAGE, e>>].at = "lookup"
  PROVE  \E f \in Split[e] : MayMiss(f, e)
<1> USE FollowedFacts, JobsAreKeys
<1> DEFINE k == <<TRIAGE, e>>
           earlier == Others(window[Author[e]], e)
<1>0. /\ k \in Keys /\ EventOf(k) = e /\ k[1] = TRIAGE /\ TRIAGE # DEEP
      /\ task[k] \in Tasks /\ task \in [Keys -> Tasks] /\ task[k].at = "decide"
  BY DEF EventOf, TRIAGE, DEEP, StateTypeOK, TaskTypeOK, Triage
<1>1. RulesSay(e, earlier).act = "none"
  <2>1. SUFFICES ASSUME RulesSay(e, earlier).act # "none" PROVE FALSE
    OBVIOUS
  <2> DEFINE said == RulesSay(e, earlier)
             todo == IF said.related = {} THEN {MsgOf[e]} ELSE said.related
  <2>2. Removal(k, said, todo)
    BY <1>0, <2>1 DEF Triage
  <2> HIDE DEF said, todo
  <2>3. task'[k].at \in {"delete", Notify(said.act, stage[k])}
    BY <1>0, <2>2 DEF Removal, Tasks
  <2> QED
    BY <2>3, NotifyPlace
<1>2. ~(Split[e] \subseteq earlier)
  BY <1>1, EventAssumption DEF RulesSay, Removing
<1>3. PICK f \in Split[e] : f \notin earlier
  BY <1>2
<1>4. f \in Events /\ Author[f] = Author[e] /\ Unedited(f)
  BY <1>3, EventAssumption DEF PlainSplits
<1> DEFINE t == <<TRIAGE, f>>
           d == <<DEEP, f>>
<1>5. /\ t \in Keys /\ d \in Keys /\ EventOf(t) = f /\ t[1] = TRIAGE
      /\ id \in [Keys -> Nat] /\ status \in [Keys -> Statuses] /\ PassedOn(f)
  BY <1>4 DEF EventOf, IInv, TypeOK
<1>6. CASE MsgOf[f] = MsgOf[e]
  <2>1. e = f
    BY <1>4, <1>6 DEF Unedited
  <2>2. id[k] >= id[k]
    BY <1>0, <1>5
  <2> QED
    BY <1>3, <2>1, <2>2 DEF MayMiss, Later
<1>7. CASE MsgOf[f] # MsgOf[e]
  <2>1. f \notin Range(window[Author[f]])
    BY <1>3, <1>4, <1>7 DEF Others
  <2>2. SUFFICES ASSUME ~Gone(MsgOf[f]), ~Later(f, e) PROVE NeverJudged(f)
    BY <1>3 DEF MayMiss
  <2>3. status[d] = "absent"
    BY <1>4, <1>5, <2>1, <2>2 DEF PassedOn, Remembered
  <2>4. trail[f] = {}
    BY <1>5, <2>2, <2>3 DEF PassedOn
  <2>5. status[t] # "done"
    BY <1>4, <2>3, <2>4 DEF Followed, DecisionsTraced, DoneFor, InDeepLane
  <2>6. ~Open(t)
    <3>1. hand[k] = "handling"
      BY <1>0, JobInHand
    <3>2. Topic[t] = Topic[k] /\ Owner[t] = Owner[k]
      <4>1. /\ t[2] = f /\ k[2] = e /\ t[1] = TRIAGE /\ k[1] = TRIAGE
            /\ t \in Keys /\ k \in Keys /\ Author[f] = Author[e]
        BY <1>0, <1>4, <1>5
      <4>2. \A i \in Keys : /\ Topic[i] = i[1]
                            /\ i[1] = TRIAGE => Owner[i] = <<TRIAGE, Author[i[2]]>>
        BY KeyAssumption
      <4> HIDE DEF t, k
      <4> QED
        BY <4>1, <4>2
    <3>3. t # k
      BY <1>7
    <3>4. Open(t) => id[k] < id[t]
      BY <1>0, <1>5, <3>1, <3>2, <3>3, OrderFollows DEF OrderPerAuthor
    <3>5. id[k] < id[t] => id[t] >= id[k]
      BY <1>0, <1>5
    <3> QED
      BY <2>2, <3>4, <3>5 DEF Later
  <2>7. status[t] # "absent"
    BY <2>2 DEF Later
  <2> HIDE DEF t, d
  <2>8. status[t] = "dead"
    BY <1>5, <2>5, <2>6, <2>7 DEF Open, Statuses
  <2> QED
    BY <2>3, <2>4, <2>8 DEF NeverJudged, t, d
<1> QED
  BY <1>6, <1>7

\* Every step keeps a reason for each part that was missed.
LEMMA StepMissed ==
  ASSUME PlainSplits, Followed, [WorkerNext]_vars, crashes' = 0, NEW e \in Events, Split[e] # {},
         NotFound(e)'
  PROVE  \E f \in Split[e] : MayMiss(f, e)'
<1> USE FollowedFacts, JobsAreKeys
<1> DEFINE k == <<TRIAGE, e>>
           d == <<DEEP, e>>
<1>0. /\ k \in Keys /\ d \in Keys /\ EventOf(k) = e /\ EventOf(d) = e /\ d[1] = DEEP /\ TRIAGE # DEEP
      /\ Split[e] \subseteq Events /\ TypeOK
  BY EventAssumption DEF EventOf, TRIAGE, DEEP, IInv
<1>1. CASE NotFound(e)
  <2>1. PICK f \in Split[e] : MayMiss(f, e)
    BY <1>1
  <2>2. status[k] # "absent"
    <3>1. CASE task[k].at # "idle"
      BY <1>0, <3>1, JobInHand
    <3>2. CASE status[d] # "absent"
      BY <3>2 DEF PassedOn
    <3> QED
      BY <1>1, <3>1, <3>2 DEF NotFound
  <2> QED
    BY <1>0, <2>1, <2>2, MissStays
<1>2. CASE ~NotFound(e)
  <2>1. status'[d] = "absent"
    <3>1. SUFFICES ASSUME status'[d] # "absent" PROVE FALSE
      OBVIOUS
    <3>2. PICK i \in Keys : HandOff(i) /\ EventOf(i) = e
      BY <1>0, <1>2, <3>1, RowSteps DEF NotFound
    <3>3. task[i].at = "handoff"
      BY <3>2 DEF HandOff
    <3>4. i = k
      BY <3>2, <3>3, JobInHand
    <3> QED
      BY <1>2, <3>3, <3>4 DEF NotFound
  <2>2. task'[k].at \in Passing /\ task[k].at \notin Passing
    BY <1>2, <2>1 DEF NotFound, Passing
  <2>3. Triage(k)
    BY <1>0, <2>2, BeginsPassing
  <2>4. task'[k].at = "lookup"
    BY <1>0, <2>2, <2>3, TriageMoves, NotifyPlace DEF Passing
  <2>5. PICK f \in Split[e] : MayMiss(f, e)
    BY <2>3, <2>4, MissedForAReason
  <2>6. status[k] # "absent"
    BY <1>0, <2>3, JobInHand DEF Triage
  <2> QED
    BY <1>0, <2>5, <2>6, MissStays
<1> QED
  BY <1>1, <1>2

\* Every step of the worker keeps the reasons, until the process stops.
LEMMA StepFollowed ==
  ASSUME Audited \/ ~Steady, WindowTypeOK, DecisionsTraced, SplitInv, [WorkerNext]_vars
  PROVE  SplitInv'
<1> SUFFICES ASSUME PlainSplits, crashes' = 0
             PROVE  (/\ phase # "down" /\ RowsAtHome /\ WindowsApart
                     /\ \A e \in Events : PassedOn(e)
                     /\ \A e \in Events : NotFound(e) /\ Split[e] # {} =>
                                            \E f \in Split[e] : MayMiss(f, e))'
  BY DEF SplitInv, PlainSplits, SteadyVerdicts, WindowSuffices, Unedited, MsgsOf
<1>1. Followed
  BY DEF Followed, PlainSplits, Steady
<1>2. phase' # "down" /\ RowsAtHome'
  BY <1>1, FollowedFacts
<1>3. WindowsApart'
  BY <1>1, WindowsKeep
<1>4. \A e \in Events : PassedOn(e)'
  BY <1>1, StepPassedOn
<1>5. \A e \in Events : NotFound(e)' /\ Split[e] # {} => \E f \in Split[e] : MayMiss(f, e)'
  BY <1>1, StepMissed
<1> QED
  BY <1>2, <1>3, <1>4, <1>5

\* At first nothing is remembered, handed on or missed.
LEMMA InitFollowed == WorkerInit => SplitInv
<1> SUFFICES ASSUME WorkerInit PROVE SplitInv
  OBVIOUS
<1> USE JobsAreKeys DEF WorkerInit, Init
<1>1. RowsAtHome /\ phase # "down"
  BY DEF RowsAtHome
<1>2. WindowsApart
  BY DEF WindowsApart, EachOnce
<1>3. \A e \in Events : PassedOn(e)
  BY DEF PassedOn
<1>4. \A e \in Events : ~NotFound(e)
  BY DEF NotFound, Idle
<1> QED
  BY <1>1, <1>2, <1>3, <1>4 DEF SplitInv

\* Until the process stops, the rules miss a part of a finding for a reason only.
LEMMA AllFollowed == WorkerSpec => []SplitInv
<1>1. WorkerInit => SplitInv
  BY InitFollowed
<1>2. /\ Ready /\ MemoryWritten /\ WindowTypeOK /\ DecisionsTraced /\ AuditInv /\ SplitInv
      /\ [WorkerNext]_vars
      => SplitInv'
  <2>1. Ready /\ MemoryWritten /\ AuditInv => Audited \/ ~Steady
    BY DEF Audited, AuditInv, Steady
  <2> QED
    BY <2>1, StepFollowed
<1> QED
  BY <1>1, <1>2, AllReady, AllRemembered, AllTraced, AllAudited, PTL DEF WorkerSpec

\* Messages that complete a finding together, stored in their order, do not all stay visible once
\* all were judged: if the window holds all messages of an author, the parts are not edited, no
\* message is held, Slack refuses no deletion, and the verdicts of one message agree, in whatever
\* order lanes, failures and retries come, as long as the process was not stopped.
THEOREM SplitsAreRemoved ==
  ASSUME PlainSplits PROVE WorkerSpec => [](crashes = 0 => SplitIsRemoved)
<1>1. ASSUME IInv, StateTypeOK, SplitInv, crashes = 0 PROVE SplitIsRemoved
  <2>1. /\ \A e \in Events : PassedOn(e)
        /\ \A e \in Events : NotFound(e) /\ Split[e] # {} => \E f \in Split[e] : MayMiss(f, e)
    BY <1>1 DEF SplitInv
  <2>2. SUFFICES ASSUME NEW e \in Events, Split[e] # {},
                        \A f \in Split[e] \cup {e} : Judged(f),
                        \A f \in Split[e] : id[<<TRIAGE, f>>] < id[<<TRIAGE, e>>],
                        \A f \in Split[e] \cup {e} : Visible(f)
                 PROVE  FALSE
    BY DEF SplitIsRemoved
  <2>3. Split[e] \cup {e} \subseteq Events
    BY EventAssumption
  <2>4. \A f \in Split[e] \cup {e} : ~Gone(MsgOf[f]) /\ trail[f] # {}
    <3>1. \A f \in Events : posts[f].released = 0
      BY <2>1 DEF PassedOn
    <3> QED
      BY <2>2, <2>3, <3>1, EventAssumption DEF Visible, Judged, Gone
  <2>5. status[<<DEEP, e>>] # "absent"
    BY <2>1, <2>4 DEF PassedOn
  <2>6. PICK f \in Split[e] : MayMiss(f, e)
    BY <2>1, <2>2, <2>5 DEF NotFound
  <2>7. Later(f, e)
    BY <2>4, <2>6 DEF MayMiss, NeverJudged
  <2>8. status[<<TRIAGE, f>>] # "absent"
    BY <2>1, <2>3, <2>4 DEF PassedOn
  <2>9. id[<<TRIAGE, f>>] \in Nat /\ id[<<TRIAGE, e>>] \in Nat
    BY <1>1, <2>3, JobsAreKeys DEF IInv, TypeOK
  <2> QED
    BY <2>2, <2>7, <2>8, <2>9 DEF Later
<1> QED
  BY <1>1, AllFollowed, QueueInWorker, WorkerTypes, PTL

\* The conjunction that every step of the worker preserves.
THEOREM WorkerInvariance == WorkerSpec => []WorkerInv
<1>1. /\ WorkerTypeOK /\ Ready /\ WindowTypeOK /\ MemoryWritten
      /\ DecisionsTraced /\ RemovalsTold /\ AuditInv /\ AccountInv /\ RepeatsInv /\ SplitInv
      => WorkerInv
  BY DEF Ready, WorkerInv
<1> QED
  BY <1>1, AllReady, WorkerTypesAlways, AllRemembered, AllTraced, AllTold, AllAudited,
     AllAccounted, AllRepeats, AllFollowed, PTL
=============================================================================
