--------------------------- MODULE JobQueueProofs ---------------------------
(***************************************************************************)
(* Theorems about the job queue for every set of jobs, hash, retry limit   *)
(* and number of crashes.                                                  *)
(***************************************************************************)
EXTENDS JobQueue, TLAPS

\* The one-line helpers of the actions are expanded everywhere.
USE DEF Exhausted, WipeText, LaterTs, Recovered, Prunable

(***************************************************************************)
(* The type invariant.                                                     *)
(***************************************************************************)

\* The partition of a job is a number.
LEMMA PartitionType ==
  ASSUME TypeOK, NEW k \in Keys
  PROVE  PartitionOf(k) \in Nat
<1>1. Hash[Owner[k]] \in Nat
  BY HashAssumption DEF Owners
<1>2. Topic[k] \in Topics
  BY TopicAssumption
<1>3. layout[Topic[k]] \in Nat \ {0}
  BY <1>2, LayoutAssumption DEF TypeOK
<1> QED
  BY <1>1, <1>3 DEF PartitionOf

\* The pause before another attempt is a number.
LEMMA BackoffType == ASSUME NEW n \in Nat PROVE Backoff(n) \in Nat
  BY LimitAssumption DEF Backoff

\* An empty database and empty queues are of their types.
LEMMA InitType == Init => TypeOK
  BY StageAssumption, LimitAssumption DEF Init, TypeOK, Statuses

\* Every step of the queue preserves the types of its state.
LEMMA NextType == TypeOK /\ [Next]_queueVars => TypeOK'
<1> SUFFICES ASSUME TypeOK, [Next]_queueVars PROVE TypeOK'
  OBVIOUS
<1> USE DEF Statuses
<1>1. ASSUME NEW k \in Keys, Put(k) PROVE TypeOK'
  BY <1>1, PartitionType, StageAssumption DEF TypeOK, Put
<1>2. ASSUME NEW k \in Keys, Claim(k) PROVE TypeOK'
  BY <1>2 DEF TypeOK, Claim
<1>3. ASSUME NEW k \in Keys, NEW s \in Stages, SetStage(k, s) PROVE TypeOK'
  BY <1>3 DEF TypeOK, SetStage
<1>4. ASSUME NEW k \in Keys, Done(k) PROVE TypeOK'
  BY <1>4 DEF TypeOK, Done
<1>5. ASSUME NEW k \in Keys, AdvanceCursor(k) PROVE TypeOK'
  BY <1>5, ChannelAssumption DEF TypeOK, AdvanceCursor, rows
<1>6. ASSUME NEW k \in Keys, Fail(k) PROVE TypeOK'
  <2>1. Backoff(attempts[k]) \in Nat
    BY BackoffType DEF TypeOK
  <2> QED
    BY <1>6, <2>1 DEF TypeOK, Fail
<1>7. CASE Crash
  BY <1>7, LimitAssumption DEF TypeOK, Crash, rows
<1>12. ASSUME NEW k \in Keys, CrashInFail(k) PROVE TypeOK'
  <2>1. Backoff(attempts[k]) \in Nat
    BY BackoffType DEF TypeOK
  <2> QED
    BY <1>12, <2>1, LimitAssumption DEF TypeOK, CrashInFail
<1>13. ASSUME NEW k \in Keys, EndThread(k) PROVE TypeOK'
  <2>1. Backoff(attempts[k]) \in Nat
    BY BackoffType DEF TypeOK
  <2> QED
    BY <1>13, <2>1 DEF TypeOK, EndThread
<1>8. ASSUME NEW expired \in SUBSET Keys, NEW lay \in Layouts, Restart(expired, lay)
      PROVE  TypeOK'
  BY <1>8 DEF TypeOK, Restart
<1>9. CASE StartThreads
  BY <1>9 DEF TypeOK, StartThreads, rows
<1>10. CASE Tick
  BY <1>10 DEF TypeOK, Tick
<1>11. CASE UNCHANGED queueVars
  BY <1>11 DEF TypeOK, queueVars, rows
<1> QED
  BY <1>1, <1>2, <1>3, <1>4, <1>5, <1>6, <1>7, <1>8, <1>9, <1>10, <1>11, <1>12, <1>13
     DEF Next

\* Every reachable state of the queue has the types of TypeOK.
THEOREM TypeCorrect == Spec => []TypeOK
  BY InitType, NextType, PTL DEF Spec

(***************************************************************************)
(* The inductive invariant: rows, threads and lanes.                       *)
(***************************************************************************)

\* Nobody holds a job when there is none.
LEMMA InitInv == Init => IInv
<1> SUFFICES ASSUME Init PROVE IInv
  OBVIOUS
<1>1. TypeOK
  BY InitType
<1>2. RowIds /\ HandsAgree /\ LanesInOrder
  BY DEF Init, RowIds, HandsAgree, LanesInOrder, SameLane
<1>3. AttemptsToSpare
  BY LimitAssumption DEF Init, AttemptsToSpare
<1> QED
  BY <1>1, <1>2, <1>3 DEF IInv

\* A new row goes behind all others: its id is larger, and no thread holds it.
LEMMA PutInv == ASSUME IInv, NEW k \in Keys, Put(k)
                PROVE  RowIds' /\ HandsAgree' /\ LanesInOrder' /\ AttemptsToSpare'
<1> USE DEF IInv, TypeOK
<1>1. RowIds'
  BY DEF RowIds, Put
<1>2. HandsAgree'
  BY DEF HandsAgree, Put
<1>3. LanesInOrder'
  BY DEF LanesInOrder, HandsAgree, RowIds, SameLane, Put
<1>4. AttemptsToSpare'
  BY LimitAssumption DEF AttemptsToSpare, Put
<1> QED
  BY <1>1, <1>2, <1>3, <1>4

\* The head of an idle lane is older than the queued rows behind it.
LEMMA ClaimInv == ASSUME IInv, NEW k \in Keys, Claim(k)
                  PROVE  RowIds' /\ HandsAgree' /\ LanesInOrder' /\ AttemptsToSpare'
<1> USE DEF IInv, TypeOK
<1>1. RowIds'
  BY DEF RowIds, Claim, LaneHead
<1>2. HandsAgree'
  BY DEF HandsAgree, Claim
<1>3. LanesInOrder'
  <2> SUFFICES ASSUME NEW i \in Keys, NEW j \in Keys, i # j, SameLane(i, j)',
                      hand'[j] # "free"
               PROVE  /\ hand'[i] = "free"
                      /\ hand'[j] = "handling" /\ status'[i] = "queued" => id'[j] < id'[i]
    BY DEF LanesInOrder
  <2>1. SameLane(i, j) /\ id' = id
    BY DEF SameLane, Claim
  <2>2. CASE j = k
    BY <2>1, <2>2 DEF Claim, LaneIdle, LaneHead, SameLane, RowIds
  <2>3. CASE j # k
    <3>1. hand[j] # "free"
      BY <2>3 DEF Claim
    <3>2. i # k
      BY <2>1, <3>1 DEF Claim, LaneIdle, SameLane
    <3> QED
      BY <2>1, <2>3, <3>1, <3>2 DEF Claim, LanesInOrder
  <2> QED
    BY <2>2, <2>3
<1>4. AttemptsToSpare'
  BY LimitAssumption DEF AttemptsToSpare, Claim, LaneHead
<1> QED
  BY <1>1, <1>2, <1>3, <1>4

\* set_stage writes a column that says nothing of who holds the job.
LEMMA SetStageInv == ASSUME IInv, NEW k \in Keys, NEW s \in Stages, SetStage(k, s)
                     PROVE  RowIds' /\ HandsAgree' /\ LanesInOrder' /\ AttemptsToSpare'
  BY DEF IInv, RowIds, HandsAgree, LanesInOrder, AttemptsToSpare, SameLane, SetStage

\* done() takes the job from the one thread that had it.
LEMMA DoneInv == ASSUME IInv, NEW k \in Keys, Done(k)
                 PROVE  RowIds' /\ HandsAgree' /\ LanesInOrder' /\ AttemptsToSpare'
<1> USE DEF IInv, TypeOK
<1>1. RowIds'
  BY DEF RowIds, HandsAgree, Done
<1>2. HandsAgree'
  BY DEF HandsAgree, Done
<1>3. LanesInOrder'
  BY DEF LanesInOrder, SameLane, Done
<1>4. AttemptsToSpare'
  BY DEF AttemptsToSpare, Done
<1> QED
  BY <1>1, <1>2, <1>3, <1>4

\* The cursor is written while the job is already out of the thread's hands.
LEMMA AdvanceCursorInv == ASSUME IInv, NEW k \in Keys, AdvanceCursor(k)
                          PROVE  RowIds' /\ HandsAgree' /\ LanesInOrder' /\ AttemptsToSpare'
<1> USE DEF IInv, TypeOK, rows
<1>1. RowIds' /\ AttemptsToSpare'
  BY DEF RowIds, AttemptsToSpare, AdvanceCursor
<1>2. HandsAgree'
  BY DEF HandsAgree, AdvanceCursor
<1>3. LanesInOrder'
  BY DEF LanesInOrder, SameLane, AdvanceCursor
<1> QED
  BY <1>1, <1>2, <1>3

\* A row that goes back to the queue was the only one its lane held.
LEMMA FailInv == ASSUME IInv, NEW k \in Keys, Fail(k)
                 PROVE  RowIds' /\ HandsAgree' /\ LanesInOrder' /\ AttemptsToSpare'
<1> USE DEF IInv, TypeOK
<1>1. RowIds'
  BY DEF RowIds, HandsAgree, Fail
<1>2. HandsAgree'
  BY DEF HandsAgree, Fail
<1>3. LanesInOrder'
  BY DEF LanesInOrder, SameLane, Fail
<1>4. AttemptsToSpare'
  BY LimitAssumption DEF AttemptsToSpare, HandsAgree, Fail
<1> QED
  BY <1>1, <1>2, <1>3, <1>4

\* The attempts of the jobs the process held are accounted for by the crash.
LEMMA CrashInv == ASSUME IInv, Crash
                  PROVE  RowIds' /\ HandsAgree' /\ LanesInOrder' /\ AttemptsToSpare'
<1> USE DEF IInv, TypeOK, rows
<1>1. RowIds'
  BY DEF RowIds, Crash
<1>2. HandsAgree' /\ LanesInOrder'
  BY DEF HandsAgree, LanesInOrder, Crash
<1>3. AttemptsToSpare'
  BY LimitAssumption DEF AttemptsToSpare, Crash
<1> QED
  BY <1>1, <1>2, <1>3

\* A crash inside fail() leaves what is on disk, and no thread.
LEMMA CrashInFailInv == ASSUME IInv, NEW k \in Keys, CrashInFail(k)
                        PROVE  RowIds' /\ HandsAgree' /\ LanesInOrder' /\ AttemptsToSpare'
<1> USE DEF IInv, TypeOK
<1>1. RowIds'
  BY DEF RowIds, HandsAgree, CrashInFail
<1>2. HandsAgree' /\ LanesInOrder'
  BY DEF HandsAgree, LanesInOrder, CrashInFail
<1>3. AttemptsToSpare'
  BY LimitAssumption DEF AttemptsToSpare, CrashInFail
<1> QED
  BY <1>1, <1>2, <1>3

\* The lane of a thread that ended has no job in hand but the one it ended over.
LEMMA EndThreadInv == ASSUME IInv, NEW k \in Keys, EndThread(k)
                      PROVE  RowIds' /\ HandsAgree' /\ LanesInOrder' /\ AttemptsToSpare'
<1> USE DEF IInv, TypeOK
<1>1. RowIds'
  BY DEF RowIds, HandsAgree, EndThread
<1>2. HandsAgree'
  BY DEF HandsAgree, LaneHead, EndThread
<1>3. LanesInOrder'
  <2> SUFFICES ASSUME NEW i \in Keys, NEW j \in Keys, i # j, SameLane(i, j)',
                      hand'[j] # "free"
               PROVE  /\ hand'[i] = "free"
                      /\ hand'[j] = "handling" /\ status'[i] = "queued" => id'[j] < id'[i]
    BY DEF LanesInOrder
  <2>1. SameLane(i, j) /\ id' = id /\ (status'[i] = "queued" => status[i] = "queued")
    BY DEF SameLane, EndThread
  <2>2. CASE j = k
    BY <2>1, <2>2 DEF EndThread, LaneIdle, SameLane, LanesInOrder
  <2>3. CASE j # k
    <3>1. hand[j] # "free" /\ hand'[j] = hand[j]
      BY <2>3 DEF EndThread
    <3>2. hand[i] = "free"
      BY <2>1, <3>1 DEF LanesInOrder
    <3>3. i # k
      BY <2>1, <3>1, <3>2 DEF EndThread, LaneIdle, SameLane
    <3> QED
      BY <2>1, <3>1, <3>2, <3>3 DEF EndThread, LanesInOrder
  <2> QED
    BY <2>2, <2>3
<1>4. AttemptsToSpare'
  BY DEF AttemptsToSpare, HandsAgree, EndThread
<1> QED
  BY <1>1, <1>2, <1>3, <1>4

\* A restart puts each row that is neither done nor dead into one queue.
LEMMA RestartInv == ASSUME IInv, NEW expired \in SUBSET Keys, NEW lay \in Layouts,
                           Restart(expired, lay)
                    PROVE  RowIds' /\ HandsAgree' /\ LanesInOrder' /\ AttemptsToSpare'
<1> USE DEF IInv, TypeOK
<1>1. RowIds'
  BY DEF RowIds, Restart
<1>2. HandsAgree' /\ LanesInOrder'
  BY DEF HandsAgree, LanesInOrder, Restart
<1>3. AttemptsToSpare'
  BY DEF AttemptsToSpare, Restart
<1> QED
  BY <1>1, <1>2, <1>3

\* Starting threads, the clock and stuttering move no job.
LEMMA OtherInv == ASSUME IInv, StartThreads \/ Tick \/ UNCHANGED queueVars
                  PROVE  RowIds' /\ HandsAgree' /\ LanesInOrder' /\ AttemptsToSpare'
<1> USE DEF IInv, rows, queueVars, StartThreads, Tick
<1>1. RowIds' /\ AttemptsToSpare'
  BY DEF RowIds, AttemptsToSpare
<1>2. HandsAgree'
  BY DEF HandsAgree
<1>3. LanesInOrder'
  BY DEF LanesInOrder, SameLane
<1> QED
  BY <1>1, <1>2, <1>3

\* One case per action of the queue.
LEMMA NextInv == IInv /\ [Next]_queueVars => IInv'
<1> SUFFICES ASSUME IInv, [Next]_queueVars PROVE IInv'
  OBVIOUS
<1>1. TypeOK'
  BY NextType DEF IInv
<1>2. RowIds' /\ HandsAgree' /\ LanesInOrder' /\ AttemptsToSpare'
  BY PutInv, ClaimInv, SetStageInv, DoneInv, AdvanceCursorInv, FailInv, CrashInv,
     CrashInFailInv, EndThreadInv, RestartInv, OtherInv DEF Next
<1> QED
  BY <1>1, <1>2 DEF IInv

\* The inductive invariant holds in every reachable state.
THEOREM Invariance == Spec => []IInv
  BY InitInv, NextInv, PTL DEF Spec

\* However often the process crashes in the middle of a job, a job is attempted at most
\* MAX_ATTEMPTS times plus once per crash.
THEOREM AttemptsAccounted == Spec => []AttemptsExplained
<1>1. IInv => AttemptsExplained
  BY DEF IInv, AttemptsToSpare, AttemptsExplained
<1> QED
  BY <1>1, Invariance, PTL

(***************************************************************************)
(* Order per author.  It needs every start of the process to use the same  *)
(* partition counts: FixedLayout.                                          *)
(***************************************************************************)

\* With one layout for good, every step leaves the rows in the partition of their owner.
LEMMA HomeInv == ASSUME FixedLayout
                 PROVE  /\ Init => RowsAtHome
                        /\ IInv /\ RowsAtHome /\ [Next]_queueVars => RowsAtHome'
<1>1. Init => RowsAtHome
  BY DEF Init, RowsAtHome
<1>2. ASSUME IInv, RowsAtHome, [Next]_queueVars PROVE RowsAtHome'
  <2>1. TypeOK /\ TypeOK'
    BY <1>2, NextType DEF IInv
  <2>2. layout' = layout
    BY <2>1 DEF TypeOK, FixedLayout
  <2>3. \A k \in Keys : PartitionOf(k)' = PartitionOf(k)
    BY <2>2 DEF PartitionOf
  <2>4. ASSUME NEW k \in Keys, status'[k] # "absent" PROVE partition'[k] = PartitionOf(k)
    <3>1. CASE \E j \in Keys : Put(j)
      BY <1>2, <2>1, <2>4, <3>1 DEF Put, RowsAtHome, TypeOK
    <3>2. CASE ~ \E j \in Keys : Put(j)
      <4>1. partition' = partition
        BY <1>2, <3>2 DEF Next, Claim, SetStage, Done, AdvanceCursor, Fail, CrashInFail,
                          EndThread, Crash, Restart, StartThreads, Tick, queueVars, rows
      <4>2. status[k] # "absent"
        BY <1>2, <2>1, <2>4, <3>2 DEF Next, Claim, LaneHead, SetStage, Done, AdvanceCursor,
              Fail, CrashInFail, EndThread, Crash, Restart, StartThreads, Tick, queueVars, rows,
              TypeOK, IInv, HandsAgree
      <4> QED
        BY <1>2, <4>1, <4>2 DEF RowsAtHome
    <3> QED
      BY <3>1, <3>2
  <2> QED
    BY <2>3, <2>4 DEF RowsAtHome
<1> QED
  BY <1>1, <1>2

\* Jobs of one partition key are in one lane, and the lane is in order.
LEMMA OrderFollows == IInv /\ RowsAtHome => OrderPerAuthor
<1> SUFFICES ASSUME IInv, RowsAtHome,
                    NEW j \in Keys, NEW k \in Keys,
                    j # k, Topic[j] = Topic[k], Owner[j] = Owner[k],
                    hand[k] = "handling", Open(j)
             PROVE  id[k] < id[j] /\ status[j] = "queued"
  BY DEF OrderPerAuthor
<1>1. status[k] = "processing" /\ phase = "up"
  BY DEF IInv, HandsAgree
<1>2. SameLane(j, k)
  BY <1>1 DEF RowsAtHome, PartitionOf, SameLane, Open
<1>3. hand[j] = "free"
  BY <1>2 DEF IInv, LanesInOrder
<1>4. status[j] = "queued"
  BY <1>1, <1>3 DEF IInv, HandsAgree, Open
<1> QED
  BY <1>2, <1>4 DEF IInv, LanesInOrder

\* With fixed partition counts, each author's jobs are handled one at a time and oldest
\* first, across any number of failures, backoffs, crashes and restarts.
THEOREM AuthorsInOrder == ASSUME FixedLayout PROVE Spec => []OrderPerAuthor
<1>1. Init => RowsAtHome
  BY HomeInv
<1>2. IInv /\ RowsAtHome /\ [Next]_queueVars => RowsAtHome'
  BY HomeInv
<1> QED
  BY <1>1, <1>2, Invariance, OrderFollows, PTL DEF Spec

(***************************************************************************)
(* Message text, and the cursors.                                          *)
(***************************************************************************)

\* When the cursor can be written, every step keeps the text of a message with its job.
LEMMA TextInv == ASSUME ~CursorMayFail
                 PROVE  IInv /\ TextLifetime /\ [Next]_queueVars => TextLifetime'
<1> SUFFICES ASSUME IInv, TextLifetime, [Next]_queueVars PROVE TextLifetime'
  OBVIOUS
<1> USE DEF IInv, TypeOK, TextLifetime, Open
<1>1. ASSUME NEW k \in Keys, Put(k) PROVE TextLifetime'
  BY <1>1 DEF Put
<1>2. ASSUME NEW k \in Keys, Claim(k) PROVE TextLifetime'
  BY <1>2 DEF Claim, LaneHead
<1>3. ASSUME NEW k \in Keys, Done(k) PROVE TextLifetime'
  BY <1>3 DEF Done
<1>4. ASSUME NEW k \in Keys, Fail(k) PROVE TextLifetime'
  <2>1. hand[k] = "handling" /\ status[k] = "processing"
    BY <1>4 DEF Fail, HandsAgree
  <2> QED
    BY <1>4, <2>1 DEF Fail
<1>5. ASSUME NEW expired \in SUBSET Keys, NEW lay \in Layouts, Restart(expired, lay)
      PROVE  TextLifetime'
  <2> SUFFICES ASSUME NEW k \in Keys, status'[k] # "absent"
               PROVE  /\ Open(k)' => payload'[k]
                      /\ payload'[k] => Open(k)'
    OBVIOUS
  <2>1. status'[k] = Recovered(status[k]) /\ status[k] # "absent"
    BY <1>5 DEF Restart
  <2>2. payload'[k] <=> payload[k] /\ status[k] \notin {"done", "dead"}
    BY <1>5 DEF Restart
  <2>3. status[k] \in {"queued", "processing", "done", "dead"}
    BY <2>1 DEF Statuses
  <2> QED
    BY <2>1, <2>2, <2>3
<1>6. ASSUME UNCHANGED <<status, payload>>, phase' = "down" \/ phase # "down",
             phase' = "down" \/ \A k \in Keys : hand[k] = "lost" => hand'[k] = "lost"
      PROVE  TextLifetime'
  BY <1>6
<1>7. ASSUME NEW k \in Keys, CrashInFail(k) PROVE TextLifetime'
  <2>1. hand[k] = "handling" /\ status[k] = "processing"
    BY <1>7 DEF CrashInFail, HandsAgree
  <2> QED
    BY <1>7, <2>1 DEF CrashInFail
<1>8. ASSUME NEW k \in Keys, EndThread(k) PROVE TextLifetime'
  BY <1>8 DEF EndThread, LaneHead
<1> QED
  BY <1>1, <1>2, <1>3, <1>4, <1>5, <1>6, <1>7, <1>8
     DEF Next, SetStage, AdvanceCursor, Crash, StartThreads, Tick, queueVars, rows

\* The queue holds the text of a message exactly while its job is unsettled (a crash or an error
\* between the statements of fail() aside, until the restart), as long as writing a cursor never
\* raises after the job was marked done.
THEOREM TextWiped == ASSUME ~CursorMayFail PROVE Spec => []TextLifetime
<1>1. Init => TextLifetime
  BY DEF Init, TextLifetime
<1>2. IInv /\ TextLifetime /\ [Next]_queueVars => TextLifetime'
  BY TextInv
<1> QED
  BY <1>1, <1>2, Invariance, PTL DEF Spec

\* No step moves a channel's cursor back.
THEOREM CursorsMonotone == Spec => CursorNeverMovesBack
<1>1. TypeOK /\ [Next]_queueVars => [\A c \in Channels : cursor'[c] >= cursor[c]]_queueVars
  <2> SUFFICES ASSUME TypeOK, Next PROVE \A c \in Channels : cursor'[c] >= cursor[c]
    OBVIOUS
  <2>1. ASSUME NEW k \in Keys, AdvanceCursor(k)
        PROVE  \A c \in Channels : cursor'[c] >= cursor[c]
    <3> SUFFICES ASSUME NEW c \in Channels PROVE cursor'[c] >= cursor[c]
      OBVIOUS
    <3>1. Ts[k] \in Nat /\ cursor[c] \in Nat /\ cursor \in [Channels -> Nat]
      BY ChannelAssumption DEF TypeOK
    <3>2. CASE c = Channel[k]
      <4>1. cursor'[c] = IF Ts[k] > cursor[c] THEN Ts[k] ELSE cursor[c]
        BY <2>1, <3>1, <3>2 DEF AdvanceCursor
      <4> QED
        BY <3>1, <4>1
    <3>3. CASE c # Channel[k]
      BY <2>1, <3>1, <3>3 DEF AdvanceCursor
    <3> QED
      BY <3>2, <3>3
  <2>2. CASE UNCHANGED cursor
    BY <2>2 DEF TypeOK
  <2> QED
    BY <2>1, <2>2 DEF Next, Put, Claim, SetStage, Done, Fail, CrashInFail, EndThread,
                        Crash, Restart, StartThreads, Tick
<1> QED
  BY <1>1, TypeCorrect, PTL DEF Spec, CursorNeverMovesBack

(***************************************************************************)
(* The queue implements OrderedIntake.                                     *)
(***************************************************************************)

\* An empty queue is an intake that nothing has entered.
LEMMA InitRefines == Init => Intake!Init
  BY DEF Init, Intake!Init, Fate

\* The oldest queued row of an idle lane is the oldest open job of its stream.
LEMMA ClaimRefines == ASSUME IInv, RowsAtHome, NEW k \in Keys, Claim(k)
                      PROVE  Intake!Begin(k)
<1> USE DEF IInv, TypeOK, Fate
<1>1. status[k] = "queued" /\ phase = "up"
  BY DEF Claim, LaneHead
<1>2. ASSUME NEW i \in Keys, i # k, Topic[i] = Topic[k], Owner[i] = Owner[k], Open(i)
      PROVE  status[i] = "queued" /\ id[k] < id[i]
  <2>1. SameLane(i, k)
    BY <1>1, <1>2 DEF RowsAtHome, PartitionOf, SameLane, Open
  <2>2. hand[i] = "free"
    BY <2>1 DEF Claim, LaneIdle, SameLane
  <2>3. status[i] = "queued"
    BY <1>1, <1>2, <2>2 DEF HandsAgree, Open
  <2>4. id[k] <= id[i] /\ id[k] # id[i]
    BY <1>1, <1>2, <2>1, <2>3 DEF Claim, LaneHead, RowIds
  <2> QED
    BY <2>3, <2>4
<1>3. [j \in Keys |-> Fate(j)]' = [[j \in Keys |-> Fate(j)] EXCEPT ![k] = "active"]
  BY DEF Claim
<1>4. ASSUME NEW i \in Keys, i # k, Topic[i] = Topic[k], Owner[i] = Owner[k],
             Fate(i) \in {"accepted", "active"}
      PROVE  Fate(i) = "accepted" /\ id[k] < id[i]
  <2>1. Open(i)
    BY <1>4 DEF Open
  <2> QED
    BY <1>2, <1>4, <2>1
<1> QED
  BY <1>1, <1>3, <1>4 DEF Claim, Intake!Begin, Intake!Open

\* A restart of the queue resumes the intake, which forgets the settled jobs whose rows expired.
LEMMA RestartRefines == ASSUME TypeOK, NEW expired \in SUBSET Keys, NEW lay \in Layouts,
                               Restart(expired, lay)
                        PROVE  \E F \in SUBSET Keys : Intake!Resume(F)
<1> DEFINE F == {k \in expired : status[k] = "done"}
<1>1. \A k \in F : [j \in Keys |-> Fate(j)][k] = "settled"
  BY DEF Fate
<1>2. ASSUME NEW k \in Keys
      PROVE  Fate(k)' = IF Fate(k) = "active" THEN "accepted"
                        ELSE IF k \in F THEN "unknown" ELSE Fate(k)
  BY DEF Restart, Fate, TypeOK, Statuses
<1>3. Intake!Resume(F)
  BY <1>1, <1>2 DEF Intake!Resume, Restart
<1> QED
  BY <1>3

\* Every step of the queue is a step of the intake or leaves it as it is.
LEMMA StepRefines == ASSUME ~CursorMayFail, IInv, RowsAtHome, [Next]_queueVars
                     PROVE  [Intake!Next]_(Intake!vars)
<1> USE DEF IInv, TypeOK, Fate
<1>1. ASSUME NEW k \in Keys, Put(k) PROVE Intake!Accept(k)
  BY <1>1 DEF Put, Intake!Accept
<1>2. ASSUME NEW k \in Keys, Claim(k) PROVE Intake!Begin(k)
  BY <1>2, ClaimRefines
<1>3. ASSUME NEW k \in Keys, Done(k) PROVE Intake!Settle(k)
  <2>1. status[k] = "processing"
    BY <1>3 DEF Done, HandsAgree
  <2> QED
    BY <1>3, <2>1 DEF Done, Intake!Settle
<1>4. ASSUME NEW k \in Keys, Fail(k) PROVE Intake!Yield(k) \/ Intake!Settle(k)
  <2>1. status[k] = "processing"
    BY <1>4 DEF Fail, HandsAgree
  <2>2. CASE attempts[k] >= MaxAttempts
    BY <1>4, <2>1, <2>2 DEF Fail, Intake!Settle
  <2>3. CASE ~(attempts[k] >= MaxAttempts)
    BY <1>4, <2>1, <2>3 DEF Fail, Intake!Yield
  <2> QED
    BY <2>2, <2>3
<1>5. ASSUME NEW expired \in SUBSET Keys, NEW lay \in Layouts, Restart(expired, lay)
      PROVE  \E F \in SUBSET Keys : Intake!Resume(F)
  BY <1>5, RestartRefines
<1>7. ASSUME NEW k \in Keys, CrashInFail(k) PROVE Intake!Settle(k)
  <2>1. status[k] = "processing"
    BY <1>7 DEF CrashInFail, HandsAgree
  <2> QED
    BY <1>7, <2>1 DEF CrashInFail, Intake!Settle
<1>8. ASSUME NEW k \in Keys, EndThread(k) PROVE Intake!Settle(k) \/ UNCHANGED Intake!vars
  <2>1. CASE UNCHANGED status
    BY <1>8, <2>1 DEF EndThread, Intake!vars
  <2>2. CASE ~UNCHANGED status
    <3>1. status[k] = "processing" /\ status' = [status EXCEPT ![k] = "dead"]
      BY <1>8, <2>2 DEF EndThread, HandsAgree
    <3> QED
      BY <1>8, <3>1 DEF EndThread, Intake!Settle
  <2> QED
    BY <2>1, <2>2
<1>6. ASSUME UNCHANGED <<status, id, lastId>> PROVE UNCHANGED Intake!vars
  BY <1>6 DEF Intake!vars
<1> QED
  BY <1>1, <1>2, <1>3, <1>4, <1>5, <1>6, <1>7, <1>8
     DEF Next, Intake!Next, SetStage, AdvanceCursor, Crash, StartThreads, Tick, queueVars, rows

\* With fixed partition counts, and if writing a cursor never raises, the queue implements
\* the ordered intake: in order per partition key, settled once, forgotten only when done.
THEOREM Refinement == ASSUME FixedLayout, ~CursorMayFail
                      PROVE  Spec => ImplementsOrderedIntake
<1>1. Init => RowsAtHome
  BY HomeInv
<1>2. IInv /\ RowsAtHome /\ [Next]_queueVars => RowsAtHome'
  BY HomeInv
<1>3. IInv /\ RowsAtHome /\ [Next]_queueVars => [Intake!Next]_(Intake!vars)
  BY StepRefines
<1> QED
  BY <1>1, <1>2, <1>3, InitRefines, Invariance, PTL
     DEF Spec, Intake!Spec, ImplementsOrderedIntake
=============================================================================
