------------------------------ MODULE JobQueue ------------------------------
(***************************************************************************)
(* The durable job queue on SQLite (src/src/blackline/jobqueue.py) and the *)
(* lane threads that drain it (Worker.run_forever in                       *)
(* src/adapters/slack_worker.py, started and stopped by main() in          *)
(* src/adapters/slack_app.py).                                             *)
(*                                                                         *)
(* Every method of JobQueue holds one lock, and all but fail() make one    *)
(* statement that commits by itself (isolation_level=None), so each is one *)
(* action; a crash or an error between those of fail() is one more.  A     *)
(* row is a function value per column, indexed by its dedupe key.  Payload *)
(* texts are reduced to whether the row still has one; available_at is the *)
(* number of seconds left to wait; created_at, claimed_at and error are    *)
(* left out.                                                               *)
(***************************************************************************)
EXTENDS Integers, FiniteSets

CONSTANTS
  Keys,            \* dedupe keys of jobs
  Topics,          \* the lanes: triage and deep
  Topic,           \* Topic[k]: lane of job k
  Owner,           \* Owner[k]: its partition_key
  Hash,            \* Hash[o]: crc32 of a partition key
  Layouts,         \* the partition counts a deployment may start with
  Channels,        \* Slack channels
  Channel,         \* Channel[k]: channel of the event in job k
  Ts,              \* Ts[k]: its timestamp
  Stages,          \* names of side effects, with NoStage
  MaxAttempts,     \* MAX_ATTEMPTS
  MaxBackoff,      \* MAX_BACKOFF_S
  CursorMayFail,   \* may the write of a cursor raise?
  WritesMayFail,   \* may claim() and fail() raise too, which nothing catches?
  MaxCrashes       \* bound: how often the process stops

TRIAGE == "triage"
DEEP   == "deep"
NoStage == "none"     \* the default, written as the empty string in the source
Owners == {Owner[k] : k \in Keys}

ASSUME TopicAssumption == Topics = {TRIAGE, DEEP} /\ Topic \in [Keys -> Topics]
ASSUME HashAssumption == Hash \in [Owners -> Nat]
ASSUME LayoutAssumption == Layouts # {} /\ Layouts \subseteq [Topics -> Nat \ {0}]
ASSUME ChannelAssumption == Channel \in [Keys -> Channels] /\ Ts \in [Keys -> Nat]
ASSUME StageAssumption == NoStage \in Stages
ASSUME LimitAssumption == /\ MaxAttempts \in Nat \ {0}
                          /\ MaxBackoff \in Nat
                          /\ MaxCrashes \in Nat
                          /\ CursorMayFail \in BOOLEAN
                          /\ WritesMayFail \in BOOLEAN

VARIABLES
  status, partition, payload, stage, attempts, wait, id,  \* columns of table jobs
  lastId,          \* the highest id given out (see Put)
  cursor,          \* table cursors: last_ts per channel
  hand,            \* hand[k]: what the thread of k's lane has done with the job it claimed;
                   \* lost if it ended over that job
  phase,           \* of the process
  layout,          \* JobQueue.partitions of the running process
  crashes          \* how often the process stopped so far

rows == <<status, partition, payload, stage, attempts, wait, id, lastId>>
queueVars == <<rows, cursor, hand, phase, layout, crashes>>

Statuses == {"absent", "queued", "processing", "done", "dead"}

TypeOK ==
  /\ status \in [Keys -> Statuses]
  /\ partition \in [Keys -> Nat]
  /\ payload \in [Keys -> BOOLEAN]
  /\ stage \in [Keys -> Stages]
  /\ attempts \in [Keys -> Nat]
  /\ wait \in [Keys -> Nat]
  /\ id \in [Keys -> Nat]
  /\ lastId \in Nat
  /\ cursor \in [Channels -> Nat]
  /\ hand \in [Keys -> {"free", "handling", "finished", "lost"}]
  /\ phase \in {"starting", "up", "down"}
  /\ layout \in Layouts
  /\ crashes \in 0..MaxCrashes

Init ==
  /\ status = [k \in Keys |-> "absent"]
  /\ partition = [k \in Keys |-> 0]
  /\ payload = [k \in Keys |-> FALSE]
  /\ stage = [k \in Keys |-> NoStage]
  /\ attempts = [k \in Keys |-> 0]
  /\ wait = [k \in Keys |-> 0]
  /\ id = [k \in Keys |-> 0]
  /\ lastId = 0
  /\ cursor = [c \in Channels |-> 0]
  /\ hand = [k \in Keys |-> "free"]
  /\ phase = "starting"
  /\ layout \in Layouts
  /\ crashes = 0
-----------------------------------------------------------------------------
Open(k) == status[k] \in {"queued", "processing"}

\* partition_of: the lane's share of the hash of the partition key.
PartitionOf(k) == Hash[Owner[k]] % layout[Topic[k]]

SameLane(j, k) == Topic[j] = Topic[k] /\ partition[j] = partition[k]

\* min(MAX_BACKOFF_S, 2**attempts)
Backoff(n) == IF 2^n \in 0..MaxBackoff THEN 2^n ELSE MaxBackoff

\* INSERT OR IGNORE: a key that is stored already is left as it is, and the call
\* returns False.  SQLite gives a row the highest stored id plus one; as ids are only
\* compared between stored rows, counting on after a prune gives the same order.
Put(k) ==
  /\ phase \in {"starting", "up"}
  /\ status[k] = "absent"
  /\ status' = [status EXCEPT ![k] = "queued"]
  /\ partition' = [partition EXCEPT ![k] = PartitionOf(k)]
  /\ payload' = [payload EXCEPT ![k] = TRUE]
  /\ stage' = [stage EXCEPT ![k] = NoStage]
  /\ attempts' = [attempts EXCEPT ![k] = 0]
  /\ wait' = [wait EXCEPT ![k] = 0]
  /\ id' = [id EXCEPT ![k] = lastId + 1]
  /\ lastId' = lastId + 1
  /\ UNCHANGED <<cursor, hand, phase, layout, crashes>>

\* Has the job in hand used up its attempts?
ExhaustedLate(k) == attempts[k] > MaxAttempts
Exhausted(k) == attempts[k] >= MaxAttempts

\* payload = '{}'
KeepText(k) == payload
WipeText(k) == [payload EXCEPT ![k] = FALSE]

\* The newer of a stored and a finished timestamp, compared as numbers.
AnyTs(old, ts) == ts
LaterTs(old, ts) == IF ts > old THEN ts ELSE old

\* recover: what a restart makes of a row's status.
NotRecovered(s) == s
Recovered(s) == IF s = "processing" THEN "queued" ELSE s

\* prune: which rows may go once they are a day old.
PrunableAny(s) == TRUE
Prunable(s) == s = "done"

\* The oldest queued row of the lane, and no other: while it waits on its backoff the
\* rows behind it wait too.
LaneHeadReady(k) ==
  /\ status[k] = "queued"
  /\ \A j \in Keys : status[j] = "queued" /\ SameLane(j, k) /\ wait[j] = 0 => id[k] <= id[j]
LaneHead(k) ==
  /\ status[k] = "queued"
  /\ \A j \in Keys : status[j] = "queued" /\ SameLane(j, k) => id[k] <= id[j]

\* The thread of a lane claims its next job only after it let go of the last one.  The
\* process has a thread for each partition of its own layout, and for no other.
LaneShared(k) == partition[k] < layout[Topic[k]]
LaneIdle(k) ==
  /\ partition[k] < layout[Topic[k]]
  /\ \A j \in Keys : SameLane(j, k) => hand[j] = "free"

Claim(k) ==
  /\ phase = "up"
  /\ LaneIdle(k)
  /\ LaneHead(k)
  /\ wait[k] = 0
  /\ status' = [status EXCEPT ![k] = "processing"]
  /\ attempts' = [attempts EXCEPT ![k] = @ + 1]
  /\ hand' = [hand EXCEPT ![k] = "handling"]
  /\ UNCHANGED <<partition, payload, stage, wait, id, lastId, cursor, phase, layout, crashes>>

SetStage(k, s) ==
  /\ hand[k] = "handling"
  /\ payload[k]
  /\ stage' = [stage EXCEPT ![k] = s]
  /\ UNCHANGED <<status, partition, payload, attempts, wait, id, lastId,
                 cursor, hand, phase, layout, crashes>>

\* The handler returned.  It reads the event first, so it cannot return from a job
\* whose payload was wiped.  A triage job has its cursor still to be advanced.
Done(k) ==
  /\ hand[k] = "handling"
  /\ payload[k]
  /\ status' = [status EXCEPT ![k] = "done"]
  /\ payload' = WipeText(k)
  /\ hand' = [hand EXCEPT ![k] = IF Topic[k] = TRIAGE THEN "finished" ELSE "free"]
  /\ UNCHANGED <<partition, stage, attempts, wait, id, lastId, cursor, phase, layout, crashes>>

AdvanceCursor(k) ==
  /\ hand[k] = "finished"
  /\ cursor' = [cursor EXCEPT ![Channel[k]] = LaterTs(@, Ts[k])]
  /\ hand' = [hand EXCEPT ![k] = "free"]
  /\ UNCHANGED <<rows, phase, layout, crashes>>

\* The except branch of run_forever: the handler raised, or the write of the cursor did.
Fail(k) ==
  /\ hand[k] = "handling" \/ (hand[k] = "finished" /\ CursorMayFail)
  /\ status' = [status EXCEPT ![k] = IF Exhausted(k) THEN "dead" ELSE "queued"]
  /\ payload' = IF Exhausted(k) THEN WipeText(k) ELSE payload
  /\ wait' = [wait EXCEPT ![k] = Backoff(attempts[k])]
  /\ hand' = [hand EXCEPT ![k] = "free"]
  /\ UNCHANGED <<partition, stage, attempts, id, lastId, cursor, phase, layout, crashes>>

\* fail() marks a job dead and wipes its text in two statements; the process ends between
\* them.
CrashInFail(k) ==
  /\ hand[k] = "handling" \/ (hand[k] = "finished" /\ CursorMayFail)
  /\ Exhausted(k)
  /\ crashes < MaxCrashes
  /\ status' = [status EXCEPT ![k] = "dead"]
  /\ wait' = [wait EXCEPT ![k] = Backoff(attempts[k])]
  /\ hand' = [j \in Keys |-> "free"]
  /\ phase' = "down"
  /\ crashes' = crashes + 1
  /\ UNCHANGED <<partition, payload, stage, attempts, id, lastId, cursor, layout>>

\* claim() or fail() raises, out of run_forever: the thread of the lane ends, and no other takes
\* its place until the next start.  It leaves its job as it is, or the first statement of
\* fail() took effect and the second did not.  A thread that ends while it waits for a job is
\* one that ends when it finds the next.
EndThread(k) ==
  /\ WritesMayFail
  /\ \/ /\ phase = "up" /\ LaneIdle(k) /\ LaneHead(k) /\ wait[k] = 0
        /\ UNCHANGED <<status, wait>>
     \/ /\ hand[k] = "handling" \/ (hand[k] = "finished" /\ CursorMayFail)
        /\ UNCHANGED <<status, wait>>
     \/ /\ hand[k] = "handling" \/ (hand[k] = "finished" /\ CursorMayFail)
        /\ Exhausted(k)
        /\ status' = [status EXCEPT ![k] = "dead"]
        /\ wait' = [wait EXCEPT ![k] = Backoff(attempts[k])]
  /\ hand' = [hand EXCEPT ![k] = "lost"]
  /\ UNCHANGED <<partition, payload, stage, attempts, id, lastId, cursor, phase, layout, crashes>>

\* The process ends, with whatever its threads hold: killed, or after SIGTERM once the
\* 15 s that main() gives each thread are over.
Crash ==
  /\ phase # "down"
  /\ crashes < MaxCrashes
  /\ crashes' = crashes + 1
  /\ phase' = "down"
  /\ hand' = [k \in Keys |-> "free"]
  /\ UNCHANGED <<rows, cursor, layout>>

\* main() up to catch_up: recover, scrub_finished, prune.  expired is the set of rows
\* that were done more than a day ago; the layout is read from the environment.
Restart(expired, lay) ==
  /\ phase = "down"
  /\ phase' = "starting"
  /\ layout' = lay
  /\ status' = [k \in Keys |-> IF Prunable(status[k]) /\ k \in expired THEN "absent"
                               ELSE Recovered(status[k])]
  /\ payload' = [k \in Keys |-> payload[k] /\ status[k] \notin {"done", "dead"}]
  /\ UNCHANGED <<partition, stage, attempts, wait, id, lastId, cursor, hand, crashes>>

\* main() starts the threads once catch_up has returned.
StartThreads ==
  /\ phase = "starting"
  /\ phase' = "up"
  /\ UNCHANGED <<rows, cursor, hand, layout, crashes>>

\* A second passes for the jobs on backoff.
Tick ==
  /\ \E k \in Keys : status[k] = "queued" /\ wait[k] > 0
  /\ wait' = [k \in Keys |-> IF status[k] = "queued" /\ wait[k] > 0
                             THEN wait[k] - 1 ELSE wait[k]]
  /\ UNCHANGED <<status, partition, payload, stage, attempts, id, lastId,
                 cursor, hand, phase, layout, crashes>>
-----------------------------------------------------------------------------
Next ==
  \/ \E k \in Keys : Put(k)
  \/ \E k \in Keys : Claim(k)
  \/ \E k \in Keys, s \in Stages \ {NoStage} : SetStage(k, s)
  \/ \E k \in Keys : Done(k)
  \/ \E k \in Keys : AdvanceCursor(k)
  \/ \E k \in Keys : Fail(k)
  \/ \E k \in Keys : CrashInFail(k)
  \/ \E k \in Keys : EndThread(k)
  \/ Crash
  \/ \E expired \in SUBSET Keys, lay \in Layouts : Restart(expired, lay)
  \/ StartThreads
  \/ Tick

Spec == Init /\ [][Next]_queueVars

\* Each thread keeps claiming and its handler returns or raises; the supervisor
\* starts a process that ended again; time passes.
Fairness ==
  /\ \A k \in Keys : /\ WF_queueVars(Claim(k))
                     /\ WF_queueVars(Done(k) \/ Fail(k))
                     /\ WF_queueVars(AdvanceCursor(k) \/ Fail(k))
  /\ WF_queueVars(\E expired \in SUBSET Keys, lay \in Layouts : Restart(expired, lay))
  /\ WF_queueVars(StartThreads)
  /\ WF_queueVars(Tick)

FairSpec == Spec /\ Fairness
-----------------------------------------------------------------------------
\* Properties

\* jobqueue.py:4, README.md:91: jobs of one author in one channel are handled one at a
\* time and in the order they were stored, backoff, crashes and restarts included.  The
\* job a thread handles is older than every other unsettled job of the same partition key.
OrderPerAuthor ==
  \A j, k \in Keys :
    /\ j # k /\ Topic[j] = Topic[k] /\ Owner[j] = Owner[k]
    /\ hand[k] = "handling" /\ Open(j)
    => id[k] < id[j] /\ status[j] = "queued"

\* README.md:28 and the comment at jobqueue.py:173: the queue keeps the text of a message
\* exactly as long as its job is unsettled, so a retry always has it and a done or dead
\* job never does; what a crash or an error in the middle of fail() left behind is gone before
\* a restarted process does anything else.
TextLifetime == \A k \in Keys : status[k] # "absent" =>
                  /\ Open(k) => payload[k]
                  /\ payload[k] => Open(k) \/ phase = "down" \/ hand[k] = "lost"

\* Retries are bounded: beyond MaxAttempts there is at most one attempt for each time the
\* process stopped, since claim() counts an attempt and recover() does not look at it.
AttemptsExplained == \A k \in Keys : attempts[k] <= MaxAttempts + crashes

\* Threads of different authors finish out of order; the cursor of their channel, from
\* which catch_up decides what it missed, never moves back.
CursorNeverMovesBack == [][\A c \in Channels : cursor'[c] >= cursor[c]]_queueVars

\* README.md:88 "Nothing is lost": a job that was stored is done or dead in the end,
\* whatever crashes, failures and backoffs come between, or the thread of its lane ended.
Settled(k) == status[k] \in {"done", "dead"}
Stranded(k) == \E j \in Keys : SameLane(j, k) /\ hand[j] = "lost"
EveryJobSettles == \A k \in Keys : status[k] = "queued" ~> Settled(k) \/ Stranded(k)

\* The abstract specification that the queue implements.
Fate(k) == CASE status[k] = "absent" -> "unknown"
             [] status[k] = "queued" -> "accepted"
             [] status[k] = "processing" -> "active"
             [] OTHER -> "settled"

Intake == INSTANCE OrderedIntake WITH
            Jobs   <- Keys,
            Stream <- [k \in Keys |-> <<Topic[k], Owner[k]>>],
            fate   <- [k \in Keys |-> Fate(k)],
            rank   <- id,
            last   <- lastId

\* The queue as deployed, with threads, lanes, crashes and restarts, implements the
\* ordered intake: what a caller of put() and a handler observe is OrderedIntake.
ImplementsOrderedIntake == Intake!Spec
-----------------------------------------------------------------------------
\* Sentences of the documentation that the code keeps only with restrictions (README.md
\* says which): no run that passes checks them.

\* README.md:92 "A job retries with backoff up to 5 times, then is marked dead".
AttemptsBounded == \A k \in Keys : attempts[k] <= MaxAttempts

\* README.md:92 "Failures are visible": a job that cannot be handled is marked dead, and does
\* not wait in the queue for a thread that ended.
NothingIsStranded == \A k \in Keys : status[k] = "queued" ~> Settled(k)
-----------------------------------------------------------------------------
\* The inductive invariant behind OrderPerAuthor, AttemptsExplained and the refinement.

\* Stored rows have different ids, none above lastId.
RowIds == \A j, k \in Keys : status[j] # "absent" =>
            /\ id[j] <= lastId
            /\ status[k] # "absent" /\ j # k => id[j] # id[k]

\* What a thread holds agrees with the row; without a running thread nothing is held, and
\* as long as the process runs a row in processing is held by a thread, or was when it ended.
HandsAgree == \A k \in Keys :
                /\ hand[k] = "handling" => status[k] = "processing"
                /\ hand[k] = "finished" => status[k] = "done"
                /\ hand[k] = "lost" => status[k] # "absent"
                /\ hand[k] # "free" => phase = "up"
                /\ status[k] = "processing" /\ phase # "down" => hand[k] \in {"handling", "lost"}

\* One job per lane at a time, and it is older than the queued ones of the lane.
LanesInOrder == \A j, k \in Keys : j # k /\ SameLane(j, k) /\ hand[k] # "free" =>
                  /\ hand[j] = "free"
                  /\ hand[k] = "handling" /\ status[j] = "queued" => id[k] < id[j]

\* A row that may still be claimed has an attempt to spare, or a crash to account for it.
AttemptsToSpare == \A k \in Keys :
                     /\ attempts[k] <= MaxAttempts + crashes
                     /\ \/ status[k] = "queued"
                        \/ status[k] = "processing" /\ phase = "down"
                        => attempts[k] < MaxAttempts + crashes

\* The conjunction that every step of the queue preserves: rows have distinct ids, threads
\* and rows agree, lanes are in order, attempts are accounted for.
IInv == TypeOK /\ RowIds /\ HandsAgree /\ LanesInOrder /\ AttemptsToSpare

\* With one layout, a stored row is in the partition its key hashes to.
FixedLayout == \A l, m \in Layouts : l = m
RowsAtHome == \A k \in Keys : status[k] # "absent" => partition[k] = PartitionOf(k)
=============================================================================
