------------------------------ MODULE Pipeline ------------------------------
(***************************************************************************)
(* fast_check and run of src/src/blackline/pipeline.py: from what the      *)
(* detectors find in a message to one decision.  Several deep threads call *)
(* run() at once; they share the policy, which may be reloaded between any *)
(* two of their reads, and the executor of the model checks, whose threads *)
(* a check that hangs keeps occupied.                                      *)
(*                                                                         *)
(* What the rules find in a message and whether it completes a split       *)
(* number, and which model checks are worth asking, are an input; what a   *)
(* model check answers is a choice.                                        *)
(***************************************************************************)
EXTENDS PolicyDecide

CONSTANTS
  Runs,            \* calls of run(), each in a deep thread of its own
  Policies,        \* the versions of the policy, in the order they come into force
  Inputs,          \* messages: [found, split, gates, guests]
  Replies,         \* Replies[c]: findings that model check c may answer with
  Workers          \* max_workers of the executor

Checks == {"window", "encoded", "single"}

ASSUME PoliciesAssumption == /\ Len(Policies) \in Nat \ {0}
                             /\ DOMAIN Policies = 1..Len(Policies)
                             /\ \A v \in DOMAIN Policies :
                                  /\ Policies[v].trigger \in {"never", "on_uncertain", "always"}
                                  /\ {Policies[v].overrides, Policies[v].rules} \subseteq Seq(RuleRecords)
ASSUME InputsAssumption == \A i \in Inputs : /\ i.gates \subseteq Checks
                                            /\ {i.found, i.split} \subseteq Seq(FindingRecords)
ASSUME RepliesAssumption == \A c \in Checks : Replies[c] \subseteq Seq(FindingRecords)
ASSUME WorkersAssumption == Workers \in Nat \ {0}

VARIABLES
  version,         \* of the policy in force
  input,           \* input[r]: the message of run r
  at,              \* at[r]: where run r is
  decision,        \* decision[r] and findings[r]: its locals of these names
  findings,
  asked,           \* asked[r]: keys of its dict jobs
  job,             \* job[r][c]: state of the Future of check c
  reply,           \* reply[r][c]: its result
  tasks,           \* queue of the executor
  ruled, heard     \* for the properties: the decision by rules alone, and the checks whose
                   \* result was used

vars == <<version, input, at, decision, findings, asked, job, reply, tasks, ruled, heard>>

JobStates == {"none", "queued", "running", "answered", "failed"}

Init ==
  /\ version = 1
  /\ input \in [Runs -> Inputs]
  /\ at = [r \in Runs |-> "rules"]
  /\ decision = [r \in Runs |-> NoAction]
  /\ findings = [r \in Runs |-> <<>>]
  /\ asked = [r \in Runs |-> {}]
  /\ job = [r \in Runs |-> [c \in Checks |-> "none"]]
  /\ reply = [r \in Runs |-> [c \in Checks |-> <<>>]]
  /\ tasks = <<>>
  /\ ruled = [r \in Runs |-> NoAction]
  /\ heard = [r \in Runs |-> {}]
-----------------------------------------------------------------------------
policy == Policies[version]
Judge(r, fs) == Decide(policy, fs, input[r].guests)

\* decision is None or decision.action == "allow"
OpenUntilRemoved(d) == d \in {NoAction, "allow", "log", "warn"}
Open(d) == d \in {NoAction, "allow"}

\* 1. Rules on the message alone.
Rules(r) ==
  /\ at[r] = "rules"
  /\ findings' = [findings EXCEPT ![r] = input[r].found]
  /\ LET d == IF input[r].found = <<>> THEN NoAction ELSE Judge(r, input[r].found)
     IN  /\ decision' = [decision EXCEPT ![r] = d]
         /\ ruled' = [ruled EXCEPT ![r] = d]
         /\ at' = [at EXCEPT ![r] = IF Open(d) THEN "split" ELSE "conclude"]
  /\ UNCHANGED <<version, input, asked, job, reply, tasks, heard>>

\* 2. Rules across the author's recent messages.
Across(r) ==
  /\ at[r] = "split"
  /\ LET d == IF input[r].split = <<>> THEN decision[r] ELSE Judge(r, input[r].split)
     IN  /\ decision' = [decision EXCEPT ![r] = d]
         /\ at' = [at EXCEPT ![r] = IF Open(d) THEN "submit" ELSE "conclude"]
  /\ UNCHANGED <<version, input, findings, asked, job, reply, tasks, ruled, heard>>

\* 3. Model checks, all handed to the executor at once ...
Turn == [window |-> 1, encoded |-> 2, single |-> 3]      \* in which results are waited for
FirstWait(checks) ==
  IF checks = {} THEN "conclude" ELSE CHOOSE c \in checks : \A k \in checks : Turn[c] <= Turn[k]
Task(r, c, checks) == IF c \in checks THEN << <<r, c>> >> ELSE <<>>
Tasks(r, checks) == Task(r, "single", checks) \o Task(r, "window", checks)
                                              \o Task(r, "encoded", checks)
Submit(r) ==
  /\ at[r] = "submit"
  /\ LET worth == IF policy.trigger = "never" THEN {} ELSE input[r].gates
     IN  /\ asked' = [asked EXCEPT ![r] = worth]
         /\ job' = [job EXCEPT ![r] = [c \in Checks |-> IF c \in worth THEN "queued" ELSE "none"]]
         /\ tasks' = tasks \o Tasks(r, worth)
         /\ at' = [at EXCEPT ![r] = FirstWait(worth)]
  /\ UNCHANGED <<version, input, decision, findings, reply, ruled, heard>>

\* ... and waited for one after the other.  What follows from the hits of one of them:
DecideAnyway(d) == TRUE
DecideEncoded(d) == Open(d)
Outcome(r, c, hits) ==
  LET d == decision[r]
  IN  CASE c = "window"  -> IF hits = <<>> THEN d ELSE Judge(r, hits)
        [] c = "encoded" -> IF hits # <<>> /\ DecideEncoded(d) THEN Judge(r, hits) ELSE d
        [] OTHER         -> IF Open(d) THEN Judge(r, findings[r] \o hits) ELSE d

Continue(r, c, hits) ==
  /\ at' = [at EXCEPT ![r] = FirstWait({k \in asked[r] : Turn[k] > Turn[c]})]
  /\ decision' = [decision EXCEPT ![r] = Outcome(r, c, hits)]
  /\ findings' = IF c = "single" /\ Open(decision[r])
                 THEN [findings EXCEPT ![r] = @ \o hits] ELSE findings
  /\ UNCHANGED <<version, input, asked, job, reply, tasks, ruled>>

Hear(r, c) ==
  /\ at[r] = c /\ job[r][c] = "answered"
  /\ Continue(r, c, reply[r][c])
  /\ heard' = [heard EXCEPT ![r] = @ \cup {c}]

\* _safe: the check raised, or MODEL_TIMEOUT_S went by; it then has found nothing.  A check
\* that timed out is not cancelled.
OnlyRaised(state) == state = "failed"
NoResult(state) == state \in {"failed", "queued", "running"}
Miss(r, c) ==
  /\ at[r] = c /\ NoResult(job[r][c])
  /\ Continue(r, c, <<>>)
  /\ UNCHANGED heard

\* decision or decide(findings)
Conclude(r) ==
  /\ at[r] = "conclude"
  /\ at' = [at EXCEPT ![r] = "end"]
  /\ decision' = [decision EXCEPT ![r] = IF @ = NoAction THEN Judge(r, findings[r]) ELSE @]
  /\ UNCHANGED <<version, input, findings, asked, job, reply, tasks, ruled, heard>>

RunStep(r) == \/ Rules(r) \/ Across(r) \/ Submit(r) \/ Conclude(r)
              \/ \E c \in Checks : Hear(r, c) \/ Miss(r, c)
-----------------------------------------------------------------------------
\* The executor starts what is at the head of its queue when a thread is free (external).
Busy == {rc \in Runs \X Checks : job[rc[1]][rc[2]] = "running"}
StartJob ==
  /\ tasks # <<>> /\ Cardinality(Busy) < Workers
  /\ tasks' = Tail(tasks)
  /\ job' = [job EXCEPT ![Head(tasks)[1]][Head(tasks)[2]] = "running"]
  /\ UNCHANGED <<version, input, at, decision, findings, asked, reply, ruled, heard>>

\* A call to the model returns, or raises, or never does either (external).
FinishJob(r, c) ==
  /\ job[r][c] = "running"
  /\ \/ /\ reply' \in {[reply EXCEPT ![r][c] = hits] : hits \in Replies[c]}
        /\ job' = [job EXCEPT ![r][c] = "answered"]
     \/ job' = [job EXCEPT ![r][c] = "failed"] /\ UNCHANGED reply
  /\ UNCHANGED <<version, input, at, decision, findings, asked, tasks, ruled, heard>>

\* Some thread reloads the policy.
Reload ==
  /\ version < Len(Policies)
  /\ version' = version + 1
  /\ UNCHANGED <<input, at, decision, findings, asked, job, reply, tasks, ruled, heard>>

Next ==
  \/ \E r \in Runs : RunStep(r) \/ \E c \in Checks : FinishJob(r, c)
  \/ StartJob
  \/ Reload

\* Deep threads run, and time passes; nothing makes a call to the model return.
Spec == Init /\ [][Next]_vars /\ \A r \in Runs : WF_vars(RunStep(r))
-----------------------------------------------------------------------------
\* policy.py:134-158, README.md:49: whatever the findings of a message and their order, in
\* both lanes and with those of the model, each finding is decided by its first matching
\* rule and the message by the most severe of these.
DecideIsMostSevere ==
  \A r \in Runs : at[r] = "end" => \A fs \in {input[r].found, input[r].split, findings[r]} :
    Judge(r, fs) = MostSevere(ActionsOn(policy, fs, input[r].guests))

\* README.md:93: a message that the rules remove is deleted by the triage lane, before any
\* model call: what run() removes without asking the model, fast_check removes too.
RulesDeleteInTriage ==
  \A r \in Runs : /\ version = 1 /\ at[r] = "end" /\ asked[r] = {}
                  /\ decision[r] \in Removing
                  => FastCheck(policy, input[r]) = decision[r]

\* README.md:141 "On failure the rules still run": an outage, a late answer or a reload never
\* turns a decision of the rules on the message into another one.
RuleHit(r) == ruled[r] \notin {NoAction, "allow"}
RuleHitStands == \A r \in Runs : at[r] = "end" /\ RuleHit(r) => decision[r] = ruled[r]

\* A message is allowed only when no answer that came in time speaks against it: a check
\* that is heard later, or a policy that is read anew, does not undo an earlier hit.
Allows(r, fs) == \E v \in 1..version : Decide(Policies[v], fs, input[r].guests) = "allow"
AllowedForAReason ==
  \A r \in Runs : at[r] = "end" /\ decision[r] = "allow" =>
    \A fs \in {reply[r][c] : c \in heard[r]} \cup {input[r].found, input[r].split} :
      Allows(r, fs)

\* README.md:28 "Model checks fail open on a 15 s timeout": though every thread of the executor
\* hangs in a call to the model, each run comes to its decision.
EveryRunDecides == \A r \in Runs : <>(at[r] = "end")

\* The inductive invariant behind RuleHitStands and RulesDeleteInTriage.
PipelineTypeOK ==
  /\ version \in DOMAIN Policies
  /\ input \in [Runs -> Inputs]
  /\ at \in [Runs -> {"rules", "split", "submit", "conclude", "end"} \cup Checks]
  /\ decision = [r \in Runs |-> decision[r]]
  /\ findings \in [Runs -> Seq(FindingRecords)]
  /\ ruled = [r \in Runs |-> ruled[r]]
  /\ heard = [r \in Runs |-> heard[r]]
  /\ asked \in [Runs -> SUBSET Checks]
  /\ job \in [Runs -> [Checks -> JobStates]]
  /\ reply \in [Runs -> [Checks -> Seq(FindingRecords)]]

\* pipeline.py:150,160: once the rules have decided on the message no other check is run, and
\* no model check is submitted before both rule checks are through.
OrderInv ==
  /\ PipelineTypeOK
  /\ RuleHitStands
  /\ \A r \in Runs : at[r] \in {"rules", "split", "submit"} => asked[r] = {}
  /\ \A r \in Runs : RuleHit(r) => /\ at[r] \in {"conclude", "end"}
                                   /\ decision[r] = ruled[r] /\ asked[r] = {}

\* Under one policy run() goes through the rules as fast_check does: what it has decided before
\* it asks the model is what fast_check has, and with nothing decided nothing was found.
Alone(r) == IF input[r].found = <<>> THEN NoAction ELSE Judge(r, input[r].found)
LanesAgree(r) ==
  /\ at[r] = "split" => decision[r] = Alone(r)
  /\ at[r] \in {"split", "submit"} => Open(decision[r])
  /\ at[r] \in {"split", "submit", "conclude"} /\ asked[r] = {} /\ decision[r] = NoAction =>
       findings[r] = <<>>
  /\ at[r] \in {"conclude", "end"} /\ asked[r] = {} /\ decision[r] \in Removing =>
       FastCheck(policy, input[r]) = decision[r]
  /\ at[r] \in Checks => asked[r] # {}

\* What waits for a thread of the executor waits once, and was not started before.
TasksWait ==
  /\ tasks \in Seq(Runs \X Checks)
  /\ \A i \in DOMAIN tasks : job[tasks[i][1]][tasks[i][2]] = "queued"
  /\ IsInjective(tasks)

\* While a run has decided nothing that stands, nothing it has seen so far speaks against the
\* message; the answers it has heard are final.
NothingAgainst(r) ==
  /\ heard[r] \subseteq {c \in Checks : job[r][c] = "answered"}
  /\ at[r] \in {"rules", "split", "submit"} => \A c \in Checks : job[r][c] = "none"
  /\ at[r] \in {"split", "submit", "window"} => Open(decision[r])
  /\ Open(decision[r]) => /\ at[r] # "rules" => Allows(r, input[r].found)
                          /\ at[r] \notin {"rules", "split"} => Allows(r, input[r].split)
                          /\ \A c \in heard[r] : Allows(r, reply[r][c])

\* pipeline.py:110,150: the order of the checks, and the two lanes under one policy.
PipelineInv ==
  /\ OrderInv /\ TasksWait
  /\ version = 1 => \A r \in Runs : LanesAgree(r)
  /\ \A r \in Runs : NothingAgainst(r)
=============================================================================
