---------------------------- MODULE MCJobQueue ----------------------------
(***************************************************************************)
(* Small deployments of the job queue.  Authors a and b share a triage     *)
(* lane when there is one triage thread or when their hashes agree modulo  *)
(* the number of threads; d is the partition key of a deep job.            *)
(***************************************************************************)
EXTENDS JobQueue

CONSTANT JobNames      \* the jobs of this instance, out of a1, a2, b1 and d1

MCTopics == {"triage", "deep"}
MCTopic == [k \in JobNames |-> IF k = "d1" THEN "deep" ELSE "triage"]
MCOwner == [k \in JobNames |-> CASE k = "b1" -> "b" [] k = "d1" -> "d" [] OTHER -> "a"]
MCHash == [o \in {MCOwner[k] : k \in JobNames} |->
             CASE o = "a" -> 3 [] o = "b" -> 5 [] OTHER -> 0]
MCChannels == {"c"}
MCChannel == [k \in JobNames |-> "c"]
MCTs == [k \in JobNames |-> CASE k = "a1" -> 1 [] k = "a2" -> 3 [] OTHER -> 2]
MCStages == {"none", "deleted"}

\* two triage threads: a and b share the second one
SharedLane == {[t \in MCTopics |-> IF t = "triage" THEN 2 ELSE 1]}
\* WORKERS is lowered or raised between two starts of the process
ChangingLayout == {[t \in MCTopics |-> n] : n \in {1, 2}}
=============================================================================
