--------------------------- MODULE OrderedIntake ---------------------------
(***************************************************************************)
(* What the job queue promises its callers, without tables, lanes or       *)
(* partitions: a job that was accepted is worked on until it is settled,   *)
(* the jobs of one stream are begun in the order they were accepted, one   *)
(* at a time, and a job is only ever forgotten after it was settled.       *)
(* README.md:88-92 and the header of jobqueue.py state it in words.        *)
(***************************************************************************)
EXTENDS Naturals

CONSTANTS Jobs,        \* names of jobs (the dedupe keys)
          Stream       \* Stream[j]: the stream whose order j belongs to

VARIABLES fate,        \* fate[j]: what became of j
          rank,        \* rank[j]: its place in the order of acceptance
          last         \* the last place given out

vars == <<fate, rank, last>>

Fates == {"unknown", "accepted", "active", "settled"}

Open(j) == fate[j] \in {"accepted", "active"}

Init == /\ fate = [j \in Jobs |-> "unknown"]
        /\ rank = [j \in Jobs |-> 0]
        /\ last = 0

\* A job that is not known yet is stored behind all others.
Accept(j) == /\ fate[j] = "unknown"
             /\ fate' = [fate EXCEPT ![j] = "accepted"]
             /\ rank' = [rank EXCEPT ![j] = last + 1]
             /\ last' = last + 1

\* The oldest open job of a stream is begun; no other one of it is active.
Begin(j) == /\ fate[j] = "accepted"
            /\ \A i \in Jobs : i # j /\ Stream[i] = Stream[j] /\ Open(i)
                                 => fate[i] = "accepted" /\ rank[j] < rank[i]
            /\ fate' = [fate EXCEPT ![j] = "active"]
            /\ UNCHANGED <<rank, last>>

\* An attempt ended without a result: the job keeps its place.
Yield(j) == /\ fate[j] = "active"
            /\ fate' = [fate EXCEPT ![j] = "accepted"]
            /\ UNCHANGED <<rank, last>>

Settle(j) == /\ fate[j] = "active"
             /\ fate' = [fate EXCEPT ![j] = "settled"]
             /\ UNCHANGED <<rank, last>>

\* A restart: every active job yields, and some settled ones are forgotten.
Resume(F) == /\ \A j \in F : fate[j] = "settled"
             /\ fate' = [j \in Jobs |->
                           IF fate[j] = "active" THEN "accepted"
                           ELSE IF j \in F THEN "unknown" ELSE fate[j]]
             /\ UNCHANGED <<rank, last>>

Next == \/ \E j \in Jobs : Accept(j) \/ Begin(j) \/ Yield(j) \/ Settle(j)
        \/ \E F \in SUBSET Jobs : Resume(F)

Spec == Init /\ [][Next]_vars
=============================================================================
