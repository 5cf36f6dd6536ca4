---------------------------- MODULE PolicyReload ----------------------------
(***************************************************************************)
(* Hot reload of the policy file: policy() in src/src/blackline/pipeline.py *)
(* called by every triage and deep thread, without a lock.  A step is one  *)
(* read or write of a module global or of the file.  Versions of the file  *)
(* are numbered; each edit gives the file a new modification time, which   *)
(* is represented by the number of the version.                            *)
(***************************************************************************)
EXTENDS Naturals

CONSTANTS
  Threads,         \* threads that ask for the policy
  Valid,           \* numbers of the versions that Policy.load accepts
  Undecodable,     \* and of those that it cannot even read as text
  FileMayVanish,   \* may the file be missing for a moment, as while it is replaced?
  MaxVersion       \* bound: the last version that is written

ASSUME ReloadAssumption == /\ MaxVersion \in Nat \ {0} /\ FileMayVanish \in BOOLEAN
                           /\ Valid \subseteq Nat \ {0} /\ 1 \in Valid
                           /\ Undecodable \subseteq Nat \ Valid

VARIABLES
  file,            \* version of the file
  policy,          \* _policy: the version in force
  mtime,           \* _policy_mtime
  due,             \* is time.monotonic() - _policy_checked >= RELOAD_CHECK_S?
  at,              \* at[t]: where thread t is in policy()
  seen,            \* seen[t]: its local mtime
  fresh            \* fresh[t]: its local fresh, 0 when Policy.load raised

shared == <<file, policy, mtime, due>>
vars == <<shared, at, seen, fresh>>

TypeOK ==
  /\ file \in 1..MaxVersion
  /\ policy \in 1..MaxVersion
  /\ mtime \in 1..MaxVersion
  /\ due \in BOOLEAN
  /\ at \in [Threads -> {"out", "due", "stat", "load", "assign", "stamp"}]
  /\ seen \in [Threads -> 0..MaxVersion]
  /\ fresh \in [Threads -> 0..MaxVersion]

\* main() loads the policy before it starts a thread, and exits if it is invalid.
Init ==
  /\ file = 1 /\ policy = 1 /\ mtime = 1
  /\ due = FALSE
  /\ at = [t \in Threads |-> "out"]
  /\ seen = [t \in Threads |-> 0]
  /\ fresh = [t \in Threads |-> 0]

Go(t, place) == at' = [at EXCEPT ![t] = place]

\* Somebody writes the next version of the file.
Edit ==
  /\ file < MaxVersion
  /\ file' = file + 1
  /\ UNCHANGED <<policy, mtime, due, at, seen, fresh>>

\* RELOAD_CHECK_S have passed since the last check.
TimePasses ==
  /\ ~due
  /\ due' = TRUE
  /\ UNCHANGED <<file, policy, mtime, at, seen, fresh>>

\* A call that comes too early returns the policy in force: nothing changes.  A thread
\* that found the check due has not noted it yet: another one may find it due as well.
Check(t) ==
  /\ at[t] = "out" /\ due
  /\ Go(t, "due")
  /\ UNCHANGED <<shared, seen, fresh>>

NoteCheck(t) ==
  /\ at[t] = "due"
  /\ due' = FALSE
  /\ Go(t, "stat")
  /\ UNCHANGED <<file, policy, mtime, seen, fresh>>

\* path.stat(), and the comparison that decides whether to load; without a file, nothing
\* has changed.
Changed(m) == m # mtime
Stat(t) ==
  /\ at[t] = "stat"
  /\ \E m \in {file} \cup (IF FileMayVanish THEN {mtime} ELSE {}) :
       /\ seen' = [seen EXCEPT ![t] = m]
       /\ Go(t, IF Changed(m) THEN "load" ELSE "out")
  /\ UNCHANGED <<shared, fresh>>

\* Policy.load: the content may be newer than the modification time seen before.  A
\* version that cannot be read or does not validate raises PolicyError and is rejected.
LoadUnchecked(v) == v
Load(v) == IF v \in Valid THEN v ELSE 0
ReadFile(t) ==
  /\ at[t] = "load" /\ file \notin Undecodable
  /\ \E v \in {Load(file)} \cup (IF FileMayVanish THEN {0} ELSE {}) :
       /\ fresh' = [fresh EXCEPT ![t] = v]
       /\ Go(t, IF v = 0 THEN "stamp" ELSE "assign")
  /\ UNCHANGED <<shared, seen>>

\* A UnicodeDecodeError is no PolicyError: it leaves policy(), and nothing is noted, so that
\* the next call that finds a check due meets it again.
ReadGarbled(t) ==
  /\ at[t] = "load" /\ file \in Undecodable
  /\ Go(t, "out")
  /\ UNCHANGED <<shared, seen, fresh>>

Assign(t) ==
  /\ at[t] = "assign"
  /\ policy' = fresh[t]
  /\ Go(t, "stamp")
  /\ UNCHANGED <<file, mtime, due, seen, fresh>>

\* The modification time seen before the file was read is noted, for a rejected version too,
\* so that it is logged once.
LatestTime(t) == file
SeenTime(t) == seen[t]
Stamp(t) ==
  /\ at[t] = "stamp"
  /\ mtime' = SeenTime(t)
  /\ Go(t, "out")
  /\ UNCHANGED <<file, policy, due, seen, fresh>>

Step(t) == Check(t) \/ NoteCheck(t) \/ Stat(t) \/ ReadFile(t) \/ ReadGarbled(t)
           \/ Assign(t) \/ Stamp(t)

Next == Edit \/ TimePasses \/ \E t \in Threads : Step(t)

\* Messages keep coming, so that threads keep asking; time passes.
Fairness == WF_vars(TimePasses) /\ \A t \in Threads : WF_vars(Step(t))

Spec == Init /\ [][Next]_vars /\ Fairness
-----------------------------------------------------------------------------
\* README.md:140 "Edits to the policy file apply within 2 seconds": once the edits stop, and
\* if the last one is valid, it comes into force and stays in force.
EditsApply == <>[](file \in Valid => policy = file)

\* README.md:140 "An invalid edit is rejected and logged, and the previous policy stays":
\* whatever the threads do at once, the policy in force is a valid version, and one that
\* was written.
InForceIsValid == policy \in Valid /\ policy <= file

\* A thread that is about to bring a version into force holds a valid one that was written.
ReloadInv ==
  /\ TypeOK
  /\ InForceIsValid /\ mtime <= file
  /\ \A t \in Threads : /\ seen[t] <= file /\ fresh[t] <= file
                        /\ at[t] = "assign" => fresh[t] \in Valid
                        /\ at[t] \in {"load", "assign", "stamp"} => seen[t] # 0
=============================================================================
