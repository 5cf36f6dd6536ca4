---------------------------- MODULE PolicyDecide ----------------------------
(***************************************************************************)
(* Policy.decide and what it is built from (src/src/blackline/policy.py):  *)
(* which action a policy takes on the findings in a message.               *)
(*                                                                         *)
(* A policy is given as the channel of the message sees it, that is, with  *)
(* the overrides of that channel.  Confidences are numbers whose order     *)
(* alone matters; ids and messages of rules are left out.                  *)
(***************************************************************************)
EXTENDS Naturals, Sequences, FiniteSets, FiniteSetsExt, SequencesExt

\* ORDER, the most severe action first.
Rank == [quarantine |-> 1, block |-> 2, mask |-> 3, warn |-> 4, log |-> 5, allow |-> 6]
PolicyActions == DOMAIN Rank

AnySubject == "any"      \* a rule without a subject
Unset == 0               \* a rule without a min_confidence

RuleRecords == [entity : STRING, subject : STRING, min : Nat, guestsOnly : BOOLEAN,
                action : PolicyActions]
FindingRecords == [entity : STRING, subject : STRING, confidence : Nat]

\* The rules of the channel come before those of the workspace.
RulesOf(p) == p.overrides \o p.rules

Threshold(p, rule) == IF rule.min = Unset THEN p.threshold ELSE rule.min
Matches(p, rule, f, guests) ==
  /\ rule.entity = f.entity
  /\ rule.subject \in {AnySubject, f.subject}
  /\ f.confidence >= Threshold(p, rule)
  /\ rule.guestsOnly => guests

\* Data about oneself is allowed unless the policy says otherwise.
Exempt(p, f) == f.subject = "self" /\ p.selfAllowed

\* The first rule that matches a finding decides on it; NoAction when none does.
NoAction == "none"
Matching(p, f, guests) == {i \in DOMAIN RulesOf(p) : Matches(p, RulesOf(p)[i], f, guests)}
ActionOn(p, f, guests) ==
  IF Exempt(p, f) \/ Matching(p, f, guests) = {} THEN NoAction
  ELSE RulesOf(p)[Min(Matching(p, f, guests))].action

\* One turn of the loop over the findings: an action replaces the best one so far when it is
\* more severe.
TakeLatest(best, action) == IF action = NoAction THEN best ELSE action
TakeMoreSevere(best, action) ==
  IF action # NoAction /\ (best = NoAction \/ Rank[action] < Rank[best]) THEN action ELSE best

Decide(p, findings, guests) ==
  LET best == FoldLeft(LAMBDA b, f : TakeMoreSevere(b, ActionOn(p, f, guests)),
                       NoAction, findings)
  IN  IF best = NoAction THEN "allow" ELSE best
-----------------------------------------------------------------------------
\* fast_check of src/src/blackline/pipeline.py, the rules in the triage lane: a decision is
\* returned only when it removes the message.
Removing == {"mask", "block", "quarantine"}
NoDecision(d) == d = NoAction
NotRemoving(d) == d \notin Removing
FastCheck(p, in) ==
  LET alone  == IF in.found = <<>> THEN NoAction ELSE Decide(p, in.found, in.guests)
      across == IF NotRemoving(alone) /\ in.split # <<>>
                THEN Decide(p, in.split, in.guests) ELSE alone
  IN  IF across \in Removing THEN across ELSE NoAction
-----------------------------------------------------------------------------
\* What decide() is for: the most severe of the actions on single findings, whatever their
\* order; nothing that matches means allow.
MostSevere(actions) ==
  IF actions \ {NoAction} = {} THEN "allow"
  ELSE CHOOSE a \in actions \ {NoAction} : \A b \in actions \ {NoAction} : Rank[a] <= Rank[b]

ActionsOn(p, findings, guests) == {ActionOn(p, findings[i], guests) : i \in DOMAIN findings}
=============================================================================
