---------------------------- MODULE StartupProofs ----------------------------
(***************************************************************************)
(* Whatever the number of threads, versions and edits: an invalid policy   *)
(* never comes into force (PolicyReload).  Whatever the secrets, the       *)
(* settings and the edits before and after the start: a process that runs  *)
(* has its tokens and an accepted policy (Startup).                        *)
(***************************************************************************)
EXTENDS Startup, TLAPS

\* Every read and write that a thread makes in policy(), and every edit, keeps ReloadInv.
LEMMA NextReload == ReloadInv /\ [Next]_vars => ReloadInv'
<1> SUFFICES ASSUME ReloadInv, [Next]_vars PROVE ReloadInv'
  OBVIOUS
<1> USE ReloadAssumption DEF ReloadInv, TypeOK, InForceIsValid, shared, Go
<1>1. CASE Edit
  BY <1>1 DEF Edit
<1>2. CASE TimePasses
  BY <1>2 DEF TimePasses
<1>3. ASSUME NEW t \in Threads, Check(t) PROVE ReloadInv'
  BY <1>3 DEF Check
<1>4. ASSUME NEW t \in Threads, NoteCheck(t) PROVE ReloadInv'
  BY <1>4 DEF NoteCheck
<1>5. ASSUME NEW t \in Threads, Stat(t) PROVE ReloadInv'
  <2> PICK m \in {file, mtime} : /\ seen' = [seen EXCEPT ![t] = m]
                                  /\ at' = [at EXCEPT ![t] = IF Changed(m) THEN "load" ELSE "out"]
    BY <1>5 DEF Stat
  <2>1. m \in 1..MaxVersion /\ m <= file
    OBVIOUS
  <2> QED
    BY <1>5, <2>1 DEF Stat
<1>6. ASSUME NEW t \in Threads, ReadFile(t) PROVE ReloadInv'
  BY <1>6 DEF ReadFile, Load
<1>7. ASSUME NEW t \in Threads, Assign(t) PROVE ReloadInv'
  BY <1>7 DEF Assign
<1>8. ASSUME NEW t \in Threads, Stamp(t) PROVE ReloadInv'
  BY <1>8 DEF Stamp, SeenTime
<1>9. ASSUME NEW t \in Threads, ReadGarbled(t) PROVE ReloadInv'
  BY <1>9 DEF ReadGarbled
<1>10. CASE UNCHANGED vars
  BY <1>10 DEF vars
<1> QED
  BY <1>1, <1>2, <1>3, <1>4, <1>5, <1>6, <1>7, <1>8, <1>9, <1>10 DEF Next, Step

\* ReloadInv holds when the threads start.
LEMMA InitReload == Init => ReloadInv
<1> SUFFICES ASSUME Init PROVE ReloadInv
  OBVIOUS
<1>1. 1 \in 1..MaxVersion /\ 0 \in 0..MaxVersion
  BY ReloadAssumption
<1>2. TypeOK
  BY <1>1 DEF Init, TypeOK
<1>3. \A t \in Threads : seen[t] = 0 /\ fresh[t] = 0 /\ at[t] = "out"
  BY DEF Init
<1> QED
  BY <1>2, <1>3, ReloadAssumption DEF Init, ReloadInv, InForceIsValid

\* The invariant behind the validity of the policy holds in every reachable state of
\* policy(), for any number of threads, versions and edits.
THEOREM ReloadInvariance == Spec => []ReloadInv
  BY InitReload, NextReload, PTL DEF Spec

\* In every reachable state the policy in force is a valid version that was written,
\* however many threads reload it at once and whatever they read in between.
THEOREM ValidPolicyInForce == Spec => []InForceIsValid
<1>1. ReloadInv => InForceIsValid
  BY DEF ReloadInv
<1> QED
  BY <1>1, ReloadInvariance, PTL
-----------------------------------------------------------------------------
Phases == {"secrets", "dotenv", "check", "policy", "load", "running", "exited"}

\* What main() has established when it gets past its checks.
Configured == /\ \A n \in Prefixed : TokenOK(env[n])
              /\ settings.numbers
Checked ==
  /\ ReloadInv
  /\ phase \in Phases
  /\ phase \in {"policy", "load", "running"} => Configured

\* What the environment is made of after each of its sources.
Sourced ==
  /\ settings \in Settings
  /\ phase = "secrets" => env = settings.shell
  /\ phase = "dotenv" =>
       \A n \in Names : env[n] = IF settings.project /\ ~ TokenSet(settings.shell[n])
                                THEN settings.vault[n] ELSE settings.shell[n]
  /\ phase \in {"check", "policy", "load", "running"} =>
       \A n \in Names : env[n] = ByPrecedence(n)

StartInv == Checked /\ Sourced

\* Every step of main(), every edit and every step of a thread keeps what main() has checked.
LEMMA NextChecked == Checked /\ [StartNext]_startVars => Checked'
<1> SUFFICES ASSUME Checked, [StartNext]_startVars PROVE Checked'
  OBVIOUS
<1> USE DEF Checked, Phases, Phase, start
\* The steps of main() before it loads the policy leave the variables of policy() alone.
<1>1. ASSUME UNCHANGED vars PROVE ReloadInv'
  BY <1>1, NextReload
<1>2. CASE LoadSecrets
  BY <1>1, <1>2, Zenon DEF LoadSecrets
<1>3. CASE LoadDotenv
  BY <1>1, <1>3 DEF LoadDotenv
<1>4. CASE CheckEnv
  <2>1. ReloadInv'
    BY <1>1, <1>4 DEF CheckEnv, vars
  <2>2. /\ phase' = IF Configured THEN "policy" ELSE "exited"
        /\ UNCHANGED <<settings, env>>
    BY <1>4 DEF CheckEnv, Configured
  <2> QED
    BY <2>1, <2>2 DEF Configured
<1>5. CASE FirstStat
  <2>1. ReloadInv'
    BY <1>5 DEF FirstStat, ReloadInv, TypeOK, InForceIsValid
  <2> QED
    BY <2>1, <1>5 DEF FirstStat, Configured
<1>6. CASE FirstLoad
  <2>1. ReloadInv'
    BY <1>6, ReloadAssumption DEF FirstLoad, Load, ReloadInv, TypeOK, InForceIsValid
  <2> QED
    BY <2>1, <1>6 DEF FirstLoad, Configured
<1>7. ASSUME Edit \/ TimePasses \/ \E t \in Threads : Step(t), UNCHANGED start
      PROVE  Checked'
  <2>1. ReloadInv'
    BY <1>7, NextReload DEF Next
  <2> QED
    BY <2>1, <1>7 DEF Configured
<1>8. CASE UNCHANGED startVars
  BY <1>1, <1>8 DEF startVars, Configured
<1> QED
  BY <1>2, <1>3, <1>4, <1>5, <1>6, <1>7, <1>8 DEF StartNext, Main, Run

\* Every step keeps what the environment is made of: the steps of main() add a source each, in
\* the order of the precedence, and no other step writes to it.
LEMMA NextSourced == Sourced /\ [StartNext]_startVars => Sourced'
<1> SUFFICES ASSUME Sourced, [StartNext]_startVars PROVE Sourced'
  OBVIOUS
<1> USE DEF Sourced, Phase
<1>1. CASE LoadSecrets
  <2>1. CASE phase' = "exited"
    BY <1>1, <2>1 DEF LoadSecrets
  <2>2. CASE phase' # "exited"
    <3>1. /\ phase = "secrets" /\ phase' = "dotenv" /\ settings' = settings
          /\ env' = [n \in Names |-> IF n \in IF settings.project THEN Missing ELSE {}
                                    THEN settings.vault[n] ELSE env[n]]
      BY <1>1, <2>2, Zenon DEF LoadSecrets
    <3> QED
      BY <3>1 DEF Missing, TokenSet
  <2> QED
    BY <2>1, <2>2
<1>2. CASE LoadDotenv
  <2>1. /\ phase = "dotenv" /\ phase' = "check" /\ settings' = settings
        /\ env' = [n \in Names |-> IF env[n] = "unset" THEN settings.dotenv[n] ELSE env[n]]
    BY <1>2 DEF LoadDotenv
  <2>2. ASSUME NEW n \in Names PROVE env'[n] = ByPrecedence(n)
    BY <2>1, SettingsAssumption DEF ByPrecedence, TokenSet
  <2> QED
    BY <2>1, <2>2 DEF ByPrecedence
<1>3. CASE CheckEnv
  BY <1>3 DEF CheckEnv, ByPrecedence
<1>4. CASE FirstStat \/ FirstLoad
  BY <1>4 DEF FirstStat, FirstLoad, ByPrecedence
<1>5. CASE UNCHANGED start
  BY <1>5 DEF start, ByPrecedence
<1> QED
  BY <1>1, <1>2, <1>3, <1>4, <1>5 DEF StartNext, Main, Run, startVars

\* The strengthening of RunsOnlyConfigured, and with it the invariant of policy(), holds from the
\* start of the process on.
THEOREM StartInvariance == StartSpec => []StartInv
<1>1. StartInit => StartInv
  <2> SUFFICES ASSUME StartInit PROVE StartInv
    OBVIOUS
  <2>1. ReloadInv
    BY InitReload DEF StartInit
  <2> QED
    BY <2>1 DEF StartInit, StartInv, Checked, Sourced, Phases
<1>2. StartInv /\ [StartNext]_startVars => StartInv'
  BY NextChecked, NextSourced DEF StartInv
<1> QED
  BY <1>1, <1>2, PTL DEF StartSpec

\* The invariant of policy() also holds when the first policy is loaded while somebody edits it.
THEOREM ReloadInvOnceStarted == StartSpec => []ReloadInv
<1>1. StartInv => ReloadInv
  BY DEF StartInv, Checked
<1> QED
  BY <1>1, StartInvariance, PTL

\* A process that runs has every token that is checked, its numbers, and a policy in force whose
\* document was accepted, for any number of threads, tokens, documents and edits.
THEOREM OnlyConfiguredRuns == StartSpec => []RunsOnlyConfigured
<1>1. StartInv => RunsOnlyConfigured
  BY DocumentsAssumption DEF StartInv, Checked, RunsOnlyConfigured, Configured, TokenOK, ReloadInv,
     InForceIsValid
<1> QED
  BY <1>1, StartInvariance, PTL

\* Whatever the shell, Secret Manager and the .env file hold, every variable of a process that
\* runs is the first of them that has a value.
THEOREM PrecedenceIsKept == StartSpec => []PrecedenceKept
<1>1. StartInv => PrecedenceKept
  BY DEF StartInv, Sourced, PrecedenceKept
<1> QED
  BY <1>1, StartInvariance, PTL

\* Of a document that is accepted and written plainly, decide() reads what is meant by it.
LEMMA ReadAsMeant ==
  ASSUME NEW doc, WellFormed(doc), Accepted(doc), PlainlyWritten(doc)
  PROVE  /\ Reading(doc) = Meaning(doc)
         /\ \A i \in DOMAIN doc.rules : Comparable(doc.rules[i])
<1>1. ASSUME NEW i \in DOMAIN doc.rules, NEW key \in Keys
      PROVE  doc.rules[i][key].form \in {"plain", "absent"}
  BY <1>1 DEF WellFormed, Forms, PlainlyWritten, Accepted, PolicySpec, RuleSpec, KnownKeys
<1>2. ASSUME NEW i \in DOMAIN doc.rules
      PROVE  AsRead(doc.rules[i]) = AsMeant(doc.rules[i]) /\ Comparable(doc.rules[i])
  <2> DEFINE r == doc.rules[i]
  <2>1. /\ r["subject"].form \in {"plain", "absent"} /\ r["min"].form \in {"plain", "absent"}
        /\ r["guests"].form \in {"plain", "absent"}
    BY <1>1, <1>2 DEF Keys
  <2>2. r.guests.form = "plain" => r.guests.value \in BOOLEAN
    BY <1>2 DEF WellFormed, HasValue
  <2>3. r.subject # Null
    BY <2>1 DEF Null
  <2> QED
    BY <2>1, <2>2, <2>3 DEF AsRead, AsMeant, Meant, HasValue, Comparable
<1> QED
  BY <1>2 DEF Reading, Meaning

\* Whatever is edited, before and after the start: a document in force that is written plainly
\* decides every finding as it is meant, and decide() never raises on it.
THEOREM PlainPolicyIsMeant == StartSpec => []AcceptedMeansWhatItSays
<1>1. RunsOnlyConfigured /\ ReloadInv => AcceptedMeansWhatItSays
  <2> SUFFICES ASSUME RunsOnlyConfigured, ReloadInv, phase = "running",
                      PlainlyWritten(Documents[policy]),
                      NEW f \in Findings, NEW guests \in BOOLEAN
               PROVE  DecidesAsMeant(Documents[policy], f, guests)
    BY DEF AcceptedMeansWhatItSays
  <2> DEFINE doc == Documents[policy]
  <2>1. WellFormed(doc) /\ Accepted(doc) /\ PlainlyWritten(doc)
    BY DocumentsAssumption DEF RunsOnlyConfigured, ReloadInv, TypeOK
  <2>2. /\ Reading(doc) = Meaning(doc)
        /\ \A i \in DOMAIN doc.rules : Comparable(doc.rules[i])
    BY <2>1, ReadAsMeant
  <2> HIDE DEF doc
  <2> QED
    BY <2>2 DEF DecidesAsMeant, DecideRaises, doc
<1> QED
  BY <1>1, ReloadInvOnceStarted, OnlyConfiguredRuns, PTL
=============================================================================
