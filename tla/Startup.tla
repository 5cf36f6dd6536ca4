------------------------------- MODULE Startup -------------------------------
(***************************************************************************)
(* How the process comes to run, adapters/slack_app.py and secrets.py:     *)
(* tokens from the shell, from Secret Manager and from the .env file, the  *)
(* checks of what they are, and the first policy.  Then its threads reload *)
(* the policy (PolicyReload), whose file may be edited all the while.      *)
(***************************************************************************)
EXTENDS PolicyReload, PolicyFile

CONSTANTS
  Names,           \* SECRET_NAMES
  Prefixed,        \* those with a prefix that is checked, TOKEN_PREFIXES
  Settings,        \* what may be found: [shell, vault, dotenv, project, numbers]
  Findings         \* findings to try a policy on

ASSUME NamesAssumption == Prefixed \subseteq Names
\* What Secret Manager answers for a name is a value or a refusal, never nothing.
ASSUME SettingsAssumption == \A s \in Settings, n \in Names :
                               s.vault[n] \in {"vault", "empty", "denied"}
ASSUME DocumentsAssumption == /\ 1..MaxVersion = DOMAIN Documents
                              /\ \A v \in DOMAIN Documents : WellFormed(Documents[v])
                              /\ Valid = {v \in DOMAIN Documents : Accepted(Documents[v])}
                              /\ Undecodable = {v \in DOMAIN Documents : Undecoded(Documents[v])}

VARIABLES
  phase,           \* where main() is
  settings,        \* the world it starts in; no value is "unset", the empty string is "empty"
  env              \* os.environ

start == <<phase, settings, env>>
startVars == <<vars, start>>

\* Until the first policy is loaded there is none; version 1 stands in for it.
StartInit == /\ Init
             /\ phase = "secrets"
             /\ settings \in Settings
             /\ env = settings.shell
-----------------------------------------------------------------------------
Phase(p) == phase' = p /\ UNCHANGED settings

\* secrets.load: every name without a value is read from Secret Manager, if there is a project;
\* when any of them cannot be read, the process exits.
AllNames == Names
Missing == {n \in Names : env[n] \in {"unset", "empty"}}
LoadSecrets ==
  LET wanted == IF settings.project THEN Missing ELSE {}
  IN  /\ phase = "secrets"
      /\ IF \E n \in wanted : settings.vault[n] = "denied"
         THEN Phase("exited") /\ UNCHANGED env
         ELSE /\ Phase("dotenv")
              /\ env' = [n \in Names |-> IF n \in wanted THEN settings.vault[n] ELSE env[n]]
      /\ UNCHANGED vars

\* load_dotenv: the file sets what is not set at all.
LoadDotenv ==
  /\ phase = "dotenv" /\ Phase("check")
  /\ env' = [n \in Names |-> IF env[n] = "unset" THEN settings.dotenv[n] ELSE env[n]]
  /\ UNCHANGED vars

\* check_env: every token has its prefix, and what should be a number is one.
TokenSet(value) == value \notin {"unset", "empty"}
TokenOK(value) == value \in {"shell", "vault", "dotenv"}
CheckEnv ==
  /\ phase = "check"
  /\ Phase(IF settings.numbers /\ \A n \in Prefixed : TokenOK(env[n]) THEN "policy" ELSE "exited")
  /\ UNCHANGED <<vars, env>>

\* The first call of policy(): an error, caught or not, ends the process.  The file may be
\* edited after its time was read.
FirstStat ==
  /\ phase = "policy" /\ Phase("load")
  /\ mtime' = file
  /\ UNCHANGED <<file, policy, due, at, seen, fresh, env>>

FirstLoad ==
  /\ phase = "load"
  /\ IF Load(file) = 0 THEN Phase("exited") /\ UNCHANGED policy
     ELSE Phase("running") /\ policy' = file
  /\ UNCHANGED <<file, mtime, due, at, seen, fresh, env>>

\* main() up to there; then its threads run.  The file is edited at any time.
Main == LoadSecrets \/ LoadDotenv \/ CheckEnv \/ FirstStat \/ FirstLoad
Run(action) == phase = "running" /\ action /\ UNCHANGED start

StartNext ==
  \/ Main
  \/ Edit /\ UNCHANGED start
  \/ Run(TimePasses \/ \E t \in Threads : Step(t))

StartSpec ==
  /\ StartInit /\ [][StartNext]_startVars
  /\ WF_startVars(Main) /\ WF_startVars(Run(TimePasses))
  /\ \A t \in Threads : WF_startVars(Run(Step(t)))
-----------------------------------------------------------------------------
\* README.md:139 "refuses to start with missing or swapped tokens, or an invalid policy": a
\* process that runs has its tokens and its numbers, and a policy that was found valid.
RunsOnlyConfigured ==
  phase = "running" => /\ \A n \in Prefixed : env[n] \in {"shell", "vault", "dotenv"}
                       /\ settings.numbers /\ Accepted(Documents[policy])

\* secrets.py:8 "Precedence, highest first: a variable exported in the shell, then Secret
\* Manager, then the .env file": for every name, the first of them that has a value.  (.env does
\* not count for a name that is exported empty.)
ByPrecedence(n) ==
  LET shell == settings.shell[n]
  IN  IF TokenSet(shell) THEN shell
      ELSE IF settings.project THEN settings.vault[n]
      ELSE IF shell = "unset" THEN settings.dotenv[n] ELSE "empty"
PrecedenceKept == phase = "running" => \A n \in Names : env[n] = ByPrecedence(n)

\* README.md:139-140: whatever was edited before and after the start, the document in force
\* decides every finding as it is meant, if it is written plainly.
AcceptedMeansWhatItSays ==
  phase = "running" /\ PlainlyWritten(Documents[policy]) =>
    \A f \in Findings, guests \in BOOLEAN : DecidesAsMeant(Documents[policy], f, guests)

\* policy.py:26-28 allows null, and does not hold to numbers: as above for every document that
\* was accepted.  It does not hold.
AcceptedIsUnderstood ==
  phase = "running" =>
    \A f \in Findings, guests \in BOOLEAN : DecidesAsMeant(Documents[policy], f, guests)

\* README.md:140 "Edits to the policy file apply within 2 seconds": once the process runs and the
\* edits stop, the last one comes into force if it is valid, and stays.
EditsApplyOnceStarted == <>[](phase = "running" /\ file \in Valid => policy = file)
=============================================================================
