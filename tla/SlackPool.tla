------------------------------ MODULE SlackPool ------------------------------
(***************************************************************************)
(* KeepAliveSlack of src/adapters/slack_http.py: threads that make calls   *)
(* to Slack over a last-in-first-out pool of kept-alive connections, and   *)
(* the keep_warm thread that takes every idle connection to ping it.       *)
(*                                                                         *)
(* A slot of the pool holds a connection or, as None in the source, the    *)
(* right to open one.  Slack may close an open connection at any time,     *)
(* which shows at its next use.                                            *)
(***************************************************************************)
EXTENDS Naturals, Sequences, FiniteSets, SequencesExt

CONSTANTS
  Callers,         \* threads that make one call each
  Slots,           \* pool_size of them
  MaxFaults        \* bound: how many exchanges the network breaks

MaxTries == 3
NoSlot == "noSlot"

ASSUME PoolAssumption == /\ Slots # {} /\ IsFiniteSet(Slots) /\ NoSlot \notin Slots
                         /\ MaxFaults \in Nat

VARIABLES
  pool,            \* _pool, its top first
  conn,            \* conn[s]: the connection of slot s
  call,            \* call[c]: local state of api_call in thread c
  warmer,          \* local state of warm() in the keep_warm thread
  faults           \* how many exchanges were broken so far

vars == <<pool, conn, call, warmer, faults>>

Init ==
  /\ pool = SetToSeq(Slots)
  /\ conn = [s \in Slots |-> "none"]
  /\ call = [c \in Callers |-> [at |-> "get", slot |-> NoSlot, try |-> 1, effects |-> 0,
                                outcome |-> "none"]]
  /\ warmer = [at |-> "wait", taken |-> <<>>, pinged |-> 0]
  /\ faults = 0
-----------------------------------------------------------------------------
\* _pool.get() blocks while the pool is empty.
Get(c) ==
  /\ call[c].at = "get" /\ pool # <<>>
  /\ call' = [call EXCEPT ![c].at = "send", ![c].slot = Head(pool)]
  /\ pool' = Tail(pool)
  /\ UNCHANGED <<conn, warmer, faults>>

End(c, outcome) == [call[c] EXCEPT !.at = "put", !.outcome = outcome]
SameTry(n) == n
NextTry(n) == n + 1
Again(c) == [call[c] EXCEPT !.try = NextTry(@)]

\* Slack answers, with or without having done what was asked.
Answered(c) ==
  /\ call[c].at = "send" /\ conn[call[c].slot] # "stale"
  /\ conn' = [conn EXCEPT ![call[c].slot] = "open"]
  /\ \E outcome \in {"ok", "refused"} :
       call' = [call EXCEPT ![c] = [End(c, outcome) EXCEPT
                                      !.effects = IF outcome = "ok" THEN @ + 1 ELSE @]]
  /\ UNCHANGED <<pool, warmer, faults>>

\* An answer that is no JSON raises out of the loop.
Garbled(c) ==
  /\ call[c].at = "send" /\ conn[call[c].slot] # "stale" /\ faults < MaxFaults
  /\ conn' = [conn EXCEPT ![call[c].slot] = "open"]
  /\ \E done \in {0, 1} :
       call' = [call EXCEPT ![c] = [End(c, "raised") EXCEPT !.effects = @ + done]]
  /\ faults' = faults + 1
  /\ UNCHANGED <<pool, warmer>>

\* 429: after a pause the same request goes out again; the third time the answer stays
\* empty, which raises the SlackApiError of a refusal.
RateLimited(c) ==
  /\ call[c].at = "send" /\ conn[call[c].slot] # "stale"
  /\ conn' = [conn EXCEPT ![call[c].slot] = "open"]
  /\ call' = [call EXCEPT ![c] = IF call[c].try = MaxTries THEN End(c, "limited") ELSE Again(c)]
  /\ UNCHANGED <<pool, warmer, faults>>

\* The exchange breaks: Slack had closed the connection, or the network fails before or
\* after Slack did what was asked.  The connection is closed and the request sent again;
\* the third time the exception goes to the caller.
Broken(c) ==
  LET stale == conn[call[c].slot] = "stale"
  IN  /\ call[c].at = "send" /\ (stale \/ faults < MaxFaults)
      /\ conn' = [conn EXCEPT ![call[c].slot] = "none"]
      /\ \E done \in IF stale THEN {0} ELSE {0, 1} :
           call' = [call EXCEPT ![c] = [IF call[c].try = MaxTries THEN End(c, "raised")
                                        ELSE Again(c) EXCEPT !.effects = @ + done]]
      /\ faults' = IF stale THEN faults ELSE faults + 1
      /\ UNCHANGED <<pool, warmer>>

\* finally: the slot goes back whatever happened.
ReturnedUnlessRaised(c) == IF call[c].outcome = "raised" THEN pool ELSE <<call[c].slot>> \o pool
Returned(c) == <<call[c].slot>> \o pool
PutBack(c) ==
  /\ call[c].at = "put"
  /\ pool' = Returned(c)
  /\ call' = [call EXCEPT ![c].at = "end", ![c].slot = NoSlot]
  /\ UNCHANGED <<conn, warmer, faults>>
-----------------------------------------------------------------------------
\* keep_warm, every 20 s: warm() takes connections until the pool is empty ...
Wake ==
  /\ warmer.at = "wait"
  /\ warmer' = [warmer EXCEPT !.at = "take"]
  /\ UNCHANGED <<pool, conn, call, faults>>

Take ==
  /\ warmer.at = "take"
  /\ IF pool = <<>>
     THEN warmer' = [warmer EXCEPT !.at = "ping"] /\ UNCHANGED pool
     ELSE /\ warmer' = [warmer EXCEPT !.taken = Append(@, Head(pool))]
          /\ pool' = Tail(pool)
  /\ UNCHANGED <<conn, call, faults>>

\* ... pings one after the other, opening those that are not open ...
Ping ==
  /\ warmer.at = "ping" /\ warmer.pinged < Len(warmer.taken)
  /\ warmer' = [warmer EXCEPT !.pinged = @ + 1]
  /\ LET s == warmer.taken[warmer.pinged + 1]
     IN  \/ /\ conn[s] # "stale"
            /\ conn' = [conn EXCEPT ![s] = "open"] /\ UNCHANGED faults
         \/ /\ conn[s] = "stale" \/ faults < MaxFaults
            /\ conn' = [conn EXCEPT ![s] = "none"]
            /\ faults' = IF conn[s] = "stale" THEN faults ELSE faults + 1
  /\ UNCHANGED <<pool, call>>

\* ... and gives none back before it has pinged all.
GiveBack ==
  /\ warmer.at = "ping" /\ warmer.pinged = Len(warmer.taken)
  /\ IF warmer.taken = <<>>
     THEN warmer' = [warmer EXCEPT !.at = "wait"] /\ UNCHANGED pool
     ELSE /\ pool' = <<Head(warmer.taken)>> \o pool
          /\ warmer' = [warmer EXCEPT !.taken = Tail(@), !.pinged = @ - 1]
  /\ UNCHANGED <<conn, call, faults>>

\* Slack closes a connection that is not in use this moment (external).
ServerCloses(s) ==
  /\ conn[s] = "open"
  /\ conn' = [conn EXCEPT ![s] = "stale"]
  /\ UNCHANGED <<pool, call, warmer, faults>>

Exchange(c) == Answered(c) \/ Garbled(c) \/ RateLimited(c) \/ Broken(c)
Next ==
  \/ \E c \in Callers : Get(c) \/ Exchange(c) \/ PutBack(c)
  \/ Wake \/ Take \/ Ping \/ GiveBack
  \/ \E s \in Slots : ServerCloses(s)

Spec == Init /\ [][Next]_vars

\* Every exchange ends within its timeout of 10 s.  keep_warm pauses for 20 s between two
\* rounds, and a put() wakes a thread that waits in get(), so one that could have had a
\* connection again and again gets one: strong fairness.
Fairness ==
  /\ \A c \in Callers : SF_vars(Get(c)) /\ WF_vars(Exchange(c)) /\ WF_vars(PutBack(c))
  /\ WF_vars(Take) /\ WF_vars(Ping) /\ WF_vars(GiveBack)

FairSpec == Spec /\ Fairness
-----------------------------------------------------------------------------
\* slack_http.py:96-97,124-125: whatever calls, failures and pings overlap, every slot is at
\* each moment in exactly one place (the pool, a call, the warmer), so that no two threads
\* share a connection and the pool never runs dry for good.
Places(s) == {<<"pool", i>> : i \in {j \in 1..Len(pool) : pool[j] = s}}
               \cup {<<"warmer", i>> : i \in {j \in 1..Len(warmer.taken) : warmer.taken[j] = s}}
               \cup {<<"call", c>> : c \in {d \in Callers : call[d].slot = s}}
EachSlotInOnePlace == \A s \in Slots : \E p \in Places(s) : Places(s) = {p}

\* Every call ends, though the warmer takes all connections again and again, Slack limits
\* the rate, and connections break.
EveryCallEnds == \A c \in Callers : <>(call[c].at = "end")
-----------------------------------------------------------------------------
\* Sentences of the documentation that the code keeps only with restrictions (README.md
\* says which): no run that passes checks them.

\* README.md:90 "No double actions": a call has its effect in Slack at most once.
EffectOnce == \A c \in Callers : call[c].effects <= 1

\* slack_http.py:8-10 "the same SlackApiError on failure", from which slack_worker.py:265
\* and 251 conclude that nothing was deleted: a call that gives up with that error, because
\* Slack would not answer, had no effect.
LimitedMeansUndone == \A c \in Callers : call[c].outcome = "limited" => call[c].effects = 0
=============================================================================
