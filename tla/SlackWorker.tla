---------------------------- MODULE SlackWorker ----------------------------
(***************************************************************************)
(* The two-lane pipeline of src/adapters/slack_worker.py on the job queue: *)
(* triage and deep handlers, the side effects they have in Slack, intake,  *)
(* and catch-up after a restart.                                           *)
(*                                                                         *)
(* A handler is a sequence of steps of the thread that claimed the job.  A *)
(* call to Slack, a commit to the database and the write of an audit line  *)
(* are steps of their own, so that a crash, an exception or a step of      *)
(* another thread can fall between any two of them.  What only touches     *)
(* memory of the process is part of the step before or after it.           *)
(*                                                                         *)
(* An event is one version of one message: the message as posted, or an    *)
(* edit of it.  What the detectors say of its text is a constant.          *)
(***************************************************************************)
EXTENDS JobQueue, Sequences, SequencesExt

CONSTANTS
  Events,          \* versions of messages
  MsgOf,           \* MsgOf[e]: the message that e is a version of
  Edits,           \* Edits[e]: the version that e replaces, e itself for a new message
  Author,          \* Author[e]: who wrote it
  Posted,          \* Posted[e]: timestamp of MsgOf[e]
  Rule,            \* Rule[e]: removing action of the rules on e alone, or "none"
  Split,           \* Split[e]: earlier versions that e completes to a finding, or {}
  Verdicts,        \* Verdicts[e]: what pipeline.run may decide, each a record of the
                   \* action and the earlier versions it relates e to
  HoldChannel,     \* does the policy hold the channel, by its name?
  WindowSize,      \* MAX_MESSAGES of the conversation window
  Faults,          \* ways a call may go wrong, see Answers
  MaxFaults,       \* bound: how many calls go wrong
  SlackDrops       \* does Slack give up an event while the process is not listening?

Msgs == {MsgOf[e] : e \in Events}
NotLive == "notLive"
Authors == {Author[e] : e \in Events}
Removing == {"mask", "block", "quarantine"}          \* pipeline.REMOVING
Actions == Removing \cup {"allow", "log", "warn"}
STAGES == <<NoStage, "held", "deleted", "released", "reposted", "notified">>

ASSUME KeyAssumption ==
  /\ Keys = {TRIAGE, DEEP} \X Events
  /\ \A k \in Keys : /\ Topic[k] = k[1]
                     /\ Owner[k] = IF k[1] = TRIAGE THEN <<TRIAGE, Author[k[2]]>> ELSE k
                     /\ Ts[k] = Posted[MsgOf[k[2]]]
  /\ Stages = Range(STAGES)
  /\ ~CursorMayFail
ASSUME EventAssumption ==
  /\ IsFiniteSet(Events) /\ NotLive \notin Events
  /\ \A e \in Events : Edits[e] \in Events /\ MsgOf[e] = MsgOf[Edits[e]]
                       /\ Author[e] = Author[Edits[e]]
  /\ \A e \in Events : Rule[e] \in Removing \cup {"none"}
  /\ \A e \in Events : Split[e] \subseteq {f \in Events : Author[f] = Author[e]}
  /\ \A e \in Events : \A v \in Verdicts[e] : v.act \in Actions /\ v.parts \subseteq Events
  /\ Posted \in [Msgs -> Nat]
ASSUME WindowAssumption == WindowSize \in Nat \ {0}
ASSUME FaultAssumption == Faults \subseteq {"refused", "failed", "lost"} /\ MaxFaults \in Nat

VARIABLES
  sent,            \* versions written in Slack so far
  live,            \* live[m]: the version of m that people see, or NotLive
  posts,           \* posts[e]: how many copies of e the bot posted, released and redacted
  notices,         \* notices[e]: how many private notices its author got
  inbox,           \* events that Slack will still deliver
  backlog,         \* history that catch_up has fetched and not yet gone through
  window,          \* ConversationWindow: per author, the recent versions
  name,            \* Worker._names of the channel
  carried,         \* carried[e]: window and held flag in the payload of e's deep job
  trail,           \* trail[e]: the audit lines about e
  task,            \* task[k]: the local state of the handler of job k
  faults           \* how many calls went wrong so far

slack  == <<sent, live, posts, notices>>
intake == <<inbox, backlog>>
memory == <<window, name>>
files  == <<carried, trail>>
vars   == <<queueVars, slack, intake, memory, files, task, faults>>

EventOf(k) == k[2]
MsgAt(k) == MsgOf[k[2]]
CHANNEL == CHOOSE c \in Channels : TRUE

Idle == [at |-> "idle", act |-> "none", related |-> {}, todo |-> {}, ok |-> TRUE,
         hold |-> FALSE, asks |-> FALSE, earlier |-> {}]

Places == {"idle", "decide", "lookup", "hold", "held", "handoff", "delete", "release",
           "released", "post", "reposted", "notice", "notified", "audit", "return", "raised"}

Tasks == [at : Places, act : Actions \cup {"none"}, related : SUBSET Msgs, todo : SUBSET Msgs,
          ok : BOOLEAN, hold : BOOLEAN, asks : BOOLEAN, earlier : SUBSET Events]

TaskTypeOK == /\ task \in [Keys -> Tasks]
              /\ \A k \in Keys : task[k].at # "idle" <=> hand[k] = "handling"
WorldTypeOK ==
  /\ sent \subseteq Events /\ inbox \subseteq sent
  /\ live \in [Msgs -> Events \cup {NotLive}]
  /\ posts \in [Events -> [released : Nat, redacted : Nat]]
  /\ notices \in [Events -> Nat]
  /\ backlog \in Seq(Events)
  /\ name \in {"unknown", "known", "blank"}
  /\ carried \in [Events -> [chain : SUBSET Events, held : BOOLEAN]]
  /\ trail \in [Events -> SUBSET [act : Actions \cup {"none"}, msgs : SUBSET Msgs]]
  /\ faults \in 0..MaxFaults
WindowTypeOK == /\ window \in [Authors -> Seq(Events)]
                /\ \A a \in Authors : Len(window[a]) <= WindowSize
StateTypeOK == WorldTypeOK /\ TaskTypeOK
WorkerTypeOK == StateTypeOK /\ WindowTypeOK

WorkerInit ==
  /\ Init
  /\ sent = {} /\ inbox = {} /\ backlog = <<>>
  /\ live = [m \in Msgs |-> NotLive]
  /\ posts = [e \in Events |-> [released |-> 0, redacted |-> 0]]
  /\ notices = [e \in Events |-> 0]
  /\ window = [a \in Authors |-> <<>>]
  /\ name = "unknown"
  /\ carried = [e \in Events |-> [chain |-> {}, held |-> FALSE]]
  /\ trail = [e \in Events |-> {}]
  /\ task = [k \in Keys |-> Idle]
  /\ faults = 0
-----------------------------------------------------------------------------
\* Helpers

\* reached(job, stage): stages are compared by their place in STAGES.
AtLeast(s, t) == \E i, j \in 1..Len(STAGES) : STAGES[i] = s /\ STAGES[j] = t /\ i >= j
Reached(k, t) == AtLeast(stage[k], t)

\* How a call may end: as meant; refused by a SlackApiError without an effect; with
\* another exception before it had an effect; or with one after it, the answer being lost.
Answers == {"ok"} \cup (IF faults < MaxFaults THEN Faults ELSE {})
Count(a) == faults' = faults + (IF a = "ok" THEN 0 ELSE 1)
Effective(a) == a \in {"ok", "lost"}
Raises(a) == a \in {"failed", "lost"}

\* Where a handler goes on after a call of which it catches the SlackApiError only.
SwallowAll(a, place) == place
CatchRefusal(a, place) == IF Raises(a) THEN "raised" ELSE place

\* ConversationWindow: add replaces another version of the message in place and drops the
\* oldest beyond the size; forget drops messages wherever they are.
AddUnbounded(w, e) == IF \E i \in 1..Len(w) : MsgOf[w[i]] = MsgOf[e] THEN w ELSE Append(w, e)
Add(w, e) == LET at == {i \in 1..Len(w) : MsgOf[w[i]] = MsgOf[e]}
                 longer == Append(w, e)
             IN  IF at # {} THEN [i \in 1..Len(w) |-> IF i \in at THEN e ELSE w[i]]
                 ELSE IF Len(longer) > WindowSize THEN Tail(longer) ELSE longer
Others(w, e) == {f \in Events : MsgOf[f] # MsgOf[e] /\ f \in Range(w)}
InOrderOf(v, w) == \A i, j \in DOMAIN v : i < j =>
                     \E p, q \in DOMAIN w : p < q /\ w[p] = v[i] /\ w[q] = v[j]
Without(w, ms) == {v \in SetToSeqs({f \in Range(w) : MsgOf[f] \notin ms}) : InOrderOf(v, w)}
Forget(ms) == /\ window' \in [Authors -> UNION {Without(window[a], ms) : a \in Authors}]
              /\ \A a \in Authors : window'[a] \in Without(window[a], ms)

Oldest(ms) == CHOOSE m \in ms : \A n \in ms : Posted[m] <= Posted[n]
Targets(k) == IF task[k].related = {} THEN {MsgAt(k)} ELSE task[k].related
MsgsOf(es) == {MsgOf[f] : f \in es}

Go(k, place) == task' = [task EXCEPT ![k].at = place]

\* Where notify() goes on: to the redacted copy, to the private notice, or past both.
NotifyByLastStage(act, s) == IF act = "mask" /\ AtLeast(s, "deleted") /\ ~AtLeast(s, "notified")
                             THEN "post" ELSE IF ~AtLeast(s, "notified") THEN "notice" ELSE "audit"
NotifyOnceReposted(act, s) == IF act = "mask" /\ AtLeast(s, "deleted") /\ ~AtLeast(s, "reposted")
                              THEN "post" ELSE IF ~AtLeast(s, "reposted") THEN "notice" ELSE "audit"
Notify(act, s) == IF act = "mask" /\ AtLeast(s, "deleted") /\ ~AtLeast(s, "reposted")
                  THEN "post" ELSE IF ~AtLeast(s, "notified") THEN "notice" ELSE "audit"
SilentIfAllowed(act, s) == IF act \in {"allow", "log"} THEN "return" ELSE Notify(act, s)
NotifyUnlessAllowed(act, s) == IF act \in {"allow", "log"} THEN "audit" ELSE Notify(act, s)

HeldInDeep(k) == k[1] = DEEP /\ carried[k[2]].held
-----------------------------------------------------------------------------
\* Slack and its users (external)

\* A person posts a message, later than all before it, or edits one that is visible.
Write(e) ==
  /\ e \notin sent
  /\ IF Edits[e] = e
     THEN \A f \in sent : Posted[MsgOf[f]] < Posted[MsgOf[e]]
     ELSE live[MsgOf[e]] = Edits[e]
  /\ sent' = sent \cup {e}
  /\ live' = [live EXCEPT ![MsgOf[e]] = e]
  /\ inbox' = inbox \cup {e}
  /\ UNCHANGED <<queueVars, posts, notices, backlog, memory, files, task, faults>>

\* Slack gives up an event that it cannot deliver.
Drop(e) ==
  /\ SlackDrops /\ phase # "up" /\ e \in inbox
  /\ inbox' = inbox \ {e}
  /\ UNCHANGED <<queueVars, slack, backlog, memory, files, task, faults>>
-----------------------------------------------------------------------------
\* Intake

\* enqueue: INSERT OR IGNORE of the triage job.
Enqueue(e) == \/ Put(<<TRIAGE, e>>)
              \/ status[<<TRIAGE, e>>] # "absent" /\ UNCHANGED queueVars

\* on_message: stored before the acknowledgement, which may get lost.
Deliver(e) ==
  /\ phase = "up" /\ e \in inbox
  /\ Enqueue(e)
  /\ inbox' \in {inbox, inbox \ {e}}
  /\ UNCHANGED <<slack, backlog, memory, files, task, faults>>

\* Messages that people can see, oldest first, if the channel has a cursor.
Visibles == {live[m] : m \in Msgs} \ {NotLive}
OldestFirst(h) == \A i, j \in DOMAIN h : i < j => Posted[MsgOf[h[i]]] <= Posted[MsgOf[h[j]]]
History == IF cursor[CHANNEL] = 0 THEN {<<>>} ELSE {h \in SetToSeqs(Visibles) : OldestFirst(h)}

\* A start of the process up to the fetch of the history, which may be refused.
WorkerRestart(expired, lay) ==
  /\ Restart(expired, lay)
  /\ \E a \in Answers \ {"failed", "lost"} :
       Count(a) /\ backlog' \in IF a = "ok" THEN History ELSE {<<>>}
  /\ UNCHANGED <<slack, inbox, memory, files, task>>

\* catch_up, one message of the history at a time: newer than the cursor, it is queued,
\* else it is remembered as recent.
CatchUp ==
  /\ phase = "starting" /\ backlog # <<>>
  /\ LET e == Head(backlog)
     IN  IF Posted[MsgOf[e]] > cursor[CHANNEL]
         THEN Enqueue(e) /\ UNCHANGED window
         ELSE /\ window' = [window EXCEPT ![Author[e]] = Add(@, e)]
              /\ UNCHANGED queueVars
  /\ backlog' = Tail(backlog)
  /\ UNCHANGED <<slack, inbox, name, files, task, faults>>

WorkerStart ==
  /\ backlog = <<>>
  /\ StartThreads
  /\ UNCHANGED <<slack, intake, memory, files, task, faults>>

\* Memory of the process is gone; the database and the audit file stay.
WorkerCrash ==
  /\ Crash \/ \E k \in Keys : task[k].at = "raised" /\ CrashInFail(k)
  /\ window' = [a \in Authors |-> <<>>]
  /\ name' = "unknown"
  /\ backlog' = <<>>
  /\ task' = [k \in Keys |-> Idle]
  /\ UNCHANGED <<slack, inbox, files, faults>>

WorkerTick == Tick /\ UNCHANGED <<slack, intake, memory, files, task, faults>>
-----------------------------------------------------------------------------
\* run_forever

ClaimJob(k) ==
  /\ Claim(k)
  /\ task' = [task EXCEPT ![k] = [Idle EXCEPT !.at = "decide",
                                         !.asks = k[1] = DEEP /\ name = "unknown"]]
  /\ UNCHANGED <<slack, intake, memory, files, faults>>

\* The handler returned.
Return(k) ==
  /\ task[k].at = "return"
  /\ Done(k)
  /\ task' = [task EXCEPT ![k] = Idle]
  /\ UNCHANGED <<slack, intake, memory, files, faults>>

Advance(k) == AdvanceCursor(k) /\ UNCHANGED <<slack, intake, memory, files, task, faults>>

\* The handler raised.
Raise(k) ==
  /\ task[k].at = "raised"
  /\ Fail(k)
  /\ task' = [task EXCEPT ![k] = Idle]
  /\ UNCHANGED <<slack, intake, memory, files, faults>>

\* A write of the handler to the queue raises, or done() does.  What comes before it in the
\* same step was done: put() comes after the message is remembered as recent.
AtWrite(k) == \/ task[k].at \in {"held", "handoff", "released", "reposted", "notified", "return"}
              \/ task[k].at = "delete" /\ task[k].todo = {} /\ (task[k].ok \/ HeldInDeep(k))
WriteRaises(k) ==
  /\ WritesMayFail /\ AtWrite(k)
  /\ faults < MaxFaults /\ faults' = faults + 1
  /\ window' = IF task[k].at = "handoff"
               THEN [window EXCEPT ![Author[EventOf(k)]] = Add(@, EventOf(k))] ELSE window
  /\ Go(k, "raised")
  /\ UNCHANGED <<queueVars, slack, intake, name, files>>

\* claim() or fail() raises: the thread ends.
ThreadEnds(k) ==
  /\ EndThread(k)
  /\ task[k].at \in {"idle", "raised"}
  /\ faults < MaxFaults /\ faults' = faults + 1
  /\ task' = [task EXCEPT ![k] = Idle]
  /\ UNCHANGED <<slack, intake, memory, files>>
-----------------------------------------------------------------------------
\* Triage lane

\* fast_check: the rules on the message alone, then on the author's recent messages.
RulesSay(e, earlier) ==
  IF Rule[e] # "none" THEN [act |-> Rule[e], related |-> {}]
  ELSE IF Split[e] # {} /\ Split[e] \subseteq earlier
  THEN [act |-> "mask", related |-> MsgsOf(Split[e] \cup {e})]
  ELSE [act |-> "none", related |-> {}]

\* A decision to remove k's message (and those related to it) that remove() acts on: it
\* deletes, unless an earlier attempt got that far, and then forgets the messages.
Removal(k, said, todo) ==
  IF Reached(k, "deleted")
  THEN /\ Forget(IF said.related = {} THEN {MsgAt(k)} ELSE said.related)
       /\ task' = [task EXCEPT ![k].at = Notify(said.act, stage[k]), ![k].act = said.act,
                               ![k].related = said.related]
  ELSE /\ task' = [task EXCEPT ![k].at = "delete", ![k].act = said.act,
                               ![k].related = said.related, ![k].todo = todo]
       /\ UNCHANGED window

Triage(k) ==
  /\ k[1] = TRIAGE /\ task[k].at = "decide"
  /\ LET e == EventOf(k)
         earlier == Others(window[Author[e]], e)
         said == RulesSay(e, earlier)
     IN  IF said.act # "none"
         THEN Removal(k, said, IF said.related = {} THEN {MsgOf[e]} ELSE said.related)
         ELSE /\ task' = [task EXCEPT ![k].at = "lookup", ![k].asks = (name = "unknown"),
                                      ![k].earlier = earlier]
              /\ UNCHANGED window
  /\ UNCHANGED <<queueVars, slack, intake, name, files, faults>>

\* channel_name: a handler that found no name stored asks for it, whatever another one has
\* stored by then, and stores its own answer: "" for good when Slack refuses.
MayAsk(k, asks) == IF asks THEN name = "unknown" \/ task[k].asks ELSE name # "unknown"
LearnName(a, asks) == name' = IF ~ asks THEN name ELSE IF a = "ok" THEN "known" ELSE "blank"

\* The channel's policy block is found by name.
HoldNewOnly(k) == HoldChannel /\ name' = "known" /\ ~Reached(k, "held")
HoldWanted(k) == HoldChannel /\ name' = "known"

\* A message to hold is deleted first, unless an earlier attempt did it.
Lookup(k) ==
  /\ task[k].at = "lookup"
  /\ \E asks \in BOOLEAN : \E a \in IF asks THEN Answers ELSE {"ok"} :
       /\ MayAsk(k, asks) /\ Count(a)
       /\ IF Raises(a) THEN Go(k, "raised") /\ UNCHANGED name
          ELSE /\ LearnName(a, asks)
               /\ task' = [task EXCEPT ![k].hold = HoldWanted(k),
                                       ![k].at = IF HoldWanted(k) /\ ~Reached(k, "held")
                                                 THEN "hold" ELSE "handoff"]
  /\ UNCHANGED <<queueVars, slack, intake, window, files>>

\* chat_delete of one message: one that is gone already counts as deleted.
DeleteOne(m, a) == live' = IF Effective(a) THEN [live EXCEPT ![m] = NotLive] ELSE live

\* Without the right to delete, the message is checked like any other.
HoldAnyway(a) == TRUE
HoldAfter(a) == a = "ok"

DeleteToHold(k) ==
  /\ task[k].at = "hold"
  /\ \E a \in Answers :
       /\ Count(a)
       /\ DeleteOne(MsgAt(k), a)
       /\ task' = [task EXCEPT ![k].at = CASE a = "ok" -> "held"
                                           [] a = "refused" -> "handoff"
                                           [] OTHER -> "raised",
                               ![k].hold = HoldAfter(a)]
  /\ UNCHANGED <<queueVars, sent, posts, notices, intake, memory, files>>

RecordHeld(k) ==
  /\ task[k].at = "held"
  /\ SetStage(k, "held")
  /\ Go(k, "handoff")
  /\ UNCHANGED <<slack, intake, memory, files, faults>>

\* The message is remembered as recent and stored for the deep lane; a deep job that an
\* earlier attempt stored keeps its payload.
HandOff(k) ==
  /\ task[k].at = "handoff"
  /\ LET e == EventOf(k)
     IN  /\ window' = [window EXCEPT ![Author[e]] = Add(@, e)]
         /\ \/ /\ Put(<<DEEP, e>>)
               /\ carried' = [carried EXCEPT ![e] = [chain |-> task[k].earlier,
                                                     held |-> task[k].hold]]
            \/ /\ status[<<DEEP, e>>] # "absent"
               /\ UNCHANGED <<queueVars, carried>>
  /\ Go(k, "return")
  /\ UNCHANGED <<slack, intake, name, trail, faults>>
-----------------------------------------------------------------------------
\* Deep lane

\* A held message is gone already, so only the others of a removal are deleted; one that
\* passed is released; everything else is as in triage.  The handler first asks for the
\* name and the members of the channel, unless they are stored, and either may raise.
Deep(k) ==
  /\ k[1] = DEEP /\ task[k].at = "decide"
  /\ \E a \in Answers, asks \in BOOLEAN, v \in Verdicts[EventOf(k)] :
       /\ MayAsk(k, asks) /\ Count(a)
       /\ v.parts \subseteq carried[EventOf(k)].chain
       /\ IF Raises(a) THEN Go(k, "raised") /\ UNCHANGED memory
          ELSE /\ LearnName(a, asks)
               /\ LET e == EventOf(k)
                      held == carried[e].held
                      related == IF v.parts = {} THEN {} ELSE MsgsOf(v.parts \cup {e})
                      gone == IF held THEN {MsgOf[e]} ELSE {}
                      said == [act |-> v.act, related |-> related]
                      place == IF held /\ ~Reached(k, "released") THEN "release"
                               ELSE NotifyUnlessAllowed(v.act, stage[k])
                  IN  IF v.act \in Removing
                      THEN Removal(k, said, (IF related = {} THEN {MsgOf[e]} ELSE related)
                                            \ gone)
                      ELSE /\ task' = [task EXCEPT ![k].at = place, ![k].act = v.act,
                                                   ![k].related = related]
                           /\ UNCHANGED window
  /\ UNCHANGED <<queueVars, slack, intake, files>>

\* chat_postMessage under the author's name.
Release(k) ==
  /\ task[k].at = "release"
  /\ \E a \in Answers :
       /\ Count(a)
       /\ posts' = IF Effective(a) THEN [posts EXCEPT ![EventOf(k)].released = @ + 1] ELSE posts
       /\ Go(k, IF a = "ok" THEN "released" ELSE "raised")
  /\ UNCHANGED <<queueVars, sent, live, notices, intake, memory, files>>

RecordReleased(k) ==
  /\ task[k].at = "released"
  /\ SetStage(k, "released")
  /\ Go(k, NotifyUnlessAllowed(task[k].act, "released"))
  /\ UNCHANGED <<slack, intake, memory, files, faults>>
-----------------------------------------------------------------------------
\* Side effects of both lanes

\* What delete() makes of the answer to one of its calls.
TakenAsDeleted(a) == TRUE
Deleted(a) == a # "refused"

\* delete: the messages of a removal one by one, a refusal is noted and the rest tried.
Delete(k) ==
  /\ task[k].at = "delete" /\ task[k].todo # {}
  /\ LET m == Oldest(task[k].todo)
     IN  \E a \in Answers :
           /\ Count(a)
           /\ DeleteOne(m, a)
           /\ task' = [task EXCEPT ![k].todo = @ \ {m},
                                   ![k].ok = @ /\ Deleted(a),
                                   ![k].at = CatchRefusal(a, "delete")]
  /\ UNCHANGED <<queueVars, sent, posts, notices, intake, memory, files>>

\* All are gone, or the message was held and the rest is not looked at.
RecordDeleted(k) ==
  /\ task[k].at = "delete" /\ task[k].todo = {}
  /\ task[k].ok \/ HeldInDeep(k)
  /\ SetStage(k, "deleted")
  /\ Forget(Targets(k))
  /\ Go(k, Notify(task[k].act, "deleted"))
  /\ UNCHANGED <<slack, intake, name, files, faults>>

\* One could not be deleted: the author is warned instead.
FallBackToWarn(k) ==
  /\ task[k].at = "delete" /\ task[k].todo = {}
  /\ ~task[k].ok /\ ~HeldInDeep(k)
  /\ task' = [task EXCEPT ![k].act = "warn", ![k].at = Notify("warn", stage[k])]
  /\ IF k[1] = TRIAGE
     THEN window' = [window EXCEPT ![Author[EventOf(k)]] = Add(@, EventOf(k))]
     ELSE UNCHANGED window
  /\ UNCHANGED <<queueVars, slack, intake, name, files, faults>>

\* chat_postMessage of the redacted copy.
Repost(k) ==
  /\ task[k].at = "post"
  /\ \E a \in Answers :
       /\ Count(a)
       /\ posts' = IF Effective(a) THEN [posts EXCEPT ![EventOf(k)].redacted = @ + 1] ELSE posts
       /\ Go(k, IF a = "ok" THEN "reposted" ELSE "raised")
  /\ UNCHANGED <<queueVars, sent, live, notices, intake, memory, files>>

RecordReposted(k) ==
  /\ task[k].at = "reposted"
  /\ SetStage(k, "reposted")
  /\ Go(k, "notice")
  /\ UNCHANGED <<slack, intake, memory, files, faults>>

\* chat_postEphemeral: a refusal is logged and passed over.
Notice(k) ==
  /\ task[k].at = "notice"
  /\ \E a \in Answers :
       /\ Count(a)
       /\ notices' = IF Effective(a) THEN [notices EXCEPT ![EventOf(k)] = @ + 1] ELSE notices
       /\ Go(k, CatchRefusal(a, "notified"))
  /\ UNCHANGED <<queueVars, sent, live, posts, intake, memory, files>>

RecordNotified(k) ==
  /\ task[k].at = "notified"
  /\ SetStage(k, "notified")
  /\ Go(k, "audit")
  /\ UNCHANGED <<slack, intake, memory, files, faults>>

\* audit.record: the line may fail to be written.
Audit(k) ==
  /\ task[k].at = "audit"
  /\ \E a \in Answers \ {"refused"} :
       /\ Count(a)
       /\ trail' = IF Effective(a)
                   THEN [trail EXCEPT ![EventOf(k)] =
                           @ \cup {[act |-> task[k].act, msgs |-> Targets(k)]}]
                   ELSE trail
       /\ Go(k, IF a = "ok" THEN "return" ELSE "raised")
  /\ UNCHANGED <<queueVars, slack, intake, memory, carried>>
-----------------------------------------------------------------------------
TriageStep(k) == Triage(k) \/ Lookup(k) \/ DeleteToHold(k) \/ RecordHeld(k) \/ HandOff(k)
DeepStep(k) == Deep(k) \/ Release(k) \/ RecordReleased(k)
EffectStep(k) == \/ Delete(k) \/ RecordDeleted(k) \/ FallBackToWarn(k) \/ Repost(k)
                 \/ RecordReposted(k) \/ Notice(k) \/ RecordNotified(k) \/ Audit(k)
ThreadStep(k) == \/ TriageStep(k) \/ DeepStep(k) \/ EffectStep(k)
                 \/ Return(k) \/ Advance(k) \/ Raise(k)
WriteFault(k) == WriteRaises(k) \/ ThreadEnds(k)

Outside == \E e \in Events : Write(e) \/ Drop(e)
Lifecycle == \/ \E expired \in SUBSET Keys, lay \in Layouts : WorkerRestart(expired, lay)
             \/ CatchUp \/ WorkerStart \/ WorkerCrash \/ WorkerTick

WorkerNext == \/ Outside
              \/ Lifecycle
              \/ \E e \in Events : Deliver(e)
              \/ \E k \in Keys : ClaimJob(k) \/ ThreadStep(k) \/ WriteFault(k)

WorkerSpec == WorkerInit /\ [][WorkerNext]_vars

\* Threads keep running, the supervisor restarts a process that ended, time passes, and
\* Slack goes on delivering what is not acknowledged to a process that listens.
WorkerFairness ==
  /\ \A k \in Keys : WF_vars(ClaimJob(k)) /\ WF_vars(ThreadStep(k))
  /\ \A e \in Events : WF_vars(Deliver(e) /\ inbox' # inbox)
  /\ WF_vars(\E expired \in SUBSET Keys, lay \in Layouts : WorkerRestart(expired, lay))
  /\ WF_vars(CatchUp) /\ WF_vars(WorkerStart) /\ WF_vars(WorkerTick)

FairWorkerSpec == WorkerSpec /\ WorkerFairness
-----------------------------------------------------------------------------
\* Properties

DoneFor(lane, e) == status[<<lane, e>>] = "done"
Pending(e) == Open(<<TRIAGE, e>>) \/ Open(<<DEEP, e>>)
DeadFor(e) == status[<<TRIAGE, e>>] = "dead" \/ status[<<DEEP, e>>] = "dead"
Gone(m) == live[m] = NotLive /\ \E e \in sent : MsgOf[e] = m
Copies(e) == posts[e].released + posts[e].redacted
SaidToRemove(l) == l.act \in Removing

\* slack_worker.py:187,250,288: the bot posts a copy of a message, redacted or released,
\* only after the message itself is gone from the channel; they never stand side by side.
NoCopyBesideOriginal == \A e \in Events : Copies(e) > 0 => Gone(MsgOf[e])

\* slack_worker.py:190,226: a deep job with the held flag is one whose message is gone, so
\* that what it does (release, or no delete) is right for it.
HeldMeansGone == \A e \in Events : Open(<<DEEP, e>>) /\ carried[e].held => Gone(MsgOf[e])

\* slack_worker.py:3-6, README.md:93: a triage job is done only when the rules removed the
\* message or the deep lane has it, and a deep job only with its decision on record: no
\* interleaving of lanes, failures and restarts lets a message by without a verdict.
NothingSkipsTheChecks ==
  \A e \in Events :
    /\ DoneFor(TRIAGE, e) => trail[e] # {} \/ Open(<<DEEP, e>>) \/ DeadFor(e)
    /\ DoneFor(DEEP, e) => trail[e] # {}

\* README.md:94 and slack_worker.py:7-10: a message that is gone from the channel is still
\* being worked on, on the dead list, released under its author's name, or the audit trail
\* names a decision that removed it.
GoneIsAccountedFor ==
  \A m \in Msgs : Gone(m) =>
    \E e \in sent : \/ MsgOf[e] = m /\ (Pending(e) \/ DeadFor(e) \/ posts[e].released > 0)
                    \/ Split[e] # {} /\ m \in MsgsOf(Split[e]) /\ Pending(e)
                    \/ \E l \in trail[e] : SaidToRemove(l) /\ m \in l.msgs

\* README.md:26 "private notice, audit line": when a decision to remove a message is on
\* record and its job is done, its author was told.
RemovalIsNotified ==
  \A e \in Events : (\E l \in trail[e] : SaidToRemove(l)) => notices[e] > 0

\* slack_worker.py:251: a line that says a message was removed is only written when it is
\* gone; when it could not be deleted, the line says so.
AuditIsTrue == \A e \in Events : \A l \in trail[e] : SaidToRemove(l) =>
                                   \A m \in l.msgs : Gone(m)

\* slack_worker.py:12-13: a retry repeats no effect that a stage is on record for.  However
\* often a message is retried and decided anew, every copy of it and every notice beyond the
\* first stands for a crash, or for a call or a write that failed after its effect.
Repeats == crashes + IF "lost" \in Faults \/ WritesMayFail THEN faults ELSE 0
RepeatsExplained ==
  \A e \in Events :
    /\ posts[e].released <= 1 + Repeats
    /\ Split[e] = {} => posts[e].redacted <= 1 + Repeats /\ notices[e] <= 1 + Repeats

\* README.md:91: messages that complete a finding together and were stored in their order
\* do not all stay visible, as originals or as released copies, once all were judged.
Visible(e) == live[MsgOf[e]] = e \/ posts[e].released > 0
Judged(e) == ~Pending(e) /\ trail[e] # {}
SplitIsRemoved ==
  \A e \in Events :
    /\ Split[e] # {}
    /\ \A f \in Split[e] \cup {e} : Judged(f)
    /\ \A f \in Split[e] : id[<<TRIAGE, f>>] < id[<<TRIAGE, e>>]
    => \E f \in Split[e] \cup {e} : ~Visible(f)

\* README.md:88-89 "Nothing is lost", "Downtime is covered": every event is judged in the end, or
\* its job is on the dead list, unless Slack gave it up while the process was not listening.  What
\* was given up is judged all the same if it is newer than the cursor, and still as it was
\* posted, when the process starts again.
Concluded(e) == trail[e] # {} \/ DeadFor(e)
Missed(e) == phase = "up" /\ e \notin inbox /\ status[<<TRIAGE, e>>] = "absent"
AfterCursor(e) == cursor[CHANNEL] \in 1..Posted[MsgOf[e]] - 1
Edited(e) == live[MsgOf[e]] \notin {e, NotLive}
EverySentIsJudged ==
  \A e \in Events :
    /\ e \in sent ~> Concluded(e) \/ Missed(e)
    /\ (phase = "down" /\ live[MsgOf[e]] = e /\ AfterCursor(e)) ~> Concluded(e) \/ Edited(e)
-----------------------------------------------------------------------------
\* Sentences of the documentation that the code keeps only with restrictions (README.md
\* says which): no run that passes checks them.

\* slack_worker.py:13 "a retry after a crash never deletes, posts, or releases twice".
NothingTwice == \A e \in Events : posts[e].released <= 1 /\ posts[e].redacted <= 1
                                  /\ notices[e] <= 1

\* README.md:90 "Each message is stored once, keyed by channel and timestamp": of the
\* versions of one message, at most one comes back as a copy under the author's name.
ReleasedOnce == \A e, f \in Events : MsgOf[e] = MsgOf[f] /\ e # f =>
                                       posts[e].released = 0 \/ posts[f].released = 0

\* README.md:94 "Nothing sensitive is visible for longer than one delete call": what a
\* decision on record removed is not visible, neither as original nor as released copy.
RemovedStaysRemoved == \A e, f \in Events : \A l \in trail[e] :
                         SaidToRemove(l) /\ MsgOf[f] \in l.msgs => ~Visible(f)

\* README.md:89 "On startup the bot reads channel history since the last message it
\* finished, and queues anything it missed": an event that Slack has not delivered while
\* the channel has a cursor is judged in the end, though Slack may give it up.
DowntimeIsCovered ==
  \A e \in Events : (e \in inbox /\ cursor[CHANNEL] > 0) ~> (trail[e] # {} \/ DeadFor(e))

\* jobqueue.py:173 "the message is still in Slack, so the job can be replayed".
DeadIsReplayable == \A e \in Events : DeadFor(e) => ~Gone(MsgOf[e]) \/ Copies(e) > 0
-----------------------------------------------------------------------------
\* The inductive invariant behind NothingSkipsTheChecks, RemovalIsNotified, HeldMeansGone
\* and NoCopyBesideOriginal.

\* What the worker handles was written before.
WrittenFirst ==
  /\ \A k \in Keys : status[k] # "absent" => EventOf(k) \in sent
  /\ \A i \in DOMAIN backlog : backlog[i] \in sent
  /\ \A m \in Msgs : live[m] # NotLive => live[m] \in sent

\* What it remembers was written before, too.
MemoryWritten == /\ \A a \in Authors : window[a] \in Seq(sent)
                 /\ \A k \in Keys : task[k].earlier \subseteq sent
                 /\ \A e \in Events : carried[e].chain \subseteq sent

\* The steps of a hold are those of the triage lane.  Before a handler returns, its decision
\* is on record, or the deep lane has the message.
LanesApart == \A k \in Keys : task[k].at \in {"lookup", "hold", "held", "handoff"} => k[1] = TRIAGE
InDeepLane(e) == status[<<DEEP, e>>] \in {"queued", "processing", "dead"}
DecisionsTraced ==
  /\ LanesApart
  /\ \A e \in Events :
       /\ DoneFor(DEEP, e) \/ task[<<DEEP, e>>].at = "return" => trail[e] # {}
       /\ DoneFor(TRIAGE, e) \/ task[<<TRIAGE, e>>].at = "return" =>
            trail[e] # {} \/ InDeepLane(e)

\* Unless Slack refuses calls, the author was told before a removal is put on record.
ToldBy(k) == \/ task[k].at = "notified" \/ stage[k] = "notified"
             \/ task[k].at = "audit" /\ task[k].act \in Removing
RemovalsTold == "refused" \notin Faults =>
                  /\ RemovalIsNotified
                  /\ \A k \in Keys : ToldBy(k) => notices[EventOf(k)] > 0

\* What a handler takes for gone is gone.  A triage job may be notified of a message that
\* could not be deleted; the rules then find it in every attempt, so that it is never held.
RefusalsSpareSplits == "refused" \in Faults => \A e \in Events : Split[e] = {}
FoundAlone(k) == Rule[EventOf(k)] # "none"
GoneAsAssumed(k) ==
  /\ task[k].ok \/ "refused" \in Faults
  /\ task[k].at \in {"lookup", "hold", "held", "handoff"} => ~FoundAlone(k)
  /\ task[k].at = "delete" /\ task[k].ok => MsgAt(k) \in task[k].todo \/ Gone(MsgAt(k))
  /\ task[k].at = "delete" /\ k[1] = TRIAGE /\ "refused" \in Faults => FoundAlone(k)
  /\ \/ task[k].at \in {"held", "release", "released", "post", "reposted"}
     \/ task[k].at = "handoff" /\ task[k].hold
     \/ stage[k] \in {"deleted", "released", "reposted"}
     \/ stage[k] = "held" /\ k[1] = TRIAGE
     => Gone(MsgAt(k))
  /\ k[1] = TRIAGE /\ (task[k].at \in {"notice", "notified"} \/ stage[k] = "notified")
     => Gone(MsgAt(k)) \/ FoundAlone(k)
HeldIsGone == RefusalsSpareSplits =>
                /\ \A k \in Keys : GoneAsAssumed(k)
                /\ \A e \in Events : carried[e].held => Gone(MsgOf[e])
                /\ NoCopyBesideOriginal

\* The inductive invariant behind AuditIsTrue.  Verdicts of one message may differ from attempt
\* to attempt, but not so that a stage reached for one stands for what another would do: a
\* message is not warned about and removed, removals are of the same messages, and in a hold
\* channel a message is not released and removed together with others.
SteadyVerdicts ==
  \A e \in Events : \A v, w \in Verdicts[e] : v.act \in Removing =>
    /\ w.act # "warn"
    /\ w.act \in Removing => w.parts = v.parts
    /\ w.act \notin Removing /\ HoldChannel => v.parts = {}

\* The messages that a removal by job k is about; one set, if verdicts are steady.
RemovalsOf(k) ==
  LET e == EventOf(k)
  IN  IF k[1] = TRIAGE
      THEN {IF FoundAlone(k) THEN {MsgOf[e]} ELSE MsgsOf(Split[e] \cup {e})}
      ELSE {IF v.parts = {} THEN {MsgOf[e]} ELSE MsgsOf(v.parts \cup {e}) :
              v \in {w \in Verdicts[e] : w.act \in Removing}}

\* A handler carries out what its lane decided.
Effects == {"delete", "post", "reposted", "notice", "notified", "audit"}
TrueToVerdict(k) ==
  LET t == task[k]
  IN  /\ t.at \in Effects /\ t.act \in Removing =>
           Targets(k) \in RemovalsOf(k) /\ Targets(k) \subseteq MsgsOf(sent)
      /\ \/ t.at \in Effects /\ t.act \notin Removing
         \/ t.at \in {"release", "released"}
         => k[1] = DEEP /\ t.act \notin Removing /\ \E v \in Verdicts[EventOf(k)] : v.act = t.act
      /\ t.at \in {"delete", "post", "reposted"} => t.act \in Removing
      /\ t.at \in {"notice", "notified"} => t.act \in Removing \cup {"warn"}
      /\ t.at \in {"release", "released"} => carried[EventOf(k)].held

\* What a removal is about is gone once the handler, or its stage, is past the deletes.
PastDelete(k) == stage[k] \in {"deleted", "released", "reposted", "notified"}
RemovedIsGone(k) ==
  LET t == task[k]
  IN  /\ t.at = "delete" => \A m \in Targets(k) \ t.todo : Gone(m)
      /\ t.at \in Effects \ {"delete"} /\ t.act \in Removing => \A m \in Targets(k) : Gone(m)
      /\ PastDelete(k) => \A T \in RemovalsOf(k) : \A m \in T : Gone(m)

HeldByPolicy == /\ \A k \in Keys : task[k].hold \/ task[k].at = "hold" => HoldChannel
                /\ \A e \in Events : carried[e].held => HoldChannel
AuditInv == "refused" \notin Faults /\ SteadyVerdicts =>
              /\ \A k \in Keys : TrueToVerdict(k) /\ RemovedIsGone(k)
              /\ HeldByPolicy
              /\ AuditIsTrue

\* The inductive invariant behind GoneIsAccountedFor.  Every message is decided on alone, and
\* all attempts agree on whether to remove it.
DecidedAlone == \A e \in Events : Split[e] = {} /\ \A v \in Verdicts[e] : v.parts = {}
SureVerdicts == \A e \in Events : \A v, w \in Verdicts[e] : v.act \in Removing <=> w.act \in Removing

\* The events whose handling may make their message disappear.
RemovedInDeep(e) == \A v \in Verdicts[e] : v.act \in Removing
Accountable(e) == Rule[e] # "none" \/ HoldChannel \/ RemovedInDeep(e)

\* They leave a trace of it in the end: a line that says so, or a copy in its place.
OnRecord(e) == \E l \in trail[e] : SaidToRemove(l) /\ MsgOf[e] \in l.msgs
Answered(e) == OnRecord(e) \/ posts[e].released > 0
RemovalsAnswered ==
  \A e \in Events : Accountable(e) =>
    /\ DoneFor(DEEP, e) \/ task[<<DEEP, e>>].at = "return" => Answered(e)
    /\ DoneFor(TRIAGE, e) \/ task[<<TRIAGE, e>>].at = "return" => Answered(e) \/ InDeepLane(e)

\* A handler deletes the message of its job only, and triage what its rule found.
DeletesOwn(k) == task[k].at = "delete" => /\ task[k].todo \subseteq {MsgAt(k)}
                                          /\ k[1] = TRIAGE => FoundAlone(k)

\* In a hold channel every deep job is of a held message, which comes back if it may.
HeldComesBack(k) ==
  HoldChannel =>
    /\ task[k].at \in {"held", "handoff"} => task[k].hold
    /\ \/ task[k].at = "released"
       \/ task[k].at \in {"notice", "notified", "audit"} /\ task[k].act \notin Removing
       => posts[EventOf(k)].released > 0
    /\ /\ k[1] = DEEP /\ stage[k] \in {"released", "reposted", "notified"}
       /\ \E v \in Verdicts[EventOf(k)] : v.act \notin Removing
       => posts[EventOf(k)].released > 0
DeepIsHeld == \A e \in Events : status[<<DEEP, e>>] # "absent" =>
                Rule[e] = "none" /\ (HoldChannel => carried[e].held)

\* Who made a message disappear can be asked: its job is unsettled, or it left that trace.
SpokenFor(e) == Pending(e) \/ DeadFor(e) \/ Answered(e)
GoneIsSpokenFor == \A m \in Msgs : Gone(m) =>
                     \E e \in sent : MsgOf[e] = m /\ Accountable(e) /\ SpokenFor(e)
AccountInv == "refused" \notin Faults /\ DecidedAlone /\ SureVerdicts =>
                /\ name # "blank"
                /\ \A k \in Keys : DeletesOwn(k) /\ HeldComesBack(k)
                /\ RemovalsAnswered /\ DeepIsHeld /\ GoneIsSpokenFor

\* The inductive invariant behind RepeatsExplained.  The rules on a message alone decide which
\* of its jobs posts and notifies; and what a handler is about to do is not on its stage yet.
LaneByRule(k) ==
  /\ task[k].at \in {"lookup", "hold", "held", "handoff"} => ~FoundAlone(k)
  /\ k[1] = TRIAGE /\ task[k].at \in Effects /\ Split[EventOf(k)] = {} => FoundAlone(k)
  /\ task[k].at \in {"release", "released"} => k[1] = DEEP
DeepUnfound == \A e \in Events : status[<<DEEP, e>>] # "absent" => Rule[e] = "none"
JobOf(e) == IF Rule[e] = "none" THEN <<DEEP, e>> ELSE <<TRIAGE, e>>

StageAhead(k) ==
  /\ task[k].at \in {"hold", "held"} => ~Reached(k, "held")
  /\ task[k].at = "delete" => ~Reached(k, "deleted")
  /\ task[k].at \in {"release", "released"} => ~Reached(k, "released")
  /\ task[k].at \in {"post", "reposted"} => ~Reached(k, "reposted")
  /\ task[k].at \in {"notice", "notified"} => ~Reached(k, "notified")

\* What stage s of job k stands for was done n times, which repeats explain, and once more if
\* the row or its handler knows of it.
Noted(k, s) == Reached(k, s) \/ task[k].at = s
Known(k, s) == Noted(k, s) /\ status[k] # "absent" /\ phase # "down"
DoneOnce(n, k, s) == n <= Repeats + IF Known(k, s) THEN 1 ELSE 0
RepeatsInv ==
  /\ \A k \in Keys : LaneByRule(k) /\ StageAhead(k)
  /\ DeepUnfound
  /\ \A e \in Events :
       /\ DoneOnce(posts[e].released, <<DEEP, e>>, "released")
       /\ Split[e] = {} => /\ DoneOnce(posts[e].redacted, JobOf(e), "reposted")
                           /\ DoneOnce(notices[e], JobOf(e), "notified")

\* The inductive invariant behind SplitIsRemoved, until the process stops for the first time.
\* The window holds all messages of an author, the parts of a finding are not edited, and no
\* message is held.
Unedited(e) == \A f \in Events : MsgOf[f] = MsgOf[e] => f = e
WindowSuffices == \A a \in Authors :
                    Cardinality(MsgsOf({e \in Events : Author[e] = a})) <= WindowSize
PlainSplits == /\ "refused" \notin Faults /\ SteadyVerdicts /\ ~HoldChannel /\ WindowSuffices
               /\ \A e \in Events : \A f \in Split[e] : Unedited(f)

\* The windows have each message once, and it is the author's.
EachOnce(w, a) == \A i, j \in DOMAIN w : /\ Author[w[i]] = a
                                         /\ i # j => MsgOf[w[i]] # MsgOf[w[j]]
WindowsApart == \A a \in Authors : EachOnce(window[a], a)

\* What the deep lane was given is remembered or gone; what it was not given is gone once it
\* has a decision.
Remembered(e) == e \in Range(window[Author[e]]) \/ Gone(MsgOf[e])
PassedOn(e) ==
  /\ status[<<DEEP, e>>] # "absent" /\ Unedited(e) => Remembered(e)
  /\ status[<<DEEP, e>>] = "absent" /\ trail[e] # {} => Gone(MsgOf[e])
  /\ status[<<DEEP, e>>] # "absent" \/ trail[e] # {} => status[<<TRIAGE, e>>] # "absent"
  /\ posts[e].released = 0

\* Why the rules may have missed a part f of what e completes: it is gone, its job died without
\* a decision, or it is stored later.
NeverJudged(f) == /\ status[<<TRIAGE, f>>] = "dead" /\ status[<<DEEP, f>>] = "absent"
                  /\ trail[f] = {}
Later(f, e) == status[<<TRIAGE, f>>] = "absent" \/ id[<<TRIAGE, f>>] >= id[<<TRIAGE, e>>]
MayMiss(f, e) == Gone(MsgOf[f]) \/ NeverJudged(f) \/ Later(f, e)
NotFound(e) == \/ task[<<TRIAGE, e>>].at \in {"lookup", "hold", "held", "handoff"}
               \/ status[<<DEEP, e>>] # "absent"
SplitInv ==
  PlainSplits /\ crashes = 0 =>
    /\ phase # "down" /\ RowsAtHome /\ WindowsApart
    /\ \A e \in Events : PassedOn(e)
    /\ \A e \in Events : NotFound(e) /\ Split[e] # {} => \E f \in Split[e] : MayMiss(f, e)

WorkerInv == /\ WorkerTypeOK /\ WrittenFirst /\ MemoryWritten /\ DecisionsTraced
             /\ RemovalsTold /\ HeldIsGone /\ AuditInv /\ AccountInv /\ RepeatsInv /\ SplitInv
=============================================================================
