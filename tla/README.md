# Blackline in TLA+

Specifications of Blackline, the Slack moderation bot of this repository: its durable queue,
its two-lane worker, and the components whose concurrency the worker relies on. Paths below
are relative to the repository (`adapters/`, `src/blackline/`); line numbers refer to the
commit the specifications were written against.

## The system

One process connects to Slack. A listener thread stores every message event in a SQLite
queue before it is acknowledged. Two sets of threads drain the queue: the *triage* lane
(partitioned by channel and author, rules only) and the *deep* lane (partitioned by message,
model checks). A message to remove is deleted, reposted in a masked form, its author told,
and the decision written to an audit file. In *hold* channels every message is deleted on
arrival and released as a copy once it passed. After a restart the process reads the channel
history to find what it missed.

| Component | State | Operations | What is hard about it | What makes it correct |
|---|---|---|---|---|
| Job queue, `jobqueue.py` | table `jobs`, table `cursors` | put, claim, set_stage, done, fail, recover, scrub, prune, advance_cursor | threads, retries with backoff, crash between any two commits, partition counts that change | order per author, every job settles, bounded attempts, text wiped, cursors monotone |
| Triage lane, `slack_worker.py:162-204` | the job in hand, window, names | fast check, hold, hand-over | crash or failure between a call and its stage | no message passes without a verdict |
| Deep lane, `slack_worker.py:208-285` | the job in hand | decide, remove, release | every attempt decides anew; runs beside triage of the same author | a copy never beside its original; held means deleted |
| Side effects, `slack_worker.py:247-353` | Slack, `stage` of the job | delete, repost, notice, audit | refused, failed and lost calls; stages compared by position | nothing repeated without a reason; notice and audit say what happened |
| Start and recovery, `slack_app.py:118-198`, `slack_worker.py:411-440` | phase of the process, history backlog | recover, prune, catch-up, threads, shutdown | events lost while down, window rebuilt | nothing is lost, the window is complete |
| Conversation window, `window.py` | recent messages per author | add, recent, forget | shared by all threads; size and age limits | split numbers are found |
| Slack client, `slack_http.py` | LIFO pool of connections | api_call with three tries, warm | resends, idle connections that Slack closed, the pool is drained by the warmer | no slot is lost; every call ends |
| Policy reload, `pipeline.py:25-50` | three module globals | policy() | no lock | a valid policy is in force, and it is the latest |
| Restore tickets, `redaction_restore.py`, `slack_worker.py:355-374` | originals in memory | create, attach, consume, prune | several managers at once, restart, expiry | restored at most once, the copy goes |
| Pipeline and policy, `pipeline.py:58-211`, `policy.py` | executor of model calls | fast_check, run, decide, validate | fail-open, order of checks, reloads in between, calls that hang | most severe action wins; a model outage never loses a rule hit; every run decides |
| Policy file, `policy.py:13-143` | the document | load, validate | validated through a model that is thrown away; decided by the raw document | what is accepted is what is meant |
| Secrets and start, `secrets.py`, `slack_app.py:45-116` | environment | load, checks, first policy | three sources, any of which may fail; the policy file may be edited meanwhile | nothing half configured runs; the nearest source wins |
| Detectors, `normalize.py`, `detectors/`, `actions.py` | none | fold, detect, split search, verify what the model says, mask | layers that stop at the first finding; search over pieces of several messages | plain and disguised cards are found; masking hides them; the model cannot invent digits |
| Audit, health, scripts, evaluation, deployment | files | I/O | | |

The components meet in these places: the listener and both lanes call the queue; triage puts
deep jobs into it; both lanes read and write the window and call Slack through the client;
every decision reads the policy; a masked copy creates a restore ticket, which a listener
thread consumes; a restart rebuilds window and queue from the cursors and the history. The
detectors see a message together with those the window remembers, so what they find depends
on edits, age and restarts.

## The modules

| Module | Models | Correspondence |
|---|---|---|
| `OrderedIntake` | what the queue promises | abstract specification: jobs are accepted, begun in the order of their stream one at a time, yielded, settled, and forgotten only when settled |
| `JobQueue` | `jobqueue.py`, the thread loop of `run_forever`, start and end of the process | one action per method; columns of a row are functions on the dedupe key; `hand[k]` is what the thread of k's lane does with job k |
| `SlackWorker` | `slack_worker.py`, with the window, the listener, the catch-up and the audit file | extends `JobQueue`; a handler is a sequence of steps of the thread that claimed the job: each call to Slack, commit and audit line is a step. `task[k].at` is its program counter |
| `SlackPool` | `slack_http.py` | the pool as a stack of slots; `call[c]` is the local state of `api_call`, `warmer` that of `keep_warm` |
| `PolicyReload` | `policy()` in `pipeline.py` | one step for each read or write of a global or of the file |
| `PolicyDecide` | `Policy.decide` and `_match` in `policy.py` | operators without state, with a reference definition |
| `PolicyFile` | `load` and `validate` in `policy.py` | a document whose entries are written plainly, quoted, as null, misspelled or left out; what the validation accepts, and the rules as `_match` reads them |
| `Startup` | `secrets.py`, the checks of `slack_app.py`, the first load of the policy | extends `PolicyReload` and `PolicyFile`; one step for each read or check before the process runs |
| `Normalize` | `normalize.py` | a text is a sequence of pieces; folding, digit groups, disguised digits |
| `Tier0` | `detectors/tier0.py`, `mask` in `actions.py` | checksums, layers of rules, grouped digits, masking |
| `SplitDetect` | `detectors/split.py` | the search for a number over several messages, and when a model is worth asking |
| `Tier1` | what `detectors/tier1.py` makes of an answer | verification of rebuilt numbers, of tokens and of quotations |
| `Conversation` | `window.py` and the pipeline over all of the detectors | one author writes, edits, waits; triage and deep checks answer; a restart rebuilds the window |
| `Pipeline` | `fast_check`, `run`, `_safe` in `pipeline.py`, the executor of model calls | `at[r]` is the program counter of a call of `run()`; a step for each place where it reads the policy or waits; `job[r][c]` is a Future |
| `RestoreTickets` | `redaction_restore.py` and its use | a step for each locked section and each call to Slack |
| `JobQueueProofs`, `SlackWorkerProofs`, `StartupProofs` (with those of `PolicyReload`), `RestoreTicketsProofs`, `PipelineProofs`, `SlackPoolProofs`, `ConversationProofs` (with those of `Normalize`, `Tier0` and `SplitDetect`) | | theorems |
| `FoldProofs` | | lemmas that they share: least elements, induction, folds and loops |
| `MCJobQueue`, `MCSlackWorker`, `MCStartup`, `MCConversation`, `MCPipeline` | | instances for TLC |

`SlackWorker` composes its actions with those of `JobQueue`: `ClaimJob(k)` is `Claim(k)` and
the start of the handler, `HandOff` contains `Put`, `Return` is `Done`, `Raise` is `Fail`,
`WorkerCrash` is `Crash` and the loss of all memory. `JobQueue` on its own lets the handler
do anything a handler may do to the queue, so that the worker is one of its behaviours
(`WorkerIsAClient` proves it). `Startup` composes its steps with those of `PolicyReload`: the
same `policy()` that threads call later is called once before the process runs, and its errors
end the start. `Conversation` extends `Tier1`, which stands on `SplitDetect`, `Tier0` and
`Normalize`, and takes `Decide` and `FastCheck` from `PolicyDecide`.

### Abstractions

- A message is a name; an *event* is one version of it, as posted or edited. What the rules
  say of a text (`Rule`), which earlier messages it completes to a split finding (`Split`),
  and which verdicts the pipeline may reach (`Verdicts`) are constants. A verdict is chosen
  anew by each attempt, since a model check may fail open.
- A call ends in one of four ways (`Answers`): as meant, refused with a `SlackApiError`, with
  another exception before it had an effect, or with one after it ("lost"). That one call may
  have its effect twice is left to `SlackPool`.
- In `SlackWorker` a message that completes a finding is one of the messages that are removed.
  In the code it may only bring the word for digits of others, and then it stays; `Conversation`
  has that (`NewContext`).
- A retry waits `wait` seconds; what matters is that the row blocks its lane meanwhile.
- `id` counts on after a prune, where SQLite would reuse the highest id; ids are only
  compared between rows that exist.
- An error out of `claim()` or `fail()` ends the thread of the partition (`EndThread`). One that
  ends while its lane has no job to give is modelled as one that ends at the next job. Errors of
  the other writes are those of a handler (`WriteRaises`): the job fails and is retried.
- In `Pipeline`, what the rules, the split search and the gates of the model checks say of a
  message is an input, and what a model check answers is a choice from `Replies`. A reload
  installs the next of `Policies` between any two steps; how a file becomes the policy is
  `PolicyReload`. A check that hangs is one that is never finished: nothing makes it end.
- In `SlackWorker` the window has its size limit but no limit of age (`Conversation` has
  both); one channel; hold is a property of the channel that is found by its name; channel
  rules do not depend on whether the name is known.
- In the detectors a text is a sequence of pieces: a run of digits, of look-alike letters, an
  emoji code, a word, what stands between. The tables of emoji, scripts and number words are
  represented by pieces that fold to the digits they carry (`Code`), and those no table knows
  by `Glyph`. An IBAN is a country code with groups of digits after it. API keys and secrets are
  opaque pieces; their entropy is left out.
- Lengths are constants, and small in the instance: cards of 4 to 6 digits that begin with 4
  or 5 in place of 13 to 19, SINs of 3 in place of 9, and the shapes of groups accordingly.
  The Luhn sum, the search and the layers are those of the code.
- `Conversation` has one author in one channel, because the window and the detectors have no
  state that authors or channels share. Calls to Slack do as they are meant to, and a restart
  comes when nothing is under way: `SlackWorker` has the failures and the crashes. The clock
  moves in steps of the window's age limit. The answer of the model is one of `Answers`.
- In `Startup` a token is a name with a value that says where it came from; reads of Secret
  Manager answer, are empty or are denied. Log formats are left out.

## What TLC checks

Every bound is a CONSTANT. `CHECK_DEADLOCK FALSE` stands where the instance runs out of
work: all jobs settled, or a bound on crashes, faults, versions or time reached. `SlackPool`
has no such end and is checked for deadlock.

| Run | Checks | Bounds |
|---|---|---|
| `queue` | `IInv`, `OrderPerAuthor`, `TextLifetime`, `AttemptsExplained`, `CursorNeverMovesBack`, `ImplementsOrderedIntake`, `EveryJobSettles` | three jobs of two authors in one of two lanes, 2 attempts, 1 crash, any thread may end by an error |
| `worker_rules` | `GoneIsAccountedFor`, `NothingSkipsTheChecks`, `RemovalIsNotified`, `AuditIsTrue` | two messages of two authors in a hold channel, 1 call that fails or loses its answer or 1 write that fails, 1 crash, Slack may give up events |
| `worker_edit` | `HeldMeansGone`, `NoCopyBesideOriginal`, `RepeatsExplained`, `WorkerInv` | a message and its edit in a hold channel, verdicts that vary from attempt to attempt, 2 refused or failed calls, no crash |
| `worker_split` | `SplitIsRemoved` | two messages of one author, two threads per lane, 1 fault of a call or a write |
| `worker_live` | `WorkerInv`, `EverySentIsJudged` | two messages, window of one, 1 crash, Slack may give up events |
| `policy` | `ReloadInv`, `RunsOnlyConfigured`, `PrecedenceKept`, `AcceptedMeansWhatItSays`, `EditsApplyOnceStarted` | 720 worlds to start in (two tokens, three sources), one thread, five versions of the file: 2 with a misspelled key, 3 not decodable, 4 with a doubled id and a channel without # |
| `restore` | `TicketInv`, `CopyReplaced` | two tickets, three presses, a limit of one time unit, failing calls, restarts |
| `pipeline` | `PipelineInv`, `DecideIsMostSevere`, `RulesDeleteInTriage`, `AllowedForAReason`, `EveryRunDecides` | two runs, one thread for model checks, four messages, two policies |
| `conversation` | `ConversationInv`, `StandingSplitCaught`, `JoinedAreCurrent`, `ModelHitsAreTyped`, `PlainCardIsFound`, `MaskedCardsStayHidden`, `LookAlikesAnchored`, `OneDigitMatters` | 20 texts by themselves and 9 conversations of up to four events, three answers of the model, a window of two messages, three points of time |
| `pool` | `EachSlotInOnePlace`, `EveryCallEnds` | two callers and the warmer, two slots, 1 broken exchange beside any number of connections that Slack closed |

Why these bounds are enough to be interesting: two attempts give a first attempt, a retry and a
death; one crash can fall after every commit; three jobs give a stream of two and a foreign job
in the same or in another lane; one fault hits every call in turn, and the retry then meets the
effects of the first attempt; two runs over one thread make a check wait behind a foreign one
that hangs, and the four messages reach each check, each of its outcomes and each way to a
decision. A window of two makes the third message of a conversation push out the first, three
points of time make a message too old while it waits or while another is judged, and the texts
of `MCConversation` reach each rule and each layer by a text it finds and by one that it only
nearly finds; conversations have the word before, between, after and without the digits, edits
that bring or take away digits, and digits in disguise. The 720 worlds combine what the shell
and Secret Manager may have of either token with two `.env` files. What holds for the small
instance and is proved too (below) holds for any: the runs of the queue, of the reload and of
the tickets stay small because the proofs cover every number of jobs, lanes, threads, versions,
tickets and presses, a cursor write that raises (`CursorMayFail`), writes that end a thread (`WritesMayFail`) and a policy file that
vanishes (`FileMayVanish`, left out of the `policy` run) included. The theorems about the
worker hold for any rules, verdicts, splits, faults and crashes, which no run could have at
once.

Properties are aimed at the hazards listed in `PROJECT.json`. The ones with the longest reach:

- `OrderPerAuthor` relates threads, lanes, backoff and restarts: the job in hand is older
  than every unsettled job of its partition key.
- `EveryJobSettles`: a stored job is done or dead in the end, or the thread of its lane ended
  by an error of the database, whatever fails, crashes and waits.
- `GoneIsAccountedFor`: a message that is gone from the channel is still being worked on,
  dead, released, or the audit file names the decision that removed it.
- `NothingSkipsTheChecks`: a triage job is done only when the message was removed or the deep
  lane has it, and a deep job only with a decision on record.
- `AuditIsTrue` and `RemovalIsNotified`: what the audit file says of a removal happened, and
  the author was told.
- `SplitIsRemoved`: messages that complete a finding do not all stay visible.
- `AllowedForAReason`: an allowed message has nothing against it in any answer that came in
  time, under some policy of the time, though checks decide one after the other and each reads
  the policy anew.
- `RepeatsExplained`: however often a message is retried and decided anew, every copy of it and
  every notice beyond the first stands for a crash, or for a call or write that failed after its
  effect. It is what is true of the sentence "never deletes, posts, or releases twice"
  (slack_worker.py:13, `NothingTwice`), which a crash between a post and its stage breaks.
- `WorkerInv`: at every step of every handler, what it takes for gone is gone, what it is
  about to return from is on record or with the deep lane, a removal it puts on record was
  told to the author and carried out, a message that is gone has something that answers for
  it, and what was done is on its stage or counted. `worker_edit` allows refused calls, under
  which the parts for audit lines and answers claim nothing; `worker_live` allows none. Both
  are small because `WorkerInv` is slow to evaluate; it also holds over the 1.1 million states
  of `worker_rules`, and over `worker_live` with a second message that the model removes, which
  take too long to be listed. Its part `SplitInv` is about instances with neither
  refusals nor holds; it holds over the 29,448 states of `worker_split` with lost answers in place
  of refusals, and over 176,264 states in which the second message is edited.
- `StandingSplitCaught`: after any posts, edits, waits, removals and restarts, triage leaves
  no stretch of messages standing that ends in a number it is promised to find. It is about a
  policy that removes what is split (`RemovesSplits`, checked for the policy of the instance).
  A message that completed a number of other messages is not in the window afterwards, so that
  a stretch ends with it (`Stretch`). Stretches with an edited message are left out
  (`AsPosted`): an edit may leave the window as it was, and `JoinedAreCurrent` is about that.
- `JoinedAreCurrent`: what is removed as part of a number is as it was last judged or reads
  now, and recent. The exception it makes is the one of `JoinedAreLatest` below.
- `ConversationInv`: the window is bounded, in order and current (`WindowInOrder`,
  `WindowIsCurrent`), and whatever was posted in a row up to the last judged message, is as it
  was posted and not too old is the end of the window (`Remembered`), through edits, removals
  in both lanes, late answers and restarts.
- `ModelHitsAreTyped`: every digit of a number for which messages are removed on the word of
  the model stands in one of them, as often as the number has it. Of an API key each part stands
  in them, and one part may stand for another like it (tier1.py:137).
- `MaskedCardsStayHidden`: the masked copy, put together from findings of several rules, contains
  no card that the rules that masked it would find again, unless a finding of another rule cut
  through digits that the card rule had taken together (`CutThrough`, which `policies/default.yaml`
  allows for IBANs).
- `AcceptedMeansWhatItSays`: a policy that is accepted with plain entries decides, as the raw
  document it is, as its author wrote.
- `PrecedenceKept`: whatever is empty or denied on the way, each token is that of the nearest
  source that has one.
- `EachSlotInOnePlace`: no slot of the connection pool is lost or used twice at once.

### Fairness

`queue` and `worker_live` assume weak fairness of each thread's steps (the thread loops for
ever, each call has a timeout), of the clock, and of restart (`deploy/vm-startup.sh:36`,
`docker-compose.yml:15` restart the container). `worker_live` also assumes that Slack delivers
what is not acknowledged to a process that listens. While none listens Slack may give an event up
(`SlackDrops`), and `EverySentIsJudged` asks for what was given up only if catch-up can see it: it is
newer than the cursor, and not edited or deleted by then. `finding_cursor.cfg` shows a message that
catch-up cannot see. `pool`
assumes strong fairness of `_pool.get()`, because `keep_warm` pauses 20 s between two rounds
and `put()` wakes a waiting thread. `pipeline` assumes that deep threads run and that timeouts
expire, and nothing of the executor or the model. `policy` assumes that the start goes on, that
messages keep coming and time passes (`Main`, the steps of each thread, `TimePasses`). No fairness is
assumed of people, faults or crashes.

### Where code and documentation disagree

TLC finds behaviours of the code that do not agree with a sentence of a document or comment.
Two of them are runs of `PROJECT.json`, which quotes the sentences:

| Run | Property | What happens |
|---|---|---|
| `finding_dead_held` | `DeadIsReplayable` | a held message whose deep job dies is gone from Slack and queue |
| `finding_policy_race` | `EditsApply` | two reloading threads leave an older policy in force |

The others are configurations to run by hand (`tlc -config X.cfg M`); each ends in a
counterexample, and where one has more than one property, each of them has its own:

| Configuration | Module | Property | What happens |
|---|---|---|---|
| `queue_layout_change` | `MCJobQueue` | `EveryJobSettles` | partition numbers are stored with rows, so a start with fewer workers strands rows (README.md:88) |
| `finding_thread_lost` | `MCJobQueue` | `NothingIsStranded` | `fail()` or `claim()` raises, the thread ends, and the jobs of its lane wait, neither tried again nor marked dead, until somebody restarts the process (README.md:92) |
| `queue_attempts_crash` | `MCJobQueue` | `AttemptsBounded` | attempts in hand at a crash are not held against the limit (README.md:92) |
| `queue_layout_order` | `MCJobQueue` | `OrderPerAuthor` | two jobs of one author stored under different worker counts overtake each other (README.md:91) |
| `finding_twice` | `MCSlackWorker` | `NothingTwice` | a crash between a post and its stage: posted again (slack_worker.py:13) |
| `finding_audit` | `MCSlackWorker` | `AuditIsTrue` | stages compared by position turn a refused delete into a recorded removal (README.md:90) |
| `finding_split_crash` | `MCSlackWorker` | `GoneIsAccountedFor` | a crash during the removal of a split finding: no notice and no audit line (README.md:90) |
| `finding_split_window` | `MCSlackWorker` | `SplitIsRemoved` | a crash between `done` and `advance_cursor` leaves a gap in the rebuilt window (slack_worker.py:412) |
| `finding_split_hold` | `MCSlackWorker` | `RemovedStaysRemoved` | part of a removed split number is released by its own deep job (README.md:94) |
| `finding_hold_name` | `MCSlackWorker` | `GoneIsAccountedFor` | a refused name lookup after a crash: a held message is never released (README.md:94) |
| `finding_edit_hold` | `MCSlackWorker` | `ReleasedOnce` | a held message and its edit are both released (README.md:90) |
| `finding_cursor` | `MCSlackWorker` | `DowntimeIsCovered` | a cursor moved by a later message hides an event that was never stored (README.md:89) |
| `finding_held_visible` | `MCSlackWorker` | `HeldMeansGone` | Slack refuses to delete a message of a split number, and a crash follows: the stage says notified, which counts as held, so the deep lane takes a visible message for a held one (slack_worker.py:190) |
| `finding_word` | `MCConversation` | `WordCountsForOlder` | a word for a card that comes with other digits does not make older digits a finding (split.py:59) |
| `finding_word` | `MCConversation` | `JoinedAreLatest` | an edit that only brings the word for the digits of other messages has those removed, stays visible, and is not added to the window: what is joined later has its earlier text (window.py:41, slack_worker.py:173) |
| `finding_mask_layers` | `MCConversation` | `MaskedShowsNoCard` | the card rule takes the groups of an IBAN and the digits after it together; the IBAN is masked, and the card that follows is left visible in the copy (actions.py:18) |
| `finding_mask_layers` | `MCConversation` | `CopyShowsNoCard` | the first layer of rules that finds something ends the search, so that the masked copy shows the card that another layer would find (actions.py:18) |
| `finding_policy_null` | `MCStartup` | `AcceptedIsUnderstood` | a threshold in quotes, a subject of null, a quoted truth value: all accepted, and then read otherwise (policy.py:26) |
| `finding_restore_ttl` | `RestoreTickets` | `HeldForTTL` | originals stay in memory until another ticket is made (README.md:143) |
| `finding_pool` | `SlackPool` | `EffectOnce` | a lost answer is resent and has a second effect (README.md:90) |
| `finding_pool` | `SlackPool` | `LimitedMeansUndone` | an effect is reported as refused (slack_http.py:8) |

A further one shows when `worker_rules` is run with `Verdicts <- Wavering`: an attempt that
masked a held message and crashed, followed by one whose model check failed open, leaves an
audit line that says the message was allowed, though its original is gone and only the masked
copy is there. The line of the second attempt is true of its own decision, and no document
says more, so no property of a listed run states it.

Consequences that follow from the models and contradict no document: a window hit that the
policy only logs ends the run before the answer about the message itself is looked at; one
decision can rest on two versions of the policy; a card that is glued to further digits in a
longer spaced run ("12 4111 ...") is not found; the edit of a message that was removed while
the edit waited in the queue brings the message back to the window; the `.env` file does not
count for a name that the shell exports empty.

## What is proved

`tlapm` checks these for every value of the constants, from the assumptions the modules name.

`JobQueueProofs`. The safety properties are not inductive: that the job in hand is the oldest
of its author says nothing about which thread may claim next. `IInv` adds what the argument
needs, in four named parts: rows have distinct ids (`RowIds`); threads and rows agree, and a
row in processing is held as long as the process runs, or was when its thread ended
(`HandsAgree`); a lane has one job in
hand and it is older than the queued rows of the lane (`LanesInOrder`); and a row that may
still be claimed has an attempt to spare or a crash to account for it (`AttemptsToSpare`).
There is a lemma for each action, and under it a step for each part the action can disturb.

- `TypeCorrect`, `Invariance`: `TypeOK` and `IInv` hold in every reachable state.
- `AttemptsAccounted`: attempts are at most `MAX_ATTEMPTS` plus the number of crashes.
- `AuthorsInOrder`: `OrderPerAuthor`, assuming `FixedLayout` (every start uses the same
  partition counts). The assumption is needed, as `queue_layout_order` shows. The step from
  lanes to authors is `RowsAtHome`: a row lies in the partition its key hashes to.
- `TextWiped`: `TextLifetime`, assuming that writing a cursor does not raise after `done()`.
- `CursorsMonotone`: no step moves a cursor back.
- `Refinement`: under both assumptions the queue implements `OrderedIntake`. Claiming the head
  of an idle lane is `Begin`; a crash is a stutter and the restart is `Resume`; a crash in the
  middle of `fail()` settles one job, and so does an error there; any other end of a thread is a
  stutter.

`SlackWorkerProofs`. Each step of the worker is a step of the queue or leaves the queue alone
(`QueueStep`); so the worker is a client of the queue, and what is proved of the queue holds in
the worker. The rest is about what a handler knows at each step:

- `WorkerTypes`, `WorkerIsAClient` (`WorkerSpec => Spec`), `QueueInWorker` (`IInv` in the
  worker), `WorkerKeepsOrder` (`OrderPerAuthor`, assuming `FixedLayout`).
- `NothingSkips`: `NothingSkipsTheChecks`. `DecisionsTraced` adds where a decision came from
  for every place a handler can be at, and `LanesApart` which places belong to which lane; the
  action `Traces` says how a step may change what is on record.
- `RemovedAreTold`: `RemovalIsNotified`, assuming that Slack refuses no call, as a refused
  notice is skipped on purpose. `RemovalsTold` and `ToldBy` relate the stage of a job to the
  notice its author got.
- `HeldIsGoneAlways`, `CopyReplaces`: `HeldMeansGone` and `NoCopyBesideOriginal`, assuming
  `RefusalsSpareSplits`: if Slack may refuse calls, the rules find no split numbers. That the
  assumption is needed is what `finding_held_visible` shows. The argument: a message that is
  gone never comes back, what a thread is about to do was written in its stage first, and the
  stage that counts as held is only reached after the message was deleted (`HeldIsGone`).
- `AuditTellsTruth`: `AuditIsTrue`, assuming that Slack refuses no call and `SteadyVerdicts`:
  the attempts of a job may differ, but they neither warn about what another removes, nor
  remove other messages with it, nor, in a hold channel, release a message that another
  removes together with others. A stage reached for one decision is taken for the other's
  otherwise; `finding_audit` shows it for refused calls. `AuditInv` says that a handler is true
  to what its lane decided (`TrueToVerdict`) and that what a removal is about is gone once
  handler or stage are past the deletes (`RemovedIsGone`); the deep lane and the memory of the
  process enter by `MemoryWritten` (whatever is remembered was written) and `HeldByPolicy`.
- `GoneIsAlwaysAccountedFor`: `GoneIsAccountedFor`, assuming that Slack refuses no call,
  `DecidedAlone` (no message is removed for what it completes with others) and `SureVerdicts`
  (attempts agree on whether to remove). `finding_hold_name` and `finding_split_crash` show that
  the first two are needed; the third is the wavering verdict described above. `AccountInv`
  follows a message from its delete to its trace: a handler deletes only its own message
  (`DeletesOwn`), a held one comes back if it may (`HeldComesBack`), every deep job of a hold
  channel is of a held message (`DeepIsHeld`), and whoever returns has answered
  (`RemovalsAnswered`).
- `RepeatsAreExplained`: `RepeatsExplained`, with no assumption. `RepeatsInv` counts: what a
  stage stands for was done as often as repeats explain, and once more if row or handler know
  of it. That is inductive because a handler is never behind its stage (`StageAhead`), so that a
  record only ever adds to what is known, and because the rules decide which of the two jobs of
  a message posts and notifies (`LaneByRule`, `DeepUnfound`). Messages that complete a finding
  are left out of the second half: the rules may find it in one attempt and not in the next,
  and then both lanes notify.
- `SplitsAreRemoved`: `SplitIsRemoved` as long as the process was not stopped, assuming
  `PlainSplits`: the window holds all messages of an author, the parts of a finding are not
  edited, no message is held, Slack refuses no call, and verdicts are steady. A crash
  may leave a part out of the rebuilt window (`finding_split_window`), a held part comes back when
  its own deep job releases it (`finding_split_hold`), a window that is too small or has an edit
  in the place of a part does not show it, and a deletion that Slack refuses ends in a warning. `SplitInv` relates the queue to the
  window: the triage job of the last part is handled after those of the earlier ones
  (`OrderFollows`), what triage passed on to the deep lane is in the window or gone (`PassedOn`),
  and only what is gone is forgotten (`ForgetsGone`, from `RemovedIsGone`). So when the rules miss
  a part, it is gone, its job died without a decision, or it was stored later
  (`MissedForAReason`), and that stays so (`MissStays`). That the window drops nothing that fits
  is a pigeonhole argument (`AddKeepsAll`, `WithoutKeepsRest`).
- `WorkerTypesAlways` and `WorkerInvariance`: `WorkerTypeOK`, the size of the windows included,
  and all of these parts together, `WorkerInv`.

`StartupProofs`: `ReloadInvariance` and `ValidPolicyInForce`, for any number of threads
and edits, by `ReloadInv` (a thread about to assign holds a valid version that was written).
`ReloadInvOnceStarted` carries that over to the process as it is started (the
first load of the policy is one more thread); `OnlyConfiguredRuns`: no process runs without its
tokens, numbers and a valid policy; `PlainPolicyIsMeant`: `AcceptedMeansWhatItSays` for every
document, finding and rule; `PrecedenceIsKept`: `PrecedenceKept` for any variables and sources.
`StartInv` adds what each phase has already seen to be in order, and which sources it has read.

`RestoreTicketsProofs`: `TicketInvariance` and `RestoredAtMostOnce`. A ticket that left the
store has one holder, and no id is given out twice. `CopyIsReplaced`: `CopyReplaced`, because the
holder deletes the copy before it posts the original (`CopyFirst`).

`SlackPoolProofs`, for any number of threads, slots and broken exchanges: `PoolInvariance` and
`SlotsAreKept` (`EachSlotInOnePlace`), by the inductive invariant that the stack has no slot
twice and none that a call or the warmer holds; `RepeatsHaveReasons`: a request is acted on at
most three times, and more than once only because exchanges broke, which is what is true of
`EffectOnce`.

`PipelineProofs`: `PipelineInvariance`, `RulesStand` (`RuleHitStands`) and `TriageDeletes`
(`RulesDeleteInTriage`), for any number of runs, policies, messages and answers. `PipelineInv`
has four parts. `OrderInv`: a run whose rules found something submits no check. `TasksWait`: what
waits for the executor waits once. `LanesAgree`, as
long as the first policy is in force: up to the model checks `run()` has decided what
`fast_check()` has, though `run()` goes on to the split check only when nothing but `allow` is
decided and `fast_check()` whenever nothing removing is. `OrderOfFindings`
(`DecideIsMostSevere`): what `decide()` folds together is the most severe of the actions on single
findings (`DecideLoop`, `MostSevereIs`), for any list of findings. `NothingOverlooked`
(`AllowedForAReason`) needs that for joined lists (`AllowedInPart`), and the fourth part,
`NothingAgainst`: as long as nothing that stands is decided, all that was found and heard so far is
allowed, by a policy of the time, and the answers that were heard are final.

`ConversationProofs`, for any scripts of the author, answers, policy, size and age of the
window, lengths of cards, and texts of any length:

- `ConversationInvariance`: `ConversationInv`. What add and the removals do to a window in order is
  said once (`AddDoes`, `OthersEnd`, `RecentIs`); triage has three outcomes (`JudgeIs`); and the
  window that a restart rebuilds is followed message by message (`Built`, `RebuildLoop`).
  `Remembered` cannot be proved without the other parts: that a row survives an edit of a message
  outside it needs the times in order, and that it survives a restart needs that its messages
  were judged.
- `ShortMemory`: `JoinedAreCurrent`. What triage looks at is in the window or under review
  (`ChainFacts`).
- `SplitsAreCaught`: `StandingSplitCaught`, assuming `RemovesSplits`. A stretch that ends with the
  message under review is the end of what triage looks at (`StretchIsSeen`, from `Remembered`);
  texts that end alike have digit groups that end alike (`GroupsOfEnd`); so a card that stays in
  the stretch is a hit (`StayingIsHit`), some hit comes first and has the latest digits in it
  (`SplitHitUses`), and acting on that one takes a message of the stretch away.
- `LookAlikes`: `LookAlikesAnchored`, by induction over the tokens in both directions
  (`PassesAnchorRows`). `ChecksumTellsDigits`: `OneDigitMatters`, because doubling permutes the
  digits (`LuhnDigit`) and the rest of the sum is the same (`OneDigitChanged`).
- `MaskedStayHidden`: `MaskedCardsStayHidden`. Every copy is the mask of its text (`StepCopies`).
  The pieces beside a mask are no part of a word (`BesideFinding`), so the digit groups of a copy
  are those of the text that no mask touches (`UnmaskedGroups`), and what the card rule matches in
  the copy are its matches in the text that no finding touches (`MaskedMatches`, where the
  exception is needed: a match that is only cut would be followed by other matches). Those had
  failed their check, or `detect` would have a finding there (`DetectIs`).

The prover cannot instantiate induction theorems that take an operator. `FoldProofs` does
without: `LeastNat` gives least elements from the well-foundedness of strict inclusion on finite
sets, `Induction` and `InductionTo` are about a set of numbers, and `FoldExists`, `LoopExists` and
`LoopOfFixpoint` give the function that a fold or a recursive function is the value of.

Only model-checked: all liveness (`EveryJobSettles`, `EverySentIsJudged`,
`EditsApplyOnceStarted`, `EveryCallEnds`, `EveryRunDecides`), which is out of the prover's
reach under fairness; `PlainCardIsFound`, which compares the layers of rules with patterns of
pieces; and `ModelHitsAreTyped`, which counts digits in folded texts.

## Not modelled

The tables of emoji, scripts and number words and the entropy of keys (string
processing that the properties do not tell apart); the `defaults` section of a policy, whose
entries are typed like those of a rule; prompts, schemas and the HTTP client of the model (an
answer is a choice); pages and the limit of 1000 messages of the catch-up; the health endpoint
and logging (I/O without state that others depend on); scripts, dashboard, evaluation and
deployment, which work offline or are shell. `PROJECT.json` lists each with its reason.

## Plan

1. Compositions: the worker over `Pipeline` in place of a set of verdicts, with channel rules
   by name; the worker over the outcomes of `SlackPool` (a call with two effects); restore
   tickets in the worker's notice step.
2. Theorems: `ModelHitsAreTyped`, from what the bags of `_verify` count; `SplitIsRemoved` after a crash
   that falls outside the gap between `done` and `advance_cursor`.
