--------------------------- MODULE RestoreTickets ---------------------------
(***************************************************************************)
(* Restoring a redacted message: the in-memory RestoreStore of             *)
(* src/adapters/redaction_restore.py, filled by Worker.notify while it     *)
(* posts the redacted copy, and emptied by Worker.restore_redaction when   *)
(* managers press the button of that copy, several at once if they like.   *)
(***************************************************************************)
EXTENDS Naturals

CONSTANTS
  Tickets,         \* restore ids, one for each attempt to post a redacted copy
  Clicks,          \* presses of a button
  TTL,             \* REDACTION_RESTORE_TTL_SECONDS
  MaxTime,         \* bound: how long time goes on
  CallsFail        \* may a call to Slack be refused, fail, or lose its answer?

ASSUME TicketAssumption == TTL \in Nat /\ MaxTime \in Nat /\ CallsFail \in BOOLEAN

VARIABLES
  kept,            \* ids in RestoreStore._items
  born,            \* born[t]: created_at
  attached,        \* tickets whose redacted_ts is set
  copy,            \* copy[t]: the redacted copy in the channel
  maker,           \* maker[t]: where the notify() that makes t is
  click,           \* click[c]: where the handler of press c is, and for which ticket
  restored,        \* restored[t]: how often the original was posted
  now

vars == <<kept, born, attached, copy, maker, click, restored, now>>

NoTicket == "noTicket"

TypeOK ==
  /\ kept \subseteq Tickets /\ attached \subseteq Tickets
  /\ born \in [Tickets -> 0..MaxTime]
  /\ copy \in [Tickets -> {"none", "shown", "deleted"}]
  /\ maker \in [Tickets -> {"idle", "created", "posted", "end"}]
  /\ click \in [Clicks -> [at : {"idle", "popped", "delete", "post", "told"},
                           ticket : Tickets \cup {NoTicket}, refused : BOOLEAN]]
  /\ restored \in [Tickets -> Nat]
  /\ now \in 0..MaxTime

Init ==
  /\ kept = {} /\ attached = {} /\ now = 0
  /\ born = [t \in Tickets |-> 0]
  /\ copy = [t \in Tickets |-> "none"]
  /\ maker = [t \in Tickets |-> "idle"]
  /\ click = [c \in Clicks |-> [at |-> "idle", ticket |-> NoTicket, refused |-> FALSE]]
  /\ restored = [t \in Tickets |-> 0]

Age(t) == now - born[t]

\* create: prune what is older than the limit, then store the original.
Create(t) ==
  /\ maker[t] = "idle"
  /\ kept' = {u \in kept : Age(u) <= TTL} \cup {t}
  /\ born' = [born EXCEPT ![t] = now]
  /\ maker' = [maker EXCEPT ![t] = "created"]
  /\ UNCHANGED <<attached, copy, click, restored, now>>

\* The copy is posted, with its button; or the post raises, with or without an effect, and
\* the retry of the job makes another ticket.
PostCopy(t) ==
  /\ maker[t] = "created"
  /\ \/ /\ copy' = [copy EXCEPT ![t] = "shown"]
        /\ maker' = [maker EXCEPT ![t] = "posted"]
     \/ /\ CallsFail
        /\ copy' \in {copy, [copy EXCEPT ![t] = "shown"]}
        /\ maker' = [maker EXCEPT ![t] = "end"]
  /\ UNCHANGED <<kept, born, attached, click, restored, now>>

\* attach_redacted: finds the ticket only while it is in the store.
Attach(t) ==
  /\ maker[t] = "posted"
  /\ attached' = IF t \in kept THEN attached \cup {t} ELSE attached
  /\ maker' = [maker EXCEPT ![t] = "end"]
  /\ UNCHANGED <<kept, born, copy, click, restored, now>>

\* A manager saw the button of the copy; consume takes the ticket out of the store ...
Peek(t) == kept
Pop(t) == kept \ {t}
Press(c, t) ==
  /\ click[c].at = "idle"
  /\ copy[t] # "none"
  /\ click' = [click EXCEPT ![c] = [at |-> IF t \in kept THEN "popped" ELSE "told",
                                    ticket |-> t, refused |-> FALSE]]
  /\ kept' = Pop(t)
  /\ UNCHANGED <<born, attached, copy, maker, restored, now>>

\* ... and only then, without the lock, looks at its age.
Fresh(t) == Age(t) <= TTL
PostAtOnce(t) == "post"
AfterConsume(t) == IF t \in attached THEN "delete" ELSE "post"
CheckAge(c) ==
  /\ click[c].at = "popped"
  /\ click' = [click EXCEPT ![c].at = IF Fresh(click[c].ticket)
                                          THEN AfterConsume(click[c].ticket) ELSE "told"]
  /\ UNCHANGED <<kept, born, attached, copy, maker, restored, now>>

\* A refusal to delete the copy is logged and passed over; another exception ends the
\* handler, and the ticket is lost.
DeleteCopy(c) ==
  /\ click[c].at = "delete"
  /\ \/ /\ copy' = [copy EXCEPT ![click[c].ticket] = "deleted"]
        /\ click' = [click EXCEPT ![c].at = "post"]
     \/ /\ CallsFail
        /\ click' = [click EXCEPT ![c].at = "post", ![c].refused = TRUE]
        /\ UNCHANGED copy
     \/ /\ CallsFail
        /\ copy' \in {copy, [copy EXCEPT ![click[c].ticket] = "deleted"]}
        /\ click' = [click EXCEPT ![c].at = "told"]
  /\ UNCHANGED <<kept, born, attached, maker, restored, now>>

PostOriginal(c) ==
  /\ click[c].at = "post"
  /\ \/ restored' = [restored EXCEPT ![click[c].ticket] = @ + 1]
     \/ CallsFail /\ UNCHANGED restored
  /\ click' = [click EXCEPT ![c].at = "told"]
  /\ UNCHANGED <<kept, born, attached, copy, maker, now>>

\* The process ends: the store is gone, and with it what was under way.
Crash ==
  /\ kept # {}
  /\ kept' = {}
  /\ maker' = [t \in Tickets |-> IF maker[t] = "idle" THEN "idle" ELSE "end"]
  /\ click' = [c \in Clicks |-> IF click[c].at = "idle" THEN click[c]
                                ELSE [click[c] EXCEPT !.at = "told"]]
  /\ UNCHANGED <<born, attached, copy, restored, now>>

Tick ==
  /\ now < MaxTime
  /\ now' = now + 1
  /\ UNCHANGED <<kept, born, attached, copy, maker, click, restored>>

Next ==
  \/ \E t \in Tickets : Create(t) \/ PostCopy(t) \/ Attach(t)
  \/ \E c \in Clicks : \/ \E t \in Tickets : Press(c, t)
                       \/ CheckAge(c) \/ DeleteCopy(c) \/ PostOriginal(c)
  \/ Crash
  \/ Tick

Spec == Init /\ [][Next]_vars
-----------------------------------------------------------------------------
\* slack_worker.py:358-360 "That restore link expired or was already used": however many
\* managers press the button at once, and whatever calls fail, the original is posted at
\* most once.
RestoredOnce == \A t \in Tickets : restored[t] <= 1

\* slack_worker.py:361-365: when the original is back, its redacted copy is gone, provided
\* that the store had learned of the copy when the button was pressed, and unless Slack
\* refused to delete it.
Replaced(t) == copy[t] = "deleted" \/ \E c \in Clicks : click[c].ticket = t /\ click[c].refused
CopyReplaced == \A t \in Tickets : restored[t] > 0 /\ t \in attached => Replaced(t)
-----------------------------------------------------------------------------
\* Sentences of the documentation that the code keeps only with restrictions (README.md
\* says which): no run that passes checks them.

\* README.md:143 "Originals are held only in memory for REDACTION_RESTORE_TTL_SECONDS".
HeldForTTL == \A t \in kept : Age(t) <= TTL
-----------------------------------------------------------------------------
\* The inductive invariant behind RestoredOnce and CopyReplaced.

Working(c) == click[c].at \in {"popped", "delete", "post"}

\* A ticket that is taken out of the store is in the hands of one press, which alone can
\* still post the original; ids are never given out again.
OneHolder ==
  /\ \A t \in kept : maker[t] # "idle" /\ restored[t] = 0
  /\ \A t \in Tickets : maker[t] = "idle" => copy[t] = "none" /\ restored[t] = 0
  /\ \A c \in Clicks : Working(c) => /\ click[c].ticket \in Tickets \ kept
                                     /\ maker[click[c].ticket] # "idle"
                                     /\ restored[click[c].ticket] = 0
  /\ \A c, d \in Clicks : Working(c) /\ Working(d) /\ c # d
                            => click[c].ticket # click[d].ticket

\* A press that is about to post the original has seen to the copy, if the store knew of it;
\* no copy is posted after one was deleted, and no refusal is forgotten.
CopyFirst ==
  /\ \A t \in Tickets : maker[t] \in {"idle", "created"} => copy[t] = "none"
  /\ \A c \in Clicks :
       /\ click[c].at = "idle" => ~ click[c].refused
       /\ Working(c) => maker[click[c].ticket] # "created"
       /\ click[c].at = "post" /\ click[c].ticket \in attached => Replaced(click[c].ticket)
  /\ CopyReplaced

TicketInv == TypeOK /\ OneHolder /\ RestoredOnce
CopyInv == TicketInv /\ CopyFirst
=============================================================================
