------------------------ MODULE RestoreTicketsProofs ------------------------
(***************************************************************************)
(* However many tickets and presses there are, an original comes back at   *)
(* most once, and then its redacted copy is gone.                          *)
(***************************************************************************)
EXTENDS RestoreTickets, TLAPS

\* Every step keeps the types of the state and the single holder of a ticket.
LEMMA NextTicketInv == TicketInv /\ [Next]_vars => TicketInv'
<1> SUFFICES ASSUME TicketInv, [Next]_vars PROVE TicketInv'
  OBVIOUS
<1> USE TicketAssumption DEF TicketInv, TypeOK, OneHolder, RestoredOnce, Working
<1>1. ASSUME NEW t \in Tickets, Create(t) PROVE TicketInv'
  BY <1>1 DEF Create
<1>2. ASSUME NEW t \in Tickets, PostCopy(t) PROVE TicketInv'
  BY <1>2 DEF PostCopy
<1>3. ASSUME NEW t \in Tickets, Attach(t) PROVE TicketInv'
  BY <1>3 DEF Attach
<1>4. ASSUME NEW c \in Clicks, NEW t \in Tickets, Press(c, t) PROVE TicketInv'
  BY <1>4 DEF Press, Pop
<1>5. ASSUME NEW c \in Clicks, CheckAge(c) PROVE TicketInv'
  BY <1>5 DEF CheckAge, AfterConsume
<1>6. ASSUME NEW c \in Clicks, DeleteCopy(c) PROVE TicketInv'
  BY <1>6 DEF DeleteCopy
<1>7. ASSUME NEW c \in Clicks, PostOriginal(c) PROVE TicketInv'
  BY <1>7 DEF PostOriginal
<1>8. CASE Crash
  BY <1>8 DEF Crash
<1>9. CASE Tick
  BY <1>9 DEF Tick
<1>10. CASE UNCHANGED vars
  BY <1>10 DEF vars
<1> QED
  BY <1>1, <1>2, <1>3, <1>4, <1>5, <1>6, <1>7, <1>8, <1>9, <1>10 DEF Next

\* The inductive invariant of the restore tickets holds in every reachable state.
THEOREM TicketInvariance == Spec => []TicketInv
<1>1. Init => TicketInv
  BY TicketAssumption DEF Init, TicketInv, TypeOK, OneHolder, RestoredOnce, Working, NoTicket
<1> QED
  BY <1>1, NextTicketInv, PTL DEF Spec

\* No number of concurrent presses, failed calls and restarts brings an original back twice.
THEOREM RestoredAtMostOnce == Spec => []RestoredOnce
<1>1. TicketInv => RestoredOnce
  BY DEF TicketInv
<1> QED
  BY <1>1, TicketInvariance, PTL

\* A copy that was seen to stays so, as long as it is not posted again and no refusal is
\* forgotten.
LEMMA StaysReplaced ==
  ASSUME NEW t \in Tickets, Replaced(t),
         copy[t] = "deleted" => copy'[t] = "deleted",
         \A c \in Clicks : click[c].refused => /\ click'[c].refused
                                              /\ click'[c].ticket = click[c].ticket
  PROVE  Replaced(t)'
BY DEF Replaced

\* Every step keeps CopyFirst: only a ticket that is still in the store is attached, and no
\* press holds it.
LEMMA NextCopyFirst == CopyInv /\ [Next]_vars => CopyFirst'
<1> SUFFICES ASSUME CopyInv, [Next]_vars PROVE CopyFirst'
  OBVIOUS
<1> USE TicketAssumption DEF CopyInv, TicketInv, TypeOK, OneHolder, CopyFirst, CopyReplaced,
        Working
<1>1. ASSUME NEW t \in Tickets, Create(t) PROVE CopyFirst'
  BY <1>1 DEF Create, Replaced
<1>2. ASSUME NEW t \in Tickets, PostCopy(t) PROVE CopyFirst'
  BY <1>2 DEF PostCopy, Replaced
<1>3. ASSUME NEW t \in Tickets, Attach(t) PROVE CopyFirst'
  BY <1>3 DEF Attach, Replaced
<1>4. ASSUME NEW c \in Clicks, NEW t \in Tickets, Press(c, t) PROVE CopyFirst'
  <2>1. /\ click[c].at = "idle" /\ click'[c].at \in {"popped", "told"}
        /\ click'[c].refused = FALSE /\ copy[click'[c].ticket] # "none"
        /\ \A d \in Clicks \ {c} : click'[d] = click[d]
        /\ UNCHANGED <<attached, copy, maker, restored>>
    BY <1>4 DEF Press
  <2>2. ASSUME NEW u \in Tickets, Replaced(u) PROVE Replaced(u)'
    BY <2>1, <2>2, StaysReplaced
  <2> QED
    BY <1>4, <2>1, <2>2 DEF Press
<1>5. ASSUME NEW c \in Clicks, CheckAge(c) PROVE CopyFirst'
  BY <1>5 DEF CheckAge, AfterConsume, Replaced
<1>6. ASSUME NEW c \in Clicks, DeleteCopy(c) PROVE CopyFirst'
  <2>1. /\ click[c].at = "delete" /\ click'[c].ticket = click[c].ticket
        /\ click[c].refused => click'[c].refused
        /\ click'[c].at \in {"post", "told"}
        /\ \A d \in Clicks \ {c} : click'[d] = click[d]
        /\ UNCHANGED <<attached, maker, restored>>
    BY <1>6 DEF DeleteCopy
  <2>2. \/ copy' = [copy EXCEPT ![click[c].ticket] = "deleted"]
        \/ copy' = copy /\ (click'[c].at = "post" => click'[c].refused)
    BY <1>6 DEF DeleteCopy
  <2>3. ASSUME NEW u \in Tickets, Replaced(u) PROVE Replaced(u)'
    BY <2>1, <2>2, <2>3, StaysReplaced
  <2>4. click'[c].at = "post" => Replaced(click[c].ticket)'
    BY <2>1, <2>2 DEF Replaced
  <2> QED
    BY <2>1, <2>2, <2>3, <2>4
<1>7. ASSUME NEW c \in Clicks, PostOriginal(c) PROVE CopyFirst'
  <2>1. /\ click[c].at = "post" /\ click'[c].at = "told" /\ click'[c].ticket = click[c].ticket
        /\ click'[c].refused = click[c].refused
        /\ \A d \in Clicks \ {c} : click'[d] = click[d]
        /\ \A u \in Tickets \ {click[c].ticket} : restored'[u] = restored[u]
        /\ UNCHANGED <<attached, copy, maker>>
    BY <1>7 DEF PostOriginal
  <2>2. ASSUME NEW u \in Tickets, Replaced(u) PROVE Replaced(u)'
    BY <2>1, <2>2, StaysReplaced
  <2> QED
    BY <2>1, <2>2
<1>8. CASE Crash
  BY <1>8 DEF Crash, Replaced
<1>9. CASE Tick \/ UNCHANGED vars
  BY <1>9 DEF Tick, vars, Replaced
<1> QED
  BY <1>1, <1>2, <1>3, <1>4, <1>5, <1>6, <1>7, <1>8, <1>9 DEF Next

\* When an original is back, the copy that the store had learned of is deleted, unless Slack
\* refused: for any number of tickets, presses, failed calls and restarts.
THEOREM CopyIsReplaced == Spec => []CopyReplaced
<1>1. Init => CopyFirst
  BY DEF Init, CopyFirst, CopyReplaced, Replaced, Working
<1>2. CopyInv /\ [Next]_vars => CopyInv'
  BY NextTicketInv, NextCopyFirst DEF CopyInv
<1>3. CopyInv => CopyReplaced
  BY DEF CopyInv, CopyFirst
<1> QED
  BY <1>1, <1>2, <1>3, TicketInvariance, PTL DEF Spec, CopyInv
=============================================================================
