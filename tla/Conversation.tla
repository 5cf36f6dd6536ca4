----------------------------- MODULE Conversation -----------------------------
(***************************************************************************)
(* What one author writes in one channel, and what Blackline makes of it:  *)
(* src/src/blackline/window.py with the detectors, fast_check, run and the *)
(* policy around it.  The messages are judged one at a time and in order,  *)
(* as the queue has it (JobQueue), and may wait; a deep check answers at   *)
(* any time later, about the messages it was shown.  A restart rebuilds    *)
(* the window from the channel history.                                    *)
(*                                                                         *)
(* An event is a message as posted or as edited.  Calls to Slack do as     *)
(* they are meant to here (SlackWorker has those that do not).             *)
(***************************************************************************)
EXTENDS Tier1

Pol == INSTANCE PolicyDecide

CONSTANTS
  Scripts,         \* what the author may do: sequences of [id, text], an edit has an earlier id
  Answers,         \* what the model may answer: [window, encoded, single]
  Policy,          \* as PolicyDecide has it, with tier1_trigger as trigger
  WindowSize,      \* MAX_MESSAGES
  MaxAge,          \* MAX_AGE_S
  MaxTime          \* bound: the end of the clock

ASSUME WindowAssumption == WindowSize \in Nat \ {0} /\ MaxAge \in Nat /\ MaxTime \in Nat
EventRecords == [id : Nat, text : Seq(Pieces)]
ASSUME ScriptsAssumption ==
  \A s \in Scripts :
    /\ s \in Seq(EventRecords)
    /\ \A e \in DOMAIN s : s[e].id \in 1..e /\ s[s[e].id].id = s[e].id

VARIABLES
  script,          \* what the author does in this behaviour
  clock,           \* time.time()
  sentAt,          \* sentAt[e]: time of the event e; those sent are the first of the script
  judgedAt,        \* judgedAt[e]: when triage took it up
  window,          \* deque of the author: [id, text, at], oldest first
  gone,            \* messages that were removed
  deep,            \* deep[e]: what the deep job of e was given, its messages in order
  copies,          \* masked copies: [of, found, text], what was found in which message
  hits             \* removals of several messages: [by, parts, entity, value, upTo], after so
                   \* many events were judged

vars == <<script, clock, sentAt, judgedAt, window, gone, deep, copies, hits>>

Sent == DOMAIN sentAt
Judged == DOMAIN judgedAt
Event(e) == script[e]
NoChain == <<>>

Init ==
  /\ script \in Scripts
  /\ clock = 0
  /\ sentAt = <<>> /\ judgedAt = <<>>
  /\ window = <<>>
  /\ gone = {}
  /\ deep = <<>>
  /\ copies = {}
  /\ hits = {}
-----------------------------------------------------------------------------
Suffix(s, n) == SubSeq(s, Max({1, Len(s) - n + 1}), Len(s))

\* recent: what is too old goes, from the oldest on; the message itself is left out.
AnyAge(w, now) == w
Recent(w, now) == LET first == SelectInSeq(w, LAMBDA m : now - m.at <= MaxAge)
                    IN  IF first = 0 THEN <<>> ELSE SubSeq(w, first, Len(w))
Others(w, ids) == SelectAt(w, {i \in DOMAIN w : w[i].id \notin ids})
Chain(w, ev) == Append(Others(w, {ev.id}), ev)

\* add: an edit replaces the earlier text where it stands.
AddUnbounded(w, m) == Append(w, m)
Add(w, m) ==
  IF \E i \in DOMAIN w : w[i].id = m.id
  THEN [i \in DOMAIN w |-> IF w[i].id = m.id THEN [m EXCEPT !.at = w[i].at] ELSE w[i]]
  ELSE Suffix(Append(w, m), WindowSize)

Texts(chain) == [i \in DOMAIN chain |-> chain[i].text]
Ids(chain, used) == {chain[i].id : i \in used}
Parts(chain, used) == {[id |-> chain[i].id, text |-> chain[i].text] : i \in used}
-----------------------------------------------------------------------------
\* _split_decision: the finding covers the message under review.
Across(chain, entity, confidence) ==
  <<Finding(entity, 1, Len(Last(chain).text), confidence, "split")>>
RuleSplit(chain, h) ==
  IF Len(chain) < 2 \/ h = NoHit THEN <<>> ELSE Across(chain, h.entity, 90)

Decide(fs) == Pol!Decide(Policy, fs, FALSE)

\* notify: what is posted in place of a removed message, when that shows some of it.
Obfuscated(fs) == \E k \in DOMAIN fs : fs[k].note = "obfuscated"
CopiesOf(action, t, fs) ==
  IF action # "mask" \/ Obfuscated(fs) THEN {}
  ELSE LET found == SelectSeq(fs, LAMBDA f : f.subject # "self")
       IN  {[of |-> t, found |-> found, text |-> Mask(t, found)]}

\* The message alone is removed, for what was found in it.
RemoveOne(ev, w, action, fs) ==
  /\ window' = Others(w, {ev.id})
  /\ gone' = gone \cup {ev.id}
  /\ copies' = copies \cup CopiesOf(action, ev.text, fs)
  /\ UNCHANGED hits

\* All messages of a number that was split are removed.
RemoveParts(chain, w, used, by, entity, value) ==
  /\ window' = Others(w, Ids(chain, used))
  /\ gone' = gone \cup Ids(chain, used)
  /\ hits' = hits \cup {[by |-> by, parts |-> Parts(chain, used), entity |-> entity,
                         value |-> value, upTo |-> Len(judgedAt')]}
  /\ UNCHANGED copies

Keep(w) == window' = w /\ UNCHANGED <<gone, copies, hits>>
-----------------------------------------------------------------------------
\* The author posts or edits; a message that was removed cannot be edited.
Write ==
  LET e == Len(sentAt) + 1
  IN  /\ e \in DOMAIN script /\ script[e].id \notin gone
      /\ sentAt' = Append(sentAt, clock)
      /\ UNCHANGED <<script, clock, judgedAt, window, gone, deep, copies, hits>>

\* What the rules find in a text is a function of the text.
RulesFind == [t \in UNION {ToSet(Texts(s)) : s \in Scripts} |-> DetectAll(t)]

\* triage, with fast_check: the rules on the message, and on it and the recent ones.
FastCheck(found, split) ==
  Pol!FastCheck(Policy, [found |-> found, split |-> split, guests |-> FALSE])
Triage(ev, recent, chain, found, h) ==
  LET verdict == FastCheck(found, RuleSplit(chain, h))
      alone == found # <<>> /\ Decide(found) \in Pol!Removing
  IN  IF verdict = Pol!NoAction
      THEN /\ Keep(Add(recent, [id |-> ev.id, text |-> ev.text, at |-> clock]))
           /\ deep' = Append(deep, chain)
      ELSE /\ deep' = Append(deep, NoChain)
           /\ IF alone THEN RemoveOne(ev, recent, verdict, found)
              ELSE RemoveParts(chain, recent, h.used, "rules", h.entity, <<>>)
TriageIn(ev, recent, chain) ==
  Triage(ev, recent, chain, RulesFind[ev.text], SplitHit(Texts(chain)))
Judge ==
  LET e == Len(judgedAt) + 1
      recent == Recent(window, clock)
  IN  /\ e \in Sent
      /\ judgedAt' = Append(judgedAt, clock)
      /\ TriageIn(Event(e), recent, Chain(recent, Event(e)))
      /\ UNCHANGED <<script, clock, sentAt>>

\* deep, with run: what the rules left open is decided by what the model answers to the checks
\* that are worth asking; an answer that does not come is an empty one.
Items(chain, a) == IF WorthAsking(Texts(chain)) THEN WindowHits(Texts(chain), a.window) ELSE <<>>
Encoded(t, a) == IF LooksEncoded(t) THEN EncodedHits(t, a.encoded) ELSE <<>>
Ruled(found, split) == IF Decide(found) # "allow" THEN Decide(found) ELSE Decide(split)
Windowed(chain, items) ==
  IF items = <<>> THEN "allow" ELSE Decide(Across(chain, items[1].entity, items[1].confidence))
Run(chain, ruled, items, windowed, encoded, single) ==
  LET ev == Last(chain)
      findings == IF Decide(encoded) # "allow" THEN encoded ELSE single
  IN  IF ruled # "allow" \/ Policy.trigger = "never" THEN Keep(window)
      ELSE IF windowed # "allow"
      THEN IF windowed \in Pol!Removing
           THEN RemoveParts(chain, window, items[1].numbers, "model", items[1].entity,
                            items[1].value)
           ELSE Keep(window)
      ELSE IF Decide(findings) \in Pol!Removing
           THEN RemoveOne(ev, window, Decide(findings), findings)
           ELSE Keep(window)
RunOn(chain, text, a, found, split, items) ==
  Run(chain, Ruled(found, split), items, Windowed(chain, items), Encoded(text, a),
      found \o SingleFindings(text, a.single))
Answer(e, a) ==
  LET chain == deep[e]
  IN  /\ chain # NoChain
      /\ UNCHANGED <<script, clock, sentAt, judgedAt>>
      /\ deep' = [deep EXCEPT ![e] = NoChain]
      /\ RunOn(chain, Last(chain).text, a, RulesFind[Last(chain).text],
               RuleSplit(chain, SplitHit(Texts(chain))), Items(chain, a))

\* The process restarts when nothing is under way (SlackWorker has crashes at every step).
\* catch_up: the window is rebuilt from the messages that are visible and not too old, oldest
\* first, as they read now, up to the cursor, which is at the latest message that triage was
\* done with.
Visible == {e \in Sent : Event(e).id = e} \ gone
Reads(id) == script[Max({e \in Sent : Event(e).id = id})].text
Seen == {id \in Visible : /\ sentAt[id] + MaxAge >= clock
                          /\ \E e \in Judged : id <= Event(e).id}
AddSeen(w, id) == IF id \in Seen THEN Add(w, [id |-> id, text |-> Reads(id), at |-> sentAt[id]])
                  ELSE w
Restart ==
  /\ Judged # {}
  /\ window' = FoldLeftDomain(AddSeen, <<>>, sentAt)
  /\ UNCHANGED <<script, clock, sentAt, judgedAt, gone, deep, copies, hits>>

Tick ==
  /\ clock < MaxTime
  /\ clock' = clock + 1
  /\ UNCHANGED <<script, sentAt, judgedAt, window, gone, deep, copies, hits>>

Next ==
  \/ Write \/ Judge \/ Restart \/ Tick
  \/ \E e \in DOMAIN deep, a \in Answers : Answer(e, a)

Spec == Init /\ [][Next]_vars
-----------------------------------------------------------------------------
WindowRecords == [id : Nat, text : Seq(Pieces), at : Nat]
ConversationTypeOK ==
  /\ script \in Scripts /\ clock \in 0..MaxTime
  /\ sentAt \in Seq(0..clock) /\ judgedAt \in Seq(0..clock)
  /\ Len(judgedAt) <= Len(sentAt) /\ Len(sentAt) <= Len(script)
  /\ window \in Seq(WindowRecords)
  /\ deep \in Seq(Seq(EventRecords \cup WindowRecords)) /\ DOMAIN deep = Judged
  /\ \A h \in hits : h.upTo \in Judged

\* window.py:48: the window is bounded, has a message once, and its times are in order, through
\* edits and restarts too.
WindowInOrder ==
  /\ Len(window) <= WindowSize
  /\ \A i, j \in DOMAIN window : i < j => /\ window[i].id # window[j].id
                                        /\ window[i].at <= window[j].at
  /\ \A i \in DOMAIN window : window[i].at <= clock
  /\ \A i, j \in Sent : i < j => sentAt[i] <= sentAt[j]
  /\ \A e \in Judged : sentAt[e] <= judgedAt[e]

\* window.py:41 "an edit replaces the earlier text": what is in the window was judged, and reads
\* as when it was judged last or since.  But a version for which triage removed other messages
\* leaves the window with the earlier text.
RuleHits == {h \in hits : h.by = "rules"}
Completing == {h.upTo : h \in RuleHits}
ReadsAs(p, n) ==
  \E e \in Sent : Event(e) = p /\ \A d \in e + 1..n : Event(d).id = p.id => d \in Completing
WindowIsCurrent ==
  \A m \in ToSet(window) : /\ ReadsAs([id |-> m.id, text |-> m.text], Len(judgedAt))
                           /\ \E e \in Judged : Event(e).id = m.id /\ m.at <= judgedAt[e]

\* Messages that are as they were posted.
AsPosted(i, j) == /\ \A e \in i..j : Event(e).id = e /\ e \notin gone
                  /\ \A e \in Sent : Event(e).id \in i..j => Event(e).id = e

\* What was posted in a row up to the message judged last, is as it was posted, fits into the
\* window and is not too old ends the window, if no message of the row completed a number.
Remembered ==
  LET n == Len(judgedAt)
      At(k) == window[Len(window) - (n - k)]
  IN  \A i \in 1..n : n - i < WindowSize /\ clock - sentAt[i] <= MaxAge
                      /\ AsPosted(i, n) /\ (i..n) \cap Completing = {} =>
        /\ n - i < Len(window)
        /\ \A k \in i..n : At(k).id = k /\ At(k).text = Event(k).text /\ At(k).at >= sentAt[k]

\* The inductive invariant behind StandingSplitCaught and JoinedAreCurrent.
ConversationInv == ConversationTypeOK /\ WindowInOrder /\ WindowIsCurrent /\ Remembered

\* A stretch of messages that were posted one after the other, are as they were posted, and
\* were judged in time to be seen together.  No message before the last one completed a number
\* of other messages, as it would not be in the window then.
Stretch(i, j) == /\ j - i <= WindowSize /\ judgedAt[j] - sentAt[i] <= MaxAge
                 /\ AsPosted(i, j) /\ (i..j - 1) \cap Completing = {}

Ending(e) == {i \in 1..e - 1 : Stretch(i, e)}           \* the stretches that end with e
TextsFrom(i, e) == [k \in 1..e - i + 1 |-> Event(i + k - 1).text]
SplitCard(groups, a, b) ==
  LET digits == FlattenSeq([k \in 1..b - a + 1 |-> groups[a + k - 1].digits])
  IN  b - a < MaxGroups /\ Cardinality({groups[k].msg : k \in a..b}) > 1 /\ IsCard(digits)
HasWord(t) == Mentions(Folded(t), CardWords)
Hidden(texts, used) == \A i \in used : Disguised(texts[i]) \/ Bare(texts[i])

\* Some digit groups up to the last one are a card over several messages, with a word for it in
\* any message, or with digits that are disguised or stand alone.  The word counts too when it
\* comes by itself after the digits.
SplitStays(texts) ==
  LET groups == GroupsOf(texts)
      n == Len(groups)
  IN  \E a \in 1..n - 1 :
        /\ SplitCard(groups, a, n)
        /\ IF DigitGroups(Last(texts)) = <<>> THEN HasWord(Last(texts))
           ELSE \/ \E t \in ToSet(texts) : HasWord(t)
                \/ Hidden(texts, {groups[k].msg : k \in a..n})

\* split.py:1, README.md:82: when triage is done with a message, no stretch that it ends stays
\* with such a card in it, under a policy that removes what is split.
RemovesSplits == \A s \in Scripts, entity \in {"CREDIT_CARD", "CA_SIN"} : \A e \in DOMAIN s :
                   Decide(Across(<<s[e]>>, entity, 90)) \in Pol!Removing
StandingSplitCaught ==
  \A i \in Ending(Len(judgedAt)) : ~ SplitStays(TextsFrom(i, Len(judgedAt)))

\* split.py:59 "older ones were already judged": as above, for digits before the last ones.  It
\* does not hold: they were judged without the word.
WordCountsForOlder ==
  \A i \in Ending(Len(judgedAt)) :
    LET texts == TextsFrom(i, Len(judgedAt))
        groups == GroupsOf(texts)
    IN  HasWord(Last(texts)) => ~ \E a, b \in DOMAIN groups : a < b /\ SplitCard(groups, a, b)

\* window.py:3 "Short memory": what the rules join into a number are messages that triage
\* judged within MaxAge, as they read when it judged them last or since, but for versions that
\* completed a number of other messages.
JoinedAreCurrent ==
  \A h \in RuleHits : \A p \in h.parts :
    /\ ReadsAs(p, h.upTo)
    /\ \E e \in 1..h.upTo : Event(e).id = p.id /\ judgedAt[h.upTo] - judgedAt[e] <= MaxAge

\* window.py:41 "an edit replaces the earlier text", without that exception.  It does not hold:
\* a message whose edit completes a number of other messages is not added to the window.
JoinedAreLatest ==
  \A h \in RuleHits : \A p \in h.parts : \E e \in Sent :
    Event(e) = p /\ \A d \in e + 1..h.upTo : Event(d).id # p.id

\* README.md:79 "It never writes the number", tier1.py:126 "Reject anything the model could
\* have invented": of several messages that are removed on an answer of the model, each was
\* written as the model saw it, and between them they hold every digit of the number as often
\* as the number does.  Of an API key they hold every piece; it may have one more often.
Hold(parts, value) ==
  \A n \in 0..9 :
    LET Times(t) == Cardinality({ik \in UNION {{i} \X DOMAIN t[i].digits : i \in DigitsAt(t)} :
                                   t[ik[1]].digits[ik[2]] = n})
    IN  Times(value) <= MapThenSumSet(LAMBDA p : Times(Folded(p.text)), parts)
HoldPieces(parts, value) ==
  {p \in ToSet(Spelled(value)) : p.kind \notin Blanks}
    \subseteq UNION {ToSet(Spelled(Folded(p.text))) : p \in parts}
ModelHitsAreTyped ==
  \A h \in hits \ RuleHits :
    /\ h.parts \subseteq {Event(e) : e \in Sent}
    /\ Cardinality({p.id : p \in h.parts}) > 1
    /\ IF h.entity = "API_KEY" THEN HoldPieces(h.parts, h.value) ELSE Hold(h.parts, h.value)
-----------------------------------------------------------------------------
\* Properties of the detectors, on every text when it is judged.
JudgedTexts == {Event(e).text : e \in Judged \cap {Len(judgedAt)}}

\* tier0.py:133 "Digit groups with filler between them", README.md:11 and 77: a card that stands
\* by itself is found by the rules on the plain text.  One that is in several groups, linked by
\* blanks, dashes or short fillers, or in all the digits of a disguised message is found, unless
\* those rules found something else: then the other layers are not asked.
Alone(t, i) == /\ Apart(t, i, i)
               /\ \A j \in DigitsAt(t) \ {i} : ~ Grouped(t, Min({i, j}), Max({i, j}))
Links == {<<"space">>, <<"dash">>, <<"marks">>, <<"filler">>, <<"space", "filler", "space">>}
Kind(t, i, j) == [k \in 1..j - i + 1 |-> t[i + k - 1].kind]
Linked(t, i, j) ==
  \A a, b \in DigitsAt(t) \cap i..j :
    a < b /\ DigitsAt(t) \cap a + 1..b - 1 = {} => Kind(t, a + 1, b - 1) \in Links
CardAlone(t) == \E i \in DigitsAt(t) : Alone(t, i) /\ IsCard(t[i].digits)
CardLinked(t) == \E i, j \in DigitsAt(t) : i < j /\ Linked(t, i, j) /\ IsCard(DigitsIn(t, i, j))
CardDisguised(t) == Folded(t) # t /\ \E k \in DOMAIN DigitGroups(t) : IsCard(DigitGroups(t)[k])
Entities(fs) == {f.entity : f \in ToSet(fs)}
PlainCardIsFound ==
  \A t \in JudgedTexts :
    /\ CardAlone(t) => "CREDIT_CARD" \in Entities(Detect(t))
    /\ CardLinked(t) \/ CardDisguised(t) =>
         Detect(t) # <<>> \/ Entities(DetectAll(t)) \cap {"CREDIT_CARD", "CARD_LIKE"} # {}

\* actions.py:18 "every digit is hidden, including a card's last 4", policies/default.yaml: the
\* copy of a message that the rules on the plain text had masked has no card left for them to
\* find, unless something else that was masked cuts through digits that the card rule had taken
\* together: the rest of them then count anew.
Cuts(f, m) == Overlap(f, m) /\ ~ (f.first <= m.first /\ m.last <= f.last)
CutThrough(c) == \E f \in ToSet(c.found), m \in ToSet(Matches(c.of, "CREDIT_CARD")) :
                   f.entity # "CREDIT_CARD" /\ Cuts(f, m)
ShowsNoCard(t) == "CREDIT_CARD" \notin Entities(Detect(t))
MaskedCardsStayHidden ==
  \A c \in copies : c.found = Detect(c.of) /\ ~ CutThrough(c) => ShowsNoCard(c.text)

\* As above, without that exception.  It does not hold: a card that follows an IBAN is taken for
\* part of the groups of the IBAN, which are masked, and then stands alone.
MaskedShowsNoCard == \A c \in copies : c.found = Detect(c.of) => ShowsNoCard(c.text)

\* As above, for cards that the other layers would find.  It does not hold: they are not asked
\* once one layer has found something.
CopyShowsNoCard ==
  \A c \in copies : ~ (CardAlone(c.text) \/ CardLinked(c.text) \/ CardDisguised(c.text))

\* README.md:75 "Look-alike letters, only next to real digits": the two passes of _leet anchor
\* what they should, over any number of tokens and in both directions.
LookAlikesAnchored == \A t \in JudgedTexts : Anchored(Unfold(t)) = AnchoredByRow(Unfold(t))

\* tier0.py:14: a number with one digit changed does not pass the checksum.
OneDigitMatters ==
  \A t \in JudgedTexts : \A g \in ToSet(DigitGroups(t)) :
    Luhn(g) => \A i \in DOMAIN g : \A n \in (0..9) \ {g[i]} : ~ Luhn([g EXCEPT ![i] = n])
=============================================================================
