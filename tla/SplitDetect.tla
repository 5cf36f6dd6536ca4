----------------------------- MODULE SplitDetect -----------------------------
(***************************************************************************)
(* Cards and SINs that were split across messages,                         *)
(* src/src/blackline/detectors/split.py: neighbouring digit groups of one  *)
(* author's recent messages are joined and checked.                        *)
(***************************************************************************)
EXTENDS Tier0

CONSTANT MaxGroups                                       \* MAX_GROUPS

SinWords == {"sin", "number"}                            \* CONTEXT["CA_SIN"]
ContextWords == [CREDIT_CARD |-> CardWords, CA_SIN |-> SinWords]
Valid(entity, d) == IF entity = "CREDIT_CARD" THEN IsCard(d) ELSE IsSin(d)

\* The digit groups of the texts, each with the number of its text.
GroupsOf(texts) ==
  FlattenSeq([i \in DOMAIN texts |->
                LET groups == DigitGroups(texts[i])
                IN  [g \in DOMAIN groups |-> [digits |-> groups[g], msg |-> i]]])
Joined(groups, a, b) == FlattenSeq([k \in 1..b - a + 1 |-> groups[a + k - 1].digits])
Used(groups, a, b) == {groups[k].msg : k \in a..b}

Disguised(t) == DisguisedDigits(t) > 0
Bare(t) == KindsIn(Folded(t)) \cap Lettered = {}

\* The message under review is the last one; without digits of its own it can only bring a
\* context word, and the latest message that has digits takes its part.
NewContext(texts) == DigitGroups(Last(texts)) = <<>>
LastMessage(texts) == Len(texts)
LatestWithDigits(texts) == Last(GroupsOf(texts)).msg

\* Digits that are hidden need no context word, nor does a card that stands alone.
NeedsNoWord(texts, entity, used) ==
  /\ ~NewContext(texts)
  /\ \/ \A i \in used : Disguised(texts[i])
     \/ entity = "CREDIT_CARD" /\ \A i \in used : Bare(texts[i]) \/ Disguised(texts[i])
InContext(texts, entity) ==
  \E i \in IF NewContext(texts) THEN {Len(texts)} ELSE DOMAIN texts :
    Mentions(Folded(texts[i]), ContextWords[entity])

\* Is the entity found in the groups from a to b?
LengthLimit(d) == Len(d) <= CardMax
Found(texts, groups, a, b, entity) ==
  /\ b - a < MaxGroups /\ LengthLimit(Joined(groups, a, b))
  /\ Cardinality(Used(groups, a, b)) > 1
  /\ LatestWithDigits(texts) \in Used(groups, a, b)
  /\ Valid(entity, Joined(groups, a, b))
  /\ NeedsNoWord(texts, entity, Used(groups, a, b)) \/ InContext(texts, entity)

\* detect: the first hit, by where it begins, where it ends, and the entity.
NoHit == [entity |-> None, used |-> {}]
Before(h, g) == \/ h.from < g.from
                \/ h.from = g.from /\ h.to < g.to
                \/ h.from = g.from /\ h.to = g.to /\ (h.entity = "CREDIT_CARD" \/ h.entity = g.entity)
Hits(texts, groups) ==
  {h \in [from : DOMAIN groups, to : DOMAIN groups, entity : {"CREDIT_CARD", "CA_SIN"}] :
     h.from < h.to /\ Found(texts, groups, h.from, h.to, h.entity)}
FirstHit(groups, hits) ==
  IF hits = {} THEN NoHit
  ELSE LET first == CHOOSE h \in hits : \A g \in hits : Before(h, g)
       IN  [entity |-> first.entity, used |-> Used(groups, first.from, first.to)]
HitIn(texts, groups) == FirstHit(groups, Hits(texts, groups))
SplitHit(texts) == HitIn(texts, GroupsOf(texts))

\* worth_asking_model
WorthAsking(texts) ==
  /\ Len(texts) >= 2 /\ DigitGroups(Last(texts)) # <<>>
  /\ Cardinality({i \in DOMAIN texts : DigitGroups(texts[i]) # <<>>}) >= 2
  /\ Len(FlattenSeq([i \in DOMAIN texts |-> FlattenSeq(DigitGroups(texts[i]))])) >= SinLen

\* looks_encoded: many emoji, many digits that only appear after folding, or a row of words and
\* emoji with few different ones among them.
CONSTANTS ManyCodes, RowLength, RowDistinct              \* 8, 13 and 10
Emoji(t) == FlattenSeq([i \in DOMAIN t |->
              CASE t[i].kind = "code" -> [k \in DOMAIN t[i].digits |-> Code(<<t[i].digits[k]>>)]
                [] t[i].kind = "glyph" -> <<t[i]>>
                [] OTHER -> <<>>])
Row(t) == FlattenSeq([i \in DOMAIN t |-> IF t[i].kind \in Words \cup {"alike"} THEN <<t[i]>>
                                         ELSE Emoji(<<t[i]>>)])
LooksEncoded(t) ==
  \/ Len(Emoji(t)) >= ManyCodes
  \/ DisguisedDigits(t) >= ManyCodes
  \/ \E i \in 1..Len(Row(t)) - RowLength + 1 :
       Cardinality(ToSet(SubSeq(Row(t), i, i + RowLength - 1))) <= RowDistinct
=============================================================================
