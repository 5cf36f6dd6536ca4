-------------------------------- MODULE Tier0 --------------------------------
(***************************************************************************)
(* Tier 0, src/src/blackline/detectors/tier0.py: checksums, the rules on a *)
(* text as it stands, on its digit groups, and on its folded form; and the *)
(* masking of what they find (actions.py).                                 *)
(*                                                                         *)
(* A finding covers the pieces from first to last.  The rules on digits    *)
(* match digit groups; an API key is a piece of its own, and an IBAN is a  *)
(* country code with the digits of an account after it.                    *)
(***************************************************************************)
EXTENDS Normalize, TLC

CONSTANTS
  CardMin, CardMax,     \* lengths of a card number, 13 and 19
  CardStart,            \* its first digits, 3 to 6
  CardShapes,           \* lengths of the groups a card is written in: 4-4-4-4 and 4-6-5
  SinShape,             \* 3-3-3
  SsnShape,             \* 3-2-4
  BadAreas,             \* first groups that no US_SSN has, 000 and 666
  IbanCheck,            \* check digits of an IBAN after its country code, 2
  IbanGroup,            \* length of its groups, 4
  IbanGroups            \* how many of them, 3 to 7

Total(shape) == FoldLeft(LAMBDA n, l : n + l, 0, shape)
SinLen == Total(SinShape)

ASSUME LengthAssumption == /\ CardMin \in Nat /\ CardMax \in Nat /\ CardMin <= CardMax
                           /\ SinLen < CardMin
-----------------------------------------------------------------------------
\* Checksums

\* luhn_ok: every second digit from the right is doubled, and 9 taken off above 9.
DoubledOnly(n) == 2 * n
Doubled(n) == IF 2 * n > 9 THEN 2 * n - 9 ELSE 2 * n
Luhn(d) == FoldLeftDomain(LAMBDA n, i : n + IF (Len(d) - i) % 2 = 1 THEN Doubled(d[i]) ELSE d[i],
                          0, d) % 10 = 0

IsCard(d) == Len(d) \in CardMin..CardMax /\ d[1] \in CardStart /\ Luhn(d)
IsSin(d) == Len(d) = SinLen /\ d[1] \notin {0, 8} /\ Luhn(d)
IsSsn(d) == /\ Len(d) = Total(SsnShape)
            /\ SubSeq(d, 1, SsnShape[1]) \notin BadAreas /\ d[1] # 9
-----------------------------------------------------------------------------
\* Rules on the text as it stands

Finding(entity, i, j, confidence, note) ==
  [entity |-> entity, first |-> i, last |-> j, confidence |-> confidence,
   subject |-> "unknown", note |-> note]

DigitsIn(t, i, j) == FlattenSeq([k \in 1..j - i + 1 |->
                                   IF i + k - 1 \in DigitsAt(t) THEN t[i + k - 1].digits ELSE <<>>])

\* Digit groups with one blank or one dash between each two of them: (?:\d[ -]?)+ between \b.
Grouped(t, i, j) == /\ i \in DigitsAt(t) /\ j \in DigitsAt(t) /\ i <= j /\ Apart(t, i, j)
                    /\ \A k \in i + 1..j : \/ t[k].kind = "digits"
                                           \/ t[k].kind \in {"space", "dash"}
                                              /\ t[k - 1].kind = "digits"
\* Groups of given lengths, with one of the separators between each two.
Shape(t, i, shape, seps) ==
  LET j == i + 2 * (Len(shape) - 1)
  IN  /\ j <= Len(t) /\ Grouped(t, i, j)
      /\ \A k \in DOMAIN shape : /\ t[i + 2 * (k - 1)].kind = "digits"
                                 /\ Len(t[i + 2 * (k - 1)].digits) = shape[k]
      /\ \A k \in 1..Len(shape) - 1 : t[i + 2 * k - 1].kind \in seps

\* A country code with check digits, and groups of one length with or without a blank before.
Account(t, i, j) ==
  LET groups == {k \in i + 1..j : (k - i) % 2 = 1}
      digits == Len(DigitsIn(t, i, j))
  IN  /\ t[i].kind = "country" /\ j \in groups /\ Apart(t, i, j)
      /\ \A k \in i + 1..j : t[k].kind = IF k \in groups THEN "digits" ELSE "space"
      /\ Len(t[i + 1].digits) % IbanGroup = IbanCheck
      /\ \A k \in groups \ {i + 1} : Len(t[k].digits) % IbanGroup = 0
      /\ (digits - IbanCheck) \div IbanGroup \in IbanGroups

\* Where a match of a rule that begins at piece i ends, as late as it may, or 0.
Latest(ends) == IF ends = {} THEN 0 ELSE Max(ends)
MatchEnd(t, entity, i) ==
  CASE entity = "CREDIT_CARD" ->
         Latest({j \in i..Len(t) : Grouped(t, i, j) /\ Len(DigitsIn(t, i, j)) \in CardMin..CardMax})
    [] entity = "CA_SIN" ->
         IF Shape(t, i, SinShape, {"space", "dash"}) THEN i + 2 * (Len(SinShape) - 1)
         ELSE IF Shape(t, i, <<SinLen>>, {}) THEN i ELSE 0
    [] entity = "US_SSN" ->
         IF Shape(t, i, SsnShape, {"dash"}) THEN i + 2 * (Len(SsnShape) - 1) ELSE 0
    [] entity = "IBAN" -> Latest({j \in i..Len(t) : Account(t, i, j)})
    [] OTHER -> IF t[i].kind = "key" /\ Apart(t, i, i) THEN i ELSE 0

\* finditer: matches from left to right, each begun after the end of the one before.
Matches(t, entity) ==
  FoldLeftDomain(LAMBDA found, i :
                   IF /\ found = <<>> \/ Last(found).last < i
                      /\ MatchEnd(t, entity, i) # 0
                   THEN Append(found, [entity |-> entity, first |-> i,
                                       last |-> MatchEnd(t, entity, i)])
                   ELSE found, <<>>, t)

\* RULES: in their order, with the check of a match and the confidence.
Rules == <<"CREDIT_CARD", "CA_SIN", "US_SSN", "API_KEY", "IBAN">>
Confidence == [CREDIT_CARD |-> 97, CA_SIN |-> 90, US_SSN |-> 95, API_KEY |-> 99, IBAN |-> 85]
Passes(t, m) == LET d == DigitsIn(t, m.first, m.last)
                IN  CASE m.entity = "CREDIT_CARD" -> IsCard(d)
                      [] m.entity = "CA_SIN" -> IsSin(d)
                      [] m.entity = "US_SSN" -> IsSsn(d)
                      [] OTHER -> TRUE

\* detect: a match that overlaps an earlier finding is skipped.
Overlap(f, m) == f.first <= m.last /\ m.first <= f.last
Detect(t) ==
  FoldLeft(LAMBDA out, m :
             IF (\E k \in DOMAIN out : Overlap(out[k], m)) \/ ~Passes(t, m) THEN out
             ELSE Append(out, Finding(m.entity, m.first, m.last, Confidence[m.entity], "")),
           <<>>, FlattenSeq([r \in DOMAIN Rules |-> Matches(t, Rules[r])]))
-----------------------------------------------------------------------------
\* Rules on the folded text

CardWords == {"card", "number"}                          \* CARD_CONTEXT

\* _scan_run: in a longer run, a card is looked for at its two ends, and with a card word only.
None == "none"
ScanRun(run, context) ==
  CASE Len(run) \in CardMin..CardMax -> IF IsCard(run) THEN "CREDIT_CARD" ELSE None
    [] Len(run) = SinLen -> IF IsSin(run) THEN "CA_SIN" ELSE None
    [] Len(run) > CardMax /\ context ->
         IF \E n \in CardMin..CardMax : \/ IsCard(SubSeq(run, 1, n))
                                        \/ IsCard(SubSeq(run, Len(run) - n + 1, Len(run)))
         THEN "CREDIT_CARD" ELSE None
    [] OTHER -> None

\* detect_folded: each entity once; a finding covers the whole text.
DetectFolded(t) ==
  LET folded == Folded(t)
      context == Mentions(folded, CardWords)
      Scan(out, run) ==
        LET entity == ScanRun(run, context)
        IN  IF entity = None \/ \E k \in DOMAIN out : out[k].entity = entity THEN out
            ELSE Append(out, Finding(entity, 1, Len(t), 90, "obfuscated"))
  IN  IF folded = t THEN <<>> ELSE FoldLeft(Scan, <<>>, DigitGroups(t))
-----------------------------------------------------------------------------
\* Digit groups with filler between them

MaxGap == 8
\* _chains: a gap that is short, on one line, and holds at most one word.
NoWord(gap) == WidthOf(gap) <= MaxGap /\ KindsIn(gap) \subseteq Separators \ {"line"}
Short(gap) == /\ WidthOf(gap) <= MaxGap /\ "line" \notin KindsIn(gap)
              /\ Cardinality(Starts(gap)) <= 1
\* The groups from piece i to piece j are in one chain.
Chained(t, i, j) ==
  \A a, b \in DigitsAt(t) \cap i..j :
    a < b /\ (a + 1..b - 1) \cap DigitsAt(t) = {} => Short(SubSeq(t, a + 1, b - 1))

GroupLengths(t, i, j) ==
  LET groups == SelectSeq(SubSeq(t, i, j), LAMBDA p : p.kind = "digits")
  IN  [k \in DOMAIN groups |-> Len(groups[k].digits)]
HasFiller(t, i, j) == KindsIn(SubSeq(t, i, j)) \cap Lettered # {}
Standalone(t, i, j) == /\ \A k \in DOMAIN t \ i..j : t[k].kind \in Blanks
                       /\ KindsIn(SubSeq(t, i, j)) \subseteq {"digits", "space", "dash"}
CardLike(t, i, j) == /\ GroupLengths(t, i, j) \in CardShapes
                     /\ Mentions(t, CardWords) \/ HasFiller(t, i, j) \/ Standalone(t, i, j)

\* detect_grouped: the first part of a chain that is a card or shaped like one.
DetectGrouped(t) ==
  LET parts == {ij \in DigitsAt(t) \X DigitsAt(t) :
                  /\ ij[1] < ij[2] /\ Chained(t, ij[1], ij[2])
                  /\ Len(DigitsIn(t, ij[1], ij[2])) <= CardMax}
      hits == {ij \in parts : \/ IsCard(DigitsIn(t, ij[1], ij[2]))
                              \/ CardLike(t, ij[1], ij[2])}
      i == Min({ij[1] : ij \in hits})
      j == Min({ij[2] : ij \in {kl \in hits : kl[1] = i}})
  IN  IF hits = {} THEN <<>>
      ELSE IF IsCard(DigitsIn(t, i, j)) THEN <<Finding("CREDIT_CARD", i, j, 90, "grouped")>>
      ELSE <<Finding("CARD_LIKE", i, j, 75, "grouped")>>
-----------------------------------------------------------------------------
\* detect_all: each layer only when those before it found nothing.
WholeText(t, fs) == [k \in DOMAIN fs |-> [fs[k] EXCEPT !.first = 1, !.last = Len(t),
                                                      !.note = "obfuscated"]]
FirstOf(layers) == LET some == {k \in DOMAIN layers : layers[k] # <<>>}
                   IN  IF some = {} THEN <<>> ELSE layers[Min(some)]
DetectAll(t) ==
  FirstOf(<<Detect(t), DetectGrouped(t), DetectFolded(t),
            IF Folded(t) = t THEN <<>> ELSE WholeText(t, DetectGrouped(Folded(t)))>>)

\* mask: a bar in place of every character of every finding.  The text keeps its length, so that
\* the places of the other findings stay as they are.
Cover(t, fs) == [i \in DOMAIN t |-> IF \E f \in fs : i \in f.first..f.last THEN Plain("bar")
                                    ELSE t[i]]
MaskFirst(t, fs) == IF fs = <<>> THEN t ELSE Cover(t, {fs[1]})
Mask(t, fs) == Cover(t, ToSet(fs))
=============================================================================
