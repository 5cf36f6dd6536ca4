-------------------------------- MODULE Tier1 --------------------------------
(***************************************************************************)
(* Tier 1, src/src/blackline/detectors/tier1.py: what is made of the       *)
(* answers of the model.  The model quotes, rebuilds a number from several *)
(* messages, or names the digits that tokens stand for; the code looks for *)
(* the quotation, takes stock of the digits, or substitutes and checks.    *)
(***************************************************************************)
EXTENDS SplitDetect, Bags

CONSTANT MinKey                                          \* characters of an API key, 20
-----------------------------------------------------------------------------
\* The pieces that stand for digits one by one, as a substring may begin or end between them.
Spelled(t) == FlattenSeq([i \in DOMAIN t |->
                IF t[i].digits = <<>> \/ t[i].kind = "glyph" THEN <<t[i]>>
                ELSE [k \in DOMAIN t[i].digits |-> Piece(t[i].kind, <<t[i].digits[k]>>)]])

\* detect: findings in one message, each at the first place where the text has what is quoted.
Places(t, quote) == {i \in DOMAIN t : /\ i + Len(quote) - 1 <= Len(t)
                                      /\ SubSeq(t, i, i + Len(quote) - 1) = quote}
SingleFindings(t, quotes) ==
  LET found == SelectSeq(quotes, LAMBDA q : Places(t, q.text) # {})
  IN  [k \in DOMAIN found |->
         LET i == Min(Places(t, found[k].text))
         IN  [Finding(found[k].entity, i, i + Len(found[k].text) - 1, found[k].confidence, "")
                EXCEPT !.subject = found[k].subject]]
-----------------------------------------------------------------------------
\* _verify: every digit of the value was typed in the messages it is said to come from, as
\* often as the value has it, and the value is a number of its kind.
DigitsOf(texts, numbers) ==
  FlattenSeq([i \in DOMAIN texts |-> IF i \in numbers THEN FlattenSeq(DigitGroups(texts[i]))
                                     ELSE <<>>])
TypedOnce(value, typed) == ToSet(value) \subseteq ToSet(typed)
Typed(value, typed) == ToBag(value) \sqsubseteq ToBag(typed)
\* An API key: each part of the value between blanks is somewhere in the messages run together
\* without their spaces, where another part may be too.
TypedKey(value, texts, numbers) ==
  LET typed == FlattenSeq([i \in DOMAIN texts |->
                 IF i \notin numbers THEN <<>>
                 ELSE SelectSeq(Spelled(Folded(texts[i])), LAMBDA p : p.kind # "space")])
  IN  /\ WidthOf(value) >= MinKey
      /\ \A ij \in ToSet(TokensOf(value)) :
           Places(typed, Spelled(SubSeq(value, ij[1], ij[2]))) # {}
Verify(entity, value, texts, numbers) ==
  LET d == DigitsIn(value, 1, Len(value))
  IN  /\ numbers # {} /\ numbers \subseteq DOMAIN texts
      /\ IF entity = "API_KEY" THEN TypedKey(value, texts, numbers)
         ELSE /\ Typed(d, DigitsOf(texts, numbers))
              /\ CASE entity = "CREDIT_CARD" -> IsCard(d)
                   [] entity = "CA_SIN" -> IsSin(d)
                   [] entity = "US_SSN" -> IsSsn(d)
                   [] OTHER -> FALSE

\* detect_window: of the items of an answer those that verify, and that take in the message
\* under review and another one.
WindowHits(texts, items) ==
  SelectSeq(items, LAMBDA item : /\ Len(texts) \in item.numbers
                                 /\ Cardinality(item.numbers) > 1
                                 /\ Verify(item.entity, item.value, texts, item.numbers))
-----------------------------------------------------------------------------
\* decode_with: the tokens of the codebook that are in the text become their digits, one token
\* after the other, the longest first: a word only where it stands by itself, any other token
\* wherever it is found.
OnlyBlanks(token) == KindsIn(token) \subseteq Blanks
Alphabetic(token) == KindsIn(token) \subseteq (Words \ {"key"}) \cup {"alike"}
Substitute(t, token, digit) ==
  LET n == Len(token)
      at == {i \in Places(t, token) : Alphabetic(token) => Apart(t, i, i + n - 1)}
      from[i \in 1..Len(t) + 1] == IF i > Len(t) THEN <<>>
                                   ELSE IF i \in at THEN <<Digits(<<digit>>)>> \o from[i + n]
                                   ELSE <<t[i]>> \o from[i + 1]
  IN  from[1]
LongestFirst(codes) ==
  SetToSortSeq(DOMAIN codes,
               LAMBDA k, l : LET v == WidthOf(codes[k].token)
                                 w == WidthOf(codes[l].token)
                             IN  v > w \/ (v = w /\ k < l))
Decode(t, codebook) ==
  LET codes == SelectSeq(codebook, LAMBDA c : /\ ~ OnlyBlanks(c.token)
                                              /\ Places(Spelled(t), Spelled(c.token)) # {})
  IN  FoldLeft(LAMBDA u, k : Substitute(u, Spelled(codes[k].token), codes[k].digit),
               Spelled(t), LongestFirst(codes))

\* detect_encoded: the first number among the digits of the decoded text.
EncodedHits(t, codebook) ==
  LET decoded == Decode(t, codebook)
      context == Mentions(Folded(decoded), CardWords)
      runs == SelectSeq(DigitGroups(decoded), LAMBDA run : ScanRun(run, context) # None)
  IN  IF runs = <<>> THEN <<>>
      ELSE <<Finding(ScanRun(Head(runs), context), 1, Len(t), 85, "obfuscated")>>
=============================================================================
