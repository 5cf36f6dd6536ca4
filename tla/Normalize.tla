------------------------------ MODULE Normalize ------------------------------
(***************************************************************************)
(* Folding of disguised digits, src/src/blackline/normalize.py.            *)
(*                                                                         *)
(* A text is a sequence of pieces: runs of digits, runs of look-alike      *)
(* letters, emoji codes, words, and what stands between them.  A piece     *)
(* with digits carries them: those it shows, those it looks like, or those *)
(* it is a code for.  The tables of emoji, scripts and number words are    *)
(* left out: a piece that folds to digits is one that some table knows.    *)
(***************************************************************************)
EXTENDS Naturals, Sequences, FiniteSets, FiniteSetsExt, SequencesExt

Piece(kind, digits) == [kind |-> kind, digits |-> digits]
Digits(d) == Piece("digits", d)               \* 4111
Alike(d) == Piece("alike", d)                 \* letters of LEET: lll
Code(d) == Piece("code", d)                   \* :four::one:, as in SHORTCODES
Glyph(g) == Piece("glyph", g)                 \* an emoji that no table knows
Plain(kind) == Piece(kind, <<>>)

Blanks == {"space", "line"}                              \* \s
Separators == Blanks \cup {"dash", "marks", "bar"}       \* [\W_]
Words == {"filler", "long", "card", "sin", "number", "key", "country"}
WordLike == Words \cup {"digits", "alike"}               \* \w at both ends
Lettered == Words \cup {"alike", "code", "glyph"}        \* [^\W\d_] inside
Kinds == Separators \cup WordLike \cup Lettered
Pieces == [kind : Kinds, digits : Seq(0..9)]

\* Characters of a piece.  A short filler word fits between two groups, a long one does not.
Widths == [space |-> 1, line |-> 1, dash |-> 1, marks |-> 3, filler |-> 2, long |-> 9,
           card |-> 4, sin |-> 3, number |-> 6, key |-> 20, country |-> 2, glyph |-> 6,
           bar |-> 9]
Width(p) == CASE p.kind \in {"digits", "alike"} -> Len(p.digits)
              [] p.kind = "code" -> 6 * Len(p.digits)
              [] OTHER -> Widths[p.kind]
WidthOf(t) == FoldLeft(LAMBDA n, p : n + Width(p), 0, t)

\* The elements of s at the positions in at, in their order.
SelectAt(s, at) ==
  LET upTo[i \in 0..Len(s)] == IF i = 0 THEN <<>>
                               ELSE IF i \in at THEN Append(upTo[i - 1], s[i]) ELSE upTo[i - 1]
  IN  upTo[Len(s)]

KindsIn(t) == {t[i].kind : i \in DOMAIN t}
HasDigits(t) == "digits" \in KindsIn(t)

\* \b on both sides of the pieces from i to j.
Apart(t, i, j) == /\ i = 1 \/ t[i - 1].kind \notin WordLike
                  /\ j = Len(t) \/ t[j + 1].kind \notin WordLike
\* A word of the kinds, as a whole word.
Mentions(t, kinds) == \E i \in DOMAIN t : t[i].kind \in kinds /\ Apart(t, i, i)

\* What is between blanks, as intervals of pieces.
Starts(t) == {i \in DOMAIN t : t[i].kind \notin Blanks /\ (i = 1 \/ t[i - 1].kind \in Blanks)}
Ends(t) == {i \in DOMAIN t : t[i].kind \notin Blanks /\ (i = Len(t) \/ t[i + 1].kind \in Blanks)}
TokensOf(t) == LET at == [i \in DOMAIN t |-> i]
                   first == SelectAt(at, Starts(t))
                   last == SelectAt(at, Ends(t))
               IN  [k \in DOMAIN first |-> <<first[k], last[k]>>]
-----------------------------------------------------------------------------
\* _fold_char, SHORTCODES, number words: what the tables know becomes ASCII digits.
Unfold(t) == [i \in DOMAIN t |-> IF t[i].kind \in {"code", "digits"} THEN Digits(t[i].digits)
                                 ELSE t[i]]

\* _leet: look-alike letters are swapped in tokens that consist of digits and look-alikes only
\* and are anchored: by a real digit of their own or of such a token beside them, over any
\* number of them, found in one pass forward and one backward.
Shaped(t, ij) == KindsIn(SubSeq(t, ij[1], ij[2])) \subseteq {"digits", "alike"}
Real(t, ij) == Shaped(t, ij) /\ HasDigits(SubSeq(t, ij[1], ij[2]))
ForwardOnly(t) ==
  LET toks == TokensOf(t)
      ahead[i \in 0..Len(toks)] ==
        i > 0 /\ Shaped(t, toks[i]) /\ (Real(t, toks[i]) \/ ahead[i - 1])
  IN  {i \in DOMAIN toks : ahead[i]}
Anchored(t) ==
  LET toks == TokensOf(t)
      n == Len(toks)
      ahead[i \in 0..n] == i > 0 /\ Shaped(t, toks[i]) /\ (Real(t, toks[i]) \/ ahead[i - 1])
      back[i \in 1..n + 1] == i <= n /\ Shaped(t, toks[i]) /\ (ahead[i] \/ back[i + 1])
  IN  {i \in DOMAIN toks : back[i]}
Leet(t) ==
  LET toks == TokensOf(t)
      swapped == UNION {toks[i][1]..toks[i][2] : i \in Anchored(t)}
  IN  [i \in DOMAIN t |-> IF i \in swapped THEN Digits(t[i].digits) ELSE t[i]]

\* _SEPARATORS: digits with at most three non-alphanumeric characters in between are joined.
MaxSeparator == 3
DigitsAt(t) == {i \in DOMAIN t : t[i].kind = "digits"}
Join(done, p) ==
  LET at == DigitsAt(done)
      gap == IF at = {} THEN <<>> ELSE SubSeq(done, Max(at) + 1, Len(done))
  IN  IF /\ p.kind = "digits" /\ at # {}
         /\ KindsIn(gap) \subseteq Separators /\ WidthOf(gap) <= MaxSeparator
      THEN Append(SubSeq(done, 1, Max(at) - 1), Digits(done[Max(at)].digits \o p.digits))
      ELSE Append(done, p)

Folded(t) == FoldLeft(Join, <<>>, Leet(Unfold(t)))       \* normalize

DigitRuns(t) == LET runs == SelectAt(t, DigitsAt(t))
                IN  [i \in DOMAIN runs |-> runs[i].digits]
DigitGroups(t) == DigitRuns(Folded(t))

Count(t) == FoldLeft(LAMBDA n, p : n + Len(p.digits), 0, t)
DisguisedDigits(t) ==
  LET Shown(u) == Count(SelectSeq(u, LAMBDA p : p.kind = "digits"))
  IN  Shown(Folded(t)) - Shown(t)
-----------------------------------------------------------------------------
\* README.md:75 "Look-alike letters, only next to real digits": what the two passes anchor are
\* the tokens of each longest row of tokens made of digits and look-alikes, if one of the row
\* has a real digit.
AnchoredByRow(t) ==
  LET toks == TokensOf(t)
  IN  {i \in DOMAIN toks : \E a, b \in DOMAIN toks :
         /\ a <= i /\ i <= b
         /\ \A k \in a..b : Shaped(t, toks[k])
         /\ \E k \in a..b : Real(t, toks[k])}
=============================================================================
