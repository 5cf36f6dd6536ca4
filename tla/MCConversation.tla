---------------------------- MODULE MCConversation ----------------------------
(***************************************************************************)
(* Conversations at a small scale: cards have four to six digits and begin *)
(* with 4 or 5, SINs have three digits.  4242, 41111 and 424242 are cards, *)
(* and 125 is a SIN.                                                       *)
(***************************************************************************)
EXTENDS Conversation

MCCardShapes == {<<2, 2>>, <<1, 2, 1>>}
MCSinShape == <<1, 1, 1>>
MCSsnShape == <<1, 1, 2>>
MCBadAreas == {<<0>>, <<6>>}

Rule(entity, action) == [entity |-> entity, subject |-> Pol!AnySubject, min |-> Pol!Unset,
                         guestsOnly |-> FALSE, action |-> action]
MCPolicy == [overrides |-> <<>>,
             rules |-> <<Rule("CREDIT_CARD", "mask"), [Rule("CARD_LIKE", "mask") EXCEPT !.min = 70],
                         Rule("CA_SIN", "block"), Rule("US_SSN", "block"),
                         Rule("API_KEY", "block"), Rule("IBAN", "mask"),
                         [Rule("EMAIL", "mask") EXCEPT !.subject = "third_party"]>>,
             threshold |-> 85, selfAllowed |-> TRUE, trigger |-> "on_uncertain"]
ASSUME PolicyAssumption == RemovesSplits
-----------------------------------------------------------------------------
Blank == Plain("space")
Dash == Plain("dash")
Word == Plain("filler")
Card == Plain("card")
Spaced(ps) == Tail(FlattenSeq([i \in DOMAIN ps |-> <<Blank, ps[i]>>]))

D42 == Digits(<<4, 2>>)
D12 == Digits(<<1, 2>>)
D4 == Digits(<<4>>)
Dog == Glyph(<<1>>)
Cat == Glyph(<<2>>)

Iban == <<Plain("country"), Digits(<<8>>)>>      \* its check digit is one, its groups are of two

Singles ==
  {<<Digits(<<4, 2, 4, 2>>)>>,                                          \* 4242
   Spaced(<<Card, D42, D42, D42>>),                                     \* card 42 42 42
   <<D42, Dash, D42, Plain("line"), Digits(<<4, 1, 1, 1, 1>>)>>,        \* 42-42, 41111
   Spaced(<<D42, Word, D42>>),                                          \* 42 xx 42
   Spaced(<<D42, Word, D42>>) \o <<Plain("line"), Digits(<<4, 2, 4, 2>>)>>,
   <<D42, Plain("marks"), D42>>,                                        \* 42***42
   <<Code(<<4, 2>>), Blank, Code(<<4, 2>>), Word>>,                     \* :four::two: :four::two:xx
   Spaced(<<Code(<<4, 2>>), Word, D42>>),                               \* :four::two: xx 42
   <<D4, Alike(<<1, 1>>), Blank, Alike(<<1>>), Blank, Alike(<<1>>)>>,   \* 4ll l l
   Spaced(<<Alike(<<5>>), Alike(<<1>>), D4, Word, Alike(<<1>>)>>),      \* S l 4 xx l
   Spaced(<<Card, Digits(<<4, 2, 4, 2, 1, 1, 1>>)>>),                   \* card 4242111
   Spaced(<<Digits(<<1, 2>>), Digits(<<4, 2, 4, 2>>)>>),                \* 12 4242
   Spaced(<<Digits(<<4, 4>>), Word, D42>>),                             \* 44 xx 42
   <<Digits(<<1>>), Dash, Digits(<<2>>), Dash, Digits(<<5>>)>>,         \* 1-2-5
   <<Digits(<<1>>), Dash, Digits(<<2>>), Dash, Digits(<<3, 4>>)>>,      \* 1-2-34
   Spaced(<<Plain("key"), Word>>),
   Iban \o <<Blank, D12, Blank, D12, Blank, D12, Plain("marks"), Digits(<<4, 2, 4, 2>>)>>,
   Iban \o <<Blank, D12, Blank, D12, Blank, D12, Blank, D12, Blank, D42, Blank, D42>>,
   <<Dog, Cat, Dog, Cat>>,
   <<Dog, Word, Dog, Word, Dog>>}

\* Messages in a row, each with its own id.
Posts(texts) == [i \in DOMAIN texts |-> [id |-> i, text |-> texts[i]]]
Edit(id, text) == [id |-> id, text |-> text]

Two == <<D42>>
WordTwo == Spaced(<<Word, D42>>)
Turned == Spaced(<<Word, Digits(<<2, 4>>)>>)
CodeTwo == <<Code(<<4, 2>>)>>

MCScripts ==
  {Posts(<<t>>) : t \in Singles}
  \cup {Posts(<<<<D4>>, <<Digits(<<2>>)>>, Two>>),
        Posts(<<WordTwo, WordTwo, <<Card>>>>),
        Posts(<<Spaced(<<Card, D42>>), <<Word>>, WordTwo>>),
        Posts(<<CodeTwo, <<Word>>, CodeTwo>>),
        Posts(<<Turned, Turned>>),
        Posts(<<WordTwo, WordTwo, Spaced(<<Card, Digits(<<1>>)>>)>>),
        Posts(<<Two>>) \o <<Edit(1, <<Word>>), [id |-> 3, text |-> Two]>>,
        Posts(<<Two, <<D4>>>>) \o <<Edit(1, <<Word>>)>>,
        Posts(<<<<Word>>, Two>>) \o <<Edit(1, Two)>>}

\* A word for the digits of others: with other digits after them, as an edit that is followed by a
\* new message, and by itself.
WordScripts == {Posts(<<WordTwo, WordTwo, Spaced(<<Card, Digits(<<1>>)>>)>>),
                Posts(<<WordTwo, WordTwo, WordTwo>>)
                  \o <<Edit(3, <<Card>>), [id |-> 5, text |-> Spaced(<<Card, D42>>)]>>,
                Posts(<<WordTwo, WordTwo, <<Card>>, WordTwo, WordTwo>>)}

Item(value, numbers) == [entity |-> "CREDIT_CARD", value |-> <<Digits(value)>>,
                         numbers |-> numbers, confidence |-> 90]
Key(value, numbers) == [entity |-> "API_KEY", value |-> value, numbers |-> numbers,
                        confidence |-> 90]
TwentyFour == <<Digits(<<2, 4>>), Word>>         \* in a key three times, typed twice
MCAnswers ==
  {[window |-> <<>>, encoded |-> <<>>, single |-> <<>>],
   [window |-> <<Item(<<4, 2, 4, 2, 4, 2>>, {1, 2}), Item(<<4, 2, 4, 2>>, {1, 2})>>,
    encoded |-> <<[token |-> <<Dog>>, digit |-> 4], [token |-> <<Cat>>, digit |-> 2]>>,
    single |-> <<>>],
   [window |-> <<Item(<<4, 2, 4, 2, 4, 2>>, {1, 2, 3}),
                 Key(<<Word>> \o TwentyFour \o <<Blank>> \o TwentyFour \o <<Blank>> \o TwentyFour,
                     {1, 2})>>,
    encoded |-> <<[token |-> <<Word>>, digit |-> 2], [token |-> <<Word, Dog>>, digit |-> 4],
                  [token |-> <<Dog>>, digit |-> 5]>>,
    single |-> <<[entity |-> "EMAIL", text |-> <<Word>>, subject |-> "third_party",
                  confidence |-> 90]>>]}
=============================================================================
