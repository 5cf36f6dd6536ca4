------------------------------ MODULE PolicyFile ------------------------------
(***************************************************************************)
(* A policy file as somebody wrote it: what src/src/blackline/policy.py    *)
(* accepts, and what it then does by it.  Validation builds a model of the *)
(* document and throws it away; decide() goes by the document itself.      *)
(*                                                                         *)
(* An entry of a rule is a field [form, value]: written plainly, in quotes *)
(* (a string where a number or a truth value is meant), as null, left out, *)
(* or under a misspelled key.                                              *)
(***************************************************************************)
EXTENDS PolicyDecide

CONSTANT Documents         \* Documents[v]: version v of the file

Absent == [form |-> "absent"]
Written(value) == [form |-> "plain", value |-> value]
InQuotes(value) == [form |-> "quoted", value |-> value]
Null == [form |-> "null"]
Misspelled(value) == [form |-> "misspelled", value |-> value]
HasValue(field) == field.form \in {"plain", "quoted"}

\* What may be tried: entries in these forms; a truth value that is written plainly is one.
Keys == {"subject", "min", "guests"}
Forms == {"absent", "plain", "quoted", "null", "misspelled"}
WellFormed(doc) == \A i \in DOMAIN doc.rules :
                     /\ \A key \in Keys : doc.rules[i][key].form \in Forms
                     /\ HasValue(doc.rules[i].guests) => doc.rules[i].guests.value \in BOOLEAN

\* RuleSpec and the others: unknown keys are forbidden; quotes are not, and null only where a
\* truth value is meant.
AnyKeys(r) == TRUE
KnownKeys(r) == \A key \in Keys : r[key].form # "misspelled"
Subjects == {"self", "third_party", "public", "unknown"}
RuleSpec(r) == /\ KnownKeys(r)
               /\ r.action \in PolicyActions
               /\ HasValue(r.subject) => r.subject.value \in Subjects
               /\ HasValue(r.min) => r.min.value \in 0..100
               /\ r.guests.form # "null"

UniqueIds(rules) == \A i, j \in DOMAIN rules :
                      i # j /\ rules[i].id # "" => rules[i].id # rules[j].id
ChannelNames(channels) == \A c \in channels : c.hash

PolicySpec(doc) == /\ \A i \in DOMAIN doc.rules : RuleSpec(doc.rules[i])
                   /\ UniqueIds(doc.rules) /\ ChannelNames(doc.channels)

\* Policy.load and validate: a file that is missing, is not YAML or is no mapping is a
\* PolicyError like one with problems.  One that cannot be decoded is not caught here.
Accepted(doc) == doc.form = "mapping" /\ PolicySpec(doc)
Undecoded(doc) == doc.form = "undecodable"
-----------------------------------------------------------------------------
\* The document as _match reads it: a subject of null is none that a finding has; a string in
\* place of a truth value is true, whatever it says.
NoSubject == "null"
AsRead(r) ==
  [entity |-> r.entity, action |-> r.action,
   subject |-> IF HasValue(r.subject) THEN r.subject.value
               ELSE IF r.subject = Null THEN NoSubject ELSE AnySubject,
   min |-> IF r.min.form = "plain" THEN r.min.value ELSE Unset,
   guestsOnly |-> r.guests.form = "quoted" \/ (HasValue(r.guests) /\ r.guests.value)]

\* The comparison with a min_confidence of null or in quotes raises a TypeError.
Comparable(r) == r.min.form \notin {"null", "quoted"}

\* The document as it is meant, misspelled keys included.
Meant(field, default) == IF field.form \in {"null", "absent"} THEN default ELSE field.value
AsMeant(r) ==
  [entity |-> r.entity, action |-> r.action, subject |-> Meant(r.subject, AnySubject),
   min |-> Meant(r.min, Unset), guestsOnly |-> Meant(r.guests, FALSE)]

PolicyOf(rules) == [overrides |-> <<>>, rules |-> rules, threshold |-> 85, selfAllowed |-> TRUE]
Reading(doc) == PolicyOf([i \in DOMAIN doc.rules |-> AsRead(doc.rules[i])])
Meaning(doc) == PolicyOf([i \in DOMAIN doc.rules |-> AsMeant(doc.rules[i])])

\* Does decide() come to a decision?  It does not when it gets as far as a comparison that
\* raises: no rule before that one matches, and its entity and subject do.
Reaches(doc, i, f, guests) ==
  LET rules == Reading(doc).rules
  IN  /\ ~ Exempt(Reading(doc), f)
      /\ rules[i].entity = f.entity /\ rules[i].subject \in {AnySubject, f.subject}
      /\ \A j \in 1..i - 1 : ~ Matches(Reading(doc), rules[j], f, guests)
DecideRaises(doc, f, guests) ==
  \E i \in DOMAIN doc.rules : ~ Comparable(doc.rules[i]) /\ Reaches(doc, i, f, guests)

\* Nothing in the document is null or a string that is meant as something else.
PlainlyWritten(doc) ==
  \A i \in DOMAIN doc.rules : \A key \in Keys :
    doc.rules[i][key].form \notin {"null", "quoted"}
DecidesAsMeant(doc, f, guests) ==
  /\ ~ DecideRaises(doc, f, guests)
  /\ Decide(Reading(doc), <<f>>, guests) = Decide(Meaning(doc), <<f>>, guests)
=============================================================================
