------------------------------ MODULE MCPipeline ------------------------------
(***************************************************************************)
(* Small policies and messages for the pipeline: cards are masked, and     *)
(* blocked after a reload; phones are logged in general, masked when there *)
(* are guests, and quarantined after the reload, which also switches the   *)
(* model off; names are allowed in this channel; a finding that is not     *)
(* certain enough is not acted upon.                                       *)
(***************************************************************************)
EXTENDS Pipeline

Rule(entity, action) == [entity |-> entity, subject |-> AnySubject, min |-> Unset,
                         guestsOnly |-> FALSE, action |-> action]
Finding(entity, confidence) == [entity |-> entity, subject |-> "unknown",
                                confidence |-> confidence]

First == [overrides |-> <<Rule("name", "allow")>>,
          rules |-> <<[Rule("phone", "mask") EXCEPT !.guestsOnly = TRUE],
                      Rule("phone", "log"), Rule("name", "warn"), Rule("card", "mask"),
                      [Rule("sin", "block") EXCEPT !.min = 1]>>,
          threshold |-> 2, selfAllowed |-> TRUE, trigger |-> "on_uncertain"]
Second == [First EXCEPT !.rules = <<Rule("card", "block"), Rule("phone", "quarantine")>>,
                        !.trigger = "never"]

MCPolicies == <<First, Second>>

Card == Finding("card", 2)
Name == Finding("name", 2)
Phone == Finding("phone", 2)

Message(found, split, gates) == [found |-> found, split |-> split, gates |-> gates,
                                 guests |-> FALSE]
MCInputs == {Message(<<>>, <<>>, {"window", "encoded"}),
             Message(<<Name, Finding("card", 1)>>, <<Card>>, {}),
             [Message(<<>>, <<>>, {"encoded", "single"}) EXCEPT !.guests = TRUE],
             Message(<<Phone, Name>>, <<>>, {"single"})}
MCReplies == [window  |-> {<<>>, <<Card>>},
              encoded |-> {<<>>, <<Name>>},
              single  |-> {<<[Card EXCEPT !.subject = "self"], Finding("sin", 1), Phone>>}]
=============================================================================
