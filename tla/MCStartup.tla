------------------------------ MODULE MCStartup ------------------------------
(***************************************************************************)
(* Versions of a policy file, and worlds to start in.  Version 2 has a     *)
(* misspelled key, 3 is no UTF-8, 4 names a channel without # and uses an  *)
(* id twice; 1 and 5 are fine.  QuotedDocuments are accepted, and written  *)
(* with quotes and null in the first two.                                  *)
(***************************************************************************)
EXTENDS Startup

Rule(id, entity, action) == [id |-> id, entity |-> entity, action |-> action,
                             subject |-> Absent, min |-> Absent, guests |-> Absent]
Mapping(rules) == [form |-> "mapping", rules |-> rules, channels |-> {[hash |-> TRUE]}]

Cards == Rule("card", "card", "mask")
Phones == [Rule("phone", "phone", "warn") EXCEPT !.min = Written(95),
                                                 !.guests = Written(TRUE)]
Doubtful == [Rule("maybe", "card", "log") EXCEPT !.subject = Written("third_party")]

MCDocuments ==
  <<Mapping(<<Doubtful, Cards, Phones>>),
    Mapping(<<[Cards EXCEPT !.min = Misspelled(95)], Phones>>),
    [Mapping(<<>>) EXCEPT !.form = "undecodable"],
    [Mapping(<<Cards, Cards>>) EXCEPT !.channels = {[hash |-> FALSE]}],
    Mapping(<<[Cards EXCEPT !.action = "block", !.subject = InQuotes("unknown")],
              [Phones EXCEPT !.guests = Written(FALSE)]>>)>>

QuotedDocuments ==
  <<Mapping(<<[Cards EXCEPT !.min = InQuotes(95)]>>),
    Mapping(<<[Cards EXCEPT !.subject = Null], [Phones EXCEPT !.guests = InQuotes(FALSE)]>>)>>

MCValid == {v \in DOMAIN MCDocuments : Accepted(MCDocuments[v])}

MCNames == {"token", "key"}
MCPrefixed == {"token"}
Same(value) == [n \in MCNames |-> value]
MCSettings ==
  [shell : [MCNames -> {"unset", "empty", "shell"}] \cup {Same("bad")},
   vault : [MCNames -> {"vault", "empty", "denied"}],
   dotenv : {Same("dotenv"), [Same("unset") EXCEPT !["token"] = "bad"]},
   project : BOOLEAN, numbers : BOOLEAN]

MCFindings ==
  [entity : {"card", "phone"},
   subject : {"third_party", "unknown", "self"}, confidence : {85, 90, 99}]
=============================================================================
