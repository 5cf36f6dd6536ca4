--------------------------- MODULE MCSlackWorker ---------------------------
(***************************************************************************)
(* Small Slack channels for the worker: one channel, a few versions of     *)
(* messages, one thread per lane unless said otherwise.                    *)
(***************************************************************************)
EXTENDS SlackWorker

CONSTANT Names         \* the versions of this instance, out of m1, m2, m2b and m3

MCKeys == {"triage", "deep"} \X Names
MCTopics == {"triage", "deep"}
MCTopic == [k \in MCKeys |-> k[1]]
MCMsgOf == [e \in Names |-> IF e = "m2b" THEN "m2" ELSE e]
MCEdits == [e \in Names |-> IF e = "m2b" THEN "m2" ELSE e]
MCAuthor == [e \in Names |-> IF e = "m3" THEN "b" ELSE "a"]
MCOwner == [k \in MCKeys |-> IF k[1] = "triage" THEN <<"triage", MCAuthor[k[2]]>> ELSE k]
MCHash == [o \in {MCOwner[k] : k \in MCKeys} |->
             IF o \in {<<"triage", "a">>, <<"deep", "m1">>} THEN 0 ELSE 1]
MCPosted == [m \in {MCMsgOf[e] : e \in Names} |->
               CASE m = "m1" -> 1 [] m = "m2" -> 2 [] OTHER -> 3]
MCTs == [k \in MCKeys |-> MCPosted[MCMsgOf[k[2]]]]
MCChannels == {"c"}
MCChannel == [k \in MCKeys |-> "c"]
MCStages == {"none", "held", "deleted", "released", "reposted", "notified"}

OneThread == {[t \in MCTopics |-> 1]}
TwoThreads == {[t \in MCTopics |-> 2]}

Alone(act) == [act |-> act, parts |-> {}]

\* What the detectors say of the texts.
NoRule == [e \in Names |-> "none"]
CardInFirst == [e \in Names |-> IF e = "m1" THEN "mask" ELSE "none"]
CardInEdit == [e \in Names |-> IF e = "m2b" THEN "mask" ELSE "none"]
NoSplit == [e \in Names |-> {}]
SplitOverTwo == [e \in Names |-> IF e = "m2" THEN {"m1"} ELSE {}]
AlwaysAllow == [e \in Names |-> {Alone("allow")}]
\* the model fails open, so that an attempt may be allowed and the next one not
Wavering == [e \in Names |-> {Alone("allow"), Alone("mask")}]
ModelSplit == [e \in Names |-> IF e = "m2" THEN {[act |-> "mask", parts |-> {"m1"}],
                                                 Alone("allow")}
                               ELSE {Alone("allow"), Alone("log")}]
=============================================================================
