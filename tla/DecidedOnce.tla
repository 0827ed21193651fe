---------------------------- MODULE DecidedOnce ----------------------------
(* What a decision promises, whoever presses which button how often: a      *)
(* pending document is accepted or rejected once, and an acceptance takes    *)
(* effect once.  A transfer puts its goods on the courier's stock; a         *)
(* withdrawal writes its row of the ledger.                                  *)
EXTENDS Naturals, FiniteSets

CONSTANT Document

VARIABLES
    verdict,    \* what was decided on each document
    effect      \* how many acceptances took effect

Verdict == {"accepted", "rejected"}

Init ==
    /\ verdict = [d \in Document |-> "pending"]
    /\ effect = 0

Decide(d, v) ==
    /\ verdict[d] = "pending"
    /\ verdict' = [verdict EXCEPT ![d] = v]
    /\ effect' = IF v = "accepted" THEN effect + 1 ELSE effect

Next == \E d \in Document, v \in Verdict : Decide(d, v)

Spec == Init /\ [][Next]_<<verdict, effect>>
============================================================================
