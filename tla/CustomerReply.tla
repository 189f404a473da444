---------------------------- MODULE CustomerReply ----------------------------
(***************************************************************************)
(* What the delivery of drafts promises of each of them: it is posted to   *)
(* the customer at most once, only after it was released, and never after  *)
(* it was withdrawn.  Which drafts are released and withdrawn, and when,   *)
(* is not said here.                                                       *)
(***************************************************************************)
CONSTANT Drafts

VARIABLE reply   \* reply[d]: what has become of draft d

Fates == {"absent", "written", "released", "withdrawn", "posted"}

Init == reply = [d \in Drafts |-> "absent"]

Write(d) == reply[d] = "absent" /\ reply' = [reply EXCEPT ![d] = "written"]
Release(d) == reply[d] = "written" /\ reply' = [reply EXCEPT ![d] = "released"]
Post(d) == reply[d] = "released" /\ reply' = [reply EXCEPT ![d] = "posted"]

\* A comment, an escalation or the solution withdraws several at once
Withdraw(gone) ==
    /\ \A d \in gone : reply[d] \in {"written", "released"}
    /\ reply' = [d \in Drafts |-> IF d \in gone THEN "withdrawn" ELSE reply[d]]

Next == \/ \E d \in Drafts : Write(d) \/ Release(d) \/ Post(d)
        \/ \E gone \in SUBSET Drafts : Withdraw(gone)

Spec == Init /\ [][Next]_reply
==============================================================================
