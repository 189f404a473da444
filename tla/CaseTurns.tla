------------------------------ MODULE CaseTurns ------------------------------
(***************************************************************************)
(* What the turns of a case promise to the code that handles their drafts: *)
(* a turn opens for the newest revision, only such a turn starts, and only *)
(* while none is active; a new revision ends every turn that waits and     *)
(* cancels the one that runs, in one transaction; a solution ends all but  *)
(* a turn that is being cancelled; and a turn that is over stays so.       *)
(*                                                                         *)
(* HermesCase keeps this with its jobs, processes and tools.  DraftDelivery*)
(* is about the drafts, with the turns reduced to this.                    *)
(***************************************************************************)
EXTENDS Naturals

CONSTANT Turns

VARIABLES
    rev,    \* automation_cases.case_revision, 0 before the first event
    turn    \* turn[t]: status and case_revision in automation_hermes_agent_turns

vars == <<rev, turn>>

\* over is any terminal status
Status == {"none", "pending", "running", "cancelling", "over"}
Row == [st : Status, rev : Nat]
NoRow == [st |-> "none", rev |-> 0]

TypeOK ==
    /\ rev \in Nat
    /\ turn \in [Turns -> Row]

Init ==
    /\ rev \in {0, 1}
    /\ turn = [t \in Turns |-> NoRow]

------------------------------------------------------------------------------
Put(t, st) == turn' = [turn EXCEPT ![t].st = st]

\* accept_intake with the event that starts or advances the case
Overtaken(st) ==
    CASE st = "pending" -> "over"
      [] st = "running" -> "cancelling"
      [] OTHER -> st
Comment ==
    /\ rev' = rev + 1
    /\ turn' = [t \in Turns |-> [turn[t] EXCEPT !.st = Overtaken(@)]]

\* hand_off_to_hermes_agent and the calls that open a turn for an engineer
Open(t) ==
    /\ rev > 0
    /\ turn[t].st = "none"
    /\ turn' = [turn EXCEPT ![t] = [st |-> "pending", rev |-> rev]]
    /\ UNCHANGED rev

\* start_hermes_agent_turn, with the index automation_hermes_turns_one_active
Start(t) ==
    /\ turn[t] = [st |-> "pending", rev |-> rev]
    /\ \A u \in Turns : turn[u].st \notin {"running", "cancelling"}
    /\ Put(t, "running")
    /\ UNCHANGED rev

\* complete_hermes_agent_turn, fail_hermes_agent_turn, supersede_hermes_turn
End(t) ==
    /\ turn[t].st \in {"pending", "running", "cancelling"}
    /\ Put(t, "over")
    /\ UNCHANGED rev

\* complete_hermes_case_solved_turn
Solve(t) ==
    /\ turn[t] = [st |-> "running", rev |-> rev]
    /\ turn' = [u \in Turns |-> IF u = t \/ turn[u].st = "pending"
                                THEN [turn[u] EXCEPT !.st = "over"] ELSE turn[u]]
    /\ UNCHANGED rev

Next ==
    \/ Comment
    \/ \E t \in Turns : Open(t) \/ Start(t) \/ End(t) \/ Solve(t)

Spec == Init /\ [][Next]_vars
==============================================================================
