-------------------------- MODULE HermesTurns_proofs --------------------------
(***************************************************************************)
(* HermesCase implements CaseTurns.  A transaction of the store writes the *)
(* row of one turn, but for a comment and a solution, which write them all;*)
(* what the agent, its tools and a process do to that row either keeps its *)
(* status and revision or ends it.  That a turn opens and starts for the   *)
(* newest revision, and that an event nobody has routed shows no turn, is  *)
(* taken from the invariant.                                               *)
(*                                                                         *)
(* The second half is about turns that are left behind.  WaitInv follows   *)
(* the job of a turn that waits, RunInv the process of one that runs, from *)
(* step to step; both rest on RowEffects, what a step can do to a row, and *)
(* on ProcessEffects, what it can do to jobs and processes.                *)
(***************************************************************************)
EXTENDS HermesClaims_proofs

\* The refinement mapping of the rows
rowsShown == [t \in Turns |-> ShownRow(turn[t])]

\* A step moves the turns as CaseTurns allows, or shows nothing
Allowed == Shown!Next \/ UNCHANGED <<case.rev, rowsShown>>

SameRevision == case'.rev = case.rev
OthersKept(t) == \A u \in Turns \ {t} : turn'[u] = turn[u]

\* What a transaction other than intake, hand-off and start does to the row it writes
Alike(r, s) == s.status = r.status /\ s.rev = r.rev
Finished(r, s) == r.status \in Live /\ s.status \in Ended /\ s.rev = r.rev

------------------------------------------------------------------------------
(* What is shown of a row *)

\* A row shows its status class, and its revision once it has been opened
LEMMA RowShown ==
    ASSUME NEW r
    PROVE  /\ r.status \in Ended => ShownRow(r) = [st |-> "over", rev |-> r.rev]
           /\ r.status = "cancel_requested" => ShownRow(r) = [st |-> "cancelling", rev |-> r.rev]
           /\ r.status = "running" => ShownRow(r) = [st |-> "running", rev |-> r.rev]
           /\ r.status = "pending" => ShownRow(r) = [st |-> "pending", rev |-> r.rev]
           /\ r.status \notin Live \cup Ended => ShownRow(r) = [st |-> "none", rev |-> 0]
BY DEF ShownRow, Ended, Live

LEMMA StatusClass ==
    ASSUME NEW r
    PROVE  \/ r.status \in Ended
           \/ r.status = "cancel_requested"
           \/ r.status = "running"
           \/ r.status = "pending"
           \/ r.status \notin Live \cup Ended
BY DEF Live

LEMMA AlikeShown ==
    ASSUME NEW r, NEW s, Alike(r, s)
    PROVE  ShownRow(s) = ShownRow(r)
BY DEF Alike, ShownRow

LEMMA FinishedShown ==
    ASSUME NEW r, NEW s, Finished(r, s)
    PROVE  /\ ShownRow(r).st \in {"pending", "running", "cancelling"}
           /\ ShownRow(s) = [ShownRow(r) EXCEPT !.st = "over"]
<1>1. ShownRow(s) = [st |-> "over", rev |-> r.rev]
  BY RowShown DEF Finished
<1>2. \E st \in {"pending", "running", "cancelling"} : ShownRow(r) = [st |-> st, rev |-> r.rev]
  BY RowShown DEF Finished, Live
<1> QED
  BY <1>1, <1>2

\* The rows of the next state, one by one
LEMMA ShownNext ==
    ASSUME NEW t \in Turns
    PROVE  rowsShown[t] = ShownRow(turn[t]) /\ rowsShown'[t] = ShownRow(turn'[t])
BY DEF rowsShown

------------------------------------------------------------------------------
(* The abstract moves *)

LEMMA NothingShown ==
    ASSUME SameRevision, \A t \in Turns : ShownRow(turn'[t]) = ShownRow(turn[t])
    PROVE  Allowed
BY DEF Allowed, rowsShown, SameRevision

LEMMA OneShown ==
    ASSUME NEW t \in Turns, OthersKept(t), NEW row, ShownRow(turn'[t]) = row
    PROVE  rowsShown' = [rowsShown EXCEPT ![t] = row]
<1>1. \A u \in Turns : u # t => rowsShown'[u] = rowsShown[u]
  BY ShownNext DEF OthersKept
<1>2. rowsShown'[t] = row
  BY ShownNext
<1> QED
  BY <1>1, <1>2 DEF rowsShown

\* A row that keeps its status and revision, or ends
LEMMA RowWritten ==
    ASSUME SameRevision, NEW t \in Turns, OthersKept(t),
           Alike(turn[t], turn'[t]) \/ Finished(turn[t], turn'[t])
    PROVE  Allowed
<1>1. CASE Alike(turn[t], turn'[t])
  BY <1>1, AlikeShown, NothingShown DEF OthersKept
<1>2. CASE Finished(turn[t], turn'[t])
  <2>1. /\ rowsShown[t].st \in {"pending", "running", "cancelling"}
        /\ rowsShown' = [rowsShown EXCEPT ![t] = [rowsShown[t] EXCEPT !.st = "over"]]
    BY <1>2, FinishedShown, ShownNext, OneShown
  <2>2. Shown!End(t)
    BY <2>1 DEF Shown!End, Shown!Put, SameRevision, rowsShown
  <2> QED
    BY <2>2 DEF Allowed, Shown!Next
<1> QED
  BY <1>1, <1>2

LEMMA TurnKept ==
    ASSUME SameRevision, UNCHANGED turn
    PROVE  Allowed
BY NothingShown

\* A row that was none and is one no turn has been opened for
LEMMA EventWritten ==
    ASSUME SameRevision, NEW t \in Turns, OthersKept(t),
           turn[t].status \notin Live \cup Ended, turn'[t].status \notin Live \cup Ended
    PROVE  Allowed
BY RowShown, NothingShown DEF OthersKept

LEMMA OpenShown ==
    ASSUME IInv, SameRevision, NEW t \in Turns, OthersKept(t),
           turn[t].status \notin Live \cup Ended, case.rev # 0,
           turn'[t].status = "pending", turn'[t].rev = case.rev
    PROVE  Allowed
<1>1. case.rev > 0
  BY DEF IInv, Typed
<1>2. rowsShown[t].st = "none"
  BY RowShown, ShownNext
<1>3. rowsShown' = [rowsShown EXCEPT ![t] = [st |-> "pending", rev |-> case.rev]]
  BY RowShown, OneShown
<1>4. Shown!Open(t)
  BY <1>1, <1>2, <1>3 DEF Shown!Open, SameRevision, rowsShown
<1> QED
  BY <1>4 DEF Allowed, Shown!Next

LEMMA StartShown ==
    ASSUME IInv, SameRevision, NEW t \in Turns, OthersKept(t),
           turn[t].status = "pending", turn'[t].status = "running", turn'[t].rev = turn[t].rev,
           ~Conflict(t)
    PROVE  Allowed
<1>1. turn[t].rev = case.rev
  BY DEF IInv, CaseInv, ActiveTurnIsCurrent
<1>2. rowsShown[t] = [st |-> "pending", rev |-> case.rev]
  BY <1>1, RowShown, ShownNext
<1>3. \A u \in Turns : rowsShown[u].st \notin {"running", "cancelling"}
  <2> SUFFICES ASSUME NEW u \in Turns PROVE rowsShown[u].st \notin {"running", "cancelling"}
    OBVIOUS
  <2>1. CASE u = t
    BY <1>2, <2>1
  <2>2. CASE u # t
    BY <2>2, StatusClass, RowShown, ShownNext DEF Conflict, Active
  <2> QED
    BY <2>1, <2>2
<1>4. rowsShown' = [rowsShown EXCEPT ![t] = [rowsShown[t] EXCEPT !.st = "running"]]
  <2>1. ShownRow(turn'[t]) = [st |-> "running", rev |-> case.rev]
    BY <1>1, RowShown
  <2> QED
    BY <1>2, <2>1, OneShown
<1>5. Shown!Start(t)
  BY <1>2, <1>3, <1>4 DEF Shown!Start, Shown!Put, SameRevision, rowsShown
<1> QED
  BY <1>5 DEF Allowed, Shown!Next

\* A new revision overtakes the turns of the older ones; the event that brings it
\* has no turn yet
LEMMA CommentShown ==
    ASSUME IInv, case'.rev = case.rev + 1,
           \A t \in Turns : \/ Alike(CancelledBy(turn[t]), turn'[t])
                           \/ /\ turn[t].status \notin Live \cup Ended
                              /\ turn'[t].status \notin Live \cup Ended
    PROVE  Allowed
<1>1. ASSUME NEW t \in Turns
      PROVE  ShownRow(turn'[t]) = [ShownRow(turn[t]) EXCEPT !.st = Shown!Overtaken(@)]
  <2>1. CASE /\ turn[t].status \notin Live \cup Ended
             /\ turn'[t].status \notin Live \cup Ended
    <3>1. ShownRow(turn[t]) = [st |-> "none", rev |-> 0] /\ ShownRow(turn'[t]) = ShownRow(turn[t])
      BY <2>1, RowShown
    <3> QED
      BY <3>1 DEF Shown!Overtaken
  <2>2. CASE Alike(CancelledBy(turn[t]), turn'[t])
    <3>0. ShownRow(turn'[t]) = ShownRow(CancelledBy(turn[t]))
      BY <2>2, AlikeShown
    <3>1. CASE turn[t].status = "pending"
      <4>1. ShownRow(turn[t]) = [st |-> "pending", rev |-> turn[t].rev]
        BY <3>1, RowShown
      <4>2. turn'[t].status \in Ended /\ turn'[t].rev = turn[t].rev
        <5>1. turn[t] \in TurnRow
          BY DEF IInv, Typed
        <5>2. CancelledBy(turn[t]) = [turn[t] EXCEPT !.status = "superseded", !.why = "revision"]
          BY <3>1 DEF CancelledBy
        <5>3. CancelledBy(turn[t]).status = "superseded" /\ CancelledBy(turn[t]).rev = turn[t].rev
          BY <5>1, <5>2 DEF TurnRow
        <5> QED
          BY <2>2, <5>3 DEF Alike, Ended
      <4>3. ShownRow(turn'[t]) = [st |-> "over", rev |-> turn[t].rev]
        BY <4>2, RowShown
      <4>4. Shown!Overtaken("pending") = "over"
        BY DEF Shown!Overtaken
      <4> QED
        BY <4>1, <4>3, <4>4
    <3>2. CASE turn[t].status = "running"
      <4>1. ShownRow(turn[t]) = [st |-> "running", rev |-> turn[t].rev]
        BY <3>2, RowShown
      <4>2. turn'[t].status = "cancel_requested" /\ turn'[t].rev = turn[t].rev
        BY <2>2, <3>2 DEF Alike, CancelledBy, IInv, Typed, TurnRow
      <4>3. ShownRow(turn'[t]) = [st |-> "cancelling", rev |-> turn[t].rev]
        BY <4>2, RowShown
      <4>4. Shown!Overtaken("running") = "cancelling"
        BY DEF Shown!Overtaken
      <4> QED
        BY <4>1, <4>3, <4>4
    <3>3. CASE turn[t].status \notin {"pending", "running"}
      <4>1. ShownRow(turn'[t]) = ShownRow(turn[t])
        BY <3>0, <3>3 DEF CancelledBy
      <4>2. \E st \in {"over", "cancelling", "none"} :
               \E rev : ShownRow(turn[t]) = [st |-> st, rev |-> rev]
        BY <3>3, StatusClass, RowShown
      <4> QED
        BY <4>1, <4>2 DEF Shown!Overtaken
    <3> QED
      BY <3>1, <3>2, <3>3
  <2> QED
    BY <2>1, <2>2
<1>2. Shown!Comment
  <2>1. \A t \in Turns : rowsShown'[t] = [rowsShown[t] EXCEPT !.st = Shown!Overtaken(@)]
    BY <1>1, ShownNext
  <2>2. rowsShown' = [t \in Turns |-> [rowsShown[t] EXCEPT !.st = Shown!Overtaken(@)]]
    BY <2>1 DEF rowsShown
  <2> QED
    BY <2>2 DEF Shown!Comment, rowsShown
<1> QED
  BY <1>2 DEF Allowed, Shown!Next

\* A solution ends the turn that brings it and every turn that waits
LEMMA SolveShown ==
    ASSUME SameRevision, NEW t \in Turns,
           turn[t].status = "running", turn[t].rev = case.rev,
           \A u \in Turns :
               IF u = t \/ turn[u].status = "pending" THEN Finished(turn[u], turn'[u])
                                                     ELSE turn'[u] = turn[u]
    PROVE  Allowed
<1>1. rowsShown[t] = [st |-> "running", rev |-> case.rev]
  BY RowShown, ShownNext
<1>2. ASSUME NEW u \in Turns
      PROVE  rowsShown'[u] = IF u = t \/ rowsShown[u].st = "pending"
                             THEN [rowsShown[u] EXCEPT !.st = "over"] ELSE rowsShown[u]
  <2>1. rowsShown[u].st = "pending" <=> turn[u].status = "pending"
    BY StatusClass, RowShown, ShownNext
  <2>2. CASE u = t \/ turn[u].status = "pending"
    BY <2>1, <2>2, FinishedShown, ShownNext
  <2>3. CASE ~(u = t \/ turn[u].status = "pending")
    BY <2>1, <2>3, ShownNext
  <2> QED
    BY <2>2, <2>3
<1>3. Shown!Solve(t)
  <2>1. rowsShown' = [u \in Turns |-> IF u = t \/ rowsShown[u].st = "pending"
                                      THEN [rowsShown[u] EXCEPT !.st = "over"] ELSE rowsShown[u]]
    BY <1>2 DEF rowsShown
  <2> QED
    BY <1>1, <2>1 DEF Shown!Solve, SameRevision, rowsShown
<1> QED
  BY <1>3 DEF Allowed, Shown!Next

------------------------------------------------------------------------------
(* The actions *)

\* The row of an event that has just arrived
LEMMA ArrivedStatus ==
    ASSUME NEW event, NEW rev
    PROVE  Arrived(event, rev).status = "routing"
BY DEF Arrived, NoRow

\* The row of one turn is replaced
LEMMA Put ==
    ASSUME IInv, NEW t \in Turns, NEW row, turn' = [turn EXCEPT ![t] = row]
    PROVE  turn'[t] = row /\ OthersKept(t)
BY DEF IInv, Typed, OthersKept

LEMMA IntakeAllowed ==
    ASSUME IInv, NEW t \in Turns, Intake(t)
    PROVE  Allowed
<1> PICK closed \in Closing :
        \/ \E event \in {"created", "comment"} : AcceptFirst(t, event, closed)
        \/ AcceptComment(t, closed)
        \/ AcceptCreatedLate(t, closed)
  BY DEF Intake
<1>0. turn[t].status \notin Live \cup Ended
  BY DEF AcceptFirst, AcceptComment, AcceptCreatedLate, Live, Ended
<1>1. ASSUME NEW event, AcceptFirst(t, event, closed) PROVE Allowed
  <2>1. case.rev = 0 /\ case'.rev = case.rev + 1
    BY <1>1 DEF AcceptFirst
  <2>2. turn'[t].status = "routing" /\ OthersKept(t)
    <3> DEFINE row == Arrived(event, 1)
    <3>1. turn' = [turn EXCEPT ![t] = row]
      BY <1>1 DEF AcceptFirst, SetTurn
    <3>2. row.status = "routing"
      BY ArrivedStatus
    <3> HIDE DEF row
    <3> QED
      BY <3>1, <3>2, Put
  <2>3. \A u \in Turns : turn[u].status = "none"
    BY <2>1, CaseIsNew
  <2>4. \A u \in Turns : Alike(CancelledBy(turn[u]), turn[u])
    BY <2>3 DEF Alike, CancelledBy
  <2> QED
    BY <1>0, <2>1, <2>2, <2>4, CommentShown DEF OthersKept, Live, Ended
<1>2. CASE AcceptComment(t, closed)
  <2>1. case'.rev = case.rev + 1
    BY <1>2 DEF AcceptComment
  <2>2. turn'[t].status = "routing" /\ \A u \in Turns \ {t} : turn'[u] = CancelledBy(turn[u])
    BY <1>2, ArrivedStatus DEF AcceptComment, Cancelling
  <2> QED
    BY <1>0, <2>1, <2>2, CommentShown DEF Alike, Live, Ended
<1>3. CASE AcceptCreatedLate(t, closed)
  <2>1. turn'[t].status = "routing" /\ OthersKept(t)
    <3> DEFINE row == Arrived("created", case.rev)
    <3>1. turn' = [turn EXCEPT ![t] = row]
      BY <1>3 DEF AcceptCreatedLate, SetTurn
    <3>2. row.status = "routing"
      BY ArrivedStatus
    <3> HIDE DEF row
    <3> QED
      BY <3>1, <3>2, Put
  <2>2. SameRevision
    BY <1>3 DEF AcceptCreatedLate, SameRevision, IInv, Typed
  <2> QED
    BY <1>0, <2>1, <2>2, EventWritten DEF Live, Ended
<1> QED
  BY <1>1, <1>2, <1>3

LEMMA DropAllowed ==
    ASSUME IInv, NEW t \in Turns, DropBlocked(t) \/ DropOutdated(t)
    PROVE  Allowed
<1>1. turn'[t].status = "dropped" /\ OthersKept(t)
  <2>1. PICK why : turn' = [turn EXCEPT ![t] = [turn[t] EXCEPT !.status = "dropped", !.why = why]]
    BY DEF DropBlocked, DropOutdated, SetTurn
  <2>2. turn[t] \in TurnRow
    BY DEF IInv, Typed
  <2> QED
    <3> DEFINE row == [turn[t] EXCEPT !.status = "dropped", !.why = why]
    <3>1. row.status = "dropped"
      BY <2>2 DEF TurnRow
    <3> HIDE DEF row
    <3>2. turn' = [turn EXCEPT ![t] = row]
      BY <2>1 DEF row
    <3> QED
      BY <3>1, <3>2, Put
<1>2. SameRevision /\ turn[t].status = "routing"
  BY DEF DropBlocked, DropOutdated, SameRevision
<1> QED
  BY <1>1, <1>2, EventWritten DEF Live, Ended

LEMMA OpenAllowed ==
    ASSUME IInv, NEW t \in Turns, NEW row, Open(t, row), UNCHANGED case,
           turn[t].status \in {"none", "routing"}, case.rev # 0,
           row.status = "pending", row.rev = case.rev
    PROVE  Allowed
<1>1. turn'[t] = row /\ OthersKept(t)
  BY Put DEF Open, SetTurn
<1> QED
  BY <1>1, OpenShown DEF SameRevision, Live, Ended

LEMMA RouteAllowed ==
    ASSUME IInv, NEW t \in Turns, Route(t) \/ Engineer(t)
    PROVE  Allowed
<1>1. CASE DropBlocked(t) \/ DropOutdated(t)
  BY <1>1, DropAllowed
<1>2. ASSUME NEW task, HandOff(t, task) PROVE Allowed
  <2>1. PICK row : Open(t, row) /\ row = RowFor(t, binding'.task)
    BY <1>2 DEF HandOff
  <2>2. row.status = "pending" /\ row.rev = case.rev
    BY <2>1 DEF RowFor, IInv, Typed, TurnRow
  <2>3. turn[t].status = "routing" /\ UNCHANGED case
    BY <1>2 DEF HandOff
  <2> QED
    BY <2>1, <2>2, <2>3, CaseIsNew, OpenAllowed
<1>3. CASE CreateFeedbackTurn(t)
  <2> DEFINE row == [NoRow EXCEPT !.status = "pending", !.event = "feedback", !.rev = case.rev,
                         !.kind = "investigation_feedback", !.dir = "investigation"]
  <2>0. Open(t, row)
    BY <1>3 DEF CreateFeedbackTurn
  <2>1. row.status = "pending" /\ row.rev = case.rev
    BY DEF NoRow
  <2> HIDE DEF row
  <2>2. binding.exists /\ turn[t].status = "none" /\ UNCHANGED case
    BY <1>3 DEF CreateFeedbackTurn
  <2>3. case.rev # 0
    BY <2>2 DEF IInv, CaseInv, NewCaseInv, NoBinding
  <2> QED
    BY <2>0, <2>1, <2>2, <2>3, OpenAllowed
<1>4. ASSUME NEW s \in Turns, CreateReplyTurn(t, s) PROVE Allowed
  <2> DEFINE row == [NoRow EXCEPT !.status = "pending", !.event = "reply", !.rev = case.rev,
                         !.kind = "investigation_reply", !.dir = "investigation", !.source = s]
  <2>0. Open(t, row)
    BY <1>4 DEF CreateReplyTurn
  <2>1. row.status = "pending" /\ row.rev = case.rev
    BY DEF NoRow
  <2> HIDE DEF row
  <2>2. turn[t].status = "none" /\ turn[s].status = "completed" /\ UNCHANGED case
    BY <1>4 DEF CreateReplyTurn
  <2> QED
    BY <2>0, <2>1, <2>2, CaseIsNew, OpenAllowed
<1> QED
  BY <1>1, <1>2, <1>3, <1>4 DEF Route, Engineer

LEMMA ToolAllowed ==
    ASSUME IInv, NEW t \in Turns, ToolStep(t)
    PROVE  Allowed
<1>1. ASSUME NEW dir \in Directions, RecordDirection(t, dir) PROVE Allowed
  <2>1. SameRevision
    BY <1>1 DEF RecordDirection, SameRevision
  <2>2. CASE turn[t].status \in Live
    <3>1. turn'[t] = [turn[t] EXCEPT !.dir = dir] /\ OthersKept(t)
      BY <1>1, <2>2, Put DEF RecordDirection, IInv, Typed, OthersKept
    <3>2. Alike(turn[t], turn'[t])
      BY <3>1 DEF Alike, IInv, Typed, TurnRow
    <3> QED
      BY <2>1, <3>1, <3>2, RowWritten
  <2>3. CASE turn[t].status \notin Live
    BY <1>1, <2>1, <2>3, TurnKept DEF RecordDirection
  <2> QED
    BY <2>2, <2>3
<1>2. CASE Solve(t)
  <2>1. SameRevision
    BY <1>2 DEF Solve, SameRevision, IInv, Typed
  <2>2. CASE turn[t].status = "running" /\ turn[t].rev = case.rev
    <3>1. ASSUME NEW u \in Turns
          PROVE  IF u = t \/ turn[u].status = "pending" THEN Finished(turn[u], turn'[u])
                                                       ELSE turn'[u] = turn[u]
      <4>0. turn[u] \in TurnRow
        BY DEF IInv, Typed
      <4>1. turn'[u] = SolvedRow(t, u)
        BY <1>2, <2>2 DEF Solve, SolvedRow
      <4>2. CASE u = t
        <5>1. turn'[u] = [turn[u] EXCEPT !.status = "completed", !.res = "solved"]
          BY <4>1, <4>2 DEF SolvedRow
        <5>2. turn'[u].status = "completed" /\ turn'[u].rev = turn[u].rev
          BY <4>0, <5>1 DEF TurnRow
        <5> QED
          BY <2>2, <4>2, <5>2 DEF Finished, Live, Ended
      <4>3. CASE u # t /\ turn[u].status = "pending"
        <5>1. turn'[u] = [turn[u] EXCEPT !.status = "superseded", !.why = "blocked"]
          BY <4>1, <4>3 DEF SolvedRow
        <5>2. turn'[u].status = "superseded" /\ turn'[u].rev = turn[u].rev
          BY <4>0, <5>1 DEF TurnRow
        <5> QED
          BY <4>3, <5>2 DEF Finished, Live, Ended
      <4>4. CASE ~(u = t \/ turn[u].status = "pending")
        BY <4>1, <4>4 DEF SolvedRow
      <4> QED
        BY <4>2, <4>3, <4>4
    <3> QED
      BY <2>1, <2>2, <3>1, SolveShown
  <2>3. CASE ~(turn[t].status = "running" /\ turn[t].rev = case.rev)
    BY <1>2, <2>1, <2>3, TurnKept DEF Solve
  <2> QED
    BY <2>2, <2>3
<1>3. CASE Escalate(t) \/ \E x \in ToolsCalled : CallTool(t, x)
  BY <1>3, TurnKept DEF Escalate, CallTool, SameRevision
<1> QED
  BY <1>1, <1>2, <1>3 DEF ToolStep

\* A row of which a field is written, other than its status and revision
LEMMA FieldWritten ==
    ASSUME NEW r \in TurnRow, NEW d, NEW a
    PROVE  /\ Alike(r, [r EXCEPT !.dir = d])
           /\ Alike(r, [r EXCEPT !.act = a])
           /\ Alike(r, [r EXCEPT !.act = a, !.dir = d])
BY DEF Alike, TurnRow

\* A process ends the turn that it runs
LEMMA EndAllowed ==
    ASSUME IInv, NEW t \in Turns, UNCHANGED case, NEW row, turn' = [turn EXCEPT ![t] = row],
           turn[t].status \in Live, row.status \in Ended, row.rev = turn[t].rev
    PROVE  Allowed
<1>1. turn'[t] = row /\ OthersKept(t)
  BY Put
<1> QED
  BY <1>1, RowWritten DEF Finished, SameRevision

LEMMA RefuseSnapshotAllowed ==
    ASSUME IInv, NEW w \in Workers, RefuseSnapshot(w)
    PROVE  Allowed
<1> DEFINE t == Of(w)
           row == [turn[t] EXCEPT !.status = "failed"]
<1>1. t \in Turns /\ turn[t] \in TurnRow /\ UNCHANGED case
  BY OfTurn DEF RefuseSnapshot, At, IInv, Typed
<1>2. CASE turn[t].status \in {"pending", "running"}
  <2>1. turn' = [turn EXCEPT ![t] = row]
    BY <1>2 DEF RefuseSnapshot
  <2>2. row.status = "failed" /\ row.rev = turn[t].rev
    BY <1>1 DEF TurnRow
  <2> HIDE DEF row
  <2> QED
    BY <1>1, <1>2, <2>1, <2>2, EndAllowed DEF Live, Ended
<1>3. CASE turn[t].status \notin {"pending", "running"}
  BY <1>1, <1>3, TurnKept DEF RefuseSnapshot, SameRevision
<1> QED
  BY <1>2, <1>3

LEMMA CompleteAllowed ==
    ASSUME IInv, NEW w \in Workers, Complete(w)
    PROVE  Allowed
<1> DEFINE t == Of(w)
           row == [turn[t] EXCEPT !.status = "completed", !.res = worker[w].out]
<1>1. t \in Turns /\ turn[t] \in TurnRow /\ UNCHANGED case
  BY OfTurn DEF Complete, At, IInv, Typed
<1>2. CASE turn[t].status = "running"
  <2>1. turn' = [turn EXCEPT ![t] = row]
    BY <1>2 DEF Complete
  <2>2. row.status = "completed" /\ row.rev = turn[t].rev
    BY <1>1 DEF TurnRow
  <2> HIDE DEF row
  <2> QED
    BY <1>1, <1>2, <2>1, <2>2, EndAllowed DEF Live, Ended
<1>3. CASE turn[t].status # "running"
  BY <1>1, <1>3, TurnKept DEF Complete, SameRevision
<1> QED
  BY <1>2, <1>3

LEMMA SupersedeAllowed ==
    ASSUME IInv, NEW w \in Workers, Supersede(w)
    PROVE  Allowed
<1> DEFINE t == Of(w)
           row == [turn[t] EXCEPT !.status = "superseded", !.why = "revision"]
<1>1. t \in Turns /\ turn[t] \in TurnRow /\ UNCHANGED case
  BY OfTurn DEF Supersede, At, IInv, Typed
<1>2. CASE turn[t].status \in Live
  <2>1. turn' = [turn EXCEPT ![t] = row]
    BY <1>2 DEF Supersede
  <2>2. row.status = "superseded" /\ row.rev = turn[t].rev
    BY <1>1 DEF TurnRow
  <2> HIDE DEF row
  <2> QED
    BY <1>1, <1>2, <2>1, <2>2, EndAllowed DEF Ended
<1>3. CASE turn[t].status \notin Live
  BY <1>1, <1>3, TurnKept DEF Supersede, SameRevision
<1> QED
  BY <1>2, <1>3

LEMMA FailAllowed ==
    ASSUME IInv, NEW w \in Workers, Fail(w)
    PROVE  Allowed
<1> DEFINE t == Of(w)
           status == IF worker[w].out = "lost" THEN "unknown" ELSE "failed"
           row == [turn[t] EXCEPT !.status = status]
<1>1. t \in Turns /\ turn[t] \in TurnRow /\ UNCHANGED case
  BY OfTurn DEF Fail, At, IInv, Typed
<1>2. CASE Failable(turn[t])
  <2>1. turn' = [turn EXCEPT ![t] = row]
    BY <1>2 DEF Fail
  <2>2. status \in Ended
    BY DEF Ended
  <2>3. row.status = status /\ row.rev = turn[t].rev
    BY <1>1 DEF TurnRow
  <2> HIDE DEF row, status
  <2> QED
    BY <1>1, <1>2, <2>1, <2>2, <2>3, EndAllowed DEF Failable, Live
<1>3. CASE ~Failable(turn[t])
  BY <1>1, <1>3, TurnKept DEF Fail, SameRevision
<1> QED
  BY <1>2, <1>3

LEMMA StartAllowed ==
    ASSUME IInv, NEW w \in Workers, Start(w)
    PROVE  Allowed
<1> DEFINE t == Of(w)
           old == turn[t]
<1>1. t \in Turns /\ old \in TurnRow /\ UNCHANGED case
  BY OfTurn DEF Start, At, IInv, Typed
<1>2. CASE UNCHANGED turn
  BY <1>1, <1>2, TurnKept DEF SameRevision
<1>3. CASE /\ old.status = "pending"
           /\ SetTurn(t, [old EXCEPT !.status = "superseded", !.why = "blocked"])
  <2> DEFINE row == [old EXCEPT !.status = "superseded", !.why = "blocked"]
  <2>1. turn' = [turn EXCEPT ![t] = row]
    BY <1>3 DEF SetTurn
  <2>2. row.status = "superseded" /\ row.rev = old.rev
    BY <1>1 DEF TurnRow
  <2> HIDE DEF row
  <2> QED
    BY <1>1, <1>3, <2>1, <2>2, EndAllowed DEF Live, Ended
<1>4. CASE old.status = "pending" /\ ~Conflict(t) /\ SetTurn(t, StartedRow(old))
  <2> DEFINE row == StartedRow(old)
  <2>1. row.status = "running" /\ row.rev = old.rev
    BY <1>1 DEF StartedRow, TurnRow
  <2> HIDE DEF row
  <2>2. turn'[t] = row /\ OthersKept(t)
    BY <1>1, <1>4, Put DEF SetTurn, row
  <2> QED
    BY <1>1, <1>4, <2>1, <2>2, StartShown DEF SameRevision
<1> QED
  BY <1>2, <1>3, <1>4 DEF Start

LEMMA DirectedAllowed ==
    ASSUME IInv, NEW t \in Turns, UNCHANGED case, NEW row, turn' = [turn EXCEPT ![t] = row],
           Alike(turn[t], row)
    PROVE  Allowed
<1>1. turn'[t] = row /\ OthersKept(t)
  BY Put
<1> QED
  BY <1>1, RowWritten DEF SameRevision

LEMMA PollCompletedAllowed ==
    ASSUME IInv, NEW w \in Workers, PollCompleted(w)
    PROVE  Allowed
<1> DEFINE t == Of(w)
<1>1. t \in Turns /\ turn[t] \in TurnRow /\ turn \in [Turns -> TurnRow] /\ UNCHANGED case
  BY OfTurn DEF PollCompleted, At, IInv, Typed
<1>2. CASE UNCHANGED turn
  BY <1>1, <1>2, TurnKept DEF SameRevision
<1>3. ASSUME NEW act, turn' = Classified(t, act) PROVE Allowed
  <2> DEFINE row == [turn[t] EXCEPT !.act = act]
  <2>1. turn' = [turn EXCEPT ![t] = row]
    BY <1>3 DEF Classified
  <2>2. Alike(turn[t], row)
    BY <1>1, FieldWritten
  <2> HIDE DEF row
  <2> QED
    BY <1>1, <2>1, <2>2, DirectedAllowed
<1>4. CASE turn' = [Classified(t, "handoff") EXCEPT ![t].dir = "human"]
  <2> DEFINE row == [turn[t] EXCEPT !.act = "handoff", !.dir = "human"]
  <2>1. turn' = [turn EXCEPT ![t] = row]
    BY <1>1, <1>4 DEF Classified
  <2>2. Alike(turn[t], row)
    BY <1>1, FieldWritten
  <2> HIDE DEF row
  <2> QED
    BY <1>1, <2>1, <2>2, DirectedAllowed
<1> QED
  BY <1>2, <1>3, <1>4 DEF PollCompleted

LEMMA PromptMissingAllowed ==
    ASSUME IInv, NEW w \in Workers, PromptMissing(w)
    PROVE  Allowed
<1> DEFINE t == Of(w)
           row == [turn[t] EXCEPT !.dir = "human"]
<1>1. t \in Turns /\ turn[t] \in TurnRow /\ UNCHANGED case
  BY OfTurn DEF PromptMissing, At, IInv, Typed
<1>2. UNCHANGED turn \/ turn' = [turn EXCEPT ![t] = row]
  BY DEF PromptMissing
<1>3. Alike(turn[t], row)
  BY <1>1, FieldWritten
<1> HIDE DEF row
<1> QED
  BY <1>1, <1>2, <1>3, TurnKept, DirectedAllowed DEF SameRevision

LEMMA WorkAllowed ==
    ASSUME IInv, NEW w \in Workers, Work(w)
    PROVE  Allowed
<1>1. CASE \/ Enter(w) \/ Notify(w) \/ BeginPhase(w) \/ Fence(w) \/ Launch(w) \/ RecordRun(w)
           \/ PollOther(w) \/ AfterPhase(w) \/ Handover(w)
           \/ ListRuns(w) \/ (\E p \in Phases : SeeStopped(w, p)) \/ Settle(w)
  <2>1. UNCHANGED <<case, turn>>
    BY <1>1 DEF Enter, Notify, BeginPhase, Fence, Launch, RecordRun, PollOther, AfterPhase,
                Handover, ListRuns, SeeStopped, Settle
  <2> QED
    BY <2>1, TurnKept DEF SameRevision
<1> QED
  BY <1>1, RefuseSnapshotAllowed, StartAllowed, PollCompletedAllowed, CompleteAllowed,
     FailAllowed, SupersedeAllowed DEF Work

------------------------------------------------------------------------------
(* The refinement *)

LEMMA StepAllowed == IInv /\ [Next]_vars => Allowed
<1> SUFFICES ASSUME IInv, [Next]_vars PROVE Allowed
  OBVIOUS
<1>1. ASSUME NEW t \in Turns, Intake(t) \/ Route(t) \/ Engineer(t) \/ ToolStep(t)
      PROVE  Allowed
  BY <1>1, IntakeAllowed, RouteAllowed, ToolAllowed
<1>2. ASSUME NEW w \in Workers, Work(w) \/ PromptMissing(w) PROVE Allowed
  BY <1>2, WorkAllowed, PromptMissingAllowed
<1>3. ASSUME NEW closed \in BOOLEAN, AcceptUpdate(closed) PROVE Allowed
  BY <1>3, TurnKept DEF AcceptUpdate, SameRevision, IInv, Typed
<1>4. CASE UNCHANGED <<case, turn>>
  BY <1>4, TurnKept DEF SameRevision
<1>5. ASSUME NEW w \in Workers,
             \/ NotifyRefused(w) \/ PollGivesUp(w) \/ PutOff(w)
             \/ OwnerStalls(w) \/ Fault(w) \/ Crash(w) \/ \E t \in Turns : Claim(w, t)
      PROVE  UNCHANGED <<case, turn>>
  BY <1>5 DEF NotifyRefused, PollGivesUp, PutOff, OwnerStalls, Fault, Crash, Claim
<1>6. ASSUME NEW t \in Turns, LeaseRunsOut(t) \/ \E p \in Phases : GatewayEnds(t, p)
      PROVE  UNCHANGED <<case, turn>>
  BY <1>6 DEF LeaseRunsOut, GatewayEnds
<1>7. CASE UNCHANGED vars
  BY <1>4, <1>7 DEF vars
<1> QED
  BY <1>1, <1>2, <1>3, <1>4, <1>5, <1>6, <1>7 DEF Next

\* Whatever comes late, is tried again or dies, the turns of the case move as the
\* code about its drafts assumes: opened and started for the newest revision, alone,
\* overtaken and ended together with the transaction that says so, and never revived.
THEOREM HermesKeepsTurns == Spec => KeepsTurns
<1>1. Init => Shown!Init
  BY RowShown DEF Init, Shown!Init, Shown!NoRow, NoRow, Live, Ended
<1>2. IInv /\ [Next]_vars =>
         [Shown!Next]_<<case.rev, [t \in Turns |-> ShownRow(turn[t])]>>
  BY StepAllowed DEF Allowed, rowsShown
<1> QED
  BY <1>1, <1>2, Invariance, PTL DEF Spec, KeepsTurns, Shown!Spec, Shown!vars

------------------------------------------------------------------------------
(* How a step can write the row of a turn *)

RowKept(r, s) == s.status = r.status /\ s.kind = r.kind /\ s.res = r.res

\* The row comes to a status that is neither pending nor running nor over
RowOut(r, s) ==
    /\ s.status \in {"routing", "dropped", "cancel_requested"}
    /\ s.res \in {r.res, "none"}

RowWrites(r, s) == RowKept(r, s) \/ s.status \in Ended \/ RowOut(r, s)

\* The two transactions that bring a turn to pending and to running
Opening(t) == Opens(t) /\ turn'[t].res \in {turn[t].res, "none"}
Begins(w, t) ==
    /\ Start(w) /\ Of(w) = t
    /\ turn[t].status = "pending" /\ turn'[t].status = "running" /\ turn'[t].res = turn[t].res

RowEffect(t) ==
    \/ RowWrites(turn[t], turn'[t])
    \/ Opening(t)
    \/ \E w \in Workers : Begins(w, t)
RowEffects == \A t \in Turns : RowEffect(t)

LEMMA RowsKept ==
    ASSUME UNCHANGED turn
    PROVE  RowEffects
BY DEF RowEffects, RowEffect, RowWrites, RowKept

LEMMA OneRowEffect ==
    ASSUME NEW t \in Turns, OthersKept(t), RowEffect(t)
    PROVE  RowEffects
BY DEF RowEffects, RowEffect, RowWrites, RowKept, OthersKept

LEMMA OneRowWrites ==
    ASSUME IInv, NEW t \in Turns, NEW row, turn' = [turn EXCEPT ![t] = row],
           RowWrites(turn[t], row)
    PROVE  RowEffects
BY Put, OneRowEffect DEF RowEffect

\* Rows of which some fields are written
LEMMA FieldsWritten ==
    ASSUME NEW r \in TurnRow, NEW a, NEW b
    PROVE  /\ RowKept(r, [r EXCEPT !.dir = a])
           /\ RowKept(r, [r EXCEPT !.act = a])
           /\ RowKept(r, [r EXCEPT !.act = a, !.dir = b])
           /\ [r EXCEPT !.status = a].status = a
           /\ [r EXCEPT !.status = a, !.why = b].status = a
           /\ [r EXCEPT !.status = a, !.why = b].res = r.res
           /\ [r EXCEPT !.status = a, !.res = b].status = a
BY DEF RowKept, TurnRow

LEMMA IntakeWrites ==
    ASSUME IInv, NEW t \in Turns, Intake(t)
    PROVE  RowEffects
<1> PICK closed \in Closing :
        \/ \E event \in {"created", "comment"} : AcceptFirst(t, event, closed)
        \/ AcceptComment(t, closed)
        \/ AcceptCreatedLate(t, closed)
  BY DEF Intake
<1>1. ASSUME NEW event, NEW rev PROVE RowWrites(turn[t], Arrived(event, rev))
  BY DEF Arrived, NoRow, RowWrites, RowOut
<1>2. CASE \/ \E event \in {"created", "comment"} : AcceptFirst(t, event, closed)
           \/ AcceptCreatedLate(t, closed)
  BY <1>1, <1>2, OneRowWrites DEF AcceptFirst, AcceptCreatedLate, SetTurn
<1>3. CASE AcceptComment(t, closed)
  <2>1. ASSUME NEW u \in Turns PROVE RowWrites(turn[u], turn'[u])
    <3>1. CASE u = t
      BY <1>1, <1>3, <3>1 DEF AcceptComment, Cancelling
    <3>2. CASE u # t
      <4>1. turn'[u] = CancelledBy(turn[u])
        BY <1>3, <3>2 DEF AcceptComment, Cancelling
      <4>2. turn[u] \in TurnRow
        BY DEF IInv, Typed
      <4>3. CASE turn[u].status = "pending"
        <5>1. turn'[u] = [turn[u] EXCEPT !.status = "superseded", !.why = "revision"]
          BY <4>1, <4>3 DEF CancelledBy
        <5>2. turn'[u].status = "superseded"
          BY <4>2, <5>1 DEF TurnRow
        <5> QED
          BY <5>2 DEF RowWrites, Ended
      <4>4. CASE turn[u].status = "running"
        <5>1. turn'[u] = [turn[u] EXCEPT !.status = "cancel_requested"]
          BY <4>1, <4>4 DEF CancelledBy
        <5>2. turn'[u].status = "cancel_requested" /\ turn'[u].res = turn[u].res
          BY <4>2, <5>1 DEF TurnRow
        <5> QED
          BY <5>2 DEF RowWrites, RowOut
      <4>5. CASE turn[u].status \notin {"pending", "running"}
        BY <4>1, <4>5 DEF CancelledBy, RowWrites, RowKept
      <4> QED
        BY <4>3, <4>4, <4>5
    <3> QED
      BY <3>1, <3>2
  <2> QED
    BY <2>1 DEF RowEffects, RowEffect
<1> QED
  BY <1>2, <1>3

LEMMA OpenWrites ==
    ASSUME IInv, NEW t \in Turns, turn[t].status \in {"none", "routing"}, NEW row,
           row.status = "pending", row.res \in {turn[t].res, "none"}, Open(t, row),
           UNCHANGED worker
    PROVE  RowEffects
<1>1. Opens(t)
  BY OpenEffect
<1>2. turn'[t] = row /\ OthersKept(t)
  BY Put DEF Open, SetTurn
<1> QED
  BY <1>1, <1>2, OneRowEffect DEF RowEffect, Opening

LEMMA RouteWrites ==
    ASSUME IInv, NEW t \in Turns, Route(t) \/ Engineer(t)
    PROVE  RowEffects
<1>1. CASE DropBlocked(t) \/ DropOutdated(t)
  <2>1. PICK why : turn' = [turn EXCEPT ![t] = [turn[t] EXCEPT !.status = "dropped", !.why = why]]
    BY <1>1 DEF DropBlocked, DropOutdated, SetTurn
  <2>2. turn[t] \in TurnRow
    BY DEF IInv, Typed
  <2> DEFINE row == [turn[t] EXCEPT !.status = "dropped", !.why = why]
  <2>3. row.status = "dropped" /\ row.res = turn[t].res
    BY <2>2 DEF TurnRow
  <2>4. turn' = [turn EXCEPT ![t] = row]
    BY <2>1
  <2> HIDE DEF row
  <2> QED
    BY <2>3, <2>4, OneRowWrites DEF RowWrites, RowOut
<1>2. ASSUME NEW task, HandOff(t, task) PROVE RowEffects
  <2>1. PICK row : Open(t, row) /\ row = RowFor(t, binding'.task)
    BY <1>2 DEF HandOff
  <2>2. row.status = "pending" /\ row.res = turn[t].res
    BY <2>1 DEF RowFor, IInv, Typed, TurnRow
  <2>3. turn[t].status = "routing" /\ UNCHANGED worker
    BY <1>2 DEF HandOff
  <2> QED
    BY <2>1, <2>2, <2>3, OpenWrites
<1>3. CASE CreateFeedbackTurn(t)
  <2> DEFINE row == [NoRow EXCEPT !.status = "pending", !.event = "feedback", !.rev = case.rev,
                         !.kind = "investigation_feedback", !.dir = "investigation"]
  <2>1. Open(t, row) /\ turn[t].status = "none" /\ UNCHANGED worker
    BY <1>3 DEF CreateFeedbackTurn
  <2>2. row.status = "pending" /\ row.res = "none"
    BY DEF NoRow
  <2> HIDE DEF row
  <2> QED
    BY <2>1, <2>2, OpenWrites
<1>4. ASSUME NEW s \in Turns, CreateReplyTurn(t, s) PROVE RowEffects
  <2> DEFINE row == [NoRow EXCEPT !.status = "pending", !.event = "reply", !.rev = case.rev,
                         !.kind = "investigation_reply", !.dir = "investigation", !.source = s]
  <2>1. Open(t, row) /\ turn[t].status = "none" /\ UNCHANGED worker
    BY <1>4 DEF CreateReplyTurn
  <2>2. row.status = "pending" /\ row.res = "none"
    BY DEF NoRow
  <2> HIDE DEF row
  <2> QED
    BY <2>1, <2>2, OpenWrites
<1> QED
  BY <1>1, <1>2, <1>3, <1>4 DEF Route, Engineer

LEMMA ToolWrites ==
    ASSUME IInv, NEW t \in Turns, ToolStep(t)
    PROVE  RowEffects
<1>1. ASSUME NEW dir \in Directions, RecordDirection(t, dir) PROVE RowEffects
  <2>1. CASE turn[t].status \in Live
    <3> DEFINE row == [turn[t] EXCEPT !.dir = dir]
    <3>1. turn' = [turn EXCEPT ![t] = row]
      BY <1>1, <2>1 DEF RecordDirection
    <3>2. RowKept(turn[t], row)
      BY FieldsWritten DEF IInv, Typed
    <3> HIDE DEF row
    <3> QED
      BY <3>1, <3>2, OneRowWrites DEF RowWrites
  <2>2. CASE turn[t].status \notin Live
    BY <1>1, <2>2, RowsKept DEF RecordDirection
  <2> QED
    BY <2>1, <2>2
<1>2. CASE Solve(t)
  <2>1. CASE turn[t].status = "running" /\ turn[t].rev = case.rev
    <3>1. ASSUME NEW u \in Turns PROVE RowWrites(turn[u], turn'[u])
      <4>1. turn'[u] = SolvedRow(t, u)
        BY <1>2, <2>1 DEF Solve, SolvedRow
      <4>2. turn[u] \in TurnRow
        BY DEF IInv, Typed
      <4>3. turn'[u] = turn[u] \/ turn'[u].status \in {"completed", "superseded"}
        <5>1. CASE u = t
          <6>1. turn'[u] = [turn[u] EXCEPT !.status = "completed", !.res = "solved"]
            BY <4>1, <5>1 DEF SolvedRow
          <6> QED
            BY <4>2, <6>1 DEF TurnRow
        <5>2. CASE u # t /\ turn[u].status = "pending"
          <6>1. turn'[u] = [turn[u] EXCEPT !.status = "superseded", !.why = "blocked"]
            BY <4>1, <5>2 DEF SolvedRow
          <6> QED
            BY <4>2, <6>1 DEF TurnRow
        <5>3. CASE u # t /\ turn[u].status # "pending"
          BY <4>1, <5>3 DEF SolvedRow
        <5> QED
          BY <5>1, <5>2, <5>3
      <4> QED
        BY <4>3 DEF RowWrites, RowKept, Ended
    <3> QED
      BY <3>1 DEF RowEffects, RowEffect
  <2>2. CASE ~(turn[t].status = "running" /\ turn[t].rev = case.rev)
    BY <1>2, <2>2, RowsKept DEF Solve
  <2> QED
    BY <2>1, <2>2
<1>3. CASE Escalate(t) \/ \E x \in ToolsCalled : CallTool(t, x)
  BY <1>3, RowsKept DEF Escalate, CallTool
<1> QED
  BY <1>1, <1>2, <1>3 DEF ToolStep

\* The write that a process makes to the row of its turn
LEMMA WorkWrites ==
    ASSUME IInv, NEW w \in Workers, Work(w) \/ PromptMissing(w)
    PROVE  RowEffects
<1> DEFINE t == Of(w)
<1>1. CASE UNCHANGED turn
  BY <1>1, RowsKept
<1>2. worker[w].pc # "idle" => t \in Turns /\ turn[t] \in TurnRow
  BY OfTurn DEF IInv, Typed
<1>3. ASSUME NEW a \in Ended, worker[w].pc # "idle", turn' = [turn EXCEPT ![t].status = a]
      PROVE  RowEffects
  <2> DEFINE row == [turn[t] EXCEPT !.status = a]
  <2>1. turn' = [turn EXCEPT ![t] = row]
    BY <1>3
  <2>2. row.status = a
    BY <1>2, <1>3 DEF TurnRow
  <2> HIDE DEF row
  <2> QED
    BY <1>2, <1>3, <2>1, <2>2, OneRowWrites DEF RowWrites
<1>4. CASE RefuseSnapshot(w)
  BY <1>1, <1>3, <1>4 DEF RefuseSnapshot, At, Ended
<1>5. CASE Fail(w)
  BY <1>1, <1>3, <1>5 DEF Fail, At, Ended
<1>6. CASE Complete(w)
  <2> DEFINE row == [turn[t] EXCEPT !.status = "completed", !.res = worker[w].out]
  <2>1. t \in Turns /\ (UNCHANGED turn \/ turn' = [turn EXCEPT ![t] = row])
    BY <1>2, <1>6 DEF Complete, At, IInv, Typed
  <2>2. row.status = "completed"
    BY <1>2, <1>6 DEF Complete, At, TurnRow
  <2> HIDE DEF row
  <2> QED
    BY <1>1, <2>1, <2>2, OneRowWrites DEF RowWrites, Ended
<1>7. CASE Supersede(w)
  <2> DEFINE row == [turn[t] EXCEPT !.status = "superseded", !.why = "revision"]
  <2>1. t \in Turns /\ (UNCHANGED turn \/ turn' = [turn EXCEPT ![t] = row])
    BY <1>2, <1>7 DEF Supersede, At, IInv, Typed
  <2>2. row.status = "superseded"
    BY <1>2, <1>7 DEF Supersede, At, TurnRow
  <2> HIDE DEF row
  <2> QED
    BY <1>1, <2>1, <2>2, OneRowWrites DEF RowWrites, Ended
<1>8. CASE Start(w)
  <2>1. t \in Turns /\ turn[t] \in TurnRow
    BY <1>2, <1>8 DEF Start, At
  <2>2. CASE turn' = [turn EXCEPT ![t] = [turn[t] EXCEPT !.status = "superseded", !.why = "blocked"]]
    <3> DEFINE row == [turn[t] EXCEPT !.status = "superseded", !.why = "blocked"]
    <3>1. turn' = [turn EXCEPT ![t] = row]
      BY <2>2
    <3>2. row.status = "superseded"
      BY <2>1 DEF TurnRow
    <3> HIDE DEF row
    <3> QED
      BY <2>1, <3>1, <3>2, OneRowWrites DEF RowWrites, Ended
  <2>3. CASE turn[t].status = "pending" /\ turn' = [turn EXCEPT ![t] = StartedRow(turn[t])]
    <3>1. StartedRow(turn[t]).status = "running" /\ StartedRow(turn[t]).res = turn[t].res
      BY <2>1 DEF StartedRow, TurnRow
    <3>2. turn'[t] = StartedRow(turn[t]) /\ OthersKept(t)
      BY <2>1, <2>3, Put
    <3>3. Begins(w, t)
      BY <1>8, <2>3, <3>1, <3>2 DEF Begins
    <3> QED
      BY <2>1, <3>2, <3>3, OneRowEffect DEF RowEffect
  <2> QED
    BY <1>1, <1>8, <2>2, <2>3 DEF Start, SetTurn
<1>9. CASE PollCompleted(w)
  <2>1. t \in Turns /\ turn[t] \in TurnRow /\ turn \in [Turns -> TurnRow]
    BY <1>2, <1>9 DEF PollCompleted, At, IInv, Typed
  <2>2. ASSUME NEW act, turn' = Classified(t, act) PROVE RowEffects
    <3> DEFINE row == [turn[t] EXCEPT !.act = act]
    <3>1. turn' = [turn EXCEPT ![t] = row]
      BY <2>2 DEF Classified
    <3>2. RowKept(turn[t], row)
      BY <2>1 DEF RowKept, TurnRow
    <3> HIDE DEF row
    <3> QED
      BY <2>1, <3>1, <3>2, OneRowWrites DEF RowWrites
  <2>3. CASE turn' = [Classified(t, "handoff") EXCEPT ![t].dir = "human"]
    <3> DEFINE row == [turn[t] EXCEPT !.act = "handoff", !.dir = "human"]
    <3>1. turn' = [turn EXCEPT ![t] = row]
      BY <2>1, <2>3 DEF Classified
    <3>2. RowKept(turn[t], row)
      BY <2>1 DEF RowKept, TurnRow
    <3> HIDE DEF row
    <3> QED
      BY <2>1, <3>1, <3>2, OneRowWrites DEF RowWrites
  <2> QED
    BY <1>1, <1>9, <2>2, <2>3 DEF PollCompleted
<1>10. CASE PromptMissing(w)
  <2> DEFINE row == [turn[t] EXCEPT !.dir = "human"]
  <2>1. t \in Turns /\ turn[t] \in TurnRow
    BY <1>2, <1>10 DEF PromptMissing, At
  <2>2. UNCHANGED turn \/ turn' = [turn EXCEPT ![t] = row]
    BY <1>10 DEF PromptMissing
  <2>3. RowKept(turn[t], row)
    BY <2>1, FieldsWritten
  <2> HIDE DEF row
  <2> QED
    BY <1>1, <2>1, <2>2, <2>3, OneRowWrites DEF RowWrites
<1>11. CASE \/ Enter(w) \/ Notify(w) \/ BeginPhase(w) \/ Fence(w) \/ Launch(w) \/ RecordRun(w)
            \/ PollOther(w) \/ AfterPhase(w) \/ Handover(w)
            \/ ListRuns(w) \/ (\E p \in Phases : SeeStopped(w, p)) \/ Settle(w)
  BY <1>1, <1>11 DEF Enter, Notify, BeginPhase, Fence, Launch, RecordRun, PollOther, AfterPhase,
                     Handover, ListRuns, SeeStopped, Settle
<1> QED
  BY <1>4, <1>5, <1>6, <1>7, <1>8, <1>9, <1>10, <1>11 DEF Work

\* The row of a turn keeps its status and its kind, is put out of the reach of its
\* process, comes to wait, or begins: nothing else happens to it
LEMMA RowEffectsLemma ==
    ASSUME IInv, [Next]_vars
    PROVE  RowEffects
<1>1. ASSUME NEW t \in Turns, Intake(t) \/ Route(t) \/ Engineer(t) \/ ToolStep(t)
      PROVE  RowEffects
  BY <1>1, IntakeWrites, RouteWrites, ToolWrites
<1>2. ASSUME NEW w \in Workers, Work(w) \/ PromptMissing(w) PROVE RowEffects
  BY <1>2, WorkWrites
<1>3. ASSUME NEW closed \in BOOLEAN, AcceptUpdate(closed) PROVE RowEffects
  BY <1>3, RowsKept DEF AcceptUpdate
<1>4. ASSUME NEW w \in Workers,
             \/ NotifyRefused(w) \/ PollGivesUp(w) \/ PutOff(w)
             \/ OwnerStalls(w) \/ Fault(w) \/ Crash(w) \/ \E t \in Turns : Claim(w, t)
      PROVE  RowEffects
  BY <1>4, RowsKept DEF NotifyRefused, PollGivesUp, PutOff, OwnerStalls, Fault, Crash, Claim
<1>5. ASSUME NEW t \in Turns, LeaseRunsOut(t) \/ \E p \in Phases : GatewayEnds(t, p)
      PROVE  RowEffects
  BY <1>5, RowsKept DEF LeaseRunsOut, GatewayEnds
<1>6. CASE UNCHANGED vars
  BY <1>6, RowsKept DEF vars
<1> QED
  BY <1>1, <1>2, <1>3, <1>4, <1>5, <1>6 DEF Next

------------------------------------------------------------------------------
(* A turn that waits has a job that will start it *)

\* A process has not started the turn it is at, or gives the job back
Starting(f) == f.pc \in {"enter", "start"} \/ GivesBack(f)

JobWaits(j) == j.status \in {"queued", "claimed"} /\ j.ext = FALSE

WaitFits(t) ==
    turn[t].status = "pending" =>
        /\ JobWaits(job[t])
        /\ \A w \in Workers : In(worker[w], t) => Starting(worker[w])

WaitInv == used["fault"] = 0 => \A t \in Turns : WaitFits(t)

\* A turn that waits and has not just been opened was waiting before
LEMMA WaitedBefore ==
    ASSUME IInv, [Next]_vars, NEW t \in Turns, turn'[t].status = "pending"
    PROVE  turn[t].status = "pending" \/ Opens(t)
<1>1. RowEffect(t)
  BY RowEffectsLemma DEF RowEffects
<1> QED
  BY <1>1 DEF RowEffect, RowWrites, RowKept, RowOut, Ended, Begins, Opening

LEMMA OpenedWaits ==
    ASSUME OpenInv, NEW t \in Turns, Opens(t)
    PROVE  WaitFits(t)'
<1>1. JobWaits(job'[t])
  BY DEF Opens, JobWaits, NewJob, NoJob
<1>2. \A w \in Workers : ~In(worker'[w], t)
  BY DEF Opens, OpenInv, In, Of, OpenedStatus, Live, Ended
<1> QED
  BY <1>1, <1>2 DEF WaitFits

\* A step after which the job waits and no process has come to t but to start it
LEMMA WaitKept ==
    ASSUME NEW t \in Turns, WaitFits(t), turn[t].status = "pending",
           job'[t] = job[t] \/ JobWaits(job'[t]),
           \A w \in Workers :
               In(worker'[w], t) => worker'[w] = worker[w] \/ Starting(worker'[w])
    PROVE  WaitFits(t)'
BY DEF WaitFits

\* A process at another turn
LEMMA ElsewhereWaits ==
    ASSUME NEW t \in Turns, WaitFits(t), turn[t].status = "pending",
           NEW w \in Workers, ProcessEffect(w), Of(w) # t
    PROVE  WaitFits(t)'
<1>1. job'[t] = job[t]
  BY DEF ProcessEffect, MarksJob, SettlesJob, OtherJobs
<1>2. \A v \in Workers : In(worker'[v], t) => worker'[v] = worker[v]
  BY DEF ProcessEffect, GoesOn, GoesAway, Others, In
<1> QED
  BY <1>1, <1>2, WaitKept

\* The process of a turn that waits and goes on waiting
LEMMA StarterSteps ==
    ASSUME IInv, NEW w \in Workers, Work(w) \/ PollGivesUp(w) \/ PutOff(w) \/ Crash(w),
           NEW t \in Turns, In(worker[w], t), Starting(worker[w]), JobWaits(job[t]),
           turn[t].status = "pending", turn'[t].status = "pending"
    PROVE  /\ worker'[w].pc = "idle" \/ Starting(worker'[w])
           /\ JobWaits(job'[t])
<1>1. /\ worker[w].pc # "idle" /\ t = Of(w)
      /\ turn \in [Turns -> TurnRow] /\ job \in [Turns -> Job] /\ worker \in [Workers -> Frame]
  BY DEF In, Of, IInv, Typed
<1>2. ASSUME NEW f, Step(w, f), f.pc = "idle" \/ Starting(f)
      PROVE  worker'[w].pc = "idle" \/ Starting(worker'[w])
  BY <1>1, <1>2 DEF Step
<1>3. CASE Crash(w)
  BY <1>2, <1>3 DEF Crash, Idle
<1>4. CASE worker[w].pc = "enter"
  <2>1. CASE Enter(w)
    <3>1. Go(w, "start") /\ UNCHANGED job
      BY <1>1, <2>1 DEF Enter
    <3> QED
      BY <1>2, <3>1, GoFields DEF Starting
  <2> QED
    BY <1>3, <1>4, <2>1 DEF Work, RefuseSnapshot, Start, Notify, BeginPhase, Fence, Launch,
       RecordRun, PollCompleted, PollOther, AfterPhase, Handover, Complete, Fail, ListRuns,
       SeeStopped, Supersede, Settle, PollGivesUp, PutOff, At
<1>5. CASE worker[w].pc = "start"
  <2>1. CASE RefuseSnapshot(w)
    <3>1. turn'[t] = [turn[t] EXCEPT !.status = "failed"]
      BY <1>1, <2>1 DEF RefuseSnapshot
    <3>2. turn'[t].status = "failed"
      BY <1>1, <3>1 DEF TurnRow
    <3> QED
      BY <3>2
  <2>2. CASE Start(w)
    <3>1. [turn[t] EXCEPT !.status = "superseded", !.why = "blocked"].status = "superseded"
      BY <1>1 DEF TurnRow
    <3>2. StartedRow(turn[t]).status = "running"
      BY <1>1 DEF StartedRow, TurnRow
    <3>3. GoOut(w, "settle", "defer") /\ UNCHANGED job
      BY <1>1, <2>2, <3>1, <3>2 DEF Start, SetTurn
    <3> QED
      BY <1>2, <3>3, GoOutFields DEF Starting, GivesBack
  <2> QED
    BY <1>3, <1>5, <2>1, <2>2 DEF Work, Enter, Notify, BeginPhase, Fence, Launch, RecordRun,
       PollCompleted, PollOther, AfterPhase, Handover, Complete, Fail, ListRuns, SeeStopped,
       Supersede, Settle, PollGivesUp, PutOff, At
<1>6. CASE GivesBack(worker[w])
  <2>1. CASE Settle(w)
    <3>1. worker'[w].pc = "idle"
      BY <1>1, <2>1 DEF Settle, Step, Idle
    <3>2. CASE Owns(w)
      <4>1. job' = [job EXCEPT ![t].status = "queued", ![t].owner = NoWorker]
        BY <1>1, <1>6, <2>1, <3>2 DEF Settle, GivesBack
      <4>2. job'[t].status = "queued" /\ job'[t].ext = job[t].ext
        BY <1>1, <4>1 DEF Job
      <4> QED
        BY <3>1, <4>2 DEF JobWaits
    <3>3. CASE ~Owns(w)
      BY <2>1, <3>1, <3>3 DEF Settle
    <3> QED
      BY <3>2, <3>3
  <2> QED
    BY <1>3, <1>6, <2>1 DEF Work, Enter, RefuseSnapshot, Start, Notify, BeginPhase, Fence,
       Launch, RecordRun, PollCompleted, PollOther, AfterPhase, Handover, Complete, Fail,
       ListRuns, SeeStopped, Supersede, PollGivesUp, PutOff, At, GivesBack
<1> QED
  BY <1>4, <1>5, <1>6 DEF Starting

\* Steps that leave the jobs and the processes alone
Elsewhere ==
    \/ \E t \in Turns : Intake(t) \/ ToolStep(t) \/ \E p \in Phases : GatewayEnds(t, p)
    \/ \E closed \in BOOLEAN : AcceptUpdate(closed)
    \/ UNCHANGED vars

LEMMA ElsewhereKept ==
    ASSUME Elsewhere
    PROVE  UNCHANGED <<job, worker>>
BY DEF Elsewhere, Intake, AcceptFirst, AcceptComment, AcceptCreatedLate, ToolStep, CallTool,
       RecordDirection, Escalate, Solve, GatewayEnds, AcceptUpdate, vars

\* Another turn that is opened is none that waits or runs
LEMMA OpensOther ==
    ASSUME IInv, NEW u \in Turns, Route(u) \/ Engineer(u), NEW t \in Turns,
           turn[t].status \in {"pending", "running"}
    PROVE  job'[t] = job[t] /\ UNCHANGED worker
BY OpensEffect DEF Opens, OtherJobs

LEMMA WaitStep ==
    ASSUME IInv, OpenInv, WaitInv, [Next]_vars
    PROVE  WaitInv'
<1> SUFFICES ASSUME used'["fault"] = 0, NEW t \in Turns, turn'[t].status = "pending"
             PROVE  WaitFits(t)'
  BY DEF WaitInv, WaitFits
<1>1. used["fault"] = 0 /\ ~Spend("fault")
  BY NotCounted DEF Faults
<1>2. WaitFits(t)
  BY <1>1 DEF WaitInv
<1>3. CASE Opens(t)
  BY <1>3, OpenedWaits
<1>4. CASE turn[t].status = "pending"
  <2>1. CASE Elsewhere
    BY <1>2, <1>4, <2>1, ElsewhereKept, WaitKept
  <2>2. ASSUME NEW u \in Turns, Route(u) \/ Engineer(u) PROVE WaitFits(t)'
    BY <1>2, <1>4, <2>2, OpensOther, WaitKept
  <2>3. ASSUME NEW u \in Turns, Lapses(u) PROVE WaitFits(t)'
    <3>1. UNCHANGED worker
      BY <2>3 DEF Lapses
    <3>2. job'[t] = job[t] \/ JobWaits(job'[t])
      BY <1>2, <1>4, <2>3 DEF Lapses, OtherJobs, WaitFits, JobWaits
    <3> QED
      BY <1>2, <1>4, <3>1, <3>2, WaitKept
  <2>4. ASSUME NEW w \in Workers, NEW u \in Turns, Claim(w, u) PROVE WaitFits(t)'
    <3>1. Takes(w, u) /\ worker'[w] = [Idle EXCEPT !.pc = "enter", !.turn = u]
      BY <2>4, ClaimEffect DEF Claim, Step, IInv, Typed
    <3>2. worker'[w].pc = "enter"
      BY <3>1 DEF Idle
    <3>3. job'[t] = job[t] \/ JobWaits(job'[t])
      BY <1>2, <1>4, <3>1 DEF Takes, OtherJobs, WaitFits, JobWaits
    <3>4. \A v \in Workers : worker'[v] = worker[v] \/ Starting(worker'[v])
      BY <3>1, <3>2 DEF Takes, Others, Starting
    <3> QED
      BY <1>2, <1>4, <3>3, <3>4, WaitKept
  <2>5. ASSUME NEW w \in Workers, Work(w) \/ PollGivesUp(w) \/ PutOff(w) \/ Crash(w)
        PROVE  WaitFits(t)'
    <3>1. ProcessEffect(w)
      BY <2>5, ProcessEffects
    <3>2. CASE Of(w) # t
      BY <1>2, <1>4, <3>1, <3>2, ElsewhereWaits
    <3>3. CASE Of(w) = t
      <4>1. In(worker[w], t) /\ Others(w)
        BY <3>1, <3>3 DEF ProcessEffect, GoesOn, GoesAway, In, Of
      <4>2. Starting(worker[w]) /\ JobWaits(job[t])
        BY <1>2, <1>4, <4>1 DEF WaitFits
      <4>3. (worker'[w].pc = "idle" \/ Starting(worker'[w])) /\ JobWaits(job'[t])
        BY <1>4, <2>5, <4>1, <4>2, StarterSteps
      <4> QED
        BY <1>2, <1>4, <4>1, <4>3, WaitKept DEF Others, In
    <3> QED
      BY <3>2, <3>3
  <2>6. ASSUME NEW w \in Workers, OwnerStalls(w) PROVE WaitFits(t)'
    <3>1. Of(w) \in Turns
      BY <2>6, OfTurn DEF OwnerStalls, At
    <3> QED
      BY <2>3, <2>6, <3>1, LapseEffect DEF OwnerStalls, Owns
  <2>7. ASSUME NEW u \in Turns, LeaseRunsOut(u) PROVE WaitFits(t)'
    BY <2>3, <2>7, LapseEffect DEF LeaseRunsOut
  <2>8. ASSUME NEW w \in Workers PROVE ~(PromptMissing(w) \/ NotifyRefused(w) \/ Fault(w))
    BY <1>1 DEF PromptMissing, NotifyRefused, Fault
  <2> QED
    BY <2>1, <2>2, <2>4, <2>5, <2>6, <2>7, <2>8 DEF Next, Elsewhere
<1> QED
  BY <1>3, <1>4, WaitedBefore

\* As long as no exception ended a job, a turn that waits has a job that is queued or
\* claimed: no deferral, lapse, crash or race with a comment leaves it without one.
THEOREM WaitingIsDriven == Spec => []WaitingTurnIsDriven
<1>1. Init => WaitInv
  BY DEF Init, WaitInv, WaitFits, NoRow
<1>2. IInv /\ OpenInv /\ WaitInv /\ [Next]_vars => WaitInv'
  BY WaitStep
<1>3. IInv /\ IInv' /\ OpenInv /\ [Next]_vars => OpenInv'
  BY OpenStep
<1>4. WaitInv => WaitingTurnIsDriven
  BY DEF WaitInv, WaitFits, JobWaits, WaitingTurnIsDriven
<1> QED
  BY <1>1, <1>2, <1>3, <1>4, InitOpen, Invariance, PTL DEF Spec

------------------------------------------------------------------------------
(* A turn that runs has a process that is on the way to ending it *)

\* Only a turn that was completed says that the case is solved
ResInv == \A t \in Turns : turn[t].res = "solved" => turn[t].status \in Ended

LEMMA ResStep ==
    ASSUME IInv, ResInv, [Next]_vars
    PROVE  ResInv'
<1> SUFFICES ASSUME NEW t \in Turns, turn'[t].res = "solved" PROVE turn'[t].status \in Ended
  BY DEF ResInv
<1>1. RowEffect(t)
  BY RowEffectsLemma DEF RowEffects
<1>2. turn[t].res = "solved" => turn[t].status \in Ended /\ turn'[t] = turn[t]
  BY EndedLemma DEF ResInv, EndedRowsStay
<1> QED
  BY <1>1, <1>2 DEF RowEffect, RowWrites, RowKept, RowOut, Opening, Opens, Begins, Ended

\* A case that was handed over stays so
LEMMA EscalatedStays ==
    ASSUME IInv, [Next]_vars, binding.escalated
    PROVE  binding'.escalated
<1>1. binding \in Binding
  BY DEF IInv, Typed
<1>2. CASE UNCHANGED binding
  BY <1>2
<1>3. ASSUME NEW closed, binding' = BindingAfterIntake(closed) PROVE binding'.escalated
  BY <1>1, <1>3 DEF BindingAfterIntake, Binding
<1>4. ASSUME NEW dir, binding' = [binding EXCEPT !.dir = dir] PROVE binding'.escalated
  BY <1>1, <1>4 DEF Binding
<1>5. CASE binding' = HandedOver
  BY <1>1, <1>5 DEF HandedOver, Binding
<1>6. ASSUME NEW t \in Turns, Intake(t) PROVE binding'.escalated
  BY <1>2, <1>3, <1>6 DEF Intake, AcceptFirst, AcceptComment, AcceptCreatedLate
<1>7. ASSUME NEW t \in Turns, Route(t) \/ Engineer(t) PROVE binding'.escalated
  <2>1. ASSUME NEW task, HandOff(t, task) PROVE binding'.escalated
    <3>1. binding' = BindingWithTask(t, task)
      BY <2>1 DEF HandOff
    <3> QED
      BY <1>1, <3>1 DEF BindingWithTask, Binding
  <2> QED
    BY <1>2, <1>7, <2>1 DEF Route, DropBlocked, DropOutdated, Engineer, CreateFeedbackTurn,
       CreateReplyTurn
<1>8. ASSUME NEW t \in Turns, ToolStep(t) PROVE binding'.escalated
  <2>1. CASE Solve(t)
    <3>1. UNCHANGED binding \/ binding' = [binding EXCEPT !.terminal = TRUE]
      BY <2>1 DEF Solve
    <3> QED
      BY <1>1, <3>1 DEF Binding
  <2> QED
    BY <1>2, <1>4, <1>5, <1>8, <2>1 DEF ToolStep, CallTool, RecordDirection, Escalate
<1>9. ASSUME NEW w \in Workers, Work(w) \/ PromptMissing(w) PROVE binding'.escalated
  BY <1>2, <1>4, <1>5, <1>9 DEF Work, PromptMissing, Enter, RefuseSnapshot, Start, Notify,
     BeginPhase, Fence, Launch, RecordRun, PollCompleted, PollOther, AfterPhase, Handover,
     Complete, Fail, ListRuns, SeeStopped, Supersede, Settle
<1>10. ASSUME NEW closed \in BOOLEAN, AcceptUpdate(closed) PROVE binding'.escalated
  BY <1>3, <1>10 DEF AcceptUpdate
<1>11. ASSUME \/ \E t \in Turns : LeaseRunsOut(t) \/ \E p \in Phases : GatewayEnds(t, p)
              \/ \E w \in Workers :
                     \/ NotifyRefused(w) \/ PollGivesUp(w) \/ PutOff(w) \/ OwnerStalls(w)
                     \/ Fault(w) \/ Crash(w) \/ \E t \in Turns : Claim(w, t)
              \/ UNCHANGED vars
       PROVE  binding'.escalated
  BY <1>2, <1>11 DEF LeaseRunsOut, GatewayEnds, NotifyRefused, PollGivesUp, PutOff, OwnerStalls,
     Fault, Crash, Claim, vars
<1> QED
  BY <1>6, <1>7, <1>8, <1>9, <1>10, <1>11 DEF Next

\* The kinds of turn of which the ownership of the case may be asked
CaseKind(row) == row.kind \notin {"investigation_feedback", "investigation_reply"}

\* The places of a process from which its turn is ended, or handed over as it is
Driving(f, row) ==
    \/ f.pc \in {"notify", "phase", "fence", "launch", "record", "poll", "after",
                 "complete", "fail"}
    \/ f.pc = "handover" /\ (f.out = "leave" => CaseKind(row))

Driver(w, t) ==
    /\ In(worker[w], t) /\ OwnsJob(w, job[t])
    /\ Driving(worker[w], turn[t])
Driven(t) == \E w \in Workers : Driver(w, t)
HandedAsItIs(t) == binding.escalated /\ CaseKind(turn[t])

NothingFailed == \A f \in {"stall", "crash", "fault"} : used[f] = 0
RunInv ==
    NothingFailed =>
        \A t \in Turns : turn[t].status = "running" => HandedAsItIs(t) \/ Driven(t)

\* A turn that runs was running before, or has just begun
LEMMA RunBefore ==
    ASSUME IInv, [Next]_vars, NEW t \in Turns, turn'[t].status = "running"
    PROVE  \/ turn[t].status = "running" /\ turn'[t].kind = turn[t].kind
                                         /\ turn'[t].res = turn[t].res
           \/ \E w \in Workers : Begins(w, t)
<1>1. RowEffect(t)
  BY RowEffectsLemma DEF RowEffects
<1> QED
  BY <1>1 DEF RowEffect, RowWrites, RowKept, RowOut, Ended, Opening, Opens

\* The process that starts a turn goes on to its first phase
LEMMA BegunIsDriven ==
    ASSUME IInv, QInv, NEW t \in Turns, NEW w \in Workers, Begins(w, t)
    PROVE  Driven(t)'
<1>1. /\ At(w, "start") /\ EnterPhases(w, StartedRow(turn[t])) /\ UNCHANGED job
      /\ turn[t] \in TurnRow /\ worker[w] \in Frame /\ worker \in [Workers -> Frame]
  <2>1. [turn[t] EXCEPT !.status = "superseded", !.why = "blocked"].status = "superseded"
    BY DEF IInv, Typed, TurnRow
  <2>2. Start(w) /\ Of(w) = t /\ turn'[t].status = "running" /\ turn[t].status = "pending"
    BY DEF Begins
  <2>3. turn \in [Turns -> TurnRow] /\ worker \in [Workers -> Frame]
    BY DEF IInv, Typed
  <2> QED
    BY <2>1, <2>2, <2>3 DEF Start, SetTurn
<1> DEFINE p == FirstPhase(StartedRow(turn[t]).kind)
           place == IF StartedRow(turn[t]).kind = "investigation_feedback"
                       /\ StartedRow(turn[t]).event = "comment"
                    THEN "notify" ELSE "phase"
           f == [worker[w] EXCEPT !.phase = p, !.pc = place]
<1>2. worker'[w] = f /\ place \in {"notify", "phase"}
  BY <1>1 DEF EnterPhases, Step
<1> HIDE DEF p, place
<1>3. f.pc = place /\ f.turn = t
  BY <1>1 DEF Frame, Of, Begins
<1> HIDE DEF f
<1>4. OwnsJob(w, job[t])
  BY <1>1, Mine DEF At, Begins
<1>5. Driver(w, t)'
  BY <1>1, <1>2, <1>3, <1>4 DEF Driver, Driving, In
<1> QED
  BY <1>5 DEF Driven

\* A step that leaves the process of a turn, and the job, as they are
LEMMA DriverKept ==
    ASSUME NEW t \in Turns, NEW w \in Workers, Driver(w, t),
           worker'[w] = worker[w], job'[t] = job[t], turn'[t].kind = turn[t].kind
    PROVE  Driven(t)'
<1>1. Driver(w, t)'
  BY DEF Driver, Driving, CaseKind
<1> QED
  BY <1>1 DEF Driven

\* The process of a turn that runs goes on to a place from which it ends it, or
\* hands the case over and leaves it
LEMMA DriverSteps ==
    ASSUME IInv, QInv, ResInv, NEW w \in Workers, Work(w) \/ PollGivesUp(w) \/ PutOff(w),
           NEW t \in Turns, Driver(w, t), turn[t].status = "running",
           turn'[t].status = "running", turn'[t].kind = turn[t].kind
    PROVE  HandedAsItIs(t)' \/ Driven(t)'
<1> DEFINE Drives == {"notify", "phase", "fence", "launch", "record", "poll", "after",
                      "complete", "fail"}
           Goal == HandedAsItIs(t)' \/ Driven(t)'
           row == turn[t]
<1>1. /\ worker[w].pc # "idle" /\ t = Of(w) /\ Owns(w)
      /\ Driving(worker[w], row)
      /\ turn \in [Turns -> TurnRow] /\ worker \in [Workers -> Frame]
  BY DEF Driver, In, Of, Owns, OwnsJob, IInv, Typed
<1>2. ProcessEffect(w)
  BY ProcessEffects
<1>3. ASSUME NEW f, Step(w, f), f.pc # "idle", Driving(f, row) PROVE Goal
  <2>1. worker'[w] = f /\ GoesOn(w)
    BY <1>1, <1>2, <1>3 DEF Step, ProcessEffect, GoesAway
  <2>2. OwnsJob(w, job'[t])
    BY <1>1, <1>2, <1>3, <2>1 DEF ProcessEffect, MarksJob, GoesOn, GoesAway, Owns, OwnsJob
  <2>3. Driver(w, t)'
    BY <1>1, <1>3, <2>1, <2>2 DEF Driver, In, GoesOn, Driving, CaseKind
  <2> QED
    BY <2>3 DEF Driven
<1>4. \A place \in Drives : Go(w, place) => Goal
  BY <1>3, GoFields DEF Driving
<1>5. \A place \in Drives : \A out : GoOut(w, place, out) => Goal
  BY <1>3, GoOutFields DEF Driving
<1>6. \A place \in Drives : \A p : GoPhaseAt(w, place, p) => Goal
  BY <1>3, GoPhaseFields DEF Driving
<1>7. GoOut(w, "handover", "done") => Goal
  BY <1>3, GoOutFields DEF Driving
<1>8. CaseKind(row) /\ GoOut(w, "handover", "leave") => Goal
  BY <1>3, GoOutFields DEF Driving
<1> SUFFICES Goal
  OBVIOUS
<1> HIDE DEF Goal
<1>9. CASE worker[w].pc = "notify"
  <2>1. Notify(w)
    BY <1>9 DEF Work, Enter, RefuseSnapshot, Start, BeginPhase, Fence, Launch, RecordRun,
       PollCompleted, PollOther, AfterPhase, Handover, Complete, Fail, ListRuns, SeeStopped,
       Supersede, Settle, PollGivesUp, PutOff, At
  <2> QED
    BY <1>1, <1>4, <2>1 DEF Notify
<1>10. CASE worker[w].pc = "phase"
  <2>1. BeginPhase(w)
    BY <1>10 DEF Work, Enter, RefuseSnapshot, Start, Notify, Fence, Launch, RecordRun,
       PollCompleted, PollOther, AfterPhase, Handover, Complete, Fail, ListRuns, SeeStopped,
       Supersede, Settle, PollGivesUp, PutOff, At
  <2>2. row.kind \in {"fixed_task", "message_action"} => CaseKind(row)
    BY DEF CaseKind
  <2>3. \/ \E place \in {"poll", "fence", "after"} : Go(w, place)
        \/ GoPhase(w, "persona")
        \/ HandOverAndEnd(w)
        \/ CaseKind(row) /\ HandOverAndLeave(w)
    BY <1>1, <2>1, <2>2 DEF BeginPhase, ServeWork, Live
  <2> QED
    BY <1>4, <1>6, <1>7, <1>8, <2>3 DEF GoPhase, GoPhaseAt, HandOverAndEnd, HandOverAndLeave
<1>11. CASE worker[w].pc = "fence"
  <2>1. Fence(w)
    BY <1>11 DEF Work, Enter, RefuseSnapshot, Start, Notify, BeginPhase, Launch, RecordRun,
       PollCompleted, PollOther, AfterPhase, Handover, Complete, Fail, ListRuns, SeeStopped,
       Supersede, Settle, PollGivesUp, PutOff, At
  <2> QED
    BY <1>1, <1>4, <2>1 DEF Fence
<1>12. CASE worker[w].pc = "launch"
  <2>1. Launch(w)
    BY <1>12 DEF Work, Enter, RefuseSnapshot, Start, Notify, BeginPhase, Fence, RecordRun,
       PollCompleted, PollOther, AfterPhase, Handover, Complete, Fail, ListRuns, SeeStopped,
       Supersede, Settle, PollGivesUp, PutOff, At
  <2> QED
    BY <1>4, <1>5, <2>1 DEF Launch
<1>13. CASE worker[w].pc = "record"
  <2>1. RecordRun(w)
    BY <1>13 DEF Work, Enter, RefuseSnapshot, Start, Notify, BeginPhase, Fence, Launch,
       PollCompleted, PollOther, AfterPhase, Handover, Complete, Fail, ListRuns, SeeStopped,
       Supersede, Settle, PollGivesUp, PutOff, At
  <2> QED
    BY <1>4, <2>1 DEF RecordRun
<1>14. CASE worker[w].pc = "poll"
  <2>1. PollCompleted(w) \/ PollOther(w) \/ PollGivesUp(w)
    BY <1>14 DEF Work, Enter, RefuseSnapshot, Start, Notify, BeginPhase, Fence, Launch,
       RecordRun, AfterPhase, Handover, Complete, Fail, ListRuns, SeeStopped, Supersede,
       Settle, PutOff, At
  <2>2. Go(w, "after") \/ \E out : GoOut(w, "fail", out)
    BY <1>1, <2>1 DEF PollCompleted, PollOther, PollGivesUp, Live
  <2> QED
    BY <1>4, <1>5, <2>2
<1>15. CASE worker[w].pc = "after"
  <2>1. AfterPhase(w)
    BY <1>15 DEF Work, Enter, RefuseSnapshot, Start, Notify, BeginPhase, Fence, Launch,
       RecordRun, PollCompleted, PollOther, Handover, Complete, Fail, ListRuns, SeeStopped,
       Supersede, Settle, PollGivesUp, PutOff, At
  <2>2. row.res # "solved"
    BY DEF ResInv, Ended
  <2>3. row.dir = "automation" => CaseKind(row)
    BY DEF IInv, KindInv, CaseKind
  <2>4. \/ \E p : GoPhase(w, p)
        \/ GoPhaseAt(w, "notify", "work")
        \/ \E place \in {"fail", "complete"} : \E out : GoOut(w, place, out)
        \/ HandOverAndEnd(w)
        \/ CaseKind(row) /\ HandOverAndLeave(w)
    BY <1>1, <2>1, <2>2, <2>3 DEF AfterPhase, AskForReview, GoPhaseAt
  <2> QED
    BY <1>5, <1>6, <1>7, <1>8, <2>4 DEF GoPhase, GoPhaseAt, HandOverAndEnd, HandOverAndLeave
<1>16. CASE worker[w].pc = "handover" /\ (worker[w].out = "leave" => CaseKind(row))
  <2>1. Handover(w)
    BY <1>16 DEF Work, Enter, RefuseSnapshot, Start, Notify, BeginPhase, Fence, Launch,
       RecordRun, PollCompleted, PollOther, AfterPhase, Complete, Fail, ListRuns, SeeStopped,
       Supersede, Settle, PollGivesUp, PutOff, At
  <2>2. CASE worker[w].out = "leave"
    <3>1. binding'.escalated
      BY <2>1 DEF Handover, HandedOver, IInv, Typed, Binding
    <3> QED
      BY <1>16, <2>2, <3>1 DEF HandedAsItIs, CaseKind, Goal
  <2>3. CASE worker[w].out # "leave"
    BY <1>4, <2>1, <2>3 DEF Handover
  <2> QED
    BY <2>2, <2>3
<1>17. CASE worker[w].pc = "complete"
  <2>1. Complete(w)
    BY <1>17 DEF Work, Enter, RefuseSnapshot, Start, Notify, BeginPhase, Fence, Launch,
       RecordRun, PollCompleted, PollOther, AfterPhase, Handover, Fail, ListRuns, SeeStopped,
       Supersede, Settle, PollGivesUp, PutOff, At
  <2>2. turn'[t] = [turn[t] EXCEPT !.status = "completed", !.res = worker[w].out]
    BY <1>1, <2>1 DEF Complete
  <2>3. turn'[t].status = "completed"
    BY <1>1, <2>2 DEF TurnRow
  <2> QED
    BY <2>3
<1>18. CASE worker[w].pc = "fail"
  <2>1. Fail(w)
    BY <1>18 DEF Work, Enter, RefuseSnapshot, Start, Notify, BeginPhase, Fence, Launch,
       RecordRun, PollCompleted, PollOther, AfterPhase, Handover, Complete, ListRuns,
       SeeStopped, Supersede, Settle, PollGivesUp, PutOff, At
  <2>2. PICK a \in {"unknown", "failed"} : turn'[t] = [turn[t] EXCEPT !.status = a]
    BY <1>1, <2>1 DEF Fail, Failable
  <2>3. turn'[t].status = a
    BY <1>1, <2>2 DEF TurnRow
  <2> QED
    BY <2>3
<1> QED
  BY <1>1, <1>9, <1>10, <1>11, <1>12, <1>13, <1>14, <1>15, <1>16, <1>17, <1>18
     DEF Driving

\* Another process is at a turn of its own: it does not touch the one that is driven
LEMMA DriverAlone ==
    ASSUME IInv, QInv, NEW t \in Turns, NEW w \in Workers, Driver(w, t),
           NEW v \in Workers, ProcessEffect(v), v # w
    PROVE  worker'[w] = worker[w] /\ job'[t] = job[t]
<1>1. Others(v) /\ Of(v) \in Turns /\ OwnsJob(v, job[Of(v)])
  BY Mine DEF ProcessEffect, GoesOn, GoesAway
<1>2. Of(v) # t
  BY <1>1 DEF Driver, OwnsJob
<1> QED
  BY <1>1, <1>2 DEF Others, ProcessEffect, MarksJob, SettlesJob, OtherJobs

LEMMA RunStep ==
    ASSUME IInv, QuietInv, ResInv, RunInv, [Next]_vars
    PROVE  RunInv'
<1> SUFFICES ASSUME NothingFailed', NEW t \in Turns, turn'[t].status = "running"
             PROVE  HandedAsItIs(t)' \/ Driven(t)'
  BY DEF RunInv
<1>1. NothingFailed /\ \A f \in {"stall", "crash", "fault"} : ~Spend(f)
  BY NotCounted DEF NothingFailed, Faults
<1>2. QInv
  BY <1>1 DEF NothingFailed, QuietInv
<1>3. ASSUME NEW w \in Workers, Begins(w, t) PROVE Driven(t)'
  BY <1>2, <1>3, BegunIsDriven
<1>4. CASE /\ turn[t].status = "running" /\ turn'[t].kind = turn[t].kind
           /\ HandedAsItIs(t)
  BY <1>4, EscalatedStays DEF HandedAsItIs, CaseKind
<1>5. ASSUME turn[t].status = "running", turn'[t].kind = turn[t].kind,
             NEW w \in Workers, Driver(w, t)
      PROVE  HandedAsItIs(t)' \/ Driven(t)'
  <2>1. CASE Elsewhere
    BY <1>5, <2>1, ElsewhereKept, DriverKept
  <2>2. ASSUME NEW u \in Turns, Route(u) \/ Engineer(u) PROVE Driven(t)'
    BY <1>5, <2>2, OpensOther, DriverKept
  <2>3. ASSUME NEW u \in Turns, LeaseRunsOut(u) PROVE Driven(t)'
    <3>1. u # t
      BY <1>5, <2>3 DEF LeaseRunsOut, Driver, In, OwnsJob, HeldBy, Owns, At, Of
    <3>2. Lapses(u)
      BY <2>3, LapseEffect DEF LeaseRunsOut
    <3> QED
      BY <1>5, <3>1, <3>2, DriverKept DEF Lapses, OtherJobs
  <2>4. ASSUME NEW v \in Workers, NEW u \in Turns, Claim(v, u) PROVE Driven(t)'
    <3>1. Takes(v, u)
      BY <2>4, ClaimEffect
    <3>2. u # t /\ v # w
      BY <1>5, <3>1 DEF Takes, Driver, In, OwnsJob
    <3> QED
      BY <1>5, <3>1, <3>2, DriverKept DEF Takes, Others, OtherJobs
  <2>5. ASSUME NEW v \in Workers, Work(v) \/ PollGivesUp(v) \/ PutOff(v)
        PROVE  HandedAsItIs(t)' \/ Driven(t)'
    <3>1. CASE v = w
      BY <1>2, <1>5, <2>5, <3>1, DriverSteps
    <3>2. CASE v # w
      <4>1. ProcessEffect(v)
        BY <2>5, ProcessEffects
      <4> QED
        BY <1>2, <1>5, <3>2, <4>1, DriverAlone, DriverKept
    <3> QED
      BY <3>1, <3>2
  <2>6. ASSUME NEW v \in Workers
        PROVE  ~(PromptMissing(v) \/ NotifyRefused(v) \/ OwnerStalls(v) \/ Fault(v) \/ Crash(v))
    BY <1>1 DEF PromptMissing, NotifyRefused, OwnerStalls, Fault, Crash
  <2> QED
    BY <2>1, <2>2, <2>3, <2>4, <2>5, <2>6 DEF Next, Elsewhere
<1>6. HandedAsItIs(t) \/ Driven(t) \/ turn[t].status # "running"
  BY <1>1 DEF RunInv
<1> QED
  BY <1>3, <1>4, <1>5, <1>6, RunBefore DEF Driven

\* As long as no lease lapsed under a live owner and no process died or raised, a turn
\* that runs has the process that holds its job on the way to its end, or the ownership
\* gate has handed the case over and left the turn as it is.
THEOREM RunningIsDriven == Spec => []RunningTurnIsDriven
<1>1. Init => ResInv /\ RunInv /\ QuietInv
  BY InitQInv DEF Init, ResInv, RunInv, NoRow, QuietInv
<1>2. IInv /\ ResInv /\ [Next]_vars => ResInv'
  BY ResStep
<1>3. IInv /\ QuietInv /\ [Next]_vars => QuietInv'
  BY QuietStep
<1>4. IInv /\ QuietInv /\ ResInv /\ RunInv /\ [Next]_vars => RunInv'
  BY RunStep
<1>5. RunInv => RunningTurnIsDriven
  BY DEF RunInv, NothingFailed, HandedAsItIs, CaseKind, Driven, Driver, In, OwnsJob,
         RunningTurnIsDriven, HeldBy, Owns, Of, At
<1> QED
  BY <1>1, <1>2, <1>3, <1>4, <1>5, Invariance, PTL DEF Spec
=============================================================================
