------------------------- MODULE HermesClaims_proofs -------------------------
(***************************************************************************)
(* HermesCase implements ClaimedJobs.  StepEffect says what a step can do  *)
(* to the jobs and to the processes at work on them; each of its cases is  *)
(* a move of the abstract jobs.  OpenInv is needed for a job that is       *)
(* opened: a turn that has none yet is a turn no process is at, because    *)
(* the row, the job and the processes come in this order and a turn that   *)
(* was opened stays so.                                                    *)
(***************************************************************************)
EXTENDS HermesQuiet_proofs

\* The refinement mapping
Told(status) == IF status = "done" THEN "ended" ELSE status
statusOf == [t \in Turns |-> IF job[t].status = "done" THEN "ended" ELSE job[t].status]
insideOf == [t \in Turns |-> {w \in Workers : ~At(w, "idle") /\ Of(w) = t}]
holdersOf == [t \in Turns |-> {w \in Workers : HeldBy(w, t)}]
markedOf == [t \in Turns |-> job[t].ext]

\* The processes at work on t, and the one its job knows
In(f, t) == f.pc # "idle" /\ f.turn = t
Inside(frames, t) == {w \in Workers : In(frames[w], t)}
Holders(row, frames, t) == {w \in Workers : In(frames[w], t) /\ OwnsJob(w, row)}

\* A job that was queued, or a process that came to a turn, found the turn opened
OpenInv ==
    /\ \A t \in Turns : IF job[t].status = "none" THEN job[t].ext = FALSE
                                                  ELSE turn[t].status \in OpenedStatus
    /\ \A w \in Workers : worker[w].pc # "idle" => turn[Of(w)].status \in OpenedStatus

------------------------------------------------------------------------------
(* What a step does to the jobs and to the processes *)

Others(w) == \A v \in Workers \ {w} : worker'[v] = worker[v]
OtherJobs(t) == \A u \in Turns \ {t} : job'[u] = job[u]

\* Process w goes on with its turn, or leaves it
GoesOn(w) ==
    /\ worker[w].pc # "idle" /\ Others(w)
    /\ worker'[w].pc # "idle" /\ worker'[w].turn = Of(w)
GoesAway(w) == worker[w].pc # "idle" /\ Others(w) /\ worker'[w].pc = "idle"

Opens(t) ==
    /\ turn[t].status \in {"none", "routing"} /\ turn'[t].status = "pending"
    /\ job'[t] = NewJob /\ OtherJobs(t) /\ UNCHANGED worker
Takes(w, t) ==
    /\ job[t].status = "queued" /\ worker[w].pc = "idle"
    /\ job'[t].status = "claimed" /\ job'[t].owner = w /\ job'[t].ext = job[t].ext
    /\ OtherJobs(t)
    /\ Others(w) /\ worker'[w].pc # "idle" /\ worker'[w].turn = t
Lapses(t) ==
    /\ job[t].status = "claimed" /\ job'[t].ext = job[t].ext
    /\ job'[t].status = IF job[t].ext = TRUE THEN "done" ELSE "queued"
    /\ OtherJobs(t) /\ UNCHANGED worker
MarksJob(w) ==
    /\ OwnsJob(w, job[Of(w)]) /\ OwnsJob(w, job'[Of(w)])
    /\ job'[Of(w)].ext = TRUE
    /\ OtherJobs(Of(w))
SettlesJob(w) ==
    /\ OwnsJob(w, job[Of(w)])
    /\ job'[Of(w)].status \in {"queued", "done"} /\ job'[Of(w)].ext = job[Of(w)].ext
    /\ OtherJobs(Of(w))

ProcessEffect(w) ==
    \/ GoesOn(w) /\ (UNCHANGED job \/ MarksJob(w))
    \/ GoesAway(w) /\ (UNCHANGED job \/ SettlesJob(w))

StepEffect ==
    \/ UNCHANGED <<job, worker>>
    \/ \E t \in Turns : Opens(t) \/ Lapses(t) \/ \E w \in Workers : Takes(w, t)
    \/ \E w \in Workers : ProcessEffect(w)

\* A process moves to a frame of the same turn
LEMMA StepGoesOn ==
  ASSUME IInv, NEW w \in Workers, worker[w].pc # "idle", NEW f, Step(w, f),
         f.pc # "idle", f.turn = Of(w)
  PROVE  GoesOn(w)
BY DEF GoesOn, Others, Step, IInv, Typed

LEMMA Goers ==
  ASSUME IInv, NEW w \in Workers, worker[w].pc # "idle", NEW place, place # "idle"
  PROVE  /\ Go(w, place) => GoesOn(w)
         /\ \A out : GoOut(w, place, out) => GoesOn(w)
         /\ \A p : GoPhaseAt(w, place, p) => GoesOn(w)
         /\ Return(w) => GoesOn(w)
         /\ \A p : GoPhase(w, p) => GoesOn(w)
<1>1. Go(w, place) => GoesOn(w)
  BY GoFields, StepGoesOn
<1>2. ASSUME NEW next, next # "idle", NEW out, GoOut(w, next, out) PROVE GoesOn(w)
  BY <1>2, GoOutFields, StepGoesOn
<1>3. ASSUME NEW next, next # "idle", NEW p, GoPhaseAt(w, next, p) PROVE GoesOn(w)
  BY <1>3, GoPhaseFields, StepGoesOn
<1> QED
  BY <1>1, <1>2, <1>3 DEF Return, GoPhase, GoPhaseAt

LEMMA StepsAway ==
  ASSUME IInv, NEW w \in Workers, worker[w].pc # "idle", Step(w, Idle)
  PROVE  GoesAway(w)
BY DEF GoesAway, Others, Step, Idle, IInv, Typed

LEMMA EntersPhases ==
  ASSUME IInv, NEW w \in Workers, worker[w].pc # "idle", NEW row, EnterPhases(w, row)
  PROVE  GoesOn(w)
<1> DEFINE p == FirstPhase(row.kind)
           place == IF row.kind = "investigation_feedback" /\ row.event = "comment"
                    THEN "notify" ELSE "phase"
           f == [worker[w] EXCEPT !.phase = p, !.pc = place]
<1>1. worker[w] \in Frame /\ place # "idle"
  BY DEF IInv, Typed
<1>2. Step(w, f)
  BY DEF EnterPhases
<1> HIDE DEF p, place
<1>3. f.pc = place /\ f.turn = Of(w)
  BY <1>1 DEF Frame, Of
<1> HIDE DEF f
<1> QED
  BY <1>1, <1>2, <1>3, StepGoesOn

LEMMA MarkEffect ==
  ASSUME IInv, NEW w \in Workers, worker[w].pc # "idle", Owns(w),
         job' = [job EXCEPT ![Of(w)].ext = TRUE]
  PROVE  MarksJob(w)
<1>1. Of(w) \in Turns /\ job \in [Turns -> Job]
  BY DEF IInv, Typed, FramesInv, FrameOK, Of
<1> QED
  BY <1>1 DEF MarksJob, OtherJobs, Owns, OwnsJob, Job

LEMMA SettleEffect ==
  ASSUME IInv, NEW w \in Workers, Settle(w)
  PROVE  ProcessEffect(w)
<1> DEFINE t == Of(w)
           status == IF worker[w].out = "defer" THEN "queued" ELSE "done"
<1>1. worker[w].pc = "settle" /\ Step(w, Idle)
  BY DEF Settle, At
<1>2. GoesAway(w)
  BY <1>1, StepsAway
<1>3. t \in Turns /\ job \in [Turns -> Job]
  BY <1>1 DEF IInv, Typed, FramesInv, FrameOK, Of
<1>4. CASE Owns(w)
  <2>1. job' = [job EXCEPT ![t].status = status, ![t].owner = NoWorker]
    BY <1>4 DEF Settle
  <2>2. status \in {"queued", "done"}
    OBVIOUS
  <2> HIDE DEF status
  <2>3. /\ job'[t].ext = job[t].ext /\ job'[t].status = status
        /\ \A u \in Turns : u # t => job'[u] = job[u]
    BY <1>3, <2>1 DEF Job
  <2>4. SettlesJob(w)
    BY <1>4, <2>2, <2>3 DEF SettlesJob, OtherJobs, Owns, OwnsJob
  <2> QED
    BY <1>2, <2>4 DEF ProcessEffect
<1>5. CASE ~Owns(w)
  BY <1>2, <1>5 DEF Settle, ProcessEffect
<1> QED
  BY <1>4, <1>5

LEMMA LapseEffect ==
  ASSUME IInv, NEW t \in Turns, job[t].status = "claimed",
         job' = [job EXCEPT ![t] = AfterLapse(@)], UNCHANGED worker
  PROVE  Lapses(t)
<1>1. PICK j \in Job : j = job[t]
  BY DEF IInv, Typed
<1>2. job'[t] = AfterLapse(j) /\ OtherJobs(t)
  BY <1>1 DEF IInv, Typed, OtherJobs
<1>3. AfterLapse(j).ext = j.ext
  BY DEF AfterLapse, Job
<1>4. AfterLapse(j).status = IF j.ext = TRUE THEN "done" ELSE "queued"
  BY DEF AfterLapse, Job
<1> QED
  BY <1>1, <1>2, <1>3, <1>4 DEF Lapses

LEMMA ClaimEffect ==
  ASSUME IInv, NEW w \in Workers, NEW t \in Turns, Claim(w, t)
  PROVE  Takes(w, t)
<1> DEFINE f == [Idle EXCEPT !.pc = "enter", !.turn = t]
<1>1. worker'[w] = f /\ Others(w)
  BY DEF Claim, Step, Others, IInv, Typed
<1>2. f.pc = "enter" /\ f.turn = t
  BY DEF Idle
<1> HIDE DEF f
<1>3. /\ job'[t].ext = job[t].ext /\ job'[t].status = "claimed" /\ job'[t].owner = w
      /\ OtherJobs(t)
  BY DEF Claim, OtherJobs, IInv, Typed, Job
<1> QED
  BY <1>1, <1>2, <1>3 DEF Takes, Claim, At

LEMMA OpenEffect ==
  ASSUME IInv, NEW t \in Turns, turn[t].status \in {"none", "routing"}, NEW row,
         row.status = "pending", Open(t, row), UNCHANGED worker
  PROVE  Opens(t)
BY DEF Open, SetTurn, Opens, OtherJobs, IInv, Typed

LEMMA OpensEffect ==
  ASSUME IInv, NEW t \in Turns, Route(t) \/ Engineer(t)
  PROVE  UNCHANGED <<job, worker>> \/ Opens(t)
<1>1. ASSUME NEW task, HandOff(t, task) PROVE Opens(t)
  <2> DEFINE row == RowFor(t, binding'.task)
  <2>1. row.status = "pending"
    BY DEF RowFor, IInv, Typed, TurnRow
  <2>2. Open(t, row) /\ turn[t].status = "routing" /\ UNCHANGED worker
    BY <1>1 DEF HandOff
  <2> HIDE DEF row
  <2> QED
    BY <2>1, <2>2, OpenEffect
<1>2. CASE CreateFeedbackTurn(t)
  <2> DEFINE row == [NoRow EXCEPT !.status = "pending", !.event = "feedback", !.rev = case.rev,
                         !.kind = "investigation_feedback", !.dir = "investigation"]
  <2>1. row.status = "pending"
    BY DEF NoRow
  <2>2. Open(t, row) /\ turn[t].status = "none" /\ UNCHANGED worker
    BY <1>2 DEF CreateFeedbackTurn
  <2> HIDE DEF row
  <2> QED
    BY <2>1, <2>2, OpenEffect
<1>3. ASSUME NEW s \in Turns, CreateReplyTurn(t, s) PROVE Opens(t)
  <2> DEFINE row == [NoRow EXCEPT !.status = "pending", !.event = "reply", !.rev = case.rev,
                         !.kind = "investigation_reply", !.dir = "investigation", !.source = s]
  <2>1. row.status = "pending"
    BY DEF NoRow
  <2>2. Open(t, row) /\ turn[t].status = "none" /\ UNCHANGED worker
    BY <1>3 DEF CreateReplyTurn
  <2> HIDE DEF row
  <2> QED
    BY <2>1, <2>2, OpenEffect
<1>4. CASE DropBlocked(t) \/ DropOutdated(t)
  BY <1>4 DEF DropBlocked, DropOutdated
<1> QED
  BY <1>1, <1>2, <1>3, <1>4 DEF Route, Engineer

\* The steps of a process that leave its job alone
LEMMA QuietProcess ==
  ASSUME IInv, NEW w \in Workers,
         \/ Enter(w) \/ RefuseSnapshot(w) \/ Start(w) \/ BeginPhase(w) \/ Launch(w)
         \/ RecordRun(w) \/ PollCompleted(w) \/ PollOther(w) \/ AfterPhase(w) \/ Handover(w)
         \/ Complete(w) \/ Fail(w) \/ Supersede(w) \/ PromptMissing(w) \/ PollGivesUp(w)
         \/ PutOff(w) \/ Fault(w)
  PROVE  GoesOn(w) /\ UNCHANGED job
<1> DEFINE Busy == Place \ {"idle"}
           Goer == \/ \E place \in Busy : \/ Go(w, place)
                                          \/ \E out : GoOut(w, place, out)
                                          \/ \E p : GoPhaseAt(w, place, p)
                   \/ Return(w)
                   \/ \E p : GoPhase(w, p)
                   \/ \E row : EnterPhases(w, row)
<1>1. worker[w].pc # "idle" /\ UNCHANGED job
  BY DEF Enter, RefuseSnapshot, Start, BeginPhase, Launch, RecordRun, PollCompleted, PollOther,
         AfterPhase, Handover, Complete, Fail, Supersede, PromptMissing, PollGivesUp, PutOff,
         Fault, At
<1>2. Goer => GoesOn(w)
  BY <1>1, Goers, EntersPhases DEF Return
<1>3. ASSUME Enter(w) PROVE Goer
  BY <1>3 DEF Enter, Place
<1>4. ASSUME RefuseSnapshot(w) \/ Complete(w) \/ Supersede(w) \/ Fault(w) PROVE Goer
  BY <1>4 DEF RefuseSnapshot, Complete, Supersede, Fault
<1>5. ASSUME Start(w) PROVE Goer
  BY <1>5 DEF Start, Place
<1>6. ASSUME BeginPhase(w) PROVE Goer
  BY <1>6 DEF BeginPhase, HandOverAndEnd, HandOverAndLeave, ServeWork, Place
<1>7. ASSUME Launch(w) \/ RecordRun(w) \/ PollOther(w) \/ PollGivesUp(w) \/ PutOff(w) PROVE Goer
  BY <1>7 DEF Launch, RecordRun, PollOther, PollGivesUp, PutOff, Place
<1>8. ASSUME PollCompleted(w) PROVE Goer
  BY <1>8 DEF PollCompleted, Place
<1>9. ASSUME AfterPhase(w) PROVE Goer
  <2>1. \/ \E place \in Busy : \/ \E out : GoOut(w, place, out)
                              \/ GoPhaseAt(w, place, "work")
        \/ Return(w)
        \/ \E p : GoPhase(w, p)
    BY <1>9 DEF AfterPhase, HandOverAndEnd, HandOverAndLeave, AskForReview, GoPhaseAt, Place
  <2> QED
    BY <2>1
<1>10. ASSUME Handover(w) \/ Fail(w) PROVE Goer
  BY <1>10 DEF Handover, Fail, Place
<1>11. ASSUME PromptMissing(w) PROVE Goer
  BY <1>11 DEF PromptMissing, HandOverAndEnd, Place
<1> HIDE DEF Goer
<1> QED
  BY <1>1, <1>2, <1>3, <1>4, <1>5, <1>6, <1>7, <1>8, <1>9, <1>10, <1>11

\* The steps that keep the place, or the list of the runs to stop
LEMMA ListProcess ==
  ASSUME IInv, NEW w \in Workers, ListRuns(w) \/ \E p \in Phases : SeeStopped(w, p)
  PROVE  GoesOn(w) /\ UNCHANGED job
<1>1. worker[w] \in Frame /\ worker[w].pc # "idle" /\ UNCHANGED job
  BY DEF ListRuns, SeeStopped, At, IInv, Typed
<1>2. CASE ListRuns(w)
  <2> DEFINE left == {p \in CancelPhases : run[Of(w)][p] = "running"}
             f == [worker[w] EXCEPT !.pc = "recover", !.left = left]
  <2>1. Step(w, f)
    BY <1>2 DEF ListRuns
  <2> HIDE DEF left
  <2>2. f.pc = "recover" /\ f.turn = Of(w)
    BY <1>1 DEF Frame, Of
  <2> HIDE DEF f
  <2> QED
    BY <1>1, <2>1, <2>2, StepGoesOn
<1>3. ASSUME NEW p \in Phases, SeeStopped(w, p) PROVE GoesOn(w)
  <2> DEFINE f == [worker[w] EXCEPT !.left = @ \ {p}]
  <2>1. Step(w, f)
    BY <1>3 DEF SeeStopped
  <2>2. f.pc = worker[w].pc /\ f.turn = Of(w)
    BY <1>1 DEF Frame, Of
  <2> HIDE DEF f
  <2> QED
    BY <1>1, <2>1, <2>2, StepGoesOn
<1> QED
  BY <1>1, <1>2, <1>3

\* before_external, and the notification that runs it
LEMMA MarkingProcess ==
  ASSUME IInv, NEW w \in Workers, Fence(w) \/ Notify(w) \/ NotifyRefused(w)
  PROVE  ProcessEffect(w)
<1>1. worker[w].pc # "idle"
  BY DEF Fence, Notify, NotifyRefused, At
<1>2. GoesOn(w)
  <2>1. Go(w, "launch") \/ Go(w, "phase") \/ Return(w) \/ GoOut(w, "settle", "defer")
    BY DEF Fence, Notify, NotifyRefused
  <2> QED
    BY <1>1, <2>1, Goers
<1>3. UNCHANGED job \/ (Owns(w) /\ job' = [job EXCEPT ![Of(w)].ext = TRUE])
  BY DEF Fence, Notify, NotifyRefused
<1> QED
  BY <1>1, <1>2, <1>3, MarkEffect DEF ProcessEffect

LEMMA ProcessEffects ==
  ASSUME IInv, NEW w \in Workers,
         \/ Work(w) \/ PromptMissing(w) \/ NotifyRefused(w) \/ PollGivesUp(w) \/ PutOff(w)
         \/ Fault(w) \/ Crash(w)
  PROVE  ProcessEffect(w)
<1>1. CASE Crash(w)
  BY <1>1, StepsAway DEF Crash, At, ProcessEffect
<1> QED
  BY <1>1, QuietProcess, ListProcess, MarkingProcess, SettleEffect DEF Work, ProcessEffect

LEMMA Effects == ASSUME IInv, [Next]_vars PROVE StepEffect
<1> USE DEF StepEffect
<1>1. CASE UNCHANGED <<job, worker>>
  BY <1>1
<1>2. ASSUME NEW t \in Turns, Route(t) \/ Engineer(t) PROVE StepEffect
  BY <1>1, <1>2, OpensEffect
<1>3. ASSUME NEW t \in Turns, LeaseRunsOut(t) PROVE StepEffect
  BY <1>3, LapseEffect DEF LeaseRunsOut
<1>4. ASSUME NEW w \in Workers, OwnerStalls(w) PROVE StepEffect
  <2>1. Of(w) \in Turns
    BY <1>4 DEF OwnerStalls, At, IInv, FramesInv, FrameOK, Of
  <2> QED
    BY <1>4, <2>1, LapseEffect DEF OwnerStalls, Owns
<1>5. ASSUME NEW w \in Workers, NEW t \in Turns, Claim(w, t) PROVE StepEffect
  BY <1>5, ClaimEffect
<1>6. ASSUME NEW w \in Workers,
             \/ Work(w) \/ PromptMissing(w) \/ NotifyRefused(w) \/ PollGivesUp(w) \/ PutOff(w)
             \/ Fault(w) \/ Crash(w)
      PROVE  StepEffect
  BY <1>6, ProcessEffects
<1>7. ASSUME \/ \E t \in Turns : Intake(t) \/ ToolStep(t) \/ \E p \in Phases : GatewayEnds(t, p)
             \/ \E closed \in BOOLEAN : AcceptUpdate(closed)
             \/ UNCHANGED vars
      PROVE  UNCHANGED <<job, worker>>
  BY <1>7 DEF Intake, AcceptFirst, AcceptComment, AcceptCreatedLate, ToolStep, CallTool,
              RecordDirection, Escalate, Solve, GatewayEnds, AcceptUpdate, vars
<1> QED
  BY <1>1, <1>2, <1>3, <1>4, <1>5, <1>6, <1>7 DEF Next

------------------------------------------------------------------------------
(* A turn that was opened stays so *)

OpenedStay ==
    \A t \in Turns : turn[t].status \in OpenedStatus => turn'[t].status \in OpenedStatus

LEMMA OneRowOpened ==
  ASSUME IInv, NEW t, NEW row, turn' = [turn EXCEPT ![t] = row],
         t \in Turns => row.status \in OpenedStatus \/ turn[t].status \notin OpenedStatus
  PROVE  OpenedStay
BY DEF IInv, Typed, OpenedStay

LEMMA Redirected ==
  ASSUME NEW row \in TurnRow, NEW dir
  PROVE  [row EXCEPT !.dir = dir].status = row.status
BY DEF TurnRow

LEMMA HandedOffRow ==
  ASSUME NEW row \in TurnRow
  PROVE  /\ [row EXCEPT !.act = "handoff"] \in TurnRow
         /\ [row EXCEPT !.act = "handoff"].status = row.status
BY DEF TurnRow

LEMMA RowsAsTheyWere == ASSUME UNCHANGED turn PROVE OpenedStay
BY DEF OpenedStay

LEMMA IntakeOpened ==
  ASSUME IInv, NEW t \in Turns, Intake(t)
  PROVE  OpenedStay
<1> PICK closed \in Closing :
        \/ \E event \in {"created", "comment"} : AcceptFirst(t, event, closed)
        \/ AcceptComment(t, closed)
        \/ AcceptCreatedLate(t, closed)
  BY DEF Intake
<1>1. turn[t].status \notin OpenedStatus
  BY DEF AcceptFirst, AcceptComment, AcceptCreatedLate, OpenedStatus, Live, Ended
<1>2. CASE \/ \E event \in {"created", "comment"} : AcceptFirst(t, event, closed)
           \/ AcceptCreatedLate(t, closed)
  BY <1>1, <1>2, OneRowOpened DEF AcceptFirst, AcceptCreatedLate, SetTurn
<1>3. CASE AcceptComment(t, closed)
  <2>1. ASSUME NEW u \in Turns, turn[u].status \in OpenedStatus
        PROVE  turn'[u].status \in OpenedStatus
    <3>1. turn'[u] = CancelledBy(turn[u])
      BY <1>1, <1>3, <2>1 DEF AcceptComment, Cancelling
    <3>2. PICK row \in TurnRow : row = turn[u]
      BY DEF IInv, Typed
    <3>3. CancelledBy(row).status \in {row.status, "superseded", "cancel_requested"}
      BY DEF CancelledBy, TurnRow
    <3> QED
      BY <2>1, <3>1, <3>2, <3>3 DEF OpenedStatus, Live, Ended
  <2> QED
    BY <2>1 DEF OpenedStay
<1> QED
  BY <1>2, <1>3

LEMMA RouteOpened ==
  ASSUME IInv, NEW t \in Turns, Route(t) \/ Engineer(t)
  PROVE  OpenedStay
<1>1. turn[t].status \in {"none", "routing"} /\ \E row : turn' = [turn EXCEPT ![t] = row]
  BY DEF Route, DropBlocked, DropOutdated, HandOff, Engineer, CreateFeedbackTurn,
         CreateReplyTurn, Open, SetTurn
<1> QED
  BY <1>1, OneRowOpened DEF OpenedStatus, Live, Ended

LEMMA ToolStepOpened ==
  ASSUME IInv, NEW t \in Turns, ToolStep(t)
  PROVE  OpenedStay
<1>1. ASSUME NEW dir \in Directions, RecordDirection(t, dir) PROVE OpenedStay
  <2>1. CASE turn[t].status \in Live
    <3>1. turn' = [turn EXCEPT ![t] = [turn[t] EXCEPT !.dir = dir]]
      BY <1>1, <2>1 DEF RecordDirection
    <3>2. [turn[t] EXCEPT !.dir = dir].status = turn[t].status
      BY DEF IInv, Typed, TurnRow
    <3> QED
      BY <3>1, <3>2, OneRowOpened
  <2>2. CASE turn[t].status \notin Live
    BY <1>1, <2>2, RowsAsTheyWere DEF RecordDirection
  <2> QED
    BY <2>1, <2>2
<1>2. CASE Solve(t)
  <2>1. UNCHANGED turn \/ (turn[t].status = "running" /\ turn' = [u \in Turns |-> SolvedRow(t, u)])
    BY <1>2 DEF Solve, SolvedRow
  <2>2. ASSUME turn[t].status = "running", turn' = [u \in Turns |-> SolvedRow(t, u)]
        PROVE  OpenedStay
    <3>1. ASSUME NEW u \in Turns
          PROVE  SolvedRow(t, u).status \in {"completed", "superseded", turn[u].status}
      <4>1. PICK row \in TurnRow : row = turn[u]
        BY DEF IInv, Typed
      <4>2. /\ [row EXCEPT !.status = "completed", !.res = "solved"].status = "completed"
            /\ [row EXCEPT !.status = "superseded", !.why = "blocked"].status = "superseded"
        BY DEF TurnRow
      <4> QED
        BY <4>1, <4>2 DEF SolvedRow
    <3> QED
      BY <2>2, <3>1 DEF OpenedStay, OpenedStatus, Ended
  <2> QED
    BY <2>1, <2>2, RowsAsTheyWere
<1>3. CASE Escalate(t) \/ \E x \in ToolsCalled : CallTool(t, x)
  BY <1>3, RowsAsTheyWere DEF Escalate, CallTool
<1> QED
  BY <1>1, <1>2, <1>3 DEF ToolStep

LEMMA WorkOpened ==
  ASSUME IInv, NEW w \in Workers, Work(w) \/ PromptMissing(w)
  PROVE  OpenedStay
<1> DEFINE t == Of(w)
<1>1. CASE UNCHANGED turn
  BY <1>1, RowsAsTheyWere
<1>2. ASSUME NEW row, turn' = [turn EXCEPT ![t] = row],
             t \in Turns => row.status \in OpenedStatus \cup {turn[t].status}
      PROVE  OpenedStay
  BY <1>2, OneRowOpened
<1>3. t \in Turns => turn[t] \in TurnRow
  BY DEF IInv, Typed
<1>4. CASE RefuseSnapshot(w)
  BY <1>1, <1>2, <1>3, <1>4 DEF RefuseSnapshot, TurnRow, OpenedStatus, Ended
<1>5. CASE Start(w)
  <2>1. t \in Turns =>
           /\ StartedRow(turn[t]).status = "running"
           /\ [turn[t] EXCEPT !.status = "superseded", !.why = "blocked"].status = "superseded"
    BY <1>3 DEF StartedRow, TurnRow
  <2> QED
    BY <1>1, <1>2, <1>5, <2>1 DEF Start, SetTurn, OpenedStatus, Live, Ended
<1>6. CASE PollCompleted(w)
  <2>1. ASSUME NEW act \in {"continue", "answer", "reply"}, turn' = Classified(t, act)
        PROVE  \A u \in Turns : turn'[u].status = turn[u].status
    BY <2>1 DEF Classified, IInv, Typed, TurnRow
  <2>2. ASSUME turn' = [Classified(t, "handoff") EXCEPT ![t].dir = "human"]
        PROVE  \A u \in Turns : turn'[u].status = turn[u].status
    <3> DEFINE rows == Classified(t, "handoff")
    <3>1. rows \in [Turns -> TurnRow] /\ \A u \in Turns : rows[u].status = turn[u].status
      <4> DEFINE row == [turn[t] EXCEPT !.act = "handoff"]
      <4>1. rows = [turn EXCEPT ![t] = row]
        BY DEF Classified
      <4>2. t \in Turns => row \in TurnRow /\ row.status = turn[t].status
        BY <1>3, HandedOffRow
      <4> HIDE DEF rows, row
      <4> QED
        BY <4>1, <4>2 DEF IInv, Typed
    <3>2. turn' = [rows EXCEPT ![t] = [rows[t] EXCEPT !.dir = "human"]]
      BY <2>2
    <3> HIDE DEF rows
    <3>3. \A u \in Turns : [rows[u] EXCEPT !.dir = "human"].status = rows[u].status
      BY <3>1, Redirected
    <3>4. \A u \in Turns : turn'[u].status = rows[u].status
      BY <3>1, <3>2, <3>3
    <3> QED
      BY <3>1, <3>4
  <2> QED
    BY <1>1, <1>6, <2>1, <2>2 DEF PollCompleted, OpenedStay
<1>7. CASE Complete(w)
  BY <1>1, <1>7 DEF Complete, OpenedStay, IInv, Typed, TurnRow, OpenedStatus, Ended
<1>8. CASE Fail(w)
  <2>1. UNCHANGED turn \/ \E status \in {"unknown", "failed"} :
                             turn' = [turn EXCEPT ![t].status = status]
    BY <1>8 DEF Fail
  <2>2. ASSUME NEW status \in {"unknown", "failed"}, turn' = [turn EXCEPT ![t].status = status]
        PROVE  OpenedStay
    BY <1>2, <1>3, <2>2 DEF TurnRow, OpenedStatus, Ended
  <2> QED
    BY <1>1, <2>1, <2>2
<1>9. CASE Supersede(w)
  <2> DEFINE row == [turn[t] EXCEPT !.status = "superseded", !.why = "revision"]
  <2>1. t \in Turns
    BY <1>9, OfTurn DEF Supersede, At
  <2>2. row.status = "superseded" /\ (UNCHANGED turn \/ turn' = [turn EXCEPT ![t] = row])
    BY <1>3, <1>9, <2>1 DEF Supersede, TurnRow
  <2> HIDE DEF row
  <2> QED
    BY <1>1, <1>2, <2>2 DEF OpenedStatus, Ended
<1>10. CASE PromptMissing(w)
  <2> DEFINE row == [turn[t] EXCEPT !.dir = "human"]
  <2>1. t \in Turns
    BY <1>10, OfTurn DEF PromptMissing, At
  <2>2. row.status = turn[t].status
    BY <1>3, <2>1, Redirected
  <2>3. UNCHANGED turn \/ turn' = [turn EXCEPT ![t] = row]
    BY <1>10 DEF PromptMissing
  <2> HIDE DEF row
  <2> QED
    BY <1>1, <1>2, <2>2, <2>3
<1>11. CASE \/ Enter(w) \/ Notify(w) \/ BeginPhase(w) \/ Fence(w) \/ Launch(w) \/ RecordRun(w)
            \/ PollOther(w) \/ AfterPhase(w) \/ Handover(w)
            \/ ListRuns(w) \/ (\E p \in Phases : SeeStopped(w, p)) \/ Settle(w)
  BY <1>1, <1>11 DEF Enter, Notify, BeginPhase, Fence, Launch, RecordRun, PollOther, AfterPhase,
                     Handover, ListRuns, SeeStopped, Settle
<1> QED
  BY <1>4, <1>5, <1>6, <1>7, <1>8, <1>9, <1>10, <1>11 DEF Work

LEMMA OpenedLemma == ASSUME IInv, [Next]_vars PROVE OpenedStay
<1>1. CASE UNCHANGED turn
  BY <1>1, RowsAsTheyWere
<1>2. ASSUME NEW t \in Turns,
             Intake(t) \/ Route(t) \/ Engineer(t) \/ ToolStep(t) \/ LeaseRunsOut(t)
      PROVE  OpenedStay
  BY <1>1, <1>2, IntakeOpened, RouteOpened, ToolStepOpened DEF LeaseRunsOut
<1>3. ASSUME NEW w \in Workers, Work(w) \/ PromptMissing(w) PROVE OpenedStay
  BY <1>3, WorkOpened
<1>4. ASSUME \/ \E closed \in BOOLEAN : AcceptUpdate(closed)
             \/ \E t \in Turns, p \in Phases : GatewayEnds(t, p)
             \/ \E w \in Workers, t \in Turns : Claim(w, t)
             \/ \E w \in Workers : \/ NotifyRefused(w) \/ PollGivesUp(w) \/ PutOff(w)
                                   \/ OwnerStalls(w) \/ Fault(w) \/ Crash(w)
             \/ UNCHANGED vars
      PROVE  UNCHANGED turn
  BY <1>4 DEF AcceptUpdate, GatewayEnds, Claim, NotifyRefused, PollGivesUp, PutOff, OwnerStalls,
              Fault, Crash, vars
<1> QED
  BY <1>1, <1>2, <1>3, <1>4 DEF Next

LEMMA InitOpen == Init => OpenInv
BY DEF Init, OpenInv, NoJob, Idle

LEMMA OpenStep ==
  ASSUME IInv, IInv', OpenInv, [Next]_vars
  PROVE  OpenInv'
<1>1. StepEffect /\ OpenedStay
  BY Effects, OpenedLemma
<1>2. \A w \in Workers : worker[w].pc # "idle" => Of(w) \in Turns
  BY DEF IInv, FramesInv, FrameOK, Of
<1> DEFINE JobOpen(t) == IF job[t].status = "none" THEN job[t].ext = FALSE
                                                   ELSE turn[t].status \in OpenedStatus
           FrameOpen(w) == worker[w].pc # "idle" => turn[Of(w)].status \in OpenedStatus
<1>3. \A t \in Turns : job'[t] = job[t] => JobOpen(t)'
  BY <1>1 DEF OpenInv, OpenedStay
<1>4. \A w \in Workers : worker'[w] = worker[w] => FrameOpen(w)'
  BY <1>1, <1>2 DEF OpenInv, OpenedStay, Of
<1>5. ASSUME NEW t \in Turns, job[t].status # "none", job'[t].status # "none"
      PROVE  JobOpen(t)'
  BY <1>1, <1>5 DEF OpenInv, OpenedStay
<1>6. ASSUME NEW w \in Workers, NEW t \in Turns, worker'[w].turn = t,
             turn[t].status \in OpenedStatus
      PROVE  FrameOpen(w)'
  BY <1>1, <1>6 DEF OpenedStay, Of
<1> HIDE DEF JobOpen, FrameOpen
<1>7. CASE UNCHANGED <<job, worker>>
  BY <1>3, <1>4, <1>7 DEF OpenInv, JobOpen, FrameOpen
<1>8. ASSUME NEW t \in Turns, Opens(t) PROVE OpenInv'
  <2>1. JobOpen(t)'
    BY <1>8 DEF Opens, NewJob, NoJob, JobOpen, OpenedStatus, Live
  <2> QED
    BY <1>3, <1>4, <1>8, <2>1 DEF Opens, OtherJobs, OpenInv, JobOpen, FrameOpen
<1>9. ASSUME NEW t \in Turns, Lapses(t) PROVE OpenInv'
  <2>1. JobOpen(t)'
    BY <1>5, <1>9 DEF Lapses
  <2> QED
    BY <1>3, <1>4, <1>9, <2>1 DEF Lapses, OtherJobs, OpenInv, JobOpen, FrameOpen
<1>10. ASSUME NEW t \in Turns, NEW w \in Workers, Takes(w, t) PROVE OpenInv'
  <2>1. JobOpen(t)'
    BY <1>5, <1>10 DEF Takes
  <2>2. FrameOpen(w)'
    BY <1>6, <1>10 DEF Takes, OpenInv
  <2> QED
    BY <1>3, <1>4, <1>10, <2>1, <2>2 DEF Takes, OtherJobs, Others, OpenInv, JobOpen, FrameOpen
<1>11. ASSUME NEW w \in Workers, ProcessEffect(w) PROVE OpenInv'
  <2>1. worker[w].pc # "idle" /\ Of(w) \in Turns /\ Others(w)
    BY <1>2, <1>11 DEF ProcessEffect, GoesOn, GoesAway
  <2>2. FrameOpen(w)'
    <3>1. CASE GoesOn(w)
      BY <1>6, <2>1, <3>1 DEF GoesOn, OpenInv
    <3>2. CASE GoesAway(w)
      BY <3>2 DEF GoesAway, FrameOpen
    <3> QED
      BY <1>11, <3>1, <3>2 DEF ProcessEffect
  <2>3. \A t \in Turns : JobOpen(t)'
    <3>1. CASE UNCHANGED job
      BY <1>3, <3>1
    <3>2. CASE MarksJob(w) \/ SettlesJob(w)
      <4>1. PICK t \in Turns : t = Of(w)
        BY <2>1
      <4>2. JobOpen(t)'
        BY <1>5, <3>2, <4>1 DEF MarksJob, SettlesJob, OwnsJob
      <4>3. \A u \in Turns \ {t} : job'[u] = job[u]
        BY <3>2, <4>1 DEF MarksJob, SettlesJob, OtherJobs
      <4> QED
        BY <1>3, <4>2, <4>3
    <3> QED
      BY <1>11, <3>1, <3>2 DEF ProcessEffect
  <2> QED
    BY <1>4, <2>1, <2>2, <2>3 DEF Others, OpenInv, JobOpen, FrameOpen
<1> QED
  BY <1>1, <1>7, <1>8, <1>9, <1>10, <1>11 DEF StepEffect

------------------------------------------------------------------------------
(* The abstract moves, in terms of the rows and frames *)

\* What happens to one job: nothing the abstract job can see, or one of its moves
Matched(t) == Claims!Stays(t) \/ Claims!Moves(t)

\* What the row of a job and the frames of the processes show of it
Written(t, s, i, h) ==
    /\ Told(job'[t].status) = s
    /\ Inside(worker', t) = i
    /\ Holders(job'[t], worker', t) = h
SameExt(t) == job'[t].ext = job[t].ext

\* The abstract job becomes what is written
Seen(t, s, i, h) == statusOf'[t] = s /\ insideOf'[t] = i /\ holdersOf'[t] = h

LEMMA MappedNow ==
  ASSUME NEW t \in Turns
  PROVE  /\ statusOf[t] = Told(job[t].status)
         /\ insideOf[t] = Inside(worker, t)
         /\ holdersOf[t] = Holders(job[t], worker, t)
         /\ markedOf[t] = job[t].ext
BY DEF statusOf, Told, insideOf, holdersOf, markedOf, Inside, Holders, In, HeldBy, Owns, OwnsJob,
       At, Of

LEMMA MappedNext ==
  ASSUME NEW t \in Turns
  PROVE  /\ statusOf'[t] = Told(job'[t].status)
         /\ insideOf'[t] = Inside(worker', t)
         /\ holdersOf'[t] = Holders(job'[t], worker', t)
         /\ markedOf'[t] = job'[t].ext
BY DEF statusOf, Told, insideOf, holdersOf, markedOf, Inside, Holders, In, HeldBy, Owns, OwnsJob,
       At, Of

LEMMA SameMarkSeen == ASSUME NEW t \in Turns, SameExt(t) PROVE Claims!SameMark(t)
BY DEF Claims!SameMark, SameExt

LEMMA NoMove ==
  ASSUME NEW t \in Turns, SameExt(t),
         Written(t, Told(job[t].status), Inside(worker, t), Holders(job[t], worker, t))
  PROVE  Matched(t)
<1>1. Seen(t, statusOf[t], insideOf[t], holdersOf[t])
  BY MappedNow, MappedNext DEF Written, Seen
<1>2. Claims!Stays(t)
  BY <1>1, SameMarkSeen
     DEF Claims!Stays, Claims!Becomes, Seen, statusOf, insideOf, holdersOf
<1> QED
  BY <1>2 DEF Matched

LEMMA OpenMove ==
  ASSUME NEW t \in Turns, job[t].status = "none", Inside(worker, t) = {}, SameExt(t),
         Written(t, "queued", {}, {})
  PROVE  Matched(t)
<1>1. statusOf[t] = "none" /\ insideOf[t] = {} /\ Seen(t, "queued", {}, {})
  BY MappedNow, MappedNext DEF Written, Told, Seen
<1>2. Claims!Open(t)
  BY <1>1, SameMarkSeen DEF Claims!Open, Claims!Becomes, Seen, statusOf, insideOf, holdersOf
<1> QED
  BY <1>2 DEF Claims!Moves, Matched

LEMMA ClaimMove ==
  ASSUME NEW t \in Turns, NEW w \in Workers, job[t].status = "queued", worker[w].pc = "idle",
         SameExt(t), Written(t, "claimed", Inside(worker, t) \cup {w}, {w})
  PROVE  Matched(t)
<1>1. statusOf[t] = "queued"
  BY MappedNow DEF Told
<1>2. \A u \in Turns : w \notin insideOf[u]
  BY DEF insideOf, At
<1>3. Seen(t, "claimed", insideOf[t] \cup {w}, {w})
  BY MappedNow, MappedNext DEF Written, Seen
<1>4. Claims!Claim(t, w)
  BY <1>1, <1>2, <1>3, SameMarkSeen
     DEF Claims!Claim, Claims!Becomes, Seen, statusOf, insideOf, holdersOf
<1> QED
  BY <1>4 DEF Claims!Moves, Matched

LEMMA MarkMove ==
  ASSUME NEW t \in Turns, Holders(job[t], worker, t) # {}, job'[t].ext = TRUE,
         Written(t, Told(job[t].status), Inside(worker, t), Holders(job[t], worker, t))
  PROVE  Matched(t)
<1>1. /\ holdersOf[t] # {} /\ markedOf'[t] = TRUE
      /\ Seen(t, statusOf[t], insideOf[t], holdersOf[t])
  BY MappedNow, MappedNext DEF Written, Seen
<1>2. Claims!Mark(t)
  BY <1>1 DEF Claims!Mark, Claims!Becomes, Seen, statusOf, insideOf, holdersOf, markedOf
<1> QED
  BY <1>2 DEF Claims!Moves, Matched

LEMMA SettleMove ==
  ASSUME NEW t \in Turns, NEW w \in Workers, w \in Holders(job[t], worker, t), SameExt(t),
         NEW s \in {"queued", "ended"},
         Written(t, s, Inside(worker, t) \ {w}, {})
  PROVE  Matched(t)
<1>1. w \in holdersOf[t] /\ Seen(t, s, insideOf[t] \ {w}, {})
  BY MappedNow, MappedNext DEF Written, Seen
<1>2. Claims!Settle(t, w)
  BY <1>1, SameMarkSeen DEF Claims!Settle, Claims!Becomes, Seen, statusOf, insideOf, holdersOf
<1> QED
  BY <1>2 DEF Claims!Moves, Matched

LEMMA LeaveMove ==
  ASSUME NEW t \in Turns, NEW w \in Workers, SameExt(t),
         Written(t, Told(job[t].status), Inside(worker, t) \ {w},
                 Holders(job[t], worker, t) \ {w})
  PROVE  Matched(t)
<1>1. Seen(t, statusOf[t], insideOf[t] \ {w}, holdersOf[t] \ {w})
  BY MappedNow, MappedNext DEF Written, Seen
<1>2. Claims!Leave(t, w)
  BY <1>1, SameMarkSeen DEF Claims!Leave, Claims!Becomes, Seen, statusOf, insideOf, holdersOf
<1> QED
  BY <1>2 DEF Claims!Moves, Matched

LEMMA LapseMove ==
  ASSUME NEW t \in Turns, job[t].status = "claimed", SameExt(t), NEW s,
         (job[t].ext = TRUE /\ s = "ended") \/ (job[t].ext = FALSE /\ s = "queued"),
         Written(t, s, Inside(worker, t), {})
  PROVE  Matched(t)
<1>1. /\ statusOf[t] = "claimed" /\ Seen(t, s, insideOf[t], {})
      /\ (markedOf[t] = TRUE /\ s = "ended") \/ (markedOf[t] = FALSE /\ s = "queued")
  BY MappedNow, MappedNext DEF Written, Told, Seen
<1>2. Claims!Lapse(t)
  BY <1>1, SameMarkSeen
     DEF Claims!Lapse, Claims!Becomes, Seen, statusOf, insideOf, holdersOf, markedOf
<1> QED
  BY <1>2 DEF Claims!Moves, Matched

------------------------------------------------------------------------------
(* Every step is matched *)

FramesKept(t) == \A v \in Workers : In(worker'[v], t) <=> In(worker[v], t)

LEMMA InsideKept ==
  ASSUME NEW t \in Turns, FramesKept(t)
  PROVE  Inside(worker', t) = Inside(worker, t)
BY DEF FramesKept, Inside

LEMMA NobodyHolds ==
  ASSUME NEW row, NEW frames, NEW t, row.status # "claimed"
  PROVE  Holders(row, frames, t) = {}
BY DEF Holders, OwnsJob

LEMMA KeptMatches ==
  ASSUME NEW t \in Turns, FramesKept(t), job'[t] = job[t]
  PROVE  Matched(t)
<1>1. Holders(job'[t], worker', t) = Holders(job[t], worker, t)
  BY DEF FramesKept, Holders
<1> QED
  BY <1>1, InsideKept, NoMove DEF Written, SameExt

LEMMA LeftMatches ==
  ASSUME NEW t \in Turns, NEW w \in Workers, GoesAway(w), job'[t] = job[t]
  PROVE  Matched(t)
<1>1. ~In(worker'[w], t)
  BY DEF GoesAway, In
<1>2. Inside(worker', t) = Inside(worker, t) \ {w}
  BY <1>1 DEF GoesAway, Others, Inside
<1>3. Holders(job'[t], worker', t) = Holders(job[t], worker, t) \ {w}
  BY <1>1 DEF GoesAway, Others, Holders
<1> QED
  BY <1>2, <1>3, LeaveMove DEF Written, SameExt

LEMMA FramesPut ==
  ASSUME UNCHANGED worker, NEW t \in Turns
  PROVE  FramesKept(t)
BY DEF FramesKept

LEMMA OpensMatched ==
  ASSUME IInv, OpenInv, NEW u \in Turns, Opens(u), NEW t \in Turns
  PROVE  Matched(t)
<1>1. FramesKept(t)
  BY FramesPut DEF Opens
<1>2. CASE t = u
  <2>1. turn[t].status \notin OpenedStatus
    BY <1>2 DEF Opens, OpenedStatus, Live, Ended
  <2>2. job[t].status = "none" /\ job[t].ext = FALSE
    BY <2>1 DEF OpenInv
  <2>3. Inside(worker, t) = {}
    BY <2>1 DEF OpenInv, Inside, In, Of
  <2>4. job'[t].status = "queued" /\ job'[t].ext = FALSE
    BY <1>2 DEF Opens, NewJob, NoJob
  <2>5. Written(t, "queued", {}, {})
    BY <1>1, <2>3, <2>4, InsideKept, NobodyHolds DEF Written, Told
  <2> QED
    BY <2>2, <2>3, <2>4, <2>5, OpenMove DEF SameExt
<1>3. CASE t # u
  BY <1>1, <1>3, KeptMatches DEF Opens, OtherJobs
<1> QED
  BY <1>2, <1>3

LEMMA LapsesMatched ==
  ASSUME IInv, NEW u \in Turns, Lapses(u), NEW t \in Turns
  PROVE  Matched(t)
<1>1. FramesKept(t)
  BY FramesPut DEF Lapses
<1>2. CASE t = u
  <2> DEFINE s == IF job[t].ext = TRUE THEN "ended" ELSE "queued"
  <2>1. job[t].ext \in BOOLEAN
    BY DEF IInv, Typed, Job
  <2>2. job'[t].status \in {"queued", "done"} /\ Told(job'[t].status) = s
    BY <1>2 DEF Lapses, Told
  <2>3. (job[t].ext = TRUE /\ s = "ended") \/ (job[t].ext = FALSE /\ s = "queued")
    BY <2>1
  <2> HIDE DEF s
  <2>4. Written(t, s, Inside(worker, t), {})
    BY <1>1, <2>2, InsideKept, NobodyHolds DEF Written
  <2> QED
    BY <1>2, <2>3, <2>4, LapseMove DEF Lapses, SameExt
<1>3. CASE t # u
  BY <1>1, <1>3, KeptMatches DEF Lapses, OtherJobs
<1> QED
  BY <1>2, <1>3

LEMMA TakesMatched ==
  ASSUME NEW w \in Workers, NEW u \in Turns, Takes(w, u), NEW t \in Turns
  PROVE  Matched(t)
<1>1. CASE t = u
  <2>1. Inside(worker', t) = Inside(worker, t) \cup {w}
    BY <1>1 DEF Takes, Inside, In, Others
  <2>2. Holders(job'[t], worker', t) = {w}
    BY <1>1 DEF Takes, Holders, In, OwnsJob
  <2>3. Written(t, "claimed", Inside(worker, t) \cup {w}, {w})
    BY <1>1, <2>1, <2>2 DEF Takes, Written, Told
  <2> QED
    BY <1>1, <2>3, ClaimMove DEF Takes, SameExt
<1>2. CASE t # u
  <2>1. FramesKept(t)
    BY <1>2 DEF Takes, FramesKept, In, Others
  <2> QED
    BY <1>2, <2>1, KeptMatches DEF Takes, OtherJobs
<1> QED
  BY <1>1, <1>2

LEMMA ProcessMatched ==
  ASSUME NEW w \in Workers, ProcessEffect(w), NEW t \in Turns
  PROVE  Matched(t)
<1>1. CASE GoesOn(w) /\ (UNCHANGED job \/ MarksJob(w))
  <2>1. FramesKept(t)
    BY <1>1 DEF GoesOn, Others, FramesKept, In, Of
  <2>2. CASE job'[t] = job[t]
    BY <2>1, <2>2, KeptMatches
  <2>3. CASE job'[t] # job[t]
    <3>1. Of(w) = t /\ MarksJob(w)
      BY <1>1, <2>3 DEF MarksJob, OtherJobs
    <3>2. /\ OwnsJob(w, job[t]) /\ OwnsJob(w, job'[t]) /\ job'[t].ext = TRUE
      BY <3>1 DEF MarksJob
    <3>3. w \in Holders(job[t], worker, t)
      BY <1>1, <3>1, <3>2 DEF GoesOn, Holders, In, Of
    <3>4. Holders(job'[t], worker', t) = Holders(job[t], worker, t)
      BY <2>1, <3>2 DEF Holders, FramesKept, OwnsJob
    <3>5. Told(job'[t].status) = Told(job[t].status)
      BY <3>2 DEF OwnsJob
    <3>6. Written(t, Told(job[t].status), Inside(worker, t), Holders(job[t], worker, t))
      BY <2>1, <3>4, <3>5, InsideKept DEF Written
    <3> QED
      BY <3>2, <3>3, <3>6, MarkMove
  <2> QED
    BY <2>2, <2>3
<1>2. CASE GoesAway(w) /\ (UNCHANGED job \/ SettlesJob(w))
  <2>1. CASE job'[t] = job[t]
    BY <1>2, <2>1, LeftMatches
  <2>2. CASE job'[t] # job[t]
    <3>1. Of(w) = t /\ SettlesJob(w)
      BY <1>2, <2>2 DEF SettlesJob, OtherJobs
    <3>2. /\ OwnsJob(w, job[t])
          /\ job'[t].status \in {"queued", "done"} /\ SameExt(t)
      BY <3>1 DEF SettlesJob, SameExt
    <3>3. w \in Holders(job[t], worker, t)
      BY <1>2, <3>1, <3>2 DEF GoesAway, Holders, In, Of
    <3>4. PICK s \in {"queued", "ended"} : s = Told(job'[t].status)
      BY <3>2 DEF Told
    <3>5. Inside(worker', t) = Inside(worker, t) \ {w}
      BY <1>2 DEF GoesAway, Others, Inside, In
    <3>6. Written(t, s, Inside(worker, t) \ {w}, {})
      BY <3>2, <3>4, <3>5, NobodyHolds DEF Written
    <3> QED
      BY <3>2, <3>3, <3>6, SettleMove
  <2> QED
    BY <2>1, <2>2
<1> QED
  BY <1>1, <1>2 DEF ProcessEffect

------------------------------------------------------------------------------
(* The refinement *)

LEMMA StepMatched == IInv /\ IInv' /\ OpenInv /\ [Next]_vars => Claims!Next
<1> SUFFICES ASSUME IInv, IInv', OpenInv, [Next]_vars
             PROVE  Claims!Next
  OBVIOUS
<1>1. ASSUME NEW t \in Turns PROVE Matched(t)
  <2>1. StepEffect
    BY Effects
  <2>2. CASE UNCHANGED <<job, worker>>
    BY <2>2, FramesPut, KeptMatches
  <2> QED
    BY <2>1, <2>2, OpensMatched, LapsesMatched, TakesMatched, ProcessMatched DEF StepEffect
<1>2. \A t \in Turns : job'[t].status \in {"none", "queued", "claimed", "done"}
                         /\ job'[t].ext \in BOOLEAN
  BY DEF IInv, Typed, Job
<1>3. statusOf' \in [Turns -> Claims!Status] /\ markedOf' \in [Turns -> BOOLEAN]
  BY <1>2 DEF statusOf, markedOf, Claims!Status
<1>4. insideOf' \in [Turns -> SUBSET Workers] /\ holdersOf' \in [Turns -> SUBSET Workers]
  BY DEF insideOf, holdersOf
<1>5. Claims!TypeOK'
  BY <1>3, <1>4 DEF Claims!TypeOK, statusOf, insideOf, holdersOf, markedOf
<1> QED
  BY <1>1, <1>5 DEF Claims!Next, Matched

\* However a turn is deferred, resumed, cancelled or abandoned, a process that lost its
\* claim neither marks nor ends the job of the turn, and a job that was swept with its
\* mark is not entered again.
THEOREM TurnsKeepClaims == Spec => KeepsClaims
<1>1. Init => Claims!Init
  <2> SUFFICES ASSUME Init PROVE Claims!Init
    OBVIOUS
  <2>1. /\ \A t \in Turns : job[t].status = "none" /\ job[t].ext = FALSE
        /\ \A w \in Workers : At(w, "idle")
    BY DEF Init, NoJob, Idle, At
  <2> QED
    BY <2>1 DEF Claims!Init, HeldBy
<1>2. IInv /\ IInv' /\ OpenInv /\ [Next]_vars => OpenInv'
  BY OpenStep
<1>3. IInv /\ IInv' /\ OpenInv /\ [Next]_vars =>
         [Claims!Next]_<<[t \in Turns |-> IF job[t].status = "done" THEN "ended"
                                                                    ELSE job[t].status],
                         [t \in Turns |-> {w \in Workers : ~At(w, "idle") /\ Of(w) = t}],
                         [t \in Turns |-> {w \in Workers : HeldBy(w, t)}],
                         [t \in Turns |-> job[t].ext]>>
  BY StepMatched
<1> QED
  BY <1>1, <1>2, <1>3, InitOpen, Invariance, PTL DEF Spec, KeepsClaims, Claims!Spec, Claims!vars
=============================================================================
