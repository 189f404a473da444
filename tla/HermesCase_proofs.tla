-------------------------- MODULE HermesCase_proofs --------------------------
(***************************************************************************)
(* Proofs about the Hermes case of HermesCase, for any turns, processes,   *)
(* events, tools and fault bounds.                                         *)
(*                                                                         *)
(* The inductive invariant has three parts.  CaseInv is what the           *)
(* transactions of the case keep among its rows: the properties proved     *)
(* here, and that a case without a revision has neither turns nor a        *)
(* binding, and that a solved case stays blocked.  KindInv ties the kind   *)
(* of a turn to its direction, its route run and the tool it may call.     *)
(* FramesInv says what a process that was interrupted between two          *)
(* transactions may still rely on: a turn it drives through phases has     *)
(* begun and has those phases, and one it cancels can never run again.     *)
(***************************************************************************)
EXTENDS HermesCase, TLAPS

------------------------------------------------------------------------------
\* A status once left is not reached again: a turn only moves to the smaller set
OpenedStatus == Live \cup Ended
BegunStatus == {"running", "cancel_requested"} \cup Ended
LateStatus == {"cancel_requested"} \cup Ended

NewCaseInv ==
    case.rev = 0 => ~binding.exists /\ \A t \in Turns : turn[t].status = "none"

SolvedInv ==
    (\E t \in Turns : turn[t].res = "solved") => binding.terminal \/ binding.escalated

CaseInv ==
    /\ NewCaseInv
    /\ ActiveTurnIsCurrent
    /\ OnlyOutdatedIsCancelled
    /\ OneActiveTurn
    /\ SolvedInv
    /\ NoCustomerTurnAfterSolve
    /\ OneReplyPerReview

NormalBegun(row) == row.kind = "normal" /\ row.status \in BegunStatus

KindInv ==
    \A t \in Turns :
        /\ turn[t].status \in OpenedStatus => turn[t].kind # "none"
        /\ turn[t].kind \in {"investigation_feedback", "investigation_reply"} =>
               turn[t].dir \in {"investigation", "human"}
        /\ gateway[t]["route"] # "none" => NormalBegun(turn[t])
        /\ tool[t] = "direction" => NormalBegun(turn[t])

\* What the places that write an outcome are given to write
OutFits(place, out) ==
    /\ place = "complete" => out \in {"done", "review"}
    /\ place = "handover" => out \in {"done", "leave"}

FrameOK(f, rows) ==
    /\ f.pc # "idle" => f.turn \in Turns
    /\ f.phase # "none" =>
           /\ f.turn \in Turns
           /\ f.phase \in PhasesOf(rows[f.turn].kind)
           /\ rows[f.turn].status \in BegunStatus
    /\ f.pc \in {"list", "recover"} => rows[f.turn].status \in LateStatus
    /\ OutFits(f.pc, f.out)

FramesInv == \A w \in Workers : FrameOK(worker[w], turn)

\* TypeOK without what it says of phases, which FramesInv implies
Typed ==
    /\ case \in [rev : Nat, closed : BOOLEAN]
    /\ binding \in Binding
    /\ turn \in [Turns -> TurnRow]
    /\ made \in Seq(Turns)
    /\ run \in [Turns -> [Phases -> RunStatus]]
    /\ gateway \in [Turns -> [Phases -> GatewayStatus]]
    /\ tool \in [Turns -> Tools \cup {"none"}]
    /\ job \in [Turns -> Job]
    /\ worker \in [Workers -> Frame]
    /\ used \in [Faults -> Nat]

IInv == Typed /\ CaseInv /\ KindInv /\ FramesInv

------------------------------------------------------------------------------
(* The parts of a step *)

LEMMA InitIInv == Init => IInv
<1> SUFFICES ASSUME Init PROVE IInv
  OBVIOUS
<1>1. Typed
  BY DEF Init, Typed, Binding, NoBinding, TurnRow, NoRow, RunStatus, GatewayStatus, Job, NoJob,
         Frame, Idle, Place, Directions, Kinds, Events, Status, Live, Ended, Phases, Tools, Faults
<1>2. CaseInv
  BY DEF Init, CaseInv, NewCaseInv, ActiveTurnIsCurrent, OnlyOutdatedIsCancelled, OneActiveTurn,
         SolvedInv, NoCustomerTurnAfterSolve, OneReplyPerReview, Active, NoBinding, NoRow
<1>3. KindInv
  BY DEF Init, KindInv, OpenedStatus, NoRow, Live, Ended, Phases
<1>4. FramesInv
  BY DEF Init, FramesInv, FrameOK, Idle, OutFits
<1> QED
  BY <1>1, <1>2, <1>3, <1>4 DEF IInv

LEMMA SpendType ==
  ASSUME Typed, NEW f \in Faults, Spend(f)
  PROVE  used' \in [Faults -> Nat]
BY DEF Typed, Spend

\* What every step keeps of a row
RowMoves(r, s) ==
    /\ r.status \in BegunStatus => s.status \in BegunStatus /\ s.kind = r.kind
    /\ r.status \in LateStatus => s.status \in LateStatus

LEMMA FramesStay ==
  ASSUME Typed, FramesInv, \A t \in Turns : RowMoves(turn[t], turn'[t]), UNCHANGED worker
  PROVE  FramesInv'
<1> SUFFICES ASSUME NEW w \in Workers PROVE FrameOK(worker[w], turn')
  BY DEF FramesInv
<1>1. FrameOK(worker[w], turn)
  BY DEF FramesInv
<1> QED
  BY <1>1 DEF FrameOK, RowMoves, Typed, Frame, Place

LEMMA FrameStep ==
  ASSUME Typed, FramesInv, \A t \in Turns : RowMoves(turn[t], turn'[t]),
         NEW w \in Workers, NEW f \in Frame, Step(w, f), FrameOK(f, turn')
  PROVE  worker' \in [Workers -> Frame] /\ FramesInv'
<1>1. worker' \in [Workers -> Frame]
  BY DEF Typed, Step
<1>2. ASSUME NEW v \in Workers PROVE FrameOK(worker'[v], turn')
  <2>1. CASE v = w
    BY <2>1 DEF Step, Typed
  <2>2. CASE v # w
    <3>1. worker'[v] = worker[v] /\ FrameOK(worker[v], turn)
      BY <2>2 DEF Step, Typed, FramesInv
    <3> QED
      BY <3>1 DEF FrameOK, RowMoves
  <2> QED
    BY <2>1, <2>2
<1> QED
  BY <1>1, <1>2 DEF FramesInv

LEMMA CaseStays ==
  ASSUME CaseInv, UNCHANGED <<case, binding, turn>>
  PROVE  CaseInv'
BY DEF CaseInv, NewCaseInv, ActiveTurnIsCurrent, OnlyOutdatedIsCancelled, OneActiveTurn,
       SolvedInv, NoCustomerTurnAfterSolve, OneReplyPerReview, Active

LEMMA KindStays ==
  ASSUME KindInv, UNCHANGED <<turn, tool>>,
         \A t \in Turns : \/ gateway'[t]["route"] = "none"
                          \/ gateway[t]["route"] # "none"
                          \/ NormalBegun(turn[t])
  PROVE  KindInv'
BY DEF KindInv, NormalBegun

\* A step of a process that leaves the rows of the case alone
LEMMA WorkerStep ==
  ASSUME IInv, UNCHANGED <<case, binding, turn, made, gateway, tool>>,
         run' \in [Turns -> [Phases -> RunStatus]], job' \in [Turns -> Job],
         used' \in [Faults -> Nat],
         NEW w \in Workers, NEW f \in Frame, Step(w, f), FrameOK(f, turn)
  PROVE  IInv'
<1>1. CaseInv' /\ KindInv'
  BY CaseStays, KindStays DEF IInv
<1>2. worker' \in [Workers -> Frame] /\ FramesInv'
  BY FrameStep DEF IInv, RowMoves
<1> QED
  BY <1>1, <1>2 DEF IInv, Typed

\* The frames a process moves to
LEMMA Goes ==
  ASSUME IInv, NEW w \in Workers, worker[w].pc # "idle", NEW place \in Place,
         place \in {"list", "recover"} => turn[Of(w)].status \in LateStatus,
         OutFits(place, worker[w].out)
  PROVE  LET f == [worker[w] EXCEPT !.pc = place] IN f \in Frame /\ FrameOK(f, turn)
<1>1. worker[w] \in Frame /\ FrameOK(worker[w], turn)
  BY DEF IInv, Typed, FramesInv
<1> QED
  BY <1>1 DEF Frame, FrameOK, Of

Outs == {"none", "done", "review", "leave", "failed", "rejected", "lost", "end", "defer"}

LEMMA GoesOut ==
  ASSUME IInv, NEW w \in Workers, worker[w].pc # "idle",
         NEW place \in Place \ {"list", "recover"}, NEW out \in Outs, OutFits(place, out)
  PROVE  LET f == [worker[w] EXCEPT !.pc = place, !.out = out]
         IN  f \in Frame /\ FrameOK(f, turn)
<1>1. worker[w] \in Frame /\ FrameOK(worker[w], turn)
  BY DEF IInv, Typed, FramesInv
<1> QED
  BY <1>1 DEF Frame, FrameOK, Of, Outs

\* What a step must leave alone for the three lemmas that follow
RowsStay == UNCHANGED <<case, binding, turn, made, gateway, tool>>
OthersTyped ==
    /\ run' \in [Turns -> [Phases -> RunStatus]]
    /\ job' \in [Turns -> Job]
    /\ used' \in [Faults -> Nat]

LEMMA GoIInv ==
  ASSUME IInv, RowsStay, OthersTyped, NEW w \in Workers, worker[w].pc # "idle",
         NEW place \in Place, place \in {"list", "recover"} => turn[Of(w)].status \in LateStatus,
         OutFits(place, worker[w].out), Go(w, place)
  PROVE  IInv'
<1> DEFINE f == [worker[w] EXCEPT !.pc = place]
<1>1. f \in Frame /\ FrameOK(f, turn)
  BY Goes
<1>2. Step(w, f)
  BY DEF Go
<1> QED
  BY <1>1, <1>2, WorkerStep DEF RowsStay, OthersTyped

LEMMA GoOutIInv ==
  ASSUME IInv, RowsStay, OthersTyped, NEW w \in Workers, worker[w].pc # "idle",
         NEW place \in Place \ {"list", "recover"}, NEW out \in Outs, OutFits(place, out),
         GoOut(w, place, out)
  PROVE  IInv'
<1> DEFINE f == [worker[w] EXCEPT !.pc = place, !.out = out]
<1>1. f \in Frame /\ FrameOK(f, turn)
  BY GoesOut
<1>2. Step(w, f)
  BY DEF GoOut
<1> QED
  BY <1>1, <1>2, WorkerStep DEF RowsStay, OthersTyped

LEMMA ReturnIInv ==
  ASSUME IInv, RowsStay, OthersTyped, NEW w \in Workers, worker[w].pc # "idle", Return(w)
  PROVE  IInv'
BY GoOutIInv DEF Return, Place, Outs, OutFits

LEMMA IdleIInv ==
  ASSUME IInv, RowsStay, OthersTyped, NEW w \in Workers, Step(w, Idle)
  PROVE  IInv'
<1>1. Idle \in Frame /\ FrameOK(Idle, turn)
  BY DEF Idle, Frame, Place, FrameOK, OutFits
<1> QED
  BY <1>1, WorkerStep DEF RowsStay, OthersTyped

LEMMA GoPhaseIInv ==
  ASSUME IInv, RowsStay, OthersTyped, NEW w \in Workers, worker[w].pc # "idle",
         NEW p \in Phases, p \in PhasesOf(turn[Of(w)].kind), turn[Of(w)].status \in BegunStatus,
         NEW place \in {"phase", "notify"},
         Step(w, [worker[w] EXCEPT !.pc = place, !.phase = p])
  PROVE  IInv'
<1> DEFINE f == [worker[w] EXCEPT !.pc = place, !.phase = p]
<1>1. worker[w] \in Frame /\ FrameOK(worker[w], turn)
  BY DEF IInv, Typed, FramesInv
<1>2. f \in Frame /\ FrameOK(f, turn)
  BY <1>1 DEF Frame, FrameOK, Of, Place, OutFits
<1> QED
  BY <1>2, WorkerStep DEF RowsStay, OthersTyped

------------------------------------------------------------------------------
(* The steps of a process that leave the case alone *)

LEMMA JobTyped ==
  ASSUME IInv, NEW t \in Turns, NEW s \in {"queued", "claimed", "done"},
         NEW o \in Workers \cup {NoWorker}
  PROVE  /\ [job EXCEPT ![t].status = s, ![t].owner = o] \in [Turns -> Job]
         /\ [job EXCEPT ![t].ext = TRUE] \in [Turns -> Job]
         /\ [job EXCEPT ![t] = AfterLapse(@)] \in [Turns -> Job]
<1>1. job \in [Turns -> Job]
  BY DEF IInv, Typed
<1>2. AfterLapse(job[t]) \in Job
  BY <1>1 DEF AfterLapse, Job
<1> QED
  BY <1>1, <1>2 DEF Job

LEMMA RunTyped ==
  ASSUME IInv, NEW t \in Turns, NEW s \in RunStatus
  PROVE  \A p : [run EXCEPT ![t][p] = s] \in [Turns -> [Phases -> RunStatus]]
BY DEF IInv, Typed

LEMMA OfTurn ==
  ASSUME IInv, NEW w \in Workers, worker[w].pc # "idle"
  PROVE  Of(w) \in Turns
BY DEF IInv, FramesInv, FrameOK, Of

LEMMA Unmoved ==
  ASSUME IInv, UNCHANGED <<case, binding, turn, made, run, gateway, tool, job, used>>
  PROVE  RowsStay /\ OthersTyped
BY DEF IInv, Typed, RowsStay, OthersTyped

LEMMA ClaimIInv ==
  ASSUME IInv, NEW w \in Workers, NEW t \in Turns, Claim(w, t)
  PROVE  IInv'
<1> DEFINE f == [Idle EXCEPT !.pc = "enter", !.turn = t]
<1>1. f \in Frame /\ FrameOK(f, turn)
  BY DEF Idle, Frame, Place, FrameOK, OutFits
<1>2. OthersTyped
  BY JobTyped DEF Claim, OthersTyped, IInv, Typed
<1>3. Step(w, f) /\ RowsStay
  BY DEF Claim, RowsStay
<1> QED
  BY <1>1, <1>2, <1>3, WorkerStep DEF RowsStay, OthersTyped

LEMMA SettleIInv ==
  ASSUME IInv, NEW w \in Workers, Settle(w)
  PROVE  IInv'
<1>1. Of(w) \in Turns
  BY OfTurn DEF Settle, At
<1>2. job' \in [Turns -> Job]
  BY <1>1, JobTyped DEF Settle, IInv, Typed
<1> QED
  BY <1>2, IdleIInv DEF Settle, RowsStay, OthersTyped, IInv, Typed

LEMMA CrashIInv ==
  ASSUME IInv, NEW w \in Workers, Crash(w)
  PROVE  IInv'
<1>1. used' \in [Faults -> Nat]
  BY SpendType DEF Crash, Faults, IInv
<1> QED
  BY <1>1, IdleIInv DEF Crash, RowsStay, OthersTyped, IInv, Typed

LEMMA FaultIInv ==
  ASSUME IInv, NEW w \in Workers, Fault(w)
  PROVE  IInv'
<1>1. used' \in [Faults -> Nat]
  BY SpendType DEF Fault, Faults, IInv
<1> QED
  BY <1>1, ReturnIInv DEF Fault, RowsStay, OthersTyped, IInv, Typed

\* A turn that has a phase to enter
LEMMA FirstPhaseOK ==
  ASSUME NEW k \in Kinds
  PROVE  FirstPhase(k) \in Phases /\ FirstPhase(k) \in PhasesOf(k)
BY DEF FirstPhase, PhasesOf, Phases, Kinds

LEMMA EnterIInv ==
  ASSUME IInv, NEW w \in Workers, Enter(w)
  PROVE  IInv'
<1>1. worker[w].pc # "idle" /\ Of(w) \in Turns
  BY OfTurn DEF Enter, At
<1>2. RowsStay /\ OthersTyped
  BY Unmoved DEF Enter
<1>3. CASE Return(w)
  BY <1>1, <1>2, <1>3, ReturnIInv
<1>4. CASE turn[Of(w)].status = "cancel_requested" /\ Go(w, "list")
  BY <1>1, <1>2, <1>4, GoIInv DEF Place, LateStatus, OutFits
<1>5. CASE Go(w, "start")
  BY <1>1, <1>2, <1>5, GoIInv DEF Place, OutFits
<1>6. CASE turn[Of(w)].status \in {"running", "failed", "unknown"}
           /\ EnterPhases(w, turn[Of(w)])
  <2> DEFINE k == turn[Of(w)].kind
  <2>1. k \in Kinds
    BY <1>1, <1>6 DEF IInv, Typed, KindInv, TurnRow, OpenedStatus, Live, Ended
  <2>2. \E place \in {"phase", "notify"} :
            Step(w, [worker[w] EXCEPT !.pc = place, !.phase = FirstPhase(k)])
    BY <1>6 DEF EnterPhases, Step
  <2>3. turn[Of(w)].status \in BegunStatus
    BY <1>6 DEF BegunStatus, Ended
  <2> QED
    BY <1>1, <1>2, <2>1, <2>2, <2>3, FirstPhaseOK, GoPhaseIInv
<1> QED
  BY <1>3, <1>4, <1>5, <1>6 DEF Enter

LEMMA NotifyIInv ==
  ASSUME IInv, NEW w \in Workers, Notify(w) \/ NotifyRefused(w)
  PROVE  IInv'
<1>1. worker[w].pc # "idle" /\ Of(w) \in Turns
  BY OfTurn DEF Notify, NotifyRefused, At
<1>2. [job EXCEPT ![Of(w)].ext = TRUE] \in [Turns -> Job] /\ job \in [Turns -> Job]
  BY <1>1, JobTyped DEF IInv, Typed
<1>3. CASE Notify(w)
  <2>1. RowsStay /\ OthersTyped
    BY <1>2, <1>3 DEF Notify, RowsStay, OthersTyped, IInv, Typed
  <2>2. Go(w, "phase") \/ Return(w)
    BY <1>3 DEF Notify
  <2> QED
    BY <1>1, <2>1, <2>2, GoIInv, ReturnIInv DEF Place, OutFits
<1>4. CASE NotifyRefused(w)
  <2>1. used' \in [Faults -> Nat]
    BY <1>4, SpendType DEF NotifyRefused, Faults, IInv
  <2>2. RowsStay /\ OthersTyped
    BY <1>2, <1>4, <2>1 DEF NotifyRefused, RowsStay, OthersTyped, IInv, Typed
  <2> QED
    BY <1>1, <1>4, <2>2, GoOutIInv DEF NotifyRefused, Place, Outs, OutFits
<1> QED
  BY <1>3, <1>4

\* A phase a process is in belongs to its turn
LEMMA InPhase ==
  ASSUME IInv, NEW w \in Workers, worker[w].phase # "none"
  PROVE  /\ Of(w) \in Turns
         /\ worker[w].phase \in PhasesOf(turn[Of(w)].kind)
         /\ turn[Of(w)].status \in BegunStatus
BY DEF IInv, FramesInv, FrameOK, Of

LEMMA HandOverIInv ==
  ASSUME IInv, RowsStay, OthersTyped, NEW w \in Workers, worker[w].pc # "idle",
         HandOverAndEnd(w) \/ HandOverAndLeave(w) \/ AskForReview(w)
  PROVE  IInv'
BY GoOutIInv DEF HandOverAndEnd, HandOverAndLeave, AskForReview, Place, Outs, OutFits

LEMMA BeginPhaseIInv ==
  ASSUME IInv, NEW w \in Workers, BeginPhase(w)
  PROVE  IInv'
<1> DEFINE row == turn[Of(w)]
<1>1. worker[w].pc # "idle"
  BY DEF BeginPhase, At
<1>2. RowsStay /\ OthersTyped
  BY Unmoved DEF BeginPhase
<1>3. CASE row.status = "cancel_requested" /\ Go(w, "list")
  BY <1>1, <1>2, <1>3, GoIInv DEF Place, LateStatus, OutFits
<1>4. CASE Return(w)
  BY <1>1, <1>2, <1>4, ReturnIInv
<1>5. CASE worker[w].phase = "work" /\ ReplyOnly(row) /\ GoPhase(w, "persona")
  <2>1. "persona" \in PhasesOf(row.kind)
    BY <1>5 DEF ReplyOnly, PhasesOf
  <2> QED
    BY <1>1, <1>2, <1>5, <2>1, InPhase, GoPhaseIInv DEF GoPhase, Phases
<1>6. CASE HandOverAndEnd(w) \/ HandOverAndLeave(w)
  BY <1>1, <1>2, <1>6, HandOverIInv
<1>7. CASE ServeWork(w)
  BY <1>1, <1>2, <1>7, GoIInv, ReturnIInv DEF ServeWork, Place, OutFits
<1>8. CASE Go(w, "after") \/ Go(w, "poll") \/ Go(w, "fence")
  BY <1>1, <1>2, <1>8, GoIInv DEF Place, OutFits
<1> QED
  BY <1>3, <1>4, <1>5, <1>6, <1>7, <1>8 DEF BeginPhase

LEMMA FenceIInv ==
  ASSUME IInv, NEW w \in Workers, Fence(w)
  PROVE  IInv'
<1>1. worker[w].pc # "idle" /\ Of(w) \in Turns
  BY OfTurn DEF Fence, At
<1>2. RowsStay /\ OthersTyped
  <2>1. RowsStay /\ UNCHANGED <<run, used>>
    BY DEF Fence, RowsStay
  <2>2. /\ run \in [Turns -> [Phases -> RunStatus]]
        /\ job \in [Turns -> Job]
        /\ used \in [Faults -> Nat]
    BY DEF IInv, Typed
  <2>3. [job EXCEPT ![Of(w)].ext = TRUE] \in [Turns -> Job]
    BY <1>1, JobTyped
  <2>4. job' \in {job, [job EXCEPT ![Of(w)].ext = TRUE]}
    BY DEF Fence
  <2>5. job' \in [Turns -> Job]
    BY <2>2, <2>3, <2>4
  <2> QED
    BY <2>1, <2>2, <2>5 DEF OthersTyped
<1>3. Go(w, "launch") \/ Return(w)
  BY DEF Fence
<1> QED
  BY <1>1, <1>2, <1>3, GoIInv, ReturnIInv DEF Place, OutFits

LEMMA RecordRunIInv ==
  ASSUME IInv, NEW w \in Workers, RecordRun(w)
  PROVE  IInv'
<1>1. worker[w].pc # "idle" /\ Of(w) \in Turns
  BY OfTurn DEF RecordRun, At
<1>2. RowsStay /\ OthersTyped
  BY <1>1, RunTyped DEF RecordRun, RowsStay, OthersTyped, RunStatus, IInv, Typed
<1> QED
  BY <1>1, <1>2, GoIInv DEF RecordRun, Place, OutFits

LEMMA PollIInv ==
  ASSUME IInv, NEW w \in Workers, PollOther(w) \/ PollGivesUp(w)
  PROVE  IInv'
<1>1. worker[w].pc # "idle"
  BY DEF PollOther, PollGivesUp, At
<1>2. RowsStay /\ OthersTyped
  BY Unmoved DEF PollOther, PollGivesUp
<1>3. CASE turn[Of(w)].status = "cancel_requested" /\ Go(w, "list")
  BY <1>1, <1>2, <1>3, GoIInv DEF Place, LateStatus, OutFits
<1>4. CASE GoOut(w, "fail", "failed") \/ GoOut(w, "fail", "lost")
  BY <1>1, <1>2, <1>4, GoOutIInv DEF Place, Outs, OutFits
<1> QED
  BY <1>3, <1>4 DEF PollOther, PollGivesUp

LEMMA AfterPhaseIInv ==
  ASSUME IInv, NEW w \in Workers, AfterPhase(w)
  PROVE  IInv'
<1> DEFINE row == turn[Of(w)]
           p == worker[w].phase
<1>1. worker[w].pc # "idle"
  BY DEF AfterPhase, At
<1>2. RowsStay /\ OthersTyped
  BY Unmoved DEF AfterPhase
<1>3. CASE p \in {"route", "message_action"} /\ \E place \in {"phase", "notify"} :
             Step(w, [worker[w] EXCEPT !.pc = place, !.phase = "work"])
  <2>1. "work" \in PhasesOf(row.kind)
    BY <1>3, InPhase DEF PhasesOf
  <2> QED
    BY <1>1, <1>2, <1>3, <2>1, InPhase, GoPhaseIInv DEF Phases
<1>4. CASE HandOverAndEnd(w) \/ HandOverAndLeave(w) \/ AskForReview(w)
  BY <1>1, <1>2, <1>4, HandOverIInv
<1>5. CASE Return(w)
  BY <1>1, <1>2, <1>5, ReturnIInv
<1>6. CASE \E place \in {"complete", "fail"}, out \in Outs :
             OutFits(place, out) /\ GoOut(w, place, out)
  BY <1>1, <1>2, <1>6, GoOutIInv DEF Place, OutFits
<1>7. CASE p = "work" /\ (row.dir = "automation" \/ row.kind = "message_action")
           /\ GoPhase(w, "persona")
  <2>1. Of(w) \in Turns /\ "work" \in PhasesOf(row.kind)
    BY <1>7, InPhase
  <2>2. row.kind \notin {"investigation_feedback", "investigation_reply"}
    BY <1>7, <2>1 DEF IInv, KindInv
  <2>3. "persona" \in PhasesOf(row.kind)
    BY <2>1, <2>2 DEF PhasesOf
  <2> QED
    BY <1>1, <1>2, <1>7, <2>3, InPhase, GoPhaseIInv DEF GoPhase, Phases
<1> QED
  BY <1>3, <1>4, <1>5, <1>6, <1>7 DEF AfterPhase, GoPhase, Outs, OutFits

\* A frame that goes on cancelling, with other runs to wait for
LEMMA CancelStep ==
  ASSUME IInv, NEW w \in Workers, worker[w].pc \in {"list", "recover"},
         RowsStay, OthersTyped, NEW left \in SUBSET Phases,
         Step(w, [worker[w] EXCEPT !.pc = "recover", !.left = left])
  PROVE  IInv'
<1> DEFINE f == [worker[w] EXCEPT !.pc = "recover", !.left = left]
<1>1. worker[w] \in Frame /\ FrameOK(worker[w], turn)
  BY DEF IInv, Typed, FramesInv
<1>2. f \in Frame /\ FrameOK(f, turn)
  BY <1>1 DEF Frame, FrameOK, Place, OutFits
<1> QED
  BY <1>2, WorkerStep DEF RowsStay, OthersTyped

LEMMA ListRunsIInv ==
  ASSUME IInv, NEW w \in Workers, ListRuns(w)
  PROVE  IInv'
<1>1. RowsStay /\ OthersTyped
  BY Unmoved DEF ListRuns
<1>2. {p \in CancelPhases : run[Of(w)][p] = "running"} \in SUBSET Phases
  BY DEF CancelPhases, Phases
<1> QED
  BY <1>1, <1>2, CancelStep DEF ListRuns, At

LEMMA SeeStoppedIInv ==
  ASSUME IInv, NEW w \in Workers, NEW p \in Phases, SeeStopped(w, p)
  PROVE  IInv'
<1>1. Of(w) \in Turns
  BY OfTurn DEF SeeStopped, At
<1>2. RowsStay /\ OthersTyped
  BY <1>1, RunTyped DEF SeeStopped, RowsStay, OthersTyped, RunStatus, IInv, Typed
<1> DEFINE left == worker[w].left \ {p}
<1>3. worker[w] \in Frame
  BY DEF IInv, Typed
<1>4. left \in SUBSET Phases
  BY <1>3 DEF Frame
<1>5. [worker[w] EXCEPT !.left = @ \ {p}] = [worker[w] EXCEPT !.pc = "recover", !.left = left]
  BY <1>3 DEF SeeStopped, At, Frame
<1> QED
  BY <1>2, <1>4, <1>5, CancelStep DEF SeeStopped, At

LEMMA PutOffIInv ==
  ASSUME IInv, NEW w \in Workers, PutOff(w)
  PROVE  IInv'
BY Unmoved, GoOutIInv DEF PutOff, At, Place, Outs, OutFits

------------------------------------------------------------------------------
(* Jobs, the gateway and the tools *)

LEMMA FramesKeep ==
  ASSUME IInv, UNCHANGED <<turn, worker>>
  PROVE  FramesInv'
BY FramesStay DEF IInv, RowMoves

\* Only the job is written
LEMMA JobStepIInv ==
  ASSUME IInv, UNCHANGED <<case, binding, turn, made, run, gateway, tool, worker>>,
         job' \in [Turns -> Job], used' \in [Faults -> Nat]
  PROVE  IInv'
BY CaseStays, KindStays, FramesKeep DEF IInv, Typed

LEMMA LeaseRunsOutIInv ==
  ASSUME IInv, NEW t \in Turns, LeaseRunsOut(t)
  PROVE  IInv'
BY JobTyped, JobStepIInv DEF LeaseRunsOut, IInv, Typed

LEMMA OwnerStallsIInv ==
  ASSUME IInv, NEW w \in Workers, OwnerStalls(w)
  PROVE  IInv'
<1>1. Of(w) \in Turns
  BY OfTurn DEF OwnerStalls, At
<1>2. job' \in [Turns -> Job] /\ used' \in [Faults -> Nat]
  BY <1>1, JobTyped, SpendType DEF OwnerStalls, Faults, IInv
<1> QED
  BY <1>2, JobStepIInv DEF OwnerStalls

LEMMA LaunchedGateway ==
  ASSUME IInv, NEW t \in Turns, NEW p
  PROVE  /\ Launched(t, p) \in [Turns -> [Phases -> GatewayStatus]]
         /\ \A u \in Turns : \/ Launched(t, p)[u]["route"] = gateway[u]["route"]
                             \/ u = t /\ p = "route"
<1> DEFINE new == [gateway EXCEPT ![t][p] = "running"]
<1>1. gateway \in [Turns -> [Phases -> GatewayStatus]]
  BY DEF IInv, Typed
<1>2. "running" \in GatewayStatus /\ "route" \in Phases
  BY DEF GatewayStatus, Phases
<1>3. new \in [Turns -> [Phases -> GatewayStatus]]
  BY <1>1, <1>2
<1>4. \A u \in Turns : new[u]["route"] = gateway[u]["route"] \/ (u = t /\ p = "route")
  BY <1>1, <1>2
<1> QED
  BY <1>1, <1>3, <1>4 DEF Launched

LEMMA LaunchIInv ==
  ASSUME IInv, NEW w \in Workers, Launch(w)
  PROVE  IInv'
<1> DEFINE t == Of(w)
           p == worker[w].phase
<1>1. worker[w].pc # "idle" /\ t \in Turns
  BY OfTurn DEF Launch, At
<1>2. gateway' \in {gateway, Launched(t, p)}
  BY DEF Launch
<1>3. gateway' \in [Turns -> [Phases -> GatewayStatus]]
  <2>1. gateway \in [Turns -> [Phases -> GatewayStatus]]
    BY DEF IInv, Typed
  <2> QED
    BY <1>1, <1>2, <2>1, LaunchedGateway
<1>4. KindInv'
  <2> SUFFICES ASSUME NEW u \in Turns, gateway'[u]["route"] # "none",
                      gateway[u]["route"] = "none"
               PROVE  NormalBegun(turn[u])
    BY KindStays DEF Launch, IInv
  <2>1. u = t /\ p = "route"
    BY <1>1, <1>2, LaunchedGateway
  <2>2. p \in PhasesOf(turn[t].kind) /\ turn[t].status \in BegunStatus
    BY <2>1, InPhase
  <2> QED
    BY <2>1, <2>2 DEF PhasesOf, NormalBegun
<1>5. \E f \in Frame : Step(w, f) /\ FrameOK(f, turn)
  <2>1. CASE Go(w, "record")
    BY <1>1, <2>1, Goes DEF Go, Place, OutFits
  <2>2. CASE GoOut(w, "fail", "lost") \/ GoOut(w, "fail", "failed")
    BY <1>1, <2>2, GoesOut DEF GoOut, Place, Outs, OutFits
  <2> QED
    BY <2>1, <2>2 DEF Launch
<1>6. worker' \in [Workers -> Frame] /\ FramesInv'
  BY <1>5, FrameStep DEF Launch, IInv, RowMoves
<1> QED
  BY <1>3, <1>4, <1>6, CaseStays DEF Launch, IInv, Typed

LEMMA GatewayEndsIInv ==
  ASSUME IInv, NEW t \in Turns, NEW p \in Phases, GatewayEnds(t, p)
  PROVE  IInv'
<1>1. gateway' \in [Turns -> [Phases -> GatewayStatus]]
  BY DEF GatewayEnds, GatewayStatus, IInv, Typed
<1>2. \A u \in Turns : gateway'[u]["route"] = "none" \/ gateway[u]["route"] # "none"
  BY DEF GatewayEnds, IInv, Typed, Phases
<1> QED
  BY <1>1, <1>2, CaseStays, KindStays, FramesKeep DEF GatewayEnds, IInv, Typed

LEMMA CallToolIInv ==
  ASSUME IInv, NEW t \in Turns, NEW x \in Tools, CallTool(t, x)
  PROVE  IInv'
<1>1. tool' \in [Turns -> Tools \cup {"none"}]
  BY DEF CallTool, IInv, Typed
<1>2. x = "direction" => NormalBegun(turn[t])
  <2> SUFFICES ASSUME x = "direction" PROVE gateway[t]["route"] # "none"
    BY DEF IInv, KindInv
  <2> QED
    BY DEF CallTool, Admitted
<1>3. KindInv'
  BY <1>2 DEF CallTool, KindInv, NormalBegun, IInv, Typed
<1> QED
  BY <1>1, <1>3, CaseStays, FramesKeep DEF CallTool, IInv, Typed

------------------------------------------------------------------------------
(* A transaction that writes one row of the case *)

Outdated(row) ==
    \/ row.status = "cancel_requested"
    \/ row.status \in {"superseded", "dropped"} /\ row.why = "revision"

\* What the row of t may become
RowFits(t, row) ==
    /\ row \in TurnRow
    /\ RowMoves(turn[t], row)
    /\ row.status \in {"pending", "running"} => row.rev = case.rev
    /\ Outdated(row) => row.rev < case.rev
    /\ row.status \in {"running", "cancel_requested"} =>
           \A u \in Turns \ {t} : ~Active(u)
    /\ row.res = "solved" => turn[t].res = "solved"
    /\ row.event = "comment" /\ row.status = "running" =>
           \A u \in Turns : turn[u].res # "solved"
    /\ row.source \in {turn[t].source, NoTurn} \/ (\A u \in Turns : turn[u].source # row.source)
    /\ row.status \in OpenedStatus => row.kind # "none"
    /\ row.kind \in {"investigation_feedback", "investigation_reply"} =>
           row.dir \in {"investigation", "human"}

\* The case is not unblocked
BindingFits ==
    /\ binding' \in Binding
    /\ binding.terminal \/ binding.escalated => binding'.terminal \/ binding'.escalated

LEMMA RowStep ==
  ASSUME IInv, case.rev # 0, case'.rev = case.rev, BindingFits,
         NEW t \in Turns, NEW row, RowFits(t, row), turn' = [turn EXCEPT ![t] = row]
  PROVE  /\ turn' \in [Turns -> TurnRow]
         /\ \A u \in Turns : RowMoves(turn[u], turn'[u])
         /\ CaseInv'
<1>1. turn \in [Turns -> TurnRow]
  BY DEF IInv, Typed
<1>2. turn' \in [Turns -> TurnRow]
  BY <1>1 DEF RowFits
<1>3. turn'[t] = row /\ \A u \in Turns : u # t => turn'[u] = turn[u]
  BY <1>1
<1>4. \A u \in Turns : RowMoves(turn[u], turn'[u])
  BY <1>3 DEF RowFits, RowMoves
<1>5. NewCaseInv'
  BY DEF NewCaseInv
<1>6. ActiveTurnIsCurrent'
  BY <1>3 DEF IInv, CaseInv, ActiveTurnIsCurrent, RowFits
<1>7. OnlyOutdatedIsCancelled'
  BY <1>3 DEF IInv, CaseInv, OnlyOutdatedIsCancelled, RowFits, Outdated
<1>8. OneActiveTurn'
  BY <1>3 DEF IInv, CaseInv, OneActiveTurn, Active, RowFits
<1>9. SolvedInv'
  BY <1>3 DEF IInv, CaseInv, SolvedInv, RowFits, BindingFits
<1>10. NoCustomerTurnAfterSolve'
  BY <1>3 DEF IInv, CaseInv, NoCustomerTurnAfterSolve, RowFits
<1>11. OneReplyPerReview'
  BY <1>3 DEF IInv, CaseInv, OneReplyPerReview, RowFits
<1> QED
  BY <1>2, <1>4, <1>5, <1>6, <1>7, <1>8, <1>9, <1>10, <1>11 DEF CaseInv

LEMMA RowKind ==
  ASSUME IInv, NEW t \in Turns, NEW row, RowFits(t, row), turn' = [turn EXCEPT ![t] = row],
         gateway' = gateway, \A u \in Turns : tool'[u] = "direction" => tool[u] = "direction"
  PROVE  KindInv'
<1>1. turn \in [Turns -> TurnRow]
  BY DEF IInv, Typed
<1>2. turn'[t] = row /\ \A u \in Turns : u # t => turn'[u] = turn[u]
  BY <1>1
<1>3. NormalBegun(turn[t]) => NormalBegun(row)
  BY DEF NormalBegun, RowFits, RowMoves
<1> QED
  BY <1>2, <1>3 DEF IInv, KindInv, RowFits

\* No process moves
LEMMA RowIInv ==
  ASSUME IInv, case.rev # 0, BindingFits, NEW t \in Turns, NEW row, RowFits(t, row),
         turn' = [turn EXCEPT ![t] = row], made' \in Seq(Turns), job' \in [Turns -> Job],
         tool' \in [Turns -> Tools \cup {"none"}],
         \A u \in Turns : tool'[u] = "direction" => tool[u] = "direction",
         case' \in [rev : Nat, closed : BOOLEAN], case'.rev = case.rev,
         UNCHANGED <<run, gateway, worker, used>>
  PROVE  IInv'
<1>1. CaseInv' /\ KindInv'
  BY RowStep, RowKind
<1>2. FramesInv'
  BY RowStep, FramesStay DEF IInv
<1> QED
  BY <1>1, <1>2, RowStep DEF IInv, Typed, BindingFits

\* The process that writes the row moves on
LEMMA RowWorkerIInv ==
  ASSUME IInv, case.rev # 0, BindingFits, NEW t \in Turns, NEW row, RowFits(t, row),
         turn' = [turn EXCEPT ![t] = row], OthersTyped,
         NEW w \in Workers, NEW f \in Frame, Step(w, f), FrameOK(f, turn'),
         UNCHANGED <<case, made, gateway, tool>>
  PROVE  IInv'
<1>1. CaseInv' /\ KindInv'
  BY RowStep, RowKind
<1>2. worker' \in [Workers -> Frame] /\ FramesInv'
  BY RowStep, FrameStep DEF IInv
<1> QED
  BY <1>1, <1>2, RowStep DEF IInv, Typed, BindingFits, OthersTyped

\* The direction or the action of a turn is written
LEMMA KeptFits ==
  ASSUME IInv, NEW t \in Turns, NEW dir \in Directions \cup {"none"},
         NEW act \in {"none", "handoff", "continue", "answer", "reply"},
         turn[t].kind \in {"investigation_feedback", "investigation_reply"} =>
             dir \in {"investigation", "human"}
  PROVE  RowFits(t, [turn[t] EXCEPT !.dir = dir, !.act = act])
<1> DEFINE row == [turn[t] EXCEPT !.dir = dir, !.act = act]
<1>1. turn[t] \in TurnRow
  BY DEF IInv, Typed
<1>2. row \in TurnRow
  BY <1>1 DEF TurnRow
<1>3. /\ row.status = turn[t].status /\ row.rev = turn[t].rev /\ row.why = turn[t].why
      /\ row.res = turn[t].res /\ row.event = turn[t].event
      /\ row.source = turn[t].source /\ row.kind = turn[t].kind /\ row.dir = dir
  BY <1>1 DEF TurnRow
<1>9. RowMoves(turn[t], row)
  BY <1>3 DEF RowMoves
<1> HIDE DEF row
<1>4. Outdated(row) => row.rev < case.rev
  BY <1>3 DEF Outdated, IInv, CaseInv, OnlyOutdatedIsCancelled
<1>5. row.status \in {"running", "cancel_requested"} => \A u \in Turns \ {t} : ~Active(u)
  BY <1>3 DEF IInv, CaseInv, OneActiveTurn, Active
<1>6. row.event = "comment" /\ row.status = "running" =>
          \A u \in Turns : turn[u].res # "solved"
  BY <1>3 DEF IInv, CaseInv, NoCustomerTurnAfterSolve
<1>7. row.status \in {"pending", "running"} => row.rev = case.rev
  BY <1>3 DEF IInv, CaseInv, ActiveTurnIsCurrent
<1>8. row.status \in OpenedStatus => row.kind # "none"
  BY <1>3 DEF IInv, KindInv
<1>10. RowFits(t, row)
  BY <1>2, <1>3, <1>4, <1>5, <1>6, <1>7, <1>8, <1>9 DEF RowFits
<1> QED
  BY <1>10 DEF row

\* A turn ends
LEMMA EndFits ==
  ASSUME IInv, NEW t \in Turns, turn[t].status \in Live, NEW status \in Ended,
         NEW why \in {"none", "revision", "blocked"},
         status = "superseded" /\ why = "revision" => turn[t].rev < case.rev,
         NEW res \in {"none", "done", "review", "solved"},
         res = "solved" => turn[t].res = "solved"
  PROVE  RowFits(t, [turn[t] EXCEPT !.status = status, !.why = why, !.res = res])
<1> DEFINE row == [turn[t] EXCEPT !.status = status, !.why = why, !.res = res]
<1>1. turn[t] \in TurnRow /\ status \in Status
  BY DEF IInv, Typed, Status
<1>2. row \in TurnRow
  BY <1>1 DEF TurnRow
<1>3. /\ row.status = status /\ row.rev = turn[t].rev /\ row.why = why /\ row.res = res
      /\ row.source = turn[t].source /\ row.kind = turn[t].kind /\ row.dir = turn[t].dir
  BY <1>1 DEF TurnRow
<1>4. RowMoves(turn[t], row)
  BY <1>3 DEF RowMoves, BegunStatus, LateStatus
<1>5. row.status \notin Live /\ (Outdated(row) => row.rev < case.rev)
  BY <1>3 DEF Outdated, Live, Ended
<1>6. row.kind # "none"
  BY <1>3 DEF IInv, KindInv, OpenedStatus
<1>7. row.kind \in {"investigation_feedback", "investigation_reply"} =>
          row.dir \in {"investigation", "human"}
  BY <1>3 DEF IInv, KindInv
<1> QED
  BY <1>2, <1>3, <1>4, <1>5, <1>6, <1>7 DEF RowFits, Live

LEMMA CaseIsNew ==
  ASSUME IInv, NEW t \in Turns, turn[t].status # "none"
  PROVE  case.rev # 0
BY DEF IInv, CaseInv, NewCaseInv

\* Where a process goes after it has written the row of its turn
LEMMA RowGoes ==
  ASSUME IInv, NEW w \in Workers, worker[w].pc # "idle",
         NEW place \in Place \ {"list", "recover"}, NEW out \in Outs, OutFits(place, out), NEW rows,
         \A t \in Turns : RowMoves(turn[t], rows[t])
  PROVE  LET f == [worker[w] EXCEPT !.pc = place, !.out = out]
         IN  f \in Frame /\ FrameOK(f, rows)
<1>1. worker[w] \in Frame /\ FrameOK(worker[w], turn)
  BY DEF IInv, Typed, FramesInv
<1> QED
  BY <1>1 DEF Frame, FrameOK, Of, Outs, RowMoves

LEMMA SameBinding ==
  ASSUME IInv, UNCHANGED binding
  PROVE  BindingFits
BY DEF IInv, Typed, BindingFits

\* A process ends its turn, or finds it over, and returns
LEMMA EndAndReturn ==
  ASSUME IInv, NEW w \in Workers, worker[w].pc # "idle", Return(w), OthersTyped,
         NEW row, turn' = [turn EXCEPT ![Of(w)] = row],
         turn[Of(w)].status \in Live, RowFits(Of(w), row),
         UNCHANGED <<case, binding, made, gateway, tool>>
  PROVE  IInv'
<1> DEFINE f == [worker[w] EXCEPT !.pc = "settle", !.out = "end"]
<1>1. Of(w) \in Turns
  BY OfTurn
<1>2. case.rev # 0
  BY <1>1, CaseIsNew DEF Live
<1>3. f \in Frame /\ FrameOK(f, turn')
  BY <1>1, <1>2, SameBinding, RowStep, RowGoes DEF Place, Outs, OutFits
<1> QED
  BY <1>1, <1>2, <1>3, SameBinding, RowWorkerIInv DEF Return, GoOut

------------------------------------------------------------------------------
(* The steps of a process that write its turn or the binding *)

\* The row is left alone after all, and the process returns
LEMMA OnlyReturns ==
  ASSUME IInv, NEW w \in Workers, worker[w].pc # "idle", Return(w), OthersTyped,
         UNCHANGED <<case, binding, turn, made, gateway, tool>>
  PROVE  IInv'
BY ReturnIInv DEF RowsStay

LEMMA StaysTyped ==
  ASSUME IInv, UNCHANGED <<run, job, used>>
  PROVE  OthersTyped
BY DEF IInv, Typed, OthersTyped

LEMMA RefuseSnapshotIInv ==
  ASSUME IInv, NEW w \in Workers, RefuseSnapshot(w)
  PROVE  IInv'
<1> DEFINE t == Of(w)
           row == [turn[t] EXCEPT !.status = "failed", !.why = turn[t].why, !.res = turn[t].res]
<1>1. worker[w].pc # "idle" /\ t \in Turns /\ OthersTyped /\ turn[t] \in TurnRow
  BY OfTurn, StaysTyped DEF RefuseSnapshot, At, IInv, Typed
<1>2. CASE turn[t].status \in {"pending", "running"}
  <2>1. RowFits(t, row)
    BY <1>1, <1>2, EndFits DEF Live, Ended, TurnRow
  <2>2. turn' = [turn EXCEPT ![t] = row]
    BY <1>1, <1>2 DEF RefuseSnapshot, TurnRow
  <2> QED
    BY <1>1, <1>2, <2>1, <2>2, EndAndReturn DEF RefuseSnapshot, Live
<1>3. CASE turn[t].status \notin {"pending", "running"}
  BY <1>1, <1>3, OnlyReturns DEF RefuseSnapshot
<1> QED
  BY <1>2, <1>3

LEMMA CompleteIInv ==
  ASSUME IInv, NEW w \in Workers, Complete(w)
  PROVE  IInv'
<1> DEFINE t == Of(w)
           row == [turn[t] EXCEPT !.status = "completed", !.why = turn[t].why,
                                  !.res = worker[w].out]
<1>1. worker[w].pc # "idle" /\ t \in Turns /\ OthersTyped /\ turn[t] \in TurnRow
  BY OfTurn, StaysTyped DEF Complete, At, IInv, Typed
<1> worker[w].out \in {"done", "review"}
  BY DEF Complete, At, IInv, FramesInv, FrameOK, OutFits
<1>2. CASE turn[t].status = "running"
  <2>1. RowFits(t, row)
    BY <1>1, <1>2, EndFits DEF Live, Ended, TurnRow
  <2>2. turn' = [turn EXCEPT ![t] = row]
    BY <1>1, <1>2 DEF Complete, TurnRow
  <2> QED
    BY <1>1, <1>2, <2>1, <2>2, EndAndReturn DEF Complete, Live
<1>3. CASE turn[t].status # "running"
  BY <1>1, <1>3, OnlyReturns DEF Complete
<1> QED
  BY <1>2, <1>3

LEMMA SupersedeIInv ==
  ASSUME IInv, NEW w \in Workers, Supersede(w)
  PROVE  IInv'
<1> DEFINE t == Of(w)
           row == [turn[t] EXCEPT !.status = "superseded", !.why = "revision",
                                  !.res = turn[t].res]
<1>1. worker[w].pc # "idle" /\ t \in Turns /\ OthersTyped /\ turn[t] \in TurnRow
  BY OfTurn, StaysTyped DEF Supersede, At, IInv, Typed
<1>2. turn[t].status \in LateStatus
  BY DEF Supersede, At, Of, IInv, FramesInv, FrameOK
<1>3. CASE turn[t].status \in Live
  <2>1. turn[t].status = "cancel_requested"
    BY <1>2, <1>3 DEF LateStatus, Live, Ended
  <2>2. turn[t].rev < case.rev
    BY <1>1, <2>1 DEF IInv, CaseInv, OnlyOutdatedIsCancelled
  <2>3. RowFits(t, row)
    BY <1>1, <1>3, <2>2, EndFits DEF Ended, TurnRow
  <2>4. turn' = [turn EXCEPT ![t] = row]
    BY <1>1, <1>3 DEF Supersede, TurnRow
  <2> QED
    BY <1>1, <1>3, <2>3, <2>4, EndAndReturn DEF Supersede
<1>4. CASE turn[t].status \notin Live
  BY <1>1, <1>4, OnlyReturns DEF Supersede
<1> QED
  BY <1>3, <1>4

LEMMA StartIInv ==
  ASSUME IInv, NEW w \in Workers, Start(w)
  PROVE  IInv'
<1> DEFINE t == Of(w)
           old == turn[t]
<1>1. worker[w].pc # "idle" /\ t \in Turns /\ OthersTyped /\ old \in TurnRow
  BY OfTurn, StaysTyped DEF Start, At, IInv, Typed
<1>2. CASE old.status # "pending" /\ Return(w) /\ UNCHANGED turn
  BY <1>1, <1>2, OnlyReturns DEF Start
<1>3. CASE old.status = "pending" /\ turn' = [turn EXCEPT ![t] =
               [old EXCEPT !.status = "superseded", !.why = "blocked"]] /\ Return(w)
  <2> DEFINE row == [old EXCEPT !.status = "superseded", !.why = "blocked", !.res = old.res]
  <2>1. RowFits(t, row)
    BY <1>1, <1>3, EndFits DEF Live, Ended, TurnRow
  <2>2. turn' = [turn EXCEPT ![t] = row]
    BY <1>1, <1>3 DEF TurnRow
  <2> QED
    BY <1>1, <1>3, <2>1, <2>2, EndAndReturn DEF Start, Live
<1>4. CASE GoOut(w, "settle", "defer") /\ UNCHANGED turn
  BY <1>1, <1>4, GoOutIInv DEF Start, RowsStay, Place, Outs, OutFits
<1>5. CASE /\ old.status = "pending" /\ ~(old.event = "comment" /\ Blocked) /\ ~Conflict(t)
           /\ SetTurn(t, StartedRow(old)) /\ EnterPhases(w, StartedRow(old))
  <2> DEFINE row == StartedRow(old)
             f == [worker[w] EXCEPT !.phase = FirstPhase(row.kind),
                       !.pc = IF row.kind = "investigation_feedback" /\ row.event = "comment"
                              THEN "notify" ELSE "phase"]
  <2>1. /\ row \in TurnRow /\ row.status = "running" /\ row.rev = old.rev
        /\ row.res = old.res /\ row.event = old.event /\ row.source = old.source
        /\ row.kind \in {old.kind, "investigation_feedback"}
        /\ row.kind # old.kind => row.dir = "investigation"
        /\ row.kind = old.kind => row.dir \in {old.dir, "investigation"}
    BY <1>1 DEF StartedRow, TurnRow, Status, Live, Kinds, Directions
  <2>2. old.rev = case.rev /\ old.kind # "none" /\ case.rev # 0
    BY <1>1, <1>5, CaseIsNew DEF IInv, CaseInv, ActiveTurnIsCurrent, KindInv, OpenedStatus, Live
  <2>3. RowMoves(old, row)
    BY <1>5, <2>1 DEF RowMoves, BegunStatus, LateStatus, Ended
  <2>4. \A u \in Turns \ {t} : ~Active(u)
    BY <1>5 DEF Conflict
  <2>5. row.event = "comment" => \A u \in Turns : turn[u].res # "solved"
    BY <1>5, <2>1 DEF Blocked, IInv, CaseInv, SolvedInv
  <2>6. row.kind \in {"investigation_feedback", "investigation_reply"} =>
            row.dir \in {"investigation", "human"}
    BY <1>1, <2>1 DEF IInv, KindInv
  <2>7. RowFits(t, row)
    BY <2>1, <2>2, <2>3, <2>4, <2>5, <2>6 DEF RowFits, Outdated
  <2>8. row.kind \in Kinds
    BY <1>1, <2>1, <2>2 DEF TurnRow, Kinds
  <2>9. worker[w] \in Frame /\ FrameOK(worker[w], turn) /\ turn \in [Turns -> TurnRow]
    BY DEF IInv, Typed, FramesInv
  <2>10. turn' = [turn EXCEPT ![t] = row] /\ turn'[t] = row
    BY <1>1, <1>5, <2>9 DEF SetTurn
  <2>11. row.status \in BegunStatus
    BY <2>1 DEF BegunStatus
  <2>12. f \in Frame /\ FrameOK(f, turn')
    <3>1. FirstPhase(row.kind) \in Phases /\ FirstPhase(row.kind) \in PhasesOf(row.kind)
      BY <2>8, FirstPhaseOK
    <3>2. f \in Frame
      BY <2>9, <3>1 DEF Frame, Place
    <3>3. f.turn = t /\ f.phase = FirstPhase(row.kind) /\ f.pc \in {"notify", "phase"}
      BY <1>1, <2>9 DEF Frame, Of
    <3> QED
      BY <1>1, <2>10, <2>11, <3>1, <3>2, <3>3 DEF FrameOK, OutFits
  <2>13. Step(w, f)
    BY <1>5 DEF EnterPhases
  <2> QED
    BY <1>1, <2>2, <2>7, <2>10, <2>12, <2>13, SameBinding, RowWorkerIInv DEF Start
<1> QED
  BY <1>2, <1>3, <1>4, <1>5 DEF Start, SetTurn

\* Only the binding is written
LEMMA BindingStep ==
  ASSUME IInv, BindingFits, binding'.exists = binding.exists,
         case'.rev = case.rev, UNCHANGED turn
  PROVE  CaseInv'
BY DEF IInv, CaseInv, NewCaseInv, ActiveTurnIsCurrent, OnlyOutdatedIsCancelled, OneActiveTurn,
       SolvedInv, NoCustomerTurnAfterSolve, OneReplyPerReview, Active, BindingFits

LEMMA HandedOverFits ==
  ASSUME IInv, binding' = HandedOver
  PROVE  BindingFits /\ binding'.exists = binding.exists
BY DEF IInv, Typed, Binding, HandedOver, BindingFits, Directions

LEMMA DirectedFits ==
  ASSUME IInv, NEW dir \in Directions, binding' = [binding EXCEPT !.dir = dir]
  PROVE  BindingFits /\ binding'.exists = binding.exists
BY DEF IInv, Typed, Binding, BindingFits

LEMMA HandoverIInv ==
  ASSUME IInv, NEW w \in Workers, Handover(w)
  PROVE  IInv'
<1>1. worker[w].pc # "idle" /\ worker[w].out \in {"done", "leave"}
  BY DEF Handover, At, IInv, FramesInv, FrameOK, OutFits
<1>2. \E f \in Frame : Step(w, f) /\ FrameOK(f, turn)
  <2>1. CASE Return(w)
    BY <1>1, <2>1, GoesOut DEF Return, GoOut, Place, Outs, OutFits
  <2>2. CASE worker[w].out = "done" /\ Go(w, "complete")
    BY <1>1, <2>2, Goes DEF Go, Place, OutFits
  <2> QED
    BY <1>1, <2>1, <2>2 DEF Handover
<1>3. worker' \in [Workers -> Frame] /\ FramesInv'
  BY <1>2, FrameStep DEF Handover, IInv, RowMoves
<1>4. BindingFits /\ CaseInv'
  BY HandedOverFits, BindingStep DEF Handover
<1>5. KindInv'
  BY KindStays DEF Handover, IInv
<1> QED
  BY <1>3, <1>4, <1>5 DEF Handover, IInv, Typed, BindingFits

LEMMA FailIInv ==
  ASSUME IInv, NEW w \in Workers, Fail(w)
  PROVE  IInv'
<1> DEFINE t == Of(w)
           p == worker[w].phase
           status == IF worker[w].out = "lost" THEN "unknown" ELSE "failed"
           row == [turn[t] EXCEPT !.status = status, !.why = turn[t].why, !.res = turn[t].res]
<1>1. worker[w].pc # "idle" /\ t \in Turns /\ turn[t] \in TurnRow
  BY OfTurn DEF Fail, At, IInv, Typed
<1>2. OthersTyped
  <2>1. run' = run \/ run' = [run EXCEPT ![t][p] = "ended"]
    BY DEF Fail, RunEnded
  <2>2. "ended" \in RunStatus /\ run \in [Turns -> [Phases -> RunStatus]]
    BY DEF RunStatus, IInv, Typed
  <2>3. [run EXCEPT ![t][p] = "ended"] \in [Turns -> [Phases -> RunStatus]]
    BY <1>1, <2>2, RunTyped
  <2> QED
    BY <2>1, <2>2, <2>3 DEF Fail, OthersTyped, IInv, Typed
<1>3. CASE ~Failable(turn[t])
  BY <1>1, <1>2, <1>3, OnlyReturns DEF Fail
<1>4. CASE Failable(turn[t])
  <2>1. turn[t].status \in Live /\ case.rev # 0
    BY <1>1, <1>4, CaseIsNew DEF Failable, Live
  <2>2. RowFits(t, row)
    <3>1. status \in Ended /\ status # "superseded"
      BY DEF Ended
    <3>2. turn[t].why \in {"none", "revision", "blocked"}
          /\ turn[t].res \in {"none", "done", "review", "solved"}
      BY <1>1 DEF TurnRow
    <3> HIDE DEF status
    <3> QED
      BY <1>1, <2>1, <3>1, <3>2, EndFits
  <2>3. turn' = [turn EXCEPT ![t] = row]
    <3>1. row = [turn[t] EXCEPT !.status = status]
      BY <1>1 DEF TurnRow
    <3>2. turn' = [turn EXCEPT ![t].status = status]
      BY <1>4 DEF Fail
    <3> QED
      BY <3>1, <3>2
  <2>4. \A u \in Turns : RowMoves(turn[u], turn'[u])
    BY <1>1, <2>1, <2>2, <2>3, SameBinding, RowStep DEF Fail
  <2>5. \E f \in Frame : Step(w, f) /\ FrameOK(f, turn')
    <3>1. GoOut(w, "handover", "leave") \/ GoOut(w, "settle", "end")
      BY <1>4 DEF Fail, Return
    <3> QED
      BY <1>1, <2>4, <3>1, RowGoes DEF GoOut, Place, Outs, OutFits
  <2> QED
    BY <1>1, <1>2, <2>1, <2>2, <2>3, <2>5, SameBinding, RowWorkerIInv DEF Fail
<1> QED
  BY <1>3, <1>4

LEMMA PromptMissingIInv ==
  ASSUME IInv, NEW w \in Workers, PromptMissing(w)
  PROVE  IInv'
<1> DEFINE t == Of(w)
           row == [turn[t] EXCEPT !.dir = "human", !.act = turn[t].act]
<1>1. worker[w].pc # "idle" /\ t \in Turns /\ turn[t] \in TurnRow
  BY OfTurn DEF PromptMissing, At, IInv, Typed
<1>2. OthersTyped
  BY SpendType DEF PromptMissing, Faults, OthersTyped, IInv, Typed
<1>3. CASE turn[t].status \notin Live
  BY <1>1, <1>2, <1>3, OnlyReturns DEF PromptMissing
<1>4. CASE turn[t].status \in Live
  <2>1. case.rev # 0
    BY <1>1, <1>4, CaseIsNew DEF Live
  <2>2. RowFits(t, row)
    <3>1. turn[t].act \in {"none", "handoff", "continue", "answer", "reply"}
          /\ "human" \in Directions
      BY <1>1 DEF TurnRow, Directions
    <3> QED
      BY <1>1, <3>1, KeptFits
  <2>3. turn' = [turn EXCEPT ![t] = row]
    <3>1. row = [turn[t] EXCEPT !.dir = "human"]
      BY <1>1 DEF TurnRow
    <3>2. turn' = [turn EXCEPT ![t].dir = "human"]
      BY <1>4 DEF PromptMissing
    <3> QED
      BY <3>1, <3>2
  <2>4. BindingFits
    BY <1>4, DirectedFits DEF PromptMissing, Directions
  <2>5. \A u \in Turns : RowMoves(turn[u], turn'[u])
    BY <1>1, <2>1, <2>2, <2>3, <2>4, RowStep DEF PromptMissing
  <2>6. \E f \in Frame : Step(w, f) /\ FrameOK(f, turn')
    BY <1>1, <1>4, <2>5, RowGoes
       DEF PromptMissing, HandOverAndEnd, GoOut, Place, Outs, OutFits
  <2> QED
    BY <1>1, <1>2, <2>1, <2>2, <2>3, <2>4, <2>6, RowWorkerIInv DEF PromptMissing
<1> QED
  BY <1>3, <1>4

\* A message action is classified, and handed over or not
LEMMA ClassifiedIInv ==
  ASSUME IInv, NEW w \in Workers, worker[w].pc # "idle", Go(w, "after"), OthersTyped,
         NEW t \in Turns, turn[t].status \in Live, BindingFits,
         NEW dir \in {turn[t].dir, "human"},
         NEW act \in {"none", "handoff", "continue", "answer", "reply"},
         turn' = [turn EXCEPT ![t] = [turn[t] EXCEPT !.dir = dir, !.act = act]],
         UNCHANGED <<case, made, gateway, tool>>
  PROVE  IInv'
<1> DEFINE row == [turn[t] EXCEPT !.dir = dir, !.act = act]
           f == [worker[w] EXCEPT !.pc = "after", !.out = worker[w].out]
<1>1. case.rev # 0 /\ turn[t] \in TurnRow /\ worker[w] \in Frame
  BY CaseIsNew DEF Live, IInv, Typed
<1>2. dir \in Directions \cup {"none"}
  BY <1>1 DEF TurnRow, Directions
<1>3. RowFits(t, row)
  BY <1>2, KeptFits DEF IInv, KindInv
<1>4. \A u \in Turns : RowMoves(turn[u], turn'[u])
  BY <1>1, <1>3, RowStep
<1>5. f \in Frame /\ FrameOK(f, turn')
  <2>1. worker[w].out \in Outs /\ OutFits("after", worker[w].out)
    BY <1>1 DEF Frame, Outs, OutFits
  <2> QED
    BY <1>4, <2>1, RowGoes DEF Place
<1>6. Step(w, f)
  BY <1>1 DEF Go, Frame
<1> QED
  BY <1>1, <1>3, <1>5, <1>6, RowWorkerIInv

LEMMA PollCompletedIInv ==
  ASSUME IInv, NEW w \in Workers, PollCompleted(w)
  PROVE  IInv'
<1> DEFINE t == Of(w)
           p == worker[w].phase
<1>1. worker[w].pc # "idle" /\ t \in Turns /\ turn[t] \in TurnRow /\ turn \in [Turns -> TurnRow]
  BY OfTurn DEF PollCompleted, At, IInv, Typed
<1>2. OthersTyped
  BY <1>1, RunTyped DEF PollCompleted, RunCompleted, OthersTyped, RunStatus, IInv, Typed
<1>3. CASE Go(w, "after") /\ UNCHANGED <<turn, binding>>
  BY <1>1, <1>2, <1>3, GoIInv DEF PollCompleted, RowsStay, Place, OutFits
<1>4. CASE turn[t].status \in Live /\ Go(w, "after") /\ UNCHANGED binding
           /\ \E act \in {"continue", "answer", "reply"} : turn' = Classified(t, act)
  <2> PICK act \in {"continue", "answer", "reply"} : turn' = Classified(t, act)
    BY <1>4
  <2>1. turn' = [turn EXCEPT ![t] = [turn[t] EXCEPT !.dir = turn[t].dir, !.act = act]]
    BY <1>1 DEF Classified, TurnRow
  <2> QED
    BY <1>1, <1>2, <1>4, <2>1, SameBinding, ClassifiedIInv DEF PollCompleted
<1>5. CASE turn[t].status \in Live /\ Go(w, "after")
           /\ turn' = [Classified(t, "handoff") EXCEPT ![t].dir = "human"]
           /\ binding' = [binding EXCEPT !.dir = "human"]
  <2>1. turn' = [turn EXCEPT ![t] = [turn[t] EXCEPT !.dir = "human", !.act = "handoff"]]
    BY <1>1, <1>5 DEF Classified, TurnRow
  <2>2. BindingFits
    BY <1>5, DirectedFits DEF Directions
  <2> QED
    BY <1>1, <1>2, <1>5, <2>1, <2>2, ClassifiedIInv DEF PollCompleted
<1>6. CASE Return(w) /\ UNCHANGED <<turn, binding>>
  BY <1>1, <1>2, <1>6, OnlyReturns DEF PollCompleted
<1> QED
  BY <1>3, <1>4, <1>5, <1>6 DEF PollCompleted

------------------------------------------------------------------------------
(* Events and turns *)

LEMMA CaseTyped ==
  ASSUME IInv, NEW closed \in BOOLEAN
  PROVE  LET c == [case EXCEPT !.closed = closed]
         IN  c \in [rev : Nat, closed : BOOLEAN] /\ c.rev = case.rev
BY DEF IInv, Typed

LEMMA IntakeBinding ==
  ASSUME IInv, NEW closed \in BOOLEAN, binding' = BindingAfterIntake(closed)
  PROVE  BindingFits /\ binding'.exists = binding.exists
BY DEF IInv, Typed, Binding, BindingAfterIntake, BindingFits

LEMMA ArrivedTyped ==
  ASSUME NEW event \in {"created", "comment"}, NEW rev \in Nat
  PROVE  LET row == Arrived(event, rev)
         IN  /\ row \in TurnRow /\ row.status = "routing" /\ row.rev = rev
             /\ row.res = "none" /\ row.source = NoTurn /\ row.kind = "none"
BY DEF Arrived, NoRow, TurnRow, Status, Events, Live, Ended

LEMMA AcceptFirstIInv ==
  ASSUME IInv, NEW t \in Turns, NEW event \in {"created", "comment"}, NEW closed \in BOOLEAN,
         AcceptFirst(t, event, closed)
  PROVE  IInv'
<1> DEFINE row == Arrived(event, 1)
<1>1. turn \in [Turns -> TurnRow] /\ turn' = [turn EXCEPT ![t] = row]
  BY DEF AcceptFirst, SetTurn, IInv, Typed
<1>2. row \in TurnRow /\ row.status = "routing" /\ row.res = "none" /\ row.source = NoTurn
      /\ row.kind = "none"
  BY ArrivedTyped
<1>3. case' = [rev |-> 1, closed |-> closed] /\ \A u \in Turns : turn[u].status = "none"
  BY DEF AcceptFirst, IInv, CaseInv, NewCaseInv
<1>4. turn'[t] = row /\ \A u \in Turns : u # t => turn'[u] = turn[u]
  BY <1>1
<1>5. \A u \in Turns : turn'[u].status \in {"none", "routing"}
  BY <1>2, <1>3, <1>4
<1>6. CaseInv'
  <2>1. NewCaseInv' /\ ActiveTurnIsCurrent' /\ OnlyOutdatedIsCancelled' /\ OneActiveTurn'
        /\ NoCustomerTurnAfterSolve'
    BY <1>3, <1>5 DEF NewCaseInv, ActiveTurnIsCurrent, OnlyOutdatedIsCancelled, OneActiveTurn,
                      Active, NoCustomerTurnAfterSolve
  <2>2. SolvedInv'
    BY <1>2, <1>4 DEF AcceptFirst, IInv, CaseInv, SolvedInv
  <2>3. OneReplyPerReview'
    BY <1>2, <1>4 DEF IInv, CaseInv, OneReplyPerReview
  <2> QED
    BY <2>1, <2>2, <2>3 DEF CaseInv
<1>7. \A u \in Turns : RowMoves(turn[u], turn'[u])
  BY <1>3 DEF RowMoves, BegunStatus, LateStatus, Ended
<1>8. KindInv'
  BY <1>2, <1>3, <1>4 DEF AcceptFirst, IInv, KindInv, NormalBegun, OpenedStatus, BegunStatus,
                          Live, Ended
<1>9. FramesInv'
  BY <1>7, FramesStay DEF AcceptFirst, IInv
<1> QED
  BY <1>1, <1>2, <1>3, <1>6, <1>8, <1>9 DEF AcceptFirst, IInv, Typed

\* A row nobody has begun is replaced by one that waits to be routed
LEMMA ArrivedFits ==
  ASSUME IInv, NEW t \in Turns, turn[t].status = "none", NEW event \in {"created", "comment"}
  PROVE  RowFits(t, Arrived(event, case.rev))
<1>1. case.rev \in Nat
  BY DEF IInv, Typed
<1> QED
  BY <1>1, ArrivedTyped
     DEF RowFits, RowMoves, Outdated, OpenedStatus, BegunStatus, LateStatus, Live, Ended

LEMMA AcceptCreatedLateIInv ==
  ASSUME IInv, NEW t \in Turns, NEW closed \in BOOLEAN, AcceptCreatedLate(t, closed)
  PROVE  IInv'
<1>1. RowFits(t, Arrived("created", case.rev))
  BY ArrivedFits DEF AcceptCreatedLate
<1>2. case.rev # 0
  BY DEF AcceptCreatedLate, IInv, Typed
<1>3. BindingFits
  BY IntakeBinding DEF AcceptCreatedLate
<1>4. case' \in [rev : Nat, closed : BOOLEAN] /\ case'.rev = case.rev
  BY CaseTyped DEF AcceptCreatedLate
<1>5. /\ turn' = [turn EXCEPT ![t] = Arrived("created", case.rev)]
      /\ UNCHANGED <<made, job, tool, run, gateway, worker, used>>
  BY DEF AcceptCreatedLate, SetTurn
<1>6. made \in Seq(Turns) /\ job \in [Turns -> Job] /\ tool \in [Turns -> Tools \cup {"none"}]
  BY DEF IInv, Typed
<1> QED
  BY <1>1, <1>2, <1>3, <1>4, <1>5, <1>6, RowIInv

LEMMA AcceptUpdateIInv ==
  ASSUME IInv, NEW closed \in BOOLEAN, AcceptUpdate(closed)
  PROVE  IInv'
<1>1. BindingFits /\ binding'.exists = binding.exists
  BY IntakeBinding DEF AcceptUpdate
<1>2. case' \in [rev : Nat, closed : BOOLEAN] /\ case'.rev = case.rev
  BY CaseTyped DEF AcceptUpdate
<1>3. CaseInv'
  BY <1>1, <1>2, BindingStep DEF AcceptUpdate
<1>4. used' \in [Faults -> Nat]
  BY SpendType DEF AcceptUpdate, Faults, IInv
<1>5. KindInv' /\ FramesInv'
  BY KindStays, FramesKeep DEF AcceptUpdate, IInv
<1> QED
  BY <1>1, <1>2, <1>3, <1>4, <1>5 DEF AcceptUpdate, IInv, Typed, BindingFits

\* What a comment does to the other turns of the case
LEMMA CancelledRow ==
  ASSUME NEW r \in TurnRow
  PROVE  LET s == CancelledBy(r)
         IN  /\ s \in TurnRow /\ RowMoves(r, s) /\ s.status \notin {"pending", "running"}
             /\ s.status = "cancel_requested" => r.status \in {"running", "cancel_requested"}
             /\ Outdated(s) => Outdated(r) \/ r.status \in {"pending", "running"}
             /\ s.rev = r.rev /\ s.res = r.res /\ s.source = r.source
             /\ s.kind = r.kind /\ s.dir = r.dir
             /\ s.status \in OpenedStatus => r.status \in OpenedStatus
<1>1. CASE r.status = "pending"
  <2>1. /\ CancelledBy(r) \in TurnRow /\ CancelledBy(r).status = "superseded"
        /\ CancelledBy(r).rev = r.rev /\ CancelledBy(r).res = r.res
        /\ CancelledBy(r).source = r.source
        /\ CancelledBy(r).kind = r.kind /\ CancelledBy(r).dir = r.dir
    BY <1>1 DEF CancelledBy, TurnRow, Status, Ended
  <2> QED
    BY <1>1, <2>1 DEF RowMoves, Outdated, BegunStatus, LateStatus, OpenedStatus, Live, Ended
<1>2. CASE r.status = "running"
  <2>1. /\ CancelledBy(r) \in TurnRow /\ CancelledBy(r).status = "cancel_requested"
        /\ CancelledBy(r).rev = r.rev /\ CancelledBy(r).res = r.res
        /\ CancelledBy(r).source = r.source
        /\ CancelledBy(r).kind = r.kind /\ CancelledBy(r).dir = r.dir
    BY <1>2 DEF CancelledBy, TurnRow, Status, Live
  <2> QED
    BY <1>2, <2>1 DEF RowMoves, Outdated, BegunStatus, LateStatus, OpenedStatus, Live, Ended
<1>3. CASE r.status \notin {"pending", "running"}
  <2>1. CancelledBy(r) = r
    BY <1>3 DEF CancelledBy
  <2> QED
    BY <1>3, <2>1 DEF RowMoves
<1> QED
  BY <1>1, <1>2, <1>3

LEMMA AcceptCommentIInv ==
  ASSUME IInv, NEW t \in Turns, NEW closed \in BOOLEAN, AcceptComment(t, closed)
  PROVE  IInv'
<1> DEFINE row == Arrived("comment", case.rev + 1)
<1>1. turn \in [Turns -> TurnRow] /\ case.rev \in Nat /\ turn[t].status = "none"
  BY DEF AcceptComment, IInv, Typed
<1>2. row \in TurnRow /\ row.status = "routing" /\ row.res = "none" /\ row.source = NoTurn
      /\ row.kind = "none"
  BY <1>1, ArrivedTyped
<1>3. turn'[t] = row /\ \A u \in Turns : u # t => turn'[u] = CancelledBy(turn[u])
  BY <1>1 DEF AcceptComment, Cancelling
<1>4. turn' \in [Turns -> TurnRow]
  BY <1>1, <1>2, CancelledRow DEF AcceptComment, Cancelling
<1>5. case' = [rev |-> case.rev + 1, closed |-> closed] /\ case'.rev = case.rev + 1
  BY DEF AcceptComment
<1>6. BindingFits /\ binding'.exists = binding.exists
  BY IntakeBinding DEF AcceptComment
<1>7. \A u \in Turns : RowMoves(turn[u], turn'[u])
  <2> SUFFICES ASSUME NEW u \in Turns PROVE RowMoves(turn[u], turn'[u])
    OBVIOUS
  <2>1. CASE u = t
    BY <1>1, <2>1 DEF RowMoves, BegunStatus, LateStatus, Ended
  <2>2. CASE u # t
    BY <1>1, <1>3, <2>2, CancelledRow
  <2> QED
    BY <2>1, <2>2
<1>8. \A u \in Turns : turn'[u].status \notin {"pending", "running"}
  BY <1>1, <1>2, <1>3, CancelledRow
<1>9. CaseInv'
  <2>1. NewCaseInv'
    BY <1>1, <1>5 DEF NewCaseInv
  <2>2. ActiveTurnIsCurrent' /\ NoCustomerTurnAfterSolve'
    BY <1>8 DEF ActiveTurnIsCurrent, NoCustomerTurnAfterSolve
  <2>3. OnlyOutdatedIsCancelled'
    <3> SUFFICES ASSUME NEW u \in Turns, Outdated(turn'[u]) PROVE turn'[u].rev < case'.rev
      BY DEF OnlyOutdatedIsCancelled, Outdated
    <3>1. u # t
      BY <1>2, <1>3 DEF Outdated
    <3>2. Outdated(turn[u]) \/ turn[u].status \in {"pending", "running"}
      BY <1>1, <1>3, <3>1, CancelledRow
    <3>3. turn[u].rev \in Nat /\ turn'[u].rev = turn[u].rev
      BY <1>1, <1>3, <3>1, CancelledRow DEF TurnRow
    <3>4. turn[u].rev <= case.rev
      BY <1>1, <3>2, <3>3
         DEF IInv, CaseInv, ActiveTurnIsCurrent, OnlyOutdatedIsCancelled, Outdated
    <3> QED
      BY <1>1, <1>5, <3>3, <3>4
  <2>4. OneActiveTurn'
    <3> SUFFICES ASSUME NEW u \in Turns, NEW v \in Turns, Active(u)', Active(v)' PROVE u = v
      BY DEF OneActiveTurn
    <3>1. u # t /\ v # t
      BY <1>2, <1>3 DEF Active
    <3>2. Active(u) /\ Active(v)
      BY <1>1, <1>3, <1>8, <3>1, CancelledRow DEF Active
    <3> QED
      BY <3>2 DEF IInv, CaseInv, OneActiveTurn
  <2>5. SolvedInv'
    BY <1>1, <1>2, <1>3, <1>6, CancelledRow DEF IInv, CaseInv, SolvedInv, BindingFits
  <2>6. OneReplyPerReview'
    BY <1>1, <1>2, <1>3, CancelledRow DEF IInv, CaseInv, OneReplyPerReview
  <2> QED
    BY <2>1, <2>2, <2>3, <2>4, <2>5, <2>6 DEF CaseInv
<1>10. KindInv'
  <2> SUFFICES ASSUME NEW u \in Turns
               PROVE  /\ turn'[u].status \in OpenedStatus => turn'[u].kind # "none"
                      /\ turn'[u].kind \in {"investigation_feedback", "investigation_reply"} =>
                             turn'[u].dir \in {"investigation", "human"}
                      /\ gateway[u]["route"] # "none" => NormalBegun(turn'[u])
                      /\ tool[u] = "direction" => NormalBegun(turn'[u])
    BY DEF AcceptComment, KindInv
  <2>1. /\ gateway[u]["route"] # "none" => NormalBegun(turn[u])
        /\ tool[u] = "direction" => NormalBegun(turn[u])
        /\ NormalBegun(turn[u]) => NormalBegun(turn'[u])
    BY <1>7 DEF IInv, KindInv, NormalBegun, RowMoves
  <2>2. CASE u = t
    BY <1>2, <1>3, <2>1, <2>2 DEF OpenedStatus, Live, Ended
  <2>3. CASE u # t
    BY <1>1, <1>3, <2>1, <2>3, CancelledRow DEF IInv, KindInv
  <2> QED
    BY <2>2, <2>3
<1>11. FramesInv'
  BY <1>7, FramesStay DEF AcceptComment, IInv
<1> QED
  BY <1>1, <1>4, <1>5, <1>6, <1>9, <1>10, <1>11 DEF AcceptComment, IInv, Typed, BindingFits

LEMMA OthersStayTyped ==
  ASSUME IInv
  PROVE  /\ made \in Seq(Turns) /\ job \in [Turns -> Job]
         /\ tool \in [Turns -> Tools \cup {"none"}] /\ case \in [rev : Nat, closed : BOOLEAN]
BY DEF IInv, Typed

\* An event that waits to be routed opens no turn
LEMMA DroppedFits ==
  ASSUME IInv, NEW t \in Turns, turn[t].status = "routing", NEW why \in {"revision", "blocked"},
         why = "revision" => turn[t].rev < case.rev
  PROVE  RowFits(t, [turn[t] EXCEPT !.status = "dropped", !.why = why])
<1> DEFINE row == [turn[t] EXCEPT !.status = "dropped", !.why = why]
<1>1. turn[t] \in TurnRow /\ "dropped" \in Status
  BY DEF IInv, Typed, Status
<1>2. /\ row \in TurnRow /\ row.status = "dropped" /\ row.why = why /\ row.rev = turn[t].rev
      /\ row.res = turn[t].res /\ row.source = turn[t].source
      /\ row.kind = turn[t].kind /\ row.dir = turn[t].dir
  <2>1. row \in TurnRow
    BY <1>1 DEF TurnRow
  <2>2. /\ row.status = "dropped" /\ row.why = why /\ row.rev = turn[t].rev
        /\ row.res = turn[t].res /\ row.source = turn[t].source
        /\ row.kind = turn[t].kind /\ row.dir = turn[t].dir
    BY <1>1 DEF TurnRow
  <2> QED
    BY <2>1, <2>2
<1>3. RowMoves(turn[t], row)
  BY DEF RowMoves, BegunStatus, LateStatus, Ended
<1>4. row.kind \in {"investigation_feedback", "investigation_reply"} =>
          row.dir \in {"investigation", "human"}
  BY <1>2 DEF IInv, KindInv
<1> QED
  BY <1>2, <1>3, <1>4 DEF RowFits, Outdated, OpenedStatus, Live, Ended

LEMMA DropIInv ==
  ASSUME IInv, NEW t \in Turns, DropBlocked(t) \/ DropOutdated(t)
  PROVE  IInv'
<1>1. \E why \in {"revision", "blocked"} :
          /\ RowFits(t, [turn[t] EXCEPT !.status = "dropped", !.why = why])
          /\ turn' = [turn EXCEPT ![t] = [turn[t] EXCEPT !.status = "dropped", !.why = why]]
  BY DroppedFits DEF DropBlocked, DropOutdated, SetTurn
<1>2. case.rev # 0
  BY CaseIsNew DEF DropBlocked, DropOutdated
<1>3. UNCHANGED <<case, binding, made, run, gateway, tool, job, worker, used>>
  BY DEF DropBlocked, DropOutdated
<1> QED
  BY <1>1, <1>2, <1>3, SameBinding, OthersStayTyped, RowIInv

\* A row that is not begun becomes the row of a turn
LEMMA OpenedFits ==
  ASSUME IInv, NEW t \in Turns, turn[t].status \in {"none", "routing"},
         NEW row \in TurnRow, row.status = "pending", row.rev = case.rev, row.kind # "none",
         row.kind \in {"investigation_feedback", "investigation_reply"} =>
             row.dir = "investigation",
         row.res = "solved" => turn[t].res = "solved",
         row.source \in {turn[t].source, NoTurn} \/ (\A u \in Turns : turn[u].source # row.source)
  PROVE  RowFits(t, row)
BY DEF RowFits, RowMoves, Outdated, BegunStatus, LateStatus, Ended

LEMMA OpenIInv ==
  ASSUME IInv, case.rev # 0, BindingFits, NEW t \in Turns, NEW row, RowFits(t, row),
         Open(t, row), UNCHANGED <<case, run, gateway, tool, worker, used>>
  PROVE  IInv'
<1>1. made' \in Seq(Turns)
  BY OthersStayTyped DEF Open
<1>2. job' \in [Turns -> Job]
  BY OthersStayTyped DEF Open, NewJob, NoJob, Job
<1> QED
  BY <1>1, <1>2, OthersStayTyped, RowIInv DEF Open, SetTurn

\* The binding the hand-off leaves, with the case_task it may have brought
LEMMA TaskedBinding ==
  ASSUME IInv, NEW t \in Turns, NEW task \in {"automation", "investigation"},
         binding' = BindingWithTask(t, task)
  PROVE  BindingFits /\ binding'.task \in {"none", "automation", "investigation"}
<1>1. binding \in Binding
  BY DEF IInv, Typed
<1>2. CASE turn[t].event = "created" /\ binding.task = "none"
  <2> DEFINE dir == IF binding.dir = "pending" THEN task ELSE binding.dir
  <2>1. dir \in Directions \cup {"pending"}
    BY <1>1 DEF Binding, Directions
  <2>2. binding' = [binding EXCEPT !.exists = TRUE, !.task = task, !.dir = dir]
    BY <1>1, <1>2 DEF BindingWithTask, Binding
  <2> HIDE DEF dir
  <2> QED
    BY <1>1, <2>1, <2>2 DEF BindingFits, Binding
<1>3. CASE ~(turn[t].event = "created" /\ binding.task = "none")
  BY <1>1, <1>3 DEF BindingWithTask, BindingFits, Binding
<1> QED
  BY <1>2, <1>3

LEMMA RowForFits ==
  ASSUME IInv, NEW t \in Turns, turn[t].status = "routing",
         NEW task \in {"none", "automation", "investigation"}
  PROVE  RowFits(t, RowFor(t, task))
<1> DEFINE row == RowFor(t, task)
<1>1. turn[t] \in TurnRow /\ case.rev \in Nat
  BY DEF IInv, Typed
<1>2. /\ row \in TurnRow /\ row.status = "pending" /\ row.rev = case.rev
      /\ row.kind \in {"investigation_feedback", "message_action", "fixed_task", "normal"}
      /\ row.kind = "investigation_feedback" => row.dir = "investigation"
      /\ row.res = turn[t].res /\ row.source = turn[t].source
  <2> DEFINE to(k, d) == [turn[t] EXCEPT !.status = "pending", !.kind = k, !.dir = d,
                                         !.rev = case.rev]
  <2>1. \/ row = to("investigation_feedback", "investigation")
        \/ row = to("message_action", task)
        \/ row = to("fixed_task", task)
        \/ row = to("normal", turn[t].dir)
    BY <1>1 DEF RowFor, TurnRow
  <2>2. /\ turn[t].dir \in Directions \cup {"none"}
        /\ task \in Directions \cup {"none"}
        /\ "investigation" \in Directions
        /\ "pending" \in Status
    BY <1>1 DEF TurnRow, Directions, Status, Live
  <2>3. ASSUME NEW k \in Kinds, NEW d \in Directions \cup {"none"}, row = to(k, d)
        PROVE  /\ row \in TurnRow
               /\ row.status = "pending" /\ row.rev = case.rev
               /\ row.kind = k /\ row.dir = d
               /\ row.res = turn[t].res /\ row.source = turn[t].source
    <3> HIDE DEF row
    <3> QED
      BY <1>1, <2>2, <2>3 DEF TurnRow
  <2>4. {"investigation_feedback", "message_action", "fixed_task", "normal"} \subseteq Kinds
    BY DEF Kinds
  <2> HIDE DEF to, row
  <2>5. \/ \E d \in Directions \cup {"none"} :
              \E k \in {"message_action", "fixed_task", "normal"} : row = to(k, d)
        \/ row = to("investigation_feedback", "investigation")
    BY <2>1, <2>2
  <2>6. CASE row = to("investigation_feedback", "investigation")
    BY <2>2, <2>3, <2>4, <2>6
  <2>7. CASE \E d \in Directions \cup {"none"} :
               \E k \in {"message_action", "fixed_task", "normal"} : row = to(k, d)
    BY <2>3, <2>4, <2>7
  <2> QED
    BY <2>5, <2>6, <2>7
<1> HIDE DEF row
<1>3. row.kind # "none" /\ row.kind # "investigation_reply"
  BY <1>2
<1>4. RowFits(t, row)
  BY <1>2, <1>3, OpenedFits
<1> QED
  BY <1>4 DEF row

LEMMA HandOffIInv ==
  ASSUME IInv, NEW t \in Turns, NEW task \in {"automation", "investigation"}, HandOff(t, task)
  PROVE  IInv'
<1>1. turn[t].status = "routing" /\ BindingFits
      /\ binding'.task \in {"none", "automation", "investigation"}
  BY TaskedBinding DEF HandOff
<1>2. RowFits(t, RowFor(t, binding'.task))
  BY <1>1, RowForFits
<1>3. case.rev # 0
  BY <1>1, CaseIsNew
<1> QED
  BY <1>1, <1>2, <1>3, OpenIInv DEF HandOff

LEMMA CreateFeedbackTurnIInv ==
  ASSUME IInv, NEW t \in Turns, CreateFeedbackTurn(t)
  PROVE  IInv'
<1> DEFINE row == [NoRow EXCEPT !.status = "pending", !.event = "feedback", !.rev = case.rev,
                       !.kind = "investigation_feedback", !.dir = "investigation"]
<1>1. case.rev \in Nat /\ case.rev # 0 /\ turn[t].status = "none"
  BY DEF CreateFeedbackTurn, IInv, Typed, CaseInv, NewCaseInv
<1>2. Open(t, row) /\ UNCHANGED <<case, binding, run, gateway, tool, worker, used>>
  BY DEF CreateFeedbackTurn
<1>3. /\ row \in TurnRow /\ row.status = "pending" /\ row.rev = case.rev
      /\ row.kind = "investigation_feedback" /\ row.dir = "investigation"
      /\ row.res = "none" /\ row.source = NoTurn
  BY <1>1 DEF NoRow, TurnRow, Status, Live, Events, Kinds, Directions
<1> HIDE DEF row
<1>4. RowFits(t, row)
  BY <1>1, <1>3, OpenedFits
<1> QED
  BY <1>1, <1>2, <1>4, SameBinding, OpenIInv

LEMMA CreateReplyTurnIInv ==
  ASSUME IInv, NEW t \in Turns, NEW s \in Turns, CreateReplyTurn(t, s)
  PROVE  IInv'
<1> DEFINE row == [NoRow EXCEPT !.status = "pending", !.event = "reply", !.rev = case.rev,
                       !.kind = "investigation_reply", !.dir = "investigation", !.source = s]
<1>1. case.rev \in Nat /\ case.rev # 0 /\ turn[t].status = "none"
  BY CaseIsNew DEF CreateReplyTurn, IInv, Typed
<1>2. Open(t, row) /\ UNCHANGED <<case, binding, run, gateway, tool, worker, used>>
  BY DEF CreateReplyTurn
<1>3. /\ row \in TurnRow /\ row.status = "pending" /\ row.rev = case.rev
      /\ row.kind = "investigation_reply" /\ row.dir = "investigation"
      /\ row.res = "none" /\ row.source = s
  BY <1>1 DEF NoRow, TurnRow, Status, Live, Events, Kinds, Directions
<1>4. \A u \in Turns : turn[u].source # row.source
  BY <1>3 DEF CreateReplyTurn, Continued
<1> HIDE DEF row
<1>5. RowFits(t, row)
  BY <1>1, <1>3, <1>4, OpenedFits
<1> QED
  BY <1>1, <1>2, <1>5, SameBinding, OpenIInv

------------------------------------------------------------------------------
(* The tools *)

LEMMA ToolServed ==
  ASSUME IInv, NEW t \in Turns, tool' = [tool EXCEPT ![t] = "none"]
  PROVE  /\ tool' \in [Turns -> Tools \cup {"none"}]
         /\ \A u \in Turns : tool'[u] = "direction" => tool[u] = "direction"
BY DEF IInv, Typed

LEMMA FewerTools ==
  ASSUME IInv, UNCHANGED <<turn, gateway>>,
         \A u \in Turns : tool'[u] = "direction" => tool[u] = "direction"
  PROVE  KindInv'
BY DEF IInv, KindInv, NormalBegun

LEMMA RecordDirectionIInv ==
  ASSUME IInv, NEW t \in Turns, NEW dir \in Directions, RecordDirection(t, dir)
  PROVE  IInv'
<1>1. tool' = [tool EXCEPT ![t] = "none"] /\ turn[t] \in TurnRow
  BY DEF RecordDirection, IInv, Typed
<1>2. CASE turn[t].status \in Live
  <2> DEFINE row == [turn[t] EXCEPT !.dir = dir, !.act = turn[t].act]
  <2>1. turn[t].kind = "normal"
    BY DEF RecordDirection, IInv, KindInv, NormalBegun
  <2>2. turn[t].act \in {"none", "handoff", "continue", "answer", "reply"}
    BY <1>1 DEF TurnRow
  <2>3. RowFits(t, row)
    BY <2>1, <2>2, KeptFits
  <2>4. turn' = [turn EXCEPT ![t] = row]
    <3>1. row = [turn[t] EXCEPT !.dir = dir]
      BY <1>1 DEF TurnRow
    <3>2. turn' = [turn EXCEPT ![t].dir = dir]
      BY <1>2 DEF RecordDirection
    <3> QED
      BY <3>1, <3>2
  <2>5. BindingFits
    BY <1>2, DirectedFits DEF RecordDirection
  <2>6. case.rev # 0
    BY <1>2, CaseIsNew DEF Live
  <2> QED
    BY <1>1, <2>3, <2>4, <2>5, <2>6, ToolServed, OthersStayTyped, RowIInv DEF RecordDirection
<1>3. CASE turn[t].status \notin Live
  BY <1>1, <1>3, ToolServed, FewerTools, CaseStays, FramesKeep DEF RecordDirection, IInv, Typed
<1> QED
  BY <1>2, <1>3

LEMMA EscalateIInv ==
  ASSUME IInv, NEW t \in Turns, Escalate(t)
  PROVE  IInv'
<1>1. tool' = [tool EXCEPT ![t] = "none"] /\ binding' = HandedOver
  BY DEF Escalate
<1>2. BindingFits /\ CaseInv'
  BY <1>1, HandedOverFits, BindingStep DEF Escalate
<1>3. KindInv' /\ FramesInv'
  BY <1>1, ToolServed, FewerTools, FramesKeep DEF Escalate
<1> QED
  BY <1>1, <1>2, <1>3, ToolServed DEF Escalate, IInv, Typed, BindingFits

------------------------------------------------------------------------------
(* support_close_case *)

\* The row of t, and those of the turns that wait
SolvedRow(t, u) ==
    IF u = t THEN [turn[u] EXCEPT !.status = "completed", !.res = "solved"]
    ELSE IF turn[u].status = "pending"
         THEN [turn[u] EXCEPT !.status = "superseded", !.why = "blocked"]
         ELSE turn[u]

LEMMA SolvedRowFits ==
  ASSUME IInv, NEW t \in Turns, turn[t].status = "running", NEW u \in Turns
  PROVE  LET s == SolvedRow(t, u)
         IN  /\ s \in TurnRow /\ RowMoves(turn[u], s) /\ s.status \notin {"pending", "running"}
             /\ s.status = "cancel_requested" => turn[u].status = "cancel_requested"
             /\ Outdated(s) => Outdated(turn[u])
             /\ s.rev = turn[u].rev /\ s.source = turn[u].source
             /\ s.kind = turn[u].kind /\ s.dir = turn[u].dir
             /\ s.status \in OpenedStatus => turn[u].status \in OpenedStatus
<1>1. turn[u] \in TurnRow
  BY DEF IInv, Typed
<1>2. CASE u = t
  <2> DEFINE s == [turn[u] EXCEPT !.status = "completed", !.res = "solved"]
  <2>1. SolvedRow(t, u) = s
    BY <1>2 DEF SolvedRow
  <2>2. /\ s \in TurnRow /\ s.status = "completed" /\ s.rev = turn[u].rev
        /\ s.source = turn[u].source /\ s.kind = turn[u].kind /\ s.dir = turn[u].dir
    BY <1>1 DEF TurnRow, Status, Ended
  <2> HIDE DEF s
  <2> QED
    BY <1>2, <2>1, <2>2 DEF RowMoves, Outdated, BegunStatus, LateStatus, OpenedStatus, Live, Ended
<1>3. CASE u # t /\ turn[u].status = "pending"
  <2> DEFINE s == [turn[u] EXCEPT !.status = "superseded", !.why = "blocked"]
  <2>1. SolvedRow(t, u) = s
    BY <1>3 DEF SolvedRow
  <2>2. /\ s \in TurnRow /\ s.status = "superseded" /\ s.why = "blocked"
        /\ s.rev = turn[u].rev /\ s.source = turn[u].source
        /\ s.kind = turn[u].kind /\ s.dir = turn[u].dir
    BY <1>1 DEF TurnRow, Status, Ended
  <2> HIDE DEF s
  <2> QED
    BY <1>3, <2>1, <2>2 DEF RowMoves, Outdated, BegunStatus, LateStatus, OpenedStatus, Live, Ended
<1>4. CASE u # t /\ turn[u].status # "pending"
  <2>1. ~Active(u)
    BY <1>4 DEF IInv, CaseInv, OneActiveTurn, Active
  <2> QED
    BY <1>1, <1>4, <2>1 DEF SolvedRow, Active, RowMoves
<1> QED
  BY <1>2, <1>3, <1>4

LEMMA SolveIInv ==
  ASSUME IInv, NEW t \in Turns, Solve(t)
  PROVE  IInv'
<1>1. tool' = [tool EXCEPT ![t] = "none"] /\ UNCHANGED <<made, run, gateway, job, worker, used>>
  BY DEF Solve
<1>2. CASE turn[t].status = "running" /\ turn[t].rev = case.rev
  <2>1. turn' = [u \in Turns |-> SolvedRow(t, u)]
    BY <1>2 DEF Solve, SolvedRow
  <2>2. \A u \in Turns : turn'[u] = SolvedRow(t, u)
    BY <2>1
  <2>3. case' \in [rev : Nat, closed : BOOLEAN] /\ case'.rev = case.rev /\ case.rev # 0
    BY <1>2, CaseIsNew DEF Solve, IInv, Typed
  <2>4. binding' \in Binding /\ binding'.terminal
    BY <1>2 DEF Solve, IInv, Typed, Binding
  <2>5. turn' \in [Turns -> TurnRow] /\ \A u \in Turns : RowMoves(turn[u], turn'[u])
    BY <1>2, <2>1, <2>2, SolvedRowFits
  <2>6. \A u \in Turns : turn'[u].status \notin {"pending", "running"}
    BY <1>2, <2>2, SolvedRowFits
  <2>7. CaseInv'
    <3>1. NewCaseInv' /\ ActiveTurnIsCurrent' /\ NoCustomerTurnAfterSolve'
      BY <2>3, <2>6 DEF NewCaseInv, ActiveTurnIsCurrent, NoCustomerTurnAfterSolve
    <3>2. OnlyOutdatedIsCancelled'
      <4> SUFFICES ASSUME NEW u \in Turns, Outdated(turn'[u]) PROVE turn'[u].rev < case'.rev
        BY DEF OnlyOutdatedIsCancelled, Outdated
      <4>1. Outdated(turn[u]) /\ turn'[u].rev = turn[u].rev
        BY <1>2, <2>2, SolvedRowFits
      <4> QED
        BY <2>3, <4>1 DEF IInv, CaseInv, OnlyOutdatedIsCancelled, Outdated
    <3>3. OneActiveTurn'
      <4> SUFFICES ASSUME NEW u \in Turns, NEW v \in Turns, Active(u)', Active(v)' PROVE u = v
        BY DEF OneActiveTurn
      <4>1. turn[u].status = "cancel_requested" /\ turn[v].status = "cancel_requested"
        BY <1>2, <2>2, <2>6, SolvedRowFits DEF Active
      <4> QED
        BY <4>1 DEF IInv, CaseInv, OneActiveTurn, Active
    <3>4. SolvedInv'
      BY <2>4 DEF SolvedInv
    <3>5. OneReplyPerReview'
      <4>1. \A u \in Turns : turn'[u].source = turn[u].source
        BY <1>2, <2>2, SolvedRowFits
      <4> QED
        BY <4>1 DEF IInv, CaseInv, OneReplyPerReview
    <3> QED
      BY <3>1, <3>2, <3>3, <3>4, <3>5 DEF CaseInv
  <2>8. KindInv'
    <3> SUFFICES ASSUME NEW u \in Turns
                 PROVE  /\ turn'[u].status \in OpenedStatus => turn'[u].kind # "none"
                        /\ turn'[u].kind \in {"investigation_feedback", "investigation_reply"} =>
                               turn'[u].dir \in {"investigation", "human"}
                        /\ gateway[u]["route"] # "none" => NormalBegun(turn'[u])
                        /\ tool'[u] = "direction" => NormalBegun(turn'[u])
      BY <1>1 DEF KindInv
    <3>1. /\ gateway[u]["route"] # "none" => NormalBegun(turn[u])
          /\ tool'[u] = "direction" => NormalBegun(turn[u])
      BY <1>1, ToolServed DEF IInv, KindInv
    <3>2. NormalBegun(turn[u]) => NormalBegun(turn'[u])
      BY <2>5 DEF NormalBegun, RowMoves
    <3>3. /\ turn'[u].kind = turn[u].kind /\ turn'[u].dir = turn[u].dir
          /\ turn'[u].status \in OpenedStatus => turn[u].status \in OpenedStatus
      BY <1>2, <2>2, SolvedRowFits
    <3> QED
      BY <3>1, <3>2, <3>3 DEF IInv, KindInv
  <2>9. FramesInv'
    BY <1>1, <2>5, FramesStay DEF IInv
  <2> QED
    BY <1>1, <2>3, <2>4, <2>5, <2>7, <2>8, <2>9, ToolServed DEF IInv, Typed
<1>3. CASE ~(turn[t].status = "running" /\ turn[t].rev = case.rev)
  <2>1. UNCHANGED <<case, binding, turn>>
    BY <1>3 DEF Solve
  <2> QED
    BY <1>1, <2>1, ToolServed, FewerTools, CaseStays, FramesKeep DEF IInv, Typed
<1> QED
  BY <1>2, <1>3

------------------------------------------------------------------------------
(* Every step *)

LEMMA WorkIInv ==
  ASSUME IInv, NEW w \in Workers, Work(w)
  PROVE  IInv'
<1>1. CASE \/ Enter(w) \/ RefuseSnapshot(w) \/ Start(w) \/ Notify(w)
           \/ BeginPhase(w) \/ Fence(w) \/ Launch(w) \/ RecordRun(w)
  BY <1>1, EnterIInv, RefuseSnapshotIInv, StartIInv, NotifyIInv, BeginPhaseIInv, FenceIInv,
     LaunchIInv, RecordRunIInv
<1>2. CASE PollCompleted(w) \/ PollOther(w) \/ AfterPhase(w) \/ Settle(w)
  BY <1>2, PollCompletedIInv, PollIInv, AfterPhaseIInv, SettleIInv
<1>3. CASE Handover(w) \/ Complete(w) \/ Fail(w)
  BY <1>3, HandoverIInv, CompleteIInv, FailIInv
<1>4. CASE ListRuns(w) \/ (\E p \in Phases : SeeStopped(w, p)) \/ Supersede(w)
  BY <1>4, ListRunsIInv, SeeStoppedIInv, SupersedeIInv
<1> QED
  BY <1>1, <1>2, <1>3, <1>4 DEF Work

LEMMA TurnStepIInv ==
  ASSUME IInv, NEW t \in Turns,
         Intake(t) \/ Route(t) \/ Engineer(t) \/ ToolStep(t) \/ LeaseRunsOut(t)
  PROVE  IInv'
<1>1. CASE Intake(t)
  <2> PICK closed \in Closing :
          \/ \E event \in EventsSeen \cap {"created", "comment"} : AcceptFirst(t, event, closed)
          \/ "comment" \in EventsSeen /\ AcceptComment(t, closed)
          \/ "created" \in EventsSeen /\ AcceptCreatedLate(t, closed)
    BY <1>1 DEF Intake
  <2>1. closed \in BOOLEAN
    BY ConstantsAssumption
  <2> QED
    BY <2>1, AcceptFirstIInv, AcceptCommentIInv, AcceptCreatedLateIInv
<1>2. CASE Route(t)
  BY <1>2, DropIInv, HandOffIInv DEF Route
<1>3. CASE Engineer(t)
  BY <1>3, CreateFeedbackTurnIInv, CreateReplyTurnIInv DEF Engineer
<1>4. CASE ToolStep(t)
  <2>1. ToolsCalled \subseteq Tools
    BY ConstantsAssumption DEF Tools
  <2> QED
    BY <1>4, <2>1, CallToolIInv, RecordDirectionIInv, EscalateIInv, SolveIInv DEF ToolStep
<1>5. CASE LeaseRunsOut(t)
  BY <1>5, LeaseRunsOutIInv
<1> QED
  BY <1>1, <1>2, <1>3, <1>4, <1>5

LEMMA StutterIInv ==
  ASSUME IInv, UNCHANGED vars
  PROVE  IInv'
BY CaseStays, KindStays, FramesKeep DEF vars, IInv, Typed

LEMMA NextIInv ==
  ASSUME IInv, [Next]_vars
  PROVE  IInv'
<1>1. ASSUME NEW t \in Turns,
             Intake(t) \/ Route(t) \/ Engineer(t) \/ ToolStep(t) \/ LeaseRunsOut(t)
      PROVE  IInv'
  BY <1>1, TurnStepIInv
<1>2. ASSUME NEW closed \in BOOLEAN, AcceptUpdate(closed) PROVE IInv'
  BY <1>2, AcceptUpdateIInv
<1>3. ASSUME NEW t \in Turns, NEW p \in Phases, GatewayEnds(t, p) PROVE IInv'
  BY <1>3, GatewayEndsIInv
<1>4. ASSUME NEW w \in Workers, NEW t \in Turns, Claim(w, t) PROVE IInv'
  BY <1>4, ClaimIInv
<1>5. ASSUME NEW w \in Workers,
             \/ Work(w) \/ PromptMissing(w) \/ NotifyRefused(w) \/ PollGivesUp(w) \/ PutOff(w)
             \/ OwnerStalls(w) \/ Fault(w) \/ Crash(w)
      PROVE  IInv'
  BY <1>5, WorkIInv, PromptMissingIInv, NotifyIInv, PollIInv, PutOffIInv, OwnerStallsIInv,
     FaultIInv, CrashIInv
<1>6. CASE UNCHANGED vars
  BY <1>6, StutterIInv
<1> QED
  BY <1>1, <1>2, <1>3, <1>4, <1>5, <1>6 DEF Next

------------------------------------------------------------------------------
(* What holds of every behaviour *)

\* The rows of the case, and the frames of the processes in the middle of a turn,
\* fit together in every state
THEOREM Invariance == Spec => []IInv
<1>1. Init => IInv
  BY InitIInv
<1>2. IInv /\ [Next]_vars => IInv'
  BY NextIInv
<1> QED
  BY <1>1, <1>2, PTL DEF Spec

LEMMA TypeLemma == IInv => TypeOK
<1> SUFFICES ASSUME IInv, NEW w \in Workers, worker[w].phase # "none"
             PROVE  Of(w) # NoTurn /\ worker[w].phase \in PhasesOf(turn[Of(w)].kind)
  BY DEF IInv, Typed, TypeOK
<1> QED
  BY ConstantsAssumption DEF IInv, FramesInv, FrameOK, Of

\* Every variable keeps its type, and a process runs only phases that its turn has
THEOREM TypeCorrect == Spec => []TypeOK
BY Invariance, TypeLemma, PTL

\* accept_intake and hand_off_to_hermes_agent leave no turn waiting or running for
\* a revision that a newer comment has overtaken
THEOREM CurrentOnly == Spec => []ActiveTurnIsCurrent
BY Invariance, PTL DEF IInv, CaseInv

\* A turn is cancelled or refused as outdated only for a newer revision
THEOREM OutdatedOnly == Spec => []OnlyOutdatedIsCancelled
BY Invariance, PTL DEF IInv, CaseInv

\* start_hermes_agent_turn never meets a second active turn
THEOREM OneActive == Spec => []OneActiveTurn
BY Invariance, PTL DEF IInv, CaseInv

\* Once support_close_case has solved the case no comment is being answered
THEOREM SolvedStaysQuiet == Spec => []NoCustomerTurnAfterSolve
BY Invariance, PTL DEF IInv, CaseInv

\* create_investigation_reply_turn continues a review once
THEOREM OneReply == Spec => []OneReplyPerReview
BY Invariance, PTL DEF IInv, CaseInv

------------------------------------------------------------------------------
(* A turn that is over stays as it is *)

EndedRowsStay == \A t \in Turns : turn[t].status \in Ended => turn'[t] = turn[t]

\* A step that writes the row of one turn that is not over
LEMMA OneRowWritten ==
  ASSUME IInv, NEW t, t \in Turns => turn[t].status \notin Ended, NEW row,
         turn' = [turn EXCEPT ![t] = row]
  PROVE  EndedRowsStay
BY DEF IInv, Typed, EndedRowsStay

LEMMA IntakeKeepsEnded ==
  ASSUME IInv, NEW t \in Turns, Intake(t)
  PROVE  EndedRowsStay
<1> PICK closed \in Closing :
        \/ \E event \in {"created", "comment"} : AcceptFirst(t, event, closed)
        \/ AcceptComment(t, closed)
        \/ AcceptCreatedLate(t, closed)
  BY DEF Intake
<1>1. turn[t].status = "none"
  BY DEF AcceptFirst, AcceptComment, AcceptCreatedLate
<1>2. CASE \/ \E event \in {"created", "comment"} : AcceptFirst(t, event, closed)
           \/ AcceptCreatedLate(t, closed)
  BY <1>1, <1>2, OneRowWritten DEF AcceptFirst, AcceptCreatedLate, SetTurn, Ended
<1>3. CASE AcceptComment(t, closed)
  <2>1. \A u \in Turns : u # t => turn'[u] = CancelledBy(turn[u])
    BY <1>3 DEF AcceptComment, Cancelling
  <2> QED
    BY <1>1, <2>1 DEF CancelledBy, EndedRowsStay, Ended
<1> QED
  BY <1>2, <1>3

LEMMA RouteKeepsEnded ==
  ASSUME IInv, NEW t \in Turns, Route(t) \/ Engineer(t)
  PROVE  EndedRowsStay
<1>1. turn[t].status \in {"none", "routing"} /\ \E row : turn' = [turn EXCEPT ![t] = row]
  BY DEF Route, DropBlocked, DropOutdated, HandOff, Engineer, CreateFeedbackTurn,
         CreateReplyTurn, Open, SetTurn
<1> QED
  BY <1>1, OneRowWritten DEF Ended

LEMMA ToolStepKeepsEnded ==
  ASSUME IInv, NEW t \in Turns, ToolStep(t)
  PROVE  EndedRowsStay
<1>1. ASSUME NEW dir \in Directions, RecordDirection(t, dir) PROVE EndedRowsStay
  <2>1. CASE turn[t].status \in Live
    <3>1. turn' = [turn EXCEPT ![t] = [turn[t] EXCEPT !.dir = dir]]
      BY <1>1, <2>1 DEF RecordDirection
    <3> QED
      BY <2>1, <3>1, OneRowWritten DEF Live, Ended
  <2>2. CASE turn[t].status \notin Live
    BY <1>1, <2>2 DEF RecordDirection, EndedRowsStay
  <2> QED
    BY <2>1, <2>2
<1>2. CASE Solve(t)
  BY <1>2 DEF Solve, EndedRowsStay, Ended
<1>3. CASE Escalate(t) \/ \E x \in ToolsCalled : CallTool(t, x)
  BY <1>3 DEF Escalate, CallTool, EndedRowsStay
<1> QED
  BY <1>1, <1>2, <1>3 DEF ToolStep

LEMMA WorkKeepsEnded ==
  ASSUME IInv, NEW w \in Workers, Work(w) \/ PromptMissing(w)
  PROVE  EndedRowsStay
<1> DEFINE t == Of(w)
<1>1. CASE UNCHANGED turn
  BY <1>1 DEF EndedRowsStay
<1>2. CASE turn[t].status \notin Ended /\ \E row : turn' = [turn EXCEPT ![t] = row]
  BY <1>2, OneRowWritten
<1>3. CASE RefuseSnapshot(w) \/ Start(w)
  BY <1>1, <1>2, <1>3 DEF RefuseSnapshot, Start, SetTurn, Ended
<1>4. CASE PollCompleted(w)
  <2>1. CASE \E act \in {"continue", "answer", "reply"} : turn' = Classified(t, act)
    BY <1>1, <1>2, <1>4, <2>1 DEF PollCompleted, Classified, Live, Ended
  <2>2. CASE turn' = [Classified(t, "handoff") EXCEPT ![t].dir = "human"]
    <3>1. turn[t].status \in Live \/ UNCHANGED turn
      BY <1>4 DEF PollCompleted
    <3>2. \A u \in Turns : u # t => turn'[u] = turn[u]
      BY <2>2 DEF Classified, IInv, Typed
    <3> QED
      BY <1>1, <3>1, <3>2 DEF EndedRowsStay, Live, Ended
  <2> QED
    BY <1>1, <1>4, <2>1, <2>2 DEF PollCompleted
<1>5. CASE Complete(w)
  <2>1. \/ turn[t].status = "running" /\ \A u \in Turns : u # t => turn'[u] = turn[u]
        \/ UNCHANGED turn
    BY <1>5 DEF Complete, IInv, Typed
  <2> QED
    BY <1>1, <2>1 DEF EndedRowsStay, Ended
<1>6. CASE Fail(w)
  BY <1>1, <1>2, <1>6 DEF Fail, Failable, Ended
<1>7. CASE Supersede(w)
  <2>1. \/ turn[t].status \in Live /\ \A u \in Turns : u # t => turn'[u] = turn[u]
        \/ UNCHANGED turn
    BY <1>7 DEF Supersede, IInv, Typed
  <2> QED
    BY <1>1, <2>1 DEF EndedRowsStay, Live, Ended
<1>8. CASE PromptMissing(w)
  BY <1>1, <1>2, <1>8 DEF PromptMissing, Live, Ended
<1>9. CASE \/ Enter(w) \/ Notify(w) \/ BeginPhase(w) \/ Fence(w) \/ Launch(w) \/ RecordRun(w)
           \/ PollOther(w) \/ AfterPhase(w) \/ Handover(w)
           \/ ListRuns(w) \/ (\E p \in Phases : SeeStopped(w, p)) \/ Settle(w)
  BY <1>1, <1>9 DEF Enter, Notify, BeginPhase, Fence, Launch, RecordRun, PollOther, AfterPhase,
                    Handover, ListRuns, SeeStopped, Settle
<1> QED
  BY <1>3, <1>4, <1>5, <1>6, <1>7, <1>8, <1>9 DEF Work

LEMMA EndedLemma ==
  ASSUME IInv, [Next]_vars
  PROVE  EndedRowsStay
<1>1. CASE UNCHANGED turn
  BY <1>1 DEF EndedRowsStay
<1>2. ASSUME NEW t \in Turns,
             Intake(t) \/ Route(t) \/ Engineer(t) \/ ToolStep(t) \/ LeaseRunsOut(t)
      PROVE  EndedRowsStay
  BY <1>1, <1>2, IntakeKeepsEnded, RouteKeepsEnded, ToolStepKeepsEnded DEF LeaseRunsOut
<1>3. ASSUME NEW closed \in BOOLEAN, AcceptUpdate(closed) PROVE EndedRowsStay
  BY <1>1, <1>3 DEF AcceptUpdate
<1>4. ASSUME NEW t \in Turns, NEW p \in Phases, GatewayEnds(t, p) PROVE EndedRowsStay
  BY <1>1, <1>4 DEF GatewayEnds
<1>5. ASSUME NEW w \in Workers, NEW t \in Turns, Claim(w, t) PROVE EndedRowsStay
  BY <1>1, <1>5 DEF Claim
<1>6. ASSUME NEW w \in Workers, Work(w) \/ PromptMissing(w) PROVE EndedRowsStay
  BY <1>6, WorkKeepsEnded
<1>7. ASSUME NEW w \in Workers,
             \/ NotifyRefused(w) \/ PollGivesUp(w) \/ PutOff(w)
             \/ OwnerStalls(w) \/ Fault(w) \/ Crash(w)
      PROVE  EndedRowsStay
  BY <1>1, <1>7 DEF NotifyRefused, PollGivesUp, PutOff, OwnerStalls, Fault, Crash
<1>8. CASE UNCHANGED vars
  BY <1>1, <1>8 DEF vars
<1> QED
  BY <1>2, <1>3, <1>4, <1>5, <1>6, <1>7, <1>8 DEF Next

\* Nothing that comes late, a tool, a comment or a process that lost its claim,
\* writes the row of a turn that is over
THEOREM EndedStay == Spec => EndedTurnsStay
<1>1. IInv /\ [Next]_vars =>
          [\A t \in Turns : turn[t].status \in Ended => turn'[t] = turn[t]]_turn
  BY EndedLemma DEF EndedRowsStay
<1> QED
  BY <1>1, Invariance, PTL DEF Spec, EndedTurnsStay
=============================================================================
