------------------------ MODULE DraftDelivery_proofs ------------------------
(***************************************************************************)
(* The properties of DraftDelivery for any turns, drafts, processes and    *)
(* bounds.  Base, the types and the links between gates, drafts, jobs,     *)
(* frames and ledger rows, is inductive by itself; every property has an   *)
(* inductive part of its own on top of it.  ChosenInv is the hinge of      *)
(* those about the preparation: the gate picks one draft of a turn, so the *)
(* job of the turn, which keeps the first draft it was made for, is never  *)
(* asked to prepare another one.                                           *)
(*                                                                         *)
(* The steps are proved by effects: one lemma says what each action does   *)
(* to rows and frames, others how a single row, job, gate or frame can     *)
(* move at all, and the invariants follow from those.                      *)
(***************************************************************************)
EXTENDS DraftDelivery, TLAPS

------------------------------------------------------------------------------
(* Types *)

\* A gate, a job and a frame that are in use name a draft, and a frame that has an
\* outcome to write has one
Named ==
    /\ \A t \in Turns : gate[t].pc \in {"publish", "fence", "job"} => gate[t].draft \in Drafts
    /\ \A t \in Turns : job[t].st # "none" => job[t].draft \in Drafts
    /\ \A w \in Workers :
         /\ ~At(w, "idle") => Of(w) \in Drafts
         /\ At(w, "finish") => frame[w].out \in {"completed", "ended"}
         /\ At(w, "record") => frame[w].out \in {"delivered", "outcome_unknown", "failed"}

\* TypeOK without what it says of the draft a frame names
Shapes ==
    /\ rev \in Nat /\ sync \in Nat /\ conv \in Nat
    /\ turn \in [Turns -> TurnRow]
    /\ saver \subseteq Turns
    /\ gate \in [Turns -> GateFrame]
    /\ draft \in [Drafts -> DraftRow]
    /\ job \in [Turns -> Job]
    /\ ledger \in [Drafts -> Delivery]
    /\ frame \in [Workers -> Frame]
    /\ posted \in [Drafts -> Nat]
    /\ past \in Past
    /\ used \in [Bounds -> Nat]

Typed == Shapes /\ Named

LEMMA DraftsType == Drafts \subseteq Nat \ {0}
BY ConstantsAssumption DEF Drafts

LEMMA InitTyped == Init => Typed
BY ConstantsAssumption DEF Init, Typed, Shapes, Named, At, Of, TurnRow, TurnStatus, GateFrame,
   GateStep, NoRow, DraftRow, DraftStatus, NoJob, Job, JobStatus, NoDelivery, Delivery,
   DeliveryStatus, Idle, Frame, Past, Bounds, NoDraft

\* A row keeps its type when its status is set
LEMMA RowTypes ==
  /\ \A r \in DraftRow, st \in DraftStatus : [r EXCEPT !.st = st] \in DraftRow
  /\ \A r \in DraftRow, st \in DraftStatus, b \in BOOLEAN :
        [r EXCEPT !.st = st, !.text = b] \in DraftRow
  /\ \A r \in Job, st \in JobStatus : [r EXCEPT !.st = st] \in Job
  /\ \A r \in Job, st \in JobStatus, w \in Workers \cup {NoWorker} :
        [r EXCEPT !.st = st, !.owner = w] \in Job
<1>1. \A r \in DraftRow, st \in DraftStatus : [r EXCEPT !.st = st] \in DraftRow
  BY DEF DraftRow
<1>2. \A r \in DraftRow, st \in DraftStatus, b \in BOOLEAN :
        [r EXCEPT !.st = st, !.text = b] \in DraftRow
  BY DEF DraftRow
<1>3. \A r \in Job, st \in JobStatus : [r EXCEPT !.st = st] \in Job
  BY DEF Job
<1>4. \A r \in Job, st \in JobStatus, w \in Workers \cup {NoWorker} :
        [r EXCEPT !.st = st, !.owner = w] \in Job
  BY DEF Job
<1> QED
  BY <1>1, <1>2, <1>3, <1>4

LEMMA SpendType ==
  ASSUME Shapes, NEW f \in Bounds, Spend(f)
  PROVE  used' \in [Bounds -> Nat]
BY DEF Shapes, Spend

LEMMA StaleType ==
  ASSUME Shapes, NEW floor \in Nat
  PROVE  StaleBelow(floor) \in [Drafts -> DraftRow]
<1> SUFFICES ASSUME NEW d \in Drafts
             PROVE  [draft[d] EXCEPT !.st = "stale"] \in DraftRow /\ draft[d] \in DraftRow
  BY DEF StaleBelow
<1> QED
  BY DEF Shapes, DraftRow, DraftStatus

LEMMA CaseTyped == ASSUME Shapes, CaseStep PROVE Shapes'
<1>1. CASE AcceptComment
  <2>1. used' \in [Bounds -> Nat]
    BY <1>1, SpendType DEF AcceptComment, Bounds
  <2>2. draft' \in [Drafts -> DraftRow]
    BY <1>1, StaleType DEF AcceptComment, Shapes
  <2>3. turn' \in [Turns -> TurnRow]
    BY <1>1 DEF AcceptComment, Shapes, TurnRow, TurnStatus
  <2> QED
    BY <1>1, <2>1, <2>2, <2>3 DEF AcceptComment, Shapes, OUTBOX
<1>2. CASE SyncComments
  <2>1. used' \in [Bounds -> Nat]
    BY <1>2, SpendType DEF SyncComments, Bounds
  <2> QED
    BY <1>2, <2>1 DEF SyncComments, Shapes, OUTBOX
<1>3. ASSUME NEW t \in Turns, OpenTurn(t) PROVE Shapes'
  BY <1>3 DEF OpenTurn, Shapes, OUTBOX, TurnRow, TurnStatus
<1>4. ASSUME NEW t \in Turns, OpenFeedbackTurn(t) PROVE Shapes'
  <2>1. turn' \in [Turns -> TurnRow]
    BY <1>4 DEF OpenFeedbackTurn, Shapes, TurnRow, TurnStatus
  <2>2. draft' \in [Drafts -> DraftRow]
    BY <1>4 DEF OpenFeedbackTurn, WithdrawAttached, Shapes, DraftRow, DraftStatus
  <2> QED
    BY <1>4, <2>1, <2>2 DEF OpenFeedbackTurn, Shapes, OUTBOX
<1>5. ASSUME NEW t \in Turns, StartTurn(t) PROVE Shapes'
  BY <1>5 DEF StartTurn, SetTurn, Shapes, OUTBOX, TurnRow, TurnStatus
<1>6. ASSUME NEW t \in Turns, CompleteTurn(t) PROVE Shapes'
  <2>1. turn' \in [Turns -> TurnRow] /\ turn[t].rev \in Nat /\ turn[t].input \in Nat
    BY <1>6 DEF CompleteTurn, SetTurn, Shapes, TurnRow, TurnStatus
  <2>2. draft' \in [Drafts -> DraftRow]
    BY <1>6, <2>1, StaleType DEF CompleteTurn
  <2>3. conv' \in Nat
    BY <1>6, <2>1 DEF CompleteTurn, VersionAfter, Max2, Shapes
  <2> QED
    BY <1>6, <2>1, <2>2, <2>3 DEF CompleteTurn, Shapes, OUTBOX
<1>7. ASSUME NEW t \in Turns, EndTurn(t) PROVE Shapes'
  BY <1>7 DEF EndTurn, SetTurn, Shapes, OUTBOX, TurnRow, TurnStatus
<1>8. ASSUME NEW t \in Turns, Escalate(t) PROVE Shapes'
  <2>1. draft' \in [Drafts -> DraftRow]
    BY <1>8, StaleType DEF Escalate, Shapes
  <2> QED
    BY <1>8, <2>1 DEF Escalate, Shapes, OUTBOX
<1>9. ASSUME NEW t \in Turns, SolveCase(t) PROVE Shapes'
  <2>1. turn' \in [Turns -> TurnRow] /\ turn[t].input \in Nat
    BY <1>9 DEF SolveCase, Shapes, TurnRow, TurnStatus
  <2>2. draft' \in [Drafts -> DraftRow]
    BY <1>9, RowTypes DEF SolveCase, Shapes, DraftStatus
  <2>3. conv' \in Nat
    BY <1>9, <2>1 DEF SolveCase, VersionAfter, Max2, Shapes
  <2> QED
    BY <1>9, <2>1, <2>2, <2>3 DEF SolveCase, Shapes, OUTBOX
<1> QED
  BY <1>1, <1>2, <1>3, <1>4, <1>5, <1>6, <1>7, <1>8, <1>9 DEF CaseStep

LEMMA SaveTyped == ASSUME Shapes, SaveStep PROVE Shapes'
<1>1. ASSUME NEW t \in Turns, LookAtTurn(t) PROVE Shapes'
  BY <1>1 DEF LookAtTurn, Shapes, OUTBOX
<1>2. ASSUME NEW t \in Turns, NEW d \in Drafts, Insert(t, d) PROVE draft' \in [Drafts -> DraftRow]
  BY <1>2 DEF Insert, Shapes, DraftRow, DraftStatus, TurnRow
<1>3. ASSUME NEW t \in Turns, NEW d \in Drafts, SaveDraft(t, d) PROVE Shapes'
  BY <1>2, <1>3 DEF SaveDraft, Shapes, OUTBOX
<1>4. ASSUME NEW t \in Turns, NEW d \in Drafts, SubmitDraft(t, d) PROVE Shapes'
  BY <1>2, <1>4 DEF SubmitDraft, Shapes, OUTBOX
<1> QED
  BY <1>1, <1>3, <1>4 DEF SaveStep

LEMMA GateGoType ==
  ASSUME Shapes, NEW t \in Turns, NEW pc \in GateStep, GateGo(t, pc) \/ GateEnd(t, pc)
  PROVE  gate' \in [Turns -> GateFrame]
BY DEF Shapes, GateGo, GateEnd, GateFrame

LEMMA SetDraftType ==
  ASSUME Shapes, NEW d, NEW st \in DraftStatus, SetDraft(d, st)
  PROVE  draft' \in [Drafts -> DraftRow]
BY DEF Shapes, SetDraft, DraftRow

LEMMA PreparingType ==
  ASSUME Shapes, NEW d \in Drafts \cup {NoDraft}, Preparing(d)
  PROVE  draft' \in [Drafts -> DraftRow] /\ job' \in [Turns -> Job]
<1>1. draft' \in [Drafts -> DraftRow]
  BY RowTypes DEF Shapes, Preparing, DraftStatus
<1>2. job' \in [Turns -> Job]
  BY DEF Shapes, Preparing, Job, JobStatus
<1> QED
  BY <1>1, <1>2

LEMMA GateTyped == ASSUME Typed, NEW t \in Turns, GateStepOf(t) PROVE Shapes'
<1> USE DEF GateStep
<1>0. Shapes
  BY DEF Typed
<1>1. CASE GateLook(t)
  <2>1. gate' \in [Turns -> GateFrame]
    <3>1. CASE DraftsOf(t) = {} /\ GateEnd(t, IF turn[t].kind = "reply" THEN "dead" ELSE "done")
      BY <1>0, <3>1, GateGoType
    <3>2. ASSUME NEW d \in Drafts, gate' = [gate EXCEPT ![t] = [pc |-> "publish", draft |-> d, conv |-> conv]]
          PROVE  gate' \in [Turns -> GateFrame]
      BY <1>0, <3>2 DEF Shapes, GateFrame
    <3> QED
      BY <1>1, <3>1, <3>2 DEF GateLook, DraftsOf
  <2> QED
    BY <1>0, <1>1, <2>1 DEF GateLook, Shapes, OUTBOX
<1>2. CASE GateBlock(t)
  BY <1>0, <1>2, GateGoType DEF GateBlock, Shapes, OUTBOX, TurnRow, TurnStatus
<1>3. CASE GatePublish(t)
  <2>1. gate' \in [Turns -> GateFrame] /\ draft' \in [Drafts -> DraftRow]
    BY <1>0, <1>3, GateGoType, SetDraftType DEF GatePublish, DraftStatus, Shapes
  <2> QED
    BY <1>0, <1>3, <2>1 DEF GatePublish, Shapes, OUTBOX
<1>4. CASE GatePass(t)
  BY <1>0, <1>4, GateGoType DEF GatePass, Shapes, OUTBOX
<1>5. CASE GateDeny(t)
  <2>1. gate' \in [Turns -> GateFrame] /\ turn' \in [Turns -> TurnRow]
    BY <1>0, <1>5, GateGoType DEF GateDeny, Shapes, TurnRow, TurnStatus
  <2>2. past' \in Past
    BY <1>5 DEF GateDeny, Typed, Shapes, Named, Past, GateAt
  <2> QED
    BY <1>0, <1>5, <2>1, <2>2 DEF GateDeny, Shapes, OUTBOX
<1>6. CASE GatePrepare(t)
  <2>1. gate[t].draft \in Drafts \cup {NoDraft}
    BY <1>0 DEF Shapes, GateFrame
  <2>2. gate' \in [Turns -> GateFrame] /\ draft' \in [Drafts -> DraftRow] /\ job' \in [Turns -> Job]
    BY <1>0, <1>6, <2>1, GateGoType, PreparingType DEF GatePrepare, Shapes
  <2> QED
    BY <1>0, <1>6, <2>2 DEF GatePrepare, Shapes, OUTBOX
<1>7. CASE GateCrash(t)
  BY <1>0, <1>7, GateGoType, SpendType DEF GateCrash, Bounds, Shapes, OUTBOX
<1> QED
  BY <1>1, <1>2, <1>3, <1>4, <1>5, <1>6, <1>7 DEF GateStepOf

LEMMA LapseTyped == ASSUME Shapes, NEW t \in Turns, Lapse(t) PROVE Shapes'
<1>1. job' \in [Turns -> Job]
  <2>1. job[t] \in Job /\ job' = [job EXCEPT ![t] = [@ EXCEPT !.st = "pending", !.owner = NoWorker]]
    BY DEF Lapse, Shapes
  <2> QED
    BY <2>1, RowTypes DEF Shapes, JobStatus
<1>2. used' \in [Bounds -> Nat]
  BY SpendType DEF Lapse, Bounds, Shapes
<1> QED
  BY <1>1, <1>2 DEF Lapse, Shapes, OUTBOX

LEMMA ApproveTyped == ASSUME Shapes, ApproveStep PROVE Shapes'
<1>1. ASSUME NEW d \in Drafts, Approve(d) PROVE Shapes'
  <2>1. draft' \in [Drafts -> DraftRow] /\ job' \in [Turns -> Job] /\ used' \in [Bounds -> Nat]
    BY <1>1, PreparingType, SpendType DEF Approve, Bounds
  <2>2. past' \in Past
    BY <1>1 DEF Approve, Shapes, Past
  <2> QED
    BY <1>1, <2>1, <2>2 DEF Approve, Shapes, OUTBOX
<1>2. ASSUME NEW d \in Drafts, RefuseApproval(d) PROVE Shapes'
  <2>1. past' \in Past
    BY <1>2 DEF RefuseApproval, Shapes, Past
  <2> QED
    BY <1>2, <2>1 DEF RefuseApproval, Shapes, store, OUTBOX
<1> QED
  BY <1>1, <1>2 DEF ApproveStep

LEMMA StepType ==
  ASSUME Shapes, NEW w \in Workers, NEW f \in Frame, Step(w, f)
  PROVE  frame' \in [Workers -> Frame]
BY DEF Shapes, Step

LEMMA IdleType == Idle \in Frame
BY DEF Idle, Frame, NoDraft

\* The frames a step of the preparation or of the drain leaves
LEMMA FrameTypes ==
  ASSUME Shapes, NEW w \in Workers,
         NEW pc \in {"idle", "finish"} \cup PrepSteps \cup DrainSteps,
         NEW out \in {"none", "completed", "ended", "delivered", "outcome_unknown", "failed"}
  PROVE  /\ [frame[w] EXCEPT !.pc = pc] \in Frame
         /\ [frame[w] EXCEPT !.pc = pc, !.out = out] \in Frame
         /\ [frame[w] EXCEPT !.pc = pc, !.comments = sync] \in Frame
BY DEF Shapes, Frame

LEMMA MoveTypes ==
  ASSUME Shapes, NEW w \in Workers,
         NEW pc \in {"idle", "finish"} \cup PrepSteps \cup DrainSteps,
         NEW out \in {"none", "completed", "ended", "delivered", "outcome_unknown", "failed"}
  PROVE  /\ Go(w, pc) => frame' \in [Workers -> Frame]
         /\ End(w, out) => frame' \in [Workers -> Frame]
         /\ Sent(w, out) => frame' \in [Workers -> Frame]
         /\ Leave(w) => frame' \in [Workers -> Frame]
         /\ Step(w, [frame[w] EXCEPT !.pc = pc, !.comments = sync]) => frame' \in [Workers -> Frame]
<1>1. \A s \in {"record", "finish"} : s \in {"idle", "finish"} \cup PrepSteps \cup DrainSteps
  BY DEF DrainSteps
<1> QED
  BY <1>1, StepType, FrameTypes, IdleType DEF Go, End, Sent, Leave

LEMMA RecordType ==
  ASSUME Shapes, NEW d, NEW st \in DeliveryStatus, Record(d, st)
  PROVE  ledger' \in [Drafts -> Delivery]
BY DEF Shapes, Record, Delivery

LEMMA ClaimPrepTyped ==
  ASSUME Shapes, NEW w \in Workers, NEW t \in Turns, ClaimPrep(w, t) PROVE Shapes'
<1>1. job' \in [Turns -> Job]
  <2>1. job[t] \in Job /\ job' = [job EXCEPT ![t] = [@ EXCEPT !.st = "claimed", !.owner = w]]
    BY DEF ClaimPrep, Shapes
  <2> QED
    BY <2>1, RowTypes DEF Shapes, JobStatus
<1>2. [Idle EXCEPT !.pc = "load", !.turn = t, !.draft = job[t].draft] \in Frame
  BY DEF Shapes, Job, Idle, Frame, PrepSteps
<1>3. frame' \in [Workers -> Frame]
  BY <1>2, StepType DEF ClaimPrep
<1> QED
  BY <1>1, <1>3 DEF ClaimPrep, Shapes

LEMMA PrepareTyped == ASSUME Typed, NEW w \in Workers, Prepare(w) PROVE Shapes'
<1> DEFINE Moved == frame' \in [Workers -> Frame]
<1>0. Shapes
  BY DEF Typed
<1> USE DEF PrepSteps
<1>1. CASE LoadDraft(w)
  BY <1>0, <1>1, MoveTypes DEF LoadDraft, Shapes, store
<1>2. CASE Translate(w)
  BY <1>0, <1>2, MoveTypes DEF Translate, Shapes, store
<1>3. CASE RejectText(w)
  BY <1>0, <1>3, MoveTypes DEF RejectText, Shapes, store
<1>4. CASE FailPrep(w)
  <2>1. Moved /\ draft' \in [Drafts -> DraftRow]
    BY <1>0, <1>4, MoveTypes, SetDraftType DEF FailPrep, Shapes, DraftStatus
  <2> QED
    BY <1>0, <1>4, <2>1 DEF FailPrep, Shapes
<1>5. CASE StoreText(w)
  <2>1. Moved
    BY <1>0, <1>5, MoveTypes DEF StoreText
  <2>2. draft' \in [Drafts -> DraftRow]
    <3>1. PICK d \in Drafts : d = Of(w)
      BY <1>5 DEF StoreText, At, Typed, Named
    <3>2. [draft[d] EXCEPT !.st = "approved", !.text = TRUE] \in DraftRow
      BY <1>0 DEF Shapes, DraftRow, DraftStatus
    <3> QED
      BY <1>0, <1>5, <3>1, <3>2 DEF StoreText, Shapes
  <2> QED
    BY <1>0, <1>5, <2>1, <2>2 DEF StoreText, Shapes
<1>6. CASE QueueLook(w)
  <2>1. Moved
    BY <1>0, <1>6, MoveTypes DEF QueueLook
  <2> QED
    BY <1>0, <1>6, <2>1 DEF QueueLook, Shapes, store
<1>7. CASE WriteLedger(w)
  <2>1. Moved
    BY <1>0, <1>7, MoveTypes DEF WriteLedger
  <2>2. NewDelivery(w) \in Delivery
    <3>1. Of(w) \in Drafts
      BY <1>7 DEF WriteLedger, At, Typed, Named
    <3>2. draft[Of(w)].rev \in Nat /\ frame[w].comments \in Nat
      BY <1>0, <3>1 DEF Shapes, DraftRow, Frame
    <3> QED
      BY <3>2 DEF NewDelivery, Delivery, DeliveryStatus
  <2>3. ledger' \in [Drafts -> Delivery]
    BY <1>0, <1>7, <2>2 DEF WriteLedger, Shapes
  <2> QED
    BY <1>0, <1>7, <2>1, <2>3 DEF WriteLedger, Shapes, store
<1>8. CASE MarkQueued(w)
  <2>1. Moved /\ draft' \in [Drafts -> DraftRow]
    BY <1>0, <1>8, MoveTypes, SetDraftType DEF MarkQueued, Shapes, DraftStatus
  <2> QED
    BY <1>0, <1>8, <2>1 DEF MarkQueued, Shapes
<1>9. CASE Finish(w)
  <2>1. Moved
    BY <1>0, <1>9, MoveTypes DEF Finish
  <2>2. job' \in [Turns -> Job]
    <3>1. frame[w].out \in JobStatus
      BY <1>9 DEF Finish, At, Typed, Named, JobStatus
    <3> QED
      BY <1>0, <1>9, <3>1, RowTypes DEF Finish, Shapes
  <2> QED
    BY <1>0, <1>9, <2>1, <2>2 DEF Finish, Shapes
<1> QED
  BY <1>1, <1>2, <1>3, <1>4, <1>5, <1>6, <1>7, <1>8, <1>9 DEF Prepare

LEMMA TroubleTyped ==
  ASSUME Typed, NEW w \in Workers, PrepError(w) \/ Crash(w) PROVE Shapes'
<1>0. Shapes
  BY DEF Typed
<1>1. used' \in [Bounds -> Nat] /\ frame' \in [Workers -> Frame]
  <2>1. End(w, "ended") \/ Leave(w) => frame' \in [Workers -> Frame]
    BY <1>0, MoveTypes
  <2> QED
    BY <1>0, <2>1, SpendType DEF PrepError, Crash, Bounds
<1>2. CASE PrepError(w)
  <2>1. past' \in Past
    BY <1>0, <1>2 DEF PrepError, PrepSteps, At, Of, Typed, Named, Shapes, Past
  <2> QED
    BY <1>0, <1>1, <1>2, <2>1 DEF PrepError, Shapes, store
<1>3. CASE Crash(w)
  BY <1>0, <1>1, <1>3 DEF Crash, Shapes, store
<1> QED
  BY <1>2, <1>3

LEMMA TakeUpTyped ==
  ASSUME Shapes, NEW w \in Workers, NEW d \in Drafts, TakeUp(w, d) PROVE Shapes'
<1>1. [Idle EXCEPT !.draft = d, !.pc = IF ledger[d].st = "queued" THEN "mirror" ELSE "audit"] \in Frame
  BY DEF Idle, Frame, DrainSteps
<1>2. frame' \in [Workers -> Frame]
  BY <1>1, StepType DEF TakeUp
<1> QED
  BY <1>2 DEF TakeUp, Shapes, store

LEMMA DeliverTyped == ASSUME Typed, NEW w \in Workers, Deliver(w) PROVE Shapes'
<1> DEFINE Moved == frame' \in [Workers -> Frame]
           Kept == ledger' \in [Drafts -> Delivery]
           Counted == used' \in [Bounds -> Nat]
<1>0. Shapes
  BY DEF Typed
<1> USE DEF DrainSteps
<1>1. CASE LookMirror(w)
  <2>1. Moved /\ Kept /\ Counted
    BY <1>0, <1>1, MoveTypes, RecordType, SpendType DEF LookMirror, Shapes, DeliveryStatus, Bounds
  <2> QED
    BY <1>0, <1>1, <2>1 DEF LookMirror, Shapes, store
<1>2. CASE LookComments(w)
  <2>1. Moved /\ Kept
    BY <1>0, <1>2, MoveTypes, RecordType DEF LookComments, Shapes, DeliveryStatus
  <2> QED
    BY <1>0, <1>2, <2>1 DEF LookComments, Shapes, store
<1>3. CASE LookTicket(w)
  <2>1. Moved /\ Kept /\ Counted
    BY <1>0, <1>3, MoveTypes, RecordType, SpendType DEF LookTicket, Shapes, DeliveryStatus, Bounds
  <2> QED
    BY <1>0, <1>3, <2>1 DEF LookTicket, Shapes, store
<1>4. CASE ClaimDelivery(w)
  <2>1. Moved
    BY <1>0, <1>4, MoveTypes DEF ClaimDelivery
  <2>2. Kept
    BY <1>0, <1>4 DEF ClaimDelivery, Shapes, Delivery, DeliveryStatus
  <2> QED
    BY <1>0, <1>4, <2>1, <2>2 DEF ClaimDelivery, Shapes, store
<1>5. CASE Post(w)
  <2>1. Moved /\ Counted
    BY <1>0, <1>5, MoveTypes, SpendType DEF Post, Shapes, Bounds
  <2>2. posted' \in [Drafts -> Nat]
    <3>1. PICK d \in Drafts : d = Of(w)
      BY <1>5 DEF Post, At, Typed, Named
    <3> QED
      BY <1>0, <1>5, <3>1 DEF Post, Shapes
  <2>3. past' \in Past
    BY <1>0, <1>5 DEF Post, At, Typed, Named, Shapes, Past
  <2> QED
    BY <1>0, <1>5, <2>1, <2>2, <2>3 DEF Post, Shapes, store
<1>6. CASE PostNothing(w)
  <2>1. Moved /\ Counted
    BY <1>0, <1>6, MoveTypes, SpendType DEF PostNothing, Shapes, Bounds
  <2> QED
    BY <1>0, <1>6, <2>1 DEF PostNothing, Shapes, store
<1>7. CASE RecordOutcome(w)
  <2>1. frame[w].out \in DeliveryStatus
    BY <1>7 DEF RecordOutcome, At, Typed, Named, DeliveryStatus
  <2>2. Moved /\ Kept
    BY <1>0, <1>7, <2>1, MoveTypes, RecordType DEF RecordOutcome
  <2> QED
    BY <1>0, <1>7, <2>2 DEF RecordOutcome, Shapes, store
<1>8. CASE Audit(w)
  <2>1. Moved /\ Kept /\ Counted
    BY <1>0, <1>8, MoveTypes, RecordType, SpendType DEF Audit, Shapes, DeliveryStatus, Bounds
  <2> QED
    BY <1>0, <1>8, <2>1 DEF Audit, Shapes, store
<1> QED
  BY <1>1, <1>2, <1>3, <1>4, <1>5, <1>6, <1>7, <1>8 DEF Deliver

LEMMA StepShapes == Typed /\ [Next]_vars => Shapes'
<1> SUFFICES ASSUME Typed, [Next]_vars PROVE Shapes'
  OBVIOUS
<1>0. Shapes
  BY DEF Typed
<1>1. CASE UNCHANGED vars
  BY <1>0, <1>1 DEF vars, store, Shapes
<1>2. CASE CaseStep \/ SaveStep \/ ApproveStep
  BY <1>0, <1>2, CaseTyped, SaveTyped, ApproveTyped
<1>3. ASSUME NEW t \in Turns, GateStepOf(t) \/ Lapse(t) PROVE Shapes'
  BY <1>0, <1>3, GateTyped, LapseTyped
<1>4. ASSUME NEW w \in Workers,
             \/ Prepare(w) \/ Deliver(w) \/ PrepError(w) \/ Crash(w)
             \/ \E t \in Turns : ClaimPrep(w, t)
             \/ \E d \in Drafts : TakeUp(w, d)
      PROVE  Shapes'
  BY <1>0, <1>4, PrepareTyped, DeliverTyped, TroubleTyped, ClaimPrepTyped, TakeUpTyped
<1> QED
  BY <1>1, <1>2, <1>3, <1>4 DEF Next

------------------------------------------------------------------------------
(* What names what *)

OfTurn(d, t) == draft[d].st # "none" /\ draft[d].turn = t
PrepFrame(w) == frame[w].pc \in PrepSteps \cup {"finish"}
DrainFrame(w) == frame[w].pc \in DrainSteps
Assigned(d) == job[draft[d].turn].st # "none" /\ job[draft[d].turn].draft = d

DraftLink == \A d \in Drafts : draft[d].st # "none" => draft[d].turn \in Turns
GateLink == \A t \in Turns : gate[t].pc \in {"publish", "fence", "job"} => OfTurn(gate[t].draft, t)
JobLink == \A t \in Turns : job[t].st # "none" => OfTurn(job[t].draft, t)
LedgerLink == \A d \in Drafts : ledger[d].st # "none" => draft[d].st # "none" /\ Assigned(d)
PrepLink == \A w \in Workers : PrepFrame(w) => /\ frame[w].turn \in Turns
                                               /\ job[frame[w].turn].st # "none"
                                               /\ job[frame[w].turn].draft = Of(w)
DrainLink == \A w \in Workers : DrainFrame(w) => ledger[Of(w)].st # "none"

Linked == DraftLink /\ GateLink /\ JobLink /\ LedgerLink /\ PrepLink /\ DrainLink

\* What a step never takes back
RowStays(d) == draft[d].st # "none" => draft'[d].st # "none" /\ draft'[d].turn = draft[d].turn
JobStays(t) == job[t].st # "none" => job'[t].st # "none" /\ job'[t].draft = job[t].draft
DeliveryStays(d) == ledger[d].st # "none" => ledger'[d].st # "none"
Stays == /\ \A d \in Drafts : RowStays(d) /\ DeliveryStays(d)
         /\ \A t \in Turns : JobStays(t)

\* A case step, or the first half of save_hermes_case_draft, at most withdraws drafts
Withdrawn(d) ==
    /\ draft'[d].turn = draft[d].turn /\ draft'[d].rev = draft[d].rev
    /\ draft'[d].ver = draft[d].ver /\ draft'[d].text = draft[d].text
    /\ draft'[d].st = draft[d].st \/ (draft[d].st # "none" /\ draft'[d].st = "stale")
Withdraws ==
    /\ \A d \in Drafts : Withdrawn(d)
    /\ conv' >= conv
    /\ UNCHANGED <<gate, job, ledger, frame, posted, past>>

LEMMA CaseWithdraws == ASSUME Typed, CaseStep PROVE Withdraws
<1>0. Shapes
  BY DEF Typed
<1> USE DEF Withdrawn
<1>1. ASSUME NEW floor, draft' = StaleBelow(floor) PROVE \A d \in Drafts : Withdrawn(d)
  BY <1>0, <1>1 DEF StaleBelow, Open, Shapes, DraftRow
<1>2. CASE AcceptComment
  BY <1>0, <1>1, <1>2 DEF AcceptComment, Withdraws, OUTBOX, Shapes
<1>3. CASE SyncComments
  BY <1>0, <1>3 DEF SyncComments, Withdraws, OUTBOX, Shapes
<1>4. ASSUME NEW t \in Turns, OpenTurn(t) \/ StartTurn(t) \/ EndTurn(t) PROVE Withdraws
  BY <1>0, <1>4 DEF OpenTurn, StartTurn, EndTurn, Withdraws, OUTBOX, Shapes
<1>5. ASSUME NEW t \in Turns, OpenFeedbackTurn(t) PROVE Withdraws
  BY <1>0, <1>5 DEF OpenFeedbackTurn, WithdrawAttached, Withdraws, OUTBOX, Shapes, DraftRow
<1>6. ASSUME NEW t \in Turns PROVE VersionAfter(t) >= conv
  BY <1>0, <1>6 DEF VersionAfter, Max2, Shapes, TurnRow
<1>7. ASSUME NEW t \in Turns, CompleteTurn(t) PROVE Withdraws
  BY <1>0, <1>1, <1>6, <1>7 DEF CompleteTurn, Withdraws, OUTBOX, Shapes
<1>8. ASSUME NEW t \in Turns, Escalate(t) PROVE Withdraws
  BY <1>0, <1>1, <1>8 DEF Escalate, Withdraws, OUTBOX, Shapes
<1>9. ASSUME NEW t \in Turns, SolveCase(t) PROVE Withdraws
  BY <1>0, <1>6, <1>9 DEF SolveCase, Open, Withdraws, OUTBOX, Shapes, DraftRow
<1> QED
  BY <1>2, <1>3, <1>4, <1>5, <1>7, <1>8, <1>9 DEF CaseStep

\* A step that writes the status of one draft, and perhaps its text
Alters(d, st) ==
    \A e \in Drafts :
        /\ draft'[e].turn = draft[e].turn /\ draft'[e].rev = draft[e].rev
        /\ draft'[e].ver = draft[e].ver
        /\ draft'[e].st = IF e = d THEN st ELSE draft[e].st
        /\ e # d => draft'[e].text = draft[e].text

LEMMA SetDraftAlters ==
  ASSUME Shapes, NEW d, NEW st, SetDraft(d, st)
  PROVE  Alters(d, st) /\ \A e \in Drafts : draft'[e].text = draft[e].text
BY DEF SetDraft, Alters, Shapes, DraftRow

LEMMA PreparingAlters ==
  ASSUME Shapes, NEW d \in Drafts, Preparing(d) PROVE Alters(d, "preparing")
BY DEF Preparing, Alters, Shapes, DraftRow

LEMMA StoreTextAlters ==
  ASSUME Typed, NEW w \in Workers, StoreText(w)
  PROVE  \/ /\ draft[Of(w)].st = "preparing" /\ Alters(Of(w), "approved")
            /\ draft'[Of(w)].text = TRUE
            /\ Go(w, "queue")
         \/ draft[Of(w)].st # "preparing" /\ UNCHANGED draft /\ End(w, "ended")
<1>1. PICK d \in Drafts : d = Of(w)
  BY DEF StoreText, At, Typed, Named
<1>2. ASSUME draft' = [draft EXCEPT ![d] = [@ EXCEPT !.st = "approved", !.text = TRUE]]
      PROVE  Alters(d, "approved") /\ draft'[d].text = TRUE
  BY <1>2 DEF Alters, Typed, Shapes, DraftRow
<1> QED
  BY <1>1, <1>2 DEF StoreText

\* Turn t saves draft d
Saves(t, d) ==
    /\ t \in saver \/ turn[t].st = "running"
    /\ draft[d].st = "none"
    /\ draft' = [draft EXCEPT ![d] = [st |-> "draft", turn |-> t, rev |-> turn[t].rev,
                                      ver |-> conv, text |-> FALSE]]
    /\ UNCHANGED <<rev, conv, turn, gate, job, ledger, frame, posted, past>>

LEMMA SaveWithdrawsOrSaves ==
  ASSUME Typed, SaveStep
  PROVE  Withdraws \/ \E t \in Turns, d \in Drafts : Saves(t, d)
<1>1. ASSUME NEW t \in Turns, LookAtTurn(t) PROVE Withdraws
  BY <1>1 DEF LookAtTurn, Withdraws, Withdrawn, OUTBOX, Typed, Shapes
<1>2. ASSUME NEW t \in Turns, NEW d \in Drafts, SaveDraft(t, d) \/ SubmitDraft(t, d)
      PROVE  Saves(t, d)
  BY <1>2 DEF SaveDraft, SubmitDraft, Insert, Saves, OUTBOX
<1> QED
  BY <1>1, <1>2 DEF SaveStep

LEMMA StepStays == ASSUME Typed, Next PROVE Stays
<1>0. Shapes
  BY DEF Typed
<1> USE DEF Stays, RowStays, JobStays, DeliveryStays
<1>1. ASSUME Withdraws PROVE Stays
  BY <1>1 DEF Withdraws, Withdrawn
<1>2. ASSUME NEW t \in Turns, NEW d \in Drafts, Saves(t, d) PROVE Stays
  BY <1>0, <1>2 DEF Saves, Shapes
<1>3. ASSUME NEW d, NEW st \in DraftStatus \ {"none"}, SetDraft(d, st)
      PROVE  \A e \in Drafts : RowStays(e)
  BY <1>0, <1>3 DEF SetDraft, Shapes, DraftRow
<1>4. ASSUME NEW d, Preparing(d)
      PROVE  (\A e \in Drafts : RowStays(e)) /\ \A t \in Turns : JobStays(t)
  <2>1. \A e \in Drafts : RowStays(e)
    BY <1>0, <1>4 DEF Preparing, Shapes, DraftRow
  <2>2. \A t \in Turns : JobStays(t)
    BY <1>0, <1>4 DEF Preparing, Shapes, Job
  <2> QED
    BY <2>1, <2>2
<1>5. ASSUME NEW d, NEW st \in DeliveryStatus \ {"none"}, Record(d, st)
      PROVE  \A e \in Drafts : DeliveryStays(e)
  BY <1>0, <1>5 DEF Record, Shapes, Delivery
<1>6. ASSUME NEW t \in Turns, GateStepOf(t) PROVE Stays
  <2>1. CASE GatePublish(t)
    BY <1>3, <2>1 DEF GatePublish, OUTBOX, DraftStatus
  <2>2. CASE GatePrepare(t)
    BY <1>4, <2>2 DEF GatePrepare, OUTBOX
  <2> QED
    BY <1>6, <2>1, <2>2 DEF GateStepOf, GateLook, GateBlock, GatePass, GateDeny, GateCrash, OUTBOX
<1>7. ASSUME NEW t \in Turns, Lapse(t) PROVE Stays
  BY <1>0, <1>7 DEF Lapse, Shapes, Job, OUTBOX
<1>8. CASE ApproveStep
  BY <1>4, <1>8 DEF ApproveStep, Approve, RefuseApproval, store, OUTBOX
<1>9. ASSUME NEW w \in Workers, Prepare(w) PROVE Stays
  <2>1. CASE LoadDraft(w) \/ Translate(w) \/ RejectText(w) \/ QueueLook(w)
    BY <2>1 DEF LoadDraft, Translate, RejectText, QueueLook, store
  <2>2. CASE FailPrep(w)
    BY <1>3, <2>2 DEF FailPrep, DraftStatus
  <2>3. CASE MarkQueued(w)
    BY <1>3, <2>3 DEF MarkQueued, DraftStatus
  <2>4. CASE StoreText(w)
    BY <2>4, StoreTextAlters DEF StoreText, Alters
  <2>5. CASE WriteLedger(w)
    BY <1>0, <2>5 DEF WriteLedger, NewDelivery, Of, Shapes, store
  <2>6. CASE Finish(w)
    <3>1. frame[w].out \in {"completed", "ended"}
      BY <2>6 DEF Finish, At, Typed, Named
    <3> QED
      BY <1>0, <2>6, <3>1 DEF Finish, Shapes, Job
  <2> QED
    BY <1>9, <2>1, <2>2, <2>3, <2>4, <2>5, <2>6 DEF Prepare
<1>10. ASSUME NEW w \in Workers, Deliver(w) PROVE Stays
  <2> USE DEF DeliveryStatus
  <2>1. CASE LookMirror(w) \/ LookComments(w) \/ LookTicket(w)
    BY <1>5, <2>1 DEF LookMirror, LookComments, LookTicket, store
  <2>2. CASE ClaimDelivery(w)
    BY <1>0, <2>2 DEF ClaimDelivery, store, Of, Shapes, Delivery
  <2>3. CASE Post(w) \/ PostNothing(w)
    BY <2>3 DEF Post, PostNothing, store
  <2>4. CASE RecordOutcome(w)
    <3>1. frame[w].out \in DeliveryStatus \ {"none"}
      BY <2>4 DEF RecordOutcome, At, Typed, Named
    <3> QED
      BY <1>5, <2>4, <3>1 DEF RecordOutcome, store
  <2>5. CASE Audit(w)
    BY <1>5, <2>5 DEF Audit, store
  <2> QED
    BY <1>10, <2>1, <2>2, <2>3, <2>4, <2>5 DEF Deliver
<1>11. ASSUME NEW w \in Workers, PrepError(w) \/ Crash(w) PROVE Stays
  BY <1>11 DEF PrepError, Crash, store
<1>12. ASSUME NEW w \in Workers, NEW t \in Turns, ClaimPrep(w, t) PROVE Stays
  BY <1>0, <1>12 DEF ClaimPrep, Shapes, Job
<1>13. ASSUME NEW w \in Workers, NEW d \in Drafts, TakeUp(w, d) PROVE Stays
  BY <1>13 DEF TakeUp, store
<1>14. CASE CaseStep \/ SaveStep
  BY <1>1, <1>2, <1>14, CaseWithdraws, SaveWithdrawsOrSaves
<1> QED
  BY <1>6, <1>7, <1>8, <1>9, <1>10, <1>11, <1>12, <1>13, <1>14 DEF Next

------------------------------------------------------------------------------
(* What a step does to the frames, gates and jobs, one by one *)

Others(w) == \A v \in Workers \ {w} : frame'[v] = frame[v]
Moved(w, pc, out) ==
    /\ Others(w)
    /\ frame'[w].pc = pc /\ frame'[w].out = out
    /\ frame'[w].draft = Of(w) /\ frame'[w].turn = frame[w].turn
Left(w) == Others(w) /\ frame'[w].pc = "idle"

LEMMA FrameFields ==
  ASSUME NEW f \in Frame, NEW pc, NEW x
  PROVE  /\ LET g == [f EXCEPT !.pc = pc, !.out = x] IN
              g.pc = pc /\ g.out = x /\ g.draft = f.draft /\ g.turn = f.turn
         /\ LET g == [f EXCEPT !.pc = pc, !.comments = x] IN
              g.pc = pc /\ g.out = f.out /\ g.draft = f.draft /\ g.turn = f.turn
<1>1. f = [pc |-> f.pc, draft |-> f.draft, turn |-> f.turn, comments |-> f.comments, out |-> f.out]
  BY DEF Frame
<1> QED
  BY <1>1

LEMMA Moves ==
  ASSUME Shapes, NEW w \in Workers,
         NEW pc \in {"idle", "finish"} \cup PrepSteps \cup DrainSteps,
         NEW out \in {"none", "completed", "ended", "delivered", "outcome_unknown", "failed"}
  PROVE  /\ Go(w, pc) => Moved(w, pc, frame[w].out)
         /\ End(w, out) => Moved(w, "finish", out)
         /\ Sent(w, out) => Moved(w, "record", out)
         /\ Leave(w) => Left(w)
         /\ Step(w, [frame[w] EXCEPT !.pc = pc, !.comments = sync]) => Moved(w, pc, frame[w].out)
<1>1. ASSUME NEW f, Step(w, f) PROVE Others(w) /\ frame'[w] = f
  BY <1>1 DEF Step, Others, Shapes
<1>2. frame[w] \in Frame
  BY DEF Shapes
<1>3. Go(w, pc) => Moved(w, pc, frame[w].out)
  BY <1>1, <1>2 DEF Go, Moved, Of, Frame
<1>4. ASSUME End(w, out) PROVE Moved(w, "finish", out)
  <2> DEFINE f == [frame[w] EXCEPT !.pc = "finish", !.out = out]
  <2>1. f.pc = "finish" /\ f.out = out /\ f.draft = frame[w].draft /\ f.turn = frame[w].turn
    BY <1>2, FrameFields
  <2>2. Others(w) /\ frame'[w] = f
    BY <1>1, <1>4 DEF End
  <2> HIDE DEF f
  <2> QED
    BY <2>1, <2>2 DEF Moved, Of
<1>5. ASSUME Sent(w, out) PROVE Moved(w, "record", out)
  <2> DEFINE f == [frame[w] EXCEPT !.pc = "record", !.out = out]
  <2>1. f.pc = "record" /\ f.out = out /\ f.draft = frame[w].draft /\ f.turn = frame[w].turn
    BY <1>2, FrameFields
  <2>2. Others(w) /\ frame'[w] = f
    BY <1>1, <1>5 DEF Sent
  <2> HIDE DEF f
  <2> QED
    BY <2>1, <2>2 DEF Moved, Of
<1>6. Leave(w) => Left(w)
  BY <1>1 DEF Leave, Left, Idle
<1>7. ASSUME Step(w, [frame[w] EXCEPT !.pc = pc, !.comments = sync]) PROVE Moved(w, pc, frame[w].out)
  <2> DEFINE f == [frame[w] EXCEPT !.pc = pc, !.comments = sync]
  <2>1. f.pc = pc /\ f.out = frame[w].out /\ f.draft = frame[w].draft /\ f.turn = frame[w].turn
    BY <1>2, FrameFields
  <2>2. Others(w) /\ frame'[w] = f
    BY <1>1, <1>7
  <2> HIDE DEF f
  <2> QED
    BY <2>1, <2>2 DEF Moved, Of
<1> QED
  BY <1>3, <1>4, <1>5, <1>6, <1>7

GateBecomes(t, pc, d) ==
    /\ \A u \in Turns \ {t} : gate'[u] = gate[u]
    /\ gate'[t].pc = pc /\ gate'[t].draft = d

LEMMA GateMoves ==
  ASSUME Shapes, NEW t \in Turns, NEW pc
  PROVE  /\ GateGo(t, pc) => GateBecomes(t, pc, gate[t].draft)
         /\ GateEnd(t, pc) => GateBecomes(t, pc, NoDraft)
BY DEF GateGo, GateEnd, GateBecomes, Shapes, GateFrame

GateEnds(t) ==
    /\ \E pc \in {"done", "dead"} : GateBecomes(t, pc, NoDraft)
    /\ UNCHANGED <<draft, job, past>>
GateLooks(t, d) ==
    /\ gate[t].pc = "none"
    /\ draft[d].st = "draft" /\ draft[d].turn = t
    /\ turn[t].st = "running"
    /\ GateBecomes(t, "publish", d)
    /\ UNCHANGED <<turn, draft, job, past>>
GatePublishes(t) ==
    /\ gate[t].pc = "publish"
    /\ draft[gate[t].draft].st = "draft"
    /\ \/ Alters(gate[t].draft, "approved") /\ GateBecomes(t, "fence", gate[t].draft)
       \/ Alters(gate[t].draft, "awaiting") /\ GateBecomes(t, "done", NoDraft)
    /\ UNCHANGED <<turn, job, past>>
GatePasses(t) ==
    /\ gate[t].pc = "fence"
    /\ GateBecomes(t, "job", gate[t].draft)
    /\ UNCHANGED <<draft, job, past>>
GateDenies(t) ==
    /\ gate[t].pc = "fence"
    /\ GateBecomes(t, "dead", NoDraft)
    /\ past' = [past EXCEPT !.denied = @ \cup {gate[t].draft}]
    /\ UNCHANGED <<draft, job>>
GatePrepares(t) ==
    /\ gate[t].pc = "job"
    /\ draft[gate[t].draft].st \in {"approved", "prepare_failed"}
    /\ Preparing(gate[t].draft)
    /\ GateBecomes(t, "done", NoDraft)
    /\ UNCHANGED <<turn, past>>

LEMMA GateEffects ==
  ASSUME Typed, NEW t \in Turns, GateStepOf(t)
  PROVE  /\ \/ GateEnds(t) \/ GatePublishes(t) \/ GatePasses(t) \/ GateDenies(t) \/ GatePrepares(t)
            \/ \E d \in Drafts : GateLooks(t, d)
         /\ UNCHANGED <<rev, conv, ledger, frame, posted>>
<1>0. Shapes
  BY DEF Typed
<1>1. CASE GateLook(t)
  <2>1. UNCHANGED <<rev, conv, turn, draft, job, past, ledger, frame, posted>>
    BY <1>1 DEF GateLook, OUTBOX
  <2>2. CASE GateEnd(t, IF turn[t].kind = "reply" THEN "dead" ELSE "done")
    BY <1>0, <2>1, <2>2, GateMoves DEF GateEnds
  <2>3. ASSUME NEW d \in DraftsOf(t), gate' = [gate EXCEPT ![t] = [pc |-> "publish", draft |-> d, conv |-> conv]]
        PROVE  d \in Drafts /\ GateLooks(t, d)
    <3>1. GateBecomes(t, "publish", d)
      BY <1>0, <2>3 DEF GateBecomes, Shapes
    <3> QED
      BY <1>1, <2>1, <2>3, <3>1 DEF GateLook, GateLooks, DraftsOf, GateAt
  <2> QED
    BY <1>1, <2>1, <2>2, <2>3 DEF GateLook
<1>2. CASE GateBlock(t)
  BY <1>0, <1>2, GateMoves DEF GateBlock, GateEnds, OUTBOX
<1>3. CASE GatePublish(t)
  <2>1. UNCHANGED <<rev, conv, turn, job, past, ledger, frame, posted>> /\ gate[t].pc = "publish"
    BY <1>3 DEF GatePublish, OUTBOX, GateAt
  <2>2. CASE draft[gate[t].draft].st = "draft"
    BY <1>0, <1>3, <2>1, <2>2, GateMoves, SetDraftAlters DEF GatePublish, GatePublishes
  <2>3. CASE draft[gate[t].draft].st # "draft"
    BY <1>0, <1>3, <2>1, <2>3, GateMoves DEF GatePublish, GateEnds
  <2> QED
    BY <2>1, <2>2, <2>3
<1>4. CASE GatePass(t)
  BY <1>0, <1>4, GateMoves DEF GatePass, GatePasses, GateAt, OUTBOX
<1>5. CASE GateDeny(t)
  BY <1>0, <1>5, GateMoves DEF GateDeny, GateDenies, GateAt, OUTBOX
<1>6. CASE GatePrepare(t)
  <2>1. UNCHANGED <<rev, conv, turn, past, ledger, frame, posted>> /\ gate[t].pc = "job"
    BY <1>6 DEF GatePrepare, OUTBOX, GateAt
  <2>2. CASE draft[gate[t].draft].st \in {"approved", "prepare_failed"}
    BY <1>0, <1>6, <2>1, <2>2, GateMoves DEF GatePrepare, GatePrepares
  <2>3. CASE draft[gate[t].draft].st \notin {"approved", "prepare_failed"}
    BY <1>0, <1>6, <2>1, <2>3, GateMoves DEF GatePrepare, GateEnds
  <2> QED
    BY <2>1, <2>2, <2>3
<1>7. CASE GateCrash(t)
  BY <1>0, <1>7, GateMoves DEF GateCrash, GateEnds, OUTBOX
<1> QED
  BY <1>1, <1>2, <1>3, <1>4, <1>5, <1>6, <1>7 DEF GateStepOf

LEMMA PreparingJobs ==
  ASSUME Shapes, NEW d \in Drafts, draft[d].turn \in Turns, Preparing(d)
  PROVE  /\ \A u \in Turns \ {draft[d].turn} : job'[u] = job[u]
         /\ LET old == job[draft[d].turn]
                new == job'[draft[d].turn]
            IN  \/ old.st = "completed" /\ new = old
                \/ /\ old.st # "completed"
                   /\ new.st = "pending" /\ new.owner = NoWorker
                   /\ new.draft = IF old.st = "none" THEN d ELSE old.draft
BY DEF Preparing, Shapes, Job

\* Every step but one of a process leaves the frames, the ledger and Zendesk alone
LEMMA StoreStep ==
  ASSUME Typed, \/ CaseStep \/ SaveStep \/ ApproveStep
                \/ \E t \in Turns : GateStepOf(t) \/ Lapse(t)
  PROVE  UNCHANGED <<ledger, frame, posted>>
<1>1. CASE CaseStep \/ SaveStep
  BY <1>1, CaseWithdraws, SaveWithdrawsOrSaves DEF Withdraws, Saves
<1>2. CASE ApproveStep
  BY <1>2 DEF ApproveStep, Approve, RefuseApproval, OUTBOX
<1>3. ASSUME NEW t \in Turns, GateStepOf(t) \/ Lapse(t) PROVE UNCHANGED <<ledger, frame, posted>>
  BY <1>3, GateEffects DEF Lapse, OUTBOX
<1> QED
  BY <1>1, <1>2, <1>3

\* An error status in answer to a comment that was posted
Misjudges(w) == past' = [past EXCEPT !.misjudged = @ \cup {Of(w)}]

\* The steps of a process that leave the store alone
LEMMA DrainEffects ==
  ASSUME Typed, NEW w \in Workers, Deliver(w)
  PROVE  /\ UNCHANGED store
         /\ UNCHANGED past \/ Misjudges(w)
         /\ frame[w].pc \in DrainSteps
         /\ Left(w) \/ \E pc \in DrainSteps : \E out : Moved(w, pc, out)
<1>0. Shapes
  BY DEF Typed
<1> USE DEF DrainSteps
<1>1. CASE LookMirror(w) \/ LookComments(w) \/ LookTicket(w) \/ ClaimDelivery(w)
  <2>1. frame[w].pc \in DrainSteps /\ UNCHANGED <<store, past>>
    BY <1>1 DEF LookMirror, LookComments, LookTicket, ClaimDelivery, At
  <2>2. Leave(w) \/ \E pc \in DrainSteps : Go(w, pc)
    BY <1>1 DEF LookMirror, LookComments, LookTicket, ClaimDelivery
  <2>3. frame[w].out \in {"none", "completed", "ended", "delivered", "outcome_unknown", "failed"}
    BY <1>0 DEF Shapes, Frame
  <2> QED
    BY <1>0, <2>1, <2>2, <2>3, Moves
<1>2. CASE Post(w) \/ PostNothing(w)
  <2>1. frame[w].pc \in DrainSteps /\ UNCHANGED store /\ (UNCHANGED past \/ Misjudges(w))
    BY <1>2 DEF Post, PostNothing, At, Misjudges
  <2>2. Leave(w) \/ \E out \in {"delivered", "failed", "outcome_unknown"} : Sent(w, out)
    BY <1>2 DEF Post, PostNothing
  <2> QED
    BY <1>0, <2>1, <2>2, Moves
<1>3. CASE RecordOutcome(w) \/ Audit(w)
  <2>1. frame[w].pc \in DrainSteps /\ UNCHANGED <<store, past>> /\ Leave(w)
    BY <1>3 DEF RecordOutcome, Audit, At
  <2> QED
    BY <1>0, <2>1, Moves
<1> QED
  BY <1>1, <1>2, <1>3 DEF Deliver

LEMMA TakeUpEffect ==
  ASSUME Typed, NEW w \in Workers, NEW d \in Drafts, TakeUp(w, d)
  PROVE  /\ UNCHANGED <<store, past, ledger, posted>> /\ frame[w].pc = "idle" /\ Others(w)
         /\ frame'[w].draft = d
         /\ \/ ledger[d].st = "queued" /\ frame'[w].pc = "mirror"
            \/ ledger[d].st \in {"pending", "outcome_unknown"} /\ frame'[w].pc = "audit"
<1>1. frame'[w] = [Idle EXCEPT !.draft = d, !.pc = IF ledger[d].st = "queued" THEN "mirror" ELSE "audit"]
  BY DEF TakeUp, Step, Typed, Shapes
<1>2. Others(w)
  BY DEF TakeUp, Step, Others, Typed, Shapes
<1>3. frame'[w].draft = d /\ frame'[w].pc = IF ledger[d].st = "queued" THEN "mirror" ELSE "audit"
  BY <1>1 DEF Idle
<1> QED
  BY <1>2, <1>3 DEF TakeUp, At

LEMMA ClaimPrepEffect ==
  ASSUME Typed, NEW w \in Workers, NEW t \in Turns, ClaimPrep(w, t)
  PROVE  /\ UNCHANGED <<rev, conv, turn, gate, draft, ledger, posted, past>>
         /\ frame[w].pc = "idle" /\ Others(w)
         /\ frame'[w].pc = "load" /\ frame'[w].turn = t /\ frame'[w].draft = job[t].draft
         /\ job[t].st = "pending"
         /\ \A u \in Turns \ {t} : job'[u] = job[u]
         /\ job'[t].st = "claimed" /\ job'[t].owner = w /\ job'[t].draft = job[t].draft
<1>1. frame'[w] = [Idle EXCEPT !.pc = "load", !.turn = t, !.draft = job[t].draft]
  BY DEF ClaimPrep, Step, Typed, Shapes
<1>2. Others(w)
  BY DEF ClaimPrep, Step, Others, Typed, Shapes
<1>3. frame'[w].pc = "load" /\ frame'[w].turn = t /\ frame'[w].draft = job[t].draft
  BY <1>1 DEF Idle
<1>4. /\ \A u \in Turns \ {t} : job'[u] = job[u]
      /\ job'[t].st = "claimed" /\ job'[t].owner = w /\ job'[t].draft = job[t].draft
  BY DEF ClaimPrep, Typed, Shapes, Job
<1> QED
  BY <1>2, <1>3, <1>4 DEF ClaimPrep, At

LEMMA LapseEffect ==
  ASSUME Typed, NEW t \in Turns, Lapse(t)
  PROVE  /\ UNCHANGED <<rev, conv, turn, gate, draft, ledger, frame, posted, past>>
         /\ job[t].st = "claimed"
         /\ \A u \in Turns \ {t} : job'[u] = job[u]
         /\ job'[t].st = "pending" /\ job'[t].owner = NoWorker /\ job'[t].draft = job[t].draft
<1>1. /\ \A u \in Turns \ {t} : job'[u] = job[u]
      /\ job'[t].st = "pending" /\ job'[t].owner = NoWorker /\ job'[t].draft = job[t].draft
  BY DEF Lapse, Typed, Shapes, Job
<1> QED
  BY <1>1 DEF Lapse, OUTBOX

LEMMA TroubleEffect ==
  ASSUME Typed, NEW w \in Workers, PrepError(w) \/ Crash(w)
  PROVE  /\ UNCHANGED <<store, ledger, posted>>
         /\ \/ UNCHANGED past /\ Left(w)
            \/ /\ frame[w].pc \in PrepSteps /\ Moved(w, "finish", "ended")
               /\ past' = [past EXCEPT !.broken = @ \cup {Of(w)}]
BY Moves DEF PrepError, Crash, Typed

\* The steps of a preparation
Reads(w, pc, out) ==
    /\ UNCHANGED <<draft, job, ledger>>
    /\ Moved(w, pc, out)
    /\ \/ pc \in {"fence", "store", "failprep"}
       \/ /\ pc = "queue" /\ frame[w].pc = "load"
          /\ draft[Of(w)].st = "approved"
       \/ /\ pc = "ledger" /\ frame[w].pc = "queue"
          /\ draft[Of(w)].st = "approved"
       \/ /\ pc = "finish" /\ out = "ended" /\ frame[w].pc = "queue"
       \/ /\ pc = "finish" /\ out = "ended" /\ frame[w].pc = "load"
          /\ draft[Of(w)].st = "prepare_failed"
       \/ /\ pc = "finish" /\ out = "completed" /\ frame[w].pc = "load"
          /\ draft[Of(w)].st \notin {"preparing", "prepare_failed"}
          /\ ~(draft[Of(w)].st = "approved" /\ draft[Of(w)].text)
Fails(w) ==
    /\ UNCHANGED <<job, ledger>>
    /\ Moved(w, "finish", "ended")
    /\ \/ draft[Of(w)].st = "preparing" /\ Alters(Of(w), "prepare_failed")
       \/ draft[Of(w)].st # "preparing" /\ UNCHANGED draft
Stores(w) ==
    /\ UNCHANGED <<job, ledger>>
    /\ \/ /\ draft[Of(w)].st = "preparing" /\ Alters(Of(w), "approved")
          /\ draft'[Of(w)].text = TRUE
          /\ Moved(w, "queue", frame[w].out)
       \/ draft[Of(w)].st # "preparing" /\ UNCHANGED draft /\ Moved(w, "finish", "ended")
Writes(w) ==
    /\ UNCHANGED <<draft, job>>
    /\ frame[w].pc = "ledger"
    /\ Moved(w, "mark", frame[w].out)
    /\ \A d \in Drafts \ {Of(w)} : ledger'[d] = ledger[d]
    /\ \/ ledger[Of(w)].st = "none" /\ ledger'[Of(w)].st = "queued"
       \/ ledger[Of(w)].st # "none" /\ ledger'[Of(w)] = ledger[Of(w)]
Marks(w) ==
    /\ UNCHANGED <<job, ledger>>
    /\ frame[w].pc = "mark"
    /\ \/ draft[Of(w)].st = "approved" /\ Alters(Of(w), "queued") /\ Moved(w, "finish", "completed")
       \/ draft[Of(w)].st # "approved" /\ UNCHANGED draft /\ Moved(w, "finish", "ended")
Finishes(w) ==
    /\ UNCHANGED <<draft, ledger>>
    /\ frame[w].pc = "finish"
    /\ Left(w)
    /\ \A u \in Turns \ {frame[w].turn} : job'[u] = job[u]
    /\ LET old == job[frame[w].turn]
           new == job'[frame[w].turn]
       IN  \/ /\ old.st = "claimed" /\ old.owner = w
              /\ new.st = frame[w].out /\ new.owner = NoWorker /\ new.draft = old.draft
           \/ ~(old.st = "claimed" /\ old.owner = w) /\ new = old

LEMMA PrepareEffects ==
  ASSUME Typed, NEW w \in Workers, Prepare(w), frame[w].turn \in Turns
  PROVE  /\ UNCHANGED <<rev, conv, turn, gate, posted, past>>
         /\ PrepFrame(w)
         /\ \/ \E pc \in PrepSteps \cup {"finish"} : \E out : Reads(w, pc, out)
            \/ Fails(w) \/ Stores(w) \/ Writes(w) \/ Marks(w) \/ Finishes(w)
<1>0. Shapes /\ frame[w].out \in {"none", "completed", "ended", "delivered", "outcome_unknown", "failed"}
  BY DEF Typed, Shapes, Frame
<1>1. UNCHANGED <<rev, conv, turn, gate, posted, past>>
  BY DEF Prepare, LoadDraft, Translate, RejectText, FailPrep, StoreText, QueueLook, WriteLedger,
     MarkQueued, Finish, store
<1>2. PrepFrame(w)
  BY DEF Prepare, LoadDraft, Translate, RejectText, FailPrep, StoreText, QueueLook, WriteLedger,
     MarkQueued, Finish, PrepFrame, PrepSteps, At
<1>3. \A pc \in PrepSteps : Go(w, pc) => Moved(w, pc, frame[w].out)
  BY <1>0, Moves
<1>4. \A out \in {"completed", "ended"} : End(w, out) => Moved(w, "finish", out)
  BY <1>0, Moves
<1> SUFFICES \/ \E pc \in PrepSteps \cup {"finish"} : \E out : Reads(w, pc, out)
             \/ Fails(w) \/ Stores(w) \/ Writes(w) \/ Marks(w) \/ Finishes(w)
  BY <1>1, <1>2
<1>5. CASE LoadDraft(w)
  <2>1. UNCHANGED <<draft, job, ledger>> /\ frame[w].pc = "load"
    BY <1>5 DEF LoadDraft, At, store
  <2>2. CASE draft[Of(w)].st = "approved" /\ draft[Of(w)].text
    <3>1. Reads(w, "queue", frame[w].out)
      BY <1>3, <1>5, <2>1, <2>2 DEF LoadDraft, Reads, PrepSteps
    <3> QED
      BY <3>1 DEF PrepSteps
  <2>3. CASE draft[Of(w)].st = "preparing"
    <3>1. Reads(w, "fence", frame[w].out)
      BY <1>3, <1>5, <2>1, <2>3 DEF LoadDraft, Reads, PrepSteps
    <3> QED
      BY <3>1 DEF PrepSteps
  <2>4. CASE draft[Of(w)].st = "prepare_failed"
    <3>1. Reads(w, "finish", "ended")
      BY <1>4, <1>5, <2>1, <2>4 DEF LoadDraft, Reads
    <3> QED
      BY <3>1
  <2>5. CASE /\ draft[Of(w)].st \notin {"preparing", "prepare_failed"}
             /\ ~(draft[Of(w)].st = "approved" /\ draft[Of(w)].text)
    <3>1. Reads(w, "finish", "completed")
      BY <1>4, <1>5, <2>1, <2>5 DEF LoadDraft, Reads
    <3> QED
      BY <3>1
  <2> QED
    BY <2>2, <2>3, <2>4, <2>5
<1>6. CASE Translate(w)
  <2>1. Reads(w, "store", frame[w].out)
    BY <1>3, <1>6 DEF Translate, Reads, PrepSteps, store
  <2> QED
    BY <2>1 DEF PrepSteps
<1>7. CASE RejectText(w)
  <2>1. Reads(w, "failprep", frame[w].out)
    BY <1>3, <1>7 DEF RejectText, Reads, PrepSteps, store
  <2> QED
    BY <2>1 DEF PrepSteps
<1>8. CASE FailPrep(w)
  BY <1>0, <1>4, <1>8, SetDraftAlters DEF FailPrep, Fails
<1>9. CASE StoreText(w)
  BY <1>3, <1>4, <1>9, StoreTextAlters DEF StoreText, Stores, PrepSteps
<1>10. CASE QueueLook(w)
  <2>1. UNCHANGED <<draft, job, ledger>> /\ frame[w].pc = "queue"
    BY <1>10 DEF QueueLook, At, store
  <2>2. CASE draft[Of(w)].st = "approved" /\ draft[Of(w)].rev = rev
    <3>1. Moved(w, "ledger", frame[w].out)
      BY <1>0, <1>10, <2>2, Moves DEF QueueLook, PrepSteps
    <3>2. Reads(w, "ledger", frame[w].out)
      BY <2>1, <2>2, <3>1 DEF Reads
    <3> QED
      BY <3>2 DEF PrepSteps
  <2>3. CASE ~(draft[Of(w)].st = "approved" /\ draft[Of(w)].rev = rev)
    <3>1. Reads(w, "finish", "ended")
      BY <1>4, <1>10, <2>1, <2>3 DEF QueueLook, Reads
    <3> QED
      BY <3>1
  <2> QED
    BY <2>2, <2>3
<1>11. CASE WriteLedger(w)
  <2>1. PICK d \in Drafts : d = Of(w)
    BY <1>11 DEF WriteLedger, At, Typed, Named
  <2>2. /\ \A e \in Drafts \ {d} : ledger'[e] = ledger[e]
        /\ \/ ledger[d].st = "none" /\ ledger'[d].st = "queued"
           \/ ledger[d].st # "none" /\ ledger'[d] = ledger[d]
    <3>1. ledger' = [ledger EXCEPT ![d] = IF ledger[d].st = "none" THEN NewDelivery(w) ELSE ledger[d]]
      BY <1>11, <2>1 DEF WriteLedger
    <3>2. NewDelivery(w).st = "queued"
      BY DEF NewDelivery
    <3> QED
      BY <1>0, <3>1, <3>2 DEF Shapes
  <2> QED
    BY <1>3, <1>11, <2>1, <2>2 DEF WriteLedger, Writes, PrepSteps, At, store
<1>12. CASE MarkQueued(w)
  BY <1>0, <1>4, <1>12, SetDraftAlters DEF MarkQueued, Marks, At
<1>13. CASE Finish(w)
  <2>1. Left(w)
    BY <1>0, <1>13, Moves DEF Finish
  <2> QED
    <3> DEFINE t == frame[w].turn
               new == IF job[t].st = "claimed" /\ job[t].owner = w
                      THEN [job[t] EXCEPT !.st = frame[w].out, !.owner = NoWorker] ELSE job[t]
    <3>1. (\A u \in Turns \ {t} : job'[u] = job[u]) /\ job'[t] = new
      BY <1>0, <1>13 DEF Finish, Shapes
    <3>2. job[t] \in Job /\ frame[w].out \in JobStatus
      BY <1>0, <1>13 DEF Shapes, Finish, Typed, Named, At, JobStatus
    <3>3. \/ /\ job[t].st = "claimed" /\ job[t].owner = w
             /\ new.st = frame[w].out /\ new.owner = NoWorker /\ new.draft = job[t].draft
          \/ ~(job[t].st = "claimed" /\ job[t].owner = w) /\ new = job[t]
      BY <3>2 DEF Job
    <3> HIDE DEF new
    <3> QED
      BY <1>13, <2>1, <3>1, <3>3 DEF Finish, Finishes, At
<1> QED
  BY <1>5, <1>6, <1>7, <1>8, <1>9, <1>10, <1>11, <1>12, <1>13 DEF Prepare

------------------------------------------------------------------------------
(* The links are kept *)

\* How a step of a process moves its frame
LEMMA WorkerFrames ==
  ASSUME Typed, PrepLink, NEW w \in Workers,
         \/ Prepare(w) \/ Deliver(w) \/ PrepError(w) \/ Crash(w)
  PROVE  \/ Left(w)
         \/ PrepFrame(w) /\ \E pc \in PrepSteps \cup {"finish"} : \E out : Moved(w, pc, out)
         \/ DrainFrame(w) /\ \E pc \in DrainSteps : \E out : Moved(w, pc, out)
<1>1. CASE Prepare(w)
  <2>1. PrepFrame(w)
    BY <1>1 DEF Prepare, LoadDraft, Translate, RejectText, FailPrep, StoreText, QueueLook,
       WriteLedger, MarkQueued, Finish, PrepFrame, PrepSteps, At
  <2>2. \/ \E pc \in PrepSteps \cup {"finish"} : \E out : Reads(w, pc, out)
        \/ Fails(w) \/ Stores(w) \/ Writes(w) \/ Marks(w) \/ Finishes(w)
    BY <1>1, <2>1, PrepareEffects DEF PrepLink
  <2> QED
    BY <2>1, <2>2 DEF Reads, Fails, Stores, Writes, Marks, Finishes, PrepSteps
<1>2. CASE Deliver(w)
  BY <1>2, DrainEffects DEF DrainFrame
<1>3. CASE PrepError(w) \/ Crash(w)
  BY <1>3, TroubleEffect DEF PrepFrame
<1> QED
  BY <1>1, <1>2, <1>3

LEMMA PrepTurn ==
  ASSUME PrepLink, NEW w \in Workers, Prepare(w) PROVE frame[w].turn \in Turns
BY DEF PrepLink, Prepare, LoadDraft, Translate, RejectText, FailPrep, StoreText, QueueLook,
   WriteLedger, MarkQueued, Finish, PrepFrame, PrepSteps, At

LEMMA NewRows ==
  ASSUME Typed, Linked, Next
  PROVE  \/ \A d \in Drafts : draft'[d].st # "none" => draft[d].st # "none"
         \/ \E t \in Turns, d \in Drafts : Saves(t, d)
<1> DEFINE NoNew == \A d \in Drafts : draft'[d].st # "none" => draft[d].st # "none"
<1>0. Shapes
  BY DEF Typed
<1>1. ASSUME NEW d \in Drafts, NEW st, draft[d].st # "none", Alters(d, st) PROVE NoNew
  BY <1>1 DEF Alters
<1>2. ASSUME Withdraws PROVE NoNew
  BY <1>2 DEF Withdraws, Withdrawn
<1>3. ASSUME NEW t \in Turns, GateStepOf(t) PROVE NoNew
  <2>1. gate[t].pc \in {"publish", "fence", "job"} => gate[t].draft \in Drafts
    BY DEF Typed, Named
  <2>2. CASE GatePublishes(t)
    BY <1>1, <2>1, <2>2 DEF GatePublishes
  <2>3. CASE GatePrepares(t)
    BY <1>0, <1>1, <2>1, <2>3, PreparingAlters DEF GatePrepares
  <2> QED
    BY <1>3, <2>2, <2>3, GateEffects DEF GateEnds, GateLooks, GatePasses, GateDenies
<1>4. CASE ApproveStep
  <2>1. ASSUME NEW d \in Drafts, Approve(d) PROVE NoNew
    BY <1>0, <1>1, <2>1, PreparingAlters DEF Approve, Approvable
  <2> QED
    BY <1>4, <2>1 DEF ApproveStep, RefuseApproval, store
<1>5. ASSUME NEW w \in Workers, Prepare(w) PROVE NoNew
  <2>1. Of(w) \in Drafts
    BY <1>5, PrepTurn, PrepareEffects DEF Linked, PrepFrame, PrepSteps, Typed, Named, At
  <2>2. \/ \E pc \in PrepSteps \cup {"finish"} : \E out : Reads(w, pc, out)
        \/ Fails(w) \/ Stores(w) \/ Writes(w) \/ Marks(w) \/ Finishes(w)
    BY <1>5, PrepTurn, PrepareEffects DEF Linked
  <2> QED
    BY <1>1, <2>1, <2>2 DEF Reads, Fails, Stores, Writes, Marks, Finishes
<1>6. ASSUME NEW t \in Turns, Lapse(t) PROVE NoNew
  BY <1>6, LapseEffect
<1>7. ASSUME NEW w \in Workers, \/ Deliver(w) \/ PrepError(w) \/ Crash(w)
                                \/ \E t \in Turns : ClaimPrep(w, t)
                                \/ \E d \in Drafts : TakeUp(w, d)
      PROVE NoNew
  BY <1>7, DrainEffects, TroubleEffect, ClaimPrepEffect, TakeUpEffect DEF store
<1> HIDE DEF NoNew
<1>8. CASE CaseStep \/ SaveStep
  BY <1>2, <1>8, CaseWithdraws, SaveWithdrawsOrSaves DEF NoNew
<1> QED
  BY <1>3, <1>4, <1>5, <1>6, <1>7, <1>8 DEF Next, NoNew

LEMMA DraftLinked == ASSUME Typed, Linked, Next PROVE DraftLink'
<1>1. \A d \in Drafts : RowStays(d)
  BY StepStays DEF Stays
<1>2. CASE \A d \in Drafts : draft'[d].st # "none" => draft[d].st # "none"
  BY <1>1, <1>2 DEF Linked, DraftLink, RowStays
<1>3. ASSUME NEW t \in Turns, NEW d \in Drafts, Saves(t, d) PROVE DraftLink'
  BY <1>3 DEF Linked, DraftLink, Saves, Typed, Shapes, DraftRow
<1> QED
  BY <1>2, <1>3, NewRows

\* A gate moves by a step of its own turn
LEMMA GateOrigin ==
  ASSUME Typed, Linked, Next, NEW t \in Turns
  PROVE  gate'[t] = gate[t] \/ GateStepOf(t)
<1>1. CASE CaseStep \/ SaveStep
  BY <1>1, CaseWithdraws, SaveWithdrawsOrSaves DEF Withdraws, Saves
<1>2. ASSUME NEW u \in Turns, GateStepOf(u) PROVE gate'[t] = gate[t] \/ GateStepOf(t)
  BY <1>2, GateEffects DEF GateEnds, GateLooks, GatePublishes, GatePasses, GateDenies,
     GatePrepares, GateBecomes
<1>3. ASSUME NEW u \in Turns, Lapse(u) PROVE gate'[t] = gate[t]
  BY <1>3, LapseEffect
<1>4. CASE ApproveStep
  BY <1>4 DEF ApproveStep, Approve, RefuseApproval, store
<1>5. ASSUME NEW w \in Workers, Prepare(w) PROVE gate'[t] = gate[t]
  BY <1>5, PrepTurn, PrepareEffects DEF Linked
<1>6. ASSUME NEW w \in Workers, \/ Deliver(w) \/ PrepError(w) \/ Crash(w)
                                \/ \E u \in Turns : ClaimPrep(w, u)
                                \/ \E d \in Drafts : TakeUp(w, d)
      PROVE  gate'[t] = gate[t]
  BY <1>6, DrainEffects, TroubleEffect, ClaimPrepEffect, TakeUpEffect DEF store
<1> QED
  BY <1>1, <1>2, <1>3, <1>4, <1>5, <1>6 DEF Next

LEMMA GateLinked == ASSUME Typed, Linked, Next PROVE GateLink'
<1>1. \A d \in Drafts : RowStays(d)
  BY StepStays DEF Stays
<1> SUFFICES ASSUME NEW t \in Turns, gate'[t].pc \in {"publish", "fence", "job"}
             PROVE  OfTurn(gate[t].draft, t)'
  BY DEF GateLink
<1>2. CASE gate[t].pc \in {"publish", "fence", "job"} /\ gate'[t].draft = gate[t].draft
  <2>1. gate[t].draft \in Drafts /\ OfTurn(gate[t].draft, t)
    BY <1>2 DEF Linked, GateLink, Typed, Named
  <2> QED
    BY <1>1, <1>2, <2>1 DEF RowStays, OfTurn
<1>3. ASSUME NEW d \in Drafts, GateLooks(t, d) PROVE OfTurn(gate[t].draft, t)'
  BY <1>3 DEF GateLooks, GateBecomes, OfTurn
<1> QED
  BY <1>2, <1>3, GateOrigin, GateEffects DEF GateEnds, GatePublishes, GatePasses, GateDenies,
     GatePrepares, GateBecomes

\* Only a draft that enters preparation changes the draft of a job
LEMMA JobOrigin ==
  ASSUME Typed, Linked, Next, NEW t \in Turns
  PROVE  \/ job'[t].draft = job[t].draft /\ (job[t].st = "none" => job'[t].st = "none")
         \/ \E d \in Drafts : Preparing(d) /\ OfTurn(d, t)
<1> DEFINE Same == job'[t].draft = job[t].draft /\ (job[t].st = "none" => job'[t].st = "none")
           Prepared == \E d \in Drafts : Preparing(d) /\ OfTurn(d, t)
<1>0. Shapes
  BY DEF Typed
<1>1. ASSUME NEW d \in Drafts, draft[d].st # "none", Preparing(d) PROVE Same \/ Prepared
  <2>1. draft[d].turn \in Turns
    BY <1>1 DEF Linked, DraftLink
  <2>2. CASE draft[d].turn = t
    BY <1>1, <2>2 DEF OfTurn
  <2>3. CASE draft[d].turn # t
    BY <1>0, <1>1, <2>1, <2>3, PreparingJobs
  <2> QED
    BY <2>2, <2>3
<1>2. CASE CaseStep \/ SaveStep
  BY <1>2, CaseWithdraws, SaveWithdrawsOrSaves DEF Withdraws, Saves
<1>3. ASSUME NEW u \in Turns, GateStepOf(u) PROVE Same \/ Prepared
  <2>1. CASE GatePrepares(u)
    BY <1>1, <2>1 DEF GatePrepares, Typed, Named
  <2> QED
    BY <1>3, <2>1, GateEffects DEF GateEnds, GateLooks, GatePublishes, GatePasses, GateDenies
<1>4. ASSUME NEW u \in Turns, Lapse(u) PROVE Same
  BY <1>4, LapseEffect
<1>5. CASE ApproveStep
  BY <1>1, <1>5 DEF ApproveStep, Approve, Approvable, RefuseApproval, store
<1>6. ASSUME NEW w \in Workers, Prepare(w) PROVE Same
  <2>1. \/ \E pc \in PrepSteps \cup {"finish"} : \E out : Reads(w, pc, out)
        \/ Fails(w) \/ Stores(w) \/ Writes(w) \/ Marks(w) \/ Finishes(w)
    BY <1>6, PrepTurn, PrepareEffects DEF Linked
  <2> QED
    BY <2>1 DEF Reads, Fails, Stores, Writes, Marks, Finishes
<1>7. ASSUME NEW w \in Workers, \/ Deliver(w) \/ PrepError(w) \/ Crash(w)
                                \/ \E d \in Drafts : TakeUp(w, d)
      PROVE  Same
  BY <1>7, DrainEffects, TroubleEffect, TakeUpEffect DEF store
<1>8. ASSUME NEW w \in Workers, NEW u \in Turns, ClaimPrep(w, u) PROVE Same
  BY <1>8, ClaimPrepEffect
<1> HIDE DEF Same, Prepared
<1> QED
  BY <1>2, <1>3, <1>4, <1>5, <1>6, <1>7, <1>8 DEF Next, Same, Prepared

LEMMA JobLinked == ASSUME Typed, Linked, Next PROVE JobLink'
<1>1. (\A d \in Drafts : RowStays(d)) /\ \A t \in Turns : JobStays(t)
  BY StepStays DEF Stays
<1> SUFFICES ASSUME NEW t \in Turns, job'[t].st # "none" PROVE OfTurn(job[t].draft, t)'
  BY DEF JobLink
<1>2. CASE job[t].st # "none"
  <2>1. job[t].draft \in Drafts /\ OfTurn(job[t].draft, t)
    BY <1>2 DEF Linked, JobLink, Typed, Named
  <2> QED
    BY <1>1, <1>2, <2>1 DEF RowStays, JobStays, OfTurn
<1>3. CASE job[t].st = "none"
  <2>1. PICK d \in Drafts : Preparing(d) /\ OfTurn(d, t)
    BY <1>3, JobOrigin
  <2>2. job'[t].draft = d
    BY <1>3, <2>1, PreparingJobs DEF Typed, OfTurn
  <2> QED
    BY <1>1, <2>1, <2>2 DEF RowStays, OfTurn
<1> QED
  BY <1>2, <1>3

LEMMA LedgerLinked == ASSUME Typed, Linked, Next PROVE LedgerLink'
<1>1. (\A d \in Drafts : RowStays(d)) /\ \A t \in Turns : JobStays(t)
  BY StepStays DEF Stays
<1>2. ASSUME NEW d \in Drafts, ledger'[d].st # "none", ledger[d].st = "none"
      PROVE  \E w \in Workers : Writes(w) /\ Of(w) = d
  <2>1. CASE \/ CaseStep \/ SaveStep \/ ApproveStep
             \/ \E t \in Turns : GateStepOf(t) \/ Lapse(t)
    BY <1>2, <2>1, StoreStep
  <2>2. ASSUME NEW w \in Workers, Prepare(w) PROVE Writes(w) /\ Of(w) = d
    <3>1. \/ \E pc \in PrepSteps \cup {"finish"} : \E out : Reads(w, pc, out)
          \/ Fails(w) \/ Stores(w) \/ Writes(w) \/ Marks(w) \/ Finishes(w)
      BY <2>2, PrepTurn, PrepareEffects DEF Linked
    <3> QED
      BY <1>2, <3>1 DEF Reads, Fails, Stores, Writes, Marks, Finishes
  <2>3. ASSUME NEW w \in Workers, Deliver(w) PROVE FALSE
    <3>1. ledger[Of(w)].st # "none"
      BY <2>3, DrainEffects DEF Linked, DrainLink, DrainFrame
    <3>2. d # Of(w)
      BY <1>2, <3>1
    <3>3. ASSUME NEW st, Record(Of(w), st) PROVE ledger'[d] = ledger[d]
      BY <3>2, <3>3 DEF Record, Typed, Shapes
    <3>4. ledger'[d] = ledger[d]
      BY <2>3, <3>2, <3>3 DEF Deliver, LookMirror, LookComments, LookTicket, ClaimDelivery, Post,
         PostNothing, RecordOutcome, Audit, Typed, Shapes
    <3> QED
      BY <1>2, <3>4
  <2>4. ASSUME NEW w \in Workers, \/ PrepError(w) \/ Crash(w)
                                  \/ \E t \in Turns : ClaimPrep(w, t)
                                  \/ \E e \in Drafts : TakeUp(w, e)
        PROVE  FALSE
    BY <1>2, <2>4, TroubleEffect, ClaimPrepEffect, TakeUpEffect
  <2> QED
    BY <2>1, <2>2, <2>3, <2>4 DEF Next
<1> SUFFICES ASSUME NEW d \in Drafts, ledger'[d].st # "none"
             PROVE  draft'[d].st # "none" /\ Assigned(d)'
  BY DEF LedgerLink
<1>3. draft[d].st # "none" /\ Assigned(d)
  <2>1. CASE ledger[d].st # "none"
    BY <2>1 DEF Linked, LedgerLink
  <2>2. CASE ledger[d].st = "none"
    <3>1. PICK w \in Workers : Writes(w) /\ Of(w) = d
      BY <1>2, <2>2
    <3>2. /\ frame[w].turn \in Turns /\ job[frame[w].turn].st # "none"
          /\ job[frame[w].turn].draft = d
      BY <3>1 DEF Linked, PrepLink, PrepFrame, PrepSteps, Writes
    <3> QED
      BY <3>2 DEF Linked, JobLink, OfTurn, Assigned
  <2> QED
    BY <2>1, <2>2
<1>4. draft[d].turn \in Turns
  BY <1>3 DEF Linked, DraftLink
<1> QED
  BY <1>1, <1>3, <1>4 DEF RowStays, JobStays, Assigned

LEMMA FramesLinked == ASSUME Typed, Linked, Next PROVE PrepLink' /\ DrainLink'
<1>1. (\A t \in Turns : JobStays(t)) /\ \A d \in Drafts : DeliveryStays(d)
  BY StepStays DEF Stays
<1>2. ASSUME NEW v \in Workers, ~At(v, "idle") => Of(v) \in Drafts, frame'[v] = frame[v]
      PROVE  /\ PrepFrame(v)' => /\ frame'[v].turn \in Turns
                                /\ job'[frame'[v].turn].st # "none"
                                /\ job'[frame'[v].turn].draft = frame'[v].draft
             /\ DrainFrame(v)' => ledger'[frame'[v].draft].st # "none"
  <2>1. PrepFrame(v)' => /\ frame'[v].turn \in Turns
                         /\ job'[frame'[v].turn].st # "none"
                         /\ job'[frame'[v].turn].draft = frame'[v].draft
    BY <1>1, <1>2 DEF Linked, PrepLink, PrepFrame, Of, JobStays
  <2>2. DrainFrame(v)' => ledger'[frame'[v].draft].st # "none"
    BY <1>1, <1>2 DEF Linked, DrainLink, DrainFrame, DrainSteps, Of, At, DeliveryStays
  <2> QED
    BY <2>1, <2>2
<1> SUFFICES ASSUME NEW v \in Workers
             PROVE  /\ PrepFrame(v)' => /\ frame'[v].turn \in Turns
                                       /\ job'[frame'[v].turn].st # "none"
                                       /\ job'[frame'[v].turn].draft = frame'[v].draft
                    /\ DrainFrame(v)' => ledger'[frame'[v].draft].st # "none"
  BY DEF PrepLink, DrainLink, Of
<1>3. ~At(v, "idle") => Of(v) \in Drafts
  BY DEF Typed, Named
<1>4. CASE \/ CaseStep \/ SaveStep \/ ApproveStep
           \/ \E t \in Turns : GateStepOf(t) \/ Lapse(t)
  BY <1>2, <1>3, <1>4, StoreStep
<1>5. ASSUME NEW w \in Workers, w # v, Others(w) PROVE frame'[v] = frame[v]
  BY <1>5 DEF Others
<1> USE DEF PrepFrame, DrainFrame, PrepSteps, DrainSteps
<1>6. ASSUME NEW w \in Workers, Prepare(w) \/ Deliver(w) \/ PrepError(w) \/ Crash(w)
      PROVE  \/ frame'[v] = frame[v]
             \/ Left(v)
             \/ PrepFrame(v) /\ \E pc \in PrepSteps \cup {"finish"} : \E out : Moved(v, pc, out)
             \/ DrainFrame(v) /\ \E pc \in DrainSteps : \E out : Moved(v, pc, out)
  <2>1. CASE w = v
    BY <1>6, <2>1, WorkerFrames DEF Linked
  <2>2. CASE w # v
    BY <1>5, <1>6, <2>2, WorkerFrames DEF Linked, Left, Moved
  <2> QED
    BY <2>1, <2>2
<1>7. CASE Left(v)
  BY <1>7 DEF Left
<1>8. ASSUME PrepFrame(v), NEW pc \in PrepSteps \cup {"finish"}, NEW out, Moved(v, pc, out)
      PROVE  /\ frame'[v].turn \in Turns
             /\ job'[frame'[v].turn].st # "none"
             /\ job'[frame'[v].turn].draft = frame'[v].draft
             /\ frame'[v].pc \notin DrainSteps
  BY <1>1, <1>8 DEF Linked, PrepLink, Moved, JobStays
<1>9. ASSUME DrainFrame(v), NEW pc \in DrainSteps, NEW out, Moved(v, pc, out)
      PROVE  ledger'[frame'[v].draft].st # "none" /\ frame'[v].pc \in DrainSteps
  BY <1>1, <1>3, <1>9 DEF Linked, DrainLink, Moved, DeliveryStays, At
<1>10. ASSUME NEW w \in Workers, NEW t \in Turns, ClaimPrep(w, t)
       PROVE  \/ frame'[v] = frame[v]
              \/ /\ frame'[v].pc = "load" /\ frame'[v].turn = t /\ job'[t].st # "none"
                 /\ frame'[v].draft = job'[t].draft
  BY <1>5, <1>10, ClaimPrepEffect
<1>11. ASSUME NEW w \in Workers, NEW d \in Drafts, TakeUp(w, d)
       PROVE  \/ frame'[v] = frame[v]
              \/ frame'[v].pc \in {"mirror", "audit"} /\ ledger'[frame'[v].draft].st # "none"
  BY <1>5, <1>11, TakeUpEffect
<1>12. ASSUME NEW w \in Workers, Prepare(w) \/ Deliver(w) \/ PrepError(w) \/ Crash(w)
       PROVE  /\ PrepFrame(v)' => /\ frame'[v].turn \in Turns
                                 /\ job'[frame'[v].turn].st # "none"
                                 /\ job'[frame'[v].turn].draft = frame'[v].draft
              /\ DrainFrame(v)' => ledger'[frame'[v].draft].st # "none"
  BY <1>2, <1>3, <1>6, <1>7, <1>8, <1>9, <1>12
<1>13. ASSUME NEW w \in Workers, \/ \E t \in Turns : ClaimPrep(w, t)
                                 \/ \E d \in Drafts : TakeUp(w, d)
       PROVE  /\ PrepFrame(v)' => /\ frame'[v].turn \in Turns
                                 /\ job'[frame'[v].turn].st # "none"
                                 /\ job'[frame'[v].turn].draft = frame'[v].draft
              /\ DrainFrame(v)' => ledger'[frame'[v].draft].st # "none"
  BY <1>2, <1>3, <1>10, <1>11, <1>13
<1> QED
  BY <1>4, <1>12, <1>13 DEF Next

LEMMA NamedStays == ASSUME Typed, Linked, Next PROVE Named'
<1>1. ASSUME NEW t \in Turns, gate'[t].pc \in {"publish", "fence", "job"}
      PROVE  gate'[t].draft \in Drafts
  <2>1. CASE gate[t].pc \in {"publish", "fence", "job"} /\ gate'[t].draft = gate[t].draft
    BY <2>1 DEF Typed, Named
  <2>2. ASSUME NEW d \in Drafts, GateLooks(t, d) PROVE gate'[t].draft \in Drafts
    BY <2>2 DEF GateLooks, GateBecomes
  <2> QED
    BY <1>1, <2>1, <2>2, GateOrigin, GateEffects DEF GateEnds, GatePublishes, GatePasses,
       GateDenies, GatePrepares, GateBecomes
<1>2. ASSUME NEW t \in Turns, job'[t].st # "none" PROVE job'[t].draft \in Drafts
  <2>1. CASE job[t].st # "none"
    BY <2>1, StepStays DEF Stays, JobStays, Typed, Named
  <2>2. CASE job[t].st = "none"
    <3>1. PICK d \in Drafts : Preparing(d) /\ OfTurn(d, t)
      BY <1>2, <2>2, JobOrigin
    <3> QED
      BY <2>2, <3>1, PreparingJobs DEF Typed, OfTurn
  <2> QED
    BY <2>1, <2>2
<1> DEFINE Fits(f) == /\ f.pc # "idle" => f.draft \in Drafts
                      /\ f.pc = "finish" => f.out \in {"completed", "ended"}
                      /\ f.pc = "record" => f.out \in {"delivered", "outcome_unknown", "failed"}
<1>3. ASSUME NEW v \in Workers PROVE Fits(frame'[v])
  <2>1. Fits(frame[v])
    BY DEF Typed, Named, At, Of
  <2>2. CASE frame'[v] = frame[v]
    BY <2>1, <2>2
  <2>3. ASSUME NEW w \in Workers, v # w, Others(w) PROVE frame'[v] = frame[v]
    BY <2>3 DEF Others
  <2>4. CASE \/ CaseStep \/ SaveStep \/ ApproveStep
             \/ \E t \in Turns : GateStepOf(t) \/ Lapse(t)
    BY <2>2, <2>4, StoreStep
  <2>5. ASSUME NEW w \in Workers, Prepare(w) \/ PrepError(w) \/ Crash(w) PROVE Fits(frame'[v])
    <3>1. CASE v # w
      BY <2>2, <2>3, <2>5, <3>1, WorkerFrames DEF Linked, Moved, Left
    <3>2. CASE v = w /\ Prepare(w)
      <4>1. PrepFrame(w) /\ \/ \E pc \in PrepSteps \cup {"finish"} : \E out : Reads(w, pc, out)
                            \/ Fails(w) \/ Stores(w) \/ Writes(w) \/ Marks(w) \/ Finishes(w)
        BY <3>2, PrepTurn, PrepareEffects DEF Linked
      <4>2. Of(w) \in Drafts
        BY <4>1 DEF PrepFrame, PrepSteps, Typed, Named, At
      <4> QED
        BY <3>2, <4>1, <4>2 DEF Reads, Fails, Stores, Writes, Marks, Finishes, Moved, Left, PrepSteps
    <3>3. CASE v = w /\ (PrepError(w) \/ Crash(w))
      BY <2>1, <3>3, TroubleEffect DEF Moved, Left, Of, PrepSteps
    <3> QED
      BY <2>5, <3>1, <3>2, <3>3
  <2>6. ASSUME NEW w \in Workers, Deliver(w) PROVE Fits(frame'[v])
    <3>1. CASE v # w
      BY <2>2, <2>3, <2>6, <3>1, DrainEffects DEF Moved, Left
    <3>2. CASE v = w /\ (Post(w) \/ PostNothing(w))
      <4>1. frame[w].pc = "send" /\ (Left(w) \/ \E out \in {"delivered", "failed", "outcome_unknown"} : Sent(w, out))
        BY <3>2, Moves DEF Post, PostNothing, At, Typed
      <4> QED
        BY <2>1, <3>2, <4>1, Moves DEF Moved, Left, Of, Typed
    <3>3. CASE v = w /\ ~(Post(w) \/ PostNothing(w))
      <4>1. Leave(w) \/ \E pc \in {"comments", "ticket", "claim", "send"} : Go(w, pc)
        BY <2>6, <3>3 DEF Deliver, LookMirror, LookComments, LookTicket, ClaimDelivery,
           RecordOutcome, Audit
      <4>2. Left(w) \/ \E pc \in {"comments", "ticket", "claim", "send"} : Moved(w, pc, frame[w].out)
        BY <4>1, Moves DEF Typed, Shapes, Frame, DrainSteps
      <4>3. frame[w].pc # "idle"
        BY <2>6, DrainEffects DEF DrainSteps
      <4> QED
        BY <2>1, <3>3, <4>2, <4>3 DEF Moved, Left, Of
    <3> QED
      BY <2>6, <3>1, <3>2, <3>3
  <2>7. ASSUME NEW w \in Workers, NEW t \in Turns, ClaimPrep(w, t) PROVE Fits(frame'[v])
    <3>1. job[t].draft \in Drafts
      BY <2>7, ClaimPrepEffect DEF Typed, Named
    <3> QED
      BY <2>2, <2>3, <2>7, <3>1, ClaimPrepEffect
  <2>8. ASSUME NEW w \in Workers, NEW d \in Drafts, TakeUp(w, d) PROVE Fits(frame'[v])
    BY <2>2, <2>3, <2>8, TakeUpEffect
  <2> HIDE DEF Fits
  <2> QED
    BY <2>4, <2>5, <2>6, <2>7, <2>8 DEF Next
<1> QED
  BY <1>1, <1>2, <1>3 DEF Named, At, Of

Base == Typed /\ Linked

LEMMA InitBase == Init => Base
<1>1. Init => Linked
  BY DEF Init, Linked, DraftLink, GateLink, JobLink, LedgerLink, PrepLink, DrainLink, NoRow,
     NoJob, NoDelivery, Idle, PrepFrame, DrainFrame, PrepSteps, DrainSteps
<1> QED
  BY <1>1, InitTyped DEF Base

LEMMA BaseStep == Base /\ [Next]_vars => Base'
<1> SUFFICES ASSUME Base, [Next]_vars PROVE Base'
  OBVIOUS
<1>1. CASE Next
  BY <1>1, StepShapes, NamedStays, DraftLinked, GateLinked, JobLinked, LedgerLinked, FramesLinked
     DEF Base, Typed, Linked
<1>2. CASE UNCHANGED vars
  BY <1>2 DEF vars, store, Base, Typed, Shapes, Named, At, Of, Linked, DraftLink, GateLink, JobLink,
     LedgerLink, PrepLink, DrainLink, OfTurn, Assigned, PrepFrame, DrainFrame
<1> QED
  BY <1>1, <1>2

LEMMA BaseTypes == Base => TypeOK
<1> SUFFICES ASSUME Base PROVE TypeOK
  OBVIOUS
<1>1. ASSUME NEW w \in Workers, ~At(w, "idle") PROVE Of(w) \in Drafts /\ draft[Of(w)].st # "none"
  <2>1. Of(w) \in Drafts
    BY <1>1 DEF Base, Typed, Named
  <2>2. CASE PrepFrame(w)
    BY <2>1, <2>2 DEF Base, Linked, PrepLink, JobLink, OfTurn
  <2>3. CASE DrainFrame(w)
    BY <2>1, <2>3 DEF Base, Linked, DrainLink, LedgerLink
  <2>4. frame[w].pc \in {"idle", "finish"} \cup PrepSteps \cup DrainSteps
    BY DEF Base, Typed, Shapes, Frame
  <2>5. PrepFrame(w) \/ DrainFrame(w)
    BY <1>1, <2>4 DEF PrepFrame, DrainFrame, At
  <2> QED
    BY <2>1, <2>2, <2>3, <2>5
<1> QED
  BY <1>1 DEF Base, Typed, Shapes, TypeOK

\* The rows, the frames and the counters keep their shapes, and a process at work has a
\* draft that exists, whatever turns, processes and drafts there are.
THEOREM RowsTyped == Spec => []TypeOK
<1>1. Base /\ [Next]_vars => Base'
  BY BaseStep
<1> QED
  BY <1>1, InitBase, BaseTypes, PTL DEF Spec

------------------------------------------------------------------------------
(* A draft is posted once at most *)

\* What lies between the row and the comment: nothing is posted while the row is free
\* or queued, and one process at most is about to post, which nobody has done yet
SendInv ==
    /\ \A d \in Drafts : ledger[d].st \in {"none", "queued"} => posted[d] = 0
    /\ \A w \in Workers : At(w, "send") =>
         /\ ledger[Of(w)].st \notin {"none", "queued"}
         /\ posted[Of(w)] = 0
    /\ \A v, w \in Workers : At(v, "send") /\ At(w, "send") /\ Of(v) = Of(w) => v = w
    /\ SentOnce

RowRecorded(d, st) ==
    /\ \A e \in Drafts \ {d} : ledger'[e] = ledger[e]
    /\ ledger'[d].st = IF ledger[d].st = "delivered" THEN "delivered" ELSE st

LEMMA RecordEffect ==
  ASSUME Typed, NEW d \in Drafts, NEW st, Record(d, st)
  PROVE  RowRecorded(d, st)
BY DEF Record, RowRecorded, Typed, Shapes, Delivery

Final == {"delivered", "outcome_unknown", "failed", "cancelled"}

\* The rows a process of the drain leaves that does not post
LEMMA LookEffects ==
  ASSUME Typed, NEW w \in Workers, Deliver(w), ~Post(w), ~PostNothing(w), ~ClaimDelivery(w)
  PROVE  /\ UNCHANGED posted
         /\ UNCHANGED ledger \/ \E st \in Final : RowRecorded(Of(w), st)
         /\ frame[w].pc \in {"mirror", "comments", "ticket", "record", "audit"}
         /\ Left(w) \/ \E pc \in {"comments", "ticket", "claim"} : \E out : Moved(w, pc, out)
<1>1. Of(w) \in Drafts
  BY DrainEffects DEF DrainSteps, Typed, Named, At
<1>2. frame[w].pc = "record" => frame[w].out \in Final
  BY DEF Typed, Named, At, Final
<1>3. UNCHANGED ledger \/ \E st \in Final : Record(Of(w), st)
  BY <1>2 DEF Deliver, LookMirror, LookComments, LookTicket, RecordOutcome, Audit, Final, At
<1>4. Leave(w) \/ \E pc \in {"comments", "ticket", "claim"} : Go(w, pc)
  BY DEF Deliver, LookMirror, LookComments, LookTicket, RecordOutcome, Audit
<1>5. Left(w) \/ \E pc \in {"comments", "ticket", "claim"} : \E out : Moved(w, pc, out)
  BY <1>4, Moves DEF Typed, Shapes, Frame, DrainSteps
<1>6. /\ UNCHANGED posted
      /\ frame[w].pc \in {"mirror", "comments", "ticket", "record", "audit"}
  BY DEF Deliver, LookMirror, LookComments, LookTicket, RecordOutcome, Audit, At
<1> QED
  BY <1>1, <1>3, <1>5, <1>6, RecordEffect

LEMMA ClaimEffect ==
  ASSUME Typed, NEW w \in Workers, ClaimDelivery(w)
  PROVE  /\ UNCHANGED posted /\ frame[w].pc = "claim" /\ Of(w) \in Drafts
         /\ \/ /\ ledger[Of(w)].st = "queued" /\ ledger'[Of(w)].st = "pending"
               /\ \A e \in Drafts \ {Of(w)} : ledger'[e] = ledger[e]
               /\ Moved(w, "send", frame[w].out)
            \/ ledger[Of(w)].st # "queued" /\ UNCHANGED ledger /\ Left(w)
<1>1. frame[w].pc = "claim" /\ UNCHANGED posted
  BY DEF ClaimDelivery, At
<1>2. PICK d \in Drafts : d = Of(w)
  BY <1>1 DEF Typed, Named, At
<1>3. Leave(w) => Left(w)
  BY Moves DEF Typed, Shapes, Frame
<1>4. Go(w, "send") => Moved(w, "send", frame[w].out)
  BY Moves DEF Typed, Shapes, Frame, DrainSteps
<1>5. CASE ledger[d].st = "queued"
  <2>1. ledger' = [ledger EXCEPT ![d].st = "pending"] /\ Go(w, "send")
    BY <1>2, <1>5 DEF ClaimDelivery
  <2>2. ledger'[d].st = "pending" /\ \A e \in Drafts \ {d} : ledger'[e] = ledger[e]
    BY <2>1 DEF Typed, Shapes, Delivery
  <2> QED
    BY <1>1, <1>2, <1>4, <1>5, <2>1, <2>2
<1>6. CASE ledger[d].st # "queued"
  BY <1>1, <1>2, <1>3, <1>6 DEF ClaimDelivery
<1> QED
  BY <1>5, <1>6

LEMMA PostEffects ==
  ASSUME Typed, NEW w \in Workers, Post(w) \/ PostNothing(w)
  PROVE  /\ frame[w].pc = "send" /\ Of(w) \in Drafts /\ UNCHANGED ledger
         /\ \/ /\ posted'[Of(w)] = posted[Of(w)] + 1
               /\ \A e \in Drafts \ {Of(w)} : posted'[e] = posted[e]
               /\ \E out \in {"delivered", "outcome_unknown", "failed"} :
                    Moved(w, "record", out) /\ (out = "failed" => Misjudges(w))
            \/ UNCHANGED posted /\ \E out \in {"failed", "outcome_unknown"} : Moved(w, "record", out)
            \/ UNCHANGED posted /\ Left(w)
<1>1. frame[w].pc = "send" /\ UNCHANGED ledger
  BY DEF Post, PostNothing, At
<1>2. PICK d \in Drafts : d = Of(w)
  BY <1>1 DEF Typed, Named, At
<1>3. \A out \in {"delivered", "failed", "outcome_unknown"} : Sent(w, out) => Moved(w, "record", out)
  BY Moves DEF Typed
<1>4. Leave(w) => Left(w)
  BY Moves DEF Typed, Shapes, Frame
<1>5. CASE Post(w)
  <2>1. posted'[d] = posted[d] + 1 /\ \A e \in Drafts \ {d} : posted'[e] = posted[e]
    BY <1>2, <1>5 DEF Post, Typed, Shapes
  <2>2. \E out \in {"delivered", "outcome_unknown", "failed"} :
           Moved(w, "record", out) /\ (out = "failed" => Misjudges(w))
    BY <1>3, <1>5 DEF Post, Misjudges
  <2> QED
    BY <1>1, <1>2, <2>1, <2>2
<1>6. CASE PostNothing(w)
  <2>1. \/ \E out \in {"failed", "outcome_unknown"} : Moved(w, "record", out)
        \/ Left(w)
    BY <1>3, <1>4, <1>6 DEF PostNothing
  <2>2. UNCHANGED posted
    BY <1>6 DEF PostNothing
  <2> QED
    BY <1>1, <1>2, <2>1, <2>2
<1> QED
  BY <1>5, <1>6

\* What a step that is not of the drain does to the rows of the ledger and the frames
Apart(w) ==
    /\ UNCHANGED posted
    /\ Others(w) /\ frame'[w].pc \notin DrainSteps
    /\ \/ UNCHANGED ledger
       \/ \E d \in Drafts :
            /\ ledger[d].st = "none" /\ ledger'[d].st = "queued"
            /\ \A e \in Drafts \ {d} : ledger'[e] = ledger[e]

LEMMA PrepareApart ==
  ASSUME Base, NEW w \in Workers,
         \/ Prepare(w) \/ PrepError(w) \/ Crash(w) \/ \E t \in Turns : ClaimPrep(w, t)
  PROVE  Apart(w)
<1>0. Typed /\ Linked /\ PrepLink
  BY DEF Base, Linked
<1> USE DEF Apart, PrepSteps, DrainSteps
<1>1. CASE Prepare(w)
  <2>1. /\ UNCHANGED posted /\ PrepFrame(w)
        /\ \/ \E pc \in PrepSteps \cup {"finish"} : \E out : Reads(w, pc, out)
           \/ Fails(w) \/ Stores(w) \/ Writes(w) \/ Marks(w) \/ Finishes(w)
    BY <1>0, <1>1, PrepTurn, PrepareEffects
  <2>2. Of(w) \in Drafts
    BY <1>0, <2>1 DEF PrepFrame, Typed, Named, At
  <2>3. CASE Writes(w)
    <3>1. UNCHANGED ledger \/ (ledger[Of(w)].st = "none" /\ ledger'[Of(w)].st = "queued")
      <4>1. ASSUME ledger'[Of(w)] = ledger[Of(w)] PROVE UNCHANGED ledger
        <5>1. \A d \in Drafts : ledger'[d] = ledger[d]
          BY <2>3, <4>1 DEF Writes
        <5>2. ledger \in [Drafts -> Delivery] /\ ledger' \in [Drafts -> Delivery]
          BY <1>0, <1>1, PrepareTyped DEF Typed, Shapes
        <5> QED
          BY <5>1, <5>2
      <4> QED
        BY <2>3, <4>1 DEF Writes
    <3> QED
      BY <2>1, <2>2, <2>3, <3>1 DEF Writes, Moved
  <2> QED
    BY <2>1, <2>3 DEF Reads, Fails, Stores, Marks, Finishes, Moved, Left
<1>2. CASE PrepError(w) \/ Crash(w)
  BY <1>0, <1>2, TroubleEffect DEF Moved, Left
<1>3. ASSUME NEW t \in Turns, ClaimPrep(w, t) PROVE Apart(w)
  BY <1>0, <1>3, ClaimPrepEffect
<1> QED
  BY <1>1, <1>2, <1>3

LEMMA SendStep == ASSUME Base, SendInv, Next PROVE SendInv'
<1>0. Typed /\ Shapes /\ Linked
  BY DEF Base, Typed
<1>1. \A d \in Drafts : posted[d] \in Nat
  BY <1>0 DEF Shapes
<1>2. \A w \in Workers : At(w, "send") => Of(w) \in Drafts
  BY <1>0 DEF Typed, Named, At
<1> USE DEF SendInv, SentOnce, At, Of
<1>3. CASE \/ CaseStep \/ SaveStep \/ ApproveStep
           \/ \E t \in Turns : GateStepOf(t) \/ Lapse(t)
  BY <1>0, <1>3, StoreStep
<1>4. ASSUME NEW w \in Workers, Apart(w) PROVE SendInv'
  <2>1. \A v \in Workers : frame'[v].pc = "send" => frame'[v] = frame[v]
    BY <1>4 DEF Apart, Others, DrainSteps
  <2>2. \A d \in Drafts : ledger'[d] = ledger[d] \/ (ledger[d].st = "none" /\ ledger'[d].st = "queued")
    BY <1>4 DEF Apart
  <2> QED
    BY <1>2, <1>4, <2>1, <2>2 DEF Apart
<1>5. ASSUME NEW w \in Workers, NEW d \in Drafts, TakeUp(w, d) PROVE SendInv'
  <2>1. (\A v \in Workers : frame'[v].pc = "send" => frame'[v] = frame[v]) /\ UNCHANGED <<ledger, posted>>
    BY <1>0, <1>5, TakeUpEffect DEF Others
  <2> QED
    BY <2>1
<1>6. ASSUME NEW w \in Workers, Deliver(w), ~Post(w), ~PostNothing(w), ~ClaimDelivery(w) PROVE SendInv'
  <2>1. \A v \in Workers : frame'[v].pc = "send" => frame'[v] = frame[v]
    BY <1>0, <1>6, LookEffects DEF Others, Left, Moved
  <2>2. UNCHANGED posted
    BY <1>0, <1>6, LookEffects
  <2>3. \A d \in Drafts : ledger'[d] = ledger[d] \/ ledger'[d].st \notin {"none", "queued"}
    BY <1>0, <1>6, LookEffects DEF RowRecorded, Final
  <2> QED
    BY <1>2, <2>1, <2>2, <2>3
<1>7. ASSUME NEW w \in Workers, ClaimDelivery(w) PROVE SendInv'
  <2>1. CASE UNCHANGED ledger /\ Left(w)
    <3>1. \A v \in Workers : frame'[v].pc = "send" => frame'[v] = frame[v]
      BY <2>1 DEF Left, Others
    <3> QED
      BY <1>0, <1>2, <1>7, <2>1, <3>1, ClaimEffect
  <2>2. CASE /\ ledger[Of(w)].st = "queued" /\ ledger'[Of(w)].st = "pending"
             /\ \A e \in Drafts \ {Of(w)} : ledger'[e] = ledger[e]
             /\ Moved(w, "send", frame[w].out)
    <3>1. Of(w) \in Drafts /\ UNCHANGED posted /\ posted[Of(w)] = 0
      BY <1>0, <1>7, <2>2, ClaimEffect
    <3>2. \A v \in Workers \ {w} : frame'[v] = frame[v]
      BY <2>2 DEF Moved, Others
    <3>3. frame'[w].pc = "send" /\ frame'[w].draft = frame[w].draft
      BY <2>2 DEF Moved
    <3>4. \A v \in Workers \ {w} : frame[v].pc = "send" => frame[v].draft # frame[w].draft
      BY <2>2
    <3>5. \A d \in Drafts : ledger'[d].st \in {"none", "queued"} => ledger'[d] = ledger[d]
      BY <2>2
    <3> QED
      BY <1>2, <2>2, <3>1, <3>2, <3>3, <3>4, <3>5
  <2> QED
    BY <1>0, <1>7, <2>1, <2>2, ClaimEffect
<1>8. ASSUME NEW w \in Workers, Post(w) \/ PostNothing(w) PROVE SendInv'
  <2>1. frame[w].pc = "send" /\ Of(w) \in Drafts /\ UNCHANGED ledger
    BY <1>0, <1>8, PostEffects
  <2>2. posted[Of(w)] = 0 /\ ledger[Of(w)].st \notin {"none", "queued"}
    BY <2>1
  <2>3. \A v \in Workers : frame'[v].pc = "send" => v # w /\ frame'[v] = frame[v]
    BY <1>0, <1>8, PostEffects DEF Left, Moved, Others
  <2>4. \A v \in Workers : frame'[v].pc = "send" => frame[v].draft # frame[w].draft
    BY <2>1, <2>3
  <2>5. /\ \A e \in Drafts \ {Of(w)} : posted'[e] = posted[e]
        /\ posted'[Of(w)] \in {0, 1}
    BY <1>0, <1>8, <2>1, <2>2, PostEffects
  <2> QED
    BY <1>1, <1>2, <2>1, <2>2, <2>3, <2>4, <2>5
<1>9. ASSUME NEW w \in Workers, Prepare(w) \/ PrepError(w) \/ Crash(w) \/ \E t \in Turns : ClaimPrep(w, t)
      PROVE  SendInv'
  BY <1>4, <1>9, PrepareApart
<1> QED
  BY <1>3, <1>5, <1>6, <1>7, <1>8, <1>9 DEF Next, Deliver

\* However often a draft is approved, prepared or taken up, by however many drains, it
\* is posted once at most.
THEOREM PostedOnce == Spec => []SentOnce
<1>1. Init => Base /\ SendInv
  BY InitBase DEF Init, SendInv, SentOnce, At, Idle
<1>2. Base /\ SendInv /\ [Next]_vars => (Base /\ SendInv)'
  <2> SUFFICES ASSUME Base, SendInv, [Next]_vars PROVE Base' /\ SendInv'
    OBVIOUS
  <2>1. CASE UNCHANGED vars
    BY <2>1, BaseStep DEF vars, SendInv, SentOnce, At, Of
  <2> QED
    BY <2>1, BaseStep, SendStep
<1>3. SendInv => SentOnce
  BY DEF SendInv
<1> QED
  BY <1>1, <1>2, <1>3, PTL DEF Spec

------------------------------------------------------------------------------
(* How one draft and one job can move *)

Preparable == {"awaiting", "approved", "prepare_failed"}

Rests(d) == draft'[d].st = draft[d].st /\ draft'[d].text = draft[d].text
Stales(d) == draft[d].st # "none" /\ draft'[d].st = "stale"
Starts(d) == draft[d].st = "none" /\ draft'[d].st = "draft"
Publishes(d) == /\ draft[d].st = "draft"
                /\ \E t \in Turns : GatePublishes(t) /\ gate[t].draft = d
EntersPrep(d) == draft[d].st \in Preparable /\ Preparing(d) /\ draft'[d].st = "preparing"
PrepFails(d) == draft[d].st = "preparing" /\ draft'[d].st = "prepare_failed"
PrepStores(d) == draft[d].st = "preparing" /\ draft'[d].st = "approved" /\ draft'[d].text = TRUE
Queues(d) == draft[d].st = "approved" /\ draft'[d].st = "queued"

RowMove(d) ==
    /\ draft[d].st # "none" => /\ draft'[d].turn = draft[d].turn /\ draft'[d].rev = draft[d].rev
                               /\ draft'[d].ver = draft[d].ver
    /\ \/ Rests(d) \/ Stales(d) \/ Starts(d) \/ Publishes(d) \/ EntersPrep(d)
       \/ PrepFails(d) \/ PrepStores(d) \/ Queues(d)

LEMMA RowMoves == ASSUME Base, Next, NEW d \in Drafts PROVE RowMove(d)
<1>0. Typed /\ Shapes /\ Linked
  BY DEF Base, Typed
<1> USE DEF RowMove
<1>1. ASSUME UNCHANGED draft PROVE RowMove(d)
  BY <1>1 DEF Rests
<1>2. ASSUME Withdraws PROVE RowMove(d)
  BY <1>2 DEF Withdraws, Withdrawn, Rests, Stales
<1>3. ASSUME NEW t \in Turns, NEW e \in Drafts, Saves(t, e) PROVE RowMove(d)
  BY <1>0, <1>3 DEF Saves, Shapes, DraftRow, Rests, Starts
<1>4. ASSUME NEW e, NEW st, Alters(e, st), e # d PROVE RowMove(d)
  BY <1>4 DEF Alters, Rests
<1>12. ASSUME NEW st, Alters(d, st)
       PROVE  /\ draft'[d].turn = draft[d].turn /\ draft'[d].rev = draft[d].rev
              /\ draft'[d].ver = draft[d].ver /\ draft'[d].st = st
  BY <1>12 DEF Alters
<1>5. ASSUME NEW e \in Drafts, draft[e].st \in Preparable, Preparing(e) PROVE RowMove(d)
  <2>1. Alters(e, "preparing")
    BY <1>0, <1>5, PreparingAlters
  <2> QED
    BY <1>4, <1>5, <1>12, <2>1 DEF EntersPrep
<1>6. ASSUME NEW t \in Turns, GateStepOf(t) PROVE RowMove(d)
  <2>1. CASE GatePublishes(t)
    <3>1. CASE gate[t].draft # d
      BY <1>4, <2>1, <3>1 DEF GatePublishes
    <3>2. CASE gate[t].draft = d
      BY <1>12, <2>1, <3>2 DEF GatePublishes, Publishes
    <3> QED
      BY <3>1, <3>2
  <2>2. CASE GatePrepares(t)
    BY <1>0, <1>5, <2>2 DEF GatePrepares, Preparable, Typed, Named
  <2> QED
    BY <1>0, <1>1, <1>6, <2>1, <2>2, GateEffects DEF GateEnds, GateLooks, GatePasses, GateDenies
<1>7. CASE ApproveStep
  <2>1. ASSUME NEW e \in Drafts, Approve(e) PROVE RowMove(d)
    BY <1>5, <2>1 DEF Approve, Approvable, Preparable
  <2> QED
    BY <1>1, <1>7, <2>1 DEF ApproveStep, RefuseApproval, store
<1>8. ASSUME NEW w \in Workers, Prepare(w) PROVE RowMove(d)
  <2>1. \/ \E pc \in PrepSteps \cup {"finish"} : \E out : Reads(w, pc, out)
        \/ Fails(w) \/ Stores(w) \/ Writes(w) \/ Marks(w) \/ Finishes(w)
    BY <1>0, <1>8, PrepTurn, PrepareEffects DEF Linked
  <2>2. CASE Fails(w)
    <3>1. CASE Of(w) # d
      BY <1>1, <1>4, <2>2, <3>1 DEF Fails
    <3>2. CASE Of(w) = d
      BY <1>1, <1>12, <2>2, <3>2 DEF Fails, PrepFails
    <3> QED
      BY <3>1, <3>2
  <2>3. CASE Stores(w)
    <3>1. CASE Of(w) # d
      BY <1>1, <1>4, <2>3, <3>1 DEF Stores
    <3>2. CASE Of(w) = d
      BY <1>1, <1>12, <2>3, <3>2 DEF Stores, PrepStores
    <3> QED
      BY <3>1, <3>2
  <2>4. CASE Marks(w)
    <3>1. CASE Of(w) # d
      BY <1>1, <1>4, <2>4, <3>1 DEF Marks
    <3>2. CASE Of(w) = d
      BY <1>1, <1>12, <2>4, <3>2 DEF Marks, Queues
    <3> QED
      BY <3>1, <3>2
  <2> QED
    BY <1>1, <2>1, <2>2, <2>3, <2>4 DEF Reads, Writes, Finishes
<1>9. ASSUME NEW t \in Turns, Lapse(t) PROVE RowMove(d)
  BY <1>0, <1>1, <1>9, LapseEffect
<1>10. ASSUME NEW w \in Workers, \/ Deliver(w) \/ PrepError(w) \/ Crash(w)
                                 \/ \E t \in Turns : ClaimPrep(w, t)
                                 \/ \E e \in Drafts : TakeUp(w, e)
       PROVE  RowMove(d)
  BY <1>0, <1>1, <1>10, DrainEffects, TroubleEffect, ClaimPrepEffect, TakeUpEffect DEF store
<1> HIDE DEF RowMove
<1>11. CASE CaseStep \/ SaveStep
  BY <1>0, <1>2, <1>3, <1>11, CaseWithdraws, SaveWithdrawsOrSaves
<1> QED
  BY <1>6, <1>7, <1>8, <1>9, <1>10, <1>11 DEF Next

\* The job of the execution takes draft d, or is offered once more
Offers(t, d) ==
    /\ OfTurn(d, t) /\ EntersPrep(d)
    /\ \/ job[t].st = "completed" /\ job'[t] = job[t]
       \/ /\ job[t].st # "completed"
          /\ job'[t].st = "pending" /\ job'[t].owner = NoWorker
          /\ job'[t].draft = IF job[t].st = "none" THEN d ELSE job[t].draft
Lapses(t) == /\ job[t].st = "claimed" /\ job'[t].st = "pending"
             /\ job'[t].owner = NoWorker /\ job'[t].draft = job[t].draft
GetsClaimed(t) ==
    /\ job[t].st = "pending" /\ job'[t].st = "claimed"
    /\ job'[t].draft = job[t].draft
    /\ \E w \in Workers :
          job'[t].owner = w /\ UNCHANGED draft /\ frame'[w].pc = "load" /\ Others(w)
EndsJob(t, w) ==
    /\ Finishes(w) /\ frame[w].turn = t
    /\ job[t].st = "claimed" /\ job[t].owner = w
    /\ job'[t].st = frame[w].out /\ job'[t].draft = job[t].draft

JobMove(t) ==
    \/ job'[t] = job[t]
    \/ \E d \in Drafts : Offers(t, d)
    \/ Lapses(t) /\ UNCHANGED <<draft, frame>>
    \/ GetsClaimed(t)
    \/ \E w \in Workers : EndsJob(t, w)

LEMMA JobMoves == ASSUME Base, Next, NEW t \in Turns PROVE JobMove(t)
<1>0. Typed /\ Shapes /\ Linked
  BY DEF Base, Typed
<1>1. ASSUME UNCHANGED job PROVE JobMove(t)
  BY <1>1 DEF JobMove
<1>2. ASSUME NEW d \in Drafts, draft[d].st \in Preparable, Preparing(d) PROVE JobMove(t)
  <2>1. draft[d].turn \in Turns /\ draft[d].st # "none"
    BY <1>0, <1>2 DEF Linked, DraftLink, Preparable
  <2>2. CASE draft[d].turn = t
    <3>1. EntersPrep(d) /\ OfTurn(d, t)
      BY <1>0, <1>2, <2>1, <2>2, PreparingAlters DEF EntersPrep, Alters, OfTurn
    <3>2. Offers(t, d)
      BY <1>0, <1>2, <2>1, <2>2, <3>1, PreparingJobs DEF Offers
    <3> QED
      BY <3>2 DEF JobMove
  <2>3. CASE draft[d].turn # t
    BY <1>0, <1>2, <2>1, <2>3, PreparingJobs DEF JobMove
  <2> QED
    BY <2>2, <2>3
<1>3. CASE CaseStep \/ SaveStep
  BY <1>0, <1>1, <1>3, CaseWithdraws, SaveWithdrawsOrSaves DEF Withdraws, Saves
<1>4. ASSUME NEW u \in Turns, GateStepOf(u) PROVE JobMove(t)
  <2>1. CASE GatePrepares(u)
    BY <1>0, <1>2, <2>1 DEF GatePrepares, Preparable, Typed, Named
  <2> QED
    BY <1>0, <1>1, <1>4, <2>1, GateEffects DEF GateEnds, GateLooks, GatePublishes, GatePasses, GateDenies
<1>5. CASE ApproveStep
  <2>1. ASSUME NEW d \in Drafts, Approve(d) PROVE JobMove(t)
    BY <1>2, <2>1 DEF Approve, Approvable, Preparable
  <2> QED
    BY <1>1, <1>5, <2>1 DEF ApproveStep, RefuseApproval, store
<1>6. ASSUME NEW u \in Turns, Lapse(u) PROVE JobMove(t)
  BY <1>0, <1>6, LapseEffect DEF JobMove, Lapses
<1>7. ASSUME NEW w \in Workers, NEW u \in Turns, ClaimPrep(w, u) PROVE JobMove(t)
  BY <1>0, <1>7, ClaimPrepEffect DEF JobMove, GetsClaimed
<1>8. ASSUME NEW w \in Workers, Prepare(w) PROVE JobMove(t)
  <2>1. \/ \E pc \in PrepSteps \cup {"finish"} : \E out : Reads(w, pc, out)
        \/ Fails(w) \/ Stores(w) \/ Writes(w) \/ Marks(w) \/ Finishes(w)
    BY <1>0, <1>8, PrepTurn, PrepareEffects DEF Linked
  <2>2. CASE Finishes(w)
    BY <2>2 DEF Finishes, JobMove, EndsJob
  <2> QED
    BY <1>1, <2>1, <2>2 DEF Reads, Fails, Stores, Writes, Marks
<1>9. ASSUME NEW w \in Workers, \/ Deliver(w) \/ PrepError(w) \/ Crash(w)
                                \/ \E d \in Drafts : TakeUp(w, d)
      PROVE  JobMove(t)
  BY <1>0, <1>1, <1>9, DrainEffects, TroubleEffect, TakeUpEffect DEF store
<1> QED
  BY <1>3, <1>4, <1>5, <1>6, <1>7, <1>8, <1>9 DEF Next

\* How one gate can move
GateMove(t) ==
    \/ gate'[t] = gate[t]
    \/ GateEnds(t) \/ GatePublishes(t) \/ GatePasses(t) \/ GateDenies(t) \/ GatePrepares(t)
    \/ \E d \in Drafts : GateLooks(t, d)

LEMMA GateMovesOf == ASSUME Base, Next, NEW t \in Turns PROVE GateMove(t)
BY GateOrigin, GateEffects DEF GateMove, Base

\* What can be added to the past
PastMove ==
    /\ past'.denied = past.denied
         \/ \E t \in Turns : GateDenies(t) /\ past'.denied = past.denied \cup {gate[t].draft}
    /\ past'.refused = past.refused
         \/ \E d \in Drafts : RefuseApproval(d) /\ past'.refused = past.refused \cup {d}
    /\ past'.clicked = past.clicked
         \/ \E d \in Drafts : Approve(d) /\ past'.clicked = past.clicked \cup {d}
    /\ past.broken \subseteq past'.broken
    /\ past.misjudged \subseteq past'.misjudged

LEMMA PastMoves == ASSUME Base, Next PROVE PastMove
<1>0. Typed /\ Shapes /\ Linked
  BY DEF Base, Typed
<1>1. ASSUME UNCHANGED past PROVE PastMove
  BY <1>1 DEF PastMove
<1> USE <1>0 DEF Shapes, Past
<1>2. CASE CaseStep \/ SaveStep
  BY <1>1, <1>2, CaseWithdraws, SaveWithdrawsOrSaves DEF Withdraws, Saves
<1>3. ASSUME NEW t \in Turns, GateStepOf(t) PROVE PastMove
  <2>1. CASE GateDenies(t)
    <3>1. /\ past'.denied = past.denied \cup {gate[t].draft} /\ past'.refused = past.refused
          /\ past'.clicked = past.clicked /\ past'.broken = past.broken
          /\ past'.misjudged = past.misjudged
      BY <2>1 DEF GateDenies
    <3> QED
      BY <2>1, <3>1 DEF PastMove
  <2> QED
    BY <1>1, <1>3, <2>1, GateEffects DEF GateEnds, GateLooks, GatePublishes, GatePasses, GatePrepares
<1>4. ASSUME NEW d \in Drafts, Approve(d) PROVE PastMove
  <2>1. /\ past'.clicked = past.clicked \cup {d} /\ past'.refused = past.refused
        /\ past'.denied = past.denied /\ past'.broken = past.broken
        /\ past'.misjudged = past.misjudged
    BY <1>4 DEF Approve
  <2> QED
    BY <1>4, <2>1 DEF PastMove
<1>5. ASSUME NEW d \in Drafts, RefuseApproval(d) PROVE PastMove
  <2>1. /\ past'.refused = past.refused \cup {d} /\ past'.clicked = past.clicked
        /\ past'.denied = past.denied /\ past'.broken = past.broken
        /\ past'.misjudged = past.misjudged
    BY <1>5 DEF RefuseApproval
  <2> QED
    BY <1>5, <2>1 DEF PastMove
<1>6. ASSUME NEW w \in Workers, PrepError(w) \/ Crash(w) PROVE PastMove
  <2>1. CASE past' = [past EXCEPT !.broken = @ \cup {Of(w)}]
    <3>1. /\ past'.refused = past.refused /\ past'.clicked = past.clicked
          /\ past'.denied = past.denied /\ past'.broken = past.broken \cup {Of(w)}
          /\ past'.misjudged = past.misjudged
      BY <2>1
    <3> QED
      BY <3>1 DEF PastMove
  <2> QED
    BY <1>1, <1>6, <2>1, TroubleEffect
<1>7. ASSUME NEW t \in Turns, Lapse(t) PROVE PastMove
  BY <1>1, <1>7, LapseEffect
<1>8. ASSUME NEW w \in Workers, Deliver(w) PROVE PastMove
  <2>1. CASE Misjudges(w)
    <3>1. /\ past'.refused = past.refused /\ past'.clicked = past.clicked
          /\ past'.denied = past.denied /\ past'.broken = past.broken
          /\ past'.misjudged = past.misjudged \cup {Of(w)}
      BY <2>1 DEF Misjudges
    <3> QED
      BY <3>1 DEF PastMove
  <2> QED
    BY <1>1, <1>8, <2>1, DrainEffects
<1>9. ASSUME NEW w \in Workers, \/ Prepare(w) \/ \E t \in Turns : ClaimPrep(w, t)
                                \/ \E d \in Drafts : TakeUp(w, d)
      PROVE  PastMove
  BY <1>1, <1>9, PrepTurn, PrepareEffects, TakeUpEffect, ClaimPrepEffect DEF Linked
<1> QED
  BY <1>2, <1>3, <1>4, <1>5, <1>6, <1>7, <1>8, <1>9 DEF Next, ApproveStep

------------------------------------------------------------------------------
(* A turn has one draft that matters *)

Published(d) == draft[d].st \in {"awaiting", "approved", "preparing", "prepare_failed", "queued"}
AtGate(d) == gate[draft[d].turn].pc \in {"fence", "job"} /\ gate[draft[d].turn].draft = d

\* A draft of a turn the gate has picked: published, passing the gate, refused by it, or
\* taken by the job of the turn
Chosen(d) == /\ draft[d].st # "none"
             /\ Published(d) \/ AtGate(d) \/ Assigned(d) \/ d \in past.denied

PickedOnce ==
    \A d, e \in Drafts : Chosen(d) /\ Chosen(e) /\ draft[d].turn = draft[e].turn => d = e
ChosenInv ==
    /\ \A d \in past.denied : draft[d].st # "none" /\ gate[draft[d].turn].pc = "dead"
    /\ \A d \in Drafts : Chosen(d) => gate[draft[d].turn].pc \notin {"none", "publish"}
    /\ PickedOnce

LEMMA GateProgress ==
  ASSUME Base, Next, NEW t \in Turns, gate[t].pc \notin {"none", "publish"}
  PROVE  gate'[t].pc \notin {"none", "publish"} /\ (gate[t].pc = "dead" => gate'[t] = gate[t])
<1>1. GateMove(t)
  BY GateMovesOf
<1>2. ASSUME GateStepOf(t) PROVE gate[t].pc # "dead"
  BY <1>2 DEF GateStepOf, GateLook, GateBlock, GatePublish, GatePass, GateDeny, GatePrepare,
     GateCrash, GateAt
<1>3. gate'[t] = gate[t] \/ GateStepOf(t)
  BY GateOrigin DEF Base
<1> QED
  BY <1>1, <1>2, <1>3 DEF GateMove, GateEnds, GateLooks, GatePublishes, GatePasses, GateDenies,
     GatePrepares, GateBecomes

LEMMA AssignedOrigin ==
  ASSUME Base, Next, NEW d \in Drafts, draft[d].st # "none", Assigned(d)'
  PROVE  Assigned(d) \/ (EntersPrep(d) /\ job[draft[d].turn].st = "none")
<1> DEFINE t == draft[d].turn
<1>1. t \in Turns /\ draft'[d].turn = t
  BY RowMoves DEF Base, Linked, DraftLink, RowMove
<1>2. job'[t].st # "none" /\ job'[t].draft = d
  BY <1>1 DEF Assigned
<1>3. JobMove(t)
  BY <1>1, JobMoves
<1> HIDE DEF t
<1>4. \/ job[t].st # "none" /\ job[t].draft = d
      \/ EntersPrep(d) /\ job[t].st = "none"
  BY <1>2, <1>3 DEF JobMove, Offers, Lapses, GetsClaimed, EndsJob
<1> QED
  BY <1>4 DEF Assigned, t

LEMMA AtGateOrigin ==
  ASSUME Base, Next, NEW d \in Drafts, draft[d].st # "none", AtGate(d)'
  PROVE  \/ AtGate(d)
         \/ draft[d].st = "draft" /\ \E t \in Turns : GatePublishes(t) /\ gate[t].draft = d
<1> DEFINE t == draft[d].turn
<1>1. t \in Turns /\ draft'[d].turn = t
  BY RowMoves DEF Base, Linked, DraftLink, RowMove
<1>2. gate'[t].pc \in {"fence", "job"} /\ gate'[t].draft = d
  BY <1>1 DEF AtGate
<1>3. GateMove(t)
  BY <1>1, GateMovesOf
<1> HIDE DEF t
<1>4. \/ gate[t].pc \in {"fence", "job"} /\ gate[t].draft = d
      \/ GatePublishes(t) /\ gate[t].draft = d /\ draft[d].st = "draft"
  BY <1>2, <1>3 DEF GateMove, GateEnds, GateLooks, GatePublishes, GatePasses, GateDenies,
     GatePrepares, GateBecomes
<1> QED
  BY <1>1, <1>4 DEF AtGate, t

\* A draft that is new was not passing a gate, not taken by a job
LEMMA NewIsFree ==
  ASSUME Base, Next, NEW d \in Drafts, draft[d].st = "none", draft'[d].st # "none"
  PROVE  ~AtGate(d)' /\ ~Assigned(d)' /\ ~Published(d)'
<1>1. RowMove(d)
  BY RowMoves
<1>2. ~Published(d)'
  BY <1>1 DEF RowMove, Rests, Stales, Starts, Publishes, EntersPrep, Preparable, PrepFails,
     PrepStores, Queues, Published
<1>3. ASSUME NEW t \in Turns PROVE ~(gate'[t].pc \in {"fence", "job"} /\ gate'[t].draft = d)
  <2>1. ~(gate[t].pc \in {"publish", "fence", "job"} /\ gate[t].draft = d)
    BY DEF Base, Linked, GateLink, OfTurn
  <2>2. GateMove(t)
    BY GateMovesOf
  <2> QED
    BY <2>1, <2>2 DEF GateMove, GateEnds, GateLooks, GatePublishes, GatePasses, GateDenies,
       GatePrepares, GateBecomes
<1>4. ASSUME NEW t \in Turns PROVE ~(job'[t].st # "none" /\ job'[t].draft = d)
  <2>1. ~(job[t].st # "none" /\ job[t].draft = d)
    BY DEF Base, Linked, JobLink, OfTurn
  <2>2. JobMove(t)
    BY JobMoves
  <2> QED
    BY <2>1, <2>2 DEF JobMove, Offers, OfTurn, Lapses, GetsClaimed, EndsJob
<1>5. draft'[d].turn \in Turns
  BY BaseStep DEF Base, Linked, DraftLink
<1> QED
  BY <1>2, <1>3, <1>4, <1>5 DEF AtGate, Assigned

LEMMA ChosenOrigin ==
  ASSUME Base, ChosenInv, Next, NEW d \in Drafts, Chosen(d)'
  PROVE  /\ draft[d].st # "none" /\ draft[d].turn \in Turns
         /\ draft'[d].turn = draft[d].turn
         /\ \/ Chosen(d)
            \/ \E t \in Turns : GatePublishes(t) /\ gate[t].draft = d
<1>1. RowMove(d) /\ PastMove
  BY RowMoves, PastMoves
<1>2. ASSUME NEW t \in Turns, GateDenies(t), gate[t].draft = d
      PROVE  draft[d].st # "none" /\ AtGate(d)
  BY <1>2 DEF GateDenies, Base, Linked, GateLink, OfTurn, AtGate
<1>3. d \in past'.denied => d \in past.denied \/ (draft[d].st # "none" /\ AtGate(d))
  BY <1>1, <1>2 DEF PastMove
<1>4. draft[d].st # "none"
  BY <1>3, NewIsFree DEF Chosen, ChosenInv
<1>5. draft[d].turn \in Turns /\ draft'[d].turn = draft[d].turn
  BY <1>1, <1>4 DEF Base, Linked, DraftLink, RowMove
<1>6. CASE Published(d)'
  BY <1>1, <1>4, <1>5, <1>6 DEF RowMove, Rests, Stales, Starts, Publishes, EntersPrep, Preparable,
     PrepFails, PrepStores, Queues, Published, Chosen
<1>7. CASE AtGate(d)'
  BY <1>4, <1>5, <1>7, AtGateOrigin DEF Chosen
<1>8. CASE Assigned(d)'
  BY <1>4, <1>5, <1>8, AssignedOrigin DEF Chosen, EntersPrep, Preparable, Published
<1>9. CASE d \in past'.denied
  BY <1>3, <1>4, <1>5, <1>9 DEF Chosen
<1> QED
  BY <1>6, <1>7, <1>8, <1>9 DEF Chosen

LEMMA ChosenStep == ASSUME Base, ChosenInv, Next PROVE ChosenInv'
<1>1. ASSUME NEW d \in past'.denied
      PROVE  draft'[d].st # "none" /\ gate'[draft'[d].turn].pc = "dead"
  <2>1. d \in Drafts
    BY BaseStep DEF Base, Typed, Shapes, Past
  <2>2. RowMove(d) /\ PastMove
    BY <2>1, RowMoves, PastMoves
  <2>3. draft[d].st # "none" => draft'[d].st # "none" /\ draft'[d].turn = draft[d].turn
    BY <2>1, StepStays DEF Base, Stays, RowStays
  <2>4. CASE d \in past.denied
    <3>1. draft[d].st # "none" /\ gate[draft[d].turn].pc = "dead" /\ draft[d].turn \in Turns
      BY <2>1, <2>4 DEF ChosenInv, Base, Linked, DraftLink
    <3> QED
      BY <2>3, <3>1, GateProgress
  <2>5. ASSUME NEW t \in Turns, GateDenies(t), d = gate[t].draft
        PROVE  draft'[d].st # "none" /\ gate'[draft'[d].turn].pc = "dead"
    BY <2>3, <2>5 DEF GateDenies, GateBecomes, Base, Linked, GateLink, OfTurn
  <2> QED
    BY <2>2, <2>4, <2>5 DEF PastMove
<1>2. ASSUME NEW t \in Turns, GatePublishes(t)
      PROVE  /\ draft[gate[t].draft].turn = t
             /\ gate'[t].pc \notin {"none", "publish"}
             /\ \A d \in Drafts : Chosen(d) => draft[d].turn # t
  BY <1>2 DEF GatePublishes, GateBecomes, Base, Linked, GateLink, OfTurn, ChosenInv
<1>3. ASSUME NEW d \in Drafts, Chosen(d)'
      PROVE  gate'[draft'[d].turn].pc \notin {"none", "publish"}
  BY <1>2, <1>3, ChosenOrigin, GateProgress DEF ChosenInv
<1>4. ASSUME NEW d \in Drafts, NEW e \in Drafts, Chosen(d)', Chosen(e)',
             draft'[d].turn = draft'[e].turn
      PROVE  d = e
  <2>1. \A c \in {d, e} : /\ draft'[c].turn = draft[c].turn
                          /\ \/ Chosen(c)
                             \/ \E t \in Turns : GatePublishes(t) /\ gate[t].draft = c
    BY <1>4, ChosenOrigin
  <2>2. CASE Chosen(d) /\ Chosen(e)
    BY <1>4, <2>1, <2>2 DEF ChosenInv, PickedOnce
  <2>3. CASE ~Chosen(d)
    BY <1>2, <1>4, <2>1, <2>3
  <2>4. CASE ~Chosen(e)
    BY <1>2, <1>4, <2>1, <2>4
  <2> QED
    BY <2>2, <2>3, <2>4
<1> QED
  BY <1>1, <1>3, <1>4 DEF ChosenInv, PickedOnce

LEMMA InitChosen == Init => ChosenInv
BY DEF Init, ChosenInv, PickedOnce, Chosen, NoRow

------------------------------------------------------------------------------
(* Who moves a draft, and where a frame comes from *)

LEMMA CaseRows ==
  ASSUME Typed, CaseStep \/ SaveStep, NEW d \in Drafts
  PROVE  Rests(d) \/ Stales(d) \/ Starts(d)
<1>1. ASSUME Withdraws PROVE Rests(d) \/ Stales(d)
  BY <1>1 DEF Withdraws, Withdrawn, Rests, Stales
<1>2. ASSUME NEW t \in Turns, NEW e \in Drafts, Saves(t, e) PROVE Rests(d) \/ Starts(d)
  BY <1>2 DEF Saves, Typed, Shapes, DraftRow, Rests, Starts
<1> QED
  BY <1>1, <1>2, CaseWithdraws, SaveWithdrawsOrSaves

LEMMA EntersPrepBy ==
  ASSUME Base, Next, NEW d \in Drafts, draft[d].st # "preparing", draft'[d].st = "preparing"
  PROVE  Approve(d) \/ \E t \in Turns : GatePrepares(t) /\ gate[t].draft = d
<1>0. Typed /\ Shapes /\ Linked
  BY DEF Base, Typed
<1>1. ASSUME NEW e \in Drafts, draft[e].st \in Preparable, Preparing(e) PROVE e = d
  <2>1. Alters(e, "preparing")
    BY <1>0, <1>1, PreparingAlters
  <2> QED
    BY <2>1 DEF Alters
<1>2. ASSUME NEW t \in Turns, GateStepOf(t)
      PROVE  GatePrepares(t) /\ gate[t].draft = d
  <2>1. CASE GatePrepares(t)
    BY <1>0, <1>1, <2>1 DEF GatePrepares, Preparable, Typed, Named
  <2>2. CASE GatePublishes(t)
    BY <2>2 DEF GatePublishes, Alters
  <2> QED
    BY <1>0, <1>2, <2>1, <2>2, GateEffects DEF GateEnds, GateLooks, GatePasses, GateDenies
<1>3. ASSUME NEW e \in Drafts, Approve(e) PROVE e = d
  BY <1>1, <1>3 DEF Approve, Approvable, Preparable
<1>4. ~(CaseStep \/ SaveStep)
  BY <1>0, CaseRows DEF Rests, Stales, Starts
<1>5. ~ \E e \in Drafts : RefuseApproval(e)
  BY DEF RefuseApproval, store
<1>6. ASSUME NEW w \in Workers, Prepare(w) PROVE FALSE
  <2>1. \/ \E pc \in PrepSteps \cup {"finish"} : \E out : Reads(w, pc, out)
        \/ Fails(w) \/ Stores(w) \/ Writes(w) \/ Marks(w) \/ Finishes(w)
    BY <1>0, <1>6, PrepTurn, PrepareEffects DEF Linked
  <2> QED
    BY <2>1 DEF Reads, Fails, Stores, Writes, Marks, Finishes, Alters
<1>7. ~ \E t \in Turns : Lapse(t)
  BY <1>0, LapseEffect
<1>8. ASSUME NEW w \in Workers, \/ Deliver(w) \/ PrepError(w) \/ Crash(w)
                                \/ \E t \in Turns : ClaimPrep(w, t)
                                \/ \E e \in Drafts : TakeUp(w, e)
      PROVE  FALSE
  BY <1>0, <1>8, DrainEffects, TroubleEffect, ClaimPrepEffect, TakeUpEffect DEF store
<1> QED
  BY <1>2, <1>3, <1>4, <1>5, <1>6, <1>7, <1>8 DEF Next, ApproveStep

LEMMA QueuesBy ==
  ASSUME Base, Next, NEW d \in Drafts, Queues(d)
  PROVE  Assigned(d)
<1>0. Typed /\ Shapes /\ Linked
  BY DEF Base, Typed
<1> USE DEF Queues
<1>1. ASSUME NEW e \in Drafts, Preparing(e), draft[e].st \in Preparable PROVE FALSE
  <2>1. Alters(e, "preparing")
    BY <1>0, <1>1, PreparingAlters
  <2> QED
    BY <2>1 DEF Alters
<1>2. ~ \E t \in Turns : GateStepOf(t)
  <2>1. ASSUME NEW t \in Turns, GatePrepares(t) PROVE FALSE
    BY <1>0, <1>1, <2>1 DEF GatePrepares, Preparable, Typed, Named
  <2>2. ASSUME NEW t \in Turns, GatePublishes(t) PROVE FALSE
    BY <2>2 DEF GatePublishes, Alters
  <2> QED
    BY <1>0, <2>1, <2>2, GateEffects DEF GateEnds, GateLooks, GatePasses, GateDenies
<1>3. ~ApproveStep
  BY <1>1 DEF ApproveStep, Approve, Approvable, Preparable, RefuseApproval, store
<1>4. ~(CaseStep \/ SaveStep)
  BY <1>0, CaseRows DEF Rests, Stales, Starts
<1>5. ASSUME NEW w \in Workers, Prepare(w) PROVE Assigned(d)
  <2>1. \/ \E pc \in PrepSteps \cup {"finish"} : \E out : Reads(w, pc, out)
        \/ Fails(w) \/ Stores(w) \/ Writes(w) \/ Marks(w) \/ Finishes(w)
    BY <1>0, <1>5, PrepTurn, PrepareEffects DEF Linked
  <2>2. Marks(w) /\ Of(w) = d
    BY <2>1 DEF Reads, Fails, Stores, Writes, Marks, Finishes, Alters
  <2>3. frame[w].turn \in Turns /\ job[frame[w].turn].st # "none" /\ job[frame[w].turn].draft = d
    BY <1>0, <2>2 DEF Marks, Linked, PrepLink, PrepFrame, PrepSteps
  <2> QED
    BY <1>0, <2>3 DEF Linked, JobLink, OfTurn, Assigned
<1>6. ~ \E t \in Turns : Lapse(t)
  BY <1>0, LapseEffect
<1>7. ASSUME NEW w \in Workers, \/ Deliver(w) \/ PrepError(w) \/ Crash(w)
                                \/ \E t \in Turns : ClaimPrep(w, t)
                                \/ \E e \in Drafts : TakeUp(w, e)
      PROVE  FALSE
  BY <1>0, <1>7, DrainEffects, TroubleEffect, ClaimPrepEffect, TakeUpEffect DEF store
<1> QED
  BY <1>2, <1>3, <1>4, <1>5, <1>6, <1>7 DEF Next

FrameMove(w) ==
    \/ frame'[w] = frame[w]
    \/ frame'[w].pc \in {"idle", "load"} \cup DrainSteps
    \/ /\ frame[w].pc \in PrepSteps /\ Moved(w, "finish", "ended")
       /\ Of(w) \in past'.broken /\ UNCHANGED store
    \/ /\ PrepFrame(w)
       /\ \/ \E pc \in PrepSteps \cup {"finish"} : \E out : Reads(w, pc, out)
          \/ Fails(w) \/ Stores(w) \/ Writes(w) \/ Marks(w)

LEMMA FrameMoves == ASSUME Base, Next, NEW w \in Workers PROVE FrameMove(w)
<1>0. Typed /\ Shapes /\ Linked
  BY DEF Base, Typed
<1> USE DEF FrameMove
<1>1. CASE \/ CaseStep \/ SaveStep \/ ApproveStep
           \/ \E t \in Turns : GateStepOf(t) \/ Lapse(t)
  BY <1>0, <1>1, StoreStep
<1>2. ASSUME NEW v \in Workers, Prepare(v) PROVE FrameMove(w)
  <2>1. /\ PrepFrame(v)
        /\ \/ \E pc \in PrepSteps \cup {"finish"} : \E out : Reads(v, pc, out)
           \/ Fails(v) \/ Stores(v) \/ Writes(v) \/ Marks(v) \/ Finishes(v)
    BY <1>0, <1>2, PrepTurn, PrepareEffects DEF Linked
  <2>2. CASE v = w
    BY <2>1, <2>2 DEF Finishes, Left
  <2>3. CASE v # w
    BY <2>1, <2>3 DEF Reads, Fails, Stores, Writes, Marks, Finishes, Moved, Left, Others
  <2> QED
    BY <2>2, <2>3
<1>3. ASSUME NEW v \in Workers, Deliver(v) PROVE FrameMove(w)
  BY <1>0, <1>3, DrainEffects DEF Moved, Left, Others
<1>4. ASSUME NEW v \in Workers, PrepError(v) \/ Crash(v) PROVE FrameMove(w)
  BY <1>0, <1>4, TroubleEffect DEF Shapes, Moved, Left, Others, Past
<1>5. ASSUME NEW v \in Workers, NEW t \in Turns, ClaimPrep(v, t) PROVE FrameMove(w)
  BY <1>0, <1>5, ClaimPrepEffect DEF Others
<1>6. ASSUME NEW v \in Workers, NEW d \in Drafts, TakeUp(v, d) PROVE FrameMove(w)
  BY <1>0, <1>6, TakeUpEffect DEF Others, DrainSteps
<1> QED
  BY <1>1, <1>2, <1>3, <1>4, <1>5, <1>6 DEF Next

------------------------------------------------------------------------------
(* A completed preparation is final *)

\* What the draft of a job is, once the job exists
InPreparation(row) == \/ row.st \in {"preparing", "prepare_failed", "queued", "stale"}
                      \/ row.st = "approved" /\ row.text
Over(row) == row.st \in {"queued", "stale"}

FinalInv ==
    /\ \A t \in Turns : job[t].st # "none" => InPreparation(draft[job[t].draft])
    /\ CompletedPreparationIsFinal
    /\ \A w \in Workers : At(w, "finish") /\ frame[w].out = "completed" => Over(draft[Of(w)])

LEMMA PreparationGoesOn ==
  ASSUME Base, Next, NEW d \in Drafts
  PROVE  /\ InPreparation(draft[d]) => InPreparation(draft'[d])
         /\ Over(draft[d]) => Over(draft'[d])
<1>1. RowMove(d)
  BY RowMoves
<1> QED
  BY <1>1 DEF RowMove, Rests, Stales, Starts, Publishes, EntersPrep, Preparable, PrepFails, PrepStores,
     Queues, InPreparation, Over

LEMMA FinalStep == ASSUME Base, FinalInv, Next PROVE FinalInv'
<1>0. Typed /\ Shapes /\ Named /\ Linked /\ Base'
  BY BaseStep DEF Base, Typed
<1>1. ASSUME NEW t \in Turns, job'[t].st # "none" PROVE InPreparation(draft'[job'[t].draft])
  <2>1. PICK d \in Drafts : d = job'[t].draft
    BY <1>0, <1>1 DEF Base, Typed, Named
  <2>2. JobMove(t)
    BY JobMoves
  <2>3. CASE job[t].st # "none" /\ job[t].draft = d
    <3>1. InPreparation(draft[d])
      BY <2>3 DEF FinalInv
    <3> QED
      BY <2>1, <3>1, PreparationGoesOn
  <2>4. CASE EntersPrep(d)
    BY <2>1, <2>4 DEF EntersPrep, InPreparation
  <2> QED
    BY <1>1, <2>1, <2>2, <2>3, <2>4 DEF JobMove, Offers, Lapses, GetsClaimed, EndsJob
<1>2. ASSUME NEW t \in Turns, job'[t].st = "completed" PROVE Over(draft'[job'[t].draft])
  <2>1. PICK d \in Drafts : d = job'[t].draft
    BY <1>0, <1>2 DEF Base, Typed, Named
  <2>2. CASE job'[t] = job[t]
    <3>1. Over(draft[d])
      BY <1>2, <2>1, <2>2 DEF FinalInv, CompletedPreparationIsFinal, Over
    <3> QED
      BY <2>1, <3>1, PreparationGoesOn
  <2>3. ASSUME NEW w \in Workers, EndsJob(t, w) PROVE Over(draft'[d])
    <3>1. At(w, "finish") /\ frame[w].out = "completed" /\ UNCHANGED draft /\ job[t].draft = d
      BY <1>2, <2>1, <2>3 DEF EndsJob, Finishes, At
    <3>2. Of(w) = d
      BY <1>0, <2>3, <3>1 DEF EndsJob, Linked, PrepLink, PrepFrame, At
    <3> QED
      BY <3>1, <3>2 DEF FinalInv, Over
  <2>4. JobMove(t)
    BY JobMoves
  <2> QED
    BY <1>2, <2>1, <2>2, <2>3, <2>4 DEF JobMove, Offers, Lapses, GetsClaimed
<1>3. ASSUME NEW w \in Workers, frame'[w].pc = "finish", frame'[w].out = "completed"
      PROVE  Over(draft'[frame'[w].draft])
  <2>1. PICK d \in Drafts : d = frame'[w].draft
    BY <1>0, <1>3 DEF Base, Typed, Named, At, Of
  <2>2. CASE frame'[w] = frame[w]
    <3>1. Over(draft[d])
      BY <1>3, <2>1, <2>2 DEF FinalInv, At, Of
    <3> QED
      BY <2>1, <3>1, PreparationGoesOn
  <2>3. CASE \E pc \in PrepSteps \cup {"finish"} : \E out : Reads(w, pc, out)
    <3>1. /\ UNCHANGED draft /\ Of(w) = d /\ frame[w].pc = "load"
          /\ draft[d].st \notin {"preparing", "prepare_failed"}
          /\ ~(draft[d].st = "approved" /\ draft[d].text)
      BY <1>3, <2>1, <2>3 DEF Reads, Moved
    <3>2. InPreparation(draft[d])
      BY <1>0, <3>1 DEF Linked, PrepLink, PrepFrame, PrepSteps, FinalInv
    <3> QED
      BY <2>1, <3>1, <3>2 DEF InPreparation, Over
  <2>4. CASE Marks(w)
    BY <1>3, <2>1, <2>4 DEF Marks, Moved, Alters, Over, Of
  <2>5. FrameMove(w)
    BY FrameMoves
  <2> QED
    BY <1>3, <2>2, <2>3, <2>4, <2>5 DEF FrameMove, Moved, Fails, Stores, Writes, DrainSteps
<1> QED
  BY <1>1, <1>2, <1>3 DEF FinalInv, CompletedPreparationIsFinal, Over, At, Of

\* Base, the choice of one draft per turn, and what it makes final: the part of the
\* inductive invariant that the properties of the preparation share
PrepBase == Base /\ ChosenInv /\ FinalInv

LEMMA PrepBaseInit == Init => PrepBase
BY InitBase, InitChosen DEF Init, PrepBase, FinalInv, CompletedPreparationIsFinal, NoJob, Idle, At

LEMMA PrepBaseStep == PrepBase /\ [Next]_vars => PrepBase'
<1> SUFFICES ASSUME PrepBase, [Next]_vars PROVE PrepBase'
  OBVIOUS
<1>1. CASE Next
  BY <1>1, BaseStep, ChosenStep, FinalStep DEF PrepBase
<1>2. CASE UNCHANGED vars
  <2>1. ChosenInv'
    BY <1>2 DEF PrepBase, vars, store, ChosenInv, PickedOnce, Chosen, Published, AtGate, Assigned
  <2>2. FinalInv'
    BY <1>2 DEF PrepBase, vars, store, FinalInv, CompletedPreparationIsFinal, InPreparation, Over,
       At, Of
  <2> QED
    BY <2>1, <2>2, BaseStep DEF PrepBase
<1> QED
  BY <1>1, <1>2

\* A completed preparation job is never needed again, whatever approvals, lapsed leases and
\* crashes there were: its draft is queued or stale.
THEOREM PreparationStaysFinal == Spec => []CompletedPreparationIsFinal
<1>1. PrepBase => CompletedPreparationIsFinal
  BY DEF PrepBase, FinalInv
<1> QED
  BY <1>1, PrepBaseInit, PrepBaseStep, PTL DEF Spec

------------------------------------------------------------------------------
(* A draft in preparation is driven *)

Owner(w) == job[frame[w].turn].st = "claimed" /\ job[frame[w].turn].owner = w

DrivenInv ==
    /\ \A d \in Drafts \ past.broken : draft[d].st = "preparing" =>
         /\ Assigned(d)
         /\ job[draft[d].turn].st \in {"pending", "claimed"}
    /\ \A w \in Workers : frame[w].pc \in {"queue", "ledger", "mark"} /\ Owner(w) =>
         draft[Of(w)].st # "preparing"
    /\ \A w \in Workers : At(w, "finish") /\ Owner(w) =>
         draft[Of(w)].st # "preparing" \/ Of(w) \in past.broken

\* A draft that enters preparation has the job of its turn
LEMMA EntersWithJob ==
  ASSUME PrepBase, Next, NEW d \in Drafts, EntersPrep(d)
  PROVE  /\ draft[d].turn \in Turns
         /\ job'[draft[d].turn].st = "pending" /\ job'[draft[d].turn].draft = d
<1> DEFINE t == draft[d].turn
<1>0. Shapes /\ Linked /\ Base /\ ChosenInv /\ FinalInv
  BY DEF PrepBase, Base, Typed
<1>1. t \in Turns /\ Chosen(d)
  BY <1>0 DEF EntersPrep, Preparable, Linked, DraftLink, Chosen, Published
<1>2. job[t].st # "none" => job[t].draft = d
  <2> SUFFICES ASSUME job[t].st # "none" PROVE job[t].draft = d
    OBVIOUS
  <2>1. PICK e \in Drafts : e = job[t].draft
    BY <1>0, <1>1 DEF Base, Typed, Named
  <2>2. draft[e].st # "none" /\ draft[e].turn = t
    BY <1>0, <1>1, <2>1 DEF Linked, JobLink, OfTurn
  <2>3. Chosen(e)
    BY <2>1, <2>2 DEF Chosen, Assigned
  <2> QED
    BY <1>0, <1>1, <2>1, <2>2, <2>3 DEF ChosenInv, PickedOnce
<1>3. job[t].st # "completed"
  BY <1>0, <1>1, <1>2 DEF EntersPrep, Preparable, FinalInv, CompletedPreparationIsFinal
<1> HIDE DEF t
<1>4. job'[t].st = "pending" /\ job'[t].draft = IF job[t].st = "none" THEN d ELSE job[t].draft
  BY <1>0, <1>1, <1>3, PreparingJobs DEF t, EntersPrep
<1> QED
  BY <1>1, <1>2, <1>4 DEF t

\* A process that comes to own the preparation has just loaded it, and what it owned it
\* keeps while the job is not offered again
LEMMA OwnerOrigin ==
  ASSUME PrepBase, Next, NEW w \in Workers, PrepFrame(w), frame'[w] = frame[w], frame[w].pc # "load",
         Owner(w)', draft'[Of(w)].st = "preparing"
  PROVE  Owner(w) /\ draft[Of(w)].st = "preparing"
<1> DEFINE t == frame[w].turn
<1>0. Shapes /\ Named /\ Linked /\ Base
  BY DEF PrepBase, Base, Typed
<1>1. PICK d \in Drafts : d = Of(w)
  BY <1>0 DEF Named, PrepFrame, PrepSteps, At
<1>2. t \in Turns /\ job[t].st # "none" /\ job[t].draft = d /\ draft[d].turn = t
  BY <1>0, <1>1 DEF Linked, PrepLink, JobLink, OfTurn
<1>3. job'[t].st = "claimed" /\ job'[t].owner = w
  BY DEF Owner
<1> HIDE DEF t
<1>4. JobMove(t) /\ RowMove(d)
  BY <1>0, <1>2, JobMoves, RowMoves
<1>5. ~EntersPrep(d)
  BY <1>2, <1>3, EntersWithJob
<1>6. draft[d].st = "preparing"
  BY <1>1, <1>4, <1>5 DEF RowMove, Rests, Stales, Starts, Publishes, GatePublishes, Alters, PrepFails,
     PrepStores, Queues
<1>7. ~GetsClaimed(t)
  BY <1>3 DEF GetsClaimed, Others
<1>8. ~ \E v \in Workers : EndsJob(t, v)
  BY <1>0, <1>3 DEF EndsJob, Finishes, Named, At
<1>9. ~ \E e \in Drafts : Offers(t, e)
  <2> SUFFICES ASSUME NEW e \in Drafts, Offers(t, e) PROVE FALSE
    OBVIOUS
  <2>1. EntersPrep(e) /\ draft[e].turn = t
    BY DEF Offers, OfTurn
  <2> QED
    BY <1>3, <2>1, EntersWithJob
<1> QED
  BY <1>1, <1>3, <1>4, <1>6, <1>7, <1>8, <1>9 DEF JobMove, Lapses, Owner, t

LEMMA DrivenStep == ASSUME PrepBase, DrivenInv, Next PROVE DrivenInv'
<1>0. Shapes /\ Named /\ Linked /\ Base /\ FinalInv
  BY DEF PrepBase, Base, Typed
<1>1. ASSUME NEW d \in Drafts \ past'.broken, draft'[d].st = "preparing"
      PROVE  /\ job'[draft'[d].turn].draft = d
             /\ job'[draft'[d].turn].st \in {"pending", "claimed"}
  <2>1. RowMove(d) /\ d \notin past.broken
    BY <1>0, RowMoves, PastMoves DEF PastMove
  <2>2. CASE EntersPrep(d)
    BY <2>1, <2>2, EntersWithJob DEF RowMove, EntersPrep, Preparable
  <2>3. CASE draft[d].st = "preparing"
    <3> DEFINE t == draft[d].turn
    <3>1. t \in Turns /\ draft'[d].turn = t
      BY <1>0, <2>1, <2>3 DEF Linked, DraftLink, RowMove
    <3>2. job[t].draft = d /\ job[t].st \in {"pending", "claimed"}
      BY <2>1, <2>3 DEF DrivenInv, Assigned
    <3> HIDE DEF t
    <3>3. ~ \E w \in Workers : EndsJob(t, w)
      <4> SUFFICES ASSUME NEW w \in Workers, EndsJob(t, w) PROVE FALSE
        OBVIOUS
      <4>1. frame[w].turn = t /\ At(w, "finish") /\ Owner(w)
        BY DEF EndsJob, Finishes, At, Owner
      <4>2. Of(w) = d
        BY <1>0, <3>2, <4>1 DEF Linked, PrepLink, PrepFrame, At
      <4> QED
        BY <2>1, <2>3, <4>1, <4>2 DEF DrivenInv
    <3>4. JobMove(t)
      BY <1>0, <3>1, JobMoves
    <3> QED
      BY <3>1, <3>2, <3>3, <3>4 DEF JobMove, Offers, Lapses, GetsClaimed
  <2> QED
    BY <1>1, <2>1, <2>2, <2>3 DEF RowMove, Rests, Stales, Starts, Publishes, GatePublishes, Alters,
       PrepFails, PrepStores, Queues
<1>2. ASSUME NEW w \in Workers, frame'[w].pc \in {"queue", "ledger", "mark"}, Owner(w)'
      PROVE  draft'[frame'[w].draft].st # "preparing"
  <2>1. FrameMove(w)
    BY <1>0, FrameMoves
  <2>2. CASE frame'[w] = frame[w]
    BY <1>2, <2>2, OwnerOrigin DEF DrivenInv, PrepFrame, PrepSteps, Of
  <2>3. ASSUME NEW pc, NEW out, Reads(w, pc, out) PROVE draft'[frame'[w].draft].st # "preparing"
    BY <1>2, <2>3 DEF Reads, Moved
  <2>4. CASE PrepFrame(w) /\ Stores(w)
    <3>1. Of(w) \in Drafts
      BY <1>0, <2>4 DEF Named, PrepFrame, PrepSteps, At
    <3> QED
      BY <1>2, <2>4, <3>1 DEF Stores, Moved, Alters
  <2>5. CASE Writes(w)
    <3>1. frame[w].pc = "ledger" /\ UNCHANGED <<draft, job>> /\ frame'[w].draft = Of(w)
          /\ frame'[w].turn = frame[w].turn
      BY <2>5 DEF Writes, Moved
    <3>2. Owner(w)
      BY <1>2, <3>1 DEF Owner
    <3> QED
      BY <3>1, <3>2 DEF DrivenInv
  <2> QED
    BY <1>2, <2>1, <2>2, <2>3, <2>4, <2>5 DEF FrameMove, Moved, Fails, Marks, DrainSteps
<1>3. ASSUME NEW w \in Workers, frame'[w].pc = "finish", Owner(w)'
      PROVE  draft'[frame'[w].draft].st # "preparing" \/ frame'[w].draft \in past'.broken
  <2>1. FrameMove(w)
    BY <1>0, FrameMoves
  <2>2. CASE frame'[w] = frame[w]
    <3>1. past.broken \subseteq past'.broken
      BY <1>0, PastMoves DEF PastMove
    <3> QED
      BY <1>3, <2>2, <3>1, OwnerOrigin DEF DrivenInv, PrepFrame, Of, At
  <2>3. CASE /\ PrepFrame(w)
             /\ \/ \E pc \in PrepSteps \cup {"finish"} : \E out : Reads(w, pc, out)
                \/ Fails(w) \/ Stores(w) \/ Marks(w)
    <3>1. Of(w) \in Drafts
      BY <1>0, <2>3 DEF Named, PrepFrame, PrepSteps, At
    <3>2. frame'[w].draft = Of(w) /\ frame'[w].turn = frame[w].turn /\ UNCHANGED job
      BY <1>3, <2>3 DEF Reads, Fails, Stores, Marks, Moved
    <3>3. Owner(w)
      BY <1>3, <3>2 DEF Owner
    <3>4. frame[w].pc \in {"queue", "mark"} => draft[Of(w)].st # "preparing"
      BY <3>3 DEF DrivenInv
    <3>5. CASE Fails(w) \/ Stores(w) \/ Marks(w)
      BY <1>3, <3>1, <3>2, <3>4, <3>5 DEF Fails, Stores, Marks, Moved, Alters
    <3>6. ASSUME NEW pc, NEW out, Reads(w, pc, out) PROVE draft'[frame'[w].draft].st # "preparing"
      BY <1>3, <3>2, <3>4, <3>6 DEF Reads, Moved
    <3> QED
      BY <2>3, <3>5, <3>6
  <2> QED
    BY <1>3, <2>1, <2>2, <2>3 DEF FrameMove, Moved, Writes, DrainSteps
<1>4. ASSUME NEW d \in Drafts \ past'.broken, draft'[d].st = "preparing"
      PROVE  Assigned(d)'
  BY <1>1, <1>4 DEF Assigned
<1> QED
  BY <1>1, <1>2, <1>3, <1>4 DEF DrivenInv, At, Of

\* A draft never stays in preparation without a job that will carry it on, but for an
\* exception nobody expects, whatever turns, drafts and processes there are.
THEOREM PreparationIsDriven == Spec => []PreparingIsDriven
<1>1. Init => PrepBase /\ DrivenInv
  BY PrepBaseInit DEF Init, DrivenInv, NoRow, Idle, At
<1>2. PrepBase /\ DrivenInv /\ [Next]_vars => (PrepBase /\ DrivenInv)'
  <2> SUFFICES ASSUME PrepBase, DrivenInv, [Next]_vars PROVE PrepBase' /\ DrivenInv'
    OBVIOUS
  <2>1. CASE UNCHANGED vars
    BY <2>1, PrepBaseStep DEF vars, store, DrivenInv, Assigned, Owner, At, Of
  <2> QED
    BY <2>1, PrepBaseStep, DrivenStep
<1>3. DrivenInv => PreparingIsDriven
  BY DEF DrivenInv, PreparingIsDriven, Assigned
<1> QED
  BY <1>1, <1>2, <1>3, PTL DEF Spec

------------------------------------------------------------------------------
(* What the gate or the approval refused is not sent *)

\* Until an engineer approves it, a draft at the gate or refused there has no job
DeniedInv ==
    \A d \in Drafts \ past.clicked :
        d \in past.denied \/ (draft[d].st # "none" /\ AtGate(d)) =>
            /\ draft[d].st \in {"approved", "stale"}
            /\ ~Assigned(d)

LEMMA DeniedStep == ASSUME PrepBase, DeniedInv, Next PROVE DeniedInv'
<1>0. Shapes /\ Named /\ Linked /\ Base /\ ChosenInv
  BY DEF PrepBase, Base, Typed
<1> SUFFICES ASSUME NEW d \in Drafts, d \notin past'.clicked,
                    d \in past'.denied \/ (draft'[d].st # "none" /\ AtGate(d)')
             PROVE  draft'[d].st \in {"approved", "stale"} /\ ~Assigned(d)'
  BY DEF DeniedInv
<1>1. RowMove(d) /\ PastMove /\ d \notin past.clicked
  BY <1>0, RowMoves, PastMoves DEF PastMove
<1>2. ASSUME NEW t \in Turns, GateDenies(t), gate[t].draft = d
      PROVE  draft[d].st # "none" /\ AtGate(d)
  BY <1>0, <1>2 DEF GateDenies, Linked, GateLink, OfTurn, AtGate
<1>3. draft[d].st # "none"
  <2>1. CASE d \in past'.denied
    BY <1>0, <1>1, <1>2, <2>1 DEF PastMove, ChosenInv
  <2>2. CASE draft'[d].st # "none" /\ AtGate(d)'
    BY <1>0, <2>2, NewIsFree
  <2> QED
    BY <2>1, <2>2
<1>4. PICK t \in Turns : t = draft[d].turn /\ t = draft'[d].turn
  BY <1>0, <1>1, <1>3 DEF Linked, DraftLink, RowMove
<1>5. CASE d \in past.denied \/ AtGate(d)
  <2>1. draft[d].st \in {"approved", "stale"} /\ ~Assigned(d)
    BY <1>1, <1>3, <1>5 DEF DeniedInv
  <2>2. ~EntersPrep(d)
    <3> SUFFICES ASSUME EntersPrep(d) PROVE FALSE
      OBVIOUS
    <3>1. draft[d].st # "preparing" /\ draft'[d].st = "preparing"
      BY DEF EntersPrep, Preparable
    <3>2. CASE Approve(d)
      <4>1. past'.clicked = past.clicked \cup {d}
        BY <1>0, <3>2 DEF Approve, Shapes, Past
      <4> QED
        BY <4>1
    <3>3. ASSUME NEW u \in Turns, GatePrepares(u), gate[u].draft = d PROVE FALSE
      <4>1. u = t
        BY <1>0, <1>4, <3>3 DEF GatePrepares, Linked, GateLink, OfTurn
      <4>2. gate[t].pc = "job" /\ gate'[t].pc = "done" /\ past' = past
        BY <3>3, <4>1 DEF GatePrepares, GateBecomes
      <4> QED
        BY <1>0, <1>4, <4>2 DEF AtGate, ChosenInv
    <3> QED
      BY <1>0, <3>1, <3>2, <3>3, EntersPrepBy
  <2>3. ~Assigned(d)'
    BY <1>0, <1>3, <2>1, <2>2, AssignedOrigin
  <2>4. ~Queues(d)
    BY <1>0, <2>1, QueuesBy
  <2> QED
    BY <1>1, <2>1, <2>2, <2>3, <2>4 DEF RowMove, Rests, Stales, Starts, Publishes, PrepFails, PrepStores
<1>6. ASSUME NEW u \in Turns, GatePublishes(u), gate[u].draft = d, AtGate(d)'
      PROVE  draft'[d].st \in {"approved", "stale"} /\ ~Assigned(d)'
  <2>1. u = t
    BY <1>0, <1>4, <1>6 DEF GatePublishes, Linked, GateLink, OfTurn
  <2>2. gate[t].pc = "publish" /\ gate'[t].pc = "fence" /\ UNCHANGED job
    BY <1>4, <1>6, <2>1 DEF GatePublishes, GateBecomes, AtGate
  <2>3. draft'[d].st = "approved"
    BY <1>6, <2>1, <2>2 DEF GatePublishes, GateBecomes, Alters
  <2>4. ~Assigned(d)
    BY <1>0, <1>3, <1>4, <2>2 DEF ChosenInv, Chosen
  <2> QED
    BY <1>4, <2>2, <2>3, <2>4 DEF Assigned
<1> QED
  BY <1>0, <1>1, <1>2, <1>3, <1>5, <1>6, AtGateOrigin DEF PastMove

\* A draft the publication gate refused, though it stays approved, reaches the ledger only
\* if an engineer approves it.
THEOREM DeniedIsNotSent == Spec => []DeniedNeedsAHuman
<1>1. Init => PrepBase /\ DeniedInv
  BY PrepBaseInit DEF Init, DeniedInv, NoRow
<1>2. PrepBase /\ DeniedInv /\ [Next]_vars => (PrepBase /\ DeniedInv)'
  <2> SUFFICES ASSUME PrepBase, DeniedInv, [Next]_vars PROVE PrepBase' /\ DeniedInv'
    OBVIOUS
  <2>1. CASE UNCHANGED vars
    BY <2>1, PrepBaseStep DEF vars, store, DeniedInv, Assigned, AtGate
  <2> QED
    BY <2>1, PrepBaseStep, DeniedStep
<1>3. PrepBase /\ DeniedInv => DeniedNeedsAHuman
  BY DEF PrepBase, Base, Typed, Shapes, Past, Linked, LedgerLink, DeniedInv, DeniedNeedsAHuman
<1> QED
  BY <1>1, <1>2, <1>3, PTL DEF Spec

RefusedInv ==
    \A d \in past.refused : /\ draft[d].st \in {"awaiting", "stale"}
                            /\ Outpaced(d, conv)
                            /\ ~Assigned(d)

\* The conversation version never goes back
LEMMA VersionGrows == ASSUME Base, Next PROVE conv' >= conv
<1>0. Typed /\ Shapes /\ Linked /\ conv \in Nat
  BY DEF Base, Typed, Shapes
<1>1. CASE CaseStep \/ SaveStep
  BY <1>0, <1>1, CaseWithdraws, SaveWithdrawsOrSaves DEF Withdraws, Saves
<1>2. CASE ApproveStep
  BY <1>0, <1>2 DEF ApproveStep, Approve, RefuseApproval, store
<1>3. ASSUME NEW t \in Turns, GateStepOf(t) \/ Lapse(t) PROVE conv' = conv
  BY <1>0, <1>3, GateEffects, LapseEffect
<1>4. ASSUME NEW w \in Workers, \/ Prepare(w) \/ Deliver(w) \/ PrepError(w) \/ Crash(w)
                                \/ \E t \in Turns : ClaimPrep(w, t)
                                \/ \E d \in Drafts : TakeUp(w, d)
      PROVE  conv' = conv
  BY <1>0, <1>4, PrepTurn, PrepareEffects, DrainEffects, TroubleEffect, ClaimPrepEffect, TakeUpEffect
     DEF Linked, store
<1> QED
  BY <1>0, <1>1, <1>2, <1>3, <1>4 DEF Next

LEMMA RefusedStep == ASSUME PrepBase, RefusedInv, Next PROVE RefusedInv'
<1>0. Shapes /\ Named /\ Linked /\ Base /\ FinalInv
  BY DEF PrepBase, Base, Typed
<1> SUFFICES ASSUME NEW d \in past'.refused
             PROVE  /\ draft'[d].st \in {"awaiting", "stale"}
                    /\ Outpaced(d, conv)'
                    /\ ~Assigned(d)'
  BY DEF RefusedInv
<1>1. d \in Drafts
  BY <1>0, BaseStep DEF Base, Typed, Shapes, Past
<1>2. RowMove(d) /\ PastMove
  BY <1>0, <1>1, RowMoves, PastMoves
<1>3. conv' >= conv /\ conv \in Nat /\ conv' \in Nat /\ draft[d].ver \in Nat
  BY <1>0, <1>1, BaseStep, VersionGrows DEF Base, Typed, Shapes, DraftRow
<1>4. CASE d \in past.refused
  <2>1. draft[d].st \in {"awaiting", "stale"} /\ Outpaced(d, conv) /\ ~Assigned(d)
    BY <1>4 DEF RefusedInv
  <2>2. ~EntersPrep(d)
    <3> SUFFICES ASSUME EntersPrep(d) PROVE FALSE
      OBVIOUS
    <3>1. Approve(d) \/ \E t \in Turns : GatePrepares(t) /\ gate[t].draft = d
      BY <1>0, <1>1, <2>1, EntersPrepBy DEF EntersPrep
    <3> QED
      BY <2>1, <3>1 DEF Approve, Approvable, GatePrepares
  <2>3. ~Assigned(d)'
    BY <1>0, <1>1, <2>1, <2>2, AssignedOrigin
  <2>4. draft'[d].st \in {"awaiting", "stale"} /\ draft'[d].ver = draft[d].ver
    BY <1>2, <2>1, <2>2 DEF RowMove, Rests, Stales, Starts, Publishes, PrepFails, PrepStores, Queues
  <2> QED
    BY <1>3, <2>1, <2>3, <2>4 DEF Outpaced
<1>5. CASE RefuseApproval(d)
  <2>1. draft[d].st = "awaiting" /\ Outpaced(d, conv) /\ UNCHANGED <<draft, job, conv>>
    BY <1>5 DEF RefuseApproval, store
  <2>2. ~Assigned(d)
    BY <1>0, <1>1, <2>1 DEF Linked, DraftLink, Assigned, FinalInv, InPreparation
  <2> QED
    BY <2>1, <2>2 DEF Outpaced, Assigned
<1> QED
  BY <1>2, <1>4, <1>5 DEF PastMove

\* A draft whose approval was refused as stale is not sent later, although the update that
\* would have made it stale is rolled back.
THEOREM RefusalHolds == Spec => []RefusedIsNeverSent
<1>1. Init => PrepBase /\ RefusedInv
  BY PrepBaseInit DEF Init, RefusedInv
<1>2. PrepBase /\ RefusedInv /\ [Next]_vars => (PrepBase /\ RefusedInv)'
  <2> SUFFICES ASSUME PrepBase, RefusedInv, [Next]_vars PROVE PrepBase' /\ RefusedInv'
    OBVIOUS
  <2>1. CASE UNCHANGED vars
    BY <2>1, PrepBaseStep DEF vars, store, RefusedInv, Assigned, Outpaced
  <2> QED
    BY <2>1, PrepBaseStep, RefusedStep
<1>3. PrepBase /\ RefusedInv => RefusedIsNeverSent
  BY DEF PrepBase, Base, Typed, Shapes, Past, Linked, LedgerLink, RefusedInv, RefusedIsNeverSent
<1> QED
  BY <1>1, <1>2, <1>3, PTL DEF Spec

------------------------------------------------------------------------------
(* The ledger tells the truth, when one process runs the drain *)

OneDrain == \A v, w \in Drains : v = w

\* Between two steps of the only drain nobody else moves its row on
SingleInv ==
    /\ \A w \in Workers : DrainFrame(w) => w \in Drains
    /\ \A w \in Workers :
         /\ frame[w].pc \in {"mirror", "comments", "ticket", "claim"} => ledger[Of(w)].st = "queued"
         /\ frame[w].pc \in {"send", "record"} => ledger[Of(w)].st = "pending"
         /\ frame[w].pc = "audit" => ledger[Of(w)].st \in {"pending", "outcome_unknown"}
         /\ frame[w].pc = "record" => /\ frame[w].out = "delivered" => posted[Of(w)] > 0
                                      /\ frame[w].out = "failed" =>
                                           posted[Of(w)] = 0 \/ Of(w) \in past.misjudged
    /\ LedgerTellsTheTruth

Looking == {"mirror", "comments", "ticket"}

\* What a step of the drain that is neither the claim nor the call does to its row
LookMove(w) ==
    \/ UNCHANGED ledger /\ Left(w)
    \/ /\ UNCHANGED ledger /\ frame[w].pc \in Looking
       /\ \E pc \in {"comments", "ticket", "claim"} : \E out : Moved(w, pc, out)
    \/ /\ Left(w) /\ frame[w].pc \in Looking
       /\ \E st \in {"failed", "cancelled"} : RowRecorded(Of(w), st)
    \/ Left(w) /\ frame[w].pc = "record" /\ RowRecorded(Of(w), frame[w].out)
    \/ Left(w) /\ frame[w].pc = "audit" /\ posted[Of(w)] > 0 /\ RowRecorded(Of(w), "delivered")

LEMMA LookMoves ==
  ASSUME Typed, NEW w \in Workers, Deliver(w), ~Post(w), ~PostNothing(w), ~ClaimDelivery(w)
  PROVE  LookMove(w) /\ UNCHANGED posted
<1>1. Of(w) \in Drafts
  BY DrainEffects DEF DrainSteps, Typed, Named, At
<1>2. \A st : Record(Of(w), st) => RowRecorded(Of(w), st)
  BY <1>1, RecordEffect
<1>3. /\ Leave(w) => Left(w)
      /\ \A pc \in {"comments", "ticket", "claim"} : Go(w, pc) => Moved(w, pc, frame[w].out)
  BY Moves DEF Typed, Shapes, Frame, DrainSteps
<1> USE DEF LookMove, Looking
<1>4. CASE LookMirror(w)
  BY <1>2, <1>3, <1>4 DEF LookMirror, At
<1>5. CASE LookComments(w)
  BY <1>2, <1>3, <1>5 DEF LookComments, At
<1>6. CASE LookTicket(w)
  BY <1>2, <1>3, <1>6 DEF LookTicket, At
<1>7. CASE RecordOutcome(w)
  BY <1>2, <1>3, <1>7 DEF RecordOutcome, At
<1>8. CASE Audit(w)
  BY <1>2, <1>3, <1>8 DEF Audit, At
<1> QED
  BY <1>4, <1>5, <1>6, <1>7, <1>8 DEF Deliver

\* While the only drain is at work, no other process is
LEMMA NoOtherDrain ==
  ASSUME OneDrain, SingleInv, NEW w \in Workers, w \in Drains, Others(w)
  PROVE  \A v \in Workers : frame'[v].pc \in DrainSteps => v = w
BY DEF OneDrain, SingleInv, DrainFrame, Others

LEMMA SingleStep == ASSUME OneDrain, Base, SendInv, SingleInv, Next PROVE SingleInv'
<1>0. Typed /\ Shapes /\ Named /\ Linked
  BY DEF Base, Typed
<1>1. \A w \in Workers : DrainFrame(w) => Of(w) \in Drafts
  BY <1>0 DEF Named, DrainFrame, DrainSteps, At
<1>2. /\ \A d \in Drafts : posted[d] \in Nat
      /\ past.misjudged \subseteq past'.misjudged
  BY <1>0, PastMoves DEF Shapes, PastMove
<1> USE DEF SingleInv, DrainFrame, DrainSteps
<1>3. CASE \/ CaseStep \/ SaveStep \/ ApproveStep
           \/ \E t \in Turns : GateStepOf(t) \/ Lapse(t)
  BY <1>0, <1>2, <1>3, StoreStep DEF LedgerTellsTheTruth, Of
<1>4. ASSUME NEW w \in Workers, Apart(w) PROVE SingleInv'
  <2>1. \A v \in Workers : frame'[v].pc \in DrainSteps => frame'[v] = frame[v]
    BY <1>4 DEF Apart, Others
  <2>2. \A d \in Drafts : ledger'[d] = ledger[d] \/ (ledger[d].st = "none" /\ ledger'[d].st = "queued")
    BY <1>4 DEF Apart
  <2>3. LedgerTellsTheTruth'
    BY <1>2, <1>4, <2>2 DEF Apart, LedgerTellsTheTruth
  <2> QED
    BY <1>1, <1>2, <1>4, <2>1, <2>2, <2>3 DEF Apart, Of
<1>5. ASSUME NEW w \in Workers, NEW d \in Drafts, TakeUp(w, d) PROVE SingleInv'
  <2>1. w \in Drains
    BY <1>5 DEF TakeUp
  <2>2. UNCHANGED <<ledger, posted>> /\ Others(w) /\ frame'[w].draft = d
        /\ \/ ledger[d].st = "queued" /\ frame'[w].pc = "mirror"
           \/ ledger[d].st \in {"pending", "outcome_unknown"} /\ frame'[w].pc = "audit"
    BY <1>0, <1>5, TakeUpEffect
  <2> QED
    BY <1>2, <2>1, <2>2, NoOtherDrain DEF LedgerTellsTheTruth, Of
<1>6. ASSUME NEW w \in Workers, Deliver(w) PROVE SingleInv'
  <2>0. PICK d \in Drafts : d = Of(w)
    BY <1>0, <1>1, <1>6, DrainEffects
  <2>1. w \in Drains
    BY <1>0, <1>6, DrainEffects
  <2>2. CASE ~Post(w) /\ ~PostNothing(w) /\ ~ClaimDelivery(w)
    <3>1. LookMove(w) /\ UNCHANGED posted
      BY <1>0, <1>6, <2>2, LookMoves
    <3>2. frame[w].pc = "record" => frame[w].out \in {"delivered", "outcome_unknown", "failed"}
      BY <1>0 DEF Named, At
    <3>3. frame[w].pc \in Looking => posted[d] = 0
      BY <2>0 DEF Looking, SendInv
    <3>4. CASE UNCHANGED ledger /\ frame[w].pc \in Looking
               /\ \E pc \in {"comments", "ticket", "claim"} : \E out : Moved(w, pc, out)
      <4>1. frame'[w].draft = d /\ frame'[w].pc \in {"comments", "ticket", "claim"} /\ Others(w)
        BY <2>0, <3>4 DEF Moved
      <4> QED
        BY <1>2, <2>0, <2>1, <3>1, <3>4, <4>1, NoOtherDrain DEF Looking, LedgerTellsTheTruth, Of
    <3>5. CASE Left(w)
      <4>1. \A v \in Workers : frame'[v].pc \notin DrainSteps
        BY <2>1, <3>5, NoOtherDrain DEF Left
      <4>2. LedgerTellsTheTruth'
        BY <1>2, <2>0, <3>1, <3>2, <3>3 DEF LookMove, RowRecorded, LedgerTellsTheTruth
      <4> QED
        BY <4>1, <4>2
    <3> QED
      BY <3>1, <3>4, <3>5 DEF LookMove
  <2>3. CASE ClaimDelivery(w)
    <3>1. CASE UNCHANGED ledger /\ Left(w)
      <4>1. \A v \in Workers : frame'[v].pc \notin DrainSteps
        BY <2>1, <3>1, NoOtherDrain DEF Left
      <4> QED
        BY <1>0, <1>2, <2>3, <3>1, <4>1, ClaimEffect DEF LedgerTellsTheTruth
    <3>2. CASE /\ ledger[d].st = "queued" /\ ledger'[d].st = "pending"
               /\ \A e \in Drafts \ {d} : ledger'[e] = ledger[e]
               /\ Moved(w, "send", frame[w].out)
      <4>1. frame'[w].draft = d /\ frame'[w].pc = "send" /\ Others(w) /\ UNCHANGED posted
        BY <1>0, <2>0, <2>3, <3>2, ClaimEffect DEF Moved
      <4>2. LedgerTellsTheTruth'
        BY <1>2, <3>2, <4>1 DEF LedgerTellsTheTruth
      <4> QED
        BY <2>1, <3>2, <4>1, <4>2, NoOtherDrain DEF Of
    <3> QED
      BY <1>0, <2>0, <2>3, <3>1, <3>2, ClaimEffect
  <2>4. CASE Post(w) \/ PostNothing(w)
    <3>1. /\ frame[w].pc = "send" /\ UNCHANGED ledger
          /\ \A e \in Drafts \ {d} : posted'[e] = posted[e]
          /\ \/ /\ posted'[d] = posted[d] + 1
                /\ \E out \in {"delivered", "outcome_unknown", "failed"} :
                     Moved(w, "record", out) /\ (out = "failed" => Misjudges(w))
             \/ UNCHANGED posted /\ \E out \in {"failed", "outcome_unknown"} : Moved(w, "record", out)
             \/ UNCHANGED posted /\ Left(w)
      BY <1>0, <2>0, <2>4, PostEffects
    <3>2. ledger[d].st = "pending" /\ posted[d] = 0
      BY <2>0, <3>1 DEF SendInv, At
    <3>3. LedgerTellsTheTruth'
      BY <1>2, <3>1, <3>2 DEF LedgerTellsTheTruth
    <3>4. CASE Left(w)
      BY <2>1, <3>3, <3>4, NoOtherDrain DEF Left
    <3>5. ASSUME NEW out, Moved(w, "record", out),
                 out = "delivered" => posted'[d] > 0,
                 out = "failed" => posted'[d] = 0 \/ d \in past'.misjudged
          PROVE  SingleInv'
      <4>1. frame'[w].draft = d /\ frame'[w].pc = "record" /\ frame'[w].out = out /\ Others(w)
        BY <2>0, <3>5 DEF Moved
      <4> QED
        BY <2>1, <3>1, <3>2, <3>3, <3>5, <4>1, NoOtherDrain DEF Of
    <3>6. Misjudges(w) => d \in past'.misjudged
      BY <1>0, <2>0 DEF Misjudges, Shapes, Past
    <3> QED
      BY <3>1, <3>2, <3>4, <3>5, <3>6
  <2> QED
    BY <2>2, <2>3, <2>4
<1>7. ASSUME NEW w \in Workers, Prepare(w) \/ PrepError(w) \/ Crash(w) \/ \E t \in Turns : ClaimPrep(w, t)
      PROVE  SingleInv'
  BY <1>4, <1>7, PrepareApart
<1> QED
  BY <1>3, <1>5, <1>6, <1>7 DEF Next

\* The inductive invariant of what the delivery promises
PromiseInv == PrepBase /\ SendInv /\ SingleInv

LEMMA PromiseInit == Init => PromiseInv
<1>1. Init => SendInv
  BY DEF Init, SendInv, SentOnce, At, Idle
<1>2. Init => SingleInv
  BY DEF Init, SingleInv, LedgerTellsTheTruth, DrainFrame, DrainSteps, Idle, NoDelivery
<1> QED
  BY <1>1, <1>2, PrepBaseInit DEF PromiseInv

LEMMA PromiseInvStep == ASSUME OneDrain PROVE PromiseInv /\ [Next]_vars => PromiseInv'
<1> SUFFICES ASSUME PromiseInv, [Next]_vars PROVE PromiseInv'
  OBVIOUS
<1>1. CASE Next
  BY <1>1, PrepBaseStep, SendStep, SingleStep DEF PromiseInv, PrepBase
<1>2. CASE UNCHANGED vars
  <2>1. SendInv'
    BY <1>2 DEF PromiseInv, vars, SendInv, SentOnce, At, Of
  <2>2. SingleInv'
    BY <1>2 DEF PromiseInv, vars, SingleInv, LedgerTellsTheTruth, DrainFrame, Of
  <2> QED
    BY <2>1, <2>2, PrepBaseStep DEF PromiseInv
<1> QED
  BY <1>1, <1>2

\* With one drain, what is recorded of a delivery is true: delivered ones were posted,
\* cancelled ones were not, and a failed one only if the post was answered with an error
\* status.
THEOREM LedgerIsTrue == ASSUME OneDrain PROVE Spec => []LedgerTellsTheTruth
<1>1. PromiseInv /\ [Next]_vars => PromiseInv'
  BY PromiseInvStep
<1>2. PromiseInv => LedgerTellsTheTruth
  BY DEF PromiseInv, SingleInv
<1> QED
  BY <1>1, <1>2, PromiseInit, PTL DEF Spec

------------------------------------------------------------------------------
(* The delivery keeps what CustomerReply promises *)

FatesStay == \A d \in Drafts : Fate(d)' = Fate(d)
FateMoves(d) ==
    /\ \/ Fate(d) = "absent" /\ Fate(d)' = "written"
       \/ Fate(d) = "written" /\ Fate(d)' = "released"
       \/ Fate(d) = "released" /\ Fate(d)' = "posted"
    /\ \A e \in Drafts \ {d} : Fate(e)' = Fate(e)
FatesEnd == \A d \in Drafts : \/ Fate(d)' = Fate(d)
                              \/ Fate(d) \in {"written", "released"} /\ Fate(d)' = "withdrawn"

fates == [d \in Drafts |-> Fate(d)]

LEMMA PromisedMoves ==
  ASSUME FatesEnd \/ \E d \in Drafts : FateMoves(d)
  PROVE  [Reply!Next]_fates
<1> DEFINE new(d) == Fate(d)'
<1>0. fates' = [d \in Drafts |-> new(d)] /\ fates = [d \in Drafts |-> Fate(d)]
  BY DEF fates
<1>1. CASE FatesEnd
  <2> DEFINE gone == {d \in Drafts : Fate(d) \in {"written", "released"} /\ new(d) = "withdrawn"}
  <2>1. \A d \in Drafts : new(d) = IF d \in gone THEN "withdrawn" ELSE Fate(d)
    BY <1>1 DEF FatesEnd
  <2>2. Reply!Withdraw(gone)
    BY <1>0, <2>1 DEF Reply!Withdraw, fates
  <2> QED
    BY <2>2 DEF Reply!Next
<1>2. ASSUME NEW d \in Drafts, FateMoves(d) PROVE Reply!Next
  <2> DEFINE to == new(d)
  <2>1. fates' = [fates EXCEPT ![d] = to]
    BY <1>0, <1>2 DEF FateMoves
  <2>2. CASE Fate(d) = "absent" /\ to = "written"
    BY <2>1, <2>2 DEF Reply!Write, Reply!Next, fates
  <2>3. CASE Fate(d) = "written" /\ to = "released"
    BY <2>1, <2>3 DEF Reply!Release, Reply!Next, fates
  <2>4. CASE Fate(d) = "released" /\ to = "posted"
    BY <2>1, <2>4 DEF Reply!Post, Reply!Next, fates
  <2> QED
    BY <1>2, <2>2, <2>3, <2>4 DEF FateMoves
<1> QED
  BY <1>1, <1>2

\* A draft a process is about to write to the ledger for is taken by the job of its turn
LEMMA HandingAssigned ==
  ASSUME PrepBase, NEW d \in Drafts, Handing(d) \/ ledger[d].st # "none"
  PROVE  draft[d].st # "none" /\ Assigned(d) /\ InPreparation(draft[d])
<1>0. Shapes /\ Linked /\ FinalInv
  BY DEF PrepBase, Base, Typed
<1>1. CASE Handing(d)
  <2>1. PICK w \in Workers : frame[w].pc = "ledger" /\ Of(w) = d
    BY <1>1 DEF Handing, At
  <2>2. frame[w].turn \in Turns /\ job[frame[w].turn].st # "none" /\ job[frame[w].turn].draft = d
    BY <1>0, <2>1 DEF Linked, PrepLink, PrepFrame, PrepSteps
  <2> QED
    BY <1>0, <2>2 DEF Linked, JobLink, OfTurn, Assigned, FinalInv
<1>2. CASE ledger[d].st # "none"
  BY <1>0, <1>2 DEF Linked, LedgerLink, DraftLink, Assigned, FinalInv
<1> QED
  BY <1>1, <1>2

HandingStays == \A d \in Drafts : Handing(d)' <=> Handing(d)

LEMMA HandingKept ==
  ASSUME \A w \in Workers : \/ frame'[w] = frame[w]
                            \/ frame[w].pc # "ledger" /\ frame'[w].pc # "ledger"
  PROVE  HandingStays
BY DEF HandingStays, Handing, At, Of

LEMMA FateSame ==
  ASSUME NEW d \in Drafts, draft'[d].st = draft[d].st, ledger'[d].st = ledger[d].st,
         posted'[d] = posted[d], Handing(d)' <=> Handing(d)
  PROVE  Fate(d)' = Fate(d)
BY DEF Fate, FateOf

\* How the fate of a draft follows its row while Zendesk and the ledger rest
LEMMA RowFates ==
  ASSUME PromiseInv, Next, UNCHANGED <<ledger, posted>>, NEW d \in Drafts, Handing(d)' <=> Handing(d)
  PROVE  \/ Fate(d)' = Fate(d)
         \/ Fate(d) \in {"written", "released"} /\ Fate(d)' = "withdrawn"
         \/ Starts(d) /\ Fate(d) = "absent" /\ Fate(d)' = "written"
         \/ Publishes(d) /\ Fate(d) = "written" /\ Fate(d)' = "released"
         \/ EntersPrep(d) /\ Fate(d) = "written" /\ Fate(d)' = "released"
<1>0. Shapes /\ Base /\ PrepBase /\ SendInv
  BY DEF PromiseInv, PrepBase, Base, Typed
<1>1. RowMove(d)
  BY <1>0, RowMoves
<1>2. CASE ledger[d].st # "none" \/ posted[d] > 0
  <2>1. ledger[d].st # "none"
    BY <1>0, <1>2 DEF SendInv
  <2> QED
    BY <2>1 DEF Fate, FateOf
<1>3. CASE ledger[d].st = "none" /\ ~(posted[d] > 0) /\ Handing(d)
  BY <1>3 DEF Fate, FateOf
<1>4. CASE ledger[d].st = "none" /\ ~(posted[d] > 0) /\ ~Handing(d)
  <2> DEFINE row(st) == IF st = "none" THEN "absent"
                        ELSE IF st \in {"draft", "awaiting"} THEN "written"
                        ELSE IF st = "stale" THEN "withdrawn"
                        ELSE "released"
  <2>1. Fate(d) = row(draft[d].st) /\ Fate(d)' = row(draft'[d].st)
    BY <1>4 DEF Fate, FateOf
  <2>2. draft[d].st \in DraftStatus
    BY <1>0 DEF Shapes, DraftRow
  <2>3. Publishes(d) => draft'[d].st \in {"approved", "awaiting"}
    BY DEF Publishes, GatePublishes, Alters
  <2> QED
    BY <1>1, <2>1, <2>2, <2>3 DEF RowMove, Rests, Stales, Starts, Publishes, EntersPrep, Preparable,
       PrepFails, PrepStores, Queues, DraftStatus
<1> QED
  BY <1>2, <1>3, <1>4

\* A draft that is written or released is the only one to move
LEMMA MovesAlone ==
  ASSUME Base, Next, NEW d \in Drafts, Starts(d) \/ Publishes(d) \/ EntersPrep(d)
  PROVE  \A e \in Drafts \ {d} : draft'[e].st = draft[e].st
<1>0. Typed /\ Shapes /\ Linked
  BY DEF Base, Typed
<1>1. CASE Publishes(d)
  BY <1>1 DEF Publishes, GatePublishes, Alters
<1>2. CASE EntersPrep(d)
  BY <1>0, <1>2, PreparingAlters DEF EntersPrep, Alters
<1>3. CASE Starts(d)
  <2>1. PICK t \in Turns, e \in Drafts : Saves(t, e)
    BY <1>0, <1>3, NewRows DEF Starts
  <2> QED
    BY <1>0, <1>3, <2>1 DEF Saves, Starts, Shapes
<1> QED
  BY <1>1, <1>2, <1>3

Promised == FatesEnd \/ \E d \in Drafts : FateMoves(d)

LEMMA QuietStep ==
  ASSUME PromiseInv, Next, UNCHANGED <<ledger, posted>>, HandingStays
  PROVE  Promised
<1>0. Base
  BY DEF PromiseInv, PrepBase
<1>1. CASE \E d \in Drafts : Starts(d) \/ Publishes(d) \/ EntersPrep(d)
  <2>1. PICK d \in Drafts : Starts(d) \/ Publishes(d) \/ EntersPrep(d)
    BY <1>1
  <2>2. ASSUME NEW e \in Drafts \ {d} PROVE Fate(e)' = Fate(e)
    <3>1. draft'[e].st = draft[e].st
      BY <1>0, <2>1, MovesAlone
    <3> QED
      BY <3>1, FateSame DEF HandingStays
  <2>3. \/ Fate(d)' = Fate(d)
        \/ Fate(d) \in {"written", "released"} /\ Fate(d)' = "withdrawn"
        \/ Fate(d) = "absent" /\ Fate(d)' = "written"
        \/ Fate(d) = "written" /\ Fate(d)' = "released"
    BY RowFates DEF HandingStays
  <2> QED
    BY <2>2, <2>3 DEF Promised, FatesEnd, FateMoves
<1>2. CASE ~ \E d \in Drafts : Starts(d) \/ Publishes(d) \/ EntersPrep(d)
  BY <1>2, RowFates DEF HandingStays, Promised, FatesEnd
<1> QED
  BY <1>1, <1>2

\* A process of the drain
LEMMA DrainKeeps ==
  ASSUME PromiseInv, Next, NEW w \in Workers, Deliver(w)
  PROVE  Promised
<1>0. Typed /\ Shapes /\ Base /\ PrepBase /\ SendInv /\ SingleInv
  BY DEF PromiseInv, PrepBase, Base, Typed
<1>1. UNCHANGED draft /\ frame[w].pc \in DrainSteps
      /\ (Left(w) \/ \E pc \in DrainSteps : \E out : Moved(w, pc, out))
  BY <1>0, DrainEffects DEF store
<1>2. HandingStays
  <2>1. \A v \in Workers : \/ frame'[v] = frame[v]
                           \/ frame[v].pc # "ledger" /\ frame'[v].pc # "ledger"
    BY <1>1 DEF Left, Moved, Others, DrainSteps
  <2> QED
    BY <2>1, HandingKept
<1>3. PICK d \in Drafts : d = Of(w)
  BY <1>0, <1>1 DEF Typed, Named, At, DrainSteps
<1>4. posted[d] \in Nat /\ ledger[d].st # "none"
  BY <1>0, <1>1, <1>3 DEF Shapes, PrepBase, Base, Linked, DrainLink, DrainFrame
<1>5. ASSUME NEW e \in Drafts, ledger'[e] = ledger[e], posted'[e] = posted[e]
      PROVE  Fate(e)' = Fate(e)
  BY <1>1, <1>2, <1>5, FateSame DEF HandingStays
<1>6. CASE UNCHANGED <<ledger, posted>>
  BY <1>2, <1>6, QuietStep
<1>7. CASE ~Post(w) /\ ~PostNothing(w) /\ ~ClaimDelivery(w) /\ ~UNCHANGED ledger
  <2>1. LookMove(w) /\ UNCHANGED posted
    BY <1>0, <1>7, LookMoves
  <2>2. \A e \in Drafts \ {d} : Fate(e)' = Fate(e)
    BY <1>3, <1>5, <1>7, <2>1 DEF LookMove, RowRecorded
  <2>3. CASE frame[w].pc \in Looking /\ \E st \in {"failed", "cancelled"} : RowRecorded(d, st)
    <3>1. ledger[d].st = "queued" /\ posted[d] = 0 /\ posted'[d] = 0
      BY <1>0, <1>3, <2>1, <2>3 DEF SingleInv, Looking, SendInv
    <3>2. ledger'[d].st \in {"failed", "cancelled"}
      BY <2>3, <3>1 DEF RowRecorded
    <3>3. Fate(d) = "released" /\ Fate(d)' = "withdrawn"
      BY <3>1, <3>2 DEF Fate, FateOf
    <3> QED
      BY <2>2, <3>3 DEF Promised, FatesEnd
  <2>4. CASE frame[w].pc = "record" /\ RowRecorded(d, frame[w].out)
    <3>1. /\ ledger[d].st = "pending" /\ ledger'[d].st = frame[w].out /\ posted'[d] = posted[d]
          /\ frame[w].out \in {"delivered", "outcome_unknown", "failed"}
      BY <1>0, <1>3, <2>1, <2>4 DEF SingleInv, RowRecorded, Typed, Named, At
    <3>2. \/ Fate(d)' = Fate(d)
          \/ Fate(d) = "released" /\ Fate(d)' = "withdrawn"
      BY <1>4, <3>1 DEF Fate, FateOf
    <3> QED
      BY <2>2, <3>2 DEF Promised, FatesEnd
  <2>5. CASE posted[d] > 0
    <3>1. Fate(d)' = Fate(d)
      BY <2>1, <2>5 DEF Fate, FateOf
    <3> QED
      BY <2>2, <3>1 DEF Promised, FatesEnd
  <2> QED
    BY <1>3, <1>7, <2>1, <2>3, <2>4, <2>5 DEF LookMove
<1>8. CASE ClaimDelivery(w)
  <2>1. UNCHANGED posted
        /\ \/ /\ ledger[d].st = "queued" /\ ledger'[d].st = "pending"
              /\ \A e \in Drafts \ {d} : ledger'[e] = ledger[e]
           \/ UNCHANGED ledger
    BY <1>0, <1>3, <1>8, ClaimEffect
  <2>2. CASE ledger[d].st = "queued" /\ ledger'[d].st = "pending"
             /\ \A e \in Drafts \ {d} : ledger'[e] = ledger[e]
    <3>1. Fate(d)' = Fate(d)
      BY <2>1, <2>2 DEF Fate, FateOf
    <3> QED
      BY <1>5, <2>1, <2>2, <3>1 DEF Promised, FatesEnd
  <2> QED
    BY <1>6, <2>1, <2>2
<1>9. CASE Post(w) \/ PostNothing(w)
  <2>1. /\ frame[w].pc = "send" /\ UNCHANGED ledger
        /\ \/ /\ posted'[d] = posted[d] + 1
              /\ \A e \in Drafts \ {d} : posted'[e] = posted[e]
           \/ UNCHANGED posted
    BY <1>0, <1>3, <1>9, PostEffects
  <2>2. CASE posted'[d] = posted[d] + 1 /\ \A e \in Drafts \ {d} : posted'[e] = posted[e]
    <3>1. ledger[d].st = "pending" /\ posted[d] = 0 /\ posted'[d] > 0
      BY <1>0, <1>3, <1>4, <2>1, <2>2 DEF SingleInv, SendInv, At
    <3>2. Fate(d) = "released" /\ Fate(d)' = "posted"
      BY <3>1 DEF Fate, FateOf
    <3> QED
      BY <1>5, <2>1, <2>2, <3>2 DEF Promised, FateMoves
  <2> QED
    BY <1>6, <2>1, <2>2
<1> QED
  BY <1>6, <1>7, <1>8, <1>9, LookMoves, <1>0

\* A process that prepares, or that ends
LEMMA PrepareKeeps ==
  ASSUME PromiseInv, Next, NEW w \in Workers, Prepare(w)
  PROVE  Promised
<1>0. Typed /\ Shapes /\ Linked /\ Base /\ PrepBase /\ SendInv
  BY DEF PromiseInv, PrepBase, Base, Typed
<1>1. /\ UNCHANGED posted /\ PrepFrame(w)
      /\ \/ \E pc \in PrepSteps \cup {"finish"} : \E out : Reads(w, pc, out)
         \/ Fails(w) \/ Stores(w) \/ Writes(w) \/ Marks(w) \/ Finishes(w)
  BY <1>0, PrepTurn, PrepareEffects DEF Linked
<1>2. PICK d \in Drafts : d = Of(w)
  BY <1>0, <1>1 DEF Named, Typed, PrepFrame, PrepSteps, At
<1>3. \A v \in Workers \ {w} : frame'[v] = frame[v]
  BY <1>1 DEF Reads, Fails, Stores, Writes, Marks, Finishes, Moved, Left, Others
<1>4. ASSUME UNCHANGED ledger, frame[w].pc # "ledger", frame'[w].pc # "ledger" PROVE Promised
  <2>1. HandingStays
    BY <1>3, <1>4, HandingKept
  <2> QED
    BY <1>1, <1>4, <2>1, QuietStep
<1>5. frame[w].pc = "ledger" => WriteLedger(w)
  BY DEF Prepare, LoadDraft, Translate, RejectText, FailPrep, StoreText, QueueLook, WriteLedger,
     MarkQueued, Finish, At
<1>6. ASSUME NEW e \in Drafts \ {d} PROVE Handing(e)' <=> Handing(e)
  <2>1. frame'[w].draft = d \/ frame'[w].pc = "idle"
    BY <1>1, <1>2 DEF Reads, Fails, Stores, Writes, Marks, Finishes, Moved, Left
  <2> QED
    BY <1>2, <1>3, <2>1 DEF Handing, At, Of
<1>7. ASSUME UNCHANGED draft, \A e \in Drafts \ {d} : ledger'[e] = ledger[e], Fate(d)' = Fate(d)
      PROVE  Promised
  <2>1. \A e \in Drafts \ {d} : Fate(e)' = Fate(e)
    BY <1>1, <1>6, <1>7, FateSame
  <2> QED
    BY <1>7, <2>1 DEF Promised, FatesEnd
<1>8. CASE WriteLedger(w)
  <2>1. frame[w].pc = "ledger" /\ UNCHANGED draft
    BY <1>8 DEF WriteLedger, At, store
  <2>2. Writes(w)
    <3>1. /\ ledger' = [ledger EXCEPT ![d] = IF @.st = "none" THEN NewDelivery(w) ELSE @]
          /\ Go(w, "mark") /\ UNCHANGED <<draft, job>>
      BY <1>2, <1>8 DEF WriteLedger, store
    <3>2. Moved(w, "mark", frame[w].out)
      BY <1>0, <3>1, Moves DEF Shapes, Frame, PrepSteps
    <3>3. NewDelivery(w).st = "queued"
      BY DEF NewDelivery
    <3> QED
      BY <1>0, <1>2, <2>1, <3>1, <3>2, <3>3 DEF Writes, Shapes
  <2>3. Handing(d)
    BY <1>2, <2>1 DEF Handing, At
  <2>4. CASE ledger[d].st = "none" /\ ledger'[d].st = "queued"
    <3>1. posted[d] = 0 /\ posted'[d] = 0
      BY <1>0, <1>1, <2>4 DEF SendInv
    <3> QED
      BY <1>2, <1>7, <2>1, <2>2, <2>3, <2>4, <3>1 DEF Writes, Fate, FateOf
  <2>5. CASE ledger[d].st # "none" /\ ledger'[d] = ledger[d]
    <3>1. Fate(d)' = Fate(d)
      BY <1>1, <2>5 DEF Fate, FateOf
    <3> QED
      BY <1>2, <1>7, <2>1, <2>2, <3>1 DEF Writes
  <2> QED
    BY <1>2, <2>2, <2>4, <2>5 DEF Writes
<1>9. CASE frame[w].pc # "ledger" /\ frame'[w].pc = "ledger"
  <2>1. UNCHANGED <<draft, ledger>> /\ draft[d].st = "approved"
    BY <1>1, <1>2, <1>9 DEF Reads, Fails, Stores, Writes, Marks, Finishes, Moved, Left
  <2>2. CASE ledger[d].st = "none"
    <3>1. posted[d] = 0
      BY <1>0, <2>2 DEF SendInv
    <3>2. Fate(d) = "released" /\ Fate(d)' = "released"
      BY <1>1, <2>1, <2>2, <3>1 DEF Fate, FateOf
    <3> QED
      BY <1>7, <2>1, <3>2
  <2>3. CASE ledger[d].st # "none"
    <3>1. Fate(d)' = Fate(d)
      BY <1>1, <2>1, <2>3 DEF Fate, FateOf
    <3> QED
      BY <1>7, <2>1, <3>1
  <2> QED
    BY <2>2, <2>3
<1>10. CASE frame[w].pc # "ledger" /\ frame'[w].pc # "ledger"
  <2>1. UNCHANGED ledger
    BY <1>1, <1>10 DEF Reads, Fails, Stores, Writes, Marks, Finishes
  <2> QED
    BY <1>4, <1>10, <2>1
<1> QED
  BY <1>5, <1>8, <1>9, <1>10

LEMMA TroubleKeeps ==
  ASSUME PromiseInv, Next, NEW w \in Workers, PrepError(w) \/ Crash(w)
  PROVE  Promised
<1>0. Typed /\ Shapes /\ Linked /\ Base /\ PrepBase /\ SendInv
  BY DEF PromiseInv, PrepBase, Base, Typed
<1>1. UNCHANGED <<draft, ledger, posted>> /\ Others(w) /\ frame'[w].pc \in {"idle", "finish"}
  BY <1>0, TroubleEffect DEF store, Left, Moved
<1>2. ASSUME NEW d \in Drafts, Handing(d)' PROVE Handing(d)
  BY <1>1, <1>2 DEF Handing, At, Of, Others
<1>3. ASSUME NEW d \in Drafts
      PROVE  \/ Fate(d)' = Fate(d)
             \/ Fate(d) \in {"written", "released"} /\ Fate(d)' = "withdrawn"
  <2>1. CASE Handing(d)' <=> Handing(d)
    BY <1>1, <2>1, FateSame
  <2>2. CASE Handing(d) /\ ~Handing(d)'
    <3>1. InPreparation(draft[d])
      BY <1>0, <2>2, HandingAssigned
    <3>2. CASE ledger[d].st # "none"
      BY <1>1, <3>2 DEF Fate, FateOf
    <3>3. CASE ledger[d].st = "none"
      <4>1. posted[d] = 0
        BY <1>0, <3>3 DEF SendInv
      <4> QED
        BY <1>1, <2>2, <3>1, <3>3, <4>1 DEF Fate, FateOf, InPreparation
    <3> QED
      BY <3>2, <3>3
  <2> QED
    BY <1>2, <2>1, <2>2
<1> QED
  BY <1>3 DEF Promised, FatesEnd

LEMMA PromiseStep == PromiseInv /\ [Next]_vars => [Reply!Next]_fates
<1> SUFFICES ASSUME PromiseInv, [Next]_vars PROVE [Reply!Next]_fates
  OBVIOUS
<1>0. Typed
  BY DEF PromiseInv, PrepBase, Base
<1>1. CASE \/ CaseStep \/ SaveStep \/ ApproveStep
           \/ \E t \in Turns : GateStepOf(t) \/ Lapse(t)
  <2>1. UNCHANGED <<ledger, frame, posted>>
    BY <1>0, <1>1, StoreStep
  <2> QED
    BY <1>1, <2>1, HandingKept, QuietStep, PromisedMoves DEF Next, Promised
<1>2. ASSUME NEW w \in Workers, \/ \E t \in Turns : ClaimPrep(w, t)
                                \/ \E d \in Drafts : TakeUp(w, d)
      PROVE  Promised
  <2>1. /\ UNCHANGED <<ledger, posted>> /\ Others(w)
        /\ frame[w].pc = "idle" /\ frame'[w].pc \in {"load", "mirror", "audit"}
    BY <1>0, <1>2, ClaimPrepEffect, TakeUpEffect
  <2>2. HandingStays
    BY <2>1, HandingKept DEF Others
  <2> QED
    BY <1>2, <2>1, <2>2, QuietStep DEF Next
<1>3. ASSUME NEW w \in Workers, Prepare(w) \/ Deliver(w) \/ PrepError(w) \/ Crash(w) PROVE Promised
  BY <1>3, PrepareKeeps, DrainKeeps, TroubleKeeps DEF Next
<1>4. CASE UNCHANGED vars
  <2>1. \A d \in Drafts : Handing(d)' <=> Handing(d)
    BY <1>4 DEF vars, Handing, At, Of
  <2>2. FatesEnd
    BY <1>4, <2>1, FateSame DEF vars, store, FatesEnd
  <2> QED
    BY <2>2, PromisedMoves
<1> QED
  BY <1>1, <1>2, <1>3, <1>4, PromisedMoves DEF Next, Promised

\* With one drain, whatever turns, drafts and processes there are, the delivery implements
\* CustomerReply: a draft is posted at most once, only after it was released, and never
\* after it was withdrawn.
THEOREM DeliveryKeepsPromise == ASSUME OneDrain PROVE Spec => KeepsPromise
<1>1. Init => Reply!Init
  <2> SUFFICES ASSUME Init PROVE Reply!Init
    OBVIOUS
  <2>1. \A d \in Drafts : ~Handing(d)
    BY DEF Init, Handing, At, Idle
  <2>2. \A d \in Drafts : Fate(d) = "absent"
    BY <2>1 DEF Init, Fate, FateOf, NoRow, NoDelivery
  <2> QED
    BY <2>2 DEF Reply!Init
<1>2. PromiseInv /\ [Next]_vars => PromiseInv'
  BY PromiseInvStep
<1>3. PromiseInv /\ [Next]_vars => [Reply!Next]_[d \in Drafts |-> Fate(d)]
  BY PromiseStep DEF fates
<1> QED
  BY <1>1, <1>2, <1>3, PromiseInit, PTL DEF Spec, KeepsPromise, Reply!Spec

------------------------------------------------------------------------------
(* What an engineer is offered is current *)

OfferInv ==
    /\ \A t \in Turns : turn[t].rev <= rev /\ (Active(t) => turn[t].rev = rev)
    /\ \A t \in Turns : t \in saver \/ gate[t].pc # "none" => turn[t].st # "none"
    /\ \A d \in Drafts : draft[d].st # "none" =>
         turn[draft[d].turn].st # "none" /\ draft[d].rev = turn[draft[d].turn].rev
    /\ \A t \in Turns : LET d == gate[t].draft IN
         gate[t].pc = "publish" /\ draft[d].st = "draft" => draft[d].rev = rev
    /\ OfferedIsCurrent

\* A comment raises the revision and ends the active turns; without one, a turn that
\* exists keeps its revision and one that is opened takes the newest
TurnKept(t) == /\ turn'[t].rev = turn[t].rev
               /\ turn'[t].st = "none" <=> turn[t].st = "none"
               /\ Active(t)' => Active(t)
TurnOpened(t) == turn[t].st = "none" /\ turn'[t].st = "pending" /\ turn'[t].rev = rev
Kept == /\ rev' = rev
        /\ \A t \in Turns : TurnKept(t) \/ TurnOpened(t)
        /\ \A t \in saver' : t \in saver \/ turn[t].st # "none"

\* The status of one turn that exists changes, and no turn becomes active
LEMMA StatusKeeps ==
  ASSUME Shapes, NEW t \in Turns, NEW st \in {"running", "over"},
         turn[t].st # "none", st = "running" => Active(t), SetTurn(t, st)
  PROVE  \A u \in Turns : TurnKept(u)
<1> SUFFICES ASSUME NEW u \in Turns PROVE TurnKept(u)
  OBVIOUS
<1>1. turn[t] \in TurnRow /\ turn[u] \in TurnRow
  BY DEF Shapes
<1>2. turn'[u] = IF u = t THEN [turn[u] EXCEPT !.st = st] ELSE turn[u]
  BY DEF Shapes, SetTurn
<1>3. turn'[u].rev = turn[u].rev /\ turn'[u].st = IF u = t THEN st ELSE turn[u].st
  BY <1>1, <1>2 DEF TurnRow
<1> QED
  BY <1>3 DEF TurnKept, Active

LEMMA CommentOrKept == ASSUME Base, Next PROVE AcceptComment \/ Kept
<1>0. Typed /\ Shapes /\ Linked
  BY DEF Base, Typed
<1> USE DEF Kept
<1>1. ASSUME UNCHANGED <<rev, turn, saver>> PROVE Kept
  BY <1>1 DEF TurnKept, Active
<1>2. ASSUME NEW t \in Turns, OpenTurn(t) \/ OpenFeedbackTurn(t) PROVE Kept
  BY <1>0, <1>2 DEF OpenTurn, OpenFeedbackTurn, TurnKept, TurnOpened, Active, Shapes, TurnRow
<1>3. ASSUME NEW t \in Turns, StartTurn(t) PROVE Kept
  BY <1>0, <1>3 DEF StartTurn, SetTurn, TurnKept, Active, Shapes, TurnRow
<1>4. ASSUME NEW t \in Turns, CompleteTurn(t) \/ EndTurn(t) PROVE Kept
  BY <1>0, <1>4, StatusKeeps DEF CompleteTurn, EndTurn, Live
<1>5. ASSUME NEW t \in Turns, SolveCase(t) PROVE Kept
  BY <1>0, <1>5 DEF SolveCase, TurnKept, Active, Shapes, TurnRow
<1>6. CASE SyncComments \/ \E t \in Turns : Escalate(t)
  BY <1>1, <1>6 DEF SyncComments, Escalate
<1>7. CASE SaveStep
  <2>1. ASSUME NEW t \in Turns, LookAtTurn(t) PROVE Kept
    BY <2>1 DEF LookAtTurn, TurnKept, Active
  <2>2. ASSUME NEW t \in Turns, NEW d \in Drafts, SaveDraft(t, d) \/ SubmitDraft(t, d) PROVE Kept
    BY <2>2 DEF SaveDraft, SubmitDraft, TurnKept, Active
  <2> QED
    BY <1>7, <2>1, <2>2 DEF SaveStep
<1>8. ASSUME NEW t \in Turns, GateStepOf(t) PROVE Kept
  <2>1. CASE GateBlock(t) \/ GateDeny(t)
    <3>1. CASE Active(t)
      <4>1. SetTurn(t, "over") /\ turn[t].st # "none"
        BY <2>1, <3>1 DEF GateBlock, GateDeny, SetTurn, Active
      <4> QED
        BY <1>0, <2>1, <4>1, StatusKeeps DEF GateBlock, GateDeny
    <3>2. CASE ~Active(t)
      <4>1. turn' = [turn EXCEPT ![t].st = @]
        BY <2>1, <3>2 DEF GateBlock, GateDeny
      <4>2. turn[t] \in TurnRow /\ turn \in [Turns -> TurnRow]
        BY <1>0 DEF Shapes
      <4>3. [turn[t] EXCEPT !.st = @] = turn[t]
        BY <4>2 DEF TurnRow
      <4>4. turn' = turn
        BY <4>1, <4>2, <4>3
      <4> QED
        BY <1>1, <2>1, <4>4 DEF GateBlock, GateDeny
    <3> QED
      BY <3>1, <3>2
  <2>2. CASE GateLook(t) \/ GatePublish(t) \/ GatePass(t) \/ GatePrepare(t) \/ GateCrash(t)
    BY <1>1, <2>2 DEF GateLook, GatePublish, GatePass, GatePrepare, GateCrash
  <2> QED
    BY <1>8, <2>1, <2>2 DEF GateStepOf
<1>9. CASE ApproveStep \/ \E t \in Turns : Lapse(t)
  BY <1>1, <1>9 DEF ApproveStep, Approve, RefuseApproval, Lapse, store
<1>10. ASSUME NEW w \in Workers, Prepare(w) \/ \E t \in Turns : ClaimPrep(w, t) PROVE Kept
  BY <1>1, <1>10 DEF Prepare, LoadDraft, Translate, RejectText, FailPrep, StoreText, QueueLook,
     WriteLedger, MarkQueued, Finish, ClaimPrep, store
<1>11. ASSUME NEW w \in Workers, \/ Deliver(w) \/ PrepError(w) \/ Crash(w)
                                 \/ \E d \in Drafts : TakeUp(w, d)
       PROVE  Kept
  BY <1>0, <1>1, <1>11, DrainEffects, TroubleEffect, TakeUpEffect DEF store
<1> QED
  BY <1>2, <1>3, <1>4, <1>5, <1>6, <1>7, <1>8, <1>9, <1>10, <1>11 DEF Next, CaseStep

LEMMA OfferStep == ASSUME Base, OfferInv, Next PROVE OfferInv'
<1>0. Typed /\ Shapes /\ Named /\ Linked /\ Base' /\ rev \in Nat /\ \A t \in Turns : turn[t].rev \in Nat
  BY BaseStep DEF Base, Typed, Shapes, TurnRow
<1>1. CASE AcceptComment
  <2>1. /\ rev' = rev + 1
        /\ \A t \in Turns : turn'[t].rev = turn[t].rev /\ ~Active(t)'
                            /\ (turn[t].st # "none" => turn'[t].st # "none")
    BY <1>0, <1>1 DEF AcceptComment, Active, Shapes, TurnRow
  <2>2. UNCHANGED <<saver, gate>>
    BY <1>1 DEF AcceptComment
  <2>3. \A d \in Drafts : /\ draft'[d].turn = draft[d].turn /\ draft'[d].rev = draft[d].rev
                          /\ draft[d].st = "none" => draft'[d].st = "none"
                          /\ draft'[d].st \in Open => draft[d].st \in Open /\ ~(draft[d].rev < rev + 1)
    BY <1>0, <1>1 DEF AcceptComment, StaleBelow, Open, Shapes, DraftRow
  <2>4. \A d \in Drafts : draft[d].st # "none" => draft[d].turn \in Turns /\ draft[d].rev <= rev
    BY <1>0 DEF Linked, DraftLink, OfferInv
  <2>5. \A d \in Drafts : draft'[d].st \notin Open
    BY <1>0, <2>3, <2>4 DEF Shapes, DraftRow, Open
  <2>6. \A t \in Turns : turn'[t].rev <= rev'
    BY <1>0, <2>1 DEF OfferInv
  <2>7. \A t \in Turns : t \in saver' \/ gate'[t].pc # "none" => turn'[t].st # "none"
    BY <2>1, <2>2 DEF OfferInv
  <2>8. \A d \in Drafts : draft'[d].st # "none" =>
          turn'[draft'[d].turn].st # "none" /\ draft'[d].rev = turn'[draft'[d].turn].rev
    BY <2>1, <2>3, <2>4 DEF OfferInv
  <2>9. \A t \in Turns : gate'[t].pc = "publish" => gate'[t].draft \in Drafts
    BY <1>0 DEF Base, Typed, Named
  <2> QED
    BY <2>1, <2>5, <2>6, <2>7, <2>8, <2>9 DEF OfferInv, OfferedIsCurrent, Open
<1>2. CASE Kept
  <2>1. \A t \in Turns : turn'[t].rev <= rev' /\ (Active(t)' => turn'[t].rev = rev')
    BY <1>0, <1>2 DEF Kept, TurnKept, TurnOpened, OfferInv
  <2>2. ASSUME NEW t \in Turns, t \in saver' \/ gate'[t].pc # "none" PROVE turn'[t].st # "none"
    <3>1. gate'[t].pc # "none" => turn[t].st # "none"
      <4>1. GateStepOf(t) /\ gate[t].pc = "none" => turn[t].st = "running"
        BY DEF GateStepOf, GateLook, GateBlock, GatePublish, GatePass, GateDeny, GatePrepare,
           GateCrash, GateAt
      <4> QED
        BY <1>0, <4>1, GateOrigin DEF OfferInv
    <3> QED
      BY <1>2, <2>2, <3>1 DEF Kept, TurnKept, TurnOpened, OfferInv
  <2>3. ASSUME NEW d \in Drafts, draft'[d].st # "none"
        PROVE  turn'[draft'[d].turn].st # "none" /\ draft'[d].rev = turn'[draft'[d].turn].rev
    <3>1. CASE draft[d].st # "none"
      <4>1. RowMove(d) /\ draft[d].turn \in Turns
        BY <1>0, <3>1, RowMoves DEF Linked, DraftLink
      <4> QED
        BY <1>2, <3>1, <4>1 DEF RowMove, Kept, TurnKept, TurnOpened, OfferInv
    <3>2. CASE draft[d].st = "none"
      <4>1. PICK t \in Turns, e \in Drafts : Saves(t, e)
        BY <1>0, <2>3, <3>2, NewRows
      <4>2. e = d
        BY <1>0, <2>3, <3>2, <4>1 DEF Saves, Shapes
      <4>3. draft'[d].turn = t /\ draft'[d].rev = turn[t].rev /\ turn' = turn
        BY <1>0, <4>1, <4>2 DEF Saves, Shapes
      <4>4. turn[t].st # "none"
        BY <4>1 DEF Saves, OfferInv
      <4> QED
        BY <4>3, <4>4
    <3> QED
      BY <3>1, <3>2
  <2>4. ASSUME NEW t \in Turns, NEW d \in Drafts, d = gate'[t].draft,
               gate'[t].pc = "publish", draft'[d].st = "draft"
        PROVE  draft'[d].rev = rev'
    <3>1. CASE gate'[t] = gate[t]
      <4>1. draft[d].st # "none" /\ RowMove(d)
        BY <1>0, <2>4, <3>1, RowMoves DEF Linked, GateLink, OfTurn
      <4>2. draft[d].st = "draft" /\ draft'[d].rev = draft[d].rev
        BY <2>4, <4>1 DEF RowMove, Rests, Stales, Starts, Publishes, GatePublishes, Alters, EntersPrep,
           PrepFails, PrepStores, Queues
      <4> QED
        BY <1>2, <2>4, <3>1, <4>2 DEF Kept, OfferInv
    <3>2. CASE GateLooks(t, d)
      <4>1. draft[d].st = "draft" /\ draft[d].turn = t /\ Active(t) /\ UNCHANGED draft
        BY <3>2 DEF GateLooks, Active
      <4> QED
        BY <1>2, <4>1 DEF Kept, OfferInv
    <3>3. GateMove(t)
      BY GateMovesOf
    <3>4. ASSUME NEW e \in Drafts, GateLooks(t, e) PROVE e = d
      BY <2>4, <3>4 DEF GateLooks, GateBecomes
    <3> QED
      BY <2>4, <3>1, <3>2, <3>3, <3>4 DEF GateMove, GateEnds, GatePublishes, GatePasses, GateDenies,
         GatePrepares, GateBecomes
  <2>5. ASSUME NEW d \in Drafts, draft'[d].st = "awaiting" PROVE draft'[d].rev = rev'
    <3>1. RowMove(d)
      BY RowMoves
    <3>2. draft[d].st # "none" /\ draft'[d].rev = draft[d].rev
      BY <2>5, <3>1 DEF RowMove, Rests, Stales, Starts, Publishes, EntersPrep, PrepFails, PrepStores, Queues
    <3>3. CASE draft[d].st = "awaiting"
      BY <1>2, <3>2, <3>3 DEF Kept, OfferInv, OfferedIsCurrent
    <3>4. CASE Publishes(d)
      BY <1>2, <3>2, <3>4 DEF Publishes, GatePublishes, Kept, OfferInv
    <3> QED
      BY <2>5, <3>1, <3>3, <3>4 DEF RowMove, Rests, Stales, Starts, EntersPrep, PrepFails, PrepStores,
         Queues
  <2>6. \A t \in Turns : gate'[t].pc = "publish" => gate'[t].draft \in Drafts
    BY <1>0 DEF Base, Typed, Named
  <2> QED
    BY <2>1, <2>2, <2>3, <2>4, <2>5, <2>6 DEF OfferInv, OfferedIsCurrent
<1> QED
  BY <1>1, <1>2, CommentOrKept

\* What an engineer is asked to approve answers the newest revision, however comments,
\* saves and gates interleave.
THEOREM OfferIsCurrent == Spec => []OfferedIsCurrent
<1>1. Init => Base /\ OfferInv
  <2>1. Init => OfferInv
    BY DEF Init, OfferInv, OfferedIsCurrent, Active, NoRow
  <2> QED
    BY <2>1, InitBase
<1>2. Base /\ OfferInv /\ [Next]_vars => (Base /\ OfferInv)'
  <2> SUFFICES ASSUME Base, OfferInv, [Next]_vars PROVE Base' /\ OfferInv'
    OBVIOUS
  <2>1. CASE UNCHANGED vars
    BY <2>1, BaseStep DEF vars, store, OfferInv, OfferedIsCurrent, Active
  <2> QED
    BY <2>1, BaseStep, OfferStep
<1>3. OfferInv => OfferedIsCurrent
  BY DEF OfferInv
<1> QED
  BY <1>1, <1>2, <1>3, PTL DEF Spec
=============================================================================
