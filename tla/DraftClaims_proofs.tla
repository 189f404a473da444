-------------------------- MODULE DraftClaims_proofs --------------------------
(***************************************************************************)
(* DraftDelivery implements ClaimedJobs.  An approval opens the job of its *)
(* turn or requests it again, and a preparation that returns settles its   *)
(* job if the claim still stands and just leaves if not.  What is read,    *)
(* translated, written or drained in between moves no job at all.  That    *)
(* a job nobody has requested yet has no process inside is PrepLink.       *)
(*                                                                         *)
(* It implements CaseTurns as well: only the case itself and a gate that   *)
(* fails its turn write a turn, and OfferInv, which the drafts need, says  *)
(* that a turn is started for the newest revision.                         *)
(***************************************************************************)
EXTENDS DraftDelivery_proofs

\* The refinement mapping
Told(st) == IF st = "pending" THEN "queued" ELSE st
statusOf == [t \in Turns |-> IF job[t].st = "pending" THEN "queued" ELSE job[t].st]
insideOf == [t \in Turns |-> {w \in Workers : Driven(t, w)}]
holdersOf == [t \in Turns |-> {w \in Workers :
                 Driven(t, w) /\ job[t].st = "claimed" /\ job[t].owner = w}]
markedOf == [t \in Turns |-> FALSE]

\* The processes at work on the preparation for t, and the one its job knows
In(f, t) == f.pc \in PrepSteps \cup {"finish"} /\ f.turn = t
Inside(frames, t) == {w \in Workers : In(frames[w], t)}
Holders(row, frames, t) ==
    {w \in Workers : In(frames[w], t) /\ row.st = "claimed" /\ row.owner = w}

\* What happens to one job: nothing the abstract job can see, or one of its moves
Matched(t) == Claims!Stays(t) \/ Claims!Moves(t)

Written(t, s, i, h) ==
    /\ Told(job'[t].st) = s
    /\ Inside(frame', t) = i
    /\ Holders(job'[t], frame', t) = h

------------------------------------------------------------------------------
(* The abstract moves, in terms of the rows and frames *)

LEMMA MappedNow ==
    ASSUME NEW t \in Turns
    PROVE  /\ statusOf[t] = Told(job[t].st)
           /\ insideOf[t] = Inside(frame, t)
           /\ holdersOf[t] = Holders(job[t], frame, t)
           /\ markedOf[t] = FALSE
BY DEF statusOf, Told, insideOf, holdersOf, markedOf, Inside, Holders, In, Driven

LEMMA MappedNext ==
    ASSUME NEW t \in Turns
    PROVE  /\ statusOf'[t] = Told(job'[t].st)
           /\ insideOf'[t] = Inside(frame', t)
           /\ holdersOf'[t] = Holders(job'[t], frame', t)
BY DEF statusOf, Told, insideOf, holdersOf, Inside, Holders, In, Driven

\* The abstract job becomes what is written
Seen(t, s, i, h) == statusOf'[t] = s /\ insideOf'[t] = i /\ holdersOf'[t] = h

LEMMA MarkSeen == ASSUME NEW t \in Turns PROVE Claims!SameMark(t)
BY DEF Claims!SameMark

LEMMA NoMove ==
    ASSUME NEW t \in Turns,
           Written(t, Told(job[t].st), Inside(frame, t), Holders(job[t], frame, t))
    PROVE  Matched(t)
<1>1. Seen(t, statusOf[t], insideOf[t], holdersOf[t])
  BY MappedNow, MappedNext DEF Written, Seen
<1>2. Claims!Stays(t)
  BY <1>1, MarkSeen DEF Claims!Stays, Claims!Becomes, Seen, statusOf, insideOf, holdersOf
<1> QED BY <1>2 DEF Matched

LEMMA OpenMove ==
    ASSUME NEW t \in Turns, job[t].st = "none", Inside(frame, t) = {},
           Written(t, "queued", {}, {})
    PROVE  Matched(t)
<1>1. statusOf[t] = "none" /\ insideOf[t] = {} /\ Seen(t, "queued", {}, {})
  BY MappedNow, MappedNext DEF Written, Told, Seen
<1>2. Claims!Open(t)
  BY <1>1, MarkSeen DEF Claims!Open, Claims!Becomes, Seen, statusOf, insideOf, holdersOf
<1> QED BY <1>2 DEF Claims!Moves, Matched

LEMMA RequestMove ==
    ASSUME NEW t \in Turns, job[t].st \notin {"none", "completed"},
           Written(t, "queued", Inside(frame, t), {})
    PROVE  Matched(t)
<1>1. /\ statusOf[t] \notin {"none", "completed"}
      /\ Seen(t, "queued", insideOf[t], {})
  BY MappedNow, MappedNext DEF Written, Told, Seen
<1>2. Claims!Request(t)
  BY <1>1, MarkSeen DEF Claims!Request, Claims!Becomes, Seen, statusOf, insideOf, holdersOf
<1> QED BY <1>2 DEF Claims!Moves, Matched

LEMMA ClaimMove ==
    ASSUME NEW t \in Turns, NEW w \in Workers, job[t].st = "pending", frame[w].pc = "idle",
           Written(t, "claimed", Inside(frame, t) \cup {w}, {w})
    PROVE  Matched(t)
<1>1. statusOf[t] = "queued"
  BY MappedNow DEF Told
<1>2. \A u \in Turns : w \notin insideOf[u]
  BY DEF insideOf, Driven, PrepSteps
<1>3. Seen(t, "claimed", insideOf[t] \cup {w}, {w})
  BY MappedNow, MappedNext DEF Written, Seen
<1>4. Claims!Claim(t, w)
  BY <1>1, <1>2, <1>3, MarkSeen
     DEF Claims!Claim, Claims!Becomes, Seen, statusOf, insideOf, holdersOf
<1> QED BY <1>4 DEF Claims!Moves, Matched

LEMMA SettleMove ==
    ASSUME NEW t \in Turns, NEW w \in Workers, w \in Holders(job[t], frame, t),
           NEW s \in {"completed", "ended"},
           Written(t, s, Inside(frame, t) \ {w}, {})
    PROVE  Matched(t)
<1>1. /\ w \in holdersOf[t]
      /\ Seen(t, s, insideOf[t] \ {w}, {})
  BY MappedNow, MappedNext DEF Written, Seen
<1>2. Claims!Settle(t, w)
  BY <1>1, MarkSeen DEF Claims!Settle, Claims!Becomes, Seen, statusOf, insideOf, holdersOf
<1> QED BY <1>2 DEF Claims!Moves, Matched

LEMMA LeaveMove ==
    ASSUME NEW t \in Turns, NEW w \in Workers,
           Written(t, Told(job[t].st), Inside(frame, t) \ {w}, Holders(job[t], frame, t) \ {w})
    PROVE  Matched(t)
<1>1. Seen(t, statusOf[t], insideOf[t] \ {w}, holdersOf[t] \ {w})
  BY MappedNow, MappedNext DEF Written, Seen
<1>2. Claims!Leave(t, w)
  BY <1>1, MarkSeen DEF Claims!Leave, Claims!Becomes, Seen, statusOf, insideOf, holdersOf
<1> QED BY <1>2 DEF Claims!Moves, Matched

LEMMA LapseMove ==
    ASSUME NEW t \in Turns, job[t].st = "claimed",
           Written(t, "queued", Inside(frame, t), {})
    PROVE  Matched(t)
<1>1. /\ statusOf[t] = "claimed" /\ markedOf[t] = FALSE
      /\ Seen(t, "queued", insideOf[t], {})
  BY MappedNow, MappedNext DEF Written, Told, Seen
<1>2. Claims!Lapse(t)
  BY <1>1, MarkSeen DEF Claims!Lapse, Claims!Becomes, Seen, statusOf, insideOf, holdersOf, markedOf
<1> QED BY <1>2 DEF Claims!Moves, Matched

------------------------------------------------------------------------------
(* What a step does to a job and to the frames at work on it *)

RowKept(t) == job'[t].st = job[t].st /\ job'[t].owner = job[t].owner
FrameKept(v, t) == In(frame'[v], t) <=> In(frame[v], t)
FramesKept(t) == \A v \in Workers : FrameKept(v, t)

LEMMA InsideKept ==
    ASSUME NEW t \in Turns, FramesKept(t)
    PROVE  Inside(frame', t) = Inside(frame, t)
BY DEF FramesKept, FrameKept, Inside

LEMMA NobodyHolds ==
    ASSUME NEW row, NEW frames, NEW t, row.st # "claimed"
    PROVE  Holders(row, frames, t) = {}
BY DEF Holders

LEMMA KeptMatches ==
    ASSUME NEW t \in Turns, FramesKept(t), RowKept(t)
    PROVE  Matched(t)
<1>1. Holders(job'[t], frame', t) = Holders(job[t], frame, t)
  BY DEF FramesKept, FrameKept, RowKept, Holders
<1> QED BY <1>1, InsideKept, NoMove DEF RowKept, Written

\* A process is no longer at work on anything: on the job of t, if it was
LEMMA LeftMatches ==
    ASSUME NEW t \in Turns, NEW w \in Workers, Left(w), RowKept(t)
    PROVE  Matched(t)
<1>1. ~In(frame'[w], t)
  BY DEF Left, In, PrepSteps
<1>2. Inside(frame', t) = Inside(frame, t) \ {w}
  BY <1>1 DEF Left, Others, Inside
<1>3. Holders(job'[t], frame', t) = Holders(job[t], frame, t) \ {w}
  BY <1>1 DEF Left, Others, Holders, RowKept
<1> QED BY <1>2, <1>3, LeaveMove DEF RowKept, Written

\* A process goes on with the preparation it is at work on
LEMMA GoesOn ==
    ASSUME NEW t \in Turns, NEW w \in Workers, NEW pc, NEW out, Moved(w, pc, out),
           pc \in PrepSteps \cup {"finish"} <=> frame[w].pc \in PrepSteps \cup {"finish"}
    PROVE  FramesKept(t)
BY DEF Moved, Others, FramesKept, FrameKept, In

LEMMA FramesPut ==
    ASSUME UNCHANGED frame, NEW t \in Turns
    PROVE  FramesKept(t)
BY DEF FramesKept, FrameKept

------------------------------------------------------------------------------
(* The transactions *)

LEMMA PreparingMatched ==
    ASSUME Base, NEW d \in Drafts, draft[d].st \in Preparable, Preparing(d), UNCHANGED frame,
           NEW t \in Turns
    PROVE  Matched(t)
<1>1. draft[d].turn \in Turns
  BY DEF Base, Linked, DraftLink, Preparable
<1>2. FramesKept(t)
  BY FramesPut
<1>3. CASE job'[t] = job[t]
  BY <1>2, <1>3, KeptMatches DEF RowKept
<1>4. CASE job'[t] # job[t]
  <2>1. draft[d].turn = t /\ job[t].st # "completed" /\ job'[t].st = "pending"
    BY <1>1, <1>4, PreparingJobs DEF Base, Typed
  <2>2. Told(job'[t].st) = "queued" /\ Holders(job'[t], frame', t) = {}
    BY <2>1, NobodyHolds DEF Told
  <2>3. CASE job[t].st = "none"
    <3>1. Inside(frame, t) = {}
      BY <2>3 DEF Base, Linked, PrepLink, PrepFrame, Inside, In
    <3> QED BY <1>2, <2>2, <2>3, <3>1, InsideKept, OpenMove DEF Written
  <2>4. CASE job[t].st # "none"
    BY <1>2, <2>1, <2>2, <2>4, InsideKept, RequestMove DEF Written
  <2> QED BY <2>3, <2>4
<1> QED BY <1>3, <1>4

LEMMA StoreMatched ==
    ASSUME Base, \/ CaseStep \/ SaveStep \/ ApproveStep
                 \/ \E u \in Turns : GateStepOf(u) \/ Lapse(u),
           NEW t \in Turns
    PROVE  Matched(t)
<1>0. Typed
  BY DEF Base
<1>1. UNCHANGED frame
  BY <1>0, StoreStep
<1>2. ASSUME UNCHANGED job PROVE Matched(t)
  BY <1>1, <1>2, FramesPut, KeptMatches DEF RowKept
<1>3. CASE CaseStep \/ SaveStep
  BY <1>0, <1>2, <1>3, CaseWithdraws, SaveWithdrawsOrSaves DEF Withdraws, Saves
<1>4. CASE ApproveStep
  <2>1. ASSUME NEW d \in Drafts, Approve(d) PROVE Matched(t)
    BY <1>1, <2>1, PreparingMatched DEF Approve, Approvable, Preparable
  <2> QED BY <1>2, <1>4, <2>1 DEF ApproveStep, RefuseApproval, store
<1>5. ASSUME NEW u \in Turns, GateStepOf(u) PROVE Matched(t)
  <2>1. CASE GatePrepares(u)
    <3>1. gate[u].draft \in Drafts
      BY <1>0, <2>1 DEF GatePrepares, Typed, Named
    <3> QED BY <1>1, <2>1, <3>1, PreparingMatched DEF GatePrepares, Preparable
  <2> QED
    BY <1>0, <1>2, <1>5, <2>1, GateEffects
       DEF GateEnds, GateLooks, GatePublishes, GatePasses, GateDenies
<1>6. ASSUME NEW u \in Turns, Lapse(u) PROVE Matched(t)
  <2>1. FramesKept(t)
    BY <1>1, FramesPut
  <2>2. CASE u = t
    <3>1. job[t].st = "claimed" /\ job'[t].st = "pending"
      BY <1>0, <1>6, <2>2, LapseEffect
    <3>2. Written(t, "queued", Inside(frame, t), {})
      BY <2>1, <3>1, InsideKept, NobodyHolds DEF Written, Told
    <3> QED BY <3>1, <3>2, LapseMove
  <2>3. CASE u # t
    BY <1>0, <1>6, <2>1, <2>3, LapseEffect, KeptMatches DEF RowKept
  <2> QED BY <2>2, <2>3
<1> QED BY <1>3, <1>4, <1>5, <1>6

LEMMA ClaimMatched ==
    ASSUME Base, NEW w \in Workers, NEW u \in Turns, ClaimPrep(w, u), NEW t \in Turns
    PROVE  Matched(t)
<1>1. /\ frame[w].pc = "idle" /\ Others(w)
      /\ frame'[w].pc = "load" /\ frame'[w].turn = u
      /\ job[u].st = "pending"
      /\ \A x \in Turns \ {u} : job'[x] = job[x]
      /\ job'[u].st = "claimed" /\ job'[u].owner = w
  BY ClaimPrepEffect DEF Base
<1>2. CASE t = u
  <2>1. Inside(frame', t) = Inside(frame, t) \cup {w}
    BY <1>1, <1>2 DEF Inside, In, Others, PrepSteps
  <2>2. Holders(job'[t], frame', t) = {w}
    BY <1>1, <1>2 DEF Holders, In, PrepSteps
  <2>3. Written(t, "claimed", Inside(frame, t) \cup {w}, {w})
    BY <1>1, <1>2, <2>1, <2>2 DEF Written, Told
  <2> QED BY <1>1, <1>2, <2>3, ClaimMove
<1>3. CASE t # u
  <2>1. FramesKept(t)
    BY <1>1, <1>3 DEF FramesKept, FrameKept, In, Others, PrepSteps
  <2> QED BY <1>1, <1>3, <2>1, KeptMatches DEF RowKept
<1> QED BY <1>2, <1>3

LEMMA FinishMatched ==
    ASSUME Base, NEW w \in Workers, frame[w].turn \in Turns, Finishes(w), NEW t \in Turns
    PROVE  Matched(t)
<1>1. CASE job'[t] = job[t]
  BY <1>1, LeftMatches DEF Finishes, RowKept
<1>2. CASE job'[t] # job[t]
  <2>1. /\ frame[w].turn = t /\ frame[w].pc = "finish"
        /\ job[t].st = "claimed" /\ job[t].owner = w
        /\ job'[t].st = frame[w].out
    BY <1>2 DEF Finishes
  <2>2. frame[w].out \in {"completed", "ended"}
    BY <2>1 DEF Base, Typed, Named, At
  <2>3. w \in Holders(job[t], frame, t)
    BY <2>1 DEF Holders, In
  <2>4. Inside(frame', t) = Inside(frame, t) \ {w}
    BY DEF Finishes, Left, Others, Inside, In, PrepSteps
  <2>5. Written(t, frame[w].out, Inside(frame, t) \ {w}, {})
    BY <2>1, <2>2, <2>4, NobodyHolds DEF Written, Told
  <2> QED BY <2>2, <2>3, <2>5, SettleMove
<1> QED BY <1>1, <1>2

LEMMA PrepareMatched ==
    ASSUME Base, NEW w \in Workers, Prepare(w), NEW t \in Turns
    PROVE  Matched(t)
<1>1. frame[w].turn \in Turns
  BY PrepTurn DEF Base, Linked
<1>2. /\ PrepFrame(w)
      /\ \/ \E pc \in PrepSteps \cup {"finish"} : \E out : Reads(w, pc, out)
         \/ Fails(w) \/ Stores(w) \/ Writes(w) \/ Marks(w) \/ Finishes(w)
  BY <1>1, PrepareEffects DEF Base
<1>3. CASE Finishes(w)
  BY <1>1, <1>3, FinishMatched
<1>4. CASE ~Finishes(w)
  <2>1. UNCHANGED job
    BY <1>2, <1>4 DEF Reads, Fails, Stores, Writes, Marks
  <2>2. PICK pc \in PrepSteps \cup {"finish"} : \E out : Moved(w, pc, out)
    BY <1>2, <1>4 DEF Reads, Fails, Stores, Writes, Marks, PrepSteps
  <2>3. FramesKept(t)
    BY <1>2, <2>2, GoesOn DEF PrepFrame
  <2> QED BY <2>1, <2>3, KeptMatches DEF RowKept
<1> QED BY <1>3, <1>4

LEMMA ProcessMatched ==
    ASSUME Base, NEW w \in Workers,
           \/ Deliver(w) \/ PrepError(w) \/ Crash(w) \/ \E d \in Drafts : TakeUp(w, d),
           NEW t \in Turns
    PROVE  Matched(t)
<1>0. Typed
  BY DEF Base
<1>1. UNCHANGED job
  BY <1>0, DrainEffects, TroubleEffect, TakeUpEffect DEF store
<1>2. CASE Left(w)
  BY <1>1, <1>2, LeftMatches DEF RowKept
<1>3. CASE FramesKept(t)
  BY <1>1, <1>3, KeptMatches DEF RowKept
<1>4. CASE Deliver(w)
  <2>1. ASSUME NEW pc \in DrainSteps, NEW out, Moved(w, pc, out) PROVE FramesKept(t)
    <3>1. frame[w].pc \in DrainSteps
      BY <1>0, <1>4, DrainEffects
    <3> QED BY <2>1, <3>1, GoesOn DEF DrainSteps, PrepSteps
  <2> QED BY <1>0, <1>2, <1>3, <1>4, <2>1, DrainEffects
<1>5. CASE PrepError(w) \/ Crash(w)
  <2>1. ASSUME frame[w].pc \in PrepSteps, Moved(w, "finish", "ended") PROVE FramesKept(t)
    BY <2>1, GoesOn
  <2> QED BY <1>0, <1>2, <1>3, <1>5, <2>1, TroubleEffect
<1>6. ASSUME NEW d \in Drafts, TakeUp(w, d) PROVE FramesKept(t)
  <2>1. /\ frame[w].pc = "idle" /\ Others(w) /\ frame'[w].pc \in {"mirror", "audit"}
    BY <1>0, <1>6, TakeUpEffect
  <2> QED BY <2>1 DEF FramesKept, FrameKept, In, Others, PrepSteps
<1> QED BY <1>3, <1>4, <1>5, <1>6

------------------------------------------------------------------------------
(* The refinement *)

LEMMA StepMatched == Base /\ Base' /\ [Next]_vars => Claims!Next
<1> SUFFICES ASSUME Base, Base', [Next]_vars
             PROVE  Claims!Next
  OBVIOUS
<1>1. ASSUME NEW t \in Turns PROVE Matched(t)
  <2>1. CASE Next
    BY <2>1, StoreMatched, ClaimMatched, PrepareMatched, ProcessMatched DEF Next
  <2>2. CASE UNCHANGED vars
    BY <2>2, FramesPut, KeptMatches DEF vars, store, RowKept
  <2> QED BY <2>1, <2>2
<1>2. \A t \in Turns : job'[t].st \in JobStatus
  BY DEF Base, Typed, Shapes, Job
<1>3. statusOf' \in [Turns -> Claims!Status]
  BY <1>2 DEF statusOf, JobStatus, Claims!Status
<1>4. insideOf' \in [Turns -> SUBSET Workers] /\ holdersOf' \in [Turns -> SUBSET Workers]
  BY DEF insideOf, holdersOf
<1>5. Claims!TypeOK'
  BY <1>3, <1>4 DEF Claims!TypeOK, statusOf, insideOf, holdersOf
<1> QED BY <1>1, <1>5 DEF Claims!Next, Matched

\* Whatever is approved, prepared again, or dies, a preparation that lost its claim
\* does not end the job, and a job that completed is not run again.
THEOREM PreparationsKeepClaims == Spec => KeepsClaims
<1>1. Init => Claims!Init
  <2> SUFFICES ASSUME Init PROVE Claims!Init
    OBVIOUS
  <2>1. \A t \in Turns : job[t].st = "none" /\ \A w \in Workers : ~Driven(t, w)
    BY DEF Init, NoJob, Driven, Idle, PrepSteps
  <2> QED BY <2>1 DEF Claims!Init
<1>2. Base /\ [Next]_vars => Base'
  BY BaseStep
<1>3. Base /\ Base' /\ [Next]_vars =>
         [Claims!Next]_<<[t \in Turns |-> IF job[t].st = "pending" THEN "queued"
                                                                   ELSE job[t].st],
                         [t \in Turns |-> {w \in Workers : Driven(t, w)}],
                         [t \in Turns |-> {w \in Workers :
                             Driven(t, w) /\ job[t].st = "claimed" /\ job[t].owner = w}],
                         [t \in Turns |-> FALSE]>>
  BY StepMatched
<1> QED BY <1>1, <1>2, <1>3, InitBase, PTL DEF Spec, KeepsClaims, Claims!Spec, Claims!vars

------------------------------------------------------------------------------
(* The turns of the case *)

\* The refinement mapping of the turns
rowsShown == [t \in Turns |-> [st |-> turn[t].st, rev |-> turn[t].rev]]

TurnsInv == Base /\ OfferInv /\ rev > 0

\* A step moves the turns as CaseTurns allows, or shows nothing
Allowed == Shown!Next \/ UNCHANGED <<rev, rowsShown>>

\* The status of one turn is written
LEMMA StatusPut ==
    ASSUME Shapes, NEW t \in Turns, NEW st, SetTurn(t, st)
    PROVE  rowsShown' = [rowsShown EXCEPT ![t] = [rowsShown[t] EXCEPT !.st = st]]
<1>1. \A u \in Turns : turn'[u] = IF u = t THEN [turn[u] EXCEPT !.st = st] ELSE turn[u]
  BY DEF Shapes, SetTurn
<1>2. ASSUME NEW u \in Turns
      PROVE  turn'[u].rev = turn[u].rev /\ turn'[u].st = IF u = t THEN st ELSE turn[u].st
  <2>1. turn[u] \in TurnRow
    BY DEF Shapes
  <2> QED BY <1>1, <2>1 DEF TurnRow
<1>3. \A u \in Turns : rowsShown'[u] = IF u = t THEN [rowsShown[u] EXCEPT !.st = st]
                                                ELSE rowsShown[u]
  BY <1>2 DEF rowsShown
<1> QED BY <1>3 DEF rowsShown

LEMMA EndAllowed ==
    ASSUME Shapes, NEW t \in Turns, Live(t), SetTurn(t, "over"), UNCHANGED rev
    PROVE  Allowed
<1>1. rowsShown' = [rowsShown EXCEPT ![t] = [rowsShown[t] EXCEPT !.st = "over"]]
  BY StatusPut
<1>2. rowsShown[t].st \in {"pending", "running", "cancelling"}
  BY DEF Live, rowsShown
<1>3. Shown!End(t)
  BY <1>1, <1>2 DEF Shown!End, Shown!Put, rowsShown
<1> QED BY <1>3 DEF Allowed, Shown!Next

LEMMA StartAllowed ==
    ASSUME TurnsInv, NEW t \in Turns, StartTurn(t)
    PROVE  Allowed
<1>1. rowsShown' = [rowsShown EXCEPT ![t] = [rowsShown[t] EXCEPT !.st = "running"]] /\ rev' = rev
  BY StatusPut DEF StartTurn, TurnsInv, Base, Typed
<1>2. turn[t].st = "pending" /\ turn[t].rev = rev
  BY DEF StartTurn, TurnsInv, OfferInv, Active
<1>3. \A u \in Turns : rowsShown[u].st \notin {"running", "cancelling"}
  BY DEF StartTurn, rowsShown
<1>4. rowsShown[t] = [st |-> "pending", rev |-> rev]
  BY <1>2 DEF rowsShown
<1>5. Shown!Start(t)
  BY <1>1, <1>3, <1>4 DEF Shown!Start, Shown!Put, rowsShown
<1> QED BY <1>5 DEF Allowed, Shown!Next

LEMMA OpenAllowed ==
    ASSUME TurnsInv, NEW t \in Turns, OpenTurn(t) \/ OpenFeedbackTurn(t)
    PROVE  Allowed
<1>1. turn[t].st = "none" /\ rev' = rev /\ rev > 0
  BY DEF OpenTurn, OpenFeedbackTurn, TurnsInv
<1>2. turn' = [turn EXCEPT ![t] = [@ EXCEPT !.st = "pending", !.rev = rev, !.input = conv]]
  BY DEF OpenTurn, OpenFeedbackTurn
<1>3. turn'[t].st = "pending" /\ turn'[t].rev = rev /\ \A u \in Turns \ {t} : turn'[u] = turn[u]
  BY <1>2 DEF TurnsInv, Base, Typed, Shapes, TurnRow
<1>4. \A u \in Turns : rowsShown'[u] = IF u = t THEN [st |-> "pending", rev |-> rev]
                                                ELSE rowsShown[u]
  BY <1>3 DEF rowsShown
<1>5. rowsShown' = [rowsShown EXCEPT ![t] = [st |-> "pending", rev |-> rev]]
  BY <1>4 DEF rowsShown
<1>6. rowsShown[t].st = "none"
  BY <1>1 DEF rowsShown
<1>7. Shown!Open(t)
  BY <1>1, <1>5, <1>6 DEF Shown!Open, rowsShown
<1> QED BY <1>7 DEF Allowed, Shown!Next

LEMMA CommentAllowed ==
    ASSUME TurnsInv, AcceptComment
    PROVE  Allowed
<1>1. ASSUME NEW t \in Turns
      PROVE  turn'[t].rev = turn[t].rev /\ turn'[t].st = Shown!Overtaken(turn[t].st)
  <2>1. turn[t] \in TurnRow
    BY DEF TurnsInv, Base, Typed, Shapes
  <2>2. turn'[t] = IF Active(t)
                   THEN [turn[t] EXCEPT !.st = IF @ = "pending" THEN "over" ELSE "cancelling"]
                   ELSE turn[t]
    BY DEF AcceptComment
  <2>3. CASE turn[t].st = "pending"
    BY <2>1, <2>2, <2>3 DEF Active, Shown!Overtaken, TurnRow
  <2>4. CASE turn[t].st = "running"
    BY <2>1, <2>2, <2>4 DEF Active, Shown!Overtaken, TurnRow
  <2>5. CASE turn[t].st \notin {"pending", "running"}
    BY <2>2, <2>5 DEF Active, Shown!Overtaken
  <2> QED BY <2>3, <2>4, <2>5
<1>2. rowsShown' = [t \in Turns |-> [rowsShown[t] EXCEPT !.st = Shown!Overtaken(@)]]
  <2>1. \A t \in Turns : rowsShown'[t] = [rowsShown[t] EXCEPT !.st = Shown!Overtaken(@)]
    BY <1>1 DEF rowsShown
  <2> QED BY <2>1 DEF rowsShown
<1>3. Shown!Comment
  BY <1>2 DEF AcceptComment, Shown!Comment, rowsShown
<1> QED BY <1>3 DEF Allowed, Shown!Next

LEMMA SolveAllowed ==
    ASSUME TurnsInv, NEW t \in Turns, SolveCase(t)
    PROVE  Allowed
<1>1. turn[t].st = "running" /\ turn[t].rev = rev /\ rev' = rev
  BY DEF SolveCase
<1>2. ASSUME NEW u \in Turns
      PROVE  /\ turn'[u].rev = turn[u].rev
             /\ turn'[u].st = IF u = t \/ turn[u].st = "pending" THEN "over" ELSE turn[u].st
  <2>1. turn[u] \in TurnRow
    BY DEF TurnsInv, Base, Typed, Shapes
  <2>2. turn'[u] = IF u = t \/ turn[u].st = "pending" THEN [turn[u] EXCEPT !.st = "over"]
                                                     ELSE turn[u]
    BY DEF SolveCase
  <2> QED BY <2>1, <2>2 DEF TurnRow
<1>3. rowsShown' = [u \in Turns |-> IF u = t \/ rowsShown[u].st = "pending"
                                    THEN [rowsShown[u] EXCEPT !.st = "over"] ELSE rowsShown[u]]
  <2>1. \A u \in Turns : rowsShown'[u] = IF u = t \/ rowsShown[u].st = "pending"
                                        THEN [rowsShown[u] EXCEPT !.st = "over"] ELSE rowsShown[u]
    BY <1>2 DEF rowsShown
  <2> QED BY <2>1 DEF rowsShown
<1>4. rowsShown[t] = [st |-> "running", rev |-> rev]
  BY <1>1 DEF rowsShown
<1>5. Shown!Solve(t)
  BY <1>1, <1>3, <1>4 DEF Shown!Solve, rowsShown
<1> QED BY <1>5 DEF Allowed, Shown!Next

LEMMA GateAllowed ==
    ASSUME TurnsInv, NEW t \in Turns, GateStepOf(t)
    PROVE  Allowed
<1>0. Shapes /\ turn[t] \in TurnRow /\ turn \in [Turns -> TurnRow]
  BY DEF TurnsInv, Base, Typed, Shapes
<1>1. CASE GateBlock(t) \/ GateDeny(t)
  <2>0. UNCHANGED rev
    BY <1>1 DEF GateBlock, GateDeny
  <2>1. CASE Active(t)
    <3>1. SetTurn(t, "over")
      BY <1>1, <2>1 DEF GateBlock, GateDeny, SetTurn
    <3> QED BY <1>0, <2>0, <2>1, <3>1, EndAllowed DEF Active, Live
  <2>2. CASE ~Active(t)
    <3>1. turn' = [turn EXCEPT ![t].st = @]
      BY <1>1, <2>2 DEF GateBlock, GateDeny
    <3>2. [turn[t] EXCEPT !.st = @] = turn[t]
      BY <1>0 DEF TurnRow
    <3>3. turn' = turn
      BY <1>0, <3>1, <3>2
    <3> QED BY <2>0, <3>3 DEF Allowed, rowsShown
  <2> QED BY <2>1, <2>2
<1>2. CASE GateLook(t) \/ GatePublish(t) \/ GatePass(t) \/ GatePrepare(t) \/ GateCrash(t)
  <2>1. UNCHANGED <<rev, turn>>
    BY <1>2 DEF GateLook, GatePublish, GatePass, GatePrepare, GateCrash
  <2> QED BY <2>1 DEF Allowed, rowsShown
<1> QED BY <1>1, <1>2 DEF GateStepOf

LEMMA StepAllowed == TurnsInv /\ [Next]_vars => Allowed
<1> SUFFICES ASSUME TurnsInv, [Next]_vars PROVE Allowed
  OBVIOUS
<1>0. Typed /\ Shapes
  BY DEF TurnsInv, Base, Typed
<1>1. ASSUME UNCHANGED <<rev, turn>> PROVE Allowed
  BY <1>1 DEF Allowed, rowsShown
<1>2. CASE CaseStep
  <2>1. ASSUME NEW t \in Turns, CompleteTurn(t) \/ EndTurn(t) PROVE Allowed
    BY <1>0, <2>1, EndAllowed DEF CompleteTurn, EndTurn, Live
  <2>2. CASE SyncComments \/ \E t \in Turns : Escalate(t)
    BY <1>1, <2>2 DEF SyncComments, Escalate
  <2> QED
    BY <1>2, <2>1, <2>2, CommentAllowed, OpenAllowed, StartAllowed, SolveAllowed DEF CaseStep
<1>3. CASE SaveStep
  BY <1>1, <1>3 DEF SaveStep, LookAtTurn, SaveDraft, SubmitDraft
<1>4. ASSUME NEW t \in Turns, GateStepOf(t) PROVE Allowed
  BY <1>4, GateAllowed
<1>5. CASE ApproveStep \/ \E t \in Turns : Lapse(t)
  BY <1>1, <1>5 DEF ApproveStep, Approve, RefuseApproval, Lapse, store
<1>6. ASSUME NEW w \in Workers, Prepare(w) \/ \E t \in Turns : ClaimPrep(w, t) PROVE Allowed
  BY <1>1, <1>6 DEF Prepare, LoadDraft, Translate, RejectText, FailPrep, StoreText, QueueLook,
     WriteLedger, MarkQueued, Finish, ClaimPrep, store
<1>7. ASSUME NEW w \in Workers, \/ Deliver(w) \/ PrepError(w) \/ Crash(w)
                                \/ \E d \in Drafts : TakeUp(w, d)
      PROVE  Allowed
  BY <1>0, <1>1, <1>7, DrainEffects, TroubleEffect, TakeUpEffect DEF store
<1>8. CASE UNCHANGED vars
  BY <1>1, <1>8 DEF vars, store
<1> QED BY <1>2, <1>3, <1>4, <1>5, <1>6, <1>7, <1>8 DEF Next

LEMMA TurnsInvStep == TurnsInv /\ [Next]_vars => TurnsInv'
<1> SUFFICES ASSUME TurnsInv, [Next]_vars PROVE TurnsInv'
  OBVIOUS
<1>1. Base /\ OfferInv /\ Base' /\ rev \in Nat /\ rev > 0
  BY BaseStep DEF TurnsInv, Base, Typed, Shapes
<1>2. CASE UNCHANGED vars
  BY <1>1, <1>2 DEF vars, store, TurnsInv, OfferInv, OfferedIsCurrent, Active
<1>3. CASE Next
  <2>1. rev' = rev \/ rev' = rev + 1
    BY <1>1, <1>3, CommentOrKept DEF AcceptComment, Kept
  <2> QED BY <1>1, <1>3, <2>1, OfferStep DEF TurnsInv
<1> QED BY <1>2, <1>3

\* Whatever the gate refuses, the agent saves late or a process delivers, the turns
\* of the case move no other way than the code of the turns themselves allows.
THEOREM DraftsKeepTurns == Spec => KeepsTurns
<1>1. Init => Shown!Init
  <2> SUFFICES ASSUME Init PROVE Shown!Init
    OBVIOUS
  <2>1. ASSUME NEW t \in Turns PROVE turn[t].st = "none" /\ turn[t].rev = 0
    <3>1. \E k \in Kinds : turn[t] = [st |-> "none", kind |-> k, rev |-> 0, input |-> 0]
      BY DEF Init
    <3> QED BY <3>1
  <2> QED BY <2>1 DEF Init, Shown!Init, Shown!NoRow
<1>2. Init => TurnsInv
  BY InitBase DEF Init, TurnsInv, OfferInv, OfferedIsCurrent, Active, NoRow
<1>3. TurnsInv /\ [Next]_vars =>
         [Shown!Next]_<<rev, [t \in Turns |-> [st |-> turn[t].st, rev |-> turn[t].rev]]>>
  BY StepAllowed DEF Allowed, rowsShown
<1> QED BY <1>1, <1>2, <1>3, TurnsInvStep, PTL DEF Spec, KeepsTurns, Shown!Spec, Shown!vars
=============================================================================
