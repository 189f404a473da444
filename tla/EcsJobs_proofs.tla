---------------------------- MODULE EcsJobs_proofs ----------------------------
(***************************************************************************)
(* Proofs about the job queue of EcsJobs, for any executions, workers and  *)
(* fault bounds.                                                           *)
(*                                                                         *)
(* The inductive invariant has three parts.  RowsInv relates the rows of   *)
(* one execution to each other: a row that was not inserted is blank, and  *)
(* a route that is still open has no successor.  FramesInv says what a     *)
(* worker's frame implies: its claim token is one the row really issued    *)
(* and no other worker has it.  StartsInv is the heart: as long as the     *)
(* attempt that set external_started_at has not given the job back, the    *)
(* row still carries that attempt's token and is not pending, so nobody    *)
(* can claim it.                                                           *)
(*                                                                         *)
(* That the execution tells what its jobs say needs a second invariant on  *)
(* top, ToldInv: it holds of the last job of an execution, and an open job *)
(* is always the last one (OpenAlone).                                     *)
(***************************************************************************)
EXTENDS EcsJobs, TLAPS

------------------------------------------------------------------------------
RowsInv ==
    /\ \A e \in Executions, k \in Kinds :
          /\ job[e][k].status = "none" => job[e][k] = NoRow
          /\ job[e][k].token \in {0, job[e][k].attempt}
          /\ exec[e] = "none" => job[e][k].status = "none"
    /\ OneSuccessorPerExecution

\* What the frame of a busy worker implies
FrameOK(f) ==
    IF f.pc = "idle" THEN ~f.ext
    ELSE /\ f.exec \in Executions
         /\ f.token \in 1 .. job[f.exec][f.kind].attempt
         /\ f.pc \in {"renewed", "marked", "call"} => f.kind \in ExternalKinds
         /\ f.out = "deferred" => f.kind \in ExternalKinds
         /\ f.pc \in {"renewed", "marked"} \/ f.ext => Fenced(f.exec, f.kind)
         /\ f.kind \in ExternalKinds => f.token \notin handed[f.exec][f.kind]
         /\ f.pc = "marked" \/ f.ext \/ (f.pc = "call" /\ Fenced(f.exec, f.kind))
               => f.token \in started[f.exec][f.kind]
         /\ f.ext \/ (f.pc = "call" /\ Fenced(f.exec, f.kind))
               => ledger[f.exec][f.kind] # "none"

SameClaim(f, g) ==
    /\ f.pc # "idle" /\ g.pc # "idle"
    /\ f.exec = g.exec /\ f.kind = g.kind /\ f.token = g.token

FramesInv ==
    /\ \A w \in Workers : FrameOK(worker[w])
    /\ \A v, w \in Workers : SameClaim(worker[v], worker[w]) => v = w

StartsInv ==
    \A e \in Executions, k \in ExternalKinds :
        LET row == job[e][k] IN
        /\ \A a \in started[e][k] : a \in 1 .. row.attempt
        /\ \A a \in called[e][k] \cup handed[e][k] : a \in 1 .. row.attempt
        /\ started[e][k] # {} => row.external
        /\ \A a \in started[e][k] \ handed[e][k] :
              /\ row.token = a
              /\ row.status \notin {"none", "pending"}
        /\ Fenced(e, k) => called[e][k] \subseteq started[e][k]
        /\ Fenced(e, k) /\ called[e][k] # {} => ledger[e][k] # "none"

IInv == TypeOK /\ RowsInv /\ FramesInv /\ StartsInv
------------------------------------------------------------------------------
(* Type correctness *)

LEMMA InitTypeOK == Init => TypeOK
BY SMT DEF Init, TypeOK, JobRow, NoRow, Frame, Idle, JobStatus, TerminalJob, ExecutionStatus,
       DeliveryStatus, Place, Outcome, Kinds, ExternalKinds, Faults

LEMMA SpendType ==
    ASSUME TypeOK, NEW f \in Faults, Spend(f)
    PROVE  used' \in [Faults -> Nat]
BY DEF TypeOK, Spend

LEMMA RowType ==
    ASSUME NEW row \in JobRow
    PROVE  /\ NoRow \in JobRow /\ NewRow \in JobRow
           /\ NewlyClaimed(row) \in JobRow
           /\ Requeued(row) \in JobRow
           /\ \A s \in JobStatus : [row EXCEPT !.status = s] \in JobRow
           /\ \A l \in {"live", "expired"} : [row EXCEPT !.lease = l] \in JobRow
           /\ [row EXCEPT !.external = TRUE] \in JobRow
<1>1. NoRow \in JobRow
  BY DEF JobRow, NoRow, JobStatus
<1>2. \A r \in JobRow, s \in JobStatus : [r EXCEPT !.status = s] \in JobRow
  BY DEF JobRow
<1>3. NewRow \in JobRow
  BY <1>1, <1>2 DEF NewRow, JobStatus
<1>4. NewlyClaimed(row) \in JobRow
  <2>1. row.attempt + 1 \in Nat
    BY DEF JobRow
  <2>2. ASSUME NEW m \in Nat
        PROVE  [row EXCEPT !.status = "claimed", !.token = m,
                           !.attempt = m, !.lease = "live"] \in JobRow
    BY DEF JobRow, JobStatus
  <2> QED BY <2>1, <2>2 DEF NewlyClaimed
<1>5. Requeued(row) \in JobRow
  BY DEF JobRow, Requeued, JobStatus
<1>6. /\ \A l \in {"live", "expired"} : [row EXCEPT !.lease = l] \in JobRow
      /\ [row EXCEPT !.external = TRUE] \in JobRow
  BY DEF JobRow
<1> QED BY <1>1, <1>2, <1>3, <1>4, <1>5, <1>6

LEMMA SweepType ==
    ASSUME TypeOK
    PROVE  /\ JobAfterSweep \in [Executions -> [Kinds -> JobRow]]
           /\ ExecAfterSweep \in [Executions -> ExecutionStatus]
<1>1. ASSUME NEW e \in Executions, NEW k \in Kinds
      PROVE  /\ job[e][k] \in JobRow
             /\ [job[e][k] EXCEPT !.status = "outcome_unknown"] \in JobRow
  <2>1. job[e][k] \in JobRow
    BY DEF TypeOK
  <2>2. "outcome_unknown" \in JobStatus
    BY DEF JobStatus, TerminalJob
  <2> QED BY <2>1, <2>2, RowType
<1>2. JobAfterSweep \in [Executions -> [Kinds -> JobRow]]
  BY <1>1 DEF JobAfterSweep
<1>3. ExecAfterSweep \in [Executions -> ExecutionStatus]
  BY DEF TypeOK, ExecAfterSweep, ExecutionStatus, TerminalJob
<1> QED BY <1>2, <1>3

\* A step that replaces one row by another row
LEMMA SetRowType ==
    ASSUME TypeOK, NEW e \in Executions, NEW k \in Kinds, NEW row \in JobRow,
           job' = [job EXCEPT ![e][k] = row]
    PROVE  job' \in [Executions -> [Kinds -> JobRow]]
BY DEF TypeOK

LEMMA SourcesTypeOK ==
    ASSUME TypeOK, NEW e \in Executions,
           \/ AcceptIntake(e)
           \/ CreateInvestigationTurn(e)
           \/ RequestDeliveryPrep(e)
    PROVE  TypeOK'
<1> {"route", "agent_turn", "hermes_delivery_prep"} \subseteq Kinds
  BY DEF Kinds
<1>0. \A k \in Kinds : job[e][k] \in JobRow
  BY DEF TypeOK
<1>1. CASE AcceptIntake(e)
  <2>1. job' \in [Executions -> [Kinds -> JobRow]]
    BY <1>0, <1>1, RowType, SetRowType DEF AcceptIntake
  <2> QED BY <1>1, <2>1 DEF AcceptIntake, history, TypeOK, ExecutionStatus
<1>2. CASE CreateInvestigationTurn(e)
  <2>1. job' \in [Executions -> [Kinds -> JobRow]]
    BY <1>0, <1>2, RowType, SetRowType DEF CreateInvestigationTurn
  <2> QED BY <1>2, <2>1 DEF CreateInvestigationTurn, history, TypeOK, ExecutionStatus
<1>3. CASE RequestDeliveryPrep(e)
  <2>1. job' \in [Executions -> [Kinds -> JobRow]]
    BY <1>0, <1>3, RowType, SetRowType DEF RequestDeliveryPrep
  <2>2. used' \in [Faults -> Nat]
    BY <1>3, SpendType DEF RequestDeliveryPrep, Faults
  <2> QED BY <1>3, <2>1, <2>2 DEF RequestDeliveryPrep, history, TypeOK
<1> QED BY <1>1, <1>2, <1>3

LEMMA FrameType ==
    ASSUME NEW f \in Frame
    PROVE  /\ Idle \in Frame
           /\ Raise(f) \in Frame
           /\ \A p \in Place : [f EXCEPT !.pc = p] \in Frame
           /\ \A p \in Place : [f EXCEPT !.pc = p, !.ext = TRUE] \in Frame
           /\ \A p \in Place, o \in Outcome : [f EXCEPT !.out = o, !.pc = p] \in Frame
<1>1. Idle \in Frame
  BY DEF Frame, Idle, Place, Outcome, Kinds
<1>2. \A p \in Place : [f EXCEPT !.pc = p] \in Frame
  BY DEF Frame
<1>3. \A p \in Place : [f EXCEPT !.pc = p, !.ext = TRUE] \in Frame
  BY DEF Frame
<1>4. \A p \in Place, o \in Outcome : [f EXCEPT !.out = o, !.pc = p] \in Frame
  BY DEF Frame
<1>5. Raise(f) \in Frame
  BY <1>4 DEF Raise, Place, Outcome
<1> QED BY <1>1, <1>2, <1>3, <1>4, <1>5

\* A worker's step keeps FramesInv when its own new frame is in order, its claim
\* is the old one or a fresh one, and the tables only move forward
LEMMA FrameStep ==
    ASSUME TypeOK, FramesInv, NEW w \in Workers, NEW g \in Frame,
           worker' = [worker EXCEPT ![w] = g],
           FrameOK(g)',
           \/ g.pc = "idle"
           \/ SameClaim(worker[w], g)
           \/ g.token > job[g.exec][g.kind].attempt,
           \A e \in Executions, k \in Kinds :
              /\ job'[e][k].attempt \in Nat
              /\ job'[e][k].attempt >= job[e][k].attempt,
           \A e \in Executions, k \in ExternalKinds :
              /\ started[e][k] \subseteq started'[e][k]
              /\ ledger[e][k] # "none" => ledger'[e][k] # "none"
              /\ \A t \in handed'[e][k] \ handed[e][k] :
                    /\ worker[w].pc # "idle" /\ worker[w].exec = e
                    /\ worker[w].kind = k /\ worker[w].token = t
    PROVE  FramesInv'
<1>1. ASSUME NEW v \in Workers
      PROVE  FrameOK(worker[v])'
  <2>1. CASE v = w
    BY <2>1 DEF TypeOK
  <2>2. CASE v # w
    <3>1. worker'[v] = worker[v] /\ worker[v] \in Frame
      BY <2>2 DEF TypeOK
    <3>2. FrameOK(worker[v])
      BY DEF FramesInv
    <3>3. SameClaim(worker[v], worker[w]) => FALSE
      BY <2>2 DEF FramesInv
    <3> QED
      <4> DEFINE f == worker[v]
      <4>1. CASE f.pc = "idle"
        BY <3>1, <3>2, <4>1 DEF FrameOK
      <4>2. CASE f.pc # "idle"
        <5>1. f.exec \in Executions /\ f.kind \in Kinds /\ f.token \in Nat \ {0}
          BY <3>1, <3>2, <4>2 DEF FrameOK, Frame
        <5>2. /\ job[f.exec][f.kind].attempt \in Nat
              /\ job'[f.exec][f.kind].attempt \in Nat
              /\ job'[f.exec][f.kind].attempt >= job[f.exec][f.kind].attempt
          <6>1. job[f.exec][f.kind] \in JobRow
            BY <5>1 DEF TypeOK
          <6> QED BY <5>1, <6>1 DEF JobRow
        <5>3. f.token \in 1 .. job'[f.exec][f.kind].attempt
          <6>1. f.token \in 1 .. job[f.exec][f.kind].attempt
            BY <3>2, <4>2 DEF FrameOK
          <6> HIDE DEF f
          <6> QED BY <5>1, <5>2, <6>1
        <5>4. f.kind \in ExternalKinds => f.token \notin handed'[f.exec][f.kind]
          BY <3>2, <3>3, <4>2, <5>1 DEF FrameOK, SameClaim
        <5>5. Fenced(f.exec, f.kind)' <=> Fenced(f.exec, f.kind)
          BY <3>1 DEF Fenced
        <5>6. f.pc = "marked" \/ f.ext \/ (f.pc = "call" /\ Fenced(f.exec, f.kind))
                => f.kind \in ExternalKinds
          BY <3>2, <4>2, <5>1 DEF FrameOK, Fenced, ExternalKinds
        <5> QED
          BY <3>1, <3>2, <4>2, <5>1, <5>3, <5>4, <5>5, <5>6 DEF FrameOK
      <4> QED BY <4>1, <4>2
  <2> QED BY <2>1, <2>2
<1>2. ASSUME NEW v \in Workers, v # w
      PROVE  ~ SameClaim(worker[v], g) /\ ~ SameClaim(g, worker[v])
  <2>1. FrameOK(worker[v]) /\ worker[v] \in Frame /\ worker[w] \in Frame
    BY DEF FramesInv, TypeOK
  <2>2. ~ SameClaim(worker[v], worker[w])
    BY <1>2 DEF FramesInv
  <2> QED BY <2>1, <2>2 DEF SameClaim, FrameOK, Frame, TypeOK, JobRow
<1>3. ASSUME NEW u \in Workers, NEW v \in Workers, SameClaim(worker[u], worker[v])'
      PROVE  u = v
  BY <1>2, <1>3 DEF FramesInv, SameClaim, TypeOK
<1> QED BY <1>1, <1>3 DEF FramesInv

LEMMA PollTypeOK ==
    ASSUME TypeOK, NEW w \in Workers, Poll(w)
    PROVE  TypeOK'
<1>1. ASSUME NEW k \in KindsOf(w), NEW e \in Executions, Claim(w, k, e)
      PROVE  TypeOK'
  <2>1. k \in Kinds
    BY DEF KindsOf, Kinds
  <2>2. job' \in [Executions -> [Kinds -> JobRow]]
    BY <1>1, <2>1, SweepType, RowType DEF Claim, TypeOK
  <2>3. exec' \in [Executions -> ExecutionStatus]
    BY <1>1, SweepType DEF Claim, ExecutionStatus
  <2>4. worker' \in [Workers -> Frame]
    BY <1>1, <2>1 DEF Claim, SetWorker, TypeOK, Frame, Place, Outcome, JobRow
  <2> QED BY <1>1, <2>2, <2>3, <2>4 DEF Claim, TypeOK, history
<1>2. ASSUME NEW k \in KindsOf(w), ClaimNothing(w, k)
      PROVE  TypeOK'
  BY <1>2, SweepType DEF ClaimNothing, TypeOK, history
<1> QED BY <1>1, <1>2 DEF Poll

------------------------------------------------------------------------------
(* How a step may move the tables.  Every action but the ones that insert a *)
(* row of another kind moves each row by RowMoves.                          *)

RowMoves(e, k) ==
    LET old == job[e][k]
        new == job'[e][k]
    IN
    /\ new \in JobRow
    /\ new.status = "none" <=> old.status = "none"
    /\ new.status = "none" => new = old
    /\ new.token \in {0, new.attempt}
    /\ new.attempt >= old.attempt
    /\ old.external => new.external
    /\ k = "route" /\ old.status = "completed" => new.status = "completed"

\* No attempt that started and was not handed back loses the row
StartKept(e, k) ==
    \/ started[e][k] \subseteq handed'[e][k]
    \/ /\ job'[e][k].token = job[e][k].token
       /\ job'[e][k].status # "pending"
    \/ job'[e][k] = job[e][k]

LEMMA RowsStep ==
    ASSUME TypeOK, RowsInv,
           \A e \in Executions, k \in Kinds : RowMoves(e, k),
           \A e \in Executions : exec'[e] = "none" => exec[e] = "none"
    PROVE  RowsInv'
<1>1. {"route", "processing", "agent_turn"} \subseteq Kinds
  BY DEF Kinds
<1>2. ASSUME NEW e \in Executions, NEW k \in Kinds
      PROVE  /\ job'[e][k].status = "none" => job'[e][k] = NoRow
             /\ job'[e][k].token \in {0, job'[e][k].attempt}
             /\ exec'[e] = "none" => job'[e][k].status = "none"
  BY DEF RowsInv, RowMoves
<1>3. OneSuccessorPerExecution'
  BY <1>1 DEF RowsInv, RowMoves, OneSuccessorPerExecution
<1> QED BY <1>2, <1>3 DEF RowsInv

LEMMA StartsStep ==
    ASSUME TypeOK, StartsInv,
           \A e \in Executions, k \in ExternalKinds :
              /\ RowMoves(e, k)
              /\ StartKept(e, k)
              /\ handed[e][k] \subseteq handed'[e][k]
              /\ \A a \in handed'[e][k] \ handed[e][k] : a \in 1 .. job'[e][k].attempt
              /\ ledger[e][k] # "none" => ledger'[e][k] # "none",
           started' = started, called' = called
    PROVE  StartsInv'
<1> SUFFICES ASSUME NEW e \in Executions, NEW k \in ExternalKinds
             PROVE  LET row == job'[e][k] IN
        /\ \A a \in started[e][k] : a \in 1 .. row.attempt
        /\ \A a \in called[e][k] \cup handed'[e][k] : a \in 1 .. row.attempt
        /\ started[e][k] # {} => row.external
        /\ \A a \in started[e][k] \ handed'[e][k] :
              /\ row.token = a
              /\ row.status \notin {"none", "pending"}
        /\ Fenced(e, k) => called[e][k] \subseteq started[e][k]
        /\ Fenced(e, k) /\ called[e][k] # {} => ledger'[e][k] # "none"
  BY DEF StartsInv, Fenced
<1>1. job[e][k].attempt \in Nat /\ job'[e][k].attempt \in Nat /\ job'[e][k].attempt >= job[e][k].attempt
  BY DEF TypeOK, RowMoves, JobRow, Kinds, ExternalKinds
<1>2. \A a \in started[e][k] : a \in 1 .. job'[e][k].attempt
  BY <1>1 DEF StartsInv
<1>3. \A a \in called[e][k] \cup handed'[e][k] : a \in 1 .. job'[e][k].attempt
  BY <1>1 DEF StartsInv
<1>4. started[e][k] # {} => job'[e][k].external
  BY DEF StartsInv, RowMoves
<1>5. \A a \in started[e][k] \ handed'[e][k] :
        job'[e][k].token = a /\ job'[e][k].status \notin {"none", "pending"}
  BY DEF StartsInv, RowMoves, StartKept
<1> QED BY <1>2, <1>3, <1>4, <1>5 DEF StartsInv

\* The same for the workers when no frame changes
LEMMA FramesStay ==
    ASSUME TypeOK, FramesInv, worker' = worker,
           \A e \in Executions, k \in Kinds :
              /\ job'[e][k].attempt \in Nat
              /\ job'[e][k].attempt >= job[e][k].attempt,
           started' = started, handed' = handed, ledger' = ledger
    PROVE  FramesInv'
<1>1. ASSUME NEW v \in Workers
      PROVE  FrameOK(worker[v])'
  <2>1. FrameOK(worker[v]) /\ worker[v] \in Frame
    BY DEF FramesInv, TypeOK
  <2> QED BY <2>1 DEF FrameOK, Frame, Fenced, TypeOK, JobRow, ExternalKinds, Kinds
<1> QED BY <1>1 DEF FramesInv, SameClaim

\* A step that moves rows only
LEMMA RowsOnly ==
    ASSUME TypeOK, RowsInv, FramesInv, StartsInv,
           \A e \in Executions, k \in Kinds : RowMoves(e, k),
           \A e \in Executions, k \in ExternalKinds : StartKept(e, k),
           \A e \in Executions : exec'[e] = "none" => exec[e] = "none",
           UNCHANGED <<ledger, worker, started, called, handed>>
    PROVE  RowsInv' /\ FramesInv' /\ StartsInv'
<1>1. \A e \in Executions, k \in Kinds :
        job'[e][k].attempt \in Nat /\ job'[e][k].attempt >= job[e][k].attempt
  BY DEF RowMoves, JobRow
<1>2. ExternalKinds \subseteq Kinds
  BY DEF ExternalKinds, Kinds
<1>3. RowsInv'
  BY RowsStep
<1>4. FramesInv'
  BY <1>1, FramesStay
<1>5. StartsInv'
  BY <1>2, StartsStep
<1> QED BY <1>3, <1>4, <1>5

\* A step that replaces one inserted row by another
LEMMA OneRowMoves ==
    ASSUME TypeOK, RowsInv, NEW e \in Executions, NEW k \in Kinds, NEW new \in JobRow,
           job' = [job EXCEPT ![e][k] = new],
           job[e][k].status # "none", new.status # "none",
           new.token \in {0, new.attempt},
           new.attempt >= job[e][k].attempt,
           job[e][k].external => new.external,
           k = "route" /\ job[e][k].status = "completed" => new.status = "completed"
    PROVE  /\ \A x \in Executions, y \in Kinds : RowMoves(x, y)
           /\ \A x \in Executions, y \in Kinds : ~(x = e /\ y = k) => job'[x][y] = job[x][y]
           /\ job'[e][k] = new
<1>1. \A x \in Executions, y \in Kinds :
         job'[x][y] = IF x = e /\ y = k THEN new ELSE job[x][y]
  BY DEF TypeOK
<1>2. ASSUME NEW x \in Executions, NEW y \in Kinds, ~(x = e /\ y = k)
      PROVE  RowMoves(x, y)
  BY <1>1, <1>2 DEF RowMoves, RowsInv, TypeOK, JobRow
<1>3. RowMoves(e, k)
  BY <1>1 DEF RowMoves, RowsInv, TypeOK, JobRow
<1> QED BY <1>1, <1>2, <1>3

------------------------------------------------------------------------------
(* The initial state, and the steps that are not a worker's *)

LEMMA InitIInv == Init => IInv
<1> SUFFICES ASSUME Init PROVE IInv
  OBVIOUS
<1>1. TypeOK
  BY InitTypeOK
<1>2. RowsInv
  BY DEF Init, RowsInv, OneSuccessorPerExecution, NoRow, Kinds
<1>3. FramesInv
  BY DEF Init, FramesInv, FrameOK, SameClaim, Idle
<1>4. StartsInv
  BY DEF Init, StartsInv, NoRow, Kinds, ExternalKinds
<1> QED BY <1>1, <1>2, <1>3, <1>4 DEF IInv

\* Inserting a row where there is none
LEMMA NoRowHasNoStarts ==
    ASSUME StartsInv, NEW e \in Executions, NEW k \in ExternalKinds, job[e][k] = NoRow
    PROVE  started[e][k] = {} /\ called[e][k] = {} /\ handed[e][k] = {}
BY DEF StartsInv, NoRow

LEMMA InsertedStarts ==
    ASSUME TypeOK, StartsInv, NEW e \in Executions, NEW k \in Kinds, job[e][k] = NoRow,
           \A x \in Executions, y \in ExternalKinds :
               ~(x = e /\ y = k) => RowMoves(x, y) /\ StartKept(x, y),
           ledger' = ledger, started' = started, called' = called, handed' = handed
    PROVE  StartsInv'
<1> SUFFICES ASSUME NEW x \in Executions, NEW y \in ExternalKinds
             PROVE  LET row == job'[x][y] IN
        /\ \A a \in started[x][y] : a \in 1 .. row.attempt
        /\ \A a \in called[x][y] \cup handed[x][y] : a \in 1 .. row.attempt
        /\ started[x][y] # {} => row.external
        /\ \A a \in started[x][y] \ handed[x][y] :
              /\ row.token = a
              /\ row.status \notin {"none", "pending"}
        /\ Fenced(x, y) => called[x][y] \subseteq started[x][y]
        /\ Fenced(x, y) /\ called[x][y] # {} => ledger[x][y] # "none"
  BY DEF StartsInv, Fenced
<1>1. CASE x = e /\ y = k
  BY <1>1, NoRowHasNoStarts
<1>2. CASE ~(x = e /\ y = k)
  <2>1. RowMoves(x, y) /\ StartKept(x, y)
    BY <1>2
  <2>2. /\ job[x][y].attempt \in Nat /\ job'[x][y].attempt \in Nat
        /\ job'[x][y].attempt >= job[x][y].attempt
    BY <2>1 DEF TypeOK, RowMoves, JobRow, Kinds, ExternalKinds
  <2>3. \A a \in started[x][y] \cup called[x][y] \cup handed[x][y] : a \in 1 .. job'[x][y].attempt
    BY <2>2 DEF StartsInv
  <2>4. started[x][y] # {} => job'[x][y].external
    BY <2>1 DEF StartsInv, RowMoves
  <2>5. \A a \in started[x][y] \ handed[x][y] :
          job'[x][y].token = a /\ job'[x][y].status \notin {"none", "pending"}
    BY <2>1 DEF StartsInv, RowMoves, StartKept
  <2> QED BY <2>3, <2>4, <2>5 DEF StartsInv
<1> QED BY <1>1, <1>2

LEMMA UntouchedRowMoves ==
    ASSUME TypeOK, RowsInv, NEW e \in Executions, NEW k \in Kinds, job'[e][k] = job[e][k]
    PROVE  RowMoves(e, k) /\ StartKept(e, k)
BY DEF RowMoves, StartKept, RowsInv, TypeOK, JobRow

\* A new execution gets its first row
LEMMA FirstRow ==
    ASSUME IInv, NEW e \in Executions, NEW k \in {"route", "agent_turn"}, NEW s \in ExecutionStatus,
           exec[e] = "none", s # "none",
           exec' = [exec EXCEPT ![e] = s],
           job' = [job EXCEPT ![e][k] = NewRow],
           UNCHANGED <<ledger, worker, started, called, handed, used>>
    PROVE  IInv'
<1>0. k \in Kinds /\ {"route", "processing", "agent_turn"} \subseteq Kinds /\ ExternalKinds \subseteq Kinds
  BY DEF Kinds, ExternalKinds
<1>1. TypeOK'
  <2>1. job' \in [Executions -> [Kinds -> JobRow]]
    <3>1. NewRow \in JobRow
      BY <1>0, RowType DEF IInv, TypeOK
    <3> QED BY <1>0, <3>1, SetRowType DEF IInv
  <2> QED BY <2>1 DEF IInv, TypeOK
<1>2. \A y \in Kinds : job[e][y] = NoRow
  BY DEF IInv, RowsInv
<1>3. \A x \in Executions, y \in Kinds :
         job'[x][y] = IF x = e /\ y = k THEN NewRow ELSE job[x][y]
  BY <1>0 DEF IInv, TypeOK
<1>4. RowsInv'
  <2>1. ASSUME NEW x \in Executions, NEW y \in Kinds
        PROVE  /\ job'[x][y].status = "none" => job'[x][y] = NoRow
               /\ job'[x][y].token \in {0, job'[x][y].attempt}
               /\ exec'[x] = "none" => job'[x][y].status = "none"
    BY <1>2, <1>3 DEF IInv, RowsInv, NewRow, NoRow, TypeOK
  <2>2. OneSuccessorPerExecution'
    BY <1>0, <1>2, <1>3 DEF IInv, RowsInv, OneSuccessorPerExecution, NewRow, NoRow
  <2> QED BY <2>1, <2>2 DEF RowsInv
<1>5. FramesInv'
  <2>1. \A x \in Executions, y \in Kinds :
          job'[x][y].attempt \in Nat /\ job'[x][y].attempt >= job[x][y].attempt
    BY <1>2, <1>3 DEF IInv, TypeOK, JobRow, NewRow, NoRow
  <2> QED BY <2>1, FramesStay DEF IInv
<1>6. StartsInv'
  BY <1>0, <1>2, <1>3, UntouchedRowMoves, InsertedStarts DEF IInv
<1> QED BY <1>1, <1>4, <1>5, <1>6 DEF IInv

LEMMA AcceptIntakeIInv ==
    ASSUME IInv, NEW e \in Executions, AcceptIntake(e)
    PROVE  IInv'
BY FirstRow DEF AcceptIntake, history, ExecutionStatus

LEMMA CreateInvestigationTurnIInv ==
    ASSUME IInv, NEW e \in Executions, CreateInvestigationTurn(e)
    PROVE  IInv'
BY FirstRow DEF CreateInvestigationTurn, history, ExecutionStatus

LEMMA RequestDeliveryPrepIInv ==
    ASSUME IInv, NEW e \in Executions, RequestDeliveryPrep(e)
    PROVE  IInv'
<1> DEFINE k == "hermes_delivery_prep"
           new == IF job[e][k] = NoRow THEN NewRow ELSE Requeued(job[e][k])
<1>0. k \in Kinds /\ ExternalKinds \subseteq Kinds /\ k \notin ExternalKinds /\ "agent_turn" \in ExternalKinds
  BY DEF Kinds, ExternalKinds
<1>1. TypeOK'
  BY SourcesTypeOK DEF IInv
<1>2. job[e][k] \in JobRow /\ job[e]["agent_turn"] \in JobRow
  BY <1>0 DEF IInv, TypeOK
<1>3. exec[e] # "none"
  <2>1. job[e]["agent_turn"] # NoRow
    BY <1>0, NoRowHasNoStarts DEF IInv, RequestDeliveryPrep
  <2> QED BY <1>0, <2>1 DEF IInv, RowsInv
<1>4. \A x \in Executions, y \in Kinds :
         job'[x][y] = IF x = e /\ y = k THEN new ELSE job[x][y]
  BY <1>0 DEF IInv, TypeOK, RequestDeliveryPrep
<1>5. /\ new.status # "none" /\ new.token = 0
      /\ new.attempt \in Nat /\ new.attempt >= job[e][k].attempt
  BY <1>2 DEF NewRow, NoRow, Requeued, JobRow
<1>6. RowsInv'
  <2>1. ASSUME NEW x \in Executions, NEW y \in Kinds
        PROVE  /\ job'[x][y].status = "none" => job'[x][y] = NoRow
               /\ job'[x][y].token \in {0, job'[x][y].attempt}
               /\ exec'[x] = "none" => job'[x][y].status = "none"
    <3>1. CASE x = e /\ y = k
      BY <1>3, <1>4, <1>5, <3>1 DEF RequestDeliveryPrep
    <3>2. CASE ~(x = e /\ y = k)
      BY <1>4, <3>2 DEF IInv, RowsInv, RequestDeliveryPrep
    <3> QED BY <3>1, <3>2
  <2>2. OneSuccessorPerExecution'
    BY <1>4 DEF IInv, RowsInv, OneSuccessorPerExecution, Kinds
  <2> QED BY <2>1, <2>2 DEF RowsInv
<1>7. FramesInv'
  <2>1. \A x \in Executions, y \in Kinds :
          job'[x][y].attempt \in Nat /\ job'[x][y].attempt >= job[x][y].attempt
    <3> HIDE DEF new
    <3>1. \A x \in Executions, y \in Kinds : job[x][y].attempt \in Nat
      BY DEF IInv, TypeOK, JobRow
    <3> QED BY <1>4, <1>5, <3>1
  <2> QED BY <2>1, FramesStay DEF IInv, RequestDeliveryPrep, history
<1>8. StartsInv'
  <2>1. \A x \in Executions, y \in ExternalKinds : job'[x][y] = job[x][y]
    BY <1>0, <1>4
  <2>2. \A x \in Executions, y \in ExternalKinds : RowMoves(x, y) /\ StartKept(x, y)
    BY <1>0, <2>1, UntouchedRowMoves DEF IInv
  <2> QED BY <2>2, StartsStep DEF IInv, RequestDeliveryPrep, history
<1> QED BY <1>1, <1>6, <1>7, <1>8 DEF IInv

------------------------------------------------------------------------------
(* Leases *)

\* A busy worker's frame, the row it works on, and what ties them together
LEMMA Busy ==
    ASSUME IInv, NEW w \in Workers, worker[w].pc # "idle"
    PROVE  \E f \in Frame, e \in Executions, k \in Kinds, row \in JobRow :
              /\ worker[w] = f /\ f.exec = e /\ f.kind = k /\ job[e][k] = row
              /\ f.pc # "idle" /\ FrameOK(f)
              /\ f.token \in 1 .. row.attempt
              /\ row.status # "none"
              /\ row.token \in {0, row.attempt}
<1>1. worker[w] \in Frame /\ FrameOK(worker[w])
  BY DEF IInv, TypeOK, FramesInv
<1>2. worker[w].exec \in Executions /\ worker[w].kind \in Kinds
  BY <1>1 DEF FrameOK, Frame
<1>3. job[worker[w].exec][worker[w].kind] \in JobRow
  BY <1>2 DEF IInv, TypeOK
<1>4. worker[w].token \in 1 .. job[worker[w].exec][worker[w].kind].attempt
  BY <1>1 DEF FrameOK
<1>5. job[worker[w].exec][worker[w].kind].status # "none"
  BY <1>2, <1>4 DEF IInv, RowsInv, NoRow
<1>6. job[worker[w].exec][worker[w].kind].token \in {0, job[worker[w].exec][worker[w].kind].attempt}
  BY <1>2 DEF IInv, RowsInv
<1> QED BY <1>1, <1>2, <1>3, <1>4, <1>5, <1>6

\* A step that rewrites a lease keeps everything
LEMMA LeaseStep ==
    ASSUME IInv, NEW e \in Executions, NEW k \in Kinds, NEW l \in {"live", "expired"},
           job[e][k].status = "claimed",
           job' = [job EXCEPT ![e][k].lease = l],
           used' \in [Faults -> Nat],
           UNCHANGED <<exec, ledger, worker, started, called, handed>>
    PROVE  IInv'
<1> DEFINE new == [job[e][k] EXCEPT !.lease = l]
<1>0. job[e][k] \in JobRow
  BY DEF IInv, TypeOK
<1>1. job[e][k] \in JobRow /\ new \in JobRow
  BY <1>0, RowType
<1>2. job' = [job EXCEPT ![e][k] = new]
  BY DEF IInv, TypeOK
<1>3. /\ new.status = job[e][k].status /\ new.token = job[e][k].token
      /\ new.attempt = job[e][k].attempt /\ new.external = job[e][k].external
      /\ job[e][k].attempt \in Nat
  BY <1>1 DEF JobRow
<1>4. job[e][k].token \in {0, job[e][k].attempt}
  BY DEF IInv, RowsInv
<1> HIDE DEF new
<1>5. /\ \A x \in Executions, y \in Kinds : RowMoves(x, y)
      /\ \A x \in Executions, y \in Kinds : ~(x = e /\ y = k) => job'[x][y] = job[x][y]
      /\ job'[e][k] = new
  <2>1. /\ new.status # "none" /\ job[e][k].status # "none"
        /\ new.token \in {0, new.attempt}
        /\ new.attempt >= job[e][k].attempt
        /\ job[e][k].external => new.external
        /\ k = "route" /\ job[e][k].status = "completed" => new.status = "completed"
    BY <1>3, <1>4
  <2>2. TypeOK /\ RowsInv /\ new \in JobRow
    BY <1>1 DEF IInv
  <2> QED BY <1>2, <2>1, <2>2, OneRowMoves
<1>6. \A x \in Executions, y \in Kinds : y \in ExternalKinds => StartKept(x, y)
  BY <1>3, <1>5 DEF StartKept
<1>7. TypeOK'
  <2>1. job' \in [Executions -> [Kinds -> JobRow]]
    BY <1>1, <1>2, SetRowType DEF IInv
  <2> QED BY <2>1 DEF IInv, TypeOK
<1>8. ExternalKinds \subseteq Kinds
  BY DEF ExternalKinds, Kinds
<1>9. RowsInv' /\ FramesInv' /\ StartsInv'
  BY <1>5, <1>6, <1>8, RowsOnly DEF IInv
<1> QED BY <1>7, <1>9 DEF IInv

LEMMA LeaseRunsOutIInv ==
    ASSUME IInv, NEW e \in Executions, NEW k \in Kinds, LeaseRunsOut(e, k)
    PROVE  IInv'
<1>1. used' \in [Faults -> Nat]
  BY DEF LeaseRunsOut, IInv, TypeOK
<1> QED BY <1>1, LeaseStep DEF LeaseRunsOut, history

LEMMA OwnerStallsIInv ==
    ASSUME IInv, NEW w \in Workers, OwnerStalls(w)
    PROVE  IInv'
<1>1. PICK f \in Frame, e \in Executions, k \in Kinds :
         worker[w] = f /\ f.exec = e /\ f.kind = k
  BY Busy DEF OwnerStalls
<1>2. used' \in [Faults -> Nat]
  BY SpendType DEF OwnerStalls, IInv, Faults
<1> QED BY <1>1, <1>2, LeaseStep DEF OwnerStalls, Owns, history

LEMMA RenewIInv ==
    ASSUME IInv, NEW w \in Workers, Renew(w)
    PROVE  IInv'
<1>1. PICK f \in Frame, e \in Executions, k \in Kinds :
         worker[w] = f /\ f.exec = e /\ f.kind = k
  BY Busy DEF Renew, Working
<1>2. used' \in [Faults -> Nat]
  BY DEF Renew, IInv, TypeOK
<1> QED BY <1>1, <1>2, LeaseStep DEF Renew, Owns, history

------------------------------------------------------------------------------
(* claim_job *)

LEMMA SweepMoves ==
    ASSUME TypeOK, RowsInv, NEW e \in Executions, NEW k \in Kinds,
           job'[e][k] = JobAfterSweep[e][k]
    PROVE  RowMoves(e, k) /\ StartKept(e, k)
<1>1. job[e][k] \in JobRow /\ job[e][k].token \in {0, job[e][k].attempt}
  BY DEF TypeOK, RowsInv
<1>2. CASE Swept(e, k)
  <2>1. job'[e][k] = [job[e][k] EXCEPT !.status = "outcome_unknown"]
    BY <1>2 DEF JobAfterSweep
  <2>0. "outcome_unknown" \in JobStatus
    BY DEF JobStatus, TerminalJob
  <2>2. job'[e][k] \in JobRow
    <3>1. job[e][k] \in JobRow
      BY <1>1
    <3>2. \A s \in JobStatus : [job[e][k] EXCEPT !.status = s] \in JobRow
      BY <3>1, RowType
    <3> QED BY <2>0, <2>1, <3>2
  <2>3. /\ job'[e][k].status = "outcome_unknown" /\ job[e][k].status = "claimed"
        /\ job'[e][k].token = job[e][k].token /\ job'[e][k].attempt = job[e][k].attempt
        /\ job'[e][k].external = job[e][k].external /\ job[e][k].attempt \in Nat
    BY <1>1, <1>2, <2>1 DEF JobRow, Swept
  <2>4. StartKept(e, k)
    BY <2>3 DEF StartKept
  <2>5. job'[e][k].attempt >= job[e][k].attempt
    BY <2>3
  <2>6. k = "route" => ~Swept(e, k)
    BY DEF Swept, ExternalKinds
  <2>7. RowMoves(e, k)
    BY <1>1, <1>2, <2>2, <2>3, <2>5, <2>6 DEF RowMoves
  <2> QED BY <2>4, <2>7
<1>3. CASE ~Swept(e, k)
  BY <1>3, UntouchedRowMoves DEF JobAfterSweep
<1> QED BY <1>2, <1>3

LEMMA ClaimNothingIInv ==
    ASSUME IInv, NEW w \in Workers, NEW k \in KindsOf(w), ClaimNothing(w, k)
    PROVE  IInv'
<1>1. TypeOK'
  BY PollTypeOK DEF IInv, Poll
<1>2. \A x \in Executions, y \in Kinds : RowMoves(x, y) /\ StartKept(x, y)
  BY SweepMoves DEF IInv, ClaimNothing
<1>3. ExternalKinds \subseteq Kinds
  BY DEF ExternalKinds, Kinds
<1>4. \A x \in Executions : exec'[x] = "none" => exec[x] = "none"
  BY DEF ClaimNothing, ExecAfterSweep
<1>5. RowsInv' /\ FramesInv' /\ StartsInv'
  BY <1>2, <1>3, <1>4, RowsOnly DEF IInv, ClaimNothing, history
<1> QED BY <1>1, <1>5 DEF IInv

LEMMA ClaimIInv ==
    ASSUME IInv, NEW w \in Workers, NEW k \in KindsOf(w), NEW e \in Executions, Claim(w, k, e)
    PROVE  IInv'
<1>0. k \in Kinds /\ ExternalKinds \subseteq Kinds
  BY DEF KindsOf, Kinds, ExternalKinds
<1>1. TypeOK'
  BY PollTypeOK DEF IInv, Poll
<1> DEFINE old == job[e][k]
           new == NewlyClaimed(old)
<1>2. /\ old \in JobRow /\ new \in JobRow
      /\ old.status \in {"pending", "claimed"}
      /\ old.attempt \in Nat
  <2>1. old \in JobRow
    BY <1>0 DEF IInv, TypeOK
  <2>2. new \in JobRow
    BY <2>1, RowType
  <2>3. old.status \in {"pending", "claimed"}
    BY DEF Claim, Claimable
  <2>4. old.attempt \in Nat
    BY <2>1 DEF JobRow
  <2> QED BY <2>1, <2>2, <2>3, <2>4
<1>3. /\ new.status = "claimed" /\ new.token = old.attempt + 1
      /\ new.attempt = old.attempt + 1 /\ new.external = old.external
  BY <1>2 DEF NewlyClaimed, JobRow
<1>4. \A x \in Executions, y \in Kinds :
         job'[x][y] = IF x = e /\ y = k THEN new ELSE JobAfterSweep[x][y]
  BY <1>0, SweepType DEF IInv, Claim
<1>5. old.status = "claimed" => ~old.external
  BY <1>2 DEF Claim, Claimable
<1> HIDE DEF new, old
<1>6. RowMoves(e, k)
  BY <1>0, <1>2, <1>3, <1>4 DEF RowMoves, old
<1>7. k \in ExternalKinds => started[e][k] \subseteq handed[e][k]
  BY <1>2, <1>5 DEF IInv, StartsInv, old
<1>8. \A x \in Executions, y \in Kinds :
         RowMoves(x, y) /\ (y \in ExternalKinds => StartKept(x, y))
  <2>1. handed' = handed
    BY DEF Claim, history
  <2> QED BY <1>4, <1>6, <1>7, <2>1, SweepMoves DEF StartKept, IInv
<1>9. RowsInv'
  <2>1. \A x \in Executions : exec'[x] = "none" => exec[x] = "none"
    BY SweepType DEF IInv, Claim, ExecAfterSweep
  <2> QED BY <1>8, <2>1, RowsStep DEF IInv
<1>10. StartsInv'
  BY <1>0, <1>8, StartsStep DEF IInv, Claim, history
<1>11. FramesInv'
  <2>1. PICK g : g = [pc |-> "run", exec |-> e, kind |-> k,
                      token |-> old.attempt + 1, ext |-> FALSE, out |-> "none"]
    OBVIOUS
  <2>2. g \in Frame
    BY <1>0, <1>2, <2>1 DEF Frame, Place, Outcome
  <2>3. FrameOK(g)'
    <3>1. k \in ExternalKinds => old.attempt + 1 \notin handed[e][k]
      BY <1>2 DEF IInv, StartsInv, old
    <3>2. handed' = handed
      BY DEF Claim, history
    <3> QED BY <1>2, <1>3, <1>4, <2>1, <3>1, <3>2, <1>0 DEF FrameOK
  <2>4. worker' = [worker EXCEPT ![w] = g]
    BY <2>1 DEF Claim, SetWorker, old
  <2>5. g.token > job[g.exec][g.kind].attempt
    BY <1>2, <2>1 DEF old
  <2>6. \A x \in Executions, y \in Kinds :
          job'[x][y].attempt \in Nat /\ job'[x][y].attempt >= job[x][y].attempt
    BY <1>8 DEF RowMoves, JobRow
  <2> QED BY <2>2, <2>3, <2>4, <2>5, <2>6, FrameStep DEF IInv, Claim, history
<1> QED BY <1>1, <1>9, <1>10, <1>11 DEF IInv

LEMMA PollIInv ==
    ASSUME IInv, NEW w \in Workers, Poll(w)
    PROVE  IInv'
BY ClaimIInv, ClaimNothingIInv DEF Poll

------------------------------------------------------------------------------
(* Steps of a busy worker that leave the queue alone *)

LEMMA FrameOnly ==
    ASSUME IInv, NEW w \in Workers, NEW g \in Frame,
           worker' = [worker EXCEPT ![w] = g],
           FrameOK(g)',
           g.pc = "idle" \/ SameClaim(worker[w], g),
           ledger' \in [Executions -> [ExternalKinds -> DeliveryStatus]],
           \A e \in Executions, k \in ExternalKinds :
               ledger[e][k] # "none" => ledger'[e][k] # "none",
           used' \in [Faults -> Nat],
           UNCHANGED <<job, exec, started, called, handed>>
    PROVE  IInv'
<1>1. TypeOK'
  BY DEF IInv, TypeOK
<1>2. \A x \in Executions, y \in Kinds : RowMoves(x, y) /\ (y \in ExternalKinds => StartKept(x, y))
  BY UntouchedRowMoves DEF IInv, StartKept
<1>3. ExternalKinds \subseteq Kinds
  BY DEF ExternalKinds, Kinds
<1>4. RowsInv'
  BY <1>2, RowsStep DEF IInv
<1>5. StartsInv'
  BY <1>2, <1>3, StartsStep DEF IInv
<1>6. FramesInv'
  <2>1. \A x \in Executions, y \in Kinds :
          job'[x][y].attempt \in Nat /\ job'[x][y].attempt >= job[x][y].attempt
    BY <1>2 DEF RowMoves, JobRow
  <2> QED BY <2>1, FrameStep DEF IInv
<1> QED BY <1>1, <1>4, <1>5, <1>6 DEF IInv

\* The frame that an exception leaves behind
LEMMA RaiseOK ==
    ASSUME IInv, NEW w \in Workers, worker[w].pc # "idle",
           UNCHANGED <<job, started, handed, ledger>>
    PROVE  \E g \in Frame : /\ g = Raise(worker[w])
                            /\ FrameOK(g)'
                            /\ SameClaim(worker[w], g)
<1>1. PICK f \in Frame : worker[w] = f /\ f.pc # "idle" /\ FrameOK(f)
  BY Busy
<1>2. PICK g \in Frame : g = Raise(f)
  BY FrameType
<1>3. /\ g.pc \in {"record", "commit"} /\ g.out = "exception" /\ g.exec = f.exec
      /\ g.kind = f.kind /\ g.token = f.token /\ g.ext = f.ext
  BY <1>2 DEF Raise, Frame
<1>4. FrameOK(g)'
  BY <1>1, <1>3 DEF FrameOK, Fenced
<1>5. SameClaim(f, g)
  BY <1>1, <1>3 DEF SameClaim
<1> QED BY <1>1, <1>2, <1>4, <1>5

LEMMA RaisedIInv ==
    ASSUME IInv, NEW w \in Workers, worker[w].pc # "idle",
           SetWorker(w, Raise(worker[w])),
           UNCHANGED <<job, exec, ledger, started, called, handed, used>>
    PROVE  IInv'
<1>1. PICK g \in Frame : g = Raise(worker[w]) /\ FrameOK(g)' /\ SameClaim(worker[w], g)
  BY RaiseOK
<1> QED BY <1>1, FrameOnly DEF SetWorker, IInv, TypeOK

LEMMA IdledIInv ==
    ASSUME IInv, NEW w \in Workers, SetWorker(w, Idle),
           used' \in [Faults -> Nat],
           UNCHANGED <<job, exec, ledger, started, called, handed>>
    PROVE  IInv'
<1>1. PICK f \in Frame : worker[w] = f
  BY DEF IInv, TypeOK
<1>2. PICK g \in Frame : g = Idle
  BY <1>1, FrameType
<1>3. FrameOK(g)' /\ g.pc = "idle"
  BY <1>2 DEF FrameOK, Idle
<1> QED BY <1>2, <1>3, FrameOnly DEF SetWorker, IInv, TypeOK

LEMMA RaiseErrorIInv ==
    ASSUME IInv, NEW w \in Workers, RaiseError(w)
    PROVE  IInv'
BY RaisedIInv DEF RaiseError, Working, history

LEMMA LoseClaimIInv ==
    ASSUME IInv, NEW w \in Workers, LoseClaim(w)
    PROVE  IInv'
<1>1. SetWorker(w, Idle) \/ SetWorker(w, Raise(worker[w]))
  BY DEF LoseClaim
<1>2. used' \in [Faults -> Nat]
  BY DEF LoseClaim, IInv, TypeOK
<1> QED BY <1>1, <1>2, RaisedIInv, IdledIInv DEF LoseClaim, history

LEMMA CrashIInv ==
    ASSUME IInv, NEW w \in Workers, Crash(w)
    PROVE  IInv'
<1>1. used' \in [Faults -> Nat]
  BY SpendType DEF Crash, IInv, Faults
<1> QED BY <1>1, IdledIInv DEF Crash, history

LEMMA ReturnIInv ==
    ASSUME IInv, NEW w \in Workers, NEW o \in Outcome, Return(w, o)
    PROVE  IInv'
<1>1. PICK f \in Frame : worker[w] = f /\ f.pc # "idle" /\ FrameOK(f)
  BY Busy DEF Return
<1>2. PICK g \in Frame :
         g = [f EXCEPT !.out = o,
                       !.pc = IF f.ext /\ o # "deferred" THEN "record" ELSE "commit"]
  BY FrameType DEF Place
<1>3. /\ g.pc \in {"record", "commit"} /\ g.out = o /\ g.exec = f.exec
      /\ g.kind = f.kind /\ g.token = f.token /\ g.ext = f.ext
  BY <1>2 DEF Frame
<1>4. o = "deferred" => f.kind \in ExternalKinds
  <2>1. f.kind \in Kinds
    BY DEF Frame
  <2> QED BY <1>1, <2>1 DEF Return, Returns, ExternalKinds, Kinds
<1>5. FrameOK(g)'
  BY <1>1, <1>3, <1>4 DEF FrameOK, Fenced, Return, history
<1>6. SameClaim(worker[w], g)
  BY <1>1, <1>3 DEF SameClaim
<1>7. used' \in [Faults -> Nat]
  BY SpendType DEF Return, IInv, TypeOK, Faults
<1>8. worker' = [worker EXCEPT ![w] = g]
  BY <1>1, <1>2 DEF Return, SetWorker
<1> QED BY <1>5, <1>6, <1>7, <1>8, FrameOnly DEF Return, history, IInv, TypeOK

LEMMA RecordInProgressIInv ==
    ASSUME IInv, NEW w \in Workers, RecordInProgress(w)
    PROVE  IInv'
<1>1. PICK f \in Frame, e \in Executions, k \in Kinds :
         worker[w] = f /\ f.exec = e /\ f.kind = k /\ f.pc = "marked" /\ FrameOK(f)
  BY Busy DEF RecordInProgress
<1>2. PICK g \in Frame : g = [f EXCEPT !.pc = "call", !.ext = TRUE]
  BY FrameType DEF Place
<1>3. /\ g.pc = "call" /\ g.out = f.out /\ g.exec = e
      /\ g.kind = k /\ g.token = f.token /\ g.ext
  BY <1>1, <1>2 DEF Frame
<1>4. k \in ExternalKinds
  BY <1>1 DEF FrameOK
<1>5. ledger' = [ledger EXCEPT ![e][k] = "in_progress"]
  BY <1>1 DEF RecordInProgress
<1>6. /\ ledger' \in [Executions -> [ExternalKinds -> DeliveryStatus]]
      /\ \A x \in Executions, y \in ExternalKinds :
               ledger[x][y] # "none" => ledger'[x][y] # "none"
      /\ ledger'[e][k] # "none"
  BY <1>4, <1>5 DEF IInv, TypeOK, DeliveryStatus
<1>7. FrameOK(g)'
  BY <1>1, <1>3, <1>4, <1>6 DEF FrameOK, Fenced, RecordInProgress, history
<1>8. SameClaim(worker[w], g)
  BY <1>1, <1>3 DEF SameClaim
<1>9. worker' = [worker EXCEPT ![w] = g]
  BY <1>1, <1>2 DEF RecordInProgress, SetWorker
<1> QED BY <1>6, <1>7, <1>8, <1>9, FrameOnly DEF RecordInProgress, history, IInv, TypeOK

\* A ledger row is written for a job that went on to the external system; a
\* frame in the record place has its ledger row already
LEMMA RecordOutcomeIInv ==
    ASSUME IInv, NEW w \in Workers, RecordOutcome(w)
    PROVE  IInv'
<1>1. PICK f \in Frame, e \in Executions, k \in Kinds :
         worker[w] = f /\ f.exec = e /\ f.kind = k /\ f.pc = "record" /\ FrameOK(f)
  BY Busy DEF RecordOutcome
<1>2. PICK g \in Frame : g = [f EXCEPT !.pc = "commit"]
  BY FrameType DEF Place
<1>3. /\ g.pc = "commit" /\ g.out = f.out /\ g.exec = e
      /\ g.kind = k /\ g.token = f.token /\ g.ext = f.ext
  BY <1>1, <1>2 DEF Frame
<1>4. PICK s \in {"confirmed", "outcome_unknown"} : ledger' = [ledger EXCEPT ![e][k] = s]
  BY <1>1 DEF RecordOutcome
<1>5. /\ ledger' \in [Executions -> [ExternalKinds -> DeliveryStatus]]
      /\ \A x \in Executions, y \in ExternalKinds :
               ledger[x][y] # "none" => ledger'[x][y] # "none"
  BY <1>4 DEF IInv, TypeOK, DeliveryStatus
<1>7. FrameOK(g)'
  BY <1>1, <1>3, <1>5 DEF FrameOK, Fenced, RecordOutcome, history
<1>8. SameClaim(worker[w], g)
  BY <1>1, <1>3 DEF SameClaim
<1>9. worker' = [worker EXCEPT ![w] = g]
  BY <1>1, <1>2 DEF RecordOutcome, SetWorker
<1> QED BY <1>5, <1>7, <1>8, <1>9, FrameOnly DEF RecordOutcome, history, IInv, TypeOK

------------------------------------------------------------------------------
(* Steps of a worker that owns its claim *)

\* Worker w in frame f, which owns row (e, k), replaces that row by new and
\* goes on in frame g
OwnerStep(w, f, e, k, new, g) ==
    /\ worker[w] = f /\ f.exec = e /\ f.kind = k /\ f.pc # "idle" /\ Owns(w)
    /\ job' = [job EXCEPT ![e][k] = new]
    /\ new.status # "none"
    /\ new.token \in {0, new.attempt}
    /\ new.attempt = job[e][k].attempt
    /\ job[e][k].external => new.external
    /\ exec' \in [Executions -> ExecutionStatus]
    /\ \A x \in Executions : exec'[x] = "none" => exec[x] = "none"
    /\ handed' \in [Executions -> [ExternalKinds -> SUBSET Nat]]
    /\ \A x \in Executions, y \in ExternalKinds :
          /\ handed[x][y] \subseteq handed'[x][y]
          /\ \A t \in handed'[x][y] \ handed[x][y] : x = e /\ y = k /\ t = f.token
    /\ \/ new.token = job[e][k].token /\ new.status # "pending"
       \/ k \notin ExternalKinds
       \/ f.token \in handed'[e][k]
    /\ worker' = [worker EXCEPT ![w] = g]
    /\ FrameOK(g)'
    /\ g.pc = "idle" \/ SameClaim(f, g)
    /\ UNCHANGED <<ledger, started, called, used>>

LEMMA OwnerMoves ==
    ASSUME IInv, NEW w \in Workers, NEW f \in Frame, NEW e \in Executions, NEW k \in Kinds,
           NEW new \in JobRow, NEW g \in Frame, OwnerStep(w, f, e, k, new, g)
    PROVE  IInv'
<1> USE DEF OwnerStep
<1>0. ExternalKinds \subseteq Kinds
  BY DEF ExternalKinds, Kinds
<1>1. /\ job[e][k].status = "claimed" /\ job[e][k].token = f.token
      /\ job[e][k] \in JobRow
  BY DEF Owns, IInv, TypeOK
<1>2. job[e][k].attempt \in Nat /\ new.attempt >= job[e][k].attempt
  BY <1>1 DEF JobRow
<1>3. /\ \A x \in Executions, y \in Kinds : RowMoves(x, y)
      /\ \A x \in Executions, y \in Kinds : ~(x = e /\ y = k) => job'[x][y] = job[x][y]
      /\ job'[e][k] = new
  <2>1. TypeOK /\ RowsInv
    BY DEF IInv
  <2>2. /\ new.status # "none" /\ job[e][k].status # "none"
        /\ new.token \in {0, new.attempt}
        /\ new.attempt >= job[e][k].attempt
        /\ job[e][k].external => new.external
        /\ k = "route" /\ job[e][k].status = "completed" => new.status = "completed"
    BY <1>1, <1>2
  <2>3. job' = [job EXCEPT ![e][k] = new]
    OBVIOUS
  <2> HIDE DEF OwnerStep
  <2> QED BY <2>1, <2>2, <2>3, OneRowMoves
<1>4. ASSUME k \in ExternalKinds
      PROVE  StartKept(e, k)
  <2>1. \A a \in started[e][k] \ handed[e][k] : a = f.token
    BY <1>1, <1>4 DEF IInv, StartsInv
  <2> QED BY <1>3, <1>4, <2>1 DEF StartKept
<1>5. \A x \in Executions, y \in ExternalKinds : StartKept(x, y)
  BY <1>0, <1>3, <1>4 DEF StartKept
<1>6. TypeOK'
  <2>1. job' \in [Executions -> [Kinds -> JobRow]]
    BY SetRowType DEF IInv
  <2> QED BY <2>1 DEF IInv, TypeOK
<1>7. RowsInv'
  BY <1>3, RowsStep DEF IInv
<1>8. f.token \in 1 .. job[e][k].attempt
  <2>1. FrameOK(f)
    BY DEF IInv, FramesInv
  <2> QED BY <2>1 DEF FrameOK
<1>9. StartsInv'
  <2>1. \A x \in Executions, y \in ExternalKinds :
           \A a \in handed'[x][y] \ handed[x][y] : a \in 1 .. job'[x][y].attempt
    BY <1>3, <1>8
  <2> QED BY <1>0, <1>3, <1>5, <2>1, StartsStep DEF IInv
<1>10. FramesInv'
  <2>1. \A x \in Executions, y \in Kinds :
          job'[x][y].attempt \in Nat /\ job'[x][y].attempt >= job[x][y].attempt
    BY <1>3 DEF RowMoves, JobRow
  <2>2. \A x \in Executions, y \in ExternalKinds :
          /\ started[x][y] \subseteq started'[x][y]
          /\ ledger[x][y] # "none" => ledger'[x][y] # "none"
          /\ \A t \in handed'[x][y] \ handed[x][y] :
                /\ worker[w].pc # "idle" /\ worker[w].exec = x
                /\ worker[w].kind = y /\ worker[w].token = t
    OBVIOUS
  <2>3. /\ worker' = [worker EXCEPT ![w] = g] /\ FrameOK(g)'
        /\ g.pc = "idle" \/ SameClaim(worker[w], g)
    OBVIOUS
  <2>4. TypeOK /\ FramesInv
    BY DEF IInv
  <2> HIDE DEF OwnerStep
  <2> QED BY <2>1, <2>2, <2>3, <2>4, FrameStep
<1> QED BY <1>6, <1>7, <1>9, <1>10 DEF IInv

\* The usual case: the row keeps its token and does not go back to the queue
LEMMA OwnerKeepsToken ==
    ASSUME IInv, NEW w \in Workers, NEW f \in Frame, NEW e \in Executions, NEW k \in Kinds,
           NEW new \in JobRow, NEW g \in Frame,
           worker[w] = f, f.exec = e, f.kind = k, f.pc # "idle", Owns(w),
           job' = [job EXCEPT ![e][k] = new],
           new.status \notin {"none", "pending"},
           new.token = job[e][k].token,
           new.attempt = job[e][k].attempt,
           new.external = job[e][k].external,
           exec' \in [Executions -> ExecutionStatus],
           \A x \in Executions : exec'[x] = "none" => exec[x] = "none",
           worker' = [worker EXCEPT ![w] = g],
           FrameOK(g)',
           g.pc = "idle" \/ SameClaim(f, g),
           UNCHANGED <<ledger, started, called, handed, used>>
    PROVE  IInv'
<1>1. job[e][k].token \in {0, job[e][k].attempt}
  BY DEF IInv, RowsInv
<1>2. handed' \in [Executions -> [ExternalKinds -> SUBSET Nat]]
  BY DEF IInv, TypeOK
<1>3. \A x \in Executions, y \in ExternalKinds :
         /\ handed[x][y] \subseteq handed'[x][y]
         /\ \A t \in handed'[x][y] \ handed[x][y] : x = e /\ y = k /\ t = f.token
  OBVIOUS
<1>4. new.status # "none" /\ new.status # "pending"
  OBVIOUS
<1>5. OwnerStep(w, f, e, k, new, g)
  BY <1>1, <1>2, <1>3, <1>4 DEF OwnerStep
<1> QED BY <1>5, OwnerMoves

LEMMA BeforeExternalIInv ==
    ASSUME IInv, NEW w \in Workers, BeforeExternal(w)
    PROVE  IInv'
<1>1. PICK f \in Frame, e \in Executions, k \in Kinds, row \in JobRow :
         /\ worker[w] = f /\ f.exec = e /\ f.kind = k /\ f.pc = "run" /\ FrameOK(f)
         /\ job[e][k] = row /\ row.token \in {0, row.attempt} /\ row.status # "none"
  BY Busy DEF BeforeExternal
<1>2. CASE Owns(w)
  <2>1. PICK g \in Frame : g = [f EXCEPT !.pc =
                   IF f.ext \/ ~Fenced(e, k) THEN "call" ELSE "renewed"]
    BY FrameType DEF Place
  <2>2. /\ g.exec = e /\ g.kind = k /\ g.token = f.token /\ g.ext = f.ext /\ g.out = f.out
        /\ g.pc = IF f.ext \/ ~Fenced(e, k) THEN "call" ELSE "renewed"
    BY <1>1, <2>1 DEF Frame
  <2>3. PICK new \in JobRow : new = [row EXCEPT !.lease = "live"]
    BY RowType
  <2>4. /\ new.status = row.status /\ new.token = row.token /\ new.attempt = row.attempt
        /\ new.external = row.external
    BY <2>3 DEF JobRow
  <2>5. job' = [job EXCEPT ![e][k] = new]
    BY <1>1, <1>2, <2>3 DEF BeforeExternal, IInv, TypeOK
  <2>6. job'[e][k].attempt = row.attempt
    BY <2>4, <2>5 DEF IInv, TypeOK
  <2>7. FrameOK(g)'
    BY <1>1, <2>2, <2>6 DEF FrameOK, Fenced, BeforeExternal, history
  <2>8. SameClaim(f, g)
    BY <1>1, <2>2 DEF SameClaim
  <2>9. worker' = [worker EXCEPT ![w] = g]
    BY <1>1, <1>2, <2>1 DEF BeforeExternal, SetWorker
  <2>10. row.status = "claimed"
    BY <1>1, <1>2 DEF Owns
  <2>11. /\ UNCHANGED <<exec, ledger, started, called, handed, used>>
         /\ exec \in [Executions -> ExecutionStatus]
         /\ handed \in [Executions -> [ExternalKinds -> SUBSET Nat]]
    BY DEF BeforeExternal, history, IInv, TypeOK
  <2>12. /\ new.status \notin {"none", "pending"} /\ new.token = job[e][k].token
         /\ new.attempt = job[e][k].attempt /\ new.external = job[e][k].external
    BY <1>1, <2>4, <2>10
  <2> QED BY <1>1, <1>2, <2>5, <2>7, <2>8, <2>9, <2>11, <2>12, OwnerKeepsToken
<1>3. CASE ~Owns(w)
  BY <1>1, <1>3, RaisedIInv DEF BeforeExternal, history
<1> QED BY <1>2, <1>3

LEMMA MarkExternalStartedIInv ==
    ASSUME IInv, NEW w \in Workers, MarkExternalStarted(w)
    PROVE  IInv'
<1>1. PICK f \in Frame, e \in Executions, k \in Kinds, row \in JobRow :
         /\ worker[w] = f /\ f.exec = e /\ f.kind = k /\ f.pc = "renewed" /\ FrameOK(f)
         /\ job[e][k] = row /\ row.token \in {0, row.attempt} /\ row.status # "none"
         /\ f.token \in 1 .. row.attempt
  BY Busy DEF MarkExternalStarted
<1>2. k \in ExternalKinds /\ Fenced(e, k) /\ ExternalKinds \subseteq Kinds
  BY <1>1 DEF FrameOK, ExternalKinds, Kinds
<1>3. CASE Owns(w)
  <2>1. PICK g \in Frame : g = [f EXCEPT !.pc = "marked"]
    BY FrameType DEF Place
  <2>2. /\ g.exec = e /\ g.kind = k /\ g.token = f.token /\ g.ext = f.ext /\ g.out = f.out
        /\ g.pc = "marked"
    BY <1>1, <2>1 DEF Frame
  <2>3. PICK new \in JobRow : new = [row EXCEPT !.external = TRUE]
    BY RowType
  <2>4. /\ new.status = row.status /\ new.token = row.token /\ new.attempt = row.attempt
        /\ new.external /\ row.attempt \in Nat
    BY <2>3 DEF JobRow
  <2>5. job' = [job EXCEPT ![e][k] = new]
    BY <1>1, <1>3, <2>3 DEF MarkExternalStarted, IInv, TypeOK
  <2>6. row.status = "claimed" /\ row.token = f.token
    BY <1>1, <1>3 DEF Owns
  <2>7. /\ \A x \in Executions, y \in Kinds : RowMoves(x, y)
        /\ \A x \in Executions, y \in Kinds : ~(x = e /\ y = k) => job'[x][y] = job[x][y]
        /\ job'[e][k] = new
    <3>1. TypeOK /\ RowsInv
      BY DEF IInv
    <3>2. /\ new.status # "none" /\ job[e][k].status # "none"
          /\ new.token \in {0, new.attempt}
          /\ new.attempt >= job[e][k].attempt
          /\ job[e][k].external => new.external
          /\ k = "route" /\ job[e][k].status = "completed" => new.status = "completed"
      BY <1>1, <2>4, <2>6
    <3> QED BY <2>5, <3>1, <3>2, OneRowMoves
  <2>8. started' = [started EXCEPT ![e][k] = started[e][k] \cup {f.token}]
    BY <1>1, <1>3 DEF MarkExternalStarted
  <2>9. UNCHANGED <<exec, ledger, called, handed, used>>
    BY DEF MarkExternalStarted
  <2>10. worker' = [worker EXCEPT ![w] = g]
    BY <1>1, <1>3, <2>1 DEF MarkExternalStarted, SetWorker
  <2>11. \A x \in Executions, y \in ExternalKinds :
            started'[x][y] = IF x = e /\ y = k THEN started[e][k] \cup {f.token} ELSE started[x][y]
    BY <1>2, <2>8 DEF IInv, TypeOK
  <2>12. TypeOK'
    <3>1. job' \in [Executions -> [Kinds -> JobRow]]
      BY <2>5, SetRowType DEF IInv
    <3>2. started' \in [Executions -> [ExternalKinds -> SUBSET Nat]]
      BY <1>1, <1>2, <2>8 DEF IInv, TypeOK, Frame
    <3>3. worker' \in [Workers -> Frame]
      BY <2>10 DEF IInv, TypeOK
    <3> QED BY <2>9, <3>1, <3>2, <3>3 DEF IInv, TypeOK
  <2>13. RowsInv'
    BY <2>7, <2>9, RowsStep DEF IInv
  <2>14. StartsInv'
    <3> SUFFICES ASSUME NEW x \in Executions, NEW y \in ExternalKinds
                 PROVE  LET r == job'[x][y] IN
            /\ \A a \in started'[x][y] : a \in 1 .. r.attempt
            /\ \A a \in called[x][y] \cup handed[x][y] : a \in 1 .. r.attempt
            /\ started'[x][y] # {} => r.external
            /\ \A a \in started'[x][y] \ handed[x][y] :
                  /\ r.token = a
                  /\ r.status \notin {"none", "pending"}
            /\ Fenced(x, y) => called[x][y] \subseteq started'[x][y]
            /\ Fenced(x, y) /\ called[x][y] # {} => ledger[x][y] # "none"
      BY <2>9 DEF StartsInv, Fenced
    <3>1. CASE x = e /\ y = k
      BY <1>1, <2>4, <2>6, <2>7, <2>11, <3>1 DEF IInv, StartsInv
    <3>2. CASE ~(x = e /\ y = k)
      <4>1. job'[x][y] = job[x][y]
        BY <1>2, <2>7, <3>2
      <4> QED BY <2>11, <3>2, <4>1 DEF IInv, StartsInv
    <3> QED BY <3>1, <3>2
  <2>15. FramesInv'
    <3>1. FrameOK(g)'
      BY <1>1, <1>2, <2>2, <2>4, <2>7, <2>9, <2>11 DEF FrameOK, Fenced
    <3>2. SameClaim(f, g)
      BY <1>1, <2>2 DEF SameClaim
    <3>3. \A x \in Executions, y \in Kinds :
            job'[x][y].attempt \in Nat /\ job'[x][y].attempt >= job[x][y].attempt
      BY <2>7 DEF RowMoves, JobRow
    <3>4. \A x \in Executions, y \in ExternalKinds : started[x][y] \subseteq started'[x][y]
      BY <2>11
    <3> QED BY <1>1, <2>9, <2>10, <3>1, <3>2, <3>3, <3>4, FrameStep DEF IInv
  <2> QED BY <2>12, <2>13, <2>14, <2>15 DEF IInv
<1>4. CASE ~Owns(w)
  BY <1>1, <1>4, RaisedIInv DEF MarkExternalStarted
<1> QED BY <1>3, <1>4

LEMMA ExternalCallIInv ==
    ASSUME IInv, NEW w \in Workers, ExternalCall(w)
    PROVE  IInv'
<1>1. PICK f \in Frame, e \in Executions, k \in Kinds, row \in JobRow :
         /\ worker[w] = f /\ f.exec = e /\ f.kind = k /\ f.pc = "call" /\ FrameOK(f)
         /\ job[e][k] = row /\ f.token \in 1 .. row.attempt
  BY Busy DEF ExternalCall
<1>2. k \in ExternalKinds /\ ExternalKinds \subseteq Kinds
  BY <1>1 DEF FrameOK, ExternalKinds, Kinds
<1>3. PICK g \in Frame : g = [f EXCEPT !.pc = "run"]
  BY FrameType DEF Place
<1>4. /\ g.exec = e /\ g.kind = k /\ g.token = f.token /\ g.ext = f.ext /\ g.out = f.out
      /\ g.pc = "run"
  BY <1>1, <1>3 DEF Frame
<1>5. UNCHANGED <<job, exec, ledger, started, handed, used>>
  BY DEF ExternalCall
<1>6. called' = [called EXCEPT ![e][k] = called[e][k] \cup {f.token}]
  BY <1>1 DEF ExternalCall
<1>7. worker' = [worker EXCEPT ![w] = g]
  BY <1>1, <1>3 DEF ExternalCall, SetWorker
<1>8. \A x \in Executions, y \in ExternalKinds :
         called'[x][y] = IF x = e /\ y = k THEN called[e][k] \cup {f.token} ELSE called[x][y]
  BY <1>2, <1>6 DEF IInv, TypeOK
<1>9. TypeOK'
  <2>1. called' \in [Executions -> [ExternalKinds -> SUBSET Nat]]
    BY <1>1, <1>2, <1>6 DEF IInv, TypeOK, Frame
  <2>2. worker' \in [Workers -> Frame]
    BY <1>7 DEF IInv, TypeOK
  <2> QED BY <1>5, <2>1, <2>2 DEF IInv, TypeOK
<1>10. RowsInv'
  BY <1>5 DEF IInv, RowsInv, OneSuccessorPerExecution
<1>11. StartsInv'
  <2> SUFFICES ASSUME NEW x \in Executions, NEW y \in ExternalKinds
               PROVE  LET r == job[x][y] IN
            /\ \A a \in started[x][y] : a \in 1 .. r.attempt
            /\ \A a \in called'[x][y] \cup handed[x][y] : a \in 1 .. r.attempt
            /\ started[x][y] # {} => r.external
            /\ \A a \in started[x][y] \ handed[x][y] :
                  /\ r.token = a
                  /\ r.status \notin {"none", "pending"}
            /\ Fenced(x, y) => called'[x][y] \subseteq started[x][y]
            /\ Fenced(x, y) /\ called'[x][y] # {} => ledger[x][y] # "none"
    BY <1>5 DEF StartsInv, Fenced
  <2>1. CASE x = e /\ y = k
    BY <1>1, <1>8, <2>1 DEF IInv, StartsInv, FrameOK
  <2>2. CASE ~(x = e /\ y = k)
    BY <1>8, <2>2 DEF IInv, StartsInv
  <2> QED BY <2>1, <2>2
<1>12. FramesInv'
  <2>1. FrameOK(g)'
    BY <1>1, <1>4, <1>5 DEF FrameOK, Fenced
  <2>2. SameClaim(f, g)
    BY <1>1, <1>4 DEF SameClaim
  <2>3. \A x \in Executions, y \in Kinds :
            job'[x][y].attempt \in Nat /\ job'[x][y].attempt >= job[x][y].attempt
    BY <1>5 DEF IInv, TypeOK, JobRow
  <2> QED BY <1>1, <1>5, <1>7, <2>1, <2>2, <2>3, FrameStep DEF IInv
<1> QED BY <1>9, <1>10, <1>11, <1>12 DEF IInv

------------------------------------------------------------------------------
(* The transactions that end a claim *)

Settles(w, outcomes, s) ==
    /\ Commits(w, outcomes)
    /\ job' = [job EXCEPT ![worker[w].exec][worker[w].kind].status = s]
    /\ exec' = [exec EXCEPT ![worker[w].exec] = s]
    /\ UNCHANGED <<handed, used>>

LEMMA SettleStep ==
    ASSUME IInv, NEW w \in Workers, NEW outcomes, NEW s \in TerminalJob,
           Settles(w, outcomes, s)
    PROVE  IInv'
<1>1. PICK f \in Frame, e \in Executions, k \in Kinds, row \in JobRow :
         /\ worker[w] = f /\ f.exec = e /\ f.kind = k /\ f.pc # "idle"
         /\ job[e][k] = row
  BY Busy DEF Settles, Commits
<1>2. PICK new \in JobRow : new = [row EXCEPT !.status = s]
  BY RowType DEF JobStatus
<1>3. /\ new.status = s /\ new.token = row.token /\ new.attempt = row.attempt
      /\ new.external = row.external
  BY <1>2 DEF JobRow
<1>4. job' = [job EXCEPT ![e][k] = new]
  BY <1>1, <1>2 DEF IInv, TypeOK, Settles
<1>5. PICK g \in Frame : g = Idle
  BY FrameType
<1>6. FrameOK(g)' /\ g.pc = "idle"
  BY <1>5 DEF FrameOK, Idle
<1>7. worker' = [worker EXCEPT ![w] = g] /\ Owns(w)
  BY <1>5 DEF Settles, Commits, SetWorker
<1>8. /\ exec' \in [Executions -> ExecutionStatus]
      /\ \A y \in Executions : exec'[y] = "none" => exec[y] = "none"
  BY <1>1 DEF Settles, IInv, TypeOK, ExecutionStatus, TerminalJob
<1>9. /\ new.status \notin {"none", "pending"} /\ new.token = job[e][k].token
      /\ new.attempt = job[e][k].attempt /\ new.external = job[e][k].external
  BY <1>1, <1>3 DEF TerminalJob
<1>10. UNCHANGED <<ledger, started, called, handed, used>>
  BY DEF Settles, Commits
<1>11. worker[w] = f /\ f.exec = e /\ f.kind = k /\ f.pc # "idle"
  BY <1>1
<1> QED BY <1>4, <1>6, <1>7, <1>8, <1>9, <1>10, <1>11, OwnerKeepsToken

\* Routing ends and its one successor is inserted
Succeeds(w, outcomes, k) ==
    /\ Commits(w, outcomes)
    /\ worker[w].kind = "route"
    /\ job' = [job EXCEPT ![worker[w].exec]["route"].status = "completed",
                          ![worker[w].exec][k] = NewRow]
    /\ exec' = [exec EXCEPT ![worker[w].exec] = "processing_pending"]
    /\ UNCHANGED <<handed, used>>

LEMMA SuccessorStep ==
    ASSUME IInv, NEW w \in Workers, NEW outcomes,
           NEW k \in {"processing", "agent_turn"}, Succeeds(w, outcomes, k)
    PROVE  IInv'
<1>0. {"route", "processing", "agent_turn"} \subseteq Kinds /\ k # "route"
      /\ ExternalKinds \subseteq Kinds /\ "route" \notin ExternalKinds
  BY DEF Kinds, ExternalKinds
<1>1. PICK f \in Frame, e \in Executions, row \in JobRow :
         /\ worker[w] = f /\ f.exec = e /\ f.kind = "route" /\ job[e]["route"] = row
         /\ row.token \in {0, row.attempt}
  BY Busy DEF Succeeds, Commits
<1>2. row.status = "claimed"
  BY <1>1 DEF Succeeds, Commits, Owns
<1>3. job[e]["processing"] = NoRow /\ job[e]["agent_turn"] = NoRow
  BY <1>0, <1>1, <1>2 DEF IInv, RowsInv, OneSuccessorPerExecution
<1>4. PICK new \in JobRow : new = [row EXCEPT !.status = "completed"]
  BY RowType DEF JobStatus, TerminalJob
<1>5. /\ new.status = "completed" /\ new.token = row.token /\ new.attempt = row.attempt
      /\ new.external = row.external /\ row.attempt \in Nat
  BY <1>4 DEF JobRow
<1>6. PICK mid \in [Executions -> [Kinds -> JobRow]] :
         /\ mid = [job EXCEPT ![e]["route"] = new]
         /\ job' = [mid EXCEPT ![e][k] = NewRow]
  <2>1. [job EXCEPT ![e]["route"] = new] \in [Executions -> [Kinds -> JobRow]]
    BY <1>0 DEF IInv, TypeOK
  <2>2. [job EXCEPT ![e]["route"] = new] = [job EXCEPT ![e]["route"].status = "completed"]
    BY <1>0, <1>1, <1>4 DEF IInv, TypeOK
  <2>3. job' = [[job EXCEPT ![e]["route"] = new] EXCEPT ![e][k] = NewRow]
    BY <1>1, <2>2 DEF Succeeds
  <2> QED BY <2>1, <2>3
<1>7. /\ \A y \in Kinds : job'[e][y] = IF y = "route" THEN new
                                       ELSE IF y = k THEN NewRow ELSE job[e][y]
      /\ \A x \in Executions, y \in Kinds : x # e => job'[x][y] = job[x][y]
  BY <1>0, <1>6 DEF IInv, TypeOK
<1>8. /\ NewRow \in JobRow /\ NewRow.status = "pending" /\ NewRow.token = 0
      /\ NewRow.attempt = 0 /\ NoRow.attempt = 0
  BY RowType DEF NewRow, NoRow
<1>9. exec' = [exec EXCEPT ![e] = "processing_pending"]
  BY <1>1 DEF Succeeds
<1>10. worker' = [worker EXCEPT ![w] = Idle] /\ Idle \in Frame
  BY FrameType DEF Succeeds, Commits, SetWorker
<1>11. UNCHANGED <<ledger, started, called, handed, used>>
  BY DEF Succeeds, Commits
<1>12. TypeOK'
  <2>1. job' \in [Executions -> [Kinds -> JobRow]]
    BY <1>0, <1>6, <1>8 DEF IInv, TypeOK
  <2>2. exec' \in [Executions -> ExecutionStatus] /\ worker' \in [Workers -> Frame]
    BY <1>9, <1>10 DEF IInv, TypeOK, ExecutionStatus
  <2> QED BY <1>11, <2>1, <2>2 DEF IInv, TypeOK
<1>13. RowsInv'
  <2>1. ASSUME NEW x \in Executions, NEW y \in Kinds
        PROVE  /\ job'[x][y].status = "none" => job'[x][y] = NoRow
               /\ job'[x][y].token \in {0, job'[x][y].attempt}
               /\ exec'[x] = "none" => job'[x][y].status = "none"
    <3>1. CASE x = e
      <4>1. exec'[x] # "none"
        BY <1>9, <3>1 DEF IInv, TypeOK
      <4>2. CASE y = "route"
        BY <1>1, <1>5, <1>7, <3>1, <4>1, <4>2
      <4>3. CASE y = k
        BY <1>0, <1>7, <1>8, <3>1, <4>1, <4>3
      <4>4. CASE y # "route" /\ y # k
        BY <1>7, <3>1, <4>1, <4>4 DEF IInv, RowsInv
      <4> QED BY <4>2, <4>3, <4>4
    <3>2. CASE x # e
      BY <1>7, <1>9, <3>2 DEF IInv, RowsInv, TypeOK
    <3> QED BY <3>1, <3>2
  <2>2. OneSuccessorPerExecution'
    <3> SUFFICES ASSUME NEW x \in Executions
                 PROVE  /\ ~ (job'[x]["processing"].status # "none" /\ job'[x]["agent_turn"].status # "none")
                        /\ job'[x]["route"].status # "completed" /\ job'[x]["route"].status # "none" =>
                             job'[x]["processing"].status = "none" /\ job'[x]["agent_turn"].status = "none"
      BY DEF OneSuccessorPerExecution
    <3>1. CASE x = e
      BY <1>0, <1>3, <1>5, <1>7, <3>1 DEF NoRow
    <3>2. CASE x # e
      BY <1>0, <1>7, <3>2 DEF IInv, RowsInv, OneSuccessorPerExecution
    <3> QED BY <3>1, <3>2
  <2> QED BY <2>1, <2>2 DEF RowsInv
<1>14. StartsInv'
  <2>1. \A x \in Executions, y \in ExternalKinds :
           ~(x = e /\ y = k) => job'[x][y] = job[x][y]
    BY <1>0, <1>7
  <2>2. \A x \in Executions, y \in ExternalKinds :
           ~(x = e /\ y = k) => RowMoves(x, y) /\ StartKept(x, y)
    BY <1>0, <2>1, UntouchedRowMoves DEF IInv
  <2>3. k \in Kinds /\ job[e][k] = NoRow
    BY <1>0, <1>3
  <2> QED BY <1>11, <2>2, <2>3, InsertedStarts DEF IInv
<1>15. FramesInv'
  <2>1. \A x \in Executions, y \in Kinds :
          job'[x][y].attempt \in Nat /\ job'[x][y].attempt >= job[x][y].attempt
    <3>1. \A x \in Executions, y \in Kinds : job[x][y].attempt \in Nat
      BY DEF IInv, TypeOK, JobRow
    <3>2. job[e][k].attempt = 0
      BY <1>3, <1>8
    <3> QED BY <1>1, <1>5, <1>7, <1>8, <3>1, <3>2
  <2>2. PICK g \in Frame : g = Idle
    BY <1>10
  <2>3. FrameOK(g)' /\ g.pc = "idle"
    BY <2>2 DEF FrameOK, Idle
  <2> QED BY <1>10, <1>11, <2>1, <2>2, <2>3, FrameStep DEF IInv
<1> QED BY <1>12, <1>13, <1>14, <1>15 DEF IInv

LEMMA DeferJobIInv ==
    ASSUME IInv, NEW w \in Workers, DeferJob(w)
    PROVE  IInv'
<1>1. PICK f \in Frame, e \in Executions, k \in Kinds, row \in JobRow :
         /\ worker[w] = f /\ f.exec = e /\ f.kind = k /\ f.pc # "idle" /\ FrameOK(f)
         /\ job[e][k] = row /\ f.token \in 1 .. row.attempt
  BY Busy DEF DeferJob, Commits
<1>2. k \in ExternalKinds /\ f.out = "deferred"
  BY <1>1 DEF FrameOK, DeferJob, Commits
<1>3. PICK new \in JobRow : new = Requeued(row)
  BY RowType
<1>4. /\ new.status = "pending" /\ new.token = 0 /\ new.attempt = row.attempt
      /\ new.external = row.external
  BY <1>3 DEF JobRow, Requeued
<1>5. job' = [job EXCEPT ![e][k] = new]
  BY <1>1, <1>3 DEF DeferJob
<1>6. PICK g \in Frame : g = Idle
  BY FrameType
<1>7. FrameOK(g)' /\ g.pc = "idle"
  BY <1>6 DEF FrameOK, Idle
<1>8. worker' = [worker EXCEPT ![w] = g] /\ Owns(w)
  BY <1>6 DEF DeferJob, Commits, SetWorker
<1>9. PICK st \in ExecutionStatus : st # "none" /\ exec' = [exec EXCEPT ![e] = st]
  <2>1. exec[e] \in ExecutionStatus
    BY DEF IInv, TypeOK
  <2> QED BY <1>1, <2>1 DEF DeferJob, ExecutionStatus, TerminalJob
<1>10. /\ exec' \in [Executions -> ExecutionStatus]
       /\ \A y \in Executions : exec'[y] = "none" => exec[y] = "none"
  BY <1>9 DEF IInv, TypeOK
<1>11. handed' = [handed EXCEPT ![e][k] = handed[e][k] \cup {f.token}]
  BY <1>1 DEF DeferJob
<1>12. /\ handed' \in [Executions -> [ExternalKinds -> SUBSET Nat]]
       /\ \A x \in Executions, y \in ExternalKinds :
            /\ handed[x][y] \subseteq handed'[x][y]
            /\ \A t \in handed'[x][y] \ handed[x][y] : x = e /\ y = k /\ t = f.token
       /\ f.token \in handed'[e][k]
  BY <1>1, <1>2, <1>11 DEF IInv, TypeOK, Frame
<1>13. UNCHANGED <<ledger, started, called, used>>
  BY DEF DeferJob, Commits
<1>14. OwnerStep(w, f, e, k, new, g)
  BY <1>1, <1>4, <1>5, <1>7, <1>8, <1>10, <1>12, <1>13 DEF OwnerStep
<1> QED BY <1>14, OwnerMoves

LEMMA EndClaimIInv ==
    ASSUME IInv, NEW w \in Workers, EndClaim(w)
    PROVE  IInv'
<1>1. CASE CompleteRoute(w)
  <2>1. Succeeds(w, {"completed"}, "processing")
    BY <1>1 DEF CompleteRoute, Succeeds
  <2> QED BY <2>1, SuccessorStep
<1>2. CASE CompleteClassificationOnly(w)
  <2>1. Settles(w, {"completed"}, "completed")
    BY <1>2 DEF CompleteClassificationOnly, Settles
  <2> QED BY <2>1, SettleStep DEF TerminalJob
<1>3. CASE HandOffToHermesAgent(w, TRUE)
  <2>1. Succeeds(w, {"completed"}, "agent_turn")
    BY <1>3 DEF HandOffToHermesAgent, Succeeds
  <2> QED BY <2>1, SuccessorStep
<1>4. CASE HandOffToHermesAgent(w, FALSE)
  <2> DEFINE e == worker[w].exec
  <2>1. e \in Executions /\ {"route", "agent_turn"} \subseteq Kinds
    BY <1>4, Busy DEF HandOffToHermesAgent, Commits, Kinds
  <2>2. job' = [job EXCEPT ![e]["route"].status = "completed"]
    BY <1>4, <2>1 DEF HandOffToHermesAgent, IInv, TypeOK
  <2>3. Settles(w, {"completed"}, "completed")
    BY <1>4, <2>2 DEF HandOffToHermesAgent, Settles
  <2> QED BY <2>3, SettleStep DEF TerminalJob
<1>5. CASE CompleteProcessing(w)
  <2>1. worker[w].out \in TerminalJob
    BY <1>5 DEF CompleteProcessing, Commits, TerminalJob
  <2>2. Settles(w, {"completed", "human_review"}, worker[w].out)
    BY <1>5 DEF CompleteProcessing, Settles
  <2>3. PICK s \in TerminalJob : s = worker[w].out
    BY <2>1
  <2> QED BY <2>2, <2>3, SettleStep
<1>6. CASE FailJob(w)
  <2>1. PICK s \in TerminalJob : Settles(w, {"failed", "outcome_unknown", "exception"}, s)
    BY <1>6 DEF FailJob, Settles, TerminalJob
  <2> QED BY <2>1, SettleStep
<1>7. CASE DeferJob(w)
  BY <1>7, DeferJobIInv
<1>8. CASE LoseClaim(w)
  BY <1>8, LoseClaimIInv
<1> QED BY <1>1, <1>2, <1>3, <1>4, <1>5, <1>6, <1>7, <1>8 DEF EndClaim

------------------------------------------------------------------------------
(* The invariant, and what follows from it *)

THEOREM Invariance == Spec => []IInv
<1>1. Init => IInv
  BY InitIInv
<1>2. IInv /\ [Next]_vars => IInv'
  <2> SUFFICES ASSUME IInv, [Next]_vars
               PROVE  IInv'
    OBVIOUS
  <2>1. CASE \E e \in Executions :
               \/ AcceptIntake(e)
               \/ CreateInvestigationTurn(e)
               \/ RequestDeliveryPrep(e)
               \/ \E k \in Kinds : LeaseRunsOut(e, k)
    BY <2>1, AcceptIntakeIInv, CreateInvestigationTurnIInv, RequestDeliveryPrepIInv,
       LeaseRunsOutIInv
  <2>2. ASSUME NEW w \in Workers,
               \/ Poll(w)
               \/ OwnerStalls(w)
               \/ Renew(w)
               \/ BeforeExternal(w)
               \/ ProcessorReturns(w)
               \/ RaiseError(w)
               \/ Advance(w)
               \/ Crash(w)
        PROVE  IInv'
    <3>1. CASE ProcessorReturns(w)
      BY <3>1, ReturnIInv DEF ProcessorReturns
    <3>2. CASE Advance(w)
      BY <3>2, MarkExternalStartedIInv, RecordInProgressIInv, ExternalCallIInv,
         RecordOutcomeIInv, EndClaimIInv DEF Advance
    <3> QED BY <2>2, <3>1, <3>2, PollIInv, OwnerStallsIInv, RenewIInv, BeforeExternalIInv,
               RaiseErrorIInv, CrashIInv
  <2>3. CASE UNCHANGED vars
    BY <2>3 DEF vars, history, IInv, TypeOK, RowsInv, OneSuccessorPerExecution,
       FramesInv, FrameOK, SameClaim, Fenced, StartsInv
  <2> QED BY <2>1, <2>2, <2>3 DEF Next
<1> QED BY <1>1, <1>2, PTL DEF Spec

\* Every variable keeps its type: the tables and the frames are always rows and
\* frames of the shapes the store writes
THEOREM TypeCorrect == Spec => []TypeOK
BY Invariance, PTL DEF IInv

\* An attempt that reached the external system and did not give the job back
\* still has the row, and so is the last attempt the row has issued
LEMMA NoReplayLemma == IInv => NoReplayAfterExternalStart
<1> SUFFICES ASSUME IInv, NEW e \in Executions, NEW k \in ExternalKinds, Fenced(e, k),
                    NEW a \in called[e][k], NEW b \in called[e][k], a < b,
                    a \notin handed[e][k]
             PROVE  FALSE
  BY DEF NoReplayAfterExternalStart
<1>1. k \in Kinds
  BY DEF ExternalKinds, Kinds
<1>2. a \in 1 .. job[e][k].attempt /\ b \in 1 .. job[e][k].attempt
  BY DEF IInv, StartsInv
<1>3. job[e][k].token = a
  BY DEF IInv, StartsInv
<1>4. job[e][k].token \in {0, job[e][k].attempt} /\ job[e][k].attempt \in Nat
  BY <1>1 DEF IInv, RowsInv, TypeOK, JobRow
<1> QED BY <1>2, <1>3, <1>4

\* No attempt repeats what an earlier one did outside, unless that one deferred
THEOREM NoReplay == Spec => []NoReplayAfterExternalStart
BY Invariance, NoReplayLemma, PTL

LEMMA SingleActorLemma == IInv => SingleExternalActor
<1> SUFFICES ASSUME IInv, NEW v \in Workers, NEW w \in Workers,
                    worker[v].ext, worker[w].ext,
                    worker[v].exec = worker[w].exec, worker[v].kind = worker[w].kind
             PROVE  v = w
  BY DEF SingleExternalActor
<1>1. FrameOK(worker[v]) /\ FrameOK(worker[w])
  BY DEF IInv, FramesInv
<1>2. ASSUME NEW u \in Workers, worker[u].ext, FrameOK(worker[u])
      PROVE  /\ worker[u].pc # "idle"
             /\ worker[u].token = job[worker[u].exec][worker[u].kind].token
  <2>1. /\ worker[u].pc # "idle" /\ worker[u].exec \in Executions
        /\ Fenced(worker[u].exec, worker[u].kind)
    BY <1>2 DEF FrameOK
  <2>2. worker[u].kind \in ExternalKinds
    BY <2>1 DEF Fenced
  <2>3. worker[u].token \in started[worker[u].exec][worker[u].kind]
                            \ handed[worker[u].exec][worker[u].kind]
    BY <1>2, <2>1, <2>2 DEF FrameOK
  <2> QED BY <2>1, <2>2, <2>3 DEF IInv, StartsInv
<1>3. SameClaim(worker[v], worker[w])
  BY <1>1, <1>2 DEF SameClaim
<1> QED BY <1>3 DEF IInv, FramesInv

\* At most one process is past before_external for a job
THEOREM SingleActor == Spec => []SingleExternalActor
BY Invariance, SingleActorLemma, PTL

LEMMA JournalledLemma == IInv => ExternalCallIsJournalled
BY DEF IInv, StartsInv, ExternalCallIsJournalled

\* No external call is unknown to the job row and to the ledger
THEOREM Journalled == Spec => []ExternalCallIsJournalled
BY Invariance, JournalledLemma, PTL

LEMMA OneSuccessorLemma == IInv => OneSuccessorPerExecution
BY DEF IInv, RowsInv

\* An intake event is handed on once
THEOREM OneSuccessor == Spec => []OneSuccessorPerExecution
BY Invariance, OneSuccessorLemma, PTL

------------------------------------------------------------------------------
(* Settled jobs *)

SettledRowsStay ==
    \A e \in Executions, k \in Kinds :
        k # "hermes_delivery_prep" /\ job[e][k].status \in TerminalJob =>
            job'[e][k] = job[e][k]

\* A step that replaces one row that is still open
LEMMA OpenRowMoves ==
    ASSUME TypeOK, NEW e \in Executions, NEW k \in Kinds, NEW new \in JobRow,
           job' = [job EXCEPT ![e][k] = new],
           k = "hermes_delivery_prep" \/ job[e][k].status \notin TerminalJob
    PROVE  SettledRowsStay
BY DEF SettledRowsStay, TypeOK

LEMMA SourcesSettled ==
    ASSUME IInv, NEW e \in Executions,
           AcceptIntake(e) \/ CreateInvestigationTurn(e) \/ RequestDeliveryPrep(e)
    PROVE  SettledRowsStay
<1>0. {"route", "agent_turn", "hermes_delivery_prep"} \subseteq Kinds
  BY DEF Kinds
<1>1. exec[e] = "none" => \A k \in Kinds : job[e][k].status \notin TerminalJob
  BY DEF IInv, RowsInv, TerminalJob
<1>2. \A k \in Kinds : {NewRow, Requeued(job[e][k])} \subseteq JobRow
  BY RowType DEF IInv, TypeOK
<1>3. TypeOK
  BY DEF IInv
<1>4. CASE AcceptIntake(e)
  BY <1>0, <1>1, <1>2, <1>3, <1>4, OpenRowMoves DEF AcceptIntake
<1>5. CASE CreateInvestigationTurn(e)
  BY <1>0, <1>1, <1>2, <1>3, <1>5, OpenRowMoves DEF CreateInvestigationTurn
<1>6. CASE RequestDeliveryPrep(e)
  BY <1>0, <1>2, <1>3, <1>6, OpenRowMoves DEF RequestDeliveryPrep
<1> QED BY <1>4, <1>5, <1>6

LEMMA PollSettled ==
    ASSUME IInv, NEW w \in Workers, Poll(w)
    PROVE  SettledRowsStay
<1>1. \A e \in Executions, k \in Kinds :
         job[e][k].status \in TerminalJob => /\ JobAfterSweep[e][k] = job[e][k]
                                             /\ ~Claimable(e, k)
  BY DEF JobAfterSweep, Swept, Claimable, TerminalJob
<1>2. ASSUME NEW k \in KindsOf(w), NEW e \in Executions, Claim(w, k, e)
      PROVE  SettledRowsStay
  <2>1. k \in Kinds
    BY DEF KindsOf, Kinds
  <2>2. \A x \in Executions, y \in Kinds :
           ~(x = e /\ y = k) => job'[x][y] = JobAfterSweep[x][y]
    BY <1>2, <2>1, SweepType DEF IInv, Claim
  <2>3. Claimable(e, k)
    BY <1>2 DEF Claim
  <2> QED BY <1>1, <2>2, <2>3 DEF SettledRowsStay
<1>3. ASSUME NEW k \in KindsOf(w), ClaimNothing(w, k)
      PROVE  SettledRowsStay
  BY <1>1, <1>3 DEF ClaimNothing, SettledRowsStay
<1> QED BY <1>2, <1>3 DEF Poll

\* A worker that owns its row moves that row only, and it is claimed
OwnRowMoves(w) ==
    /\ Owns(w)
    /\ \A e \in Executions, k \in Kinds :
          ~(e = worker[w].exec /\ k = worker[w].kind) /\ job[e][k].status \in TerminalJob
              => job'[e][k] = job[e][k]

LEMMA OwnRowSettled ==
    ASSUME NEW w \in Workers, OwnRowMoves(w)
    PROVE  SettledRowsStay
BY DEF OwnRowMoves, Owns, SettledRowsStay, TerminalJob

LEMMA OwnerSettled ==
    ASSUME IInv, NEW w \in Workers,
           \/ OwnerStalls(w)
           \/ Renew(w)
           \/ BeforeExternal(w)
           \/ MarkExternalStarted(w)
           \/ EndClaim(w)
    PROVE  job' = job \/ OwnRowMoves(w)
<1>1. worker[w].pc # "idle" => worker[w].exec \in Executions /\ worker[w].kind \in Kinds
  BY Busy
<1>2. CASE OwnerStalls(w)
  BY <1>1, <1>2 DEF OwnerStalls, OwnRowMoves, IInv, TypeOK
<1>3. CASE Renew(w)
  BY <1>1, <1>3 DEF Renew, Working, OwnRowMoves, IInv, TypeOK
<1>4. CASE BeforeExternal(w)
  BY <1>1, <1>4 DEF BeforeExternal, OwnRowMoves, IInv, TypeOK
<1>5. CASE MarkExternalStarted(w)
  BY <1>1, <1>5 DEF MarkExternalStarted, OwnRowMoves, IInv, TypeOK
<1>6. CASE EndClaim(w)
  <2>1. CASE CompleteRoute(w) \/ \E queuesTurn \in BOOLEAN : HandOffToHermesAgent(w, queuesTurn)
    <3>1. worker[w].pc = "commit" /\ worker[w].kind = "route" /\ Owns(w)
      BY <2>1 DEF CompleteRoute, HandOffToHermesAgent, Commits
    <3>2. PICK e \in Executions : worker[w].exec = e
      BY <1>1, <3>1
    <3>3. {"route", "processing", "agent_turn"} \subseteq Kinds
      BY DEF Kinds
    <3>4. job[e]["route"].status = "claimed"
      BY <3>1, <3>2 DEF Owns
    <3>5. job[e]["processing"].status = "none" /\ job[e]["agent_turn"].status = "none"
      BY <3>4 DEF IInv, RowsInv, OneSuccessorPerExecution
    <3>6. \A x \in Executions, y \in Kinds :
             x # e \/ y \notin {"route", "processing", "agent_turn"} => job'[x][y] = job[x][y]
      BY <2>1, <3>2, <3>3 DEF CompleteRoute, HandOffToHermesAgent, IInv, TypeOK
    <3>7. CASE CompleteRoute(w)
      <4>1. \A y \in Kinds : y \notin {"route", "processing"} => job'[e][y] = job[e][y]
        BY <3>2, <3>3, <3>7 DEF CompleteRoute, IInv, TypeOK
      <4> QED BY <3>1, <3>2, <3>5, <3>6, <4>1 DEF OwnRowMoves, TerminalJob
    <3>8. CASE \E queuesTurn \in BOOLEAN : HandOffToHermesAgent(w, queuesTurn)
      <4>1. \A y \in Kinds : y \notin {"route", "agent_turn"} => job'[e][y] = job[e][y]
        BY <3>2, <3>3, <3>8 DEF HandOffToHermesAgent, IInv, TypeOK
      <4> QED BY <3>1, <3>2, <3>5, <3>6, <4>1 DEF OwnRowMoves, TerminalJob
    <3> QED BY <2>1, <3>7, <3>8
  <2>2. CASE CompleteClassificationOnly(w)
    BY <1>1, <2>2 DEF CompleteClassificationOnly, Commits, OwnRowMoves, IInv, TypeOK
  <2>3. CASE CompleteProcessing(w)
    BY <1>1, <2>3 DEF CompleteProcessing, Commits, OwnRowMoves, IInv, TypeOK
  <2>4. CASE FailJob(w)
    BY <1>1, <2>4 DEF FailJob, Commits, OwnRowMoves, IInv, TypeOK
  <2>5. CASE DeferJob(w)
    BY <1>1, <2>5 DEF DeferJob, Commits, OwnRowMoves, IInv, TypeOK
  <2>6. CASE LoseClaim(w)
    BY <2>6 DEF LoseClaim
  <2> QED BY <1>6, <2>1, <2>2, <2>3, <2>4, <2>5, <2>6 DEF EndClaim
<1> QED BY <1>2, <1>3, <1>4, <1>5, <1>6

LEMMA StepSettled == IInv /\ [Next]_vars => SettledRowsStay
<1> SUFFICES ASSUME IInv, [Next]_vars
             PROVE  SettledRowsStay
  OBVIOUS
<1>1. ASSUME job' = job
      PROVE  SettledRowsStay
  BY <1>1 DEF SettledRowsStay
<1>2. ASSUME NEW e \in Executions, NEW k \in Kinds, LeaseRunsOut(e, k)
      PROVE  SettledRowsStay
  BY <1>2 DEF LeaseRunsOut, SettledRowsStay, IInv, TypeOK, TerminalJob
<1>3. ASSUME NEW w \in Workers, EndClaim(w) \/ Renew(w) \/ OwnerStalls(w)
                                \/ BeforeExternal(w) \/ MarkExternalStarted(w)
      PROVE  SettledRowsStay
  BY <1>1, <1>3, OwnerSettled, OwnRowSettled
<1>4. ASSUME NEW w \in Workers, ProcessorReturns(w) \/ RaiseError(w) \/ Crash(w)
                                \/ RecordInProgress(w) \/ ExternalCall(w) \/ RecordOutcome(w)
      PROVE  SettledRowsStay
  BY <1>1, <1>4 DEF ProcessorReturns, Return, RaiseError, Crash, RecordInProgress,
     ExternalCall, RecordOutcome
<1>5. CASE UNCHANGED vars
  BY <1>1, <1>5 DEF vars
<1> QED BY <1>2, <1>3, <1>4, <1>5, SourcesSettled, PollSettled DEF Next, Advance

\* No step of any worker changes a job that has ended, a delivery preparation
\* that is requested again excepted
THEOREM SettledStay == Spec => SettledJobsStay
<1>1. IInv /\ [Next]_vars =>
         [\A e \in Executions, k \in Kinds :
            k # "hermes_delivery_prep" /\ job[e][k].status \in TerminalJob =>
                job'[e][k] = job[e][k]]_vars
  BY StepSettled DEF SettledRowsStay
<1> QED BY <1>1, Invariance, PTL DEF Spec, SettledJobsStay

------------------------------------------------------------------------------
(* What the execution tells *)

\* The kind of the last job of an execution, delivery preparation aside
Stage(rows) == IF rows["processing"].status # "none" THEN "processing"
               ELSE IF rows["agent_turn"].status # "none" THEN "agent_turn" ELSE "route"

\* Execution status x is what a job of kind k and status s has to be reported as
Tells(x, k, s) ==
    /\ s \in {"pending", "claimed"} \cup TerminalJob
    /\ s \in TerminalJob => x = s
    /\ s = "claimed" => x = IF k = "route" THEN "routing" ELSE "processing"
    /\ s = "pending" => x \in IF k = "route" THEN {"route_pending"}
                              ELSE {"processing_pending", "processing"}

Told(rows, x) ==
    x # "none" /\ rows["hermes_delivery_prep"].status = "none" =>
        Tells(x, Stage(rows), rows[Stage(rows)].status)

ToldInv == \A e \in Executions : Told(job[e], exec[e])

LEMMA StageKind == \A rows : Stage(rows) \in {"route", "processing", "agent_turn"}
BY DEF Stage

\* The last job is the only one the CHOOSE of the property can mean
LEMMA ToldMatches == IInv /\ ToldInv => ExecutionMatchesJobs
<1> SUFFICES ASSUME IInv, ToldInv, NEW e \in Executions, exec[e] # "none",
                    job[e]["hermes_delivery_prep"].status = "none"
             PROVE  LET last == CHOOSE k \in {"route", "processing", "agent_turn"} :
                                  /\ job[e][k].status # "none"
                                  /\ k = "route" =>
                                        /\ job[e]["processing"].status = "none"
                                        /\ job[e]["agent_turn"].status = "none"
                        s == job[e][last].status
                    IN  CASE s \in TerminalJob -> exec[e] = s
                          [] s = "claimed" ->
                                exec[e] = IF last = "route" THEN "routing" ELSE "processing"
                          [] OTHER ->
                                exec[e] \in IF last = "route" THEN {"route_pending"}
                                            ELSE {"processing_pending", "processing"}
  BY DEF ExecutionMatchesJobs
<1> DEFINE P(k) == /\ job[e][k].status # "none"
                   /\ k = "route" => /\ job[e]["processing"].status = "none"
                                     /\ job[e]["agent_turn"].status = "none"
           last == CHOOSE k \in {"route", "processing", "agent_turn"} : P(k)
           stage == Stage(job[e])
<1>1. Tells(exec[e], stage, job[e][stage].status)
  BY DEF ToldInv, Told
<1>2. stage \in {"route", "processing", "agent_turn"} /\ P(stage)
  BY <1>1 DEF Stage, Tells, TerminalJob
<1>3. \A k \in {"route", "processing", "agent_turn"} : P(k) => k = stage
  BY DEF IInv, RowsInv, OneSuccessorPerExecution, Stage
<1>4. last \in {"route", "processing", "agent_turn"} /\ P(last)
  BY <1>2
<1>5. last = stage
  BY <1>3, <1>4
<1> HIDE DEF last, stage
<1>6. Tells(exec[e], last, job[e][last].status)
  BY <1>1, <1>5
<1>7. CASE job[e][last].status \in TerminalJob
  BY <1>6, <1>7 DEF Tells, last
<1>8. CASE job[e][last].status = "claimed"
  BY <1>6, <1>8 DEF Tells, TerminalJob, last
<1>9. CASE job[e][last].status = "pending"
  BY <1>6, <1>9 DEF Tells, TerminalJob, last
<1> QED BY <1>6, <1>7, <1>8, <1>9 DEF Tells

\* A step that changes no status tells what it told
LEMMA ToldSame ==
    ASSUME ToldInv, NEW e \in Executions, exec'[e] = exec[e],
           \A k \in Kinds : job'[e][k].status = job[e][k].status
    PROVE  Told(job'[e], exec'[e])
<1>1. \A k \in {"route", "processing", "agent_turn", "hermes_delivery_prep"} :
         job'[e][k].status = job[e][k].status
  BY DEF Kinds
<1>2. Stage(job'[e]) = Stage(job[e])
  BY <1>1 DEF Stage
<1>3. job'[e][Stage(job'[e])].status = job[e][Stage(job[e])].status
  BY <1>1, <1>2, StageKind
<1> QED BY <1>1, <1>2, <1>3 DEF ToldInv, Told

\* A step that moves the last job, and tells so
LEMMA ToldMoved ==
    ASSUME NEW e \in Executions, NEW k \in {"route", "processing", "agent_turn"},
           k # "processing" => job'[e]["processing"].status = "none",
           k # "agent_turn" => job'[e]["agent_turn"].status = "none",
           Tells(exec'[e], k, job'[e][k].status)
    PROVE  Told(job'[e], exec'[e])
<1>1. job'[e][k].status # "none"
  BY DEF Tells, TerminalJob
<1>2. Stage(job'[e]) = k
  BY <1>1 DEF Stage
<1> QED BY <1>2 DEF Told

\* An open job has no job beside it
LEMMA OpenAlone ==
    ASSUME IInv, NEW e \in Executions, NEW k \in {"route", "processing", "agent_turn"},
           job[e][k].status \in {"pending", "claimed"}
    PROVE  /\ k # "processing" => job[e]["processing"].status = "none"
           /\ k # "agent_turn" => job[e]["agent_turn"].status = "none"
           /\ exec[e] # "none"
           /\ Stage(job[e]) = k
BY DEF IInv, RowsInv, OneSuccessorPerExecution, Stage, Kinds

LEMMA SourcesTold ==
    ASSUME IInv, ToldInv, NEW e \in Executions,
           AcceptIntake(e) \/ CreateInvestigationTurn(e) \/ RequestDeliveryPrep(e)
    PROVE  ToldInv'
<1>0. {"route", "processing", "agent_turn", "hermes_delivery_prep"} \subseteq Kinds
  BY DEF Kinds
<1>1. job \in [Executions -> [Kinds -> JobRow]] /\ exec \in [Executions -> ExecutionStatus]
  BY DEF IInv, TypeOK
<1>2. exec[e] = "none" => \A k \in Kinds : job[e][k].status = "none"
  BY DEF IInv, RowsInv
<1>3. NewRow.status = "pending" /\ \A row \in JobRow : Requeued(row).status = "pending"
  BY DEF NewRow, NoRow, Requeued, JobRow
<1> SUFFICES ASSUME NEW x \in Executions PROVE Told(job'[x], exec'[x])
  BY DEF ToldInv
<1>4. CASE x # e
  <2>1. job'[x] = job[x] /\ exec'[x] = exec[x]
    BY <1>1, <1>4 DEF AcceptIntake, CreateInvestigationTurn, RequestDeliveryPrep
  <2> QED BY <2>1, ToldSame
<1>5. CASE x = e /\ AcceptIntake(e)
  <2>1. /\ exec'[e] = "route_pending" /\ job'[e]["route"].status = "pending"
        /\ job'[e]["processing"].status = "none" /\ job'[e]["agent_turn"].status = "none"
    BY <1>0, <1>1, <1>2, <1>3, <1>5 DEF AcceptIntake
  <2>2. Tells(exec'[e], "route", job'[e]["route"].status)
    BY <2>1 DEF Tells, TerminalJob
  <2> QED BY <1>5, <2>1, <2>2, ToldMoved
<1>6. CASE x = e /\ CreateInvestigationTurn(e)
  <2>1. /\ exec'[e] = "processing_pending" /\ job'[e]["agent_turn"].status = "pending"
        /\ job'[e]["processing"].status = "none"
    BY <1>0, <1>1, <1>2, <1>3, <1>6 DEF CreateInvestigationTurn
  <2>2. Tells(exec'[e], "agent_turn", job'[e]["agent_turn"].status)
    BY <2>1 DEF Tells, TerminalJob
  <2> QED BY <1>6, <2>1, <2>2, ToldMoved
<1>7. CASE x = e /\ RequestDeliveryPrep(e)
  <2>1. job'[e]["hermes_delivery_prep"].status = "pending"
    BY <1>0, <1>1, <1>3, <1>7 DEF RequestDeliveryPrep
  <2> QED BY <1>7, <2>1 DEF Told
<1> QED BY <1>4, <1>5, <1>6, <1>7

\* The sweep tells of the job it retires
LEMMA SweepTold ==
    ASSUME IInv, ToldInv, NEW x \in Executions
    PROVE  /\ \A k \in Kinds : /\ JobAfterSweep[x][k].status \in {job[x][k].status, "outcome_unknown"}
                               /\ job[x][k].status = "none" => JobAfterSweep[x][k].status = "none"
           /\ (\A k \in ExternalKinds : ~Swept(x, k)) =>
                 JobAfterSweep[x] = job[x] /\ ExecAfterSweep[x] = exec[x]
           /\ \A k \in ExternalKinds : Swept(x, k) =>
                 /\ Stage(job[x]) = k
                 /\ ExecAfterSweep[x] = "outcome_unknown"
                 /\ JobAfterSweep[x][k].status = "outcome_unknown"
                 /\ \A y \in Kinds \ {k} : JobAfterSweep[x][y] = job[x][y]
                 /\ \A y \in {"processing", "agent_turn"} \ {k} : job[x][y].status = "none"
<1>1. job \in [Executions -> [Kinds -> JobRow]] /\ exec \in [Executions -> ExecutionStatus]
  BY DEF IInv, TypeOK
<1>2. \A k \in Kinds : job[x][k] \in JobRow
  BY <1>1
<1>3. \A row \in JobRow : [row EXCEPT !.status = "outcome_unknown"].status = "outcome_unknown"
  BY DEF JobRow
<1>4. ASSUME NEW k \in ExternalKinds, Swept(x, k)
      PROVE  /\ Stage(job[x]) = k
             /\ \A y \in {"processing", "agent_turn"} \ {k} : job[x][y].status = "none"
  BY <1>4, OpenAlone DEF Swept, ExternalKinds
<1>5. \A k \in Kinds : Swept(x, k) => k \in ExternalKinds
  BY DEF Swept
<1>6. ExternalKinds \subseteq Kinds /\ ExternalKinds = {"processing", "agent_turn"}
  BY DEF ExternalKinds, Kinds
<1>7. ASSUME \A k \in ExternalKinds : ~Swept(x, k)
      PROVE  JobAfterSweep[x] = job[x] /\ ExecAfterSweep[x] = exec[x]
  BY <1>1, <1>5, <1>7 DEF JobAfterSweep, ExecAfterSweep
<1>8. ASSUME NEW k \in ExternalKinds, Swept(x, k)
      PROVE  /\ ExecAfterSweep[x] = "outcome_unknown"
             /\ JobAfterSweep[x][k].status = "outcome_unknown"
             /\ \A y \in Kinds \ {k} : JobAfterSweep[x][y] = job[x][y]
  <2>1. \A y \in Kinds \ {k} : ~Swept(x, y)
    BY <1>4, <1>5, <1>6, <1>8 DEF Swept
  <2> QED BY <1>2, <1>3, <1>6, <1>8, <2>1 DEF JobAfterSweep, ExecAfterSweep
<1>9. \A k \in Kinds : /\ JobAfterSweep[x][k].status \in {job[x][k].status, "outcome_unknown"}
                       /\ job[x][k].status = "none" => JobAfterSweep[x][k].status = "none"
  BY <1>2, <1>3 DEF JobAfterSweep, Swept
<1> QED BY <1>4, <1>7, <1>8, <1>9

\* What the sweep leaves is told
LEMMA SweptTold ==
    ASSUME IInv, ToldInv, NEW x \in Executions,
           job'[x] = JobAfterSweep[x], exec'[x] = ExecAfterSweep[x]
    PROVE  Told(job'[x], exec'[x])
<1>1. CASE \A k \in ExternalKinds : ~Swept(x, k)
  <2>1. job'[x] = job[x] /\ exec'[x] = exec[x]
    BY <1>1, SweepTold
  <2> QED BY <2>1, ToldSame
<1>2. ASSUME NEW k \in ExternalKinds, Swept(x, k)
      PROVE  Told(job'[x], exec'[x])
  <2>1. /\ exec'[x] = "outcome_unknown" /\ job'[x][k].status = "outcome_unknown"
        /\ \A y \in Kinds \ {k} : job'[x][y] = job[x][y]
        /\ \A y \in {"processing", "agent_turn"} \ {k} : job[x][y].status = "none"
    BY <1>2, SweepTold
  <2>2. \A y \in {"processing", "agent_turn"} \ {k} : job'[x][y].status = "none"
    BY <2>1 DEF Kinds
  <2>3. Tells(exec'[x], k, job'[x][k].status)
    BY <2>1 DEF Tells, TerminalJob
  <2> QED BY <2>2, <2>3, ToldMoved DEF ExternalKinds
<1> QED BY <1>1, <1>2

LEMMA PollTold ==
    ASSUME IInv, ToldInv, NEW w \in Workers, Poll(w)
    PROVE  ToldInv'
<1>1. ASSUME NEW k \in KindsOf(w), ClaimNothing(w, k)
      PROVE  ToldInv'
  BY <1>1, SweptTold DEF ClaimNothing, ToldInv
<1>2. ASSUME NEW k \in KindsOf(w), NEW e \in Executions, Claim(w, k, e),
             NEW x \in Executions
      PROVE  Told(job'[x], exec'[x])
  <2>0. k \in Kinds /\ {"route", "processing", "agent_turn", "hermes_delivery_prep"} \subseteq Kinds
    BY DEF KindsOf, Kinds
  <2>1. /\ JobAfterSweep \in [Executions -> [Kinds -> JobRow]]
        /\ ExecAfterSweep \in [Executions -> ExecutionStatus]
    BY SweepType DEF IInv
  <2>2. CASE x # e
    <3>1. job'[x] = JobAfterSweep[x] /\ exec'[x] = ExecAfterSweep[x]
      BY <1>2, <2>1, <2>2 DEF Claim
    <3> QED BY <3>1, SweptTold
  <2>3. CASE x = e
    <3>1. NewlyClaimed(job[e][k]).status = "claimed"
      BY <2>0 DEF NewlyClaimed, IInv, TypeOK, JobRow
    <3>2. /\ job'[e][k].status = "claimed"
          /\ \A y \in Kinds \ {k} : job'[e][y] = JobAfterSweep[e][y]
          /\ exec'[e] = IF k = "route" THEN "routing" ELSE "processing"
      BY <1>2, <2>0, <2>1, <3>1 DEF Claim
    <3>3. CASE k = "hermes_delivery_prep"
      BY <2>3, <3>2, <3>3 DEF Told
    <3>4. CASE k # "hermes_delivery_prep"
      <4>1. k \in {"route", "processing", "agent_turn"}
        BY <2>0, <3>4 DEF Kinds
      <4>2. job[e][k].status \in {"pending", "claimed"}
        BY <1>2 DEF Claim, Claimable
      <4>3. \A y \in {"processing", "agent_turn"} \ {k} : job[e][y].status = "none"
        BY <4>1, <4>2, OpenAlone
      <4>4. \A y \in {"processing", "agent_turn"} \ {k} : job'[e][y].status = "none"
        BY <2>0, <3>2, <4>3, SweepTold
      <4>5. Tells(exec'[e], k, job'[e][k].status)
        BY <3>2 DEF Tells, TerminalJob
      <4> QED BY <2>3, <4>1, <4>4, <4>5, ToldMoved
    <3> QED BY <3>3, <3>4
  <2> QED BY <2>2, <2>3
<1>3. ASSUME NEW k \in KindsOf(w), NEW e \in Executions, Claim(w, k, e)
      PROVE  ToldInv'
  BY <1>2, <1>3 DEF ToldInv
<1> QED BY <1>1, <1>3 DEF Poll

\* A job of execution e that w holds, delivery preparation aside, is the last one
LEMMA OwnedAlone ==
    ASSUME IInv, NEW w \in Workers, worker[w].pc # "idle", Owns(w)
    PROVE  /\ worker[w].exec \in Executions /\ worker[w].kind \in Kinds
           /\ job[worker[w].exec][worker[w].kind].status = "claimed"
           /\ worker[w].kind # "hermes_delivery_prep" =>
                 /\ worker[w].kind \in {"route", "processing", "agent_turn"}
                 /\ Stage(job[worker[w].exec]) = worker[w].kind
                 /\ \A y \in {"processing", "agent_turn"} \ {worker[w].kind} :
                       job[worker[w].exec][y].status = "none"
BY Busy, OpenAlone DEF Owns, Kinds

LEMMA SettleTold ==
    ASSUME IInv, ToldInv, NEW w \in Workers, NEW outcomes, NEW s \in TerminalJob,
           Settles(w, outcomes, s)
    PROVE  ToldInv'
<1> SUFFICES ASSUME NEW x \in Executions PROVE Told(job'[x], exec'[x])
  BY DEF ToldInv
<1>1. worker[w].pc # "idle" /\ Owns(w)
  BY DEF Settles, Commits
<1>2. PICK e \in Executions, k \in Kinds : worker[w].exec = e /\ worker[w].kind = k
  BY <1>1, OwnedAlone
<1>3. /\ job \in [Executions -> [Kinds -> JobRow]] /\ exec \in [Executions -> ExecutionStatus]
      /\ {"route", "processing", "agent_turn", "hermes_delivery_prep"} \subseteq Kinds
  BY DEF IInv, TypeOK, Kinds
<1>4. /\ job' = [job EXCEPT ![e][k].status = s] /\ exec' = [exec EXCEPT ![e] = s]
  BY <1>2 DEF Settles
<1>5. CASE x # e
  <2>1. job'[x] = job[x] /\ exec'[x] = exec[x]
    BY <1>3, <1>4, <1>5
  <2> QED BY <2>1, ToldSame
<1>6. CASE x = e
  <2>1. job[e][k] \in JobRow
    BY <1>3
  <2>2. [job[e][k] EXCEPT !.status = s].status = s
    BY <2>1 DEF JobRow
  <2>3. /\ job'[e][k].status = s /\ exec'[e] = s
        /\ \A y \in Kinds \ {k} : job'[e][y] = job[e][y]
    BY <1>3, <1>4, <2>2
  <2>4. CASE k = "hermes_delivery_prep"
    BY <1>6, <2>3, <2>4 DEF Told, TerminalJob
  <2>5. CASE k # "hermes_delivery_prep"
    <3>1. k \in {"route", "processing", "agent_turn"}
      BY <2>5 DEF Kinds
    <3>2. \A y \in {"processing", "agent_turn"} \ {k} : job'[e][y].status = "none"
      BY <1>1, <1>2, <1>3, <2>3, <2>5, OwnedAlone
    <3>3. Tells(exec'[e], k, job'[e][k].status)
      BY <2>3 DEF Tells, TerminalJob
    <3> QED BY <1>6, <3>1, <3>2, <3>3, ToldMoved
  <2> QED BY <2>4, <2>5
<1> QED BY <1>5, <1>6

LEMMA SuccessorTold ==
    ASSUME IInv, ToldInv, NEW w \in Workers, NEW outcomes,
           NEW k \in {"processing", "agent_turn"}, Succeeds(w, outcomes, k)
    PROVE  ToldInv'
<1> SUFFICES ASSUME NEW x \in Executions PROVE Told(job'[x], exec'[x])
  BY DEF ToldInv
<1>1. worker[w].pc # "idle" /\ Owns(w) /\ worker[w].kind = "route"
  BY DEF Succeeds, Commits
<1>2. PICK e \in Executions : worker[w].exec = e
  BY <1>1, OwnedAlone
<1>3. /\ job \in [Executions -> [Kinds -> JobRow]] /\ exec \in [Executions -> ExecutionStatus]
      /\ {"route", "processing", "agent_turn", "hermes_delivery_prep"} \subseteq Kinds
  BY DEF IInv, TypeOK, Kinds
<1>4. CASE x # e
  <2>1. job'[x] = job[x] /\ exec'[x] = exec[x]
    BY <1>2, <1>3, <1>4 DEF Succeeds
  <2> QED BY <2>1, ToldSame
<1>5. CASE x = e
  <2>1. /\ job'[e][k] = NewRow /\ exec'[e] = "processing_pending"
        /\ \A y \in Kinds \ {"route", k} : job'[e][y] = job[e][y]
    BY <1>2, <1>3 DEF Succeeds
  <2>2. \A y \in {"processing", "agent_turn"} \ {k} : job'[e][y].status = "none"
    BY <1>1, <1>2, <1>3, <2>1, OwnedAlone
  <2>3. Tells(exec'[e], k, job'[e][k].status)
    BY <2>1 DEF Tells, TerminalJob, NewRow, NoRow
  <2> QED BY <1>5, <2>2, <2>3, ToldMoved
<1> QED BY <1>4, <1>5

LEMMA DeferTold ==
    ASSUME IInv, ToldInv, NEW w \in Workers, DeferJob(w)
    PROVE  ToldInv'
<1> SUFFICES ASSUME NEW x \in Executions PROVE Told(job'[x], exec'[x])
  BY DEF ToldInv
<1>1. worker[w].pc # "idle" /\ Owns(w) /\ worker[w].out = "deferred"
  BY DEF DeferJob, Commits
<1>2. PICK e \in Executions, k \in Kinds : worker[w].exec = e /\ worker[w].kind = k
  BY <1>1, OwnedAlone
<1>3. /\ job \in [Executions -> [Kinds -> JobRow]] /\ exec \in [Executions -> ExecutionStatus]
      /\ {"route", "processing", "agent_turn", "hermes_delivery_prep"} \subseteq Kinds
  BY DEF IInv, TypeOK, Kinds
<1>4. k \in {"processing", "agent_turn"}
  BY <1>1, <1>2 DEF IInv, FramesInv, FrameOK, ExternalKinds
<1>5. CASE x # e
  <2>1. job'[x] = job[x] /\ exec'[x] = exec[x]
    BY <1>2, <1>3, <1>5 DEF DeferJob
  <2> QED BY <2>1, ToldSame
<1>6. CASE x = e
  <2>1. /\ job'[e][k] = Requeued(job[e][k])
        /\ \A y \in Kinds \ {k} : job'[e][y] = job[e][y]
        /\ exec'[e] = IF exec[e] \in TerminalJob \cup {"processing", "routing"}
                      THEN exec[e] ELSE "processing_pending"
    BY <1>2, <1>3, <1>4 DEF DeferJob
  <2>2. job'[e][k].status = "pending"
    BY <1>3, <2>1 DEF Requeued, JobRow
  <2>3. /\ \A y \in {"processing", "agent_turn"} \ {k} : job'[e][y].status = "none"
        /\ Stage(job[e]) = k /\ job[e][k].status = "claimed"
    BY <1>1, <1>2, <1>3, <1>4, <2>1, OwnedAlone
  <2>4. CASE job[e]["hermes_delivery_prep"].status # "none"
    BY <1>4, <1>6, <2>1, <2>4 DEF Told, Kinds
  <2>5. CASE job[e]["hermes_delivery_prep"].status = "none"
    <3>1. exec[e] # "none"
      BY <1>4, <2>3, OpenAlone
    <3>2. exec[e] = "processing"
      BY <1>4, <2>3, <2>5, <3>1 DEF ToldInv, Told, Tells
    <3>3. Tells(exec'[e], k, job'[e][k].status)
      BY <1>4, <2>1, <2>2, <3>2 DEF Tells, TerminalJob
    <3> QED BY <1>4, <1>6, <2>3, <3>3, ToldMoved
  <2> QED BY <2>4, <2>5
<1> QED BY <1>5, <1>6

LEMMA EndClaimTold ==
    ASSUME IInv, ToldInv, NEW w \in Workers, EndClaim(w)
    PROVE  ToldInv'
<1>1. CASE CompleteRoute(w)
  <2>1. Succeeds(w, {"completed"}, "processing")
    BY <1>1 DEF CompleteRoute, Succeeds
  <2> QED BY <2>1, SuccessorTold
<1>2. CASE CompleteClassificationOnly(w)
  <2>1. Settles(w, {"completed"}, "completed")
    BY <1>2 DEF CompleteClassificationOnly, Settles
  <2> QED BY <2>1, SettleTold DEF TerminalJob
<1>3. CASE HandOffToHermesAgent(w, TRUE)
  <2>1. Succeeds(w, {"completed"}, "agent_turn")
    BY <1>3 DEF HandOffToHermesAgent, Succeeds
  <2> QED BY <2>1, SuccessorTold
<1>4. CASE HandOffToHermesAgent(w, FALSE)
  <2> DEFINE e == worker[w].exec
  <2>1. e \in Executions /\ {"route", "agent_turn"} \subseteq Kinds
    BY <1>4, Busy DEF HandOffToHermesAgent, Commits, Kinds
  <2>2. job' = [job EXCEPT ![e]["route"].status = "completed"]
    BY <1>4, <2>1 DEF HandOffToHermesAgent, IInv, TypeOK
  <2>3. Settles(w, {"completed"}, "completed")
    BY <1>4, <2>2 DEF HandOffToHermesAgent, Settles
  <2> QED BY <2>3, SettleTold DEF TerminalJob
<1>5. CASE CompleteProcessing(w)
  <2>1. worker[w].out \in TerminalJob
    BY <1>5 DEF CompleteProcessing, Commits, TerminalJob
  <2>2. Settles(w, {"completed", "human_review"}, worker[w].out)
    BY <1>5 DEF CompleteProcessing, Settles
  <2>3. PICK s \in TerminalJob : s = worker[w].out
    BY <2>1
  <2> QED BY <2>2, <2>3, SettleTold
<1>6. CASE FailJob(w)
  <2>1. PICK s \in TerminalJob : Settles(w, {"failed", "outcome_unknown", "exception"}, s)
    BY <1>6 DEF FailJob, Settles, TerminalJob
  <2> QED BY <2>1, SettleTold
<1>7. CASE DeferJob(w)
  BY <1>7, DeferTold
<1>8. CASE LoseClaim(w)
  BY <1>8, ToldSame DEF LoseClaim, ToldInv
<1> QED BY <1>1, <1>2, <1>3, <1>4, <1>5, <1>6, <1>7, <1>8 DEF EndClaim

\* Leases, marks and the steps of a frame leave every status alone
LEMMA QuietStep ==
    ASSUME IInv,
           \/ \E e \in Executions, k \in Kinds : LeaseRunsOut(e, k)
           \/ \E w \in Workers : \/ OwnerStalls(w) \/ Renew(w) \/ BeforeExternal(w)
                                 \/ MarkExternalStarted(w)
    PROVE  /\ exec' = exec
           /\ \A x \in Executions, y \in Kinds : job'[x][y].status = job[x][y].status
<1>1. job \in [Executions -> [Kinds -> JobRow]]
  BY DEF IInv, TypeOK
<1>2. \A row \in JobRow :
         /\ \A l \in {"live", "expired"} : [row EXCEPT !.lease = l].status = row.status
         /\ [row EXCEPT !.external = TRUE].status = row.status
  BY DEF JobRow
<1>3. ASSUME NEW e \in Executions, NEW k \in Kinds, LeaseRunsOut(e, k)
      PROVE  /\ exec' = exec
             /\ \A x \in Executions, y \in Kinds : job'[x][y].status = job[x][y].status
  BY <1>1, <1>2, <1>3 DEF LeaseRunsOut
<1>4. ASSUME NEW w \in Workers, worker[w].pc # "idle",
             NEW l \in {"live", "expired"},
             \/ job' = [job EXCEPT ![worker[w].exec][worker[w].kind].lease = l]
             \/ job' = [job EXCEPT ![worker[w].exec][worker[w].kind].external = TRUE]
             \/ job' = job
      PROVE  \A x \in Executions, y \in Kinds : job'[x][y].status = job[x][y].status
  <2>1. PICK e \in Executions, k \in Kinds : worker[w].exec = e /\ worker[w].kind = k
    BY <1>4, Busy
  <2>2. \/ job' = [job EXCEPT ![e][k].lease = l]
        \/ job' = [job EXCEPT ![e][k].external = TRUE]
        \/ job' = job
    BY <1>4, <2>1
  <2> SUFFICES ASSUME NEW x \in Executions, NEW y \in Kinds
               PROVE  job'[x][y].status = job[x][y].status
    OBVIOUS
  <2>3. job[e][k] \in JobRow
    BY <1>1
  <2>4. CASE job' = [job EXCEPT ![e][k].lease = l]
    <3>1. job'[e][k].status = job[e][k].status
      BY <1>1, <1>2, <2>3, <2>4
    <3> QED BY <1>1, <2>4, <3>1
  <2>5. CASE job' = [job EXCEPT ![e][k].external = TRUE]
    <3>1. job'[e][k].status = job[e][k].status
      BY <1>1, <1>2, <2>3, <2>5
    <3> QED BY <1>1, <2>5, <3>1
  <2> QED BY <2>2, <2>4, <2>5
<1>5. ASSUME NEW w \in Workers, \/ OwnerStalls(w) \/ Renew(w) \/ BeforeExternal(w)
                                \/ MarkExternalStarted(w)
      PROVE  /\ exec' = exec
             /\ \A x \in Executions, y \in Kinds : job'[x][y].status = job[x][y].status
  BY <1>4, <1>5 DEF OwnerStalls, Renew, Working, BeforeExternal, MarkExternalStarted
<1> QED BY <1>3, <1>5

LEMMA ToldStep == IInv /\ ToldInv /\ [Next]_vars => ToldInv'
<1> SUFFICES ASSUME IInv, ToldInv, [Next]_vars
             PROVE  ToldInv'
  OBVIOUS
<1>1. ASSUME job' = job, exec' = exec
      PROVE  ToldInv'
  BY <1>1, ToldSame DEF ToldInv
<1>2. CASE \/ \E e \in Executions, k \in Kinds : LeaseRunsOut(e, k)
           \/ \E w \in Workers : \/ OwnerStalls(w) \/ Renew(w) \/ BeforeExternal(w)
                                 \/ MarkExternalStarted(w)
  BY <1>2, QuietStep, ToldSame DEF ToldInv
<1>3. ASSUME NEW w \in Workers, ProcessorReturns(w) \/ RaiseError(w) \/ Crash(w)
                                \/ RecordInProgress(w) \/ ExternalCall(w) \/ RecordOutcome(w)
      PROVE  ToldInv'
  BY <1>1, <1>3 DEF ProcessorReturns, Return, RaiseError, Crash, RecordInProgress,
     ExternalCall, RecordOutcome
<1>4. CASE UNCHANGED vars
  BY <1>1, <1>4 DEF vars
<1> QED BY <1>2, <1>3, <1>4, SourcesTold, PollTold, EndClaimTold DEF Next, Advance

\* The execution says what its last job says: terminal what it ended with, and
\* otherwise the stage it is in
THEOREM MatchingJobs == Spec => []ExecutionMatchesJobs
<1>1. Init => ToldInv
  BY DEF Init, ToldInv, Told
<1> QED BY <1>1, ToldStep, ToldMatches, Invariance, PTL DEF Spec
=============================================================================
