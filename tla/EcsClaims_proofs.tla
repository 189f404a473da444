--------------------------- MODULE EcsClaims_proofs ---------------------------
(***************************************************************************)
(* EcsJobs implements ClaimedJobs.  Each transaction is matched, row by    *)
(* row, with a move of the abstract job: the row it writes with the move   *)
(* that bears its name, a row it sweeps with Lapse, a successor it queues  *)
(* with Open, and every other row with none.  That a claim has one holder  *)
(* rests on FramesInv: a new claim carries a token no frame has.           *)
(***************************************************************************)
EXTENDS EcsJobs_proofs

\* The refinement mapping
jobs == Executions \X Kinds
statusOf == [j \in jobs |-> Reported(job[j[1]][j[2]].status)]
insideOf == [j \in jobs |-> {w \in Workers : Holds(w, j[1], j[2])}]
holdersOf == [j \in jobs |-> {w \in Workers : Holds(w, j[1], j[2]) /\ Owns(w)}]
markedOf == [j \in jobs |-> job[j[1]][j[2]].external]

\* The processes whose frames work for row k of e, and those the row knows
In(f, e, k) == f.pc # "idle" /\ f.exec = e /\ f.kind = k
Inside(frames, e, k) == {w \in Workers : In(frames[w], e, k)}
Holders(row, frames, e, k) ==
    {w \in Workers : /\ In(frames[w], e, k)
                     /\ row.status = "claimed" /\ row.token = frames[w].token}

\* What happens to one row: nothing the abstract job can see, or one of its moves
Moved(e, k) == Claims!Stays(<<e, k>>) \/ Claims!Moves(<<e, k>>)

Written(e, k, s, i, h) ==
    /\ Reported(job'[e][k].status) = s
    /\ Inside(worker', e, k) = i
    /\ Holders(job'[e][k], worker', e, k) = h
KeepsMark(e, k) == job'[e][k].external = job[e][k].external

------------------------------------------------------------------------------
(* The abstract moves, in terms of the rows and frames *)

LEMMA MappedNow ==
    ASSUME NEW e \in Executions, NEW k \in Kinds
    PROVE  /\ statusOf[<<e, k>>] = Reported(job[e][k].status)
           /\ insideOf[<<e, k>>] = Inside(worker, e, k)
           /\ holdersOf[<<e, k>>] = Holders(job[e][k], worker, e, k)
           /\ markedOf[<<e, k>>] = job[e][k].external
<1>0. <<e, k>> \in jobs
  BY DEF jobs
<1>1. insideOf[<<e, k>>] = Inside(worker, e, k)
  BY <1>0 DEF insideOf, Inside, In, Holds
<1>2. holdersOf[<<e, k>>] = Holders(job[e][k], worker, e, k)
  BY <1>0 DEF holdersOf, Holders, In, Holds, Owns
<1> QED BY <1>0, <1>1, <1>2 DEF statusOf, markedOf

LEMMA MappedNext ==
    ASSUME NEW e \in Executions, NEW k \in Kinds
    PROVE  /\ statusOf'[<<e, k>>] = Reported(job'[e][k].status)
           /\ insideOf'[<<e, k>>] = Inside(worker', e, k)
           /\ holdersOf'[<<e, k>>] = Holders(job'[e][k], worker', e, k)
           /\ markedOf'[<<e, k>>] = job'[e][k].external
<1>0. <<e, k>> \in jobs
  BY DEF jobs
<1>1. insideOf'[<<e, k>>] = Inside(worker', e, k)
  BY <1>0 DEF insideOf, Inside, In, Holds
<1>2. holdersOf'[<<e, k>>] = Holders(job'[e][k], worker', e, k)
  BY <1>0 DEF holdersOf, Holders, In, Holds, Owns
<1> QED BY <1>0, <1>1, <1>2 DEF statusOf, markedOf

LEMMA WrittenSeen ==
    ASSUME NEW e \in Executions, NEW k \in Kinds, NEW s, NEW i, NEW h, Written(e, k, s, i, h)
    PROVE  Claims!Becomes(<<e, k>>, s, i, h)
<1>1. statusOf'[<<e, k>>] = s /\ insideOf'[<<e, k>>] = i /\ holdersOf'[<<e, k>>] = h
  BY MappedNext DEF Written
<1> QED BY <1>1 DEF Claims!Becomes, statusOf, insideOf, holdersOf, jobs

LEMMA MarkSeen ==
    ASSUME NEW e \in Executions, NEW k \in Kinds, KeepsMark(e, k)
    PROVE  Claims!SameMark(<<e, k>>)
<1>1. markedOf'[<<e, k>>] = markedOf[<<e, k>>]
  BY MappedNow, MappedNext DEF KeepsMark
<1> QED BY <1>1 DEF Claims!SameMark, markedOf, jobs

LEMMA NoMove ==
    ASSUME NEW e \in Executions, NEW k \in Kinds, KeepsMark(e, k),
           Written(e, k, Reported(job[e][k].status), Inside(worker, e, k),
                       Holders(job[e][k], worker, e, k))
    PROVE  Moved(e, k)
<1>1. Claims!Becomes(<<e, k>>, statusOf[<<e, k>>], insideOf[<<e, k>>], holdersOf[<<e, k>>])
  BY WrittenSeen, MappedNow
<1>2. Claims!Stays(<<e, k>>)
  BY <1>1, MarkSeen DEF Claims!Stays, statusOf, insideOf, holdersOf, jobs
<1> QED BY <1>2 DEF Moved

LEMMA OpenMove ==
    ASSUME NEW e \in Executions, NEW k \in Kinds, KeepsMark(e, k),
           job[e][k].status = "none", Inside(worker, e, k) = {},
           Written(e, k, "queued", {}, {})
    PROVE  Moved(e, k)
<1>1. statusOf[<<e, k>>] = "none" /\ insideOf[<<e, k>>] = {}
  BY MappedNow DEF Reported
<1>2. Claims!Open(<<e, k>>)
  BY <1>1, WrittenSeen, MarkSeen DEF Claims!Open, statusOf, insideOf, jobs
<1> QED BY <1>2 DEF Claims!Moves, Moved

LEMMA ClaimMove ==
    ASSUME NEW e \in Executions, NEW k \in Kinds, NEW w \in Workers, KeepsMark(e, k),
           \/ job[e][k].status = "pending"
           \/ job[e][k].status = "claimed" /\ ~job[e][k].external,
           worker[w].pc = "idle",
           Written(e, k, "claimed", Inside(worker, e, k) \cup {w}, {w})
    PROVE  Moved(e, k)
<1>1. \/ statusOf[<<e, k>>] = "queued"
      \/ statusOf[<<e, k>>] = "claimed" /\ ~markedOf[<<e, k>>]
  BY MappedNow DEF Reported
<1>2. \A j \in jobs : w \notin insideOf[j]
  BY DEF insideOf, Holds
<1>3. Claims!Becomes(<<e, k>>, "claimed", insideOf[<<e, k>>] \cup {w}, {w})
  BY WrittenSeen, MappedNow
<1>4. Claims!Claim(<<e, k>>, w)
  BY <1>1, <1>2, <1>3, MarkSeen DEF Claims!Claim, statusOf, insideOf, markedOf, jobs
<1> QED BY <1>4 DEF Claims!Moves, Moved

LEMMA MarkMove ==
    ASSUME NEW e \in Executions, NEW k \in Kinds,
           Holders(job[e][k], worker, e, k) # {},
           Written(e, k, Reported(job[e][k].status), Inside(worker, e, k),
                       Holders(job[e][k], worker, e, k)),
           job'[e][k].external = TRUE
    PROVE  Moved(e, k)
<1>1. /\ holdersOf[<<e, k>>] # {}
      /\ Claims!Becomes(<<e, k>>, statusOf[<<e, k>>], insideOf[<<e, k>>], holdersOf[<<e, k>>])
      /\ markedOf'[<<e, k>>] = TRUE
  BY WrittenSeen, MappedNow, MappedNext
<1>2. Claims!Mark(<<e, k>>)
  BY <1>1 DEF Claims!Mark, statusOf, insideOf, holdersOf, markedOf, jobs
<1> QED BY <1>2 DEF Claims!Moves, Moved

LEMMA SettleMove ==
    ASSUME NEW e \in Executions, NEW k \in Kinds, NEW w \in Workers, KeepsMark(e, k),
           w \in Holders(job[e][k], worker, e, k),
           NEW s \in {"queued", "completed", "ended"},
           Written(e, k, s, Inside(worker, e, k) \ {w}, {})
    PROVE  Moved(e, k)
<1>1. w \in holdersOf[<<e, k>>]
  BY MappedNow
<1>2. Claims!Becomes(<<e, k>>, s, insideOf[<<e, k>>] \ {w}, {})
  BY WrittenSeen, MappedNow
<1>3. Claims!Settle(<<e, k>>, w)
  BY <1>1, <1>2, MarkSeen DEF Claims!Settle, insideOf, holdersOf, jobs
<1> QED BY <1>3 DEF Claims!Moves, Moved

LEMMA LeaveMove ==
    ASSUME NEW e \in Executions, NEW k \in Kinds, NEW w \in Workers, KeepsMark(e, k),
           Written(e, k, Reported(job[e][k].status), Inside(worker, e, k) \ {w},
                       Holders(job[e][k], worker, e, k) \ {w})
    PROVE  Moved(e, k)
<1>1. Claims!Becomes(<<e, k>>, statusOf[<<e, k>>], insideOf[<<e, k>>] \ {w},
                     holdersOf[<<e, k>>] \ {w})
  BY WrittenSeen, MappedNow
<1>2. Claims!Leave(<<e, k>>, w)
  BY <1>1, MarkSeen DEF Claims!Leave, statusOf, insideOf, holdersOf, jobs
<1> QED BY <1>2 DEF Claims!Moves, Moved

LEMMA LapseMove ==
    ASSUME NEW e \in Executions, NEW k \in Kinds, KeepsMark(e, k),
           job[e][k].status = "claimed", job[e][k].external = TRUE,
           Written(e, k, "ended", Inside(worker, e, k), {})
    PROVE  Moved(e, k)
<1>1. /\ statusOf[<<e, k>>] = "claimed" /\ markedOf[<<e, k>>] = TRUE
      /\ Claims!Becomes(<<e, k>>, "ended", insideOf[<<e, k>>], {})
  BY WrittenSeen, MappedNow DEF Reported
<1>2. Claims!Lapse(<<e, k>>)
  BY <1>1, MarkSeen DEF Claims!Lapse, statusOf, insideOf, markedOf, jobs
<1> QED BY <1>2 DEF Claims!Moves, Moved

LEMMA RequestMove ==
    ASSUME NEW e \in Executions, NEW k \in Kinds, KeepsMark(e, k),
           k = "hermes_delivery_prep", job[e][k].status \notin {"none", "completed"},
           Written(e, k, "queued", Inside(worker, e, k), {})
    PROVE  Moved(e, k)
<1>1. /\ statusOf[<<e, k>>] \notin {"none", "completed"}
      /\ Claims!Becomes(<<e, k>>, "queued", insideOf[<<e, k>>], {})
  BY WrittenSeen, MappedNow DEF Reported
<1>2. <<e, k>> \in Executions \X {"hermes_delivery_prep"}
  OBVIOUS
<1>3. Claims!Request(<<e, k>>)
  BY <1>1, <1>2, MarkSeen DEF Claims!Request, statusOf, insideOf, jobs
<1> QED BY <1>3 DEF Claims!Moves, Moved

------------------------------------------------------------------------------
(* A transaction is a step of the abstract jobs when it moves each row like that *)

LEMMA ToldType == \A s \in JobStatus : Reported(s) \in Claims!Status
BY DEF Reported, JobStatus, TerminalJob, Claims!Status

LEMMA AllMoved ==
    ASSUME TypeOK', \A e \in Executions, k \in Kinds : Moved(e, k)
    PROVE  Claims!Next
<1>1. \A e \in Executions, k \in Kinds :
         job'[e][k].status \in JobStatus /\ job'[e][k].external \in BOOLEAN
  BY DEF TypeOK, JobRow
<1>2. \A j \in jobs : Reported(job'[j[1]][j[2]].status) \in Claims!Status
  BY <1>1, ToldType DEF jobs
<1>3. statusOf' \in [jobs -> Claims!Status]
  BY <1>2 DEF statusOf
<1>4. insideOf' \in [jobs -> SUBSET Workers] /\ holdersOf' \in [jobs -> SUBSET Workers]
  BY DEF insideOf, holdersOf
<1>5. markedOf' \in [jobs -> BOOLEAN]
  BY <1>1 DEF markedOf, jobs
<1>6. Claims!TypeOK'
  BY <1>3, <1>4, <1>5 DEF Claims!TypeOK, statusOf, insideOf, holdersOf, markedOf, jobs
<1>7. ASSUME NEW j \in Executions \X Kinds
      PROVE  Claims!Stays(j) \/ Claims!Moves(j)
  <2>1. PICK e \in Executions, k \in Kinds : j = <<e, k>>
    OBVIOUS
  <2> QED BY <2>1 DEF Moved
<1> QED BY <1>6, <1>7 DEF Claims!Next

------------------------------------------------------------------------------
(* What a step does to the row and to the frames that work for it *)

RowKept(e, k) ==
    /\ job'[e][k].status = job[e][k].status
    /\ job'[e][k].token = job[e][k].token
    /\ job'[e][k].external = job[e][k].external

\* v works for the row after the step as before it
FrameKept(v, e, k) ==
    /\ In(worker'[v], e, k) <=> In(worker[v], e, k)
    /\ In(worker[v], e, k) => worker'[v].token = worker[v].token

FramesKept(e, k) == \A v \in Workers : FrameKept(v, e, k)

\* w does not work for the row any more, and nothing else happens
LeftBy(w, e, k) ==
    /\ ~In(worker'[w], e, k)
    /\ \A v \in Workers \ {w} : FrameKept(v, e, k)

LEMMA InsideKept ==
    ASSUME NEW e \in Executions, NEW k \in Kinds, FramesKept(e, k)
    PROVE  Inside(worker', e, k) = Inside(worker, e, k)
BY DEF FramesKept, FrameKept, Inside

LEMMA InsideLeft ==
    ASSUME NEW e \in Executions, NEW k \in Kinds, NEW w \in Workers, LeftBy(w, e, k)
    PROVE  Inside(worker', e, k) = Inside(worker, e, k) \ {w}
BY DEF LeftBy, FrameKept, Inside

LEMMA NobodyHolds ==
    ASSUME NEW row, NEW frames, NEW e, NEW k, row.status # "claimed"
    PROVE  Holders(row, frames, e, k) = {}
BY DEF Holders

LEMMA KeptMoves ==
    ASSUME NEW e \in Executions, NEW k \in Kinds, FramesKept(e, k), RowKept(e, k)
    PROVE  Moved(e, k)
<1>1. Holders(job'[e][k], worker', e, k) = Holders(job[e][k], worker, e, k)
  BY DEF FramesKept, FrameKept, RowKept, Holders
<1> QED BY <1>1, InsideKept, NoMove DEF RowKept, Written, KeepsMark

LEMMA LeftMoves ==
    ASSUME NEW e \in Executions, NEW k \in Kinds, NEW w \in Workers,
           LeftBy(w, e, k), RowKept(e, k)
    PROVE  Moved(e, k)
<1>1. Holders(job'[e][k], worker', e, k) = Holders(job[e][k], worker, e, k) \ {w}
  BY DEF LeftBy, FrameKept, RowKept, Holders
<1> QED BY <1>1, InsideLeft, LeaveMove DEF RowKept, Written, KeepsMark

\* The frame of w goes on with its claim, or becomes idle
LEMMA GoesOn ==
    ASSUME TypeOK, NEW w \in Workers, NEW f,
           worker' = [worker EXCEPT ![w] = f],
           worker[w].pc # "idle", f.pc # "idle",
           f.exec = worker[w].exec, f.kind = worker[w].kind, f.token = worker[w].token
    PROVE  \A e \in Executions, k \in Kinds : FramesKept(e, k)
BY DEF TypeOK, FramesKept, FrameKept, In

LEMMA Leaves ==
    ASSUME TypeOK, NEW w \in Workers, worker' = [worker EXCEPT ![w] = Idle]
    PROVE  \A e \in Executions, k \in Kinds : LeftBy(w, e, k)
BY DEF TypeOK, LeftBy, FrameKept, In, Idle

LEMMA StaysPut ==
    ASSUME worker' = worker
    PROVE  \A e \in Executions, k \in Kinds : FramesKept(e, k)
BY DEF FramesKept, FrameKept

LEMMA RowsPut ==
    ASSUME job' = job
    PROVE  \A e \in Executions, k \in Kinds : RowKept(e, k)
BY DEF RowKept

\* Only the lease of a row changes
LEMMA LeaseKept ==
    ASSUME TypeOK, NEW e \in Executions, NEW k \in Kinds, NEW l,
           job' = [job EXCEPT ![e][k].lease = l]
    PROVE  \A x \in Executions, y \in Kinds : RowKept(x, y)
<1>1. \A x \in Executions, y \in Kinds : job[x][y] \in JobRow
  BY DEF TypeOK
<1>2. job \in [Executions -> [Kinds -> JobRow]]
  BY DEF TypeOK
<1>3. [job[e][k] EXCEPT !.lease = l].status = job[e][k].status
      /\ [job[e][k] EXCEPT !.lease = l].token = job[e][k].token
      /\ [job[e][k] EXCEPT !.lease = l].external = job[e][k].external
  BY <1>1 DEF JobRow
<1> QED BY <1>2, <1>3 DEF RowKept

------------------------------------------------------------------------------
(* Steps that write no row, or only a lease *)

LEMMA FrameWorks ==
    ASSUME IInv, NEW w \in Workers, worker[w].pc # "idle"
    PROVE  /\ worker[w] \in Frame
           /\ worker[w].exec \in Executions /\ worker[w].kind \in Kinds
           /\ job[worker[w].exec][worker[w].kind] \in JobRow
BY Busy

\* g is a later frame of the claim of f
Continues(f, g) == /\ g.pc # "idle"
                   /\ g.exec = f.exec /\ g.kind = f.kind /\ g.token = f.token

LEMMA Continued ==
    ASSUME NEW f \in Frame, NEW p \in Place \ {"idle"}, NEW o \in Outcome
    PROVE  /\ Continues(f, [f EXCEPT !.pc = p])
           /\ Continues(f, [f EXCEPT !.pc = p, !.ext = TRUE])
           /\ Continues(f, [f EXCEPT !.out = o, !.pc = p])
<1>1. PICK g \in Frame : g = [f EXCEPT !.pc = p]
  BY FrameType
<1>2. PICK h \in Frame : h = [f EXCEPT !.pc = p, !.ext = TRUE]
  BY FrameType
<1>3. PICK i \in Frame : i = [f EXCEPT !.out = o, !.pc = p]
  BY FrameType
<1>4. Continues(f, g)
  BY <1>1 DEF Continues, Frame
<1>5. Continues(f, h)
  BY <1>2 DEF Continues, Frame
<1>6. Continues(f, i)
  BY <1>3 DEF Continues, Frame
<1> QED BY <1>1, <1>2, <1>3, <1>4, <1>5, <1>6

LEMMA RaiseContinues ==
    ASSUME NEW f \in Frame
    PROVE  Continues(f, Raise(f))
<1>1. PICK g \in Frame : g = Raise(f)
  BY FrameType
<1>2. Continues(f, g)
  BY <1>1 DEF Raise, Continues, Frame
<1> QED BY <1>1, <1>2

LEMMA FrameStepsMoved ==
    ASSUME IInv, NEW w \in Workers,
           \/ ProcessorReturns(w) \/ RaiseError(w) \/ RecordInProgress(w)
           \/ ExternalCall(w) \/ RecordOutcome(w) \/ LoseClaim(w) \/ Crash(w)
    PROVE  \A e \in Executions, k \in Kinds : Moved(e, k)
<1>1. job' = job
  BY DEF ProcessorReturns, Return, RaiseError, RecordInProgress, ExternalCall,
     RecordOutcome, LoseClaim, Crash
<1>2. worker[w].pc # "idle" /\ TypeOK
  BY DEF ProcessorReturns, Return, RaiseError, Working, RecordInProgress, ExternalCall,
     RecordOutcome, LoseClaim, Crash, IInv
<1>3. worker[w] \in Frame
  BY <1>2, FrameWorks
<1>4. ASSUME worker' = [worker EXCEPT ![w] = Idle]
      PROVE  \A e \in Executions, k \in Kinds : Moved(e, k)
  BY <1>1, <1>2, <1>4, Leaves, RowsPut, LeftMoves
<1>5. ASSUME NEW f, worker' = [worker EXCEPT ![w] = f], Continues(worker[w], f)
      PROVE  \A e \in Executions, k \in Kinds : Moved(e, k)
  BY <1>1, <1>2, <1>5, GoesOn, RowsPut, KeptMoves DEF Continues
<1>6. ASSUME worker' = [worker EXCEPT ![w] = Raise(worker[w])]
      PROVE  \A e \in Executions, k \in Kinds : Moved(e, k)
  BY <1>3, <1>5, <1>6, RaiseContinues
<1>7. CASE ProcessorReturns(w)
  <2>1. PICK o \in Outcome : Return(w, o)
    BY <1>7 DEF ProcessorReturns
  <2>2. PICK p \in Place \ {"idle"} :
           worker' = [worker EXCEPT ![w] = [worker[w] EXCEPT !.out = o, !.pc = p]]
    BY <2>1 DEF Return, SetWorker, Place
  <2> QED BY <1>3, <1>5, <2>2, Continued
<1>8. CASE RaiseError(w)
  BY <1>6, <1>8 DEF RaiseError, SetWorker
<1>9. CASE RecordInProgress(w) \/ ExternalCall(w) \/ RecordOutcome(w)
  <2>1. /\ "call" \in Place \ {"idle"} /\ "run" \in Place \ {"idle"}
        /\ "commit" \in Place \ {"idle"} /\ "none" \in Outcome
    BY DEF Place, Outcome
  <2>2. CASE RecordInProgress(w)
    BY <1>3, <1>5, <2>1, <2>2, Continued DEF RecordInProgress, SetWorker
  <2>3. CASE ExternalCall(w)
    BY <1>3, <1>5, <2>1, <2>3, Continued DEF ExternalCall, SetWorker
  <2>4. CASE RecordOutcome(w)
    BY <1>3, <1>5, <2>1, <2>4, Continued DEF RecordOutcome, SetWorker
  <2> QED BY <1>9, <2>2, <2>3, <2>4
<1>10. CASE LoseClaim(w)
  BY <1>4, <1>6, <1>10 DEF LoseClaim, SetWorker
<1>11. CASE Crash(w)
  BY <1>4, <1>11 DEF Crash, SetWorker
<1> QED BY <1>7, <1>8, <1>9, <1>10, <1>11

LEMMA LeaseStepsMoved ==
    ASSUME IInv, NEW w \in Workers, OwnerStalls(w) \/ Renew(w) \/ BeforeExternal(w)
    PROVE  \A e \in Executions, k \in Kinds : Moved(e, k)
<1>1. worker[w].pc # "idle" /\ TypeOK
  BY DEF OwnerStalls, Renew, Working, BeforeExternal, IInv
<1>2. /\ worker[w] \in Frame
      /\ worker[w].exec \in Executions /\ worker[w].kind \in Kinds
  BY <1>1, FrameWorks
<1>3. ASSUME NEW l, job' = [job EXCEPT ![worker[w].exec][worker[w].kind].lease = l]
      PROVE  \A e \in Executions, k \in Kinds : RowKept(e, k)
  BY <1>1, <1>2, <1>3, LeaseKept
<1>4. CASE OwnerStalls(w) \/ Renew(w)
  BY <1>3, <1>4, StaysPut, KeptMoves DEF OwnerStalls, Renew
<1>5. CASE BeforeExternal(w)
  <2>1. \A e \in Executions, k \in Kinds : RowKept(e, k)
    BY <1>3, <1>5, RowsPut DEF BeforeExternal
  <2>2. ASSUME NEW f, worker' = [worker EXCEPT ![w] = f], Continues(worker[w], f)
        PROVE  \A e \in Executions, k \in Kinds : Moved(e, k)
    BY <1>1, <2>1, <2>2, GoesOn, KeptMoves DEF Continues
  <2>3. CASE Owns(w)
    <3>1. PICK p \in Place \ {"idle"} :
             worker' = [worker EXCEPT ![w] = [worker[w] EXCEPT !.pc = p]]
      BY <1>5, <2>3 DEF BeforeExternal, SetWorker, Place
    <3>2. "none" \in Outcome
      BY DEF Outcome
    <3> QED BY <1>2, <2>2, <3>1, <3>2, Continued
  <2>4. CASE ~Owns(w)
    BY <1>2, <1>5, <2>2, <2>4, RaiseContinues DEF BeforeExternal, SetWorker
  <2> QED BY <2>3, <2>4
<1> QED BY <1>4, <1>5

LEMMA LeaseRunsOutMoved ==
    ASSUME IInv, NEW e \in Executions, NEW k \in Kinds, LeaseRunsOut(e, k)
    PROVE  \A x \in Executions, y \in Kinds : Moved(x, y)
BY LeaseKept, StaysPut, KeptMoves DEF LeaseRunsOut, IInv

------------------------------------------------------------------------------
(* Steps that insert a row or ask for one again *)

LEMMA Vacant ==
    ASSUME IInv, NEW e \in Executions, NEW k \in Kinds, job[e][k].status = "none"
    PROVE  Inside(worker, e, k) = {} /\ job[e][k] = NoRow
<1>1. ASSUME NEW w \in Workers, In(worker[w], e, k)
      PROVE  FALSE
  BY <1>1, Busy DEF In
<1>2. job[e][k] = NoRow
  BY DEF IInv, RowsInv
<1> QED BY <1>1, <1>2 DEF Inside

LEMMA OpenedMoves ==
    ASSUME IInv, NEW e \in Executions, NEW k \in Kinds,
           job[e][k].status = "none", job'[e][k] = NewRow,
           \A v \in Workers : In(worker'[v], e, k) => In(worker[v], e, k)
    PROVE  Moved(e, k)
<1>1. Inside(worker, e, k) = {} /\ job[e][k] = NoRow
  BY Vacant
<1>2. Inside(worker', e, k) = {}
  BY <1>1 DEF Inside
<1>3. NewRow.status = "pending" /\ NewRow.external = FALSE /\ NoRow.external = FALSE
  BY DEF NewRow, NoRow
<1>4. Written(e, k, "queued", {}, {})
  BY <1>2, <1>3, NobodyHolds DEF Written, Reported
<1>5. KeepsMark(e, k)
  BY <1>1, <1>3 DEF KeepsMark
<1> QED BY <1>1, <1>4, <1>5, OpenMove

LEMMA RequeuedMoves ==
    ASSUME IInv, NEW e \in Executions, NEW k \in Kinds, k = "hermes_delivery_prep",
           job[e][k].status \notin {"none", "completed"},
           job'[e][k] = Requeued(job[e][k]), worker' = worker
    PROVE  Moved(e, k)
<1>1. PICK row \in JobRow : row = job[e][k]
  BY DEF IInv, TypeOK
<1>2. Requeued(row).status = "pending" /\ Requeued(row).external = row.external
  BY DEF Requeued, JobRow
<1>3. Written(e, k, "queued", Inside(worker, e, k), {})
  BY <1>1, <1>2, NobodyHolds DEF Written, Reported
<1>4. KeepsMark(e, k)
  BY <1>1, <1>2 DEF KeepsMark
<1> QED BY <1>3, <1>4, RequestMove

LEMMA SourcesMoved ==
    ASSUME IInv, NEW e \in Executions,
           AcceptIntake(e) \/ CreateInvestigationTurn(e) \/ RequestDeliveryPrep(e)
    PROVE  \A x \in Executions, y \in Kinds : Moved(x, y)
<1>0. /\ {"route", "agent_turn", "hermes_delivery_prep"} \subseteq Kinds
      /\ job \in [Executions -> [Kinds -> JobRow]]
      /\ worker' = worker
  BY DEF Kinds, IInv, TypeOK, AcceptIntake, CreateInvestigationTurn, RequestDeliveryPrep
<1>1. ASSUME NEW k \in Kinds, NEW row, job' = [job EXCEPT ![e][k] = row], Moved(e, k)
      PROVE  \A x \in Executions, y \in Kinds : Moved(x, y)
  <2>1. \A x \in Executions, y \in Kinds : ~(x = e /\ y = k) => job'[x][y] = job[x][y]
    BY <1>0, <1>1
  <2>2. \A x \in Executions, y \in Kinds : ~(x = e /\ y = k) => RowKept(x, y)
    BY <2>1 DEF RowKept
  <2> QED BY <1>0, <1>1, <2>2, StaysPut, KeptMoves
<1>2. ASSUME NEW k \in Kinds, job[e][k].status = "none", job' = [job EXCEPT ![e][k] = NewRow]
      PROVE  \A x \in Executions, y \in Kinds : Moved(x, y)
  <2>1. job'[e][k] = NewRow
    BY <1>0, <1>2
  <2>2. Moved(e, k)
    BY <1>0, <1>2, <2>1, OpenedMoves
  <2> QED BY <1>1, <1>2, <2>2
<1>3. exec[e] = "none" => \A k \in Kinds : job[e][k].status = "none"
  BY DEF IInv, RowsInv
<1>4. CASE AcceptIntake(e)
  BY <1>0, <1>2, <1>3, <1>4 DEF AcceptIntake
<1>5. CASE CreateInvestigationTurn(e)
  BY <1>0, <1>2, <1>3, <1>5 DEF CreateInvestigationTurn
<1>6. CASE RequestDeliveryPrep(e)
  <2> DEFINE k == "hermes_delivery_prep"
  <2>1. CASE job[e][k] = NoRow
    <3>1. job' = [job EXCEPT ![e][k] = NewRow] /\ job[e][k].status = "none"
      BY <1>6, <2>1 DEF RequestDeliveryPrep, NoRow
    <3> QED BY <1>0, <1>2, <3>1
  <2>2. CASE job[e][k] # NoRow
    <3>1. job' = [job EXCEPT ![e][k] = Requeued(job[e][k])]
      BY <1>6, <2>2 DEF RequestDeliveryPrep
    <3>2. job[e][k].status \notin {"none", "completed"}
      BY <1>0, <1>6, <2>2 DEF RequestDeliveryPrep, IInv, RowsInv
    <3>3. job'[e][k] = Requeued(job[e][k])
      BY <1>0, <3>1
    <3>4. Moved(e, k)
      BY <1>0, <3>2, <3>3, RequeuedMoves
    <3> QED BY <1>0, <1>1, <3>1, <3>4
  <2> QED BY <2>1, <2>2
<1> QED BY <1>4, <1>5, <1>6

------------------------------------------------------------------------------
(* Steps of the holder *)

LEMMA OwnerHolds ==
    ASSUME NEW w \in Workers, worker[w].pc # "idle", Owns(w)
    PROVE  w \in Holders(job[worker[w].exec][worker[w].kind], worker,
                         worker[w].exec, worker[w].kind)
BY DEF Owns, Holders, In

LEMMA MarkMoved ==
    ASSUME IInv, NEW w \in Workers, MarkExternalStarted(w)
    PROVE  \A x \in Executions, y \in Kinds : Moved(x, y)
<1>1. worker[w].pc # "idle" /\ TypeOK
  BY DEF MarkExternalStarted, IInv
<1>2. PICK f \in Frame, e \in Executions, k \in Kinds, row \in JobRow :
         worker[w] = f /\ f.exec = e /\ f.kind = k /\ job[e][k] = row
  BY <1>1, Busy
<1>3. \A x \in Executions, y \in Kinds : FramesKept(x, y)
  <2>1. CASE Owns(w)
    <3>1. PICK g \in Frame : g = [f EXCEPT !.pc = "marked"]
      BY FrameType DEF Place
    <3>2. Continues(f, g)
      BY <3>1 DEF Continues, Frame
    <3>3. worker' = [worker EXCEPT ![w] = g]
      BY <1>2, <2>1, <3>1 DEF MarkExternalStarted, SetWorker
    <3> QED BY <1>1, <1>2, <3>2, <3>3, GoesOn DEF Continues
  <2>2. CASE ~Owns(w)
    BY <1>1, <1>2, <2>2, RaiseContinues, GoesOn DEF MarkExternalStarted, SetWorker, Continues
  <2> QED BY <2>1, <2>2
<1>4. CASE Owns(w)
  <2>1. job' = [job EXCEPT ![e][k].external = TRUE]
    BY <1>2, <1>4 DEF MarkExternalStarted
  <2>2. PICK new \in JobRow : new = [row EXCEPT !.external = TRUE]
    BY RowType
  <2>3. new.status = row.status /\ new.token = row.token /\ new.external = TRUE
    BY <2>2 DEF JobRow
  <2>4. /\ job'[e][k] = new
        /\ \A x \in Executions, y \in Kinds : ~(x = e /\ y = k) => job'[x][y] = job[x][y]
    BY <1>1, <1>2, <2>1, <2>2 DEF TypeOK
  <2>5. Holders(job[e][k], worker, e, k) # {}
    BY <1>1, <1>2, <1>4, OwnerHolds
  <2>6. Holders(job'[e][k], worker', e, k) = Holders(job[e][k], worker, e, k)
    BY <1>2, <1>3, <2>3, <2>4 DEF Holders, FramesKept, FrameKept
  <2>7. Moved(e, k)
    BY <1>2, <1>3, <2>3, <2>4, <2>5, <2>6, InsideKept, MarkMove DEF Written
  <2>8. \A x \in Executions, y \in Kinds : ~(x = e /\ y = k) => RowKept(x, y)
    BY <2>4 DEF RowKept
  <2> QED BY <1>3, <2>7, <2>8, KeptMoves
<1>5. CASE ~Owns(w)
  BY <1>3, <1>5, RowsPut, KeptMoves DEF MarkExternalStarted
<1> QED BY <1>4, <1>5

\* The transaction that ends the claim of w, and may queue a successor
Ended(w) ==
    LET e == worker[w].exec
        k == worker[w].kind
    IN  /\ worker[w].pc # "idle" /\ Owns(w)
        /\ worker' = [worker EXCEPT ![w] = Idle]
        /\ job'[e][k].status \in {"pending"} \cup TerminalJob
        /\ job'[e][k].external = job[e][k].external
        /\ \A x \in Executions, y \in Kinds :
              \/ x = e /\ y = k
              \/ job'[x][y] = job[x][y]
              \/ job[x][y].status = "none" /\ job'[x][y] = NewRow

LEMMA EndedMoved ==
    ASSUME IInv, NEW w \in Workers, Ended(w)
    PROVE  \A x \in Executions, y \in Kinds : Moved(x, y)
<1>1. /\ worker[w].exec \in Executions /\ worker[w].kind \in Kinds
      /\ worker[w].pc # "idle" /\ TypeOK
  BY FrameWorks DEF Ended, IInv
<1>2. \A x \in Executions, y \in Kinds : LeftBy(w, x, y)
  BY <1>1, Leaves DEF Ended
<1>3. ASSUME NEW e \in Executions, NEW k \in Kinds, e = worker[w].exec, k = worker[w].kind
      PROVE  Moved(e, k)
  <2>1. w \in Holders(job[e][k], worker, e, k)
    BY <1>1, <1>3, OwnerHolds DEF Ended
  <2>2. /\ Reported(job'[e][k].status) \in {"queued", "completed", "ended"}
        /\ job'[e][k].status # "claimed"
    BY <1>3 DEF Ended, Reported, TerminalJob
  <2>3. KeepsMark(e, k)
    BY <1>3 DEF Ended, KeepsMark
  <2>4. Written(e, k, Reported(job'[e][k].status), Inside(worker, e, k) \ {w}, {})
    BY <1>2, <2>2, NobodyHolds, InsideLeft DEF Written
  <2> QED BY <2>1, <2>2, <2>3, <2>4, SettleMove
<1>4. ASSUME NEW x \in Executions, NEW y \in Kinds, job'[x][y] = job[x][y]
      PROVE  Moved(x, y)
  BY <1>2, <1>4, LeftMoves DEF RowKept
<1>5. ASSUME NEW x \in Executions, NEW y \in Kinds,
             job[x][y].status = "none", job'[x][y] = NewRow
      PROVE  Moved(x, y)
  <2>1. \A v \in Workers : In(worker'[v], x, y) => In(worker[v], x, y)
    BY <1>2 DEF LeftBy, FrameKept
  <2> QED BY <1>5, <2>1, OpenedMoves
<1> QED BY <1>3, <1>4, <1>5 DEF Ended

\* One that writes the row of the claim only
LEMMA EndedAlone ==
    ASSUME IInv, NEW w \in Workers, NEW f \in Frame, NEW e \in Executions, NEW k \in Kinds,
           NEW row \in JobRow, NEW new \in JobRow, NEW outcomes,
           worker[w] = f, f.exec = e, f.kind = k, f.pc # "idle", job[e][k] = row,
           Commits(w, outcomes),
           job' = [job EXCEPT ![e][k] = new],
           new.status \in {"pending"} \cup TerminalJob, new.external = row.external
    PROVE  Ended(w)
<1>1. /\ job'[e][k] = new
      /\ \A x \in Executions, y \in Kinds : (x = e /\ y = k) \/ job'[x][y] = job[x][y]
  BY DEF IInv, TypeOK
<1>2. Owns(w) /\ worker' = [worker EXCEPT ![w] = Idle]
  BY DEF Commits, SetWorker
<1> QED BY <1>1, <1>2 DEF Ended

LEMMA SettlesEnds ==
    ASSUME IInv, NEW w \in Workers, NEW outcomes, NEW s \in TerminalJob,
           Settles(w, outcomes, s)
    PROVE  Ended(w)
<1>1. PICK f \in Frame, e \in Executions, k \in Kinds, row \in JobRow :
         /\ worker[w] = f /\ f.exec = e /\ f.kind = k /\ f.pc # "idle" /\ job[e][k] = row
  BY Busy DEF Settles, Commits
<1>2. PICK new \in JobRow : new = [row EXCEPT !.status = s]
  BY RowType DEF JobStatus
<1>3. new.status = s /\ new.external = row.external
  BY <1>2 DEF JobRow
<1>4. job' = [job EXCEPT ![e][k] = new] /\ Commits(w, outcomes)
  BY <1>1, <1>2 DEF IInv, TypeOK, Settles
<1> QED BY <1>1, <1>3, <1>4, EndedAlone

LEMMA DefersEnds ==
    ASSUME IInv, NEW w \in Workers, DeferJob(w)
    PROVE  Ended(w)
<1>1. PICK f \in Frame, e \in Executions, k \in Kinds, row \in JobRow :
         /\ worker[w] = f /\ f.exec = e /\ f.kind = k /\ f.pc # "idle" /\ job[e][k] = row
  BY Busy DEF DeferJob, Commits
<1>2. PICK new \in JobRow : new = Requeued(row)
  BY RowType
<1>3. new.status = "pending" /\ new.external = row.external
  BY <1>2 DEF JobRow, Requeued
<1>4. job' = [job EXCEPT ![e][k] = new] /\ Commits(w, {"deferred"})
  BY <1>1, <1>2 DEF DeferJob
<1> QED BY <1>1, <1>3, <1>4, EndedAlone

\* The successor of a route that is still claimed has no row yet
LEMMA SucceedsEnds ==
    ASSUME IInv, NEW w \in Workers, NEW outcomes,
           NEW k \in {"processing", "agent_turn"}, Succeeds(w, outcomes, k)
    PROVE  Ended(w)
<1>0. {"route", "processing", "agent_turn"} \subseteq Kinds /\ k # "route"
  BY DEF Kinds
<1>1. PICK f \in Frame, e \in Executions, row \in JobRow :
         /\ worker[w] = f /\ f.exec = e /\ f.kind = "route" /\ f.pc # "idle"
         /\ job[e]["route"] = row
  BY Busy DEF Succeeds, Commits
<1>2. Owns(w) /\ worker' = [worker EXCEPT ![w] = Idle]
  BY DEF Succeeds, Commits, SetWorker
<1>3. job[e][k].status = "none"
  BY <1>0, <1>1, <1>2 DEF Owns, IInv, RowsInv, OneSuccessorPerExecution
<1>4. PICK new \in JobRow : new = [row EXCEPT !.status = "completed"]
  BY RowType DEF JobStatus, TerminalJob
<1>5. new.status = "completed" /\ new.external = row.external
  BY <1>4 DEF JobRow
<1>6. PICK mid \in [Executions -> [Kinds -> JobRow]] :
         /\ mid = [job EXCEPT ![e]["route"] = new]
         /\ job' = [mid EXCEPT ![e][k] = NewRow]
  <2>1. [job EXCEPT ![e]["route"] = new] \in [Executions -> [Kinds -> JobRow]]
    BY <1>0 DEF IInv, TypeOK
  <2>2. [job EXCEPT ![e]["route"] = new] = [job EXCEPT ![e]["route"].status = "completed"]
    BY <1>0, <1>1, <1>4 DEF IInv, TypeOK
  <2>3. job' = [[job EXCEPT ![e]["route"] = new] EXCEPT ![e][k] = NewRow]
    BY <1>1, <2>2 DEF Succeeds
  <2> QED BY <2>1, <2>3
<1>7. /\ job'[e]["route"] = new /\ job'[e][k] = NewRow
      /\ \A x \in Executions, y \in Kinds :
            x # e \/ y \notin {"route", k} => job'[x][y] = job[x][y]
  BY <1>0, <1>6 DEF IInv, TypeOK
<1> QED BY <1>0, <1>1, <1>2, <1>3, <1>5, <1>7 DEF Ended, TerminalJob

LEMMA EndClaimMoved ==
    ASSUME IInv, NEW w \in Workers, EndClaim(w)
    PROVE  \A x \in Executions, y \in Kinds : Moved(x, y)
<1>1. CASE CompleteRoute(w)
  <2>1. Succeeds(w, {"completed"}, "processing")
    BY <1>1 DEF CompleteRoute, Succeeds
  <2> QED BY <2>1, SucceedsEnds, EndedMoved
<1>2. CASE CompleteClassificationOnly(w)
  <2>1. Settles(w, {"completed"}, "completed")
    BY <1>2 DEF CompleteClassificationOnly, Settles
  <2> QED BY <2>1, SettlesEnds, EndedMoved DEF TerminalJob
<1>3. CASE HandOffToHermesAgent(w, TRUE)
  <2>1. Succeeds(w, {"completed"}, "agent_turn")
    BY <1>3 DEF HandOffToHermesAgent, Succeeds
  <2> QED BY <2>1, SucceedsEnds, EndedMoved
<1>4. CASE HandOffToHermesAgent(w, FALSE)
  <2> DEFINE e == worker[w].exec
  <2>1. e \in Executions /\ {"route", "agent_turn"} \subseteq Kinds
    BY <1>4, Busy DEF HandOffToHermesAgent, Commits, Kinds
  <2>2. job' = [job EXCEPT ![e]["route"].status = "completed"]
    BY <1>4, <2>1 DEF HandOffToHermesAgent, IInv, TypeOK
  <2>3. Settles(w, {"completed"}, "completed")
    BY <1>4, <2>2 DEF HandOffToHermesAgent, Settles
  <2> QED BY <2>3, SettlesEnds, EndedMoved DEF TerminalJob
<1>5. CASE CompleteProcessing(w)
  <2>1. PICK s \in TerminalJob : s = worker[w].out
    BY <1>5 DEF CompleteProcessing, Commits, TerminalJob
  <2>2. Settles(w, {"completed", "human_review"}, s)
    BY <1>5, <2>1 DEF CompleteProcessing, Settles
  <2> QED BY <2>2, SettlesEnds, EndedMoved
<1>6. CASE FailJob(w)
  <2>1. PICK s \in TerminalJob : Settles(w, {"failed", "outcome_unknown", "exception"}, s)
    BY <1>6 DEF FailJob, Settles, TerminalJob
  <2> QED BY <2>1, SettlesEnds, EndedMoved
<1>7. CASE DeferJob(w)
  BY <1>7, DefersEnds, EndedMoved
<1>8. CASE LoseClaim(w)
  BY <1>8, FrameStepsMoved
<1> QED BY <1>1, <1>2, <1>3, <1>4, <1>5, <1>6, <1>7, <1>8 DEF EndClaim

------------------------------------------------------------------------------
(* claim_job *)

LEMMA SweptMoves ==
    ASSUME IInv, NEW e \in Executions, NEW k \in Kinds,
           job'[e][k] = JobAfterSweep[e][k], FramesKept(e, k)
    PROVE  Moved(e, k)
<1>1. PICK row \in JobRow : row = job[e][k]
  BY DEF IInv, TypeOK
<1>2. CASE Swept(e, k)
  <2>1. row.status = "claimed" /\ row.external = TRUE
    BY <1>1, <1>2 DEF Swept, JobRow
  <2>2. PICK new \in JobRow : new = [row EXCEPT !.status = "outcome_unknown"]
    BY RowType DEF JobStatus, TerminalJob
  <2>3. new.status = "outcome_unknown" /\ new.external = row.external
    BY <2>2 DEF JobRow
  <2>4. job'[e][k] = new
    BY <1>1, <1>2, <2>2 DEF JobAfterSweep
  <2>5. Written(e, k, "ended", Inside(worker, e, k), {})
    BY <2>3, <2>4, InsideKept, NobodyHolds DEF Written, Reported
  <2> QED BY <1>1, <2>1, <2>3, <2>4, <2>5, LapseMove DEF KeepsMark
<1>3. CASE ~Swept(e, k)
  BY <1>3, KeptMoves DEF JobAfterSweep, RowKept
<1> QED BY <1>2, <1>3

LEMMA ClaimMoved ==
    ASSUME IInv, NEW w \in Workers, NEW k \in KindsOf(w), NEW e \in Executions, Claim(w, k, e)
    PROVE  \A x \in Executions, y \in Kinds : Moved(x, y)
<1>0. k \in Kinds
  BY DEF KindsOf, Kinds
<1>1. PICK old \in JobRow : old = job[e][k]
  BY <1>0 DEF IInv, TypeOK
<1>2. PICK new \in JobRow : new = NewlyClaimed(old)
  BY RowType
<1>3. /\ new.status = "claimed" /\ new.token = old.attempt + 1
      /\ new.external = old.external /\ old.attempt \in Nat
  BY <1>2 DEF NewlyClaimed, JobRow
<1>4. \A x \in Executions, y \in Kinds :
         job'[x][y] = IF x = e /\ y = k THEN new ELSE JobAfterSweep[x][y]
  BY <1>0, <1>1, <1>2, SweepType DEF IInv, Claim
<1>5. PICK g : g = [pc |-> "run", exec |-> e, kind |-> k,
                    token |-> old.attempt + 1, ext |-> FALSE, out |-> "none"]
  OBVIOUS
<1>6. worker' = [worker EXCEPT ![w] = g] /\ worker[w].pc = "idle"
  BY <1>1, <1>5 DEF Claim, SetWorker
<1>7. g.pc # "idle" /\ g.exec = e /\ g.kind = k /\ g.token = old.attempt + 1
  BY <1>5
<1>8. /\ \A v \in Workers \ {w} : worker'[v] = worker[v]
      /\ worker'[w] = g
  BY <1>6 DEF IInv, TypeOK
<1>9. \A x \in Executions, y \in Kinds : ~(x = e /\ y = k) => FramesKept(x, y)
  BY <1>6, <1>7, <1>8 DEF FramesKept, FrameKept, In
<1>10. Inside(worker', e, k) = Inside(worker, e, k) \cup {w}
  BY <1>7, <1>8 DEF Inside, In
<1>11. \A v \in Workers : In(worker[v], e, k) => worker[v].token # old.attempt + 1
  <2> SUFFICES ASSUME NEW v \in Workers, In(worker[v], e, k)
               PROVE  worker[v].token # old.attempt + 1
    OBVIOUS
  <2>1. worker[v].token \in 1 .. old.attempt
    BY <1>1, Busy DEF In
  <2> QED BY <1>3, <2>1
<1>12. Holders(job'[e][k], worker', e, k) = {w}
  <2>1. job'[e][k] = new
    BY <1>0, <1>4
  <2> QED BY <1>3, <1>7, <1>8, <1>11, <2>1 DEF Holders, In
<1>13. Moved(e, k)
  <2>1. Written(e, k, "claimed", Inside(worker, e, k) \cup {w}, {w})
    BY <1>0, <1>3, <1>4, <1>10, <1>12 DEF Written, Reported
  <2>2. KeepsMark(e, k)
    BY <1>0, <1>1, <1>3, <1>4 DEF KeepsMark
  <2>3. \/ job[e][k].status = "pending"
        \/ job[e][k].status = "claimed" /\ ~job[e][k].external
    BY DEF Claim, Claimable
  <2> QED BY <1>0, <1>6, <2>1, <2>2, <2>3, ClaimMove
<1>14. ASSUME NEW x \in Executions, NEW y \in Kinds, ~(x = e /\ y = k)
       PROVE  Moved(x, y)
  BY <1>4, <1>9, <1>14, SweptMoves
<1> QED BY <1>13, <1>14

LEMMA PollMoved ==
    ASSUME IInv, NEW w \in Workers, Poll(w)
    PROVE  \A x \in Executions, y \in Kinds : Moved(x, y)
<1>1. ASSUME NEW k \in KindsOf(w), ClaimNothing(w, k)
      PROVE  \A x \in Executions, y \in Kinds : Moved(x, y)
  BY <1>1, StaysPut, SweptMoves DEF ClaimNothing
<1> QED BY <1>1, ClaimMoved DEF Poll

------------------------------------------------------------------------------
(* The refinement *)

LEMMA StepMoved == IInv /\ IInv' /\ [Next]_vars => Claims!Next
<1> SUFFICES ASSUME IInv, IInv', [Next]_vars
             PROVE  Claims!Next
  OBVIOUS
<1>1. CASE \E e \in Executions :
             \/ AcceptIntake(e)
             \/ CreateInvestigationTurn(e)
             \/ RequestDeliveryPrep(e)
             \/ \E k \in Kinds : LeaseRunsOut(e, k)
  BY <1>1, SourcesMoved, LeaseRunsOutMoved, AllMoved DEF IInv
<1>2. ASSUME NEW w \in Workers,
             \/ Poll(w)
             \/ OwnerStalls(w)
             \/ Renew(w)
             \/ BeforeExternal(w)
             \/ ProcessorReturns(w)
             \/ RaiseError(w)
             \/ Advance(w)
             \/ Crash(w)
      PROVE  Claims!Next
  <2>1. \A x \in Executions, y \in Kinds : Moved(x, y)
    BY <1>2, PollMoved, LeaseStepsMoved, FrameStepsMoved, MarkMoved, EndClaimMoved DEF Advance
  <2> QED BY <2>1, AllMoved DEF IInv
<1>3. CASE UNCHANGED vars
  <2>1. job' = job /\ worker' = worker
    BY <1>3 DEF vars
  <2>2. \A x \in Executions, y \in Kinds : Moved(x, y)
    BY <2>1, StaysPut, RowsPut, KeptMoves
  <2> QED BY <2>2, AllMoved DEF IInv
<1> QED BY <1>1, <1>2, <1>3 DEF Next

\* The queue keeps what the code inside a claim relies on, whatever lapses, stalls and
\* dies: one holder at most, whom nobody else ends, and no new holder of a job that
\* was marked until its holder gave it back.
THEOREM ClaimsKept == Spec => KeepsClaims
<1>1. Init => Claims!Init
  <2> SUFFICES ASSUME Init PROVE Claims!Init
    OBVIOUS
  <2>1. \A e \in Executions, k \in Kinds :
           /\ Reported(job[e][k].status) = "none" /\ job[e][k].external = FALSE
           /\ \A w \in Workers : ~Holds(w, e, k)
    BY DEF Init, NoRow, Reported, Holds, Idle
  <2> QED BY <2>1 DEF Claims!Init
<1>2. IInv /\ IInv' /\ [Next]_vars =>
         [Claims!Next]_<<[j \in Executions \X Kinds |-> Reported(job[j[1]][j[2]].status)],
                         [j \in Executions \X Kinds |-> {w \in Workers : Holds(w, j[1], j[2])}],
                         [j \in Executions \X Kinds |->
                             {w \in Workers : Holds(w, j[1], j[2]) /\ Owns(w)}],
                         [j \in Executions \X Kinds |-> job[j[1]][j[2]].external]>>
  BY StepMoved
<1> QED BY <1>1, <1>2, Invariance, PTL DEF Spec, KeepsClaims, Claims!Spec, Claims!vars
=============================================================================
