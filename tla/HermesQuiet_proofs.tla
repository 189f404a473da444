-------------------------- MODULE HermesQuiet_proofs --------------------------
(***************************************************************************)
(* QuietWhenOver of HermesCase, for any turns, processes, events, tools    *)
(* and fault bounds: as long as no lease lapses under a live owner, a turn *)
(* that was completed or superseded has left no run of its at the gateway. *)
(*                                                                         *)
(* RowQuiet says what holds of a turn by its rows alone: nothing was       *)
(* launched before it began, and a job that was given back leaves only     *)
(* runs the store knows of (Known).  FrameQuiet says what the only process *)
(* that drives it may rely on: while the turn runs, at most the phase it   *)
(* is in can be going, and only where it has asked for it; and every run   *)
(* but one it has just launched is recorded, so that a cancellation finds  *)
(* it.  A process that dies or raises in between leaves a job nobody       *)
(* claims again, because before_external had marked it.                    *)
(***************************************************************************)
EXTENDS HermesCase_proofs

------------------------------------------------------------------------------
\* The turn is over in the way QuietWhenOver is about
Over(row) == row.status = "superseded" \/ (row.status = "completed" /\ row.res # "solved")

\* Of the phases that a cancellation stops: none is going, none but p, and every
\* one that is going is recorded, but p
Quiet(g) == \A q \in CancelPhases : g[q] # "running"
QuietBut(g, p) == \A q \in CancelPhases : g[q] = "running" => q = p
Known(g, r) == \A q \in CancelPhases : g[q] = "running" => r[q] = "running"
KnownBut(g, r, p) == \A q \in CancelPhases : g[q] = "running" => r[q] = "running" \/ q = p

ActiveRow(row) == row.status \in {"running", "cancel_requested"}

\* A turn with its runs at the gateway, its run rows and its job
RowQuiet(row, g, r, j) ==
    /\ Over(row) => Quiet(g)
    /\ \A q \in Phases : g[q] # "none" => row.status \in BegunStatus /\ j.ext
    /\ row.status \notin OpenedStatus => j.status = "none"
    /\ j.status = "queued" /\ row.status = "running" => Quiet(g)
    /\ j.status = "queued" /\ ActiveRow(row) => Known(g, r)

\* Where a process has nothing going, where it has at most its phase going, and
\* where it is at the end of its turn
StillPlaces == {"enter", "start", "notify", "phase", "fence", "launch", "after",
                "handover", "complete"}
RunPlaces == {"record", "poll", "fail"}
PhasePlaces == {"notify", "phase", "fence", "launch", "after"} \cup RunPlaces
TailPlaces == {"enter", "start", "handover", "complete", "settle"}

\* Places from which a cancellation is reached with every run recorded
KnownPlaces == {"enter", "notify", "phase", "fence", "launch", "poll", "after", "list"}

GivesBack(f) == f.pc = "settle" /\ f.out = "defer"

\* What holds of the frame f of the only process at a turn
FrameQuiet(f, row, g, r, j) ==
    /\ f.pc \in PhasePlaces => f.phase \in Phases /\ row.status \in BegunStatus
    /\ f.pc = "launch" => j.ext
    /\ Over(row) => f.pc \in TailPlaces
    /\ row.status = "running" /\ (f.pc \in StillPlaces \/ GivesBack(f)) => Quiet(g)
    /\ row.status = "running" /\ f.pc \in RunPlaces => QuietBut(g, f.phase)
    /\ ActiveRow(row) /\ (f.pc \in KnownPlaces \/ GivesBack(f)) => Known(g, r)
    /\ ActiveRow(row) /\ f.pc = "record" => KnownBut(g, r, f.phase)
    /\ ActiveRow(row) /\ f.pc = "recover" =>
           Known(g, r) /\ \A q \in CancelPhases : g[q] = "running" => q \in f.left

OwnsJob(w, j) == j.status = "claimed" /\ j.owner = w

RowsQuiet == \A t \in Turns : RowQuiet(turn[t], gateway[t], run[t], job[t])

ProcessQuiet(w) ==
    worker[w].pc # "idle" =>
        /\ OwnsJob(w, job[Of(w)])
        /\ FrameQuiet(worker[w], turn[Of(w)], gateway[Of(w)], run[Of(w)], job[Of(w)])

QInv == RowsQuiet /\ \A w \in Workers : ProcessQuiet(w)

QuietInv == used["stall"] = 0 => QInv

------------------------------------------------------------------------------
(* The parts of a step *)

LEMMA InitQInv == Init => QInv
BY DEF Init, QInv, RowsQuiet, RowQuiet, ProcessQuiet, Over, Quiet, Known, ActiveRow, NoRow, NoJob,
       Idle, CancelPhases, Phases, OpenedStatus, BegunStatus, Live, Ended

\* What a process at a turn may rely on
LEMMA Mine ==
  ASSUME IInv, QInv, NEW w \in Workers, worker[w].pc # "idle"
  PROVE  /\ Of(w) \in Turns
         /\ OwnsJob(w, job[Of(w)])
         /\ worker[w] \in Frame
         /\ FrameOK(worker[w], turn)
         /\ FrameQuiet(worker[w], turn[Of(w)], gateway[Of(w)], run[Of(w)], job[Of(w)])
         /\ RowQuiet(turn[Of(w)], gateway[Of(w)], run[Of(w)], job[Of(w)])
BY OfTurn DEF QInv, ProcessQuiet, RowsQuiet, IInv, Typed, FramesInv

\* A step of a process that writes rows of its own turn at most: no other process
\* is at the same turn
LEMMA OwnStep ==
  ASSUME IInv, QInv, NEW w \in Workers, worker[w].pc # "idle", NEW f, Step(w, f),
         \A u \in Turns : u # Of(w) =>
             /\ turn'[u] = turn[u] /\ gateway'[u] = gateway[u]
             /\ run'[u] = run[u] /\ job'[u] = job[u],
         RowQuiet(turn'[Of(w)], gateway'[Of(w)], run'[Of(w)], job'[Of(w)]),
         f.pc # "idle" =>
             /\ f.turn = Of(w)
             /\ OwnsJob(w, job'[Of(w)])
             /\ FrameQuiet(f, turn'[Of(w)], gateway'[Of(w)], run'[Of(w)], job'[Of(w)])
  PROVE  QInv'
<1>1. RowsQuiet'
  BY DEF RowsQuiet, QInv
<1>2. ASSUME NEW v \in Workers PROVE ProcessQuiet(v)'
  <2>1. CASE v = w
    <3>1. worker'[w] = f
      BY DEF Step, IInv, Typed
    <3> QED
      BY <2>1, <3>1 DEF ProcessQuiet, Of
  <2>2. CASE v # w
    <3>1. worker'[v] = worker[v]
      BY <2>2 DEF Step, IInv, Typed
    <3> SUFFICES ASSUME worker[v].pc # "idle"
                 PROVE  /\ OwnsJob(v, job'[Of(v)])
                        /\ FrameQuiet(worker[v], turn'[Of(v)], gateway'[Of(v)], run'[Of(v)],
                                      job'[Of(v)])
      BY <3>1 DEF ProcessQuiet, Of
    <3>2. Of(v) \in Turns /\ OwnsJob(v, job[Of(v)]) /\ OwnsJob(w, job[Of(w)])
      BY Mine
    <3>3. Of(v) # Of(w)
      BY <2>2, <3>2 DEF OwnsJob
    <3> QED
      BY <3>2, <3>3, Mine
  <2> QED
    BY <2>1, <2>2
<1> QED
  BY <1>1, <1>2 DEF QInv

\* A process only goes to another place
LEMMA MovesQuiet ==
  ASSUME IInv, QInv, NEW w \in Workers, worker[w].pc # "idle",
         UNCHANGED <<turn, gateway, run, job>>, NEW f, Step(w, f),
         f.pc # "idle" =>
             /\ f.turn = Of(w)
             /\ FrameQuiet(f, turn[Of(w)], gateway[Of(w)], run[Of(w)], job[Of(w)])
  PROVE  QInv'
BY Mine, OwnStep

\* A process that is done with its job
LEMMA EndedFrame ==
  ASSUME NEW f, f.pc = "settle", f.out # "defer", NEW row, NEW g, NEW r, NEW j
  PROVE  FrameQuiet(f, row, g, r, j)
BY DEF FrameQuiet, PhasePlaces, RunPlaces, StillPlaces, KnownPlaces, TailPlaces, GivesBack

LEMMA ReturnsQuiet ==
  ASSUME IInv, QInv, NEW w \in Workers, worker[w].pc # "idle",
         UNCHANGED <<turn, gateway, run, job>>, Return(w)
  PROVE  QInv'
<1> DEFINE f == [worker[w] EXCEPT !.pc = "settle", !.out = "end"]
<1>1. worker[w] \in Frame
  BY Mine
<1>2. f.pc = "settle" /\ f.out = "end" /\ f.turn = Of(w)
  BY <1>1 DEF Frame, Of
<1>3. Step(w, f)
  BY DEF Return, GoOut
<1> HIDE DEF f
<1> QED
  BY <1>2, <1>3, EndedFrame, MovesQuiet

\* The frames a process moves to, field by field
LEMMA GoFields ==
  ASSUME IInv, NEW w \in Workers, NEW place, Go(w, place)
  PROVE  \E f : /\ Step(w, f) /\ f.pc = place /\ f.turn = Of(w)
                /\ f.phase = worker[w].phase /\ f.out = worker[w].out /\ f.left = worker[w].left
<1> DEFINE f == [worker[w] EXCEPT !.pc = place]
<1>1. worker[w] \in Frame
  BY DEF IInv, Typed
<1>2. Step(w, f)
  BY DEF Go
<1>3. /\ f.pc = place /\ f.turn = Of(w)
      /\ f.phase = worker[w].phase /\ f.out = worker[w].out /\ f.left = worker[w].left
  BY <1>1 DEF Frame, Of
<1> HIDE DEF f
<1> QED
  BY <1>2, <1>3

LEMMA GoOutFields ==
  ASSUME IInv, NEW w \in Workers, NEW place, NEW out, GoOut(w, place, out)
  PROVE  \E f : /\ Step(w, f) /\ f.pc = place /\ f.turn = Of(w)
                /\ f.phase = worker[w].phase /\ f.out = out /\ f.left = worker[w].left
<1> DEFINE f == [worker[w] EXCEPT !.pc = place, !.out = out]
<1>1. worker[w] \in Frame
  BY DEF IInv, Typed
<1>2. Step(w, f)
  BY DEF GoOut
<1>3. /\ f.pc = place /\ f.turn = Of(w)
      /\ f.phase = worker[w].phase /\ f.out = out /\ f.left = worker[w].left
  BY <1>1 DEF Frame, Of
<1> HIDE DEF f
<1> QED
  BY <1>2, <1>3

GoPhaseAt(w, place, p) == Step(w, [worker[w] EXCEPT !.pc = place, !.phase = p])

LEMMA GoPhaseFields ==
  ASSUME IInv, NEW w \in Workers, NEW place, NEW p, GoPhaseAt(w, place, p)
  PROVE  \E f : /\ Step(w, f) /\ f.pc = place /\ f.turn = Of(w)
                /\ f.phase = p /\ f.out = worker[w].out /\ f.left = worker[w].left
<1> DEFINE f == [worker[w] EXCEPT !.pc = place, !.phase = p]
<1>1. worker[w] \in Frame
  BY DEF IInv, Typed
<1>2. Step(w, f)
  BY DEF GoPhaseAt
<1>3. /\ f.pc = place /\ f.turn = Of(w)
      /\ f.phase = p /\ f.out = worker[w].out /\ f.left = worker[w].left
  BY <1>1 DEF Frame, Of
<1> HIDE DEF f
<1> QED
  BY <1>2, <1>3

------------------------------------------------------------------------------
(* The steps of a process that write no row *)

\* From where nothing is going a process may go to any place of its phases, and to
\* the end of its turn
LEMMA FromStill ==
  ASSUME NEW f, NEW old, NEW row, NEW g, NEW r, NEW j, FrameQuiet(old, row, g, r, j),
         old.pc \in {"notify", "phase", "after"}, f.phase \in Phases,
         f.pc \in {"notify", "phase", "fence", "poll", "after", "fail", "handover", "complete"}
  PROVE  FrameQuiet(f, row, g, r, j)
<1>1. row.status \in BegunStatus /\ ~Over(row)
  BY DEF FrameQuiet, PhasePlaces, TailPlaces
<1>2. row.status = "running" => Quiet(g)
  BY DEF FrameQuiet, StillPlaces
<1>3. ActiveRow(row) => Known(g, r)
  BY DEF FrameQuiet, KnownPlaces
<1>4. row.status = "running" => QuietBut(g, f.phase)
  BY <1>2 DEF Quiet, QuietBut
<1> QED
  BY <1>1, <1>2, <1>3, <1>4 DEF FrameQuiet, GivesBack

\* A turn that is being cancelled, at a place where every run is recorded
LEMMA ToList ==
  ASSUME NEW f, NEW old, NEW row, NEW g, NEW r, NEW j, FrameQuiet(old, row, g, r, j),
         old.pc \in {"enter", "phase", "poll"}, f.pc = "list", row.status = "cancel_requested"
  PROVE  FrameQuiet(f, row, g, r, j)
<1>1. Known(g, r)
  BY DEF FrameQuiet, KnownPlaces, ActiveRow
<1> QED
  BY <1>1 DEF FrameQuiet, GivesBack, Over, PhasePlaces, RunPlaces, StillPlaces

LEMMA EnterQuiet ==
  ASSUME IInv, QInv, NEW w \in Workers, Enter(w)
  PROVE  QInv'
<1> DEFINE t == Of(w)
           row == turn[t]
           Fits(f) == FrameQuiet(f, row, gateway[t], run[t], job[t])
<1>1. worker[w].pc = "enter" /\ UNCHANGED <<turn, gateway, run, job>>
  BY DEF Enter, At
<1>2. t \in Turns /\ Fits(worker[w])
  BY <1>1, Mine
<1>3. CASE Return(w)
  BY <1>1, <1>3, ReturnsQuiet
<1>4. CASE row.status = "cancel_requested" /\ Go(w, "list")
  BY <1>1, <1>2, <1>4, GoFields, ToList, MovesQuiet
<1>5. CASE row.status = "pending" /\ Go(w, "start")
  <2>1. PICK f : Step(w, f) /\ f.pc = "start" /\ f.turn = t
    BY <1>5, GoFields
  <2>2. Fits(f)
    BY <1>5, <2>1 DEF FrameQuiet, PhasePlaces, RunPlaces, TailPlaces, KnownPlaces, ActiveRow,
                      GivesBack
  <2> QED
    BY <1>1, <2>1, <2>2, MovesQuiet
<1>6. CASE row.status \in {"running", "failed", "unknown"} /\ EnterPhases(w, row)
  <2>1. row.kind \in Kinds /\ row.status \in BegunStatus
    BY <1>2, <1>6 DEF IInv, Typed, KindInv, TurnRow, OpenedStatus, Live, Ended, BegunStatus
  <2>2. PICK place \in {"phase", "notify"} :
            GoPhaseAt(w, place, FirstPhase(row.kind))
    BY <1>6 DEF EnterPhases, Step, GoPhaseAt
  <2>3. PICK f : /\ Step(w, f) /\ f.pc = place /\ f.turn = t
                 /\ f.phase = FirstPhase(row.kind)
    BY <2>2, GoPhaseFields
  <2>4. f.phase \in Phases
    BY <2>1, <2>3, FirstPhaseOK
  <2>5. row.status = "running" => Quiet(gateway[t]) /\ Known(gateway[t], run[t])
    BY <1>1, <1>2 DEF FrameQuiet, StillPlaces, KnownPlaces, ActiveRow
  <2>6. ~Over(row)
    BY <1>6 DEF Over
  <2>7. Fits(f)
    BY <1>6, <2>1, <2>3, <2>4, <2>5, <2>6
       DEF FrameQuiet, RunPlaces, ActiveRow, GivesBack
  <2> QED
    BY <1>1, <2>3, <2>7, MovesQuiet
<1> QED
  BY <1>3, <1>4, <1>5, <1>6 DEF Enter

\* A move from such a place
LEMMA StillMoves ==
  ASSUME IInv, QInv, NEW w \in Workers, worker[w].pc \in {"notify", "phase", "after"},
         UNCHANGED <<turn, gateway, run, job>>,
         NEW place \in {"notify", "phase", "fence", "poll", "after", "fail", "handover",
                        "complete"},
         \/ Go(w, place)
         \/ \E out : GoOut(w, place, out)
         \/ \E p \in Phases : GoPhaseAt(w, place, p)
  PROVE  QInv'
<1>1. worker[w].phase \in Phases
  BY Mine DEF FrameQuiet, PhasePlaces
<1>2. PICK f : Step(w, f) /\ f.pc = place /\ f.turn = Of(w) /\ f.phase \in Phases
  <2>1. CASE Go(w, place)
    BY <1>1, <2>1, GoFields
  <2>2. CASE \E out : GoOut(w, place, out)
    <3>1. PICK out : GoOut(w, place, out)
      BY <2>2
    <3>2. PICK f : Step(w, f) /\ f.pc = place /\ f.turn = Of(w) /\ f.phase = worker[w].phase
      BY <3>1, GoOutFields
    <3> QED
      BY <1>1, <3>2
  <2>3. CASE \E p \in Phases : GoPhaseAt(w, place, p)
    <3>1. PICK p \in Phases : GoPhaseAt(w, place, p)
      BY <2>3
    <3>2. PICK f : Step(w, f) /\ f.pc = place /\ f.turn = Of(w) /\ f.phase = p
      BY <3>1, GoPhaseFields
    <3> QED
      BY <3>2
  <2> QED
    BY <2>1, <2>2, <2>3
<1>3. FrameQuiet(f, turn[Of(w)], gateway[Of(w)], run[Of(w)], job[Of(w)])
  BY <1>2, Mine, FromStill
<1> QED
  BY <1>2, <1>3, MovesQuiet

LEMMA HandsOverQuiet ==
  ASSUME IInv, QInv, NEW w \in Workers, worker[w].pc \in {"notify", "phase", "after"},
         UNCHANGED <<turn, gateway, run, job>>,
         HandOverAndEnd(w) \/ HandOverAndLeave(w) \/ AskForReview(w)
  PROVE  QInv'
BY StillMoves DEF HandOverAndEnd, HandOverAndLeave, AskForReview

LEMMA BeginPhaseQuiet ==
  ASSUME IInv, QInv, NEW w \in Workers, BeginPhase(w)
  PROVE  QInv'
<1> DEFINE row == turn[Of(w)]
<1>1. worker[w].pc = "phase" /\ UNCHANGED <<turn, gateway, run, job>>
  BY DEF BeginPhase, At
<1>2. CASE row.status = "cancel_requested" /\ Go(w, "list")
  BY <1>1, <1>2, Mine, GoFields, ToList, MovesQuiet
<1>3. CASE Return(w)
  BY <1>1, <1>3, ReturnsQuiet
<1>4. CASE GoPhase(w, "persona")
  BY <1>1, <1>4, StillMoves DEF GoPhase, GoPhaseAt, Phases
<1>5. CASE HandOverAndEnd(w) \/ HandOverAndLeave(w)
  BY <1>1, <1>5, HandsOverQuiet
<1>6. CASE ServeWork(w)
  BY <1>1, <1>6, ReturnsQuiet, StillMoves DEF ServeWork
<1>7. CASE Go(w, "after") \/ Go(w, "poll") \/ Go(w, "fence")
  BY <1>1, <1>7, StillMoves
<1> QED
  BY <1>2, <1>3, <1>4, <1>5, <1>6, <1>7 DEF BeginPhase

LEMMA AfterPhaseQuiet ==
  ASSUME IInv, QInv, NEW w \in Workers, AfterPhase(w)
  PROVE  QInv'
<1>1. worker[w].pc = "after" /\ UNCHANGED <<turn, gateway, run, job>>
  BY DEF AfterPhase, At
<1>2. CASE \E p \in {"work", "persona"}, place \in {"phase", "notify"} :
             GoPhaseAt(w, place, p)
  BY <1>1, <1>2, StillMoves DEF Phases
<1>3. CASE HandOverAndEnd(w) \/ HandOverAndLeave(w) \/ AskForReview(w)
  BY <1>1, <1>3, HandsOverQuiet
<1>4. CASE Return(w)
  BY <1>1, <1>4, ReturnsQuiet
<1>5. CASE \E place \in {"complete", "fail"} : \E out : GoOut(w, place, out)
  BY <1>1, <1>5, StillMoves
<1> QED
  BY <1>2, <1>3, <1>4, <1>5 DEF AfterPhase, GoPhase, GoPhaseAt

LEMMA PollQuiet ==
  ASSUME IInv, QInv, NEW w \in Workers, PollOther(w) \/ PollGivesUp(w)
  PROVE  QInv'
<1> DEFINE t == Of(w)
           Fits(f) == FrameQuiet(f, turn[t], gateway[t], run[t], job[t])
<1>1. worker[w].pc = "poll" /\ UNCHANGED <<turn, gateway, run, job>>
  BY DEF PollOther, PollGivesUp, At
<1>2. Fits(worker[w])
  BY <1>1, Mine
<1>3. CASE turn[t].status = "cancel_requested" /\ Go(w, "list")
  BY <1>1, <1>2, <1>3, GoFields, ToList, MovesQuiet
<1>4. CASE \E out : GoOut(w, "fail", out)
  <2>1. PICK out : GoOut(w, "fail", out)
    BY <1>4
  <2>2. PICK f : Step(w, f) /\ f.pc = "fail" /\ f.turn = t /\ f.phase = worker[w].phase
    BY <2>1, GoOutFields
  <2>3. Fits(f)
    BY <1>1, <1>2, <2>2 DEF FrameQuiet, PhasePlaces, RunPlaces, StillPlaces, KnownPlaces,
                            TailPlaces, GivesBack
  <2> QED
    BY <1>1, <2>2, <2>3, MovesQuiet
<1> QED
  BY <1>3, <1>4 DEF PollOther, PollGivesUp

LEMMA HandoverQuiet ==
  ASSUME IInv, QInv, NEW w \in Workers, Handover(w)
  PROVE  QInv'
<1> DEFINE t == Of(w)
           Fits(f) == FrameQuiet(f, turn[t], gateway[t], run[t], job[t])
<1>1. worker[w].pc = "handover" /\ UNCHANGED <<turn, gateway, run, job>>
  BY DEF Handover, At
<1>2. CASE Return(w)
  BY <1>1, <1>2, ReturnsQuiet
<1>3. CASE Go(w, "complete")
  <2>1. PICK f : Step(w, f) /\ f.pc = "complete" /\ f.turn = t
    BY <1>3, GoFields
  <2>2. Fits(worker[w])
    BY <1>1, Mine
  <2>3. Fits(f)
    BY <1>1, <2>1, <2>2 DEF FrameQuiet, PhasePlaces, RunPlaces, StillPlaces, KnownPlaces,
                            TailPlaces, GivesBack
  <2> QED
    BY <1>1, <2>1, <2>3, MovesQuiet
<1> QED
  BY <1>2, <1>3 DEF Handover

LEMMA FaultQuiet ==
  ASSUME IInv, QInv, NEW w \in Workers, Fault(w)
  PROVE  QInv'
BY ReturnsQuiet DEF Fault

LEMMA CrashQuiet ==
  ASSUME IInv, QInv, NEW w \in Workers, Crash(w)
  PROVE  QInv'
BY MovesQuiet DEF Crash, At, Idle

LEMMA ListRunsQuiet ==
  ASSUME IInv, QInv, NEW w \in Workers, ListRuns(w)
  PROVE  QInv'
<1> DEFINE t == Of(w)
           left == {p \in CancelPhases : run[t][p] = "running"}
           f == [worker[w] EXCEPT !.pc = "recover", !.left = left]
           Fits(g) == FrameQuiet(g, turn[t], gateway[t], run[t], job[t])
<1>1. worker[w].pc = "list" /\ UNCHANGED <<turn, gateway, run, job>>
  BY DEF ListRuns, At
<1>2. /\ Fits(worker[w]) /\ worker[w] \in Frame
      /\ turn[t].status \in LateStatus
  BY <1>1, Mine DEF FrameOK, Of
<1>3. Step(w, f)
  BY DEF ListRuns
<1>4. f.pc = "recover" /\ f.turn = t /\ f.left = left
  BY <1>2 DEF Frame, Of
<1>5. ActiveRow(turn[t]) => Known(gateway[t], run[t])
  BY <1>1, <1>2 DEF FrameQuiet, KnownPlaces
<1>6. ~Over(turn[t])
  BY <1>1, <1>2 DEF FrameQuiet, TailPlaces
<1>7. turn[t].status # "running"
  BY <1>2 DEF LateStatus, Ended
<1>8. Known(gateway[t], run[t]) => \A q \in CancelPhases : gateway[t][q] = "running" => q \in left
  BY DEF Known
<1> HIDE DEF f, left
<1>9. Fits(f)
  BY <1>4, <1>5, <1>6, <1>7, <1>8
     DEF FrameQuiet, PhasePlaces, RunPlaces, KnownPlaces, GivesBack
<1> QED
  BY <1>1, <1>3, <1>4, <1>9, MovesQuiet

LEMMA PutOffQuiet ==
  ASSUME IInv, QInv, NEW w \in Workers, PutOff(w)
  PROVE  QInv'
<1> DEFINE t == Of(w)
           Fits(f) == FrameQuiet(f, turn[t], gateway[t], run[t], job[t])
<1>1. worker[w].pc = "recover" /\ UNCHANGED <<turn, gateway, run, job>>
  BY DEF PutOff, At
<1>2. Fits(worker[w]) /\ turn[t].status \in LateStatus
  BY <1>1, Mine DEF FrameOK, Of
<1>3. PICK f : Step(w, f) /\ f.pc = "settle" /\ f.turn = t /\ f.out = "defer"
  BY GoOutFields DEF PutOff
<1>4. turn[t].status # "running"
  BY <1>2 DEF LateStatus, Ended
<1>5. Fits(f)
  BY <1>1, <1>2, <1>3, <1>4
     DEF FrameQuiet, PhasePlaces, RunPlaces, TailPlaces, KnownPlaces
<1> QED
  BY <1>1, <1>3, <1>5, MovesQuiet

------------------------------------------------------------------------------
(* The steps that write the job *)

\* The job is marked before the gateway is called, or the process returns
LEMMA MarkedQuiet ==
  ASSUME IInv, QInv, NEW w \in Workers, worker[w].pc # "idle",
         job' = [job EXCEPT ![Of(w)].ext = TRUE], UNCHANGED <<turn, gateway, run>>,
         NEW f, Step(w, f), f.pc # "idle", f.turn = Of(w),
         \A j : j.ext = TRUE => FrameQuiet(f, turn[Of(w)], gateway[Of(w)], run[Of(w)], j)
  PROVE  QInv'
<1> DEFINE t == Of(w)
<1>1. t \in Turns /\ OwnsJob(w, job[t]) /\ RowQuiet(turn[t], gateway[t], run[t], job[t])
  BY Mine
<1>2. job \in [Turns -> Job]
  BY DEF IInv, Typed
<1>3. /\ job'[t].ext = TRUE /\ job'[t].status = "claimed" /\ job'[t].owner = w
      /\ \A u \in Turns : u # t => job'[u] = job[u]
  BY <1>1, <1>2 DEF Job, OwnsJob
<1>4. RowQuiet(turn[t], gateway[t], run[t], job'[t])
  BY <1>1, <1>3 DEF RowQuiet, OwnsJob
<1>5. OwnsJob(w, job'[t]) /\ FrameQuiet(f, turn[t], gateway[t], run[t], job'[t])
  BY <1>3 DEF OwnsJob
<1> QED
  BY <1>3, <1>4, <1>5, OwnStep

LEMMA FenceQuiet ==
  ASSUME IInv, QInv, NEW w \in Workers, Fence(w)
  PROVE  QInv'
<1> DEFINE t == Of(w)
<1>1. worker[w].pc = "fence" /\ UNCHANGED <<turn, gateway, run>>
  BY DEF Fence, At
<1>2. CASE job' = [job EXCEPT ![t].ext = TRUE] /\ Go(w, "launch")
  <2>1. PICK f : /\ Step(w, f) /\ f.pc = "launch" /\ f.turn = t
                 /\ f.phase = worker[w].phase
    BY <1>2, GoFields
  <2>2. FrameQuiet(worker[w], turn[t], gateway[t], run[t], job[t])
    BY <1>1, Mine
  <2>3. \A j : j.ext = TRUE => FrameQuiet(f, turn[t], gateway[t], run[t], j)
    BY <1>1, <2>1, <2>2 DEF FrameQuiet, PhasePlaces, RunPlaces, StillPlaces, KnownPlaces,
                            TailPlaces, GivesBack
  <2> QED
    BY <1>1, <1>2, <2>1, <2>3, MarkedQuiet
<1>3. CASE UNCHANGED job /\ Return(w)
  BY <1>1, <1>3, ReturnsQuiet
<1> QED
  BY <1>2, <1>3 DEF Fence

\* A process at the point of notifying an engineer goes on, or tries again later
LEMMA FromNotify ==
  ASSUME IInv, QInv, NEW w \in Workers, worker[w].pc = "notify",
         NEW f, f.phase = worker[w].phase, f.pc = "phase" \/ GivesBack(f), NEW j
  PROVE  FrameQuiet(f, turn[Of(w)], gateway[Of(w)], run[Of(w)], j)
<1>1. FrameQuiet(worker[w], turn[Of(w)], gateway[Of(w)], run[Of(w)], job[Of(w)])
  BY Mine
<1> QED
  BY <1>1 DEF FrameQuiet, PhasePlaces, RunPlaces, StillPlaces, KnownPlaces, TailPlaces, GivesBack

LEMMA NotifyQuiet ==
  ASSUME IInv, QInv, NEW w \in Workers, Notify(w) \/ NotifyRefused(w)
  PROVE  QInv'
<1> DEFINE t == Of(w)
           marked == [job EXCEPT ![t].ext = TRUE]
<1>1. worker[w].pc = "notify" /\ UNCHANGED <<turn, gateway, run>> /\ job' \in {job, marked}
  BY DEF Notify, NotifyRefused, At
<1>2. CASE Return(w) /\ UNCHANGED job
  BY <1>1, <1>2, ReturnsQuiet
<1>3. CASE Go(w, "phase") \/ GoOut(w, "settle", "defer")
  <2>1. PICK f : /\ Step(w, f) /\ f.turn = t /\ f.phase = worker[w].phase
                 /\ f.pc \in {"phase", "settle"}
                 /\ f.pc = "phase" \/ GivesBack(f)
    BY <1>3, GoFields, GoOutFields DEF GivesBack
  <2>2. \A j : FrameQuiet(f, turn[t], gateway[t], run[t], j)
    BY <1>1, <2>1, FromNotify
  <2>3. CASE UNCHANGED job
    BY <1>1, <2>1, <2>2, <2>3, MovesQuiet
  <2>4. CASE job' = marked
    BY <1>1, <2>1, <2>2, <2>4, MarkedQuiet
  <2> QED
    BY <1>1, <2>3, <2>4
<1> QED
  BY <1>2, <1>3 DEF Notify, NotifyRefused

\* A process gives its job back, or ends it
LEMMA SettleQuiet ==
  ASSUME IInv, QInv, NEW w \in Workers, Settle(w)
  PROVE  QInv'
<1> DEFINE t == Of(w)
           status == IF worker[w].out = "defer" THEN "queued" ELSE "done"
<1>1. worker[w].pc = "settle" /\ UNCHANGED <<turn, gateway, run>>
  BY DEF Settle, At
<1>2. /\ t \in Turns /\ OwnsJob(w, job[t]) /\ RowQuiet(turn[t], gateway[t], run[t], job[t])
      /\ FrameQuiet(worker[w], turn[t], gateway[t], run[t], job[t])
  BY <1>1, Mine
<1>3. job' = [job EXCEPT ![t].status = status, ![t].owner = NoWorker]
  BY <1>2 DEF Settle, Owns, OwnsJob
<1>4. job \in [Turns -> Job]
  BY DEF IInv, Typed
<1>5. /\ job'[t].ext = job[t].ext /\ job'[t].status = status
      /\ \A u \in Turns : u # t => job'[u] = job[u]
  BY <1>2, <1>3, <1>4 DEF Job
<1>6. status = "queued" => GivesBack(worker[w])
  BY <1>1 DEF GivesBack
<1>7. /\ status = "queued" /\ turn[t].status = "running" => Quiet(gateway[t])
      /\ status = "queued" /\ ActiveRow(turn[t]) => Known(gateway[t], run[t])
  BY <1>2, <1>6 DEF FrameQuiet
<1>8. turn[t].status \in OpenedStatus
  BY <1>2 DEF RowQuiet, OwnsJob
<1> HIDE DEF status
<1>9. RowQuiet(turn[t], gateway[t], run[t], job'[t])
  BY <1>2, <1>5, <1>7, <1>8 DEF RowQuiet
<1> QED
  BY <1>1, <1>5, <1>9, OwnStep DEF Settle, Idle

\* Nobody else is at a turn whose job waits
LEMMA ClaimQuiet ==
  ASSUME IInv, QInv, NEW w \in Workers, NEW t \in Turns, Claim(w, t)
  PROVE  QInv'
<1> DEFINE f == [Idle EXCEPT !.pc = "enter", !.turn = t]
<1>1. /\ worker[w].pc = "idle" /\ job[t].status = "queued"
      /\ UNCHANGED <<turn, gateway, run>>
      /\ job' = [job EXCEPT ![t].status = "claimed", ![t].owner = w]
  BY DEF Claim, At
<1>2. job \in [Turns -> Job] /\ worker \in [Workers -> Frame]
  BY DEF IInv, Typed
<1>3. /\ job'[t].ext = job[t].ext /\ job'[t].status = "claimed" /\ job'[t].owner = w
      /\ \A u \in Turns : u # t => job'[u] = job[u]
  BY <1>1, <1>2 DEF Job
<1>4. worker'[w] = f /\ \A v \in Workers : v # w => worker'[v] = worker[v]
  BY <1>2 DEF Claim, Step
<1>5. f.pc = "enter" /\ f.turn = t
  BY DEF Idle
<1> HIDE DEF f
<1>6. RowQuiet(turn[t], gateway[t], run[t], job[t])
  BY DEF QInv, RowsQuiet
<1>7. RowQuiet(turn[t], gateway[t], run[t], job'[t])
  BY <1>1, <1>3, <1>6 DEF RowQuiet
<1>8. RowsQuiet'
  BY <1>1, <1>3, <1>7 DEF RowsQuiet, QInv
<1>9. FrameQuiet(f, turn[t], gateway[t], run[t], job'[t])
  BY <1>1, <1>5, <1>6 DEF FrameQuiet, RowQuiet, PhasePlaces, RunPlaces, TailPlaces, GivesBack
<1>10. ASSUME NEW v \in Workers PROVE ProcessQuiet(v)'
  <2>1. CASE v = w
    BY <1>1, <1>3, <1>4, <1>5, <1>9, <2>1 DEF ProcessQuiet, Of, OwnsJob
  <2>2. CASE v # w
    <3> SUFFICES ASSUME worker[v].pc # "idle" PROVE ProcessQuiet(v)'
      BY <1>4, <2>2 DEF ProcessQuiet
    <3>1. Of(v) \in Turns /\ OwnsJob(v, job[Of(v)])
          /\ FrameQuiet(worker[v], turn[Of(v)], gateway[Of(v)], run[Of(v)], job[Of(v)])
      BY Mine
    <3>2. Of(v) # t
      BY <1>1, <3>1 DEF OwnsJob
    <3>3. Of(v)' = Of(v) /\ worker'[v] = worker[v] /\ job'[Of(v)] = job[Of(v)]
      BY <1>3, <1>4, <2>2, <3>1, <3>2 DEF Of
    <3> QED
      BY <1>1, <3>1, <3>3 DEF ProcessQuiet
  <2> QED
    BY <2>1, <2>2
<1> QED
  BY <1>8, <1>10 DEF QInv

\* The rows of a turn nobody is at are written
LEMMA NobodysStep ==
  ASSUME IInv, QInv, UNCHANGED worker, NEW t \in Turns,
         \/ job[t].status \in {"none", "queued"}
         \/ \A w \in Workers : ~HeldBy(w, t),
         \A u \in Turns : u # t =>
             /\ turn'[u] = turn[u] /\ gateway'[u] = gateway[u]
             /\ run'[u] = run[u] /\ job'[u] = job[u],
         RowQuiet(turn'[t], gateway'[t], run'[t], job'[t])
  PROVE  QInv'
<1>1. RowsQuiet'
  BY DEF RowsQuiet, QInv
<1>2. ASSUME NEW v \in Workers PROVE ProcessQuiet(v)'
  <2> SUFFICES ASSUME worker[v].pc # "idle" PROVE ProcessQuiet(v)'
    BY DEF ProcessQuiet
  <2>1. Of(v) \in Turns /\ OwnsJob(v, job[Of(v)])
        /\ FrameQuiet(worker[v], turn[Of(v)], gateway[Of(v)], run[Of(v)], job[Of(v)])
    BY Mine
  <2>2. Of(v) # t
    BY <2>1 DEF OwnsJob, HeldBy, Owns, At
  <2>3. Of(v)' = Of(v)
    BY DEF Of
  <2> QED
    BY <2>1, <2>2, <2>3 DEF ProcessQuiet
<1> QED
  BY <1>1, <1>2 DEF QInv

\* The claim of a process that died: a job without a mark has launched nothing
LEMMA LeaseRunsOutQuiet ==
  ASSUME IInv, QInv, NEW t \in Turns, LeaseRunsOut(t)
  PROVE  QInv'
<1>1. job \in [Turns -> Job] /\ gateway \in [Turns -> [Phases -> GatewayStatus]]
  BY DEF IInv, Typed
<1>2. job'[t] = AfterLapse(job[t]) /\ \A u \in Turns : u # t => job'[u] = job[u]
  BY <1>1 DEF LeaseRunsOut
<1>3. RowQuiet(turn[t], gateway[t], run[t], job[t]) /\ job[t].status = "claimed"
  BY DEF QInv, RowsQuiet, LeaseRunsOut
<1>4. /\ job'[t].ext = job[t].ext /\ job'[t].status \in {"queued", "done"}
      /\ job'[t].status = "queued" => ~job[t].ext
  <2> DEFINE j == job[t]
  <2>1. j \in Job
    BY <1>1
  <2> HIDE DEF j
  <2>2. CASE j.ext
    BY <2>1, <2>2, <1>2 DEF AfterLapse, Job, j
  <2>3. CASE ~j.ext
    BY <2>1, <2>3, <1>2 DEF AfterLapse, Job, j
  <2> QED
    BY <2>2, <2>3
<1>5. job'[t].status = "queued" => Quiet(gateway[t]) /\ Known(gateway[t], run[t])
  BY <1>1, <1>3, <1>4 DEF RowQuiet, Quiet, Known, CancelPhases, Phases, Job
<1>6. RowQuiet(turn[t], gateway[t], run[t], job'[t])
  BY <1>3, <1>4, <1>5 DEF RowQuiet
<1>7. UNCHANGED <<turn, gateway, run, worker>> /\ \A w \in Workers : ~HeldBy(w, t)
  BY DEF LeaseRunsOut
<1> QED
  BY <1>2, <1>6, <1>7, NobodysStep

------------------------------------------------------------------------------
(* The runs of a phase *)

LEMMA LaunchQuiet ==
  ASSUME IInv, QInv, NEW w \in Workers, Launch(w)
  PROVE  QInv'
<1> DEFINE t == Of(w)
           p == worker[w].phase
<1>1. worker[w].pc = "launch" /\ UNCHANGED <<turn, run, job>>
  BY DEF Launch, At
<1>2. /\ t \in Turns /\ OwnsJob(w, job[t]) /\ RowQuiet(turn[t], gateway[t], run[t], job[t])
      /\ FrameQuiet(worker[w], turn[t], gateway[t], run[t], job[t])
  BY <1>1, Mine
<1>3. p \in Phases /\ turn[t].status \in BegunStatus /\ job[t].ext /\ ~Over(turn[t])
  BY <1>1, <1>2 DEF FrameQuiet, PhasePlaces, TailPlaces
<1>4. /\ turn[t].status = "running" => Quiet(gateway[t])
      /\ ActiveRow(turn[t]) => Known(gateway[t], run[t])
  BY <1>1, <1>2 DEF FrameQuiet, StillPlaces, KnownPlaces
<1>5. \A u \in Turns : u # t => gateway'[u] = gateway[u]
  BY <1>2 DEF Launch, Launched, IInv, Typed
<1>6. \A q \in Phases : q # p => gateway'[t][q] = gateway[t][q]
  BY <1>2, <1>3 DEF Launch, Launched, IInv, Typed
<1>7. RowQuiet(turn[t], gateway'[t], run[t], job[t])
  BY <1>2, <1>3, <1>6 DEF RowQuiet, OwnsJob
<1>8. /\ turn[t].status = "running" => QuietBut(gateway'[t], p)
      /\ ActiveRow(turn[t]) => KnownBut(gateway'[t], run[t], p)
  BY <1>4, <1>6 DEF Quiet, QuietBut, Known, KnownBut, CancelPhases, Phases
<1>9. PICK f : Step(w, f) /\ f.pc \in {"record", "fail"} /\ f.turn = t /\ f.phase = p
  BY GoFields, GoOutFields DEF Launch
<1>10. FrameQuiet(f, turn[t], gateway'[t], run[t], job[t])
  BY <1>3, <1>8, <1>9 DEF FrameQuiet, StillPlaces, KnownPlaces, GivesBack
<1> QED
  BY <1>1, <1>2, <1>5, <1>7, <1>9, <1>10, OwnStep

LEMMA RecordRunQuiet ==
  ASSUME IInv, QInv, NEW w \in Workers, RecordRun(w)
  PROVE  QInv'
<1> DEFINE t == Of(w)
           p == worker[w].phase
<1>1. worker[w].pc = "record" /\ UNCHANGED <<turn, gateway, job>>
  BY DEF RecordRun, At
<1>2. /\ t \in Turns /\ OwnsJob(w, job[t]) /\ RowQuiet(turn[t], gateway[t], run[t], job[t])
      /\ FrameQuiet(worker[w], turn[t], gateway[t], run[t], job[t])
  BY <1>1, Mine
<1>3. p \in Phases /\ turn[t].status \in BegunStatus /\ ~Over(turn[t])
  BY <1>1, <1>2 DEF FrameQuiet, PhasePlaces, RunPlaces, TailPlaces
<1>4. /\ run'[t][p] = "running" /\ \A q \in Phases : q # p => run'[t][q] = run[t][q]
      /\ \A u \in Turns : u # t => run'[u] = run[u]
  BY <1>2, <1>3 DEF RecordRun, IInv, Typed
<1>5. /\ turn[t].status = "running" => QuietBut(gateway[t], p)
      /\ ActiveRow(turn[t]) => KnownBut(gateway[t], run[t], p)
  BY <1>1, <1>2 DEF FrameQuiet, RunPlaces
<1>6. ActiveRow(turn[t]) => Known(gateway[t], run'[t])
  BY <1>4, <1>5 DEF Known, KnownBut, CancelPhases, Phases
<1>7. RowQuiet(turn[t], gateway[t], run'[t], job[t])
  BY <1>2, <1>6 DEF RowQuiet
<1>8. PICK f : Step(w, f) /\ f.pc = "poll" /\ f.turn = t /\ f.phase = p
  BY GoFields DEF RecordRun
<1>9. FrameQuiet(f, turn[t], gateway[t], run'[t], job[t])
  BY <1>3, <1>5, <1>6, <1>8 DEF FrameQuiet, StillPlaces, GivesBack
<1> QED
  BY <1>1, <1>2, <1>4, <1>7, <1>8, <1>9, OwnStep

\* What a phase writes of its turn leaves the turn where it is
LEMMA PollWrites ==
  ASSUME IInv, NEW w \in Workers, Of(w) \in Turns, PollCompleted(w)
  PROVE  /\ turn'[Of(w)].status = turn[Of(w)].status /\ turn'[Of(w)].res = turn[Of(w)].res
         /\ \A u \in Turns : u # Of(w) => turn'[u] = turn[u]
<1> DEFINE t == Of(w)
<1>1. turn \in [Turns -> TurnRow] /\ turn[t] \in TurnRow
  BY DEF IInv, Typed
<1>2. CASE UNCHANGED turn
  BY <1>2
<1>3. CASE \E act \in {"continue", "answer", "reply"} : turn' = Classified(t, act)
  BY <1>1, <1>3 DEF Classified, TurnRow
<1>4. CASE turn' = [Classified(t, "handoff") EXCEPT ![t].dir = "human"]
  <2>1. turn' = [turn EXCEPT ![t] = [turn[t] EXCEPT !.act = "handoff", !.dir = "human"]]
    BY <1>1, <1>4 DEF Classified
  <2> QED
    BY <1>1, <2>1 DEF TurnRow
<1> QED
  BY <1>2, <1>3, <1>4 DEF PollCompleted

LEMMA PollCompletedQuiet ==
  ASSUME IInv, QInv, NEW w \in Workers, PollCompleted(w)
  PROVE  QInv'
<1> DEFINE t == Of(w)
           p == worker[w].phase
<1>1. worker[w].pc = "poll" /\ UNCHANGED <<gateway, job>> /\ gateway[t][p] = "completed"
  BY DEF PollCompleted, At
<1>2. /\ t \in Turns /\ OwnsJob(w, job[t]) /\ RowQuiet(turn[t], gateway[t], run[t], job[t])
      /\ FrameQuiet(worker[w], turn[t], gateway[t], run[t], job[t])
  BY <1>1, Mine
<1>3. p \in Phases /\ turn[t].status \in BegunStatus /\ ~Over(turn[t])
  BY <1>1, <1>2 DEF FrameQuiet, PhasePlaces, RunPlaces, TailPlaces
<1>4. /\ \A q \in Phases : q # p => run'[t][q] = run[t][q]
      /\ \A u \in Turns : u # t => run'[u] = run[u]
  BY <1>2, <1>3 DEF PollCompleted, RunCompleted, IInv, Typed
<1>5. /\ turn'[t].status = turn[t].status /\ turn'[t].res = turn[t].res
      /\ \A u \in Turns : u # t => turn'[u] = turn[u]
  BY <1>2, PollWrites
<1>6. /\ turn[t].status = "running" => Quiet(gateway[t])
      /\ ActiveRow(turn[t]) => Known(gateway[t], run'[t])
  BY <1>1, <1>2, <1>4
     DEF FrameQuiet, RunPlaces, KnownPlaces, QuietBut, Quiet, Known, CancelPhases, Phases
<1>7. RowQuiet(turn'[t], gateway[t], run'[t], job[t])
  BY <1>2, <1>5 DEF RowQuiet, OwnsJob, Over
<1>8. PICK f : /\ Step(w, f) /\ f.turn = t /\ f.phase = p
               /\ f.pc \in {"after", "settle"}
               /\ f.pc = "settle" => f.out = "end"
  BY GoFields, GoOutFields DEF PollCompleted, Return
<1>9. FrameQuiet(f, turn'[t], gateway[t], run'[t], job[t])
  BY <1>3, <1>5, <1>6, <1>8 DEF FrameQuiet, RunPlaces, GivesBack, Over, ActiveRow
<1> QED
  BY <1>1, <1>2, <1>4, <1>5, <1>7, <1>8, <1>9, OwnStep

\* A run that has ended is crossed off the list
LEMMA SeeStoppedQuiet ==
  ASSUME IInv, QInv, NEW w \in Workers, NEW p \in Phases, SeeStopped(w, p)
  PROVE  QInv'
<1> DEFINE t == Of(w)
           f == [worker[w] EXCEPT !.left = @ \ {p}]
<1>1. worker[w].pc = "recover" /\ UNCHANGED <<turn, gateway, job>> /\ gateway[t][p] # "running"
  BY DEF SeeStopped, At
<1>2. /\ t \in Turns /\ OwnsJob(w, job[t]) /\ RowQuiet(turn[t], gateway[t], run[t], job[t])
      /\ FrameQuiet(worker[w], turn[t], gateway[t], run[t], job[t])
      /\ worker[w] \in Frame
  BY <1>1, Mine
<1>3. Step(w, f)
  BY DEF SeeStopped
<1>4. f.pc = "recover" /\ f.turn = t /\ f.left = worker[w].left \ {p}
  BY <1>1, <1>2 DEF Frame, Of
<1> HIDE DEF f
<1>5. /\ \A q \in Phases : q # p => run'[t][q] = run[t][q]
      /\ \A u \in Turns : u # t => run'[u] = run[u]
  BY <1>2 DEF SeeStopped, IInv, Typed
<1>6. RowQuiet(turn[t], gateway[t], run'[t], job[t])
  BY <1>2 DEF RowQuiet, OwnsJob
<1>7. ActiveRow(turn[t]) =>
          /\ Known(gateway[t], run'[t])
          /\ \A q \in CancelPhases : gateway[t][q] = "running" => q \in f.left
  BY <1>1, <1>2, <1>4, <1>5 DEF FrameQuiet, Known, CancelPhases, Phases
<1>8. ~Over(turn[t])
  BY <1>1, <1>2 DEF FrameQuiet, TailPlaces
<1>9. FrameQuiet(f, turn[t], gateway[t], run'[t], job[t])
  BY <1>4, <1>7, <1>8 DEF FrameQuiet, PhasePlaces, RunPlaces, StillPlaces, KnownPlaces, GivesBack
<1> QED
  BY <1>1, <1>2, <1>3, <1>4, <1>5, <1>6, <1>9, OwnStep

\* A run ends at the gateway: fewer are going
LEMMA GatewayEndsQuiet ==
  ASSUME IInv, QInv, NEW t \in Turns, NEW p \in Phases, GatewayEnds(t, p)
  PROVE  QInv'
<1>1. /\ gateway[t][p] = "running"
      /\ \A u \in Turns, q \in Phases : /\ gateway'[u][q] = "running" => gateway[u][q] = "running"
                                        /\ gateway'[u][q] # "none" => gateway[u][q] # "none"
  BY DEF GatewayEnds, IInv, Typed
<1>2. UNCHANGED <<turn, run, job, worker>>
  BY DEF GatewayEnds
<1>3. ASSUME NEW u \in Turns
      PROVE  /\ Quiet(gateway[u]) => Quiet(gateway'[u])
             /\ \A x : QuietBut(gateway[u], x) => QuietBut(gateway'[u], x)
             /\ Known(gateway[u], run[u]) => Known(gateway'[u], run[u])
             /\ \A x : KnownBut(gateway[u], run[u], x) => KnownBut(gateway'[u], run[u], x)
  BY <1>1 DEF Quiet, QuietBut, Known, KnownBut, CancelPhases, Phases
<1>4. RowsQuiet'
  BY <1>1, <1>2, <1>3 DEF QInv, RowsQuiet, RowQuiet
<1>5. ASSUME NEW v \in Workers, worker[v].pc # "idle" PROVE ProcessQuiet(v)'
  <2> DEFINE u == Of(v)
  <2>1. u \in Turns /\ OwnsJob(v, job[u])
        /\ FrameQuiet(worker[v], turn[u], gateway[u], run[u], job[u])
    BY <1>5, Mine
  <2>2. \A q \in CancelPhases : gateway'[u][q] = "running" => gateway[u][q] = "running"
    BY <1>1, <2>1 DEF CancelPhases, Phases
  <2>3. FrameQuiet(worker[v], turn[u], gateway'[u], run[u], job[u])
    BY <1>3, <2>1, <2>2 DEF FrameQuiet
  <2> QED
    BY <1>2, <2>1, <2>3 DEF ProcessQuiet, Of
<1> QED
  BY <1>2, <1>4, <1>5 DEF QInv, ProcessQuiet

------------------------------------------------------------------------------
(* The steps of a process that write its turn *)

\* The process writes what became of its turn, and returns
LEMMA EndsQuiet ==
  ASSUME IInv, QInv, NEW w \in Workers, worker[w].pc # "idle", Return(w),
         \A u \in Turns : u # Of(w) => turn'[u] = turn[u] /\ run'[u] = run[u],
         turn'[Of(w)].status \in Ended,
         Over(turn'[Of(w)]) => Quiet(gateway[Of(w)]),
         UNCHANGED <<gateway, job>>
  PROVE  QInv'
<1> DEFINE t == Of(w)
<1>1. t \in Turns /\ OwnsJob(w, job[t]) /\ RowQuiet(turn[t], gateway[t], run[t], job[t])
  BY Mine
<1>2. RowQuiet(turn'[t], gateway[t], run'[t], job[t])
  BY <1>1 DEF RowQuiet, OwnsJob, BegunStatus, OpenedStatus
<1>3. PICK f : Step(w, f) /\ f.pc = "settle" /\ f.turn = t /\ f.out = "end"
  BY GoOutFields DEF Return
<1> QED
  BY <1>1, <1>2, <1>3, EndedFrame, OwnStep

\* A turn that has not begun has launched nothing
LEMMA NotBegunQuiet ==
  ASSUME NEW row, NEW g, NEW r, NEW j, RowQuiet(row, g, r, j), row.status \notin BegunStatus
  PROVE  Quiet(g) /\ Known(g, r)
BY DEF RowQuiet, Quiet, Known, CancelPhases, Phases

LEMMA RefuseSnapshotQuiet ==
  ASSUME IInv, QInv, NEW w \in Workers, RefuseSnapshot(w)
  PROVE  QInv'
<1>1. worker[w].pc # "idle" /\ Of(w) \in Turns /\ UNCHANGED <<run, gateway, job>> /\ Return(w)
  BY OfTurn DEF RefuseSnapshot, At
<1>2. CASE UNCHANGED turn
  BY <1>1, <1>2, ReturnsQuiet
<1>3. CASE turn' = [turn EXCEPT ![Of(w)].status = "failed"]
  <2>1. turn'[Of(w)].status = "failed" /\ \A u \in Turns : u # Of(w) => turn'[u] = turn[u]
    BY <1>1, <1>3 DEF IInv, Typed, TurnRow
  <2> QED
    BY <1>1, <2>1, EndsQuiet DEF Ended, Over
<1> QED
  BY <1>2, <1>3 DEF RefuseSnapshot

LEMMA CompleteQuiet ==
  ASSUME IInv, QInv, NEW w \in Workers, Complete(w)
  PROVE  QInv'
<1>1. worker[w].pc = "complete" /\ UNCHANGED <<run, gateway, job>> /\ Return(w)
  BY DEF Complete, At
<1>2. CASE UNCHANGED turn
  BY <1>1, <1>2, ReturnsQuiet
<1>3. CASE turn[Of(w)].status = "running"
  <2>1. Of(w) \in Turns /\ Quiet(gateway[Of(w)])
    BY <1>1, <1>3, Mine DEF FrameQuiet, StillPlaces
  <2>2. turn' = [turn EXCEPT ![Of(w)] =
                    [turn[Of(w)] EXCEPT !.status = "completed", !.res = worker[w].out]]
    BY <1>3, <2>1 DEF Complete, IInv, Typed
  <2>3. turn'[Of(w)].status = "completed" /\ \A u \in Turns : u # Of(w) => turn'[u] = turn[u]
    BY <2>1, <2>2 DEF IInv, Typed, TurnRow
  <2> QED
    BY <1>1, <2>1, <2>3, EndsQuiet DEF Ended
<1> QED
  BY <1>2, <1>3 DEF Complete

LEMMA SupersedeQuiet ==
  ASSUME IInv, QInv, NEW w \in Workers, Supersede(w)
  PROVE  QInv'
<1> DEFINE t == Of(w)
<1>1. /\ worker[w].pc = "recover" /\ worker[w].left = {}
      /\ UNCHANGED <<run, gateway, job>> /\ Return(w)
  BY DEF Supersede, At
<1>2. CASE UNCHANGED turn
  BY <1>1, <1>2, ReturnsQuiet
<1>3. CASE turn[t].status \in Live
  <2>1. /\ t \in Turns /\ turn[t].status \in LateStatus
        /\ FrameQuiet(worker[w], turn[t], gateway[t], run[t], job[t])
    BY <1>1, Mine DEF FrameOK, Of
  <2>2. ActiveRow(turn[t])
    BY <1>3, <2>1 DEF ActiveRow, LateStatus, Live, Ended
  <2>3. Quiet(gateway[t])
    BY <1>1, <2>1, <2>2 DEF FrameQuiet, Quiet
  <2>4. turn' = [turn EXCEPT ![t] =
                    [turn[t] EXCEPT !.status = "superseded", !.why = "revision"]]
    BY <1>3, <2>1 DEF Supersede, IInv, Typed
  <2>5. turn'[t].status = "superseded" /\ \A u \in Turns : u # t => turn'[u] = turn[u]
    BY <2>1, <2>4 DEF IInv, Typed, TurnRow
  <2> QED
    BY <1>1, <2>3, <2>5, EndsQuiet DEF Ended
<1> QED
  BY <1>2, <1>3 DEF Supersede

LEMMA FailQuiet ==
  ASSUME IInv, QInv, NEW w \in Workers, Fail(w)
  PROVE  QInv'
<1> DEFINE t == Of(w)
           p == worker[w].phase
<1>1. worker[w].pc = "fail" /\ UNCHANGED <<gateway, job>>
  BY DEF Fail, At
<1>2. /\ t \in Turns /\ OwnsJob(w, job[t]) /\ RowQuiet(turn[t], gateway[t], run[t], job[t])
      /\ FrameQuiet(worker[w], turn[t], gateway[t], run[t], job[t])
  BY <1>1, Mine
<1>3. \A u \in Turns : u # t => run'[u] = run[u]
  BY <1>2 DEF Fail, RunEnded, IInv, Typed
<1>4. CASE ~Failable(turn[t])
  <2>1. Return(w) /\ UNCHANGED turn
    BY <1>4 DEF Fail
  <2>2. PICK f : Step(w, f) /\ f.pc = "settle" /\ f.turn = t /\ f.out = "end"
    BY <2>1, GoOutFields DEF Return
  <2>3. RowQuiet(turn[t], gateway[t], run'[t], job[t])
    BY <1>2 DEF RowQuiet, OwnsJob
  <2> QED
    BY <1>1, <1>2, <1>3, <2>1, <2>2, <2>3, EndedFrame, OwnStep
<1>5. CASE Failable(turn[t])
  <2>1. PICK status \in {"unknown", "failed"} : turn' = [turn EXCEPT ![t].status = status]
    BY <1>5 DEF Fail
  <2>2. turn'[t].status = status /\ \A u \in Turns : u # t => turn'[u] = turn[u]
    BY <1>2, <2>1 DEF IInv, Typed, TurnRow
  <2>3. RowQuiet(turn'[t], gateway[t], run'[t], job[t])
    BY <1>2, <2>2 DEF RowQuiet, OwnsJob, BegunStatus, OpenedStatus, Ended, Over
  <2>4. PICK f : Step(w, f) /\ f.pc \in {"handover", "settle"} /\ f.turn = t
    BY <1>5, GoOutFields DEF Fail, Return
  <2>5. FrameQuiet(f, turn'[t], gateway[t], run'[t], job[t])
    BY <2>2, <2>4 DEF FrameQuiet, PhasePlaces, RunPlaces, Over, ActiveRow
  <2> QED
    BY <1>1, <1>2, <1>3, <2>2, <2>3, <2>4, <2>5, OwnStep
<1> QED
  BY <1>4, <1>5

LEMMA StartQuiet ==
  ASSUME IInv, QInv, NEW w \in Workers, Start(w)
  PROVE  QInv'
<1> DEFINE t == Of(w)
           old == turn[t]
<1>1. worker[w].pc = "start" /\ UNCHANGED <<run, gateway, job>>
  BY DEF Start, At
<1>2. /\ t \in Turns /\ OwnsJob(w, job[t]) /\ RowQuiet(old, gateway[t], run[t], job[t])
      /\ turn \in [Turns -> TurnRow] /\ old \in TurnRow
  BY <1>1, Mine DEF IInv, Typed
<1>3. old.status = "pending" => Quiet(gateway[t]) /\ Known(gateway[t], run[t])
  BY <1>2, NotBegunQuiet DEF BegunStatus, Ended
<1>4. CASE Return(w) /\ UNCHANGED turn
  BY <1>1, <1>4, ReturnsQuiet
<1>5. CASE /\ old.status = "pending" /\ Return(w)
           /\ SetTurn(t, [old EXCEPT !.status = "superseded", !.why = "blocked"])
  <2>1. turn'[t].status = "superseded" /\ \A u \in Turns : u # t => turn'[u] = turn[u]
    BY <1>2, <1>5 DEF SetTurn, TurnRow
  <2> QED
    BY <1>1, <1>3, <1>5, <2>1, EndsQuiet DEF Ended
<1>6. CASE old.status = "pending" /\ GoOut(w, "settle", "defer") /\ UNCHANGED turn
  <2>1. PICK f : Step(w, f) /\ f.pc = "settle" /\ f.turn = t
    BY <1>6, GoOutFields
  <2>2. FrameQuiet(f, old, gateway[t], run[t], job[t])
    BY <1>6, <2>1 DEF FrameQuiet, PhasePlaces, RunPlaces, TailPlaces, ActiveRow
  <2> QED
    BY <1>1, <1>6, <2>1, <2>2, MovesQuiet
<1>7. CASE /\ old.status = "pending" /\ SetTurn(t, StartedRow(old))
           /\ EnterPhases(w, StartedRow(old))
  <2> DEFINE row == StartedRow(old)
  <2>1. row.status = "running" /\ row.kind \in {old.kind, "investigation_feedback"}
    BY <1>2 DEF StartedRow, TurnRow
  <2>2. row.kind \in Kinds
    BY <1>2, <1>7, <2>1 DEF IInv, KindInv, TurnRow, OpenedStatus, Live, Kinds
  <2>3. turn'[t] = row /\ \A u \in Turns : u # t => turn'[u] = turn[u]
    BY <1>2, <1>7 DEF SetTurn
  <2> HIDE DEF row
  <2>4. PICK place \in {"phase", "notify"} : GoPhaseAt(w, place, FirstPhase(row.kind))
    BY <1>7 DEF EnterPhases, Step, GoPhaseAt, row
  <2>5. PICK f : /\ Step(w, f) /\ f.pc = place /\ f.turn = t
                 /\ f.phase = FirstPhase(row.kind)
    BY <2>4, GoPhaseFields
  <2>6. f.phase \in Phases
    BY <2>2, <2>5, FirstPhaseOK
  <2>7. row.status \in BegunStatus /\ row.status \in OpenedStatus /\ ~Over(row)
    BY <2>1 DEF BegunStatus, OpenedStatus, Live, Over
  <2>8. RowQuiet(row, gateway[t], run[t], job[t])
    BY <1>2, <2>1, <2>7 DEF RowQuiet, OwnsJob
  <2>9. FrameQuiet(f, row, gateway[t], run[t], job[t])
    BY <1>3, <1>7, <2>5, <2>6, <2>7 DEF FrameQuiet, RunPlaces, GivesBack
  <2> QED
    BY <1>1, <1>2, <2>3, <2>5, <2>8, <2>9, OwnStep
<1> QED
  BY <1>4, <1>5, <1>6, <1>7 DEF Start

LEMMA PromptMissingQuiet ==
  ASSUME IInv, QInv, NEW w \in Workers, PromptMissing(w)
  PROVE  QInv'
<1> DEFINE t == Of(w)
<1>1. worker[w].pc = "enter" /\ UNCHANGED <<run, gateway, job>>
  BY DEF PromptMissing, At
<1>2. /\ t \in Turns /\ OwnsJob(w, job[t]) /\ RowQuiet(turn[t], gateway[t], run[t], job[t])
      /\ FrameQuiet(worker[w], turn[t], gateway[t], run[t], job[t])
  BY <1>1, Mine
<1>3. CASE Return(w) /\ UNCHANGED turn
  BY <1>1, <1>3, ReturnsQuiet
<1>4. CASE turn' = [turn EXCEPT ![t].dir = "human"] /\ HandOverAndEnd(w)
  <2>1. /\ turn'[t].status = turn[t].status /\ turn'[t].res = turn[t].res
        /\ \A u \in Turns : u # t => turn'[u] = turn[u]
    BY <1>2, <1>4 DEF IInv, Typed, TurnRow
  <2>2. RowQuiet(turn'[t], gateway[t], run[t], job[t])
    BY <1>2, <2>1 DEF RowQuiet, OwnsJob, Over
  <2>3. PICK f : Step(w, f) /\ f.pc = "handover" /\ f.turn = t
    BY <1>4, GoOutFields DEF HandOverAndEnd
  <2>4. FrameQuiet(f, turn'[t], gateway[t], run[t], job[t])
    BY <1>1, <1>2, <2>1, <2>3
       DEF FrameQuiet, PhasePlaces, RunPlaces, StillPlaces, KnownPlaces, TailPlaces, GivesBack, Over
  <2> QED
    BY <1>1, <1>2, <2>1, <2>2, <2>3, <2>4, OwnStep
<1> QED
  BY <1>3, <1>4 DEF PromptMissing

------------------------------------------------------------------------------
(* What happens to a turn while a process may be at it *)

\* How intake, routing and tools may move the row of a turn
Drifts(r, s) ==
    \/ s.status = r.status /\ s.res = r.res
    \/ r.status \in {"none", "routing"} /\ s.status \in {"routing", "dropped"}
    \/ r.status = "running" /\ s.status = "cancel_requested"
    \/ r.status = "running" /\ s.status = "completed" /\ s.res = "solved"
    \/ r.status = "pending" /\ s.status = "superseded"

LEMMA DriftingRow ==
  ASSUME NEW r, NEW s, NEW g, NEW n, NEW j, Drifts(r, s), RowQuiet(r, g, n, j)
  PROVE  RowQuiet(s, g, n, j)
<1>1. CASE s.status = r.status /\ s.res = r.res
  BY <1>1 DEF RowQuiet, Over, ActiveRow
<1>2. CASE r.status \in {"none", "routing"} /\ s.status \in {"routing", "dropped"}
  <2>1. r.status \notin BegunStatus /\ r.status \notin OpenedStatus
    BY <1>2 DEF BegunStatus, OpenedStatus, Live, Ended
  <2> QED
    BY <1>2, <2>1 DEF RowQuiet, Over, ActiveRow
<1>3. CASE r.status = "running" /\ s.status \in {"cancel_requested", "completed"}
           /\ (s.status = "completed" => s.res = "solved")
  BY <1>3 DEF RowQuiet, Over, ActiveRow, BegunStatus, OpenedStatus, Live, Ended
<1>4. CASE r.status = "pending" /\ s.status = "superseded"
  <2>1. Quiet(g)
    BY <1>4, NotBegunQuiet DEF BegunStatus, Ended
  <2> QED
    BY <1>4, <2>1 DEF RowQuiet, ActiveRow, BegunStatus, OpenedStatus, Live, Ended
<1> QED
  BY <1>1, <1>2, <1>3, <1>4 DEF Drifts

LEMMA DriftingFrame ==
  ASSUME NEW f \in Frame, NEW r, NEW s, NEW g, NEW n, NEW j, Drifts(r, s), f.pc # "idle",
         f.pc \in {"list", "recover"} => r.status \in LateStatus,
         r.status \in OpenedStatus, FrameQuiet(f, r, g, n, j)
  PROVE  FrameQuiet(f, s, g, n, j)
<1>1. CASE s.status = r.status /\ s.res = r.res
  BY <1>1 DEF FrameQuiet, Over, ActiveRow
<1>2. CASE r.status = "running" /\ s.status \in {"cancel_requested", "completed"}
           /\ (s.status = "completed" => s.res = "solved")
  BY <1>2 DEF FrameQuiet, Over, ActiveRow, BegunStatus, Ended
<1>3. CASE r.status = "pending" /\ s.status = "superseded"
  <2>1. r.status \notin BegunStatus /\ r.status \notin LateStatus
    BY <1>3 DEF BegunStatus, LateStatus, Ended
  <2>2. f.pc \in TailPlaces
    BY <2>1 DEF FrameQuiet, PhasePlaces, RunPlaces, TailPlaces, Frame, Place
  <2> QED
    BY <1>3, <2>2 DEF FrameQuiet, TailPlaces, PhasePlaces, RunPlaces, ActiveRow
<1>4. r.status \notin {"none", "routing"}
  BY DEF OpenedStatus, Live, Ended
<1> QED
  BY <1>1, <1>2, <1>3, <1>4 DEF Drifts

LEMMA RowsDrift ==
  ASSUME IInv, QInv, UNCHANGED <<gateway, run, job, worker>>,
         \A t \in Turns : Drifts(turn[t], turn'[t])
  PROVE  QInv'
<1>1. RowsQuiet'
  BY DriftingRow DEF QInv, RowsQuiet
<1>2. ASSUME NEW v \in Workers PROVE ProcessQuiet(v)'
  <2> SUFFICES ASSUME worker[v].pc # "idle" PROVE ProcessQuiet(v)'
    BY DEF ProcessQuiet
  <2> DEFINE u == Of(v)
  <2>1. /\ u \in Turns /\ OwnsJob(v, job[u]) /\ worker[v] \in Frame
        /\ FrameQuiet(worker[v], turn[u], gateway[u], run[u], job[u])
        /\ RowQuiet(turn[u], gateway[u], run[u], job[u])
        /\ worker[v].pc \in {"list", "recover"} => turn[u].status \in LateStatus
    BY Mine DEF FrameOK, Of
  <2>2. turn[u].status \in OpenedStatus
    BY <2>1 DEF RowQuiet, OwnsJob
  <2>3. FrameQuiet(worker[v], turn'[u], gateway[u], run[u], job[u])
    BY <2>1, <2>2, DriftingFrame
  <2> QED
    BY <2>1, <2>3 DEF ProcessQuiet, Of
<1> QED
  BY <1>1, <1>2 DEF QInv

LEMMA IntakeQuiet ==
  ASSUME IInv, QInv, NEW t \in Turns, Intake(t)
  PROVE  QInv'
<1> PICK closed \in Closing :
        \/ \E event \in {"created", "comment"} : AcceptFirst(t, event, closed)
        \/ AcceptComment(t, closed)
        \/ AcceptCreatedLate(t, closed)
  BY DEF Intake
<1>1. turn[t].status = "none" /\ UNCHANGED <<gateway, run, job, worker>>
  BY DEF AcceptFirst, AcceptComment, AcceptCreatedLate
<1>2. \A e, n : Arrived(e, n).status = "routing"
  BY DEF Arrived, NoRow
<1>3. turn \in [Turns -> TurnRow]
  BY DEF IInv, Typed
<1>4. turn'[t].status = "routing"
  BY <1>2, <1>3 DEF AcceptFirst, AcceptComment, AcceptCreatedLate, SetTurn, Cancelling
<1>5. ASSUME NEW u \in Turns, u # t PROVE Drifts(turn[u], turn'[u])
  <2>1. turn'[u] \in {turn[u], CancelledBy(turn[u])}
    BY <1>3, <1>5 DEF AcceptFirst, AcceptComment, AcceptCreatedLate, SetTurn, Cancelling
  <2>2. turn[u] \in TurnRow
    BY <1>3
  <2> QED
    BY <2>1, <2>2 DEF CancelledBy, Drifts, TurnRow
<1>6. Drifts(turn[t], turn'[t])
  BY <1>1, <1>4 DEF Drifts
<1> QED
  BY <1>1, <1>5, <1>6, RowsDrift

LEMMA OpensQuiet ==
  ASSUME IInv, QInv, NEW t \in Turns, turn[t].status \in {"none", "routing"}, NEW row,
         row.status = "pending", Open(t, row), UNCHANGED <<gateway, run, worker>>
  PROVE  QInv'
<1>1. turn \in [Turns -> TurnRow] /\ job \in [Turns -> Job]
  BY DEF IInv, Typed
<1>2. /\ turn'[t] = row /\ job'[t] = NewJob
      /\ \A u \in Turns : u # t => turn'[u] = turn[u] /\ job'[u] = job[u]
  BY <1>1 DEF Open, SetTurn
<1>3. RowQuiet(turn[t], gateway[t], run[t], job[t])
  BY DEF QInv, RowsQuiet
<1>4. turn[t].status \notin BegunStatus /\ turn[t].status \notin OpenedStatus
  BY DEF BegunStatus, OpenedStatus, Live, Ended
<1>5. job[t].status = "none" /\ \A q \in Phases : gateway[t][q] = "none"
  BY <1>3, <1>4 DEF RowQuiet
<1>6. RowQuiet(row, gateway[t], run[t], NewJob)
  BY <1>5 DEF RowQuiet, Over, ActiveRow, OpenedStatus, Live
<1> QED
  BY <1>2, <1>5, <1>6, NobodysStep

LEMMA RouteQuiet ==
  ASSUME IInv, QInv, NEW t \in Turns, Route(t)
  PROVE  QInv'
<1>1. CASE DropBlocked(t) \/ DropOutdated(t)
  <2>1. turn[t].status = "routing" /\ UNCHANGED <<gateway, run, job, worker>>
    BY <1>1 DEF DropBlocked, DropOutdated
  <2>2. turn'[t].status = "dropped" /\ \A u \in Turns : u # t => turn'[u] = turn[u]
    <3>1. turn \in [Turns -> TurnRow] /\ turn[t] \in TurnRow
      BY DEF IInv, Typed
    <3>2. PICK why : turn' = [turn EXCEPT ![t] = [turn[t] EXCEPT !.status = "dropped", !.why = why]]
      BY <1>1 DEF DropBlocked, DropOutdated, SetTurn
    <3> QED
      BY <3>1, <3>2 DEF TurnRow
  <2>3. \A u \in Turns : Drifts(turn[u], turn'[u])
    BY <2>1, <2>2 DEF Drifts
  <2> QED
    BY <2>1, <2>3, RowsDrift
<1>2. ASSUME NEW task \in {"automation", "investigation"}, HandOff(t, task)
      PROVE  QInv'
  <2> DEFINE row == RowFor(t, binding'.task)
  <2>1. turn[t].status = "routing" /\ UNCHANGED <<gateway, run, worker>> /\ Open(t, row)
    BY <1>2 DEF HandOff
  <2>2. row.status = "pending"
    BY DEF RowFor, IInv, Typed, TurnRow
  <2> QED
    BY <2>1, <2>2, OpensQuiet
<1> QED
  BY <1>1, <1>2 DEF Route

LEMMA EngineerQuiet ==
  ASSUME IInv, QInv, NEW t \in Turns, Engineer(t)
  PROVE  QInv'
<1>1. turn[t].status = "none" /\ UNCHANGED <<gateway, run, worker>>
  BY DEF Engineer, CreateFeedbackTurn, CreateReplyTurn
<1>2. PICK row : Open(t, row) /\ row.status = "pending"
  <2>1. CASE CreateFeedbackTurn(t)
    <3> DEFINE row == [NoRow EXCEPT !.status = "pending", !.event = "feedback",
                                    !.rev = case.rev, !.kind = "investigation_feedback",
                                    !.dir = "investigation"]
    <3>1. Open(t, row)
      BY <2>1 DEF CreateFeedbackTurn
    <3>2. row.status = "pending"
      BY DEF NoRow
    <3> QED
      BY <3>1, <3>2
  <2>2. ASSUME NEW s \in Turns, CreateReplyTurn(t, s)
        PROVE  \E row : Open(t, row) /\ row.status = "pending"
    <3> DEFINE row == [NoRow EXCEPT !.status = "pending", !.event = "reply", !.rev = case.rev,
                                    !.kind = "investigation_reply", !.dir = "investigation",
                                    !.source = s]
    <3>1. Open(t, row)
      BY <2>2 DEF CreateReplyTurn
    <3>2. row.status = "pending"
      BY DEF NoRow
    <3> QED
      BY <3>1, <3>2
  <2> QED
    BY <2>1, <2>2 DEF Engineer
<1> QED
  BY <1>1, <1>2, OpensQuiet

LEMMA ToolStepQuiet ==
  ASSUME IInv, QInv, NEW t \in Turns, ToolStep(t)
  PROVE  QInv'
<1>1. turn \in [Turns -> TurnRow] /\ UNCHANGED <<gateway, run, job, worker>>
  BY DEF ToolStep, CallTool, RecordDirection, Escalate, Solve, IInv, Typed
<1>2. CASE UNCHANGED turn
  <2>1. \A u \in Turns : Drifts(turn[u], turn'[u])
    BY <1>2 DEF Drifts
  <2> QED
    BY <1>1, <2>1, RowsDrift
<1>3. ASSUME NEW dir \in Directions, RecordDirection(t, dir) PROVE QInv'
  <2>1. CASE turn' = [turn EXCEPT ![t].dir = dir]
    <3>1. \A u \in Turns : Drifts(turn[u], turn'[u])
      BY <1>1, <2>1 DEF Drifts, TurnRow
    <3> QED
      BY <1>1, <3>1, RowsDrift
  <2> QED
    BY <1>2, <1>3, <2>1 DEF RecordDirection
<1>4. CASE Solve(t)
  <2>1. CASE turn[t].status = "running" /\ turn[t].rev = case.rev
    <3>1. ASSUME NEW u \in Turns PROVE Drifts(turn[u], turn'[u])
      <4>1. turn[u] \in TurnRow
        BY <1>1
      <4>2. CASE u = t
        <5>1. turn'[u] = [turn[u] EXCEPT !.status = "completed", !.res = "solved"]
          BY <1>4, <2>1, <4>2 DEF Solve
        <5> QED
          BY <2>1, <4>1, <4>2, <5>1 DEF Drifts, TurnRow
      <4>3. CASE u # t /\ turn[u].status = "pending"
        <5>1. turn'[u] = [turn[u] EXCEPT !.status = "superseded", !.why = "blocked"]
          BY <1>4, <2>1, <4>3 DEF Solve
        <5> QED
          BY <4>1, <4>3, <5>1 DEF Drifts, TurnRow
      <4>4. CASE u # t /\ turn[u].status # "pending"
        BY <1>4, <2>1, <4>4 DEF Solve, Drifts
      <4> QED
        BY <4>2, <4>3, <4>4
    <3> QED
      BY <1>1, <3>1, RowsDrift
  <2> QED
    BY <1>2, <1>4, <2>1 DEF Solve
<1>5. CASE Escalate(t) \/ \E x \in ToolsCalled : CallTool(t, x)
  BY <1>2, <1>5 DEF Escalate, CallTool
<1> QED
  BY <1>3, <1>4, <1>5 DEF ToolStep

------------------------------------------------------------------------------
(* The invariant *)

LEMMA StutterQuiet ==
  ASSUME IInv, QInv, UNCHANGED <<turn, gateway, run, job, worker>>
  PROVE  QInv'
<1>1. \A u \in Turns : Drifts(turn[u], turn'[u])
  BY DEF Drifts
<1> QED
  BY <1>1, RowsDrift

LEMMA WorkQuiet ==
  ASSUME IInv, QInv, NEW w \in Workers, Work(w)
  PROVE  QInv'
BY EnterQuiet, RefuseSnapshotQuiet, StartQuiet, NotifyQuiet, BeginPhaseQuiet, FenceQuiet,
   LaunchQuiet, RecordRunQuiet, PollCompletedQuiet, PollQuiet, AfterPhaseQuiet, HandoverQuiet,
   CompleteQuiet, FailQuiet, ListRunsQuiet, SeeStoppedQuiet, SupersedeQuiet, SettleQuiet
   DEF Work

\* Every step but the lapse of a lease under a live owner
LEMMA StepQuiet ==
  ASSUME IInv, QInv, [Next]_vars, \A w \in Workers : ~OwnerStalls(w)
  PROVE  QInv'
<1>1. ASSUME NEW t \in Turns,
             Intake(t) \/ Route(t) \/ Engineer(t) \/ ToolStep(t) \/ LeaseRunsOut(t)
      PROVE  QInv'
  BY <1>1, IntakeQuiet, RouteQuiet, EngineerQuiet, ToolStepQuiet, LeaseRunsOutQuiet
<1>2. ASSUME NEW closed \in BOOLEAN, AcceptUpdate(closed) PROVE QInv'
  BY <1>2, StutterQuiet DEF AcceptUpdate
<1>3. ASSUME NEW t \in Turns, NEW p \in Phases, GatewayEnds(t, p) PROVE QInv'
  BY <1>3, GatewayEndsQuiet
<1>4. ASSUME NEW w \in Workers, NEW t \in Turns, Claim(w, t) PROVE QInv'
  BY <1>4, ClaimQuiet
<1>5. ASSUME NEW w \in Workers,
             \/ Work(w) \/ PromptMissing(w) \/ NotifyRefused(w) \/ PollGivesUp(w) \/ PutOff(w)
             \/ Fault(w) \/ Crash(w)
      PROVE  QInv'
  BY <1>5, WorkQuiet, PromptMissingQuiet, NotifyQuiet, PollQuiet, PutOffQuiet, FaultQuiet,
     CrashQuiet
<1>6. CASE UNCHANGED vars
  BY <1>6, StutterQuiet DEF vars
<1> QED
  BY <1>1, <1>2, <1>3, <1>4, <1>5, <1>6 DEF Next

\* What goes wrong is counted, one at a time
LEMMA FaultsCounted ==
  ASSUME [Next]_vars
  PROVE  UNCHANGED used \/ \E f \in Faults : Spend(f)
<1>1. ASSUME NEW t \in Turns,
             Intake(t) \/ Route(t) \/ Engineer(t) \/ ToolStep(t) \/ LeaseRunsOut(t)
      PROVE  UNCHANGED used
  BY <1>1 DEF Intake, AcceptFirst, AcceptComment, AcceptCreatedLate, Route, DropBlocked,
              DropOutdated, HandOff, Engineer, CreateFeedbackTurn, CreateReplyTurn,
              ToolStep, CallTool, RecordDirection, Escalate, Solve, LeaseRunsOut
<1>2. ASSUME NEW w \in Workers, Work(w) PROVE UNCHANGED used
  BY <1>2 DEF Work, Enter, RefuseSnapshot, Start, Notify, BeginPhase, Fence, Launch, RecordRun,
              PollCompleted, PollOther, AfterPhase, Handover, Complete, Fail, ListRuns,
              SeeStopped, Supersede, Settle
<1>3. ASSUME NEW w \in Workers,
             PromptMissing(w) \/ NotifyRefused(w) \/ OwnerStalls(w) \/ Fault(w) \/ Crash(w)
      PROVE  \E f \in Faults : Spend(f)
  BY <1>3 DEF PromptMissing, NotifyRefused, OwnerStalls, Fault, Crash, Faults
<1>4. ASSUME NEW w \in Workers, PollGivesUp(w) \/ PutOff(w) \/ \E t \in Turns : Claim(w, t)
      PROVE  UNCHANGED used
  BY <1>4 DEF PollGivesUp, PutOff, Claim
<1>5. ASSUME NEW closed \in BOOLEAN, AcceptUpdate(closed) PROVE \E f \in Faults : Spend(f)
  BY <1>5 DEF AcceptUpdate, Faults
<1>6. ASSUME NEW t \in Turns, NEW p \in Phases, GatewayEnds(t, p) PROVE UNCHANGED used
  BY <1>6 DEF GatewayEnds
<1>7. CASE UNCHANGED vars
  BY <1>7 DEF vars
<1> QED
  BY <1>1, <1>2, <1>3, <1>4, <1>5, <1>6, <1>7 DEF Next

\* A count that is 0 has always been, and none of its kind happens
LEMMA NotCounted ==
  ASSUME IInv, [Next]_vars, NEW f \in Faults, used'[f] = 0
  PROVE  used[f] = 0 /\ ~Spend(f)
<1>1. used \in [Faults -> Nat]
  BY DEF IInv, Typed
<1>2. ASSUME NEW g \in Faults, Spend(g) PROVE used[f] = 0 /\ g # f
  BY <1>1, <1>2 DEF Spend
<1> QED
  BY <1>2, FaultsCounted

LEMMA StallsCounted ==
  ASSUME IInv, [Next]_vars, used'["stall"] = 0
  PROVE  used["stall"] = 0 /\ \A w \in Workers : ~OwnerStalls(w)
<1>1. "stall" \in Faults
  BY DEF Faults
<1> QED
  BY <1>1, NotCounted DEF OwnerStalls

LEMMA QuietStep ==
  ASSUME IInv, QuietInv, [Next]_vars
  PROVE  QuietInv'
BY StallsCounted, StepQuiet DEF QuietInv

LEMMA QuietLemma == QuietInv => QuietWhenOver
<1> SUFFICES ASSUME QInv, NEW t \in Turns, Over(turn[t]),
                    NEW p \in Phases \ {"message_action"}
             PROVE  gateway[t][p] # "running"
  BY DEF QuietInv, QuietWhenOver, Over
<1>1. p \in CancelPhases
  BY DEF Phases, CancelPhases
<1> QED
  BY <1>1 DEF QInv, RowsQuiet, RowQuiet, Quiet

\* As long as no process outlives its claim, a turn that was completed or superseded
\* has left no route, work or persona run going at the gateway: whatever crashes, is
\* retried or races a comment, every run is recorded before the turn can be
\* cancelled, or the job of the turn is never entered again.
THEOREM QuietAfterTurn == Spec => []QuietWhenOver
<1>1. Init => QuietInv
  BY InitQInv DEF QuietInv
<1>2. IInv /\ QuietInv /\ [Next]_vars => QuietInv'
  BY QuietStep
<1>3. QuietInv => QuietWhenOver
  BY QuietLemma
<1> QED
  BY <1>1, <1>2, <1>3, Invariance, PTL DEF Spec
=============================================================================
