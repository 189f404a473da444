------------------------------- MODULE EcsJobs -------------------------------
(***************************************************************************)
(* The durable job queue of the Automation runtime: the tables             *)
(* automation_jobs, automation_executions and automation_delivery_ledger   *)
(* of PostgresAutomationEcsStore, and the two worker processes that claim  *)
(* jobs from it (RouteWorker and AutomationWorker).                        *)
(*                                                                         *)
(* One database transaction is one action.  A worker holds between two     *)
(* transactions only what its Python frame holds: the ClaimedJob, the      *)
(* local flag external_started and the place it has reached.  What the     *)
(* processor computes is a choice among the outcomes it can return.        *)
(***************************************************************************)
EXTENDS Naturals, FiniteSets

CONSTANTS
    Executions,         \* rows that may be created in automation_executions
    RouteWorkers,       \* processes running RouteWorker.process_once
    AutomationWorkers,  \* processes running AutomationWorker.process_once
    NativeStatus,       \* executions whose processing job is a native status
                        \* notification: before_external only renews for them
    NoExecution,        \* what an idle worker works for
    MaxStalls,          \* bound: leases that lapse under a live owner
    MaxDefers,          \* bound: calls of defer_job
    MaxCrashes,         \* bound: worker processes killed while holding a job
    MaxPrepRequests     \* bound: requests for a delivery-preparation job

Workers == RouteWorkers \cup AutomationWorkers

ASSUME ConstantsAssumption ==
    /\ NoExecution \notin Executions
    /\ RouteWorkers \cap AutomationWorkers = {}
    /\ NativeStatus \subseteq Executions
    /\ {MaxStalls, MaxDefers, MaxCrashes, MaxPrepRequests} \subseteq Nat

VARIABLES
    job,      \* job[e][k]: the automation_jobs row of execution e and kind k
    exec,     \* exec[e]: automation_executions.status
    ledger,   \* ledger[e][k]: automation_delivery_ledger.status of k's action
    worker,   \* worker[w]: the frame of process_once in process w
    started,  \* history: attempts that set external_started_at, per job
    called,   \* history: attempts that went on to the external system
    handed,   \* history: attempts that gave the job back with defer_job
    used      \* how much of each bound is spent

history == <<started, called, handed>>
vars == <<job, exec, ledger, worker, started, called, handed, used>>

------------------------------------------------------------------------------
(* Values *)

Kinds == {"route", "processing", "agent_turn", "hermes_delivery_prep"}

\* The kinds whose processor is given before_external, and so have a ledger row
ExternalKinds == {"processing", "agent_turn"}

KindsOf(w) == IF w \in RouteWorkers THEN {"route"} ELSE Kinds \ {"route"}

TerminalJob == {"completed", "human_review", "outcome_unknown"}
JobStatus == {"none", "pending", "claimed"} \cup TerminalJob
ExecutionStatus ==
    {"none", "route_pending", "routing", "processing_pending", "processing"}
        \cup TerminalJob
DeliveryStatus == {"none", "in_progress", "confirmed", "outcome_unknown"}

\* token names the attempt whose claim_token the row holds, 0 when it is NULL;
\* lease says where lease_expires_at lies relative to NOW()
JobRow == [status : JobStatus, token : Nat, attempt : Nat,
           lease : {"none", "live", "expired"}, external : BOOLEAN]

NoRow == [status |-> "none", token |-> 0, attempt |-> 0,
          lease |-> "none", external |-> FALSE]
NewRow == [NoRow EXCEPT !.status = "pending"]

\* claim_job writes a fresh token and lease and counts the attempt; returning a
\* job to the queue clears the claim and keeps attempt and external_started_at
NewlyClaimed(row) == [row EXCEPT !.status = "claimed", !.token = row.attempt + 1,
                                 !.attempt = row.attempt + 1, !.lease = "live"]
Requeued(row) == [row EXCEPT !.status = "pending", !.token = 0, !.lease = "none"]

Place == {"idle", "run", "renewed", "marked", "call", "record", "commit"}
Outcome == {"none", "completed", "human_review", "failed", "outcome_unknown",
            "deferred", "exception"}
Frame == [pc : Place, exec : Executions \cup {NoExecution}, kind : Kinds,
          token : Nat, ext : BOOLEAN, out : Outcome]
Idle == [pc |-> "idle", exec |-> NoExecution, kind |-> "route", token |-> 0,
         ext |-> FALSE, out |-> "none"]

Faults == {"stall", "defer", "crash", "prep"}
Limit == [stall |-> MaxStalls, defer |-> MaxDefers, crash |-> MaxCrashes,
          prep |-> MaxPrepRequests]
Spend(f) == /\ used[f] < Limit[f]
            /\ used' = [used EXCEPT ![f] = @ + 1]

------------------------------------------------------------------------------
(* Helper state formulae *)

Holds(w, e, k) ==
    worker[w].pc # "idle" /\ worker[w].exec = e /\ worker[w].kind = k

Working(w) == worker[w].pc \notin {"idle", "record", "commit"}

\* Mutants of Owns: the row lock without the check, and the check of one column
OwnsAlways(w) == TRUE
OwnsByStatus(w) == job[worker[w].exec][worker[w].kind].status = "claimed"
OwnsByToken(w) == job[worker[w].exec][worker[w].kind].token = worker[w].token

\* _lock_claimed: the row is still claimed under this worker's token.  The
\* lease is not looked at: an expired claim nobody took over still counts.
Owns(w) ==
    LET row == job[worker[w].exec][worker[w].kind] IN
    /\ row.status = "claimed"
    /\ row.token = worker[w].token

\* Mutant of Swept: claim_job without its first query
NeverSwept(e, k) == FALSE

\* What the sweep at the head of claim_job retires
Swept(e, k) ==
    /\ k \in ExternalKinds
    /\ job[e][k].status = "claimed"
    /\ job[e][k].lease = "expired"
    /\ job[e][k].external

JobAfterSweep ==
    [e \in Executions |-> [k \in Kinds |->
        IF Swept(e, k) THEN [job[e][k] EXCEPT !.status = "outcome_unknown"]
                       ELSE job[e][k]]]

\* Mutants of ExecAfterSweep: the sweep forgets the execution, or fails it
ExecUnswept == exec
ExecFailedBySweep ==
    [e \in Executions |->
        IF \E k \in ExternalKinds : Swept(e, k) THEN "failed" ELSE exec[e]]

ExecAfterSweep ==
    [e \in Executions |->
        IF \E k \in ExternalKinds : Swept(e, k) THEN "outcome_unknown" ELSE exec[e]]

\* Mutants of Claimable: started jobs are retried, lapsed claims are not
ClaimableThoughStarted(e, k) ==
    \/ job[e][k].status = "pending"
    \/ job[e][k].status = "claimed" /\ job[e][k].lease = "expired"
ClaimablePending(e, k) == job[e][k].status = "pending"

\* Rows the candidate query of claim_job accepts.  available_at only delays.
Claimable(e, k) ==
    \/ job[e][k].status = "pending"
    \/ /\ job[e][k].status = "claimed"
       /\ job[e][k].lease = "expired"
       /\ ~job[e][k].external

\* A job whose effects a second attempt must not repeat: its before_external
\* marks the row.  Native status jobs rely on their own notification ledger.
Fenced(e, k) == k \in ExternalKinds /\ ~(k = "processing" /\ e \in NativeStatus)

SetWorker(w, frame) == worker' = [worker EXCEPT ![w] = frame]

------------------------------------------------------------------------------
Init ==
    /\ job = [e \in Executions |-> [k \in Kinds |-> NoRow]]
    /\ exec = [e \in Executions |-> "none"]
    /\ ledger = [e \in Executions |-> [k \in ExternalKinds |-> "none"]]
    /\ worker = [w \in Workers |-> Idle]
    /\ started = [e \in Executions |-> [k \in ExternalKinds |-> {}]]
    /\ called = [e \in Executions |-> [k \in ExternalKinds |-> {}]]
    /\ handed = [e \in Executions |-> [k \in ExternalKinds |-> {}]]
    /\ used = [f \in Faults |-> 0]

------------------------------------------------------------------------------
(* Where jobs come from *)

\* accept_intake of a new event: the execution and its route job, one transaction
AcceptIntake(e) ==
    /\ exec[e] = "none"
    /\ exec' = [exec EXCEPT ![e] = "route_pending"]
    /\ job' = [job EXCEPT ![e]["route"] = NewRow]
    /\ UNCHANGED <<ledger, worker, history, used>>

\* create_investigation_feedback_turn and create_investigation_reply_turn open
\* an execution that starts at its agent turn and is never routed
CreateInvestigationTurn(e) ==
    /\ exec[e] = "none"
    /\ exec' = [exec EXCEPT ![e] = "processing_pending"]
    /\ job' = [job EXCEPT ![e]["agent_turn"] = NewRow]
    /\ UNCHANGED <<ledger, worker, history, used>>

\* approve_and_prep_hermes_draft and create_hermes_delivery_prep_job: the upsert
\* on (namespace, execution_id, kind) resets any row that is not completed, and
\* does nothing to one that is.  The draft they are about was written by a run of
\* the execution's turn, so that turn has been to the external system.
RequestDeliveryPrep(e) ==
    LET row == job[e]["hermes_delivery_prep"] IN
    /\ called[e]["agent_turn"] # {}
    /\ row.status # "completed"
    /\ Spend("prep")
    /\ job' = [job EXCEPT ![e]["hermes_delivery_prep"] =
                  IF row = NoRow THEN NewRow ELSE Requeued(row)]
    /\ UNCHANGED <<exec, ledger, worker, history>>

------------------------------------------------------------------------------
(* claim_job *)

Claim(w, k, e) ==
    /\ worker[w].pc = "idle"
    /\ Claimable(e, k)
    /\ job' = [JobAfterSweep EXCEPT ![e][k] = NewlyClaimed(job[e][k])]
    /\ exec' = [ExecAfterSweep EXCEPT ![e] =
                   IF k = "route" THEN "routing" ELSE "processing"]
    /\ SetWorker(w, [pc |-> "run", exec |-> e, kind |-> k,
                     token |-> job[e][k].attempt + 1, ext |-> FALSE, out |-> "none"])
    /\ UNCHANGED <<ledger, history, used>>

\* The query finds no candidate: the transaction still commits the sweep
ClaimNothing(w, k) ==
    /\ worker[w].pc = "idle"
    /\ \A e \in Executions : ~Claimable(e, k)
    /\ \E e \in Executions, x \in ExternalKinds : Swept(e, x)
    /\ job' = JobAfterSweep
    /\ exec' = ExecAfterSweep
    /\ UNCHANGED <<ledger, worker, history, used>>

\* process_once asks for its kinds in a fixed order, each with a claim_job of
\* its own; a job of an earlier kind may appear between two of them, so any
\* kind of the worker may be the one it gets
Poll(w) ==
    \E k \in KindsOf(w) :
        \/ \E e \in Executions : Claim(w, k, e)
        \/ ClaimNothing(w, k)

------------------------------------------------------------------------------
(* Leases *)

\* lease_expires_at passes: the owner is gone and nobody renews the lease
LeaseRunsOut(e, k) ==
    /\ job[e][k].status = "claimed"
    /\ job[e][k].lease = "live"
    /\ ~ \E w \in Workers : Holds(w, e, k) /\ Owns(w)
    /\ job' = [job EXCEPT ![e][k].lease = "expired"]
    /\ UNCHANGED <<exec, ledger, worker, history, used>>

\* A live owner loses its lease: its heartbeat thread stalls, or it is past
\* lease.stop()
OwnerStalls(w) ==
    LET f == worker[w] IN
    /\ f.pc # "idle"
    /\ Owns(w)
    /\ job[f.exec][f.kind].lease = "live"
    /\ Spend("stall")
    /\ job' = [job EXCEPT ![f.exec][f.kind].lease = "expired"]
    /\ UNCHANGED <<exec, ledger, worker, history>>

\* JobLeaseHeartbeat._run calling renew_job_lease; a lost claim is only logged
Renew(w) ==
    /\ Working(w)
    /\ Owns(w)
    /\ job' = [job EXCEPT ![worker[w].exec][worker[w].kind].lease = "live"]
    /\ UNCHANGED <<exec, ledger, worker, history, used>>

------------------------------------------------------------------------------
(* before_external, a closure of process_once with three transactions *)

\* What an exception inside the try block of process_once leads to: the
\* processing branch writes its ledger row before fail_job, the others do not
Raise(frame) ==
    [frame EXCEPT !.out = "exception",
                  !.pc = IF frame.kind = "processing" /\ frame.ext
                         THEN "record" ELSE "commit"]

\* renew_job_lease.  A second call of the same attempt, or a native status job,
\* returns here; a lost claim raises.
BeforeExternal(w) ==
    LET f == worker[w] IN
    /\ f.pc = "run"
    /\ f.kind \in ExternalKinds
    /\ IF Owns(w)
       THEN /\ job' = [job EXCEPT ![f.exec][f.kind].lease = "live"]
            /\ SetWorker(w, [f EXCEPT !.pc =
                   IF f.ext \/ ~Fenced(f.exec, f.kind) THEN "call" ELSE "renewed"])
       ELSE SetWorker(w, Raise(f)) /\ UNCHANGED job
    /\ UNCHANGED <<exec, ledger, history, used>>

\* Mutant of MarkExternalStarted: the column is not written
MarkNothing(w) ==
    LET f == worker[w] IN
    /\ f.pc = "renewed"
    /\ started' = [started EXCEPT ![f.exec][f.kind] = @ \cup {f.token}]
    /\ SetWorker(w, [f EXCEPT !.pc = "marked"])
    /\ UNCHANGED <<job, exec, ledger, called, handed, used>>

\* mark_processing_external_started
MarkExternalStarted(w) ==
    LET f == worker[w] IN
    /\ f.pc = "renewed"
    /\ IF Owns(w)
       THEN /\ job' = [job EXCEPT ![f.exec][f.kind].external = TRUE]
            /\ started' = [started EXCEPT ![f.exec][f.kind] = @ \cup {f.token}]
            /\ SetWorker(w, [f EXCEPT !.pc = "marked"])
       ELSE SetWorker(w, Raise(f)) /\ UNCHANGED <<job, started>>
    /\ UNCHANGED <<exec, ledger, called, handed, used>>

\* record_delivery(IN_PROGRESS), which looks at no claim
RecordInProgress(w) ==
    LET f == worker[w] IN
    /\ f.pc = "marked"
    /\ ledger' = [ledger EXCEPT ![f.exec][f.kind] = "in_progress"]
    /\ SetWorker(w, [f EXCEPT !.pc = "call", !.ext = TRUE])
    /\ UNCHANGED <<job, exec, history, used>>

\* The processor does what it asked permission for
ExternalCall(w) ==
    LET f == worker[w] IN
    /\ f.pc = "call"
    /\ called' = [called EXCEPT ![f.exec][f.kind] = @ \cup {f.token}]
    /\ SetWorker(w, [f EXCEPT !.pc = "run"])
    /\ UNCHANGED <<job, exec, ledger, started, handed, used>>

------------------------------------------------------------------------------
(* The processor returns or raises *)

\* The outcomes process_once tells apart.  Native status: "failed" is a
\* notification whose configuration must be corrected, "deferred" any other
\* failed notification; without a notification the outcome counts as elsewhere.
\* Agent turn: "failed" covers failed, interrupted and outcome_unknown, "deferred"
\* is HermesTurnDeferred.
Returns(frame) ==
    CASE frame.kind = "route" -> {"completed"}
      [] frame.kind = "processing" ->
            IF frame.exec \in NativeStatus
            THEN {"completed", "human_review", "failed", "outcome_unknown", "deferred"}
            ELSE {"completed", "human_review", "outcome_unknown"}
      [] frame.kind = "agent_turn" -> {"completed", "human_review", "failed", "deferred"}
      [] frame.kind = "hermes_delivery_prep" -> {"completed", "failed"}

\* lease.stop(), then the ledger row if the external system was called
Return(w, o) ==
    LET f == worker[w] IN
    /\ f.pc = "run"
    /\ o \in Returns(f)
    /\ SetWorker(w, [f EXCEPT !.out = o,
                              !.pc = IF f.ext /\ o # "deferred" THEN "record" ELSE "commit"])
    /\ IF o = "deferred" THEN Spend("defer") ELSE UNCHANGED used
    /\ UNCHANGED <<job, exec, ledger, history>>

\* Any exception of the processor, of before_external or of the database
RaiseError(w) ==
    /\ Working(w)
    /\ SetWorker(w, Raise(worker[w]))
    /\ UNCHANGED <<job, exec, ledger, history, used>>

\* record_delivery(CONFIRMED or OUTCOME_UNKNOWN), which looks at no claim
RecordOutcome(w) ==
    LET f == worker[w] IN
    /\ f.pc = "record"
    /\ ledger' = [ledger EXCEPT ![f.exec][f.kind] =
                     IF f.out \in {"completed", "human_review"}
                     THEN "confirmed" ELSE "outcome_unknown"]
    /\ SetWorker(w, [f EXCEPT !.pc = "commit"])
    /\ UNCHANGED <<job, exec, history, used>>

------------------------------------------------------------------------------
(* The transactions that end a claim.  Each starts with _lock_claimed. *)

Commits(w, outcomes) ==
    /\ worker[w].pc = "commit"
    /\ worker[w].out \in outcomes
    /\ Owns(w)
    /\ SetWorker(w, Idle)
    /\ UNCHANGED <<ledger, started, called>>

CompleteRoute(w) ==
    LET e == worker[w].exec IN
    /\ worker[w].kind = "route"
    /\ Commits(w, {"completed"})
    /\ job' = [job EXCEPT ![e]["route"].status = "completed", ![e]["processing"] = NewRow]
    /\ exec' = [exec EXCEPT ![e] = "processing_pending"]
    /\ UNCHANGED <<handed, used>>

CompleteClassificationOnly(w) ==
    LET e == worker[w].exec IN
    /\ worker[w].kind = "route"
    /\ Commits(w, {"completed"})
    /\ job' = [job EXCEPT ![e]["route"].status = "completed"]
    /\ exec' = [exec EXCEPT ![e] = "completed"]
    /\ UNCHANGED <<handed, used>>

\* hand_off_to_hermes_agent queues a turn, or ignores the event or finds it
\* superseded and closes the execution
HandOffToHermesAgent(w, queuesTurn) ==
    LET e == worker[w].exec IN
    /\ worker[w].kind = "route"
    /\ Commits(w, {"completed"})
    /\ job' = [job EXCEPT ![e]["route"].status = "completed",
                          ![e]["agent_turn"] = IF queuesTurn THEN NewRow ELSE @]
    /\ exec' = [exec EXCEPT ![e] = IF queuesTurn THEN "processing_pending" ELSE "completed"]
    /\ UNCHANGED <<handed, used>>

CompleteProcessing(w) ==
    LET f == worker[w] IN
    /\ f.kind # "route"
    /\ Commits(w, {"completed", "human_review"})
    /\ job' = [job EXCEPT ![f.exec][f.kind].status = f.out]
    /\ exec' = [exec EXCEPT ![f.exec] = f.out]
    /\ UNCHANGED <<handed, used>>

\* The argument outcome_unknown with which process_once calls fail_job
ClaimsUnknown(f) ==
    \/ f.out = "outcome_unknown"
    \/ f.out = "exception" /\ f.kind = "hermes_delivery_prep"
    \/ f.out = "exception" /\ f.kind = "processing" /\ f.ext

FailJob(w) ==
    LET f == worker[w]
        status == IF ClaimsUnknown(f) \/ job[f.exec][f.kind].external
                  THEN "outcome_unknown" ELSE "human_review"
    IN
    /\ Commits(w, {"failed", "outcome_unknown", "exception"})
    /\ job' = [job EXCEPT ![f.exec][f.kind].status = status]
    /\ exec' = [exec EXCEPT ![f.exec] = status]
    /\ UNCHANGED <<handed, used>>

\* defer_job leaves external_started_at set, and leaves an execution alone that
\* is processing, which claim_job has made it
DeferJob(w) ==
    LET f == worker[w] IN
    /\ Commits(w, {"deferred"})
    /\ job' = [job EXCEPT ![f.exec][f.kind] =
                  Requeued(job[f.exec][f.kind])]
    /\ exec' = [exec EXCEPT ![f.exec] =
                   IF @ \in TerminalJob \cup {"processing", "routing"}
                   THEN @ ELSE "processing_pending"]
    /\ handed' = [handed EXCEPT ![f.exec][f.kind] = @ \cup {f.token}]
    /\ UNCHANGED used

\* JobClaimLostError.  Inside the try block it is one more exception; out of an
\* except clause it leaves process_once and ends the process, which is restarted.
LoseClaim(w) ==
    LET f == worker[w]
        inHandler == f.out = "exception" \/ (f.out = "deferred" /\ f.kind = "agent_turn")
    IN
    /\ f.pc = "commit"
    /\ ~Owns(w)
    /\ SetWorker(w, IF inHandler THEN Idle ELSE Raise(f))
    /\ UNCHANGED <<job, exec, ledger, history, used>>

EndClaim(w) ==
    \/ CompleteRoute(w)
    \/ CompleteClassificationOnly(w)
    \/ \E queuesTurn \in BOOLEAN : HandOffToHermesAgent(w, queuesTurn)
    \/ CompleteProcessing(w)
    \/ FailJob(w)
    \/ DeferJob(w)
    \/ LoseClaim(w)

\* The process is killed; only its frame is lost
Crash(w) ==
    /\ worker[w].pc # "idle"
    /\ Spend("crash")
    /\ SetWorker(w, Idle)
    /\ UNCHANGED <<job, exec, ledger, history>>

------------------------------------------------------------------------------
Advance(w) ==
    \/ MarkExternalStarted(w)
    \/ RecordInProgress(w)
    \/ ExternalCall(w)
    \/ RecordOutcome(w)
    \/ EndClaim(w)

ProcessorReturns(w) == \E o \in Outcome : Return(w, o)

Next ==
    \/ \E e \in Executions :
         \/ AcceptIntake(e)
         \/ CreateInvestigationTurn(e)
         \/ RequestDeliveryPrep(e)
         \/ \E k \in Kinds : LeaseRunsOut(e, k)
    \/ \E w \in Workers :
         \/ Poll(w)
         \/ OwnerStalls(w)
         \/ Renew(w)
         \/ BeforeExternal(w)
         \/ ProcessorReturns(w)
         \/ RaiseError(w)
         \/ Advance(w)
         \/ Crash(w)

Spec == Init /\ [][Next]_vars

\* A worker that runs polls, its processor returns (the loops of a turn are
\* bounded by timeouts) and a transaction that is started ends.  A lease nobody
\* renews runs out; that a live owner stalls, that a processor raises and that
\* a process is killed is never required.
Fairness ==
    /\ \A w \in Workers :
         /\ WF_vars(Poll(w))
         /\ WF_vars(Advance(w))
         /\ SF_vars(ProcessorReturns(w))
    /\ \A e \in Executions, k \in Kinds : WF_vars(LeaseRunsOut(e, k))

FairSpec == Spec /\ Fairness

------------------------------------------------------------------------------
(* Properties *)

\* Every row, ledger entry and worker frame keeps its type: no transaction gives a
\* job, an execution or a delivery a status that belongs to one of the others.
TypeOK ==
    /\ job \in [Executions -> [Kinds -> JobRow]]
    /\ exec \in [Executions -> ExecutionStatus]
    /\ ledger \in [Executions -> [ExternalKinds -> DeliveryStatus]]
    /\ worker \in [Workers -> Frame]
    /\ started \in [Executions -> [ExternalKinds -> SUBSET Nat]]
    /\ called \in [Executions -> [ExternalKinds -> SUBSET Nat]]
    /\ handed \in [Executions -> [ExternalKinds -> SUBSET Nat]]
    /\ used \in [Faults -> Nat]

\* An external effect is never repeated behind its owner's back: of two attempts
\* of one job that both reached the external system, the earlier one had given
\* the job back itself with defer_job.  A crash, a stalled lease or a late worker
\* never leads to a second call.
NoReplayAfterExternalStart ==
    \A e \in Executions, k \in ExternalKinds :
        Fenced(e, k) =>
            \A a, b \in called[e][k] : a < b => a \in handed[e][k]

\* Two processes are never both past before_external for one job, so the rows
\* record_delivery writes without looking at the claim have one writer.
SingleExternalActor ==
    \A v, w \in Workers :
        /\ worker[v].ext /\ worker[w].ext
        /\ worker[v].exec = worker[w].exec
        /\ worker[v].kind = worker[w].kind
        => v = w

\* Nothing reaches an external system that the database does not know of: the job
\* row carries external_started_at, so a crash ends in outcome_unknown, and the
\* ledger has its row.
ExternalCallIsJournalled ==
    \A e \in Executions, k \in ExternalKinds :
        Fenced(e, k) /\ called[e][k] # {} =>
            /\ job[e][k].external
            /\ ledger[e][k] # "none"

\* An intake event gets one successor: a worker that lost its route claim cannot
\* queue a second job, and no successor exists while the event may be rerouted.
OneSuccessorPerExecution ==
    \A e \in Executions :
        /\ ~ (job[e]["processing"].status # "none" /\ job[e]["agent_turn"].status # "none")
        /\ job[e]["route"].status # "completed" /\ job[e]["route"].status # "none" =>
               job[e]["processing"].status = "none" /\ job[e]["agent_turn"].status = "none"

\* The status operators see is the status of the work: as long as no
\* delivery-preparation job shares the execution, it says terminal exactly what
\* the last of its jobs says, and otherwise names the stage the open job is in.
ExecutionMatchesJobs ==
    \A e \in Executions :
        LET status(k) == job[e][k].status IN
        exec[e] # "none" /\ status("hermes_delivery_prep") = "none" =>
            LET last == CHOOSE k \in {"route", "processing", "agent_turn"} :
                            /\ status(k) # "none"
                            /\ k = "route" => /\ status("processing") = "none"
                                              /\ status("agent_turn") = "none"
            IN  CASE status(last) \in TerminalJob -> exec[e] = status(last)
                  [] status(last) = "claimed" ->
                        exec[e] = IF last = "route" THEN "routing" ELSE "processing"
                  [] OTHER ->
                        exec[e] \in IF last = "route" THEN {"route_pending"}
                                    ELSE {"processing_pending", "processing"}

\* Settled is settled: no late worker, sweep or claim changes a job that has
\* ended.  Only the delivery-preparation job may be requested again.
SettledJobsStay ==
    [][\A e \in Executions, k \in Kinds :
          k # "hermes_delivery_prep" /\ job[e][k].status \in TerminalJob =>
              job'[e][k] = job[e][k]]_vars

\* The jobs as the code inside a claim may rely on them.  Only the delivery-
\* preparation job is ever requested again.
Reported(status) ==
    CASE status = "pending" -> "queued"
      [] status \in {"human_review", "outcome_unknown"} -> "ended"
      [] OTHER -> status

Claims == INSTANCE ClaimedJobs
    WITH Jobs <- Executions \X Kinds,
         Renewable <- Executions \X {"hermes_delivery_prep"},
         status <- [j \in Executions \X Kinds |-> Reported(job[j[1]][j[2]].status)],
         inside <- [j \in Executions \X Kinds |->
                       {w \in Workers : Holds(w, j[1], j[2])}],
         holders <- [j \in Executions \X Kinds |->
                        {w \in Workers : Holds(w, j[1], j[2]) /\ Owns(w)}],
         marked <- [j \in Executions \X Kinds |-> job[j[1]][j[2]].external]

\* Tokens, leases and the sweep keep the promise of the claim protocol, whatever
\* lapses and dies: a job has one holder at most, only the holder marks or ends it,
\* and a marked job is not offered again before the holder itself gives it back.
KeepsClaims == Claims!Spec

\* What the migration plan says of executions: "outcome_unknown" stays terminal
\* and is not covered up (docs/superpowers/plans/2026-08-26-ecs-production-
\* migration.md:21).  A delivery-preparation job of the same execution breaks it.
OutcomeUnknownStays ==
    [][\A e \in Executions : exec[e] = "outcome_unknown" => exec'[e] = "outcome_unknown"]_vars

\* Every job that is queued or claimed ends, whatever crashes on the way
EveryJobSettles ==
    \A e \in Executions, k \in Kinds :
        job[e][k].status \in {"pending", "claimed"} ~> job[e][k].status \in TerminalJob

\* Every event that was accepted is reported as ended, one way or another
EveryExecutionSettles ==
    \A e \in Executions : exec[e] # "none" ~> exec[e] \in TerminalJob
=============================================================================
