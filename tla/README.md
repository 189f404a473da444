# Formal models of the SupportPortal Automation runtime

SupportPortal is a support-ticket system: it mirrors Zendesk tickets, routes them, lets
agents (LLM runs at the Hermes gateway) investigate and answer them, and asks engineers to
review what the agents found. This directory holds TLA+ models of the part of it that has to
be right under concurrency and failure: the Automation runtime, a set of processes that share
nothing but a PostgreSQL schema (`src/backend/services/automation_ecs_store.py`) and talk to
Zendesk, Slack and the Hermes gateway.

| module | what it is |
| --- | --- |
| `EcsJobs.tla` | the durable job queue: executions, jobs, leases, the delivery ledger, the two worker processes |
| `EcsJobs_proofs.tla` | its type correctness and safety properties, proved with TLAPS |
| `ClaimedJobs.tla` | what the claim protocol promises of a job, the abstract specification EcsJobs, HermesCase and DraftDelivery implement |
| `EcsClaims_proofs.tla` | that EcsJobs implements it, proved with TLAPS |
| `HermesCase.tla` | one case of the Hermes engine: revision, binding, turns, runs, tools, the turn processor |
| `HermesCase_proofs.tla` | its type correctness and safety properties, proved with TLAPS |
| `HermesQuiet_proofs.tla` | that a turn which is over leaves nothing going at the gateway, proved with TLAPS |
| `HermesClaims_proofs.tla` | that HermesCase implements `ClaimedJobs`, proved with TLAPS |
| `CaseTurns.tla` | what is promised of the turns of a case, the abstract specification HermesCase and DraftDelivery implement |
| `HermesTurns_proofs.tla` | that HermesCase implements `CaseTurns` and leaves no turn without a process, proved with TLAPS |
| `DraftDelivery.tla` | drafts: saving, the publication gate, approval, preparation, the Zendesk ledger and its drain |
| `CustomerReply.tla` | what is promised of a draft, the abstract specification DraftDelivery implements |
| `DraftDelivery_proofs.tla` | its type correctness, safety properties and the refinement, proved with TLAPS |
| `DraftClaims_proofs.tla` | that DraftDelivery implements `ClaimedJobs` and `CaseTurns`, proved with TLAPS |
| `MCEcsJobs.tla`, `MCHermesCase.tla`, `MCDraftDelivery.tla` | the instances for TLC (the symmetry sets); the `.cfg` files give the constants |
| `PROJECT.json` | runs, the source lines each definition translates, mutants, hazards, findings, theorems |

`tlc -config EcsJobs_safety.cfg MCEcsJobs` checks one run; `tlapm EcsJobs_proofs.tla` checks
the proofs of a module.

## 1. Inventory

Paths are relative to `src/backend/` unless they say otherwise.

### 1.1 The Automation runtime

**Job queue** (`services/automation_ecs_store.py`, `automation_ecs_route_worker.py`,
`automation_ecs_worker.py`, `services/automation_ecs_heartbeat.py`,
`services/automation_ecs_contracts.py`).
*State*: `automation_executions` (one row per accepted event, with a status operators see),
`automation_jobs` (at most one row per execution and kind: `route`, `processing`,
`agent_turn`, `hermes_delivery_prep`; status, claim token, lease, attempt,
`external_started_at`), `automation_delivery_ledger`.
*Operations*: `accept_intake`, `claim_job` (sweeps lapsed jobs, then claims one),
`renew_job_lease` from a heartbeat thread, `mark_processing_external_started`,
`record_delivery`, and the transactions that end a claim (`complete_route`,
`complete_classification_only`, `hand_off_to_hermes_agent`, `complete_processing`,
`fail_job`, `defer_job`).
*Hard*: leases lapse under live owners; processes die between any two transactions; the
ledger rows are not guarded by the claim; a delivery-preparation job shares the execution of
the turn that wrote the draft.
*Correct when*: an external effect is not repeated behind its owner's back, two processes are
never in the external section of one job, what was called is on record, an event has one
successor, a settled job stays settled, the status of the execution tells the truth, and
everything that was accepted ends.

**Hermes case** (the same store; `services/automation_hermes_agent.py`,
`services/automation_hermes_tools.py`, `services/automation_hermes_close.py`).
*State*: `automation_cases.case_revision`, the binding of the case (direction, immutable
`case_task`, escalated, terminal), the turns, a run row per turn and phase, and, outside the
database, the runs at the gateway.
*Operations*: a customer comment advances the revision and cancels older turns
(`accept_intake`); a route worker opens a turn (`hand_off_to_hermes_agent`); engineers open
feedback and reply turns; `HermesAgentTurnProcessor.process` drives a turn through the phases
`route`, `message_action`, `work`, `persona`; the agent calls back through tools
(`record_direction`, `escalate_human`, `close_case`).
*Hard*: the processor reads a status, calls the gateway, and writes much later; a comment, a
tool call or another process comes between any two steps; cancelling is cooperative; starting
a run at the gateway and recording it are two steps; only a partial unique index keeps two
turns of a case from being active.
*Correct when*: what waits or runs is for the newest revision, nothing else is cancelled, one
turn is active at a time, a turn that is over is not written again and leaves no run going at
the gateway, a solved ticket starts no customer turn, a review is answered once, and turns end.

**Drafts and Zendesk delivery** (`services/automation_hermes_tools.py`,
`services/automation_hermes_delivery.py`, `automation_ecs_worker.py`, `worker.py`, the store,
`repositories/ticket_repository.py`).
*State*: `automation_hermes_case_drafts` (status, revision and conversation version when
saved, the prepared text), `conversation_version` of the binding, the `hermes_delivery_prep`
job of the turn's execution, `support_account_zendesk_comment_deliveries` (one row per draft,
in another schema than the store), and the comments at Zendesk.
*Operations*: a turn saves drafts; when it ends, `publication_decision_for_turn` approves the
newest one or offers it to an engineer; `approve_and_prep_hermes_draft`;
`prepare_hermes_draft_delivery` translates, stores, writes the ledger row and marks the draft
queued; `_deliver_hermes_zendesk_comment` checks revision, comments and ownership, claims the
row, posts, and records; an audit looks for comments whose outcome is not known.
*Hard*: comments, escalations, other turns and the solution of the ticket withdraw drafts at
every point; the ledger row and the draft are written in different transactions; a draft may
be saved for a turn that has just been cancelled; an approval runs a preparation again; the
answer of Zendesk may be lost, or be an error although the comment was posted.
*Correct when*: a draft is posted at most once and never after it was withdrawn, an engineer
is only offered what answers the newest revision, no draft is left in preparation, and the
ledger tells what was posted.

**Case mirror** (`services/automation_hermes_snapshot.py` and the merge functions of the
store). *State*: mirrored ticket and comments. *Hard*: snapshots arrive out of order and
twice. *Correct when*: the merge depends on the set of snapshots and not on their order.

**Account intake, ownership and reply jobs** (`services/automation_account_intake.py`,
`automation_account_reply_sync.py`, `account_reply_jobs.py`, `account_automation_delivery.py`,
`automation_delivery_ledger.py`, `account_automation_ownership.py`, `account_full_reroute.py`,
...). The older account workflow: a poller, reply jobs with claims, delivery intents, ownership
hand-over, operator reruns. *Correct when*: one owner per case, one delivery per intent.

The HTTP API, dashboard readers, Slack notifications, follow-up replies, the router and its
field extraction sit around these and keep no further durable state of interest.

### 1.2 The rest of the repository

Enablement relay, the older Hermes knowledge workflow, knowledge delivery and dual write,
WeKnora promotion and agent-memory delivery are outboxes and small state machines with leases
of their own. The client-ticket runtime, task queue and event bus, ticket repository and main
API, retrieval and ingestion, engineer agents, release pipeline, workspace UI and the vendored
`cusmem` library are LLM calls, CRUD, pure I/O, numerical code or third-party.
`PROJECT.json` lists all of them under `components` with a status and a reason.

### 1.3 How the parts interact

```
 n8n ──► accept_intake ──► automation_executions + route job
                                   │ claim_job
                             RouteWorker ── account router (LLM)
               complete_route │          │ hand_off_to_hermes_agent
                    processing job     agent_turn job + turn + binding
                              │          │ claim_job
                             AutomationWorker
                              │          │ HermesAgentTurnProcessor ──► Hermes gateway
                       delivery ledger   │                                │ tools
                                         └──► turns, runs, binding ◄──────┘
 engineer (Slack) ──► feedback turn / reply turn / draft approval ──► hermes_delivery_prep job
```

Processes never call each other. They meet in rows that are locked by a transaction and in
state outside the database that no transaction covers. So in every model *one database
transaction, one outside call, or the reads between two of them, is one action*, and a process
remembers between two actions only its Python frame.

## 2. The models

### 2.1 EcsJobs

| TLA+ | code |
| --- | --- |
| `job[e][k]` | the `automation_jobs` row of execution `e` and kind `k`. `token` is 0 for NULL, otherwise the attempt whose claim token the row holds; `lease` says where `lease_expires_at` lies relative to `NOW()`; `external` is `external_started_at` |
| `exec[e]`, `ledger[e][k]` | `automation_executions.status`, `automation_delivery_ledger.status` |
| `worker[w]` | the frame of `process_once`: the `ClaimedJob`, the local `external_started`, the outcome it is about to write |
| `started`, `called`, `handed` | history: which attempts marked the job, went outside, gave the job back |
| `AcceptIntake`, `CreateInvestigationTurn`, `RequestDeliveryPrep` | the transactions that create or reset jobs |
| `Poll` = `Claim` or `ClaimNothing` | `claim_job`, with the sweep at its head |
| `LeaseRunsOut`, `OwnerStalls`, `Renew` | time passing, a stalled heartbeat, `renew_job_lease` |
| `BeforeExternal`, `MarkExternalStarted`, `RecordInProgress`, `ExternalCall` | the closure `before_external` with its three transactions, and what it guards |
| `Return`, `RaiseError`, `RecordOutcome` | how the processor comes back, and the ledger row |
| `CompleteRoute`, `CompleteClassificationOnly`, `HandOffToHermesAgent`, `CompleteProcessing`, `FailJob`, `DeferJob`, `LoseClaim` | the transactions that end a claim, and `JobClaimLostError` |
| `Crash` | the process is killed: its frame is lost, its rows stay |

What a processor computes is a choice among the outcomes `process_once` tells apart
(`Returns`). `available_at` and the order of the candidate query only delay a job, so any
claimable job may be claimed. A lease that lapsed does not end a claim by itself: as in
`_lock_claimed`, an owner whose token still stands may finish.

`ClaimedJobs` is the contract of the queue, without tokens, leases and kinds: of each job its
status, the processes that run code for it (`inside`, late ones included), those whose claim
still stands (`holders`), and whether it is marked (`marked`). A new claim has one holder; only
a holder marks, ends or gives back its job; a marked job whose claim lapsed is over; a job that
has ended is not run again. `EcsJobs!Claims` maps each row, and the frames that hold it, to
such a job; the preparation jobs (`RequestDeliveryPrep`) are the renewable ones.

### 2.2 HermesCase

| TLA+ | code |
| --- | --- |
| `case` | `automation_cases.case_revision`, and whether the mirrored ticket is solved or closed |
| `binding` | `automation_hermes_case_bindings` |
| `turn[t]` | the `automation_hermes_agent_turns` row of execution `t`; before it exists, `routing` stands for the event that waits for `hand_off_to_hermes_agent` and `dropped` for one that got no turn |
| `run[t][p]`, `gateway[t][p]` | the run row of a phase, and the run at the gateway |
| `tool[t]` | a tool request between the checks the API makes and the transaction it ends with |
| `job[t]`, `worker[w]` | the `agent_turn` job reduced to who holds the claim and whether it was marked, and the frame of `process_agent_turn_once` |
| `AcceptFirst`, `AcceptComment`, `AcceptCreatedLate`, `AcceptUpdate` | `accept_intake` by what the event is |
| `DropBlocked`, `DropOutdated`, `HandOff` | `hand_off_to_hermes_agent` |
| `CreateFeedbackTurn`, `CreateReplyTurn` | `create_investigation_feedback_turn`, `create_investigation_reply_turn` |
| `Enter`, `Start`, `Notify`, `BeginPhase`, `Fence`, `Launch`, `RecordRun`, `PollCompleted`, `PollOther`, `AfterPhase` | `HermesAgentTurnProcessor.process` and `_run_phase` |
| `Handover`, `Complete`, `Fail` | `_escalate_automation_failure`, `complete_hermes_agent_turn`, `fail_hermes_turn_run` with `fail_hermes_agent_turn` |
| `ListRuns`, `SeeStopped`, `Supersede`, `PutOff` | `_recover_cancellation` |
| `CallTool`, `RecordDirection`, `Escalate`, `Solve` | the tool endpoints: their checks, then their transactions |
| `PromptMissing`, `RefuseSnapshot`, `NotifyRefused`, `PollGivesUp`, `Fault`, `Crash`, `OwnerStalls`, `LeaseRunsOut` | what may go wrong |

The jobs of this model have no tokens, leases or attempts. They keep the contract EcsJobs
keeps: `KeepsClaims` says that they implement `ClaimedJobs` as well. That the model leaves out
none of the contract's moves that matter to an `agent_turn` job is seen from its actions:
`Claim`, `Crash`, `LeaseRunsOut` and `OwnerStalls` are there, a late owner goes on until a
transaction refuses it, a lapsed job that was marked is over and an unmarked one is claimed
again.

`CaseTurns` is what the rest of the system may take for granted about turns, in five moves over
`case_revision` and the status of each row: a comment ends every turn that waits and cancels
every turn that runs, in one step; a turn opens for the newest revision; it starts if it is
still for the newest revision and no other turn runs or is being cancelled; it ends; a solution
ends the turn that brings it and all that wait. `KeepsTurns` says that HermesCase makes no
other move with its rows (`ShownRow` is what is seen of one), however its processes, tools,
cancellations and faults interleave.

### 2.3 DraftDelivery

| TLA+ | code |
| --- | --- |
| `rev`, `sync`, `conv` | `automation_cases.case_revision`; the `comments_revision` of the last sync of the ticket's comments; `conversation_version` of the binding |
| `turn[t]`, `saver` | the turn row (its kind stands for the direction and the event), and the `save_reply_draft` calls that have seen their turn active but not inserted yet |
| `gate[t]` | the frame of `publication_decision_for_turn` |
| `draft[d]`, `job[t]`, `ledger[d]` | the draft, the `hermes_delivery_prep` job of the turn's execution, the row of the comment ledger; `text` is whether `delivery_content` is stored |
| `frame[w]` | what a process is doing: a preparation or one row of the drain |
| `posted[d]`, `past` | the public comments at Zendesk; history for the properties |
| `AcceptComment`, `SyncComments`, `OpenTurn`, `OpenFeedbackTurn`, `StartTurn`, `CompleteTurn`, `EndTurn`, `Escalate`, `SolveCase` | what intake, the comment sync, other turns, tools and the close tool do to drafts |
| `LookAtTurn` then `SaveDraft`; `SubmitDraft` | `save_hermes_case_draft` (reads the turn without a lock, then inserts), `submit_hermes_investigation_draft` (under locks) |
| `GateLook`, `GateBlock`, `GatePublish`, `GatePass`, `GateDeny`, `GatePrepare`, `GateCrash` | the gate, one action per transaction or read |
| `Approve`, `RefuseApproval` | `approve_and_prep_hermes_draft`; the update to stale is rolled back by the exception that reports it |
| `ClaimPrep`, `LoadDraft`, `Translate`, `RejectText`, `FailPrep`, `StoreText`, `QueueLook`, `WriteLedger`, `MarkQueued`, `Finish`, `PrepError`, `Lapse` | `process_hermes_delivery_prep_once` and `prepare_hermes_draft_delivery` |
| `TakeUp`, `LookMirror`, `LookComments`, `LookTicket`, `ClaimDelivery`, `Post`, `PostNothing`, `RecordOutcome`, `Audit` | the drain and its audit |
| `Crash` | a process is killed |

Turns are reduced to what HermesCase shows of them: `KeepsTurns` is the same promise,
`CaseTurns`, as there. So the turns the drafts live among do nothing the turns of a case cannot
do; that they do everything the turns of a case can is not a statement about steps, and is read
off `AcceptComment`, `OpenTurn`, `OpenFeedbackTurn`, `StartTurn`, `CompleteTurn`, `EndTurn` and
`SolveCase`, which are the moves of `CaseTurns` with what they do to drafts. Jobs are reduced
to the contract of `ClaimedJobs`, which `KeepsClaims` checks as in HermesCase (no job is ever
marked, so a lapsed claim is offered again, which is why a preparation may run twice; an
approval requests a job again). `CustomerReply` is the abstract specification: a draft is
written, released, and posted or withdrawn. The refinement mapping takes a draft's fate from its
row, its ledger row and the frames (`Fate`): a ledger row, or a process that is about to write
it, stands for the release even if the draft has gone stale since, because from there only the
drain withdraws it.

`Post` has three outcomes for a comment that Zendesk did commit. The answer says so
(delivered). The answer is lost or unreadable (`outcome_unknown`, which the audit resolves).
Or the answer is an error status: `add_ticket_comment` calls 408, 425, 429 and 5xx
"retryable" and not "outcome_unknown", and `worker.py:2953` then records `failed`; only for a
draft with attachments does it count 5xx as unknown. Nothing lists a failed row again, so that
draft stays posted and `failed`. The model takes this branch and notes the draft in
`past.misjudged`, which no guard reads and the two properties about the truth of the ledger
except: `LedgerTellsTheTruth` says an error status is the *only* way to a failed row whose
comment was posted, and `EveryPostIsRecorded` that every other post is recorded as delivered
in the end (see also section 5).

The theorems and the runs about the truth of the ledger assume one drain (`OneDrain`), as
deployed: one worker task runs the loop with `_deliver_hermes_zendesk_comment`. With two, one
may record a failed check for a row the other has claimed and is posting. That a draft is
posted once does not need it.

## 3. Runs

All passing runs are exhaustive for their constants. `CHECK_DEADLOCK FALSE` is set in every
one because a case that is dealt with, with the bounds spent, really is the end of the
behaviour; that nothing stops too early is what the liveness runs say.

| run | instance | checks |
| --- | --- | --- |
| `jobs_safety` | 1 execution, 2 route and 2 automation workers, 2 stalled leases, 1 defer, 1 crash, 1 preparation request | `TypeOK`, `NoReplayAfterExternalStart`, `SingleExternalActor`, `ExternalCallIsJournalled`, `OneSuccessorPerExecution`, `ExecutionMatchesJobs`, `SettledJobsStay`, `KeepsClaims` |
| `jobs_liveness` | 1 execution with a native status job, 1+1 workers, 1 stall, 1 defer, 2 crashes | `EveryJobSettles`, `EveryExecutionSettles` |
| `jobs_outcome_unknown` | 1 execution, 1+2 workers, 1 crash, 1 preparation request | violates `OutcomeUnknownStays` (finding 1) |
| `hermes_sequence` | 3 turns, 1 process, all events, the tool that solves the case | `TypeOK`, `NoCustomerTurnAfterSolve`, `OneReplyPerReview`, `KeepsTurns` |
| `hermes_race` | 2 turns, 2 processes, 1 lease that lapses under a live owner | `OneActiveTurn`, `WaitingTurnIsDriven`, `EndedTurnsStay`, `KeepsClaims` |
| `hermes_tools` | 2 turns, 1 process, direction and escalation tools, 1 ticket update | `ActiveTurnIsCurrent`, `OnlyOutdatedIsCancelled`, `RunningTurnIsDriven` |
| `hermes_faults` | 2 turns, 1 process, 1 crash, 1 fault, fair | `QuietWhenOver`, `EveryTurnEndsUnlessAbandoned` |
| `hermes_starved` | 2 turns, 1 process, no fault, fair | violates `NewestTurnStarts` (finding 2) |
| `hermes_parked` | 2 turns, 1 process, direction tool | violates `HumanDirectionIsHandedOver` (finding 3) |
| `draft_delivery` | 1 turn (published by the gate, or by an engineer), 1 draft, 2 processes of which one runs the drain, 1 comment, 1 click, 1 trouble, fair | `TypeOK`, `SentOnce`, `PreparingIsDriven`, `CompletedPreparationIsFinal`, `LedgerTellsTheTruth`, `DeniedNeedsAHuman`, `OfferedIsCurrent`, `KeepsPromise`, `KeepsClaims`, `PreparationEnds`, `EveryPostIsRecorded` |
| `draft_versions` | 3 reply or review turns, 2 drafts, one with attachments, 1 comment, 1 comment sync, 1 click | `RefusedIsNeverSent`, `KeepsTurns` |
| `draft_retry` | 1 turn, 1 draft, 1 process, 1 click, 1 trouble | violates `FailedPreparationSendsNothing` (finding 4) |

**Why the bounds are enough.** *EcsJobs*: no transaction reads a row of another execution
(the sweep treats each alone), so one execution shows every interleaving of one; two workers
of a role are needed for a successor to race a late owner, and two stalls so that the
successor can be late as well. A second defer or crash brings only states the first one left
behind, with higher attempt numbers. *HermesCase*: every rule about turns relates an older and
a newer one, so two turns show every race; the third one in `hermes_sequence` is for the
chains review → reply → second reply, and comment → solve → comment. A second process is only
needed after a lapsed lease, since the claim serialises them otherwise. *DraftDelivery*: drafts
meet only in the floor that withdraws them and in the job of their turn, so one draft shows
every interleaving of its own way to the customer with a second preparation of it (two
processes) and one thing that breaks; a comment before each step is the one comment at any
time. That a version has outpaced a draft takes its own turn and two more, hence the three
turns of `draft_versions`, whose second draft shows that a turn's job keeps to the first draft
it was made for. The bounds are the
constants `Max...` (stalls, defers, crashes, preparation requests, updates, faults, comments,
syncs, clicks, troubles) and
`EventsSeen`, `ToolsCalled`, `Closing`, which leave out inputs a run is not about. The
theorems below do not depend on any of them.

Every passing property has a mutant in `PROJECT.json`: a definition altered the way a
plausible bug would alter the code (a sweep that forgets the execution, ownership by status
alone, a cancellation that forgets turns nobody started, a unique index without
`cancel_requested`, ...), under which TLC finds the property violated.

**Fairness.** `EcsJobs!Fairness`: a worker process is a loop that polls (`run_route_worker`,
`run_automation_worker`), so `Poll` and the steps to the end of a claim are weakly fair; the
processor's own loops are bounded by timeouts and heartbeat renewals may come in between, so
`ProcessorReturns` is strongly fair; a lease nobody renews runs out. That a live owner stalls,
a processor raises, or a process dies is never required. `HermesCase!FairSpec`: the same for
the steps of a process (`Work`), the route worker (`Route`) and lapsed leases; a run at the
gateway ends (it has a time limit there); a queued job is claimed with strong fairness because
the candidates are ordered by `available_at` and a deferred job goes to the back. Timeouts,
tools, intake, engineers and faults are not fair. `DraftDelivery!Fairness`: a process gets on
with what it is doing (weak), and looks for jobs and rows in every cycle, which it may find
gone or be busy for in between (strong, `ClaimPrep` and `TakeUp`); the lease of a dead process
lapses. Engineers, customers and the agent owe nothing.

## 4. What is proved

The proof modules hold for *any* sets of executions, turns, drafts and workers and any bounds.
Their assumption is the `ConstantsAssumption` of the module they extend: the "no such thing" values
are not members of their sets, the bounds are natural numbers, the inputs are among the known
ones.

**EcsJobs.** Only rows are shared, so none of the properties is inductive alone: that a second
worker cannot call outside depends on what the first one's row still says, and this on what
its frame remembers. `IInv` is `TypeOK` with
`RowsInv` (a row that was not inserted is blank, its token is 0 or its last attempt, an open
route has no successor), `FramesInv` (a busy worker's token was really issued, and no two
workers share a claim) and `StartsInv`, the heart of it: as long as the attempt that set
`external_started_at` has not given the job back, the row carries that attempt's token and is
not pending, so nobody can claim it.

| theorem | states |
| --- | --- |
| `Invariance`, `TypeCorrect` | `IInv` is invariant; every variable keeps its type |
| `NoReplay` | `NoReplayAfterExternalStart` |
| `SingleActor` | `SingleExternalActor` |
| `Journalled` | `ExternalCallIsJournalled` |
| `OneSuccessor` | `OneSuccessorPerExecution` |
| `SettledStay` | `SettledJobsStay` |
| `MatchingJobs` | `ExecutionMatchesJobs` |
| `ClaimsKept` | `KeepsClaims`, the refinement of `ClaimedJobs` |

`ExecutionMatchesJobs` has an invariant of its own on top of `IInv`. `ToldInv` says of the
last job of an execution what its status tells (a route that is done without a successor, an
automation job that has settled, ...), and `OpenAlone` that an open job is always the last
one. Together they make the write of `claim_job` to the execution the last word on it.

`KeepsClaims` is proved in `EcsClaims_proofs`, row by row: the row a transaction writes makes
the move that bears its name, a row it sweeps lapses, a successor it queues is opened, and no
other row changes what the abstract job shows. That a claim has a single holder is
`FramesInv`: it carries a token that no frame has.

**HermesCase.** `IInv` is `Typed` (types) with `CaseInv`, `KindInv` and `FramesInv`. `CaseInv`
holds the properties and two facts they need: a case without a revision has neither turns nor
a binding (a first comment has nothing to cancel), and a solved case stays terminal or
escalated (so `Blocked` keeps refusing the comments that raced the solution; the binding may
lose `terminal` when it is handed over, but only by becoming `escalated`). `KindInv` says that
a turn with a route run or a pending direction call is a begun turn of kind `normal`, which is
why writing its direction cannot turn a reply turn into something else. `FramesInv` is what an
interrupted process may rely on: the turn it drives has begun and has the phase it is in, and
the turn it cancels can never become active again. The steps are proved by what they write:
nothing of the case (`WorkerStep`), one row (`RowIInv`, `RowWorkerIInv`: it suffices that
`RowFits`), the binding (`BindingStep`), or several rows (`AcceptComment`, `Solve`).

| theorem | states |
| --- | --- |
| `Invariance`, `TypeCorrect` | `IInv` is invariant; `TypeOK`, with the phases of a frame |
| `CurrentOnly`, `OutdatedOnly` | `ActiveTurnIsCurrent`, `OnlyOutdatedIsCancelled` |
| `OneActive` | `OneActiveTurn` |
| `SolvedStaysQuiet` | `NoCustomerTurnAfterSolve` |
| `OneReply` | `OneReplyPerReview` |
| `EndedStay` | `EndedTurnsStay` |
| `QuietAfterTurn` | `QuietWhenOver` |
| `TurnsKeepClaims` | `KeepsClaims`, the refinement of `ClaimedJobs` |
| `HermesKeepsTurns` | `KeepsTurns`, the refinement of `CaseTurns` |
| `WaitingIsDriven` | `WaitingTurnIsDriven` |
| `RunningIsDriven` | `RunningTurnIsDriven` |

`QuietWhenOver` is proved in `HermesQuiet_proofs`, from `QuietInv`, which speaks of behaviours
without a lease that lapses under a live owner; there, every turn has one process at most.
It ties three things together that are written at different times: what goes on at the
gateway, what the run rows record, and the mark of `before_external` on the job. While a turn
runs, only the phase its process is in can be going, and only at `record`, `poll` and `fail`;
every run that is going is recorded, except between `start_run` and `start_hermes_turn_run`.
So a cancellation finds every run, unless the process died or raised in that gap, or gave a
run up in `fail`. Then the job is marked: it ends, no process enters the turn again, and it
is neither completed nor superseded (it stays active and `Abandoned`, or has failed).

`TurnsKeepClaims` (in `HermesClaims_proofs`) needs little of that. `StepEffect` says all a step
can do to jobs and processes: it opens or lapses a job, a process takes one, goes on with its
turn (and may set its mark) or leaves it (and may settle its job). Each is a move of the
abstract jobs; `OpenInv`, that a turn with a job or a process was opened, makes the job that
`Open` queues a new one.

`HermesKeepsTurns` (in `HermesTurns_proofs`) rests on one observation about the store, lemma by
lemma: apart from intake and a solution, which write all rows, a transaction writes the row of
one turn, and unless it opens or starts that turn it leaves status and revision as they are or
ends the turn (`RowWritten`). The invariant is needed where the code's own guard says less than
the abstract move: `start_hermes_agent_turn` compares no revision, so that it starts only what
is current is `ActiveTurnIsCurrent`; that a turn opens for a revision that exists is `NewCaseInv`.

`WaitingIsDriven` and `RunningIsDriven`, in the same module, are the safety half of
`EveryTurnEndsUnlessAbandoned`: what TLC shows to happen in the end, on two turns, they reduce
for any number to the progress of the processes. Both start from `RowEffects`, which says what a
step can do to a row: keep its status and kind, end it, put it out of reach (`cancel_requested`,
`dropped`), open it or begin it. `WaitInv` adds that the job of a turn that waits is not marked
(or a lapse would retire it) and that a process at it is on the way to `start_hermes_agent_turn`
or gives the job back. It holds with stalls and crashes, but not with exceptions, which end the
job (`fail_job`) and leave the turn pending. `RunInv` follows the process that holds the job of
a running turn from place to place; none of them leaves the turn, but for the hand-over after a
failed ownership gate. That the gate is never asked for a turn of an investigation is `KindInv`
(the direction of such a turn is never automation), that the work phase does not find the case
solved while its turn runs is `ResInv`, and that no second process is in the way comes from
`QuietInv`. The escalation the property allows for stays, so it cannot be left by a later step.

**DraftDelivery.** `Base`, the types with the links between gates, drafts, jobs, frames and
ledger rows, is inductive by itself. On top of it each property has an inductive part of its
own: `SendInv` (a frame that is about to post has claimed a row nobody else can have),
`ChosenInv` (the gate picks one draft of a turn, which is the hinge of the rest: the job of a
turn keeps the draft it was made for and is never asked to prepare another one), `FinalInv`,
`DrivenInv`, `DeniedInv`, `RefusedInv` (the conversation version never goes back), `SingleInv`
(what the only drain knows of the row it is at: it is pending from the claim to the record, and
an outcome of failed means nothing was posted or the post was answered with an error status),
`OfferInv` (a draft at the gate whose turn a
comment has cancelled is already stale, and one saved late for such a turn never comes to a
gate). The steps are proved by effects: one lemma says what each action
does, others how a single row, job, gate or frame can move at all.

| theorem | states |
| --- | --- |
| `RowsTyped` | `TypeOK` |
| `PostedOnce` | `SentOnce` |
| `PreparationStaysFinal` | `CompletedPreparationIsFinal` |
| `PreparationIsDriven` | `PreparingIsDriven` |
| `DeniedIsNotSent` | `DeniedNeedsAHuman` |
| `RefusalHolds` | `RefusedIsNeverSent` |
| `OfferIsCurrent` | `OfferedIsCurrent` |
| `LedgerIsTrue` | `LedgerTellsTheTruth`, with its exception of error statuses, for one drain |
| `DeliveryKeepsPromise` | `KeepsPromise`, the refinement of `CustomerReply`, for one drain |
| `PreparationsKeepClaims` | `KeepsClaims`, the refinement of `ClaimedJobs` |
| `DraftsKeepTurns` | `KeepsTurns`, the refinement of `CaseTurns` |

`PreparationsKeepClaims` (in `DraftClaims_proofs`) follows from `Base`: an approval opens the
job of its turn or requests it again, a preparation that finishes settles the job if its claim
stands and just leaves if not, and the link between frames and jobs says that a job nobody has
requested has no process inside. `DraftsKeepTurns`, in the same module, needs `OfferInv` for
the start of a turn (one that waits is for the newest revision) and that the revision is never 0.

**Only model-checked.** The liveness properties, which are beyond the prover: it has no rules
for `ENABLED` and fairness. Every invariant and action property of the passing runs is also
proved; two of them, `LedgerTellsTheTruth` and `KeepsPromise`, for one drain.

## 5. Findings

1. **`outcome_unknown` is covered up** (`jobs_outcome_unknown`). The migration plan
   (`docs/superpowers/plans/2026-08-26-ecs-production-migration.md:21`) says the status stays
   terminal and goes to human review. `claim_job` writes `processing` to the execution
   unconditionally, so a delivery-preparation job of the same execution makes it `processing`
   and then `completed`.
2. **The turn of the newest revision may never start** (`hermes_starved`).
   `docs/feature_list.md:59` says a new comment cancels the old run and only the newest
   revision runs. A comment that arrives after the process last read the status of the old
   turn leaves it `cancel_requested`; the transaction that would end it raises, its job ends
   with `fail_job`, and the unique index counts it as active for ever. No fault is needed.
3. **A human direction may be parked** (`hermes_parked`). A comment in
   `automation_hermes_agent.py` (551-554) says such a direction is a real handover that
   completes before the turn ends. The tool writes the direction to the binding at once; if a
   comment then cancels the turn, it is superseded without the escalation, and the binding
   blocks the comment that overtook it although nobody was handed the case.

4. **A preparation that failed may send** (`draft_retry`). The docstring of
   `prepare_hermes_draft_delivery` (`automation_hermes_delivery.py:400-402`) says a failure
   leaves no ledger row and makes no Zendesk call. The ledger row is written before the draft is
   marked queued, in another transaction; an approval in that window starts the preparation
   again, and if it fails the draft reads `prepare_failed` while the row of the first
   preparation is queued and the drain posts it.

The docstring of `process_hermes_delivery_prep_once` (`automation_ecs_worker.py:362-367`) says
the job of a failed preparation completes normally; the code ends it with `fail_job`. The model
follows the code, and `CompletedPreparationIsFinal` depends on it: only a job that is not
completed is reset by the next approval.

A comment that Zendesk committed before it, or a proxy, answered 408, 425, 429 or 5xx is
recorded `failed` for good (`worker.py:2953` with `zendesk_comments.py:148-159`), where the
migration plan (`docs/superpowers/plans/2026-08-26-ecs-production-migration.md:106`) has
everything uncertain after the external boundary become `outcome_unknown`, and the same line of
`worker.py` does so for 5xx when there are attachments. There is no run of its own for it: what
it does to the ledger is the exception in `LedgerTellsTheTruth` and `EveryPostIsRecorded`, and
without `past.misjudged` TLC finds both violated in `draft_delivery`. The draft is not sent
twice (`SentOnce`); a reader of the ledger is told that the customer got no answer.

## 6. Not modelled, and why

- *In HermesCase*: classification-only and legacy cases, ad-hoc sessions, investigation notes (no
  effect on the rows modelled); drafts and the conversation version (they are in DraftDelivery);
  the account case is taken to exist; the check that the attachments of a comment are still those
  of the turn is one of the refusals of `Notify`; a poll that sees its run completed writes the
  run, the work of the turn and a human direction in three transactions, which `PollCompleted`
  takes as one. `QuietWhenOver` leaves out `message_action` runs: `_recover_cancellation` does
  not stop them, and the model shows they may outlive their turn; they only classify.
- *In DraftDelivery*: the side effects of a delivery and the reclaim of ownership after it;
  `approve_hermes_case_draft`, which nothing calls; the contents of attachments (only their guard
  is there); the live read behind `comments_revision`; an account case or comments revision that
  is missing when the draft is queued, which ends the preparation as `PrepError` does; a
  deployment with Zendesk side effects disabled, whose gate approves and prepares nothing; which
  review a reply continues; deliveries of the account and engineer sources, which share the
  table. The audit finds a comment by its text; drafts of equal text are not told apart in the
  code, and have none in the model.
- *In EcsJobs*: duplicates of an intake event (the event id removes them inside
  `accept_intake`), wall-clock time, `available_at`.
- Knowledge delivery: a document is created at the memory service only after
  `mark_knowledge_delivery_receipt` has left a marker, and the Postgres class cannot write it
  (`knowledge_delivery_repository.py:506`, the unescaped `{}` in a text that is formatted).
- The in-memory twin of the store serves tests and is not what runs.
- Prompts, classification, wording, HTTP validation, rendering and DDL.

## 7. Where it could go on

The older account workflow, the relay and the knowledge delivery use the same lease protocol
with variations; `ClaimedJobs` is what to hold them to. The three models meet in it, the two
about a case in `CaseTurns` as well, and they are not composed into one: a behaviour that needs
the tokens of the queue and the rows of a draft at once is in none of them.
