----------------------------- MODULE HermesCase -----------------------------
(***************************************************************************)
(* One Zendesk case of the Hermes engine: its revision, its binding, the   *)
(* turns that answer its events, and the processes that drive a turn       *)
(* through its phases (HermesAgentTurnProcessor) against the gateway that  *)
(* runs the agent.                                                         *)
(*                                                                         *)
(* A customer comment advances the revision and cancels the turns of older *)
(* ones; at most one turn of the case is running.  A transaction, a        *)
(* gateway call, or the reads between two of them is one action.  A process*)
(* keeps only its Python frame between two actions.  The agent_turn job of *)
(* a turn is reduced to what ClaimedJobs shows of it: who holds the claim, *)
(* and whether before_external marked it, which decides what a lapsed lease*)
(* does.  Drafts and the conversation version they are fenced with are in  *)
(* DraftDelivery.                                                          *)
(***************************************************************************)
EXTENDS Naturals, Sequences

CONSTANTS
    Turns,          \* executions of the case that may open a turn
    Workers,        \* processes running AutomationWorker.process_agent_turn_once
    NoTurn,         \* no turn
    NoWorker,       \* no process
    EventsSeen,     \* bound: the kinds of events that occur
    ToolsCalled,    \* bound: the tools the agent calls
    Closing,        \* bound: whether the ticket of such an event may be over
    MaxUpdates,     \* bound: events that change the ticket and open no turn
    MaxStalls,      \* bound: leases that lapse under a live owner
    MaxCrashes,     \* bound: processes killed while holding a job
    MaxFaults       \* bound: exceptions the processor does not expect

ASSUME ConstantsAssumption ==
    /\ NoTurn \notin Turns
    /\ NoWorker \notin Workers
    /\ EventsSeen \subseteq {"created", "comment", "feedback", "reply"}
    /\ ToolsCalled \subseteq {"direction", "escalate", "solve"}
    /\ Closing \subseteq BOOLEAN
    /\ {MaxUpdates, MaxStalls, MaxCrashes, MaxFaults} \subseteq Nat

VARIABLES
    case,     \* automation_cases: case_revision and whether the ticket is over
    binding,  \* automation_hermes_case_bindings
    turn,     \* turn[t]: automation_hermes_agent_turns with its execution
    made,     \* the turns in the order of created_at
    run,      \* run[t][p]: automation_hermes_turn_runs.status
    gateway,  \* gateway[t][p]: the run of phase p at the Hermes gateway
    tool,     \* tool[t]: the tool request of turn t the API is serving
    job,      \* job[t]: the agent_turn job of turn t
    worker,   \* worker[w]: the frame of process_agent_turn_once in process w
    used      \* how much of each bound is spent

vars == <<case, binding, turn, made, run, gateway, tool, job, worker, used>>

------------------------------------------------------------------------------
(* Values *)

Phases == {"route", "message_action", "work", "persona"}
Directions == {"automation", "investigation", "human"}
Kinds == {"normal", "fixed_task", "message_action",
          "investigation_feedback", "investigation_reply"}
Events == {"created", "comment", "feedback", "reply"}

\* routing: the event waits for hand_off_to_hermes_agent; dropped: that call
\* opened no turn for it.  unknown is outcome_unknown.
Ended == {"completed", "superseded", "failed", "unknown"}
Live == {"pending", "running", "cancel_requested"}
Status == {"none", "routing", "dropped"} \cup Live \cup Ended

\* why: what dropped or superseded the turn.  act: the action a message_action
\* run classified.  res: what the result of a completed turn says.
TurnRow == [status : Status, event : Events \cup {"none"}, rev : Nat,
            kind : Kinds \cup {"none"}, dir : Directions \cup {"none"},
            act : {"none", "handoff", "continue", "answer", "reply"},
            res : {"none", "done", "review", "solved"},
            source : Turns \cup {NoTurn}, why : {"none", "revision", "blocked"}]
NoRow == [status |-> "none", event |-> "none", rev |-> 0, kind |-> "none",
          dir |-> "none", act |-> "none", res |-> "none", source |-> NoTurn,
          why |-> "none"]

\* terminal: status is terminal; task: the direction of the immutable case_task
Binding == [exists : BOOLEAN, dir : Directions \cup {"pending"},
            escalated : BOOLEAN, terminal : BOOLEAN,
            task : {"none", "automation", "investigation"}]
NoBinding == [exists |-> FALSE, dir |-> "pending", escalated |-> FALSE,
              terminal |-> FALSE, task |-> "none"]

\* A run row without a run_id does nothing yet and counts as none; ended is any
\* status but running and completed
RunStatus == {"none", "running", "completed", "ended"}
GatewayStatus == {"none", "running", "completed", "failed"}

Tools == {"direction", "escalate", "solve"}

Job == [status : {"none", "queued", "claimed", "done"},
        owner : Workers \cup {NoWorker}, ext : BOOLEAN]
NoJob == [status |-> "none", owner |-> NoWorker, ext |-> FALSE]
NewJob == [NoJob EXCEPT !.status = "queued"]

Place == {"idle", "enter", "start", "notify", "phase", "fence", "launch", "record",
          "poll", "after", "handover", "complete", "fail", "list", "recover", "settle"}

\* out: what the place that comes next is to write; left: the phases whose runs
\* _recover_cancellation still has to see ended
Frame == [pc : Place, turn : Turns \cup {NoTurn}, phase : Phases \cup {"none"},
          out : {"none", "done", "review", "leave", "failed", "rejected", "lost",
                 "end", "defer"},
          left : SUBSET Phases]
Idle == [pc |-> "idle", turn |-> NoTurn, phase |-> "none", out |-> "none", left |-> {}]

Faults == {"update", "stall", "crash", "fault"}
Limit == [update |-> MaxUpdates, stall |-> MaxStalls, crash |-> MaxCrashes,
          fault |-> MaxFaults]
Spend(f) == /\ used[f] < Limit[f]
            /\ used' = [used EXCEPT ![f] = @ + 1]

\* Mutant of FirstPhase: the kind of the turn is not looked at
FirstPhaseOfNormal(kind) == "route"

\* HermesTurnPhase.phases_for, as the first phase and the one that follows
FirstPhase(kind) ==
    CASE kind = "normal" -> "route"
      [] kind = "message_action" -> "message_action"
      [] kind = "investigation_reply" -> "persona"
      [] OTHER -> "work"
NextPhase(p) == IF p = "work" THEN "persona" ELSE "work"
PhasesOf(kind) ==
    CASE kind = "normal" -> {"route", "work", "persona"}
      [] kind = "message_action" -> {"message_action", "work", "persona"}
      [] kind = "fixed_task" -> {"work", "persona"}
      [] kind = "investigation_feedback" -> {"work"}
      [] kind = "investigation_reply" -> {"persona"}
      [] OTHER -> {}

------------------------------------------------------------------------------
(* Helper state formulae *)

\* Mutant of Blocked: a ticket that was solved may be taken up again
BlockedByTakeover == binding.dir = "human" \/ binding.escalated

\* native_customer_lifecycle_blocker
Blocked == \/ binding.dir = "human"
           \/ binding.escalated
           \/ binding.terminal
           \/ case.closed

\* The first turn with a durable classification went to investigation
FirstRouted(i) == /\ turn[made[i]].kind \in {"normal", "fixed_task"}
                  /\ turn[made[i]].dir # "none"
FirstInvestigation ==
    \E i \in DOMAIN made :
        /\ FirstRouted(i)
        /\ \A j \in 1 .. i - 1 : ~FirstRouted(j)
        /\ turn[made[i]].dir = "investigation"

\* initial_investigation_route
Inherited == ~Blocked /\ FirstInvestigation

SomeLive == \E t \in Turns : turn[t].status \in Live
Active(t) == turn[t].status \in {"running", "cancel_requested"}

Of(w) == worker[w].turn
Owns(w) == job[Of(w)].status = "claimed" /\ job[Of(w)].owner = w
At(w, place) == worker[w].pc = place

Step(w, frame) == worker' = [worker EXCEPT ![w] = frame]
Go(w, place) == Step(w, [worker[w] EXCEPT !.pc = place])
GoOut(w, place, out) == Step(w, [worker[w] EXCEPT !.pc = place, !.out = out])
GoPhase(w, p) == Step(w, [worker[w] EXCEPT !.pc = "phase", !.phase = p])
\* process returns, or raises what process_agent_turn_once turns into fail_job
Return(w) == GoOut(w, "settle", "end")

\* The case goes to an engineer and the turn ends: for a human direction, a route
\* contract that is invalid, or a phase that failed for good
HandOverAndEnd(w) == GoOut(w, "handover", "done")

\* The ownership gate refused: the case goes to an engineer, the turn is left as it is
HandOverAndLeave(w) == GoOut(w, "handover", "leave")

SetTurn(t, row) == turn' = [turn EXCEPT ![t] = row]

------------------------------------------------------------------------------
Init ==
    /\ case = [rev |-> 0, closed |-> FALSE]
    /\ binding = NoBinding
    /\ turn = [t \in Turns |-> NoRow]
    /\ made = <<>>
    /\ run = [t \in Turns |-> [p \in Phases |-> "none"]]
    /\ gateway = [t \in Turns |-> [p \in Phases |-> "none"]]
    /\ tool = [t \in Turns |-> "none"]
    /\ job = [t \in Turns |-> NoJob]
    /\ worker = [w \in Workers |-> Idle]
    /\ used = [f \in Faults |-> 0]

------------------------------------------------------------------------------
(* accept_intake *)

\* Mutant of CancelledBy: a turn that runs is superseded before its runs have ended
CancelledAtOnce(row) ==
    IF row.status \in {"pending", "running"}
    THEN [row EXCEPT !.status = "superseded", !.why = "revision"] ELSE row

\* A turn of an older revision, when a comment makes the case advance
CancelledBy(row) ==
    CASE row.status = "pending" -> [row EXCEPT !.status = "superseded", !.why = "revision"]
      [] row.status = "running" -> [row EXCEPT !.status = "cancel_requested"]
      [] OTHER -> row

\* Mutant of Cancelling: the turns nobody started are forgotten
CancelRunningOnly ==
    [t \in Turns |-> IF turn[t].status = "running" THEN CancelledBy(turn[t]) ELSE turn[t]]

Cancelling == [t \in Turns |-> CancelledBy(turn[t])]

\* The binding is terminal when the ticket was, or is now, solved or closed
BindingAfterIntake(closed) ==
    IF binding.exists /\ (case.closed \/ closed)
    THEN [binding EXCEPT !.terminal = TRUE] ELSE binding

Arrived(event, rev) ==
    [NoRow EXCEPT !.status = "routing", !.event = event, !.rev = rev]

\* The first event of a ticket creates the case at revision 1
AcceptFirst(t, event, closed) ==
    /\ case.rev = 0
    /\ turn[t].status = "none"
    /\ case' = [rev |-> 1, closed |-> closed]
    /\ SetTurn(t, Arrived(event, 1))
    /\ UNCHANGED <<binding, made, run, gateway, tool, job, worker, used>>

\* A public customer comment (comment_advances_case)
AcceptComment(t, closed) ==
    /\ case.rev > 0
    /\ turn[t].status = "none"
    /\ case' = [rev |-> case.rev + 1, closed |-> closed]
    /\ binding' = BindingAfterIntake(closed)
    /\ turn' = [Cancelling EXCEPT ![t] = Arrived("comment", case.rev + 1)]
    /\ UNCHANGED <<made, run, gateway, tool, job, worker, used>>

\* Mutant of AcceptCreatedLate: every event of the ticket cancels its turns
AcceptCreatedCancelling(t, closed) ==
    /\ case.rev > 0
    /\ turn[t].status = "none"
    /\ \A u \in Turns : turn[u].event # "created"
    /\ case' = [case EXCEPT !.closed = closed]
    /\ binding' = BindingAfterIntake(closed)
    /\ turn' = [Cancelling EXCEPT ![t] = Arrived("created", case.rev)]
    /\ UNCHANGED <<made, run, gateway, tool, job, worker, used>>

\* A ticket.created event that arrives after the case exists
AcceptCreatedLate(t, closed) ==
    /\ case.rev > 0
    /\ turn[t].status = "none"
    /\ \A u \in Turns : turn[u].event # "created"
    /\ case' = [case EXCEPT !.closed = closed]
    /\ binding' = BindingAfterIntake(closed)
    /\ SetTurn(t, Arrived("created", case.rev))
    /\ UNCHANGED <<made, run, gateway, tool, job, worker, used>>

\* Any other event only brings the mirror of the ticket up to date
AcceptUpdate(closed) ==
    /\ case.rev > 0
    /\ Spend("update")
    /\ case' = [case EXCEPT !.closed = closed]
    /\ binding' = BindingAfterIntake(closed)
    /\ UNCHANGED <<turn, made, run, gateway, tool, job, worker>>

------------------------------------------------------------------------------
(* Turns are opened *)

Open(t, row) ==
    /\ SetTurn(t, row)
    /\ made' = Append(made, t)
    /\ job' = [job EXCEPT ![t] = NewJob]

\* hand_off_to_hermes_agent, the transaction of a claimed route job.  A created
\* event brings the case_task the account router decided.
DropBlocked(t) ==
    /\ turn[t].status = "routing"
    /\ turn[t].event = "comment" /\ Blocked
    /\ SetTurn(t, [turn[t] EXCEPT !.status = "dropped", !.why = "blocked"])
    /\ UNCHANGED <<case, binding, made, run, gateway, tool, job, worker, used>>

DropOutdated(t) ==
    /\ turn[t].status = "routing"
    /\ ~(turn[t].event = "comment" /\ Blocked)
    /\ turn[t].rev < case.rev
    /\ SetTurn(t, [turn[t] EXCEPT !.status = "dropped", !.why = "revision"])
    /\ UNCHANGED <<case, binding, made, run, gateway, tool, job, worker, used>>

BindingWithTask(t, task) ==
    IF turn[t].event = "created" /\ binding.task = "none"
    THEN [binding EXCEPT !.exists = TRUE, !.task = task,
                         !.dir = IF @ = "pending" THEN task ELSE @]
    ELSE [binding EXCEPT !.exists = TRUE]

\* kind and direction of the turn that answers a created or comment event
RowFor(t, task) ==
    CASE turn[t].event = "comment" /\ Inherited ->
            [turn[t] EXCEPT !.status = "pending", !.kind = "investigation_feedback",
                            !.dir = "investigation", !.rev = case.rev]
      [] turn[t].event = "comment" /\ ~Inherited /\ task # "none" ->
            [turn[t] EXCEPT !.status = "pending", !.kind = "message_action",
                            !.dir = task, !.rev = case.rev]
      [] turn[t].event = "created" ->
            [turn[t] EXCEPT !.status = "pending", !.kind = "fixed_task",
                            !.dir = task, !.rev = case.rev]
      [] OTHER ->
            [turn[t] EXCEPT !.status = "pending", !.kind = "normal", !.rev = case.rev]

HandOff(t, task) ==
    /\ turn[t].status = "routing"
    /\ ~(turn[t].event = "comment" /\ Blocked)
    /\ ~(turn[t].rev < case.rev)
    /\ binding' = BindingWithTask(t, task)
    /\ Open(t, RowFor(t, binding'.task))
    /\ UNCHANGED <<case, run, gateway, tool, worker, used>>

\* create_investigation_feedback_turn: an engineer asks to investigate again
CreateFeedbackTurn(t) ==
    /\ turn[t].status = "none"
    /\ binding.exists
    /\ ~SomeLive
    /\ Open(t, [NoRow EXCEPT !.status = "pending", !.event = "feedback", !.rev = case.rev,
                             !.kind = "investigation_feedback", !.dir = "investigation"])
    /\ UNCHANGED <<case, binding, run, gateway, tool, worker, used>>

\* Mutant of Continued: the stamp continued_turn_id is not looked at
NeverContinued(s) == FALSE

\* The result of s carries continued_turn_id
Continued(s) == \E t \in Turns : turn[t].source = s

\* create_investigation_reply_turn: an engineer has the reviewed result answered
CreateReplyTurn(t, s) ==
    /\ turn[t].status = "none"
    /\ turn[s].status = "completed" /\ turn[s].res = "review"
    /\ ~Continued(s)
    /\ turn[s].rev = case.rev
    /\ ~SomeLive
    /\ Open(t, [NoRow EXCEPT !.status = "pending", !.event = "reply", !.rev = case.rev,
                             !.kind = "investigation_reply", !.dir = "investigation",
                             !.source = s])
    /\ UNCHANGED <<case, binding, run, gateway, tool, worker, used>>

------------------------------------------------------------------------------
(* The agent_turn job *)

Claim(w, t) ==
    /\ At(w, "idle")
    /\ job[t].status = "queued"
    /\ job' = [job EXCEPT ![t].status = "claimed", ![t].owner = w]
    /\ Step(w, [Idle EXCEPT !.pc = "enter", !.turn = t])
    /\ UNCHANGED <<case, binding, turn, made, run, gateway, tool, used>>

HeldBy(w, t) == ~At(w, "idle") /\ Of(w) = t /\ Owns(w)

\* Mutant of AfterLapse: the mark of before_external is not looked at
AfterLapseQueued(row) == [row EXCEPT !.status = "queued", !.owner = NoWorker]

\* Mutant of AfterLapse: every lapsed job is swept
AfterLapseDone(row) == [row EXCEPT !.status = "done", !.owner = NoWorker]

\* A marked job is swept to outcome_unknown, any other is claimed again
AfterLapse(row) ==
    IF row.ext THEN [row EXCEPT !.status = "done", !.owner = NoWorker]
               ELSE [row EXCEPT !.status = "queued", !.owner = NoWorker]

LeaseRunsOut(t) ==
    /\ job[t].status = "claimed"
    /\ ~ \E w \in Workers : HeldBy(w, t)
    /\ job' = [job EXCEPT ![t] = AfterLapse(@)]
    /\ UNCHANGED <<case, binding, turn, made, run, gateway, tool, worker, used>>

OwnerStalls(w) ==
    /\ ~At(w, "idle") /\ Owns(w)
    /\ Spend("stall")
    /\ job' = [job EXCEPT ![Of(w)] = AfterLapse(@)]
    /\ UNCHANGED <<case, binding, turn, made, run, gateway, tool, worker>>

\* The transaction that ends the claim; without the claim it raises and the
\* process starts over
Settle(w) ==
    /\ At(w, "settle")
    /\ job' = IF Owns(w)
              THEN [job EXCEPT ![Of(w)].status = IF worker[w].out = "defer"
                                                 THEN "queued" ELSE "done",
                               ![Of(w)].owner = NoWorker]
              ELSE job
    /\ Step(w, Idle)
    /\ UNCHANGED <<case, binding, turn, made, run, gateway, tool, used>>

------------------------------------------------------------------------------
(* HermesAgentTurnProcessor.process up to its phases *)

\* The turn is entered again at its first phase after a claim that was lost or
\* given back; one that failed before its job was marked is entered as well
EnterPhases(w, row) ==
    Step(w, [worker[w] EXCEPT !.phase = FirstPhase(row.kind),
                !.pc = IF row.kind = "investigation_feedback" /\ row.event = "comment"
                       THEN "notify" ELSE "phase"])

Enter(w) ==
    /\ At(w, "enter")
    /\ \/ /\ turn[Of(w)].status \in {"completed", "superseded"}
          /\ Return(w)
       \/ /\ turn[Of(w)].status = "cancel_requested"
          /\ Go(w, "list")
       \/ /\ turn[Of(w)].status = "pending"
          /\ Go(w, "start")
       \/ /\ turn[Of(w)].status \in {"running", "failed", "unknown"}
          /\ EnterPhases(w, turn[Of(w)])
    /\ UNCHANGED <<case, binding, turn, made, run, gateway, tool, job, used>>

\* The binding has a case_task but no usable prompt snapshot: handed over at once,
\* whatever state the turn is in
PromptMissing(w) ==
    LET t == Of(w) IN
    /\ At(w, "enter")
    /\ turn[t].status \notin {"completed", "superseded"}
    /\ turn[t].kind \in {"fixed_task", "message_action", "investigation_feedback"}
    /\ binding.task # "none"
    /\ Spend("fault")
    /\ IF turn[t].status \in Live
       THEN /\ turn' = [turn EXCEPT ![t].dir = "human"]
            /\ binding' = [binding EXCEPT !.dir = "human"]
            /\ HandOverAndEnd(w)
       ELSE Return(w) /\ UNCHANGED <<turn, binding>>
    /\ UNCHANGED <<case, made, run, gateway, tool, job>>

\* SnapshotTooLarge: the pending turn fails before it starts
RefuseSnapshot(w) ==
    LET row == turn[Of(w)] IN
    /\ At(w, "start")
    /\ turn' = IF row.status \in {"pending", "running"}
               THEN [turn EXCEPT ![Of(w)].status = "failed"] ELSE turn
    /\ Return(w)
    /\ UNCHANGED <<case, binding, made, run, gateway, tool, job, used>>

\* The turn start_hermes_agent_turn leaves behind: a first comment that was
\* opened before the case was known to be an investigation joins it
StartedRow(row) ==
    IF row.kind = "normal" /\ row.event = "comment" /\ Inherited
    THEN [row EXCEPT !.status = "running", !.kind = "investigation_feedback",
                     !.dir = "investigation"]
    ELSE [row EXCEPT !.status = "running"]

\* Mutant of Conflict: the unique index without cancel_requested
ConflictWithRunning(t) == \E u \in Turns \ {t} : turn[u].status = "running"

\* Mutant of Conflict: a turn that has not started counts as active
ConflictWithLive(t) == \E u \in Turns \ {t} : turn[u].status \in Live

\* The unique index automation_hermes_turns_one_active
Conflict(t) == \E u \in Turns \ {t} : Active(u)

\* start_hermes_agent_turn
Start(w) ==
    LET t == Of(w)
        row == turn[t]
        overtaken == row.event = "comment" /\ Blocked
    IN
    /\ At(w, "start")
    /\ \/ row.status # "pending" /\ Return(w) /\ UNCHANGED turn
       \/ /\ row.status = "pending" /\ overtaken
          /\ SetTurn(t, [row EXCEPT !.status = "superseded", !.why = "blocked"])
          /\ Return(w)
       \/ /\ row.status = "pending" /\ ~overtaken /\ Conflict(t)
          /\ GoOut(w, "settle", "defer")
          /\ UNCHANGED turn
       \/ /\ row.status = "pending" /\ ~overtaken /\ ~Conflict(t)
          /\ SetTurn(t, StartedRow(row))
          /\ EnterPhases(w, StartedRow(row))
    /\ UNCHANGED <<case, binding, made, run, gateway, tool, job, used>>

\* _notify_customer_continuation: it may be sent already, or be refused by Slack
\* and tried again with the whole job; its fence wants a running turn and the claim
Notify(w) ==
    /\ At(w, "notify")
    /\ \/ Go(w, "phase") /\ UNCHANGED job
       \/ /\ turn[Of(w)].status = "running" /\ Owns(w)
          /\ job' = [job EXCEPT ![Of(w)].ext = TRUE]
          /\ Go(w, "phase")
       \/ /\ turn[Of(w)].status # "running" \/ ~Owns(w)
          /\ Return(w) /\ UNCHANGED job
    /\ UNCHANGED <<case, binding, turn, made, run, gateway, tool, used>>

NotifyRefused(w) ==
    /\ At(w, "notify")
    /\ Spend("fault")
    /\ GoOut(w, "settle", "defer")
    /\ job' = IF turn[Of(w)].status = "running" /\ Owns(w)
              THEN [job EXCEPT ![Of(w)].ext = TRUE] ELSE job
    /\ UNCHANGED <<case, binding, turn, made, run, gateway, tool>>

------------------------------------------------------------------------------
(* One phase *)

\* The work phase needs no agent run: the server assembles the reply itself
ServerWork(row) ==
    \/ row.kind = "message_action" /\ row.act = "answer"
    \/ row.kind = "normal" /\ row.dir = "automation"

\* _run_followup_reply_work, _run_message_action_reply_work: the record of the work
\* is refused for a turn that is over
ServeWork(w) == IF turn[Of(w)].status \in Live THEN Go(w, "after") ELSE Return(w)

\* A reply-only message action has no work phase
ReplyOnly(row) == row.kind = "message_action" /\ row.act \in {"none", "reply"}

\* Mutant of AskForReview: the turn is left to the engineer who reviews it
AskAndReturn(w) == Return(w) \/ GoOut(w, "fail", "rejected")

\* _complete_investigation_review: the result waits for an engineer, or is not one
\* that can be reviewed
AskForReview(w) == GoOut(w, "complete", "review") \/ GoOut(w, "fail", "rejected")

RunCompleted(t, p) == [run EXCEPT ![t][p] = "completed"]

\* fail_hermes_turn_run leaves a completed run alone
RunEnded(t, p) == IF run[t][p] = "completed" THEN run ELSE [run EXCEPT ![t][p] = "ended"]

\* record_hermes_turn_work with the classification of a message action
Classified(t, act) == [turn EXCEPT ![t].act = act]

\* The head of the phase loop, with _run_phase up to its first outside call
BeginPhase(w) ==
    LET t == Of(w)
        p == worker[w].phase
        row == turn[t]
        work == p = "work" /\ row.status \notin {"cancel_requested", "superseded"}
    IN
    /\ At(w, "phase")
    /\ \/ row.status = "cancel_requested" /\ Go(w, "list")
       \/ row.status = "superseded" /\ Return(w)
       \/ work /\ ReplyOnly(row) /\ GoPhase(w, "persona")
       \* a human direction is handed over before the turn ends
       \/ work /\ ~ReplyOnly(row) /\ row.dir = "human" /\ HandOverAndEnd(w)
       \* _claim_automation_ownership_before_work failed
       \/ /\ work /\ ~ReplyOnly(row) /\ row.dir = "automation"
          /\ row.kind \in {"fixed_task", "message_action"}
          /\ HandOverAndLeave(w)
       \* _fail_route_contract_invalid
       \/ /\ work /\ ~ReplyOnly(row) /\ row.dir = "automation"
          /\ HandOverAndEnd(w)
       \/ work /\ ServerWork(row) /\ ServeWork(w)
       \/ /\ row.status \notin {"cancel_requested", "superseded"}
          /\ ~(p = "work" /\ (ReplyOnly(row) \/ row.act = "answer" \/ row.dir = "human"))
          /\ \/ run[t][p] = "completed" /\ Go(w, "after")
             \/ run[t][p] \in {"running", "ended"} /\ Go(w, "poll")
             \/ run[t][p] = "none" /\ Go(w, "fence")
    /\ UNCHANGED <<case, binding, turn, made, run, gateway, tool, job, used>>

\* before_external
Fence(w) ==
    /\ At(w, "fence")
    /\ IF Owns(w)
       THEN job' = [job EXCEPT ![Of(w)].ext = TRUE] /\ Go(w, "launch")
       ELSE Return(w) /\ UNCHANGED job
    /\ UNCHANGED <<case, binding, turn, made, run, gateway, tool, used>>

\* start_run under the request id of the run row: a second call finds the first run
Launched(t, p) ==
    IF gateway[t][p] = "none" THEN [gateway EXCEPT ![t][p] = "running"] ELSE gateway

Launch(w) ==
    /\ At(w, "launch")
    /\ \/ /\ gateway' = Launched(Of(w), worker[w].phase)
          /\ Go(w, "record")
       \* the receipt is lost: a retryable error, whatever the gateway did
       \/ /\ gateway' \in {gateway, Launched(Of(w), worker[w].phase)}
          /\ GoOut(w, "fail", "lost")
       \/ GoOut(w, "fail", "failed") /\ UNCHANGED gateway
    /\ UNCHANGED <<case, binding, turn, made, run, tool, job, used>>

\* start_hermes_turn_run
RecordRun(w) ==
    /\ At(w, "record")
    /\ run' = [run EXCEPT ![Of(w)][worker[w].phase] = "running"]
    /\ Go(w, "poll")
    /\ UNCHANGED <<case, binding, turn, made, gateway, tool, job, used>>

\* A pass of the poll loop that sees the run completed: complete_hermes_turn_run
\* and, for a message action, record_hermes_turn_work with its classification.
\* The pass has read the status of the turn before: it may have changed since.
PollCompleted(w) ==
    LET t == Of(w)
        p == worker[w].phase
    IN
    /\ At(w, "poll")
    /\ gateway[t][p] = "completed"
    /\ run' = RunCompleted(t, p)
    /\ \/ p # "message_action" /\ Go(w, "after") /\ UNCHANGED <<turn, binding>>
       \/ /\ p = "message_action" /\ turn[t].status \in Live
          /\ Go(w, "after")
          /\ \/ /\ \E act \in {"continue", "answer", "reply"} : turn' = Classified(t, act)
                /\ UNCHANGED binding
             \/ /\ turn' = [Classified(t, "handoff") EXCEPT ![t].dir = "human"]
                /\ binding' = [binding EXCEPT !.dir = "human"]
       \/ /\ p = "message_action" /\ turn[t].status \notin Live
          /\ Return(w) /\ UNCHANGED <<turn, binding>>
    /\ UNCHANGED <<case, made, gateway, tool, job, used>>

PollOther(w) ==
    LET t == Of(w) IN
    /\ At(w, "poll")
    /\ \/ turn[t].status = "cancel_requested" /\ Go(w, "list")
       \* an interrupted run is not handed over, and counts as unknown
       \/ /\ gateway[t][worker[w].phase] = "failed"
          /\ \E out \in {"failed", "lost"} : GoOut(w, "fail", out)
    /\ UNCHANGED <<case, binding, turn, made, run, gateway, tool, job, used>>

\* get_run fails, retryably or not, or the turn's time is up
PollGivesUp(w) ==
    /\ At(w, "poll")
    /\ \E out \in {"lost", "failed"} : GoOut(w, "fail", out)
    /\ UNCHANGED <<case, binding, turn, made, run, gateway, tool, job, used>>

\* What process does with a completed phase
AfterPhase(w) ==
    LET t == Of(w)
        p == worker[w].phase
        row == turn[t]
        worked == p = "work" /\ row.res # "solved"
        automated == row.dir = "automation"
    IN
    /\ At(w, "after")
    /\ \/ p = "message_action" /\ GoPhase(w, "work")
       \* missing_direction
       \/ p = "route" /\ row.dir = "none" /\ GoOut(w, "fail", "failed")
       \/ p = "route" /\ row.dir # "none" /\ GoPhase(w, "work")
       \* the attachments of the comment go to the engineers first
       \/ /\ p = "route" /\ row.dir = "investigation"
          /\ Step(w, [worker[w] EXCEPT !.pc = "notify", !.phase = "work"])
       \* the route contract is invalid, or the ownership gate fails
       \/ p = "route" /\ automated /\ (HandOverAndEnd(w) \/ HandOverAndLeave(w))
       \* support_close_case of this turn solved the case
       \/ p = "work" /\ row.res = "solved" /\ Return(w)
       \* no business result, or one that cannot be published
       \/ worked /\ (automated \/ ServerWork(row)) /\ HandOverAndEnd(w)
       \* the tool has handed over, or there is nothing to reply
       \/ worked /\ GoOut(w, "complete", "done")
       \/ worked /\ (automated \/ row.kind = "message_action") /\ GoPhase(w, "persona")
       \/ /\ worked /\ row.dir = "investigation" /\ row.kind # "message_action"
          /\ AskForReview(w)
       \* publication_decision_for_turn resolves an active turn, or raises
       \/ p = "persona" /\ row.status \notin {"pending", "running"} /\ Return(w)
       \/ /\ p = "persona" /\ row.status \in {"pending", "running"}
          /\ \/ GoOut(w, "complete", "done")
             \/ GoOut(w, "fail", "rejected")
             \/ row.kind = "investigation_reply" /\ GoOut(w, "fail", "lost")
    /\ UNCHANGED <<case, binding, turn, made, run, gateway, tool, job, used>>

------------------------------------------------------------------------------
(* How a turn ends *)

HandedOver == [binding EXCEPT !.dir = "human", !.escalated = TRUE, !.terminal = FALSE]

\* _escalate_automation_failure, which parks the binding with escalate_hermes_case;
\* after a failed ownership gate the turn is left as it is
Handover(w) ==
    /\ At(w, "handover")
    /\ binding' = HandedOver
    /\ IF worker[w].out = "leave" THEN Return(w) ELSE Go(w, "complete")
    /\ UNCHANGED <<case, turn, made, run, gateway, tool, job, used>>

\* complete_hermes_agent_turn; whether its refusal is raised or swallowed, the
\* job ends
Complete(w) ==
    LET t == Of(w) IN
    /\ At(w, "complete")
    /\ turn' = IF turn[t].status = "running"
               THEN [turn EXCEPT ![t].status = "completed", ![t].res = worker[w].out]
               ELSE turn
    /\ Return(w)
    /\ UNCHANGED <<case, binding, made, run, gateway, tool, job, used>>

\* Mutant of Failable: the status of the turn is not looked at
FailableAlways(row) == TRUE

Failable(row) == row.status \in {"pending", "running"}

\* fail_hermes_turn_run and fail_hermes_agent_turn; a terminal failure of a phase
\* is handed over
Fail(w) ==
    LET t == Of(w)
        p == worker[w].phase
        out == worker[w].out
    IN
    /\ At(w, "fail")
    /\ run' = RunEnded(t, p)
    /\ IF Failable(turn[t])
       THEN /\ turn' = [turn EXCEPT ![t].status = IF out = "lost" THEN "unknown" ELSE "failed"]
            /\ IF out = "failed" THEN GoOut(w, "handover", "leave") ELSE Return(w)
       ELSE Return(w) /\ UNCHANGED turn
    /\ UNCHANGED <<case, binding, made, gateway, tool, job, used>>

------------------------------------------------------------------------------
(* _recover_cancellation *)

\* Mutant of CancelPhases: the persona run is not looked for
CancelRouteAndWork == {"route", "work"}

CancelPhases == {"route", "work", "persona"}

ListRuns(w) ==
    /\ At(w, "list")
    /\ Step(w, [worker[w] EXCEPT !.pc = "recover",
                    !.left = {p \in CancelPhases : run[Of(w)][p] = "running"}])
    /\ UNCHANGED <<case, binding, turn, made, run, gateway, tool, job, used>>

\* stop_run, and get_run shows a terminal status
SeeStopped(w, p) ==
    /\ At(w, "recover")
    /\ p \in worker[w].left
    /\ gateway[Of(w)][p] # "running"
    /\ run' = [run EXCEPT ![Of(w)][p] = "ended"]
    /\ Step(w, [worker[w] EXCEPT !.left = @ \ {p}])
    /\ UNCHANGED <<case, binding, turn, made, gateway, tool, job, used>>

\* supersede_hermes_turn, which raises for a turn that is over
Supersede(w) ==
    LET t == Of(w) IN
    /\ At(w, "recover")
    /\ worker[w].left = {}
    /\ turn' = IF turn[t].status \in Live
               THEN [turn EXCEPT ![t].status = "superseded", ![t].why = "revision"]
               ELSE turn
    /\ Return(w)
    /\ UNCHANGED <<case, binding, made, run, gateway, tool, job, used>>

\* The time is up and a run has not ended: the job is tried again
PutOff(w) ==
    /\ At(w, "recover")
    /\ \E p \in worker[w].left : gateway[Of(w)][p] = "running"
    /\ GoOut(w, "settle", "defer")
    /\ UNCHANGED <<case, binding, turn, made, run, gateway, tool, job, used>>

------------------------------------------------------------------------------
(* The gateway and the tools its runs call *)

\* A run ends by itself or because it was stopped
GatewayEnds(t, p) ==
    /\ gateway[t][p] = "running"
    /\ \E end \in {"completed", "failed"} : gateway' = [gateway EXCEPT ![t][p] = end]
    /\ UNCHANGED <<case, binding, turn, made, run, tool, job, worker, used>>

\* The phase column of the turn still reads route
InRoutePhase(t) ==
    turn[t].kind = "normal" /\ run[t]["work"] = "none" /\ run[t]["persona"] = "none"

\* What a tool checks before its transaction: _resolve_turn_context, and
\* tool_record_direction, tool_escalate_human, tool_close_case
Admitted(t, x) ==
    /\ turn[t].status \in {"pending", "running"}
    /\ CASE x = "direction" -> InRoutePhase(t) /\ gateway[t]["route"] = "running"
         [] x = "escalate" ->
                /\ \E p \in Phases : gateway[t][p] = "running"
                /\ ~(/\ FirstInvestigation /\ turn[t].dir = "investigation"
                     /\ binding.dir # "human" /\ ~binding.escalated)
         [] x = "solve" ->
                /\ turn[t].status = "running" /\ turn[t].event = "feedback"
                /\ gateway[t]["work"] = "running"
                /\ turn[t].rev = case.rev

CallTool(t, x) ==
    /\ tool[t] = "none"
    /\ Admitted(t, x)
    /\ tool' = [tool EXCEPT ![t] = x]
    /\ UNCHANGED <<case, binding, turn, made, run, gateway, job, worker, used>>

\* record_hermes_turn_direction also takes a turn that is being cancelled
RecordDirection(t, dir) ==
    /\ tool[t] = "direction"
    /\ tool' = [tool EXCEPT ![t] = "none"]
    /\ IF turn[t].status \in Live
       THEN /\ turn' = [turn EXCEPT ![t].dir = dir]
            /\ binding' = [binding EXCEPT !.dir = dir]
       ELSE UNCHANGED <<turn, binding>>
    /\ UNCHANGED <<case, made, run, gateway, job, worker, used>>

\* escalate_hermes_case looks at no status
Escalate(t) ==
    /\ tool[t] = "escalate"
    /\ tool' = [tool EXCEPT ![t] = "none"]
    /\ binding' = HandedOver
    /\ UNCHANGED <<case, turn, made, run, gateway, job, worker, used>>

\* complete_hermes_case_solved_turn: the ticket is over, and so are its turns
Solve(t) ==
    /\ tool[t] = "solve"
    /\ tool' = [tool EXCEPT ![t] = "none"]
    /\ IF turn[t].status = "running" /\ turn[t].rev = case.rev
       THEN /\ case' = [case EXCEPT !.closed = TRUE]
            /\ binding' = [binding EXCEPT !.terminal = TRUE]
            /\ turn' = [u \in Turns |->
                   IF u = t THEN [turn[u] EXCEPT !.status = "completed", !.res = "solved"]
                   ELSE IF turn[u].status = "pending"
                        THEN [turn[u] EXCEPT !.status = "superseded", !.why = "blocked"]
                        ELSE turn[u]]
       ELSE UNCHANGED <<case, binding, turn>>
    /\ UNCHANGED <<made, run, gateway, job, worker, used>>

------------------------------------------------------------------------------
(* Failures of the process *)

\* An exception nobody expects ends the job with fail_job
Fault(w) ==
    /\ worker[w].pc \notin {"idle", "settle"}
    /\ Spend("fault")
    /\ Return(w)
    /\ UNCHANGED <<case, binding, turn, made, run, gateway, tool, job>>

Crash(w) ==
    /\ ~At(w, "idle")
    /\ Spend("crash")
    /\ Step(w, Idle)
    /\ UNCHANGED <<case, binding, turn, made, run, gateway, tool, job>>

------------------------------------------------------------------------------
\* What a process does by itself once it holds a job
Work(w) ==
    \/ Enter(w) \/ RefuseSnapshot(w) \/ Start(w) \/ Notify(w)
    \/ BeginPhase(w) \/ Fence(w) \/ Launch(w) \/ RecordRun(w)
    \/ PollCompleted(w) \/ PollOther(w) \/ AfterPhase(w)
    \/ Handover(w) \/ Complete(w) \/ Fail(w)
    \/ ListRuns(w) \/ (\E p \in Phases : SeeStopped(w, p)) \/ Supersede(w)
    \/ Settle(w)

Intake(t) ==
    \E closed \in Closing :
        \/ \E event \in EventsSeen \cap {"created", "comment"} : AcceptFirst(t, event, closed)
        \/ "comment" \in EventsSeen /\ AcceptComment(t, closed)
        \/ "created" \in EventsSeen /\ AcceptCreatedLate(t, closed)

Route(t) ==
    \/ DropBlocked(t) \/ DropOutdated(t)
    \/ \E task \in {"automation", "investigation"} : HandOff(t, task)

Engineer(t) ==
    \/ "feedback" \in EventsSeen /\ CreateFeedbackTurn(t)
    \/ "reply" \in EventsSeen /\ \E s \in Turns : CreateReplyTurn(t, s)

ToolStep(t) ==
    \/ \E x \in ToolsCalled : CallTool(t, x)
    \/ \E dir \in Directions : RecordDirection(t, dir)
    \/ Escalate(t) \/ Solve(t)

Next ==
    \/ \E t \in Turns : Intake(t) \/ Route(t) \/ Engineer(t) \/ ToolStep(t) \/ LeaseRunsOut(t)
    \/ \E closed \in BOOLEAN : AcceptUpdate(closed)
    \/ \E t \in Turns, p \in Phases : GatewayEnds(t, p)
    \/ \E w \in Workers, t \in Turns : Claim(w, t)
    \/ \E w \in Workers : \/ Work(w) \/ PromptMissing(w) \/ NotifyRefused(w) \/ PollGivesUp(w) \/ PutOff(w)
                          \/ OwnerStalls(w) \/ Fault(w) \/ Crash(w)

Spec == Init /\ [][Next]_vars

\* The loop of the worker, the route worker, the sweep of lapsed leases and the
\* gateway go on.  Jobs are claimed in the order of available_at, so one that is
\* given back for another is not passed over for ever.
FairSpec ==
    /\ Spec
    /\ \A w \in Workers : WF_vars(Work(w))
    /\ \A t \in Turns :
          /\ SF_vars(\E w \in Workers : Claim(w, t))
          /\ WF_vars(Route(t))
          /\ WF_vars(LeaseRunsOut(t))
          /\ \A p \in Phases : WF_vars(GatewayEnds(t, p))

------------------------------------------------------------------------------
(* Properties *)

\* Every variable keeps its type, and a process runs only the phases that
\* phases_for gives the kind of its turn.
TypeOK ==
    /\ case \in [rev : Nat, closed : BOOLEAN]
    /\ binding \in Binding
    /\ turn \in [Turns -> TurnRow]
    /\ made \in Seq(Turns)
    /\ run \in [Turns -> [Phases -> RunStatus]]
    /\ gateway \in [Turns -> [Phases -> GatewayStatus]]
    /\ tool \in [Turns -> Tools \cup {"none"}]
    /\ job \in [Turns -> Job]
    /\ worker \in [Workers -> Frame]
    /\ \A w \in Workers : worker[w].phase # "none" =>
          Of(w) # NoTurn /\ worker[w].phase \in PhasesOf(turn[Of(w)].kind)
    /\ used \in [Faults -> Nat]

\* Whatever the order of comments, hand-offs and starts, a turn that waits or runs
\* answers the newest revision of the case: accept_intake cancels all others in
\* the transaction that advances it, and hand-off opens none for an older one.
ActiveTurnIsCurrent ==
    \A t \in Turns : turn[t].status \in {"pending", "running"} => turn[t].rev = case.rev

\* A turn is only cancelled, or refused as outdated, for a comment that is newer
\* than what it answers: no event of its own revision takes its answer away.
OnlyOutdatedIsCancelled ==
    \A t \in Turns :
        \/ turn[t].status = "cancel_requested"
        \/ turn[t].status \in {"superseded", "dropped"} /\ turn[t].why = "revision"
        => turn[t].rev < case.rev

\* The unique index automation_hermes_turns_one_active is never in the way of a start:
\* two turns of the case are never active at once, however their claims, retries
\* and cancellations interleave.
OneActiveTurn == \A t, u \in Turns : Active(t) /\ Active(u) => t = u

\* As long as no process outlives its claim, a turn that is completed or superseded
\* has left no run of phases route, work or persona going at the gateway, where the
\* agent could still call tools: _recover_cancellation waits until they have ended.
QuietWhenOver ==
    used["stall"] = 0 =>
        \A t \in Turns :
            \/ turn[t].status = "completed" /\ turn[t].res # "solved"
            \/ turn[t].status = "superseded"
            => \A p \in Phases \ {"message_action"} : gateway[t][p] # "running"

\* A turn that is over stays as it is, whichever process, tool or comment comes
\* late; only a job that failed on its own may be entered again, and that leaves
\* the row alone too.
EndedTurnsStay ==
    [][\A t \in Turns : turn[t].status \in Ended => turn'[t] = turn[t]]_turn

\* Once support_close_case has solved the ticket no turn that answers a comment
\* is running or will be started, even if the comment had raced the solution.
NoCustomerTurnAfterSolve ==
    (\E t \in Turns : turn[t].res = "solved") =>
        \A u \in Turns : ~(turn[u].event = "comment" /\ turn[u].status = "running")

\* An investigation review is turned into a customer reply by one turn at most,
\* however often and late an engineer asks for it (continued_turn_id).
OneReplyPerReview ==
    \A s \in Turns : \A t, u \in Turns :
        turn[t].source = s /\ turn[u].source = s /\ s # NoTurn => t = u

\* The agent_turn jobs as the code inside a claim may rely on them
Claims == INSTANCE ClaimedJobs
    WITH Jobs <- Turns, Renewable <- {},
         status <- [t \in Turns |-> IF job[t].status = "done" THEN "ended"
                                                             ELSE job[t].status],
         inside <- [t \in Turns |-> {w \in Workers : ~At(w, "idle") /\ Of(w) = t}],
         holders <- [t \in Turns |-> {w \in Workers : HeldBy(w, t)}],
         marked <- [t \in Turns |-> job[t].ext]

\* The jobs of the turns do nothing that the claim protocol, which EcsJobs keeps,
\* rules out: no process marks or ends a job it has lost, and a turn whose job is
\* marked is not entered by a second process unless the first has given it back.
KeepsClaims == Claims!Spec

\* The turn as CaseTurns has it: an event that has opened no turn is not there yet
ShownRow(row) ==
    [st |-> CASE row.status \in Ended -> "over"
              [] row.status = "cancel_requested" -> "cancelling"
              [] row.status \in {"pending", "running"} -> row.status
              [] OTHER -> "none",
     rev |-> IF row.status \in Live \cup Ended THEN row.rev ELSE 0]

Shown == INSTANCE CaseTurns
    WITH rev <- case.rev, turn <- [t \in Turns |-> ShownRow(turn[t])]

\* Whatever its processes, tools, retries and faults do, a transaction moves the
\* turns of the case as DraftDelivery assumes: a turn opens and starts for the
\* newest revision only, alone; a comment overtakes all turns at once, and a solution
\* leaves none that waits; a turn that is over is never taken up again.
KeepsTurns == Shown!Spec

\* An active turn whose job has ended: no process will come back to it
Abandoned(t) == turn[t].status \in Live /\ job[t].status = "done"

\* A turn that waits has a job that will start it: however often its start is put off
\* for another turn, a claim lapses or a process dies, it is never left behind, as long
\* as no exception ends a job and no prompt snapshot is missing.
WaitingTurnIsDriven ==
    used["fault"] = 0 =>
        \A t \in Turns :
            turn[t].status = "pending" => job[t].status \in {"queued", "claimed"}

\* A turn that runs has a process that holds its job and is on the way to ending it,
\* whichever comments, tools and refusals come in between.  Without a lapse, a crash
\* or an exception only one thing leaves a turn running for ever: the ownership gate,
\* which first hands the case over, and is not asked for turns of an investigation.
RunningTurnIsDriven ==
    (\A f \in {"stall", "crash", "fault"} : used[f] = 0) =>
        \A t \in Turns :
            turn[t].status = "running" =>
                \/ \E w \in Workers : HeldBy(w, t)
                \/ /\ binding.escalated
                   /\ turn[t].kind \notin {"investigation_feedback", "investigation_reply"}

\* A turn is answered, fails or is superseded, unless some turn of the case was
\* abandoned: deferring a turn while another is active does not starve it.
EveryTurnEndsUnlessAbandoned ==
    \A t \in Turns :
        turn[t].status \in Live
            ~> turn[t].status \in Ended \/ \E u \in Turns : Abandoned(u)

\* "A new customer comment cancels the old run and only the newest revision runs"
\* (docs/feature_list.md): the turn of the newest revision gets its start.
NewestTurnStarts ==
    \A t \in Turns :
        turn[t].status = "pending" ~> turn[t].status # "pending" \/ Blocked

\* "A human direction is a REAL handoff, not a silent park: the shared escalation
\* chain ... completes before the turn ends" (HermesAgentTurnProcessor.process): a
\* turn directed to a human that is completed or superseded has handed the case over.
HumanDirectionIsHandedOver ==
    \A t \in Turns :
        turn[t].dir = "human" /\ turn[t].status \in {"completed", "superseded"} =>
            binding.escalated
==============================================================================
