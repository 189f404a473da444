---------------------------- MODULE DraftDelivery ----------------------------
(***************************************************************************)
(* From the draft the agent saves to the public comment at Zendesk: the    *)
(* publication gate of the turn, the approval by an engineer, the          *)
(* hermes_delivery_prep job that translates the approved text, the row of  *)
(* the comment ledger, and the drain that posts it.                        *)
(*                                                                         *)
(* Intake, other turns, the agent's tools and the solution of the ticket   *)
(* change the revision, the conversation version and the drafts between    *)
(* any two steps.  A transaction, a Zendesk call, or one read is an action;*)
(* what a process read before is in its frame.  Turns are reduced to what  *)
(* HermesCase shows of them, jobs to what ClaimedJobs shows of them.       *)
(* Texts are abstracted to whether a translation is stored.                *)
(***************************************************************************)
EXTENDS Naturals

CONSTANTS
    Turns,          \* turns of the case
    Kinds,          \* bound: the kinds of turns that occur
    MaxDrafts,      \* bound: drafts saved; numbered in the order of created_at
    Attached,       \* the drafts that carry attachments
    Workers,        \* processes that prepare drafts
    Drains,         \* those of them that also run the Zendesk drain
    NoWorker,       \* no process
    NoTurn,         \* no turn
    MaxComments,    \* bound: customer comments after the first event
    MaxSyncs,       \* bound: syncs of the comment list that find a new comment
    MaxClicks,      \* bound: approvals by engineers
    MaxTroubles     \* bound: processes killed, leases that lapse under a live owner,
                    \* reads that fail, calls whose answer is lost or an error,
                    \* and exceptions nobody expects

Drafts == 1 .. MaxDrafts
NoDraft == 0

ASSUME ConstantsAssumption ==
    /\ Kinds \subseteq {"auto", "manual", "reply", "review"}
    /\ Drains \subseteq Workers
    /\ NoWorker \notin Workers
    /\ NoTurn \notin Turns
    /\ Attached \subseteq Nat
    /\ {MaxDrafts, MaxComments, MaxSyncs, MaxClicks, MaxTroubles} \subseteq Nat

VARIABLES
    rev,      \* automation_cases.case_revision
    sync,     \* the comments_revision of the last sync of the ticket's comments
    conv,     \* automation_hermes_case_bindings.conversation_version
    turn,     \* turn[t]: automation_hermes_agent_turns
    saver,    \* the turns whose save_reply_draft call has seen them active
    gate,     \* gate[t]: the frame of publication_decision_for_turn
    draft,    \* draft[d]: automation_hermes_case_drafts
    job,      \* job[t]: the hermes_delivery_prep job of the turn's execution
    ledger,   \* ledger[d]: support_account_zendesk_comment_deliveries
    frame,    \* frame[w]: what process w is doing
    posted,   \* posted[d]: public comments at Zendesk with the text of d
    past,     \* what happened, for the properties
    used      \* how much of each bound is spent

store == <<rev, sync, conv, turn, saver, gate, draft, job>>
vars == <<store, ledger, frame, posted, past, used>>

------------------------------------------------------------------------------
(* Values *)

TurnStatus == {"none", "pending", "running", "cancelling", "over"}
\* kind: auto is a turn of direction automation, whose drafts are published without
\* an engineer (derive_publish_policy); reply an investigation_reply; review a turn
\* that ends with its investigation and saves no draft; manual any other
TurnRow == [st : TurnStatus, kind : Kinds, rev : Nat, input : Nat]

\* dead: the gate raised or failed its turn, or its process was killed
GateStep == {"none", "publish", "fence", "job", "done", "dead"}
GateFrame == [pc : GateStep, draft : Drafts \cup {NoDraft}, conv : Nat]

DraftStatus == {"none", "draft", "awaiting", "approved", "preparing",
                "prepare_failed", "queued", "stale"}
\* rev, ver: the case revision of the turn and the conversation version when it
\* was saved; text: delivery_content is stored
DraftRow == [st : DraftStatus, turn : Turns \cup {NoTurn}, rev : Nat, ver : Nat,
             text : BOOLEAN]
NoRow == [st |-> "none", turn |-> NoTurn, rev |-> 0, ver |-> 0, text |-> FALSE]

\* ended is any terminal status but completed
JobStatus == {"none", "pending", "claimed", "completed", "ended"}
Job == [st : JobStatus, draft : Drafts \cup {NoDraft}, owner : Workers \cup {NoWorker}]
NoJob == [st |-> "none", draft |-> NoDraft, owner |-> NoWorker]

DeliveryStatus == {"none", "queued", "pending", "delivered", "outcome_unknown",
                   "failed", "cancelled"}
\* rev: draft_version; comments: comments_revision
Delivery == [st : DeliveryStatus, rev : Nat, comments : Nat]
NoDelivery == [st |-> "none", rev |-> 0, comments |-> 0]

PrepSteps == {"load", "fence", "failprep", "store", "queue", "ledger", "mark"}
DrainSteps == {"mirror", "comments", "ticket", "claim", "send", "record", "audit"}
\* turn: of the job; comments: comments_revision as read before the ledger row is
\* written; out: how the job ends, or what is recorded on the ledger
Frame == [pc : {"idle", "finish"} \cup PrepSteps \cup DrainSteps,
          draft : Drafts \cup {NoDraft}, turn : Turns \cup {NoTurn}, comments : Nat,
          out : {"none", "completed", "ended", "delivered", "outcome_unknown", "failed"}]
Idle == [pc |-> "idle", draft |-> NoDraft, turn |-> NoTurn, comments |-> 0, out |-> "none"]

\* denied: drafts the gate refused to publish; refused: drafts whose approval was
\* refused as stale; clicked: drafts an engineer approved; broken: drafts whose
\* preparation an unexpected exception ended; misjudged: drafts Zendesk posted and
\* answered with an error status, which the drain takes for a failure
Past == [denied : SUBSET Drafts, refused : SUBSET Drafts, clicked : SUBSET Drafts,
         broken : SUBSET Drafts, misjudged : SUBSET Drafts]

Bounds == {"comment", "sync", "click", "trouble"}
Limit == [comment |-> MaxComments, sync |-> MaxSyncs, click |-> MaxClicks,
          trouble |-> MaxTroubles]
Spend(f) == /\ used[f] < Limit[f]
            /\ used' = [used EXCEPT ![f] = @ + 1]

------------------------------------------------------------------------------
(* Helper state formulae *)

Active(t) == turn[t].st \in {"pending", "running"}
Live(t) == turn[t].st \in {"pending", "running", "cancelling"}

At(w, pc) == frame[w].pc = pc
Of(w) == frame[w].draft
Step(w, f) == frame' = [frame EXCEPT ![w] = f]
Go(w, pc) == Step(w, [frame[w] EXCEPT !.pc = pc])
\* prepare_hermes_draft_delivery returns or raises
End(w, out) == Step(w, [frame[w] EXCEPT !.pc = "finish", !.out = out])
Leave(w) == Step(w, Idle)

GateAt(t, pc) == gate[t].pc = pc
GateGo(t, pc) == gate' = [gate EXCEPT ![t].pc = pc]
GateEnd(t, pc) == gate' = [gate EXCEPT ![t] = [pc |-> pc, draft |-> NoDraft, conv |-> 0]]

SetTurn(t, st) == turn' = [turn EXCEPT ![t].st = st]
SetDraft(d, st) == draft' = [draft EXCEPT ![d].st = st]

\* Drafts an outdated answer may still be withdrawn from: neither being prepared nor queued
Open == {"draft", "awaiting", "approved"}

\* Mutant of StaleBelow: a draft not yet published is forgotten
StaleOffered(floor) ==
    [d \in Drafts |-> IF draft[d].st \in {"awaiting", "approved"} /\ draft[d].rev < floor
                      THEN [draft[d] EXCEPT !.st = "stale"] ELSE draft[d]]

\* _stale_drafts_for_version, and accept_intake with the new revision
StaleBelow(floor) ==
    [d \in Drafts |-> IF draft[d].st \in Open /\ draft[d].rev < floor
                      THEN [draft[d] EXCEPT !.st = "stale"] ELSE draft[d]]

\* More than the turn that wrote the draft has completed since
Outpaced(d, version) == version > draft[d].ver + 1

Max2(a, b) == IF a > b THEN a ELSE b

------------------------------------------------------------------------------
Init ==
    /\ rev = 1 /\ sync = 0 /\ conv = 0
    /\ turn \in [Turns -> {[st |-> "none", kind |-> k, rev |-> 0, input |-> 0] : k \in Kinds}]
    /\ saver = {}
    /\ gate = [t \in Turns |-> [pc |-> "none", draft |-> NoDraft, conv |-> 0]]
    /\ draft = [d \in Drafts |-> NoRow]
    /\ job = [t \in Turns |-> NoJob]
    /\ ledger = [d \in Drafts |-> NoDelivery]
    /\ frame = [w \in Workers |-> Idle]
    /\ posted = [d \in Drafts |-> 0]
    /\ past = [denied |-> {}, refused |-> {}, clicked |-> {}, broken |-> {},
             misjudged |-> {}]
    /\ used = [f \in Bounds |-> 0]

OUTBOX == <<ledger, frame, posted>>

------------------------------------------------------------------------------
(* The case and its turns *)

\* accept_intake, a customer comment
AcceptComment ==
    /\ Spend("comment")
    /\ rev' = rev + 1
    /\ turn' = [t \in Turns |->
                  IF Active(t)
                  THEN [turn[t] EXCEPT !.st = IF @ = "pending" THEN "over" ELSE "cancelling"]
                  ELSE turn[t]]
    /\ draft' = StaleBelow(rev + 1)
    /\ UNCHANGED <<sync, conv, saver, gate, job, OUTBOX, past>>

\* The comment sync of the account case sees one more comment on the ticket
SyncComments ==
    /\ Spend("sync")
    /\ sync' = sync + 1
    /\ UNCHANGED <<rev, conv, turn, saver, gate, draft, job, OUTBOX, past>>

\* hand_off_to_hermes_agent; or create_investigation_reply_turn, which wants no
\* turn of the case live (the review it continues is not kept here)
OpenTurn(t) ==
    /\ turn[t].st = "none"
    /\ turn[t].kind = "reply" => \A u \in Turns : ~Live(u)
    /\ turn' = [turn EXCEPT ![t] = [@ EXCEPT !.st = "pending", !.rev = rev, !.input = conv]]
    /\ UNCHANGED <<rev, sync, conv, saver, gate, draft, job, OUTBOX, past, used>>

\* create_investigation_feedback_turn: drafts with attachments are withdrawn
WithdrawAttached ==
    [d \in Drafts |-> IF d \in Attached /\ draft[d].st \notin {"none", "stale"}
                      THEN [draft[d] EXCEPT !.st = "stale"] ELSE draft[d]]
OpenFeedbackTurn(t) ==
    /\ turn[t].st = "none" /\ turn[t].kind = "review"
    /\ \A u \in Turns : ~Live(u)
    /\ turn' = [turn EXCEPT ![t] = [@ EXCEPT !.st = "pending", !.rev = rev, !.input = conv]]
    /\ draft' = WithdrawAttached
    /\ UNCHANGED <<rev, sync, conv, saver, gate, job, OUTBOX, past, used>>

\* Mutant of StartTurn: the unique index without cancel_requested
StartBesideCancelling(t) ==
    /\ turn[t].st = "pending"
    /\ \A u \in Turns : turn[u].st # "running"
    /\ SetTurn(t, "running")
    /\ UNCHANGED <<rev, sync, conv, saver, gate, draft, job, OUTBOX, past, used>>

\* start_hermes_agent_turn
StartTurn(t) ==
    /\ turn[t].st = "pending"
    /\ \A u \in Turns : turn[u].st \notin {"running", "cancelling"}
    /\ SetTurn(t, "running")
    /\ UNCHANGED <<rev, sync, conv, saver, gate, draft, job, OUTBOX, past, used>>

\* Mutant of VersionAfter: the version of the last turn to complete
VersionOfLast(t) == turn[t].input + 1

VersionAfter(t) == Max2(conv, turn[t].input + 1)

\* complete_hermes_agent_turn, for a review or once the publication gate has passed
CompleteTurn(t) ==
    /\ turn[t].st = "running"
    /\ turn[t].kind # "review" => GateAt(t, "done")
    /\ SetTurn(t, "over")
    /\ conv' = VersionAfter(t)
    /\ draft' = StaleBelow(turn[t].rev)
    /\ UNCHANGED <<rev, sync, saver, gate, job, OUTBOX, past, used>>

\* fail_hermes_agent_turn or supersede_hermes_turn, from outside the gate
EndTurn(t) ==
    /\ Live(t)
    /\ gate[t].pc \in {"none", "done", "dead"}
    /\ SetTurn(t, "over")
    /\ UNCHANGED <<rev, sync, conv, saver, gate, draft, job, OUTBOX, past, used>>

\* escalate_hermes_case: asked by a tool of any turn, also of one that is over
Escalate(t) ==
    /\ turn[t].st # "none"
    /\ draft' = StaleBelow(conv)
    /\ UNCHANGED <<rev, sync, conv, turn, saver, gate, job, OUTBOX, past, used>>

\* complete_hermes_case_solved_turn, called by the close tool during the agent's run
SolveCase(t) ==
    /\ turn[t].st = "running" /\ turn[t].rev = rev /\ GateAt(t, "none")
    /\ turn' = [u \in Turns |-> IF u = t \/ turn[u].st = "pending"
                                THEN [turn[u] EXCEPT !.st = "over"] ELSE turn[u]]
    /\ conv' = VersionAfter(t)
    /\ draft' = [d \in Drafts |->
                   IF draft[d].st \in Open \cup {"preparing", "queued"}
                   THEN [draft[d] EXCEPT !.st = "stale"] ELSE draft[d]]
    /\ UNCHANGED <<rev, sync, saver, gate, job, OUTBOX, past, used>>

------------------------------------------------------------------------------
(* Drafts are saved *)

\* _insert_hermes_draft
Insert(t, d) ==
    /\ draft[d].st = "none"
    /\ \A e \in 1 .. d - 1 : draft[e].st # "none"
    /\ draft' = [draft EXCEPT ![d] = [st |-> "draft", turn |-> t, rev |-> turn[t].rev,
                                      ver |-> conv, text |-> FALSE]]

\* save_hermes_case_draft reads the turn without locking it, and inserts then
LookAtTurn(t) ==
    /\ turn[t].kind \notin {"reply", "review"} /\ Active(t)
    /\ saver' = saver \cup {t}
    /\ UNCHANGED <<rev, sync, conv, turn, gate, draft, job, OUTBOX, past, used>>

SaveDraft(t, d) ==
    /\ t \in saver
    /\ Insert(t, d)
    /\ saver' = saver \ {t}
    /\ UNCHANGED <<rev, sync, conv, turn, gate, job, OUTBOX, past, used>>

\* submit_hermes_investigation_draft, under the locks of case, binding and turn
SubmitDraft(t, d) ==
    /\ turn[t].kind = "reply" /\ turn[t].st = "running"
    /\ turn[t].rev = rev
    /\ conv <= turn[t].input + 1
    /\ \A e \in Drafts : draft[e].turn # t
    /\ Insert(t, d)
    /\ UNCHANGED <<rev, sync, conv, turn, saver, gate, job, OUTBOX, past, used>>

------------------------------------------------------------------------------
(* The publication gate, publication_decision_for_turn *)

DraftsOf(t) == {d \in Drafts : draft[d].turn = t /\ draft[d].st = "draft"}

\* Context and newest draft are read; a turn without one passes, but for a reply,
\* which is failed
GateLook(t) ==
    /\ turn[t].st = "running" /\ turn[t].kind # "review" /\ GateAt(t, "none")
    /\ \/ /\ DraftsOf(t) = {}
          /\ GateEnd(t, IF turn[t].kind = "reply" THEN "dead" ELSE "done")
       \/ \E d \in DraftsOf(t) :
            /\ \A e \in DraftsOf(t) : e <= d
            /\ gate' = [gate EXCEPT ![t] = [pc |-> "publish", draft |-> d, conv |-> conv]]
    /\ UNCHANGED <<rev, sync, conv, turn, saver, draft, job, OUTBOX, past, used>>

\* The basis or the guardrail blocks the draft
GateBlock(t) ==
    /\ GateAt(t, "publish")
    /\ turn' = [turn EXCEPT ![t].st = IF Active(t) THEN "over" ELSE @]
    /\ GateEnd(t, "dead")
    /\ UNCHANGED <<rev, sync, conv, saver, draft, job, OUTBOX, past, used>>

\* request_hermes_draft_publish
GatePublish(t) ==
    LET d == gate[t].draft IN
    /\ GateAt(t, "publish")
    /\ \/ /\ draft[d].st = "draft" /\ turn[t].kind = "auto"
          /\ SetDraft(d, "approved") /\ GateGo(t, "fence")
       \/ /\ draft[d].st = "draft" /\ turn[t].kind # "auto"
          /\ SetDraft(d, "awaiting") /\ GateEnd(t, "done")
       \/ /\ draft[d].st # "draft"
          /\ GateEnd(t, "dead") /\ UNCHANGED draft
    /\ UNCHANGED <<rev, sync, conv, turn, saver, job, OUTBOX, past, used>>

\* The version in the context is recent and Zendesk ownership is kept
GatePass(t) ==
    /\ GateAt(t, "fence") /\ ~Outpaced(gate[t].draft, gate[t].conv)
    /\ GateGo(t, "job")
    /\ UNCHANGED <<rev, sync, conv, turn, saver, draft, job, OUTBOX, past, used>>

\* Mutant of GateDeny: the turn is failed, and the function goes on
GateDenyGoOn(t) ==
    /\ GateAt(t, "fence")
    /\ turn' = [turn EXCEPT ![t].st = IF Active(t) THEN "over" ELSE @]
    /\ GateGo(t, "job")
    /\ past' = [past EXCEPT !.denied = @ \cup {gate[t].draft}]
    /\ UNCHANGED <<rev, sync, conv, saver, draft, job, OUTBOX, used>>

\* Outpaced, or the ownership was lost: supersede_hermes_draft raises, for the
\* Postgres class has no such method, and the draft stays approved
GateDeny(t) ==
    /\ GateAt(t, "fence")
    /\ turn' = [turn EXCEPT ![t].st = IF Active(t) THEN "over" ELSE @]
    /\ GateEnd(t, "dead")
    /\ past' = [past EXCEPT !.denied = @ \cup {gate[t].draft}]
    /\ UNCHANGED <<rev, sync, conv, saver, draft, job, OUTBOX, used>>

\* Mutant of Preparing: ON CONFLICT DO NOTHING
PreparingInsertOnly(d) ==
    /\ draft' = [draft EXCEPT ![d] = [@ EXCEPT !.st = "preparing", !.text = FALSE]]
    /\ job' = [job EXCEPT ![draft[d].turn] =
                 IF @.st = "none" THEN [st |-> "pending", draft |-> d, owner |-> NoWorker] ELSE @]

\* Mutant of Preparing: the payload of the job lacks the draft
PreparingUnnamed(d) ==
    /\ draft' = [draft EXCEPT ![d] = [@ EXCEPT !.st = "preparing", !.text = FALSE]]
    /\ job' = [job EXCEPT ![draft[d].turn] = [NoJob EXCEPT !.st = "pending"]]

\* The draft enters preparation: what was prepared is dropped, and the job of the
\* execution is created or, unless completed, pending again
Preparing(d) ==
    /\ draft' = [draft EXCEPT ![d] = [@ EXCEPT !.st = "preparing", !.text = FALSE]]
    /\ job' = [job EXCEPT ![draft[d].turn] =
                 IF @.st = "completed" THEN @
                 ELSE [st |-> "pending", owner |-> NoWorker,
                       draft |-> IF @.st = "none" THEN d ELSE @.draft]]

\* create_hermes_delivery_prep_job
GatePrepare(t) ==
    LET d == gate[t].draft IN
    /\ GateAt(t, "job")
    /\ \/ /\ draft[d].st \in {"approved", "prepare_failed"}
          /\ Preparing(d) /\ GateEnd(t, "done")
       \/ /\ draft[d].st \in {"queued", "preparing"}
          /\ GateEnd(t, "done") /\ UNCHANGED <<draft, job>>
       \/ /\ draft[d].st \notin {"approved", "prepare_failed", "queued", "preparing"}
          /\ GateEnd(t, "dead") /\ UNCHANGED <<draft, job>>
    /\ UNCHANGED <<rev, sync, conv, turn, saver, OUTBOX, past, used>>

\* The process of the turn is killed; its job is not run again
GateCrash(t) ==
    /\ gate[t].pc \in {"publish", "fence", "job"}
    /\ Spend("trouble")
    /\ GateEnd(t, "dead")
    /\ UNCHANGED <<rev, sync, conv, turn, saver, draft, job, OUTBOX, past>>

------------------------------------------------------------------------------
(* An engineer approves: approve_and_prep_hermes_draft *)

Approvable(d) == \/ draft[d].st \in {"approved", "prepare_failed"}
                 \/ draft[d].st = "awaiting" /\ ~Outpaced(d, conv)

Approve(d) ==
    /\ Spend("click")
    /\ Approvable(d)
    /\ Preparing(d)
    /\ past' = [past EXCEPT !.clicked = @ \cup {d}]
    /\ UNCHANGED <<rev, sync, conv, turn, saver, gate, OUTBOX>>

\* The update to stale is rolled back by the exception that reports it
RefuseApproval(d) ==
    /\ draft[d].st = "awaiting" /\ Outpaced(d, conv)
    /\ d \notin past.refused
    /\ past' = [past EXCEPT !.refused = @ \cup {d}]
    /\ UNCHANGED <<store, OUTBOX, used>>

------------------------------------------------------------------------------
(* Preparation, process_hermes_delivery_prep_once in process w *)

ClaimPrep(w, t) ==
    /\ At(w, "idle")
    /\ job[t].st = "pending"
    /\ job' = [job EXCEPT ![t].st = "claimed", ![t].owner = w]
    /\ Step(w, [Idle EXCEPT !.pc = "load", !.turn = t, !.draft = job[t].draft])
    /\ UNCHANGED <<rev, sync, conv, turn, saver, gate, draft, ledger, posted, past, used>>

\* Mutant of LoadDraft: a prepared draft counts as done, its ledger row not checked
LoadPreparedAsDone(w) ==
    LET row == draft[Of(w)] IN
    /\ At(w, "load")
    /\ CASE row.st = "queued" \/ (row.st = "approved" /\ row.text) -> End(w, "completed")
         [] row.st = "preparing" -> Go(w, "fence")
         [] row.st = "prepare_failed" -> End(w, "ended")
         [] OTHER -> End(w, "completed")
    /\ UNCHANGED <<store, ledger, posted, past, used>>

\* A draft in no state to be prepared is skipped with that state as the result
LoadDraft(w) ==
    LET row == draft[Of(w)]
        stored == row.st = "approved" /\ row.text
    IN
    /\ At(w, "load")
    /\ \/ stored /\ Go(w, "queue")
       \/ row.st = "preparing" /\ Go(w, "fence")
       \/ row.st = "prepare_failed" /\ End(w, "ended")
       \/ ~stored /\ row.st \notin {"preparing", "prepare_failed"} /\ End(w, "completed")
    /\ UNCHANGED <<store, ledger, posted, past, used>>

\* The mirror is of the draft's revision and the translation passes its checks
Translate(w) ==
    /\ At(w, "fence") /\ draft[Of(w)].rev = rev
    /\ Go(w, "store")
    /\ UNCHANGED <<store, ledger, posted, past, used>>

\* No language reference, another revision, no or no safe translation
RejectText(w) ==
    /\ At(w, "fence")
    /\ Go(w, "failprep")
    /\ UNCHANGED <<store, ledger, posted, past, used>>

\* fail_hermes_draft_prep
FailPrep(w) ==
    /\ At(w, "failprep")
    /\ IF draft[Of(w)].st = "preparing" THEN SetDraft(Of(w), "prepare_failed")
                                        ELSE UNCHANGED draft
    /\ End(w, "ended")
    /\ UNCHANGED <<rev, sync, conv, turn, saver, gate, job, ledger, posted, past, used>>

\* complete_hermes_draft_prep
StoreText(w) ==
    /\ At(w, "store")
    /\ IF draft[Of(w)].st = "preparing"
       THEN /\ draft' = [draft EXCEPT ![Of(w)] = [@ EXCEPT !.st = "approved", !.text = TRUE]]
            /\ Go(w, "queue")
       ELSE End(w, "ended") /\ UNCHANGED draft
    /\ UNCHANGED <<rev, sync, conv, turn, saver, gate, job, ledger, posted, past, used>>

\* queue_hermes_draft_delivery, up to its reads of draft, mirror and comment sync
QueueLook(w) ==
    /\ At(w, "queue")
    /\ IF draft[Of(w)].st = "approved" /\ draft[Of(w)].rev = rev
       THEN Step(w, [frame[w] EXCEPT !.pc = "ledger", !.comments = sync])
       ELSE End(w, "ended")
    /\ UNCHANGED <<store, ledger, posted, past, used>>

NewDelivery(w) == [st |-> "queued", rev |-> draft[Of(w)].rev, comments |-> frame[w].comments]

\* Mutant of WriteLedger: ON CONFLICT DO UPDATE
OverwriteLedger(w) ==
    /\ At(w, "ledger")
    /\ ledger' = [ledger EXCEPT ![Of(w)] = NewDelivery(w)]
    /\ Go(w, "mark")
    /\ UNCHANGED <<store, posted, past, used>>

\* Mutant of WriteLedger: a retry queues a delivery that had failed once more
RequeueFailed(w) ==
    /\ At(w, "ledger")
    /\ ledger' = [ledger EXCEPT ![Of(w)] =
                    IF @.st \in {"none", "failed"} THEN NewDelivery(w) ELSE @]
    /\ Go(w, "mark")
    /\ UNCHANGED <<store, posted, past, used>>

\* create_account_zendesk_comment_delivery: the idempotency key is the draft
WriteLedger(w) ==
    /\ At(w, "ledger")
    /\ ledger' = [ledger EXCEPT ![Of(w)] = IF @.st = "none" THEN NewDelivery(w) ELSE @]
    /\ Go(w, "mark")
    /\ UNCHANGED <<store, posted, past, used>>

\* mark_hermes_draft_queued
MarkQueued(w) ==
    /\ At(w, "mark")
    /\ IF draft[Of(w)].st = "approved"
       THEN SetDraft(Of(w), "queued") /\ End(w, "completed")
       ELSE UNCHANGED draft /\ End(w, "ended")
    /\ UNCHANGED <<rev, sync, conv, turn, saver, gate, job, ledger, posted, past, used>>

\* Mutant of Finish: _lock_claimed is not called
FinishUnclaimed(w) ==
    /\ At(w, "finish")
    /\ job' = [job EXCEPT ![frame[w].turn].st = frame[w].out,
                          ![frame[w].turn].owner = NoWorker]
    /\ Leave(w)
    /\ UNCHANGED <<rev, sync, conv, turn, saver, gate, draft, ledger, posted, past, used>>

\* complete_processing or fail_job, refused when the claim was lost
Finish(w) ==
    /\ At(w, "finish")
    /\ job' = [job EXCEPT ![frame[w].turn] =
                 IF @.st = "claimed" /\ @.owner = w
                 THEN [@ EXCEPT !.st = frame[w].out, !.owner = NoWorker] ELSE @]
    /\ Leave(w)
    /\ UNCHANGED <<rev, sync, conv, turn, saver, gate, draft, ledger, posted, past, used>>

\* A database or file error in the preparation; fail_job with outcome_unknown
PrepError(w) ==
    /\ frame[w].pc \in PrepSteps
    /\ Spend("trouble")
    /\ End(w, "ended")
    /\ past' = [past EXCEPT !.broken = @ \cup {Of(w)}]
    /\ UNCHANGED <<store, ledger, posted>>

\* Process w is at work on the preparation for turn t
Driven(t, w) == w \in Workers /\ frame[w].pc \in PrepSteps \cup {"finish"} /\ frame[w].turn = t

\* Mutant of Lapse: the sweep ends the job as it does for a call to the outside
LapseEnds(t) ==
    /\ job[t].st = "claimed"
    /\ IF Driven(t, job[t].owner) THEN Spend("trouble") ELSE UNCHANGED used
    /\ job' = [job EXCEPT ![t].st = "ended", ![t].owner = NoWorker]
    /\ UNCHANGED <<rev, sync, conv, turn, saver, gate, draft, OUTBOX, past>>

\* The lease of a preparation lapses and the sweep offers the job again
Lapse(t) ==
    /\ job[t].st = "claimed"
    /\ IF Driven(t, job[t].owner) THEN Spend("trouble") ELSE UNCHANGED used
    /\ job' = [job EXCEPT ![t].st = "pending", ![t].owner = NoWorker]
    /\ UNCHANGED <<rev, sync, conv, turn, saver, gate, draft, OUTBOX, past>>

Crash(w) ==
    /\ ~At(w, "idle")
    /\ Spend("trouble")
    /\ Leave(w)
    /\ UNCHANGED <<store, ledger, posted, past>>

------------------------------------------------------------------------------
(* The Zendesk drain, _deliver_hermes_zendesk_comment in process w *)

Record(d, st) == ledger' = [ledger EXCEPT ![d].st = IF @ = "delivered" THEN @ ELSE st]

\* Mutant of TakeUp: only rows whose outcome was recorded as unknown are audited
TakeUpUnknown(w, d) ==
    /\ w \in Drains /\ At(w, "idle")
    /\ ledger[d].st \in {"queued", "outcome_unknown"}
    /\ Step(w, [Idle EXCEPT !.draft = d,
                            !.pc = IF ledger[d].st = "queued" THEN "mirror" ELSE "audit"])
    /\ UNCHANGED <<store, ledger, posted, past, used>>

\* Mutant of TakeUp: a row its drain left pending is sent again instead of audited
TakeUpAgain(w, d) ==
    /\ w \in Drains /\ At(w, "idle")
    /\ ledger[d].st \in {"queued", "pending", "outcome_unknown"}
    /\ Step(w, [Idle EXCEPT !.draft = d,
                            !.pc = IF ledger[d].st = "outcome_unknown" THEN "audit" ELSE "mirror"])
    /\ UNCHANGED <<store, ledger, posted, past, used>>

\* A row of the list is taken up; its status is the one it was listed with
TakeUp(w, d) ==
    /\ w \in Drains /\ At(w, "idle")
    /\ ledger[d].st \in {"queued", "pending", "outcome_unknown"}
    /\ Step(w, [Idle EXCEPT !.draft = d,
                            !.pc = IF ledger[d].st = "queued" THEN "mirror" ELSE "audit"])
    /\ UNCHANGED <<store, ledger, posted, past, used>>

\* A mirror that cannot be read fences nothing
LookMirror(w) ==
    /\ At(w, "mirror")
    /\ \/ /\ ledger[Of(w)].rev = rev
          /\ Go(w, "comments") /\ UNCHANGED <<ledger, used>>
       \/ /\ ledger[Of(w)].rev # rev
          /\ Record(Of(w), "failed") /\ Leave(w) /\ UNCHANGED used
       \/ /\ Spend("trouble")
          /\ Go(w, "comments") /\ UNCHANGED ledger
    /\ UNCHANGED <<store, posted, past>>

LookComments(w) ==
    /\ At(w, "comments")
    /\ IF ledger[Of(w)].comments = sync
       THEN Go(w, "ticket") /\ UNCHANGED ledger
       ELSE Record(Of(w), "failed") /\ Leave(w)
    /\ UNCHANGED <<store, posted, past, used>>

\* Ownership and live status of the ticket: confirmed, refused, closed, or unconfirmed
LookTicket(w) ==
    /\ At(w, "ticket")
    /\ \/ Go(w, "claim") /\ UNCHANGED <<ledger, used>>
       \/ \E st \in {"failed", "cancelled"} :
            Record(Of(w), st) /\ Leave(w) /\ UNCHANGED used
       \/ Spend("trouble") /\ Leave(w) /\ UNCHANGED ledger
    /\ UNCHANGED <<store, posted, past>>

\* claim_account_zendesk_comment_delivery
ClaimDelivery(w) ==
    /\ At(w, "claim")
    /\ IF ledger[Of(w)].st = "queued"
       THEN ledger' = [ledger EXCEPT ![Of(w)].st = "pending"] /\ Go(w, "send")
       ELSE UNCHANGED ledger /\ Leave(w)
    /\ UNCHANGED <<store, posted, past, used>>

\* attachment_delivery_guard, for a draft with attachments
Guarded(d) ==
    d \in Attached => /\ draft[d].st = "queued" /\ draft[d].rev = rev
                      /\ ~Outpaced(d, conv)

Sent(w, out) == Step(w, [frame[w] EXCEPT !.pc = "record", !.out = out])

\* add_ticket_comment posts the comment; the answer says so, is lost, or is an error
\* status: with 408, 425, 429 or, without attachments, 5xx the outcome is a failure
Post(w) ==
    /\ At(w, "send") /\ Guarded(Of(w))
    /\ posted' = [posted EXCEPT ![Of(w)] = @ + 1]
    /\ \/ Sent(w, "delivered") /\ UNCHANGED <<past, used>>
       \/ Spend("trouble") /\ Sent(w, "outcome_unknown") /\ UNCHANGED past
       \/ /\ Spend("trouble") /\ Sent(w, "failed")
          /\ past' = [past EXCEPT !.misjudged = @ \cup {Of(w)}]
    /\ UNCHANGED <<store, ledger>>

\* Nothing is posted: Zendesk or the guard refuses, an upload fails, or the call is
\* lost on its way; an exception add_ticket_comment does not know records nothing,
\* unless the draft has attachments
PostNothing(w) ==
    /\ At(w, "send")
    /\ \/ Sent(w, "failed") /\ UNCHANGED used
       \/ Spend("trouble") /\ Sent(w, "outcome_unknown")
       \/ Of(w) \notin Attached /\ Spend("trouble") /\ Leave(w)
    /\ UNCHANGED <<store, ledger, posted, past>>

\* complete_account_zendesk_comment_delivery
RecordOutcome(w) ==
    /\ At(w, "record")
    /\ Record(Of(w), frame[w].out)
    /\ Leave(w)
    /\ UNCHANGED <<store, posted, past, used>>

\* read_ticket_comment_audit finds the comment, finds none, or fails
Audit(w) ==
    /\ At(w, "audit")
    /\ \/ posted[Of(w)] > 0 /\ Record(Of(w), "delivered") /\ UNCHANGED used
       \/ posted[Of(w)] = 0 /\ UNCHANGED <<ledger, used>>
       \/ posted[Of(w)] > 0 /\ Spend("trouble") /\ UNCHANGED ledger
    /\ Leave(w)
    /\ UNCHANGED <<store, posted, past>>

------------------------------------------------------------------------------
CaseStep == \/ AcceptComment \/ SyncComments
            \/ \E t \in Turns : \/ OpenTurn(t) \/ OpenFeedbackTurn(t) \/ StartTurn(t)
                                \/ CompleteTurn(t) \/ EndTurn(t) \/ Escalate(t) \/ SolveCase(t)
SaveStep == \E t \in Turns : \/ LookAtTurn(t)
                             \/ \E d \in Drafts : SaveDraft(t, d) \/ SubmitDraft(t, d)
GateStepOf(t) == \/ GateLook(t) \/ GateBlock(t) \/ GatePublish(t) \/ GatePass(t)
                 \/ GateDeny(t) \/ GatePrepare(t) \/ GateCrash(t)
ApproveStep == \E d \in Drafts : Approve(d) \/ RefuseApproval(d)
Prepare(w) == \/ LoadDraft(w) \/ Translate(w) \/ RejectText(w) \/ FailPrep(w) \/ StoreText(w)
              \/ QueueLook(w) \/ WriteLedger(w) \/ MarkQueued(w) \/ Finish(w)
Deliver(w) == \/ LookMirror(w) \/ LookComments(w) \/ LookTicket(w) \/ ClaimDelivery(w)
              \/ Post(w) \/ PostNothing(w) \/ RecordOutcome(w) \/ Audit(w)

Next == \/ CaseStep
        \/ SaveStep
        \/ \E t \in Turns : GateStepOf(t) \/ Lapse(t)
        \/ ApproveStep
        \/ \E w \in Workers : \/ Prepare(w) \/ Deliver(w) \/ PrepError(w) \/ Crash(w)
                              \/ \E t \in Turns : ClaimPrep(w, t)
                              \/ \E d \in Drafts : TakeUp(w, d)

Spec == Init /\ [][Next]_vars

\* A living process gets on and keeps looking for jobs and rows; the lease of a dead
\* one lapses.  Engineers, customers and the agent owe nothing.
LapseOfDead(t) == ~Driven(t, job[t].owner) /\ Lapse(t)
Fairness == /\ \A w \in Workers : /\ WF_vars(Prepare(w) \/ Deliver(w))
                                 /\ \A t \in Turns : SF_vars(ClaimPrep(w, t))
                                 /\ \A d \in Drafts : SF_vars(TakeUp(w, d))
            /\ \A t \in Turns : WF_vars(LapseOfDead(t))

FairSpec == Spec /\ Fairness
------------------------------------------------------------------------------
(* Properties *)

\* The rows of the store, the frames and the counters have their shapes; a frame
\* that is at work names a draft that exists.
TypeOK ==
    /\ rev \in Nat /\ sync \in Nat /\ conv \in Nat
    /\ turn \in [Turns -> TurnRow]
    /\ saver \subseteq Turns
    /\ gate \in [Turns -> GateFrame]
    /\ draft \in [Drafts -> DraftRow]
    /\ job \in [Turns -> Job]
    /\ ledger \in [Drafts -> Delivery]
    /\ frame \in [Workers -> Frame]
    /\ \A w \in Workers : ~At(w, "idle") => Of(w) \in Drafts /\ draft[Of(w)].st # "none"
    /\ posted \in [Drafts -> Nat]
    /\ past \in Past
    /\ used \in [Bounds -> Nat]

\* A draft is posted once at most, whatever is approved twice, prepared twice after a
\* crash or a lapsed lease, or taken up by several drains: one ledger row per draft,
\* claimed once and never queued again.
SentOnce == \A d \in Drafts : posted[d] <= 1

\* A draft being prepared has a job that will prepare it, unless an exception nobody
\* expects ended the job: neither a second approval, a lost claim nor a crash leaves
\* it behind, where approving it again only answers "already".
PreparingIsDriven ==
    \A d \in Drafts \ past.broken : draft[d].st = "preparing" =>
        /\ job[draft[d].turn].draft = d
        /\ job[draft[d].turn].st \in {"pending", "claimed"}

\* The job that ON CONFLICT leaves alone is never needed again: when it is completed
\* its draft is queued or stale, so nobody can approve it again.
CompletedPreparationIsFinal ==
    \A t \in Turns : job[t].st = "completed" => draft[job[t].draft].st \in {"queued", "stale"}

\* With one drain, the status a row ends with is true, whatever crash, lost answer or
\* fence came between: delivered rows were posted, failed and cancelled ones were not.
\* The one exception is an error status in answer to a comment that was posted, which
\* _deliver_hermes_zendesk_comment records as failed.
LedgerTellsTheTruth ==
    \A d \in Drafts : /\ ledger[d].st = "delivered" => posted[d] > 0
                      /\ ledger[d].st = "cancelled" => posted[d] = 0
                      /\ ledger[d].st = "failed" => posted[d] = 0 \/ d \in past.misjudged

\* A draft the publication gate refused, which stays approved because it cannot be
\* superseded, reaches the ledger only if an engineer approves it.
DeniedNeedsAHuman ==
    \A d \in past.denied : ledger[d].st # "none" => d \in past.clicked

\* What an engineer is asked to approve answers the newest revision: a draft saved
\* for a turn that a comment has cancelled meanwhile is never offered.
OfferedIsCurrent == \A d \in Drafts : draft[d].st = "awaiting" => draft[d].rev = rev

\* A draft whose approval was refused as stale is not sent later: the rolled back
\* update does no harm, for the conversation version never goes back.
RefusedIsNeverSent ==
    \A d \in past.refused : ledger[d].st = "none" /\ draft[d].st \in {"awaiting", "stale"}

\* What the customer is promised of each draft.  A ledger row, or a process about to
\* write it, stands for the release even if the draft has gone stale since.
Handing(d) == \E w \in Workers : At(w, "ledger") /\ Of(w) = d
FateOf(row, delivery, handing, count) ==
    IF count > 0 THEN "posted"
    ELSE IF delivery \in {"failed", "cancelled"} THEN "withdrawn"
    ELSE IF delivery # "none" \/ handing THEN "released"
    ELSE IF row = "none" THEN "absent"
    ELSE IF row \in {"draft", "awaiting"} THEN "written"
    ELSE IF row = "stale" THEN "withdrawn"
    ELSE "released"
Fate(d) == FateOf(draft[d].st, ledger[d].st, Handing(d), posted[d])
Reply == INSTANCE CustomerReply WITH reply <- [d \in Drafts |-> Fate(d)]
KeepsPromise == Reply!Spec

\* The preparation jobs as the code inside a claim may rely on them;
\* before_external never marks one
Claims == INSTANCE ClaimedJobs
    WITH Jobs <- Turns, Renewable <- Turns,
         status <- [t \in Turns |-> IF job[t].st = "pending" THEN "queued" ELSE job[t].st],
         inside <- [t \in Turns |-> {w \in Workers : Driven(t, w)}],
         holders <- [t \in Turns |-> {w \in Workers :
                        Driven(t, w) /\ job[t].st = "claimed" /\ job[t].owner = w}],
         marked <- [t \in Turns |-> FALSE]

\* The preparation jobs do nothing that the claim protocol, which EcsJobs keeps,
\* rules out: a preparation that has lost its claim cannot end the job, and one
\* that completed is never run again, whatever is approved meanwhile.
KeepsClaims == Claims!Spec

\* The turns as CaseTurns has them
Shown == INSTANCE CaseTurns
    WITH turn <- [t \in Turns |-> [st |-> turn[t].st, rev |-> turn[t].rev]]

\* The gate, the drafts and their deliveries move the turns of the case in no way
\* that HermesCase, which has their jobs and processes, could not: the gate fails no
\* turn that is over, and nothing starts beside a turn that is being cancelled.
KeepsTurns == Shown!Spec

\* A preparation comes to an end, by whatever process in the end, unless an exception
\* nobody expects ended its job.
PreparationEnds ==
    \A d \in Drafts : draft[d].st = "preparing" ~> draft[d].st # "preparing" \/ d \in past.broken

\* What was posted is recorded as delivered in the end, also when the answer was lost
\* or the process died before it could record it: the audit of pending and unknown rows
\* finds it.  It does not look at failed rows, where an error status in answer to a
\* comment that was posted leaves the draft.
EveryPostIsRecorded ==
    \A d \in Drafts : posted[d] > 0 ~> ledger[d].st = "delivered" \/ d \in past.misjudged

\* "Failures mark the draft prepare_failed (no ledger row, no Zendesk call) so a human
\* can retry from the approval surface" (prepare_hermes_draft_delivery).
FailedPreparationSendsNothing ==
    \A d \in Drafts : draft[d].st = "prepare_failed" => ledger[d].st = "none"
==============================================================================
