----------------------------- MODULE ClaimedJobs -----------------------------
(***************************************************************************)
(* What the claim protocol promises of the rows of automation_jobs to the  *)
(* code that runs inside a claim: at most one process holds a job, a       *)
(* process works for one job at a time, only the holder marks, ends or     *)
(* gives back its job, a marked job is offered again only by the process   *)
(* that gives it back, and a job that has ended is not run again.          *)
(*                                                                         *)
(* EcsJobs keeps this with tokens, leases and the sweep.  HermesCase and   *)
(* DraftDelivery are about what happens inside a claim, with a job that is *)
(* reduced to this.                                                        *)
(***************************************************************************)
CONSTANTS
    Jobs,
    Workers,    \* the processes that may claim a job
    Renewable   \* the jobs that may be requested again before they completed

VARIABLES
    status,   \* status[j]: of the row; ended is any terminal status but completed
    inside,   \* inside[j]: the processes that run code for j, late ones included
    holders,  \* holders[j]: those of them whose claim would pass _lock_claimed
    marked    \* marked[j]: external_started_at is set

vars == <<status, inside, holders, marked>>

Status == {"none", "queued", "claimed", "completed", "ended"}

TypeOK ==
    /\ status \in [Jobs -> Status]
    /\ inside \in [Jobs -> SUBSET Workers]
    /\ holders \in [Jobs -> SUBSET Workers]
    /\ marked \in [Jobs -> BOOLEAN]

Init ==
    /\ status = [j \in Jobs |-> "none"]
    /\ inside = [j \in Jobs |-> {}]
    /\ holders = [j \in Jobs |-> {}]
    /\ marked = [j \in Jobs |-> FALSE]

------------------------------------------------------------------------------
(* What a transaction, or the death of a process, may do to one job *)

Becomes(j, newStatus, newInside, newHolders) ==
    /\ status'[j] = newStatus
    /\ inside'[j] = newInside
    /\ holders'[j] = newHolders

SameMark(j) == marked'[j] = marked[j]

Stays(j) == Becomes(j, status[j], inside[j], holders[j]) /\ SameMark(j)

Open(j) ==
    /\ status[j] = "none" /\ inside[j] = {}
    /\ Becomes(j, "queued", {}, {}) /\ SameMark(j)

\* A claim that lapsed is taken over only as long as the job is not marked
Claim(j, w) ==
    /\ status[j] = "queued" \/ (status[j] = "claimed" /\ ~marked[j])
    /\ \A i \in Jobs : w \notin inside[i]
    /\ Becomes(j, "claimed", inside[j] \cup {w}, {w}) /\ SameMark(j)

Mark(j) ==
    /\ holders[j] # {}
    /\ Becomes(j, status[j], inside[j], holders[j]) /\ marked'[j] = TRUE

\* The holder ends the claim, or gives the job back, and leaves
Settle(j, w) ==
    /\ w \in holders[j]
    /\ \E s \in {"queued", "completed", "ended"} : Becomes(j, s, inside[j] \ {w}, {})
    /\ SameMark(j)

\* A process that lost its claim returns, or any process dies
Leave(j, w) == Becomes(j, status[j], inside[j] \ {w}, holders[j] \ {w}) /\ SameMark(j)

\* The lease lapsed, under a dead process or a live one
Lapse(j) ==
    /\ status[j] = "claimed"
    /\ Becomes(j, IF marked[j] THEN "ended" ELSE "queued", inside[j], {}) /\ SameMark(j)

\* The upsert that asks for the work again
Request(j) ==
    /\ j \in Renewable
    /\ status[j] \notin {"none", "completed"}
    /\ Becomes(j, "queued", inside[j], {}) /\ SameMark(j)

Moves(j) ==
    \/ Open(j) \/ Mark(j) \/ Lapse(j) \/ Request(j)
    \/ \E w \in Workers : Claim(j, w) \/ Settle(j, w) \/ Leave(j, w)

\* A transaction may move several jobs: a claim sweeps others, a route that
\* completes opens its successor
Next ==
    /\ TypeOK'
    /\ \A j \in Jobs : Stays(j) \/ Moves(j)

Spec == Init /\ [][Next]_vars
==============================================================================
