------------------------- MODULE OptimizerJobStore -------------------------
(***************************************************************************)
(* A row of optimizer_jobs and the statements that change it                *)
(* (workspace.rs: claim_optimizer_job, mark_optimizer_job_running,          *)
(* schedule_*_retry, recover_expired_optimizer_jobs, record_optimizer_job). *)
(* Each operator gives the row after one UPDATE whose WHERE clause is the   *)
(* operator Can...; the upsert of record_optimizer_job has no WHERE.        *)
(***************************************************************************)
EXTENDS Integers

NoLease == 0

JobStatus == {"absent", "pending", "leased", "running", "retry_scheduled",
              "completed", "failed", "cancelled", "expired"}

\* OptimizerJobStatus::is_terminal
JobTerminal == {"completed", "failed", "cancelled", "expired"}

\* The errors a dispatch may end with, by the two tests the code applies to
\* them: is_retryable_runtime_job_error of the executor, and `retryable` of the
\* FailurePayload kept with the row.
\*   transient  both (http, container and overload errors)
\*   failed     the executor's only (OptimizerError::Failed, Json)
\*   io         the payload's only (Io, Sqlite)
\*   fatal      neither
ErrorClass        == {"transient", "failed", "io", "fatal"}
ExecutorRetryable == {"transient", "failed"}
PayloadRetryable  == {"transient", "io"}

Job == [status  : JobStatus,
        attempt : Nat,
        lease   : Nat,
        due     : BOOLEAN,              \* next_retry_at is NULL or has passed
        late    : BOOLEAN,              \* lease_expires_at has passed
        failure : ErrorClass \cup {"none"},
        outcome : BOOLEAN]              \* payload holds a runtime_outcome

AbsentJob == [status |-> "absent", attempt |-> 0, lease |-> NoLease, due |-> TRUE,
              late |-> FALSE, failure |-> "none", outcome |-> FALSE]

\* record_runtime_effect_job with status Pending: a fresh row, whatever was there.
Enqueued == [AbsentJob EXCEPT !.status = "pending"]

Claimable(j) == j.status = "pending" \/ (j.status = "retry_scheduled" /\ j.due)

\* Fault: a claim does not count as an attempt.
ClaimedUncounted(j, l) ==
    [j EXCEPT !.status = "leased", !.lease = l, !.due = TRUE, !.late = FALSE]

Claimed(j, l) ==
    [j EXCEPT !.status = "leased", !.attempt = @ + 1, !.lease = l,
              !.due = TRUE, !.late = FALSE]

InHand(j)    == j.status \in {"leased", "running"}
Holds(j, l)  == j.lease = l /\ InHand(j)

Running(j) == [j EXCEPT !.status = "running", !.late = FALSE]

\* The row goes back to the queue, to be claimed after the backoff.
Rescheduled(j, c) ==
    [j EXCEPT !.status = "retry_scheduled", !.lease = NoLease, !.due = FALSE,
              !.late = FALSE, !.failure = c]

\* Fault: nothing is recovered.
RecoverExpiredNever(j, max) == j

\* recover_expired_optimizer_jobs: a lapsed lease ends in another attempt or,
\* when none is left, in 'expired'.  The failure column is not written.
RecoverExpired(j, max) ==
    IF ~(InHand(j) /\ j.late) THEN j
    ELSE IF j.attempt < max THEN Rescheduled(j, j.failure)
    ELSE [j EXCEPT !.status = "expired", !.lease = NoLease, !.due = TRUE, !.late = FALSE]

\* record_runtime_effect_job with a terminal status: everything but status and
\* failure is that of the row read before.
Settled(j, s, c) == [j EXCEPT !.status = s, !.failure = c]

\* The outcome is put in the payload of the row read before.
WithOutcome(j) == [j EXCEPT !.outcome = TRUE]
=============================================================================
