--------------------------- MODULE RunRequestStore ---------------------------
(***************************************************************************)
(* The run_requests table of the service workspace                         *)
(* (synth_optimizer_platform/src/workspace.rs).  Every SQL statement that   *)
(* changes a row is an operator from the old row to the new row: a row that *)
(* does not satisfy the statement's WHERE clause is returned unchanged.     *)
(* Statements are autocommitted one by one, so the modules that use them    *)
(* make each one a step of its own.                                         *)
(*                                                                          *)
(* Abstractions.  lease_expires_at bounds a leased or running row and       *)
(* pause_expires_at a paused one; a row never has both, so one flag,        *)
(* "expired", says that the deadline of the current status has passed.  The *)
(* columns that only describe the run (paths, cost, usage, timestamps) are  *)
(* left out; result_json is kept as its origin.                             *)
(***************************************************************************)
EXTENDS Naturals

CONSTANTS
    Workers,     \* worker ids that can own a lease
    NoWorker     \* worker_id IS NULL

ASSUME WorkersAssumption == NoWorker \notin Workers

\* A lease id is lease_{worker id}_{milliseconds}; NoLease is lease_id IS NULL.
Minted  == Workers \X Nat
NoLease == <<NoWorker, 0>>
Lease   == Minted \cup {NoLease}

ActiveStatus   == {"leased", "running"}
TerminalStatus == {"completed", "failed", "cancelled"}
Statuses       == {"absent", "deleted", "queued", "paused"} \cup ActiveStatus \cup TerminalStatus

Row == [status  : Statuses,
        lease   : Lease,
        worker  : Workers \cup {NoWorker},
        expired : BOOLEAN,
        result  : {"none", "run", "stop"},   \* who wrote result_json
        keyed   : BOOLEAN]                   \* carries the idempotency key

AbsentRow == [status |-> "absent", lease |-> NoLease, worker |-> NoWorker,
              expired |-> FALSE, result |-> "none", keyed |-> FALSE]

Exists(x)     == x.status \notin {"absent", "deleted"}
IsTerminal(x) == x.status \in TerminalStatus

\* WHERE lease_id = ? AND status IN ('leased', 'running')
HoldsLease(x, l) == x.lease = l /\ x.status \in ActiveStatus

\* SET status = s and every lease column NULL, as all release paths do.
Released(x, s) ==
    [x EXCEPT !.status = s, !.lease = NoLease, !.worker = NoWorker, !.expired = FALSE]

-----------------------------------------------------------------------------
(* Admission *)

\* submit_run_config_with_identity: INSERT ... 'queued'.
SubmitRunConfig(withKey) == [AbsentRow EXCEPT !.status = "queued", !.keyed = withKey]

-----------------------------------------------------------------------------
(* Lease life cycle *)

\* Fault: the UPDATE does not check that the request is still queued.
ClaimUnguarded(x, l, w) == [x EXCEPT !.status = "leased", !.lease = l, !.worker = w, !.expired = FALSE]

\* The UPDATE of claim_next_run_request_matching.
Claim(x, l, w) ==
    IF x.status = "queued"
      THEN [x EXCEPT !.status = "leased", !.lease = l, !.worker = w, !.expired = FALSE]
      ELSE x

\* heartbeat_run_request: may this lease still be extended?
CanHeartbeat(x, l) == HoldsLease(x, l) /\ ~x.expired

\* mark_run_request_started_for_lease: needs the lease and 'leased', and
\* gives the lease a new deadline even when the old one has passed.
CanStart(x, l) == x.lease = l /\ x.status = "leased"
MarkStartedForLease(x, l) ==
    IF CanStart(x, l) THEN [x EXCEPT !.status = "running", !.expired = FALSE] ELSE x

\* recover_expired_run_requests: an expired lease is requeued, an expired
\* pause is cancelled.  Every read path runs it before it reads.
RecoverExpired(x) ==
    IF ~x.expired THEN x
    ELSE IF x.status \in ActiveStatus THEN Released(x, "queued")
    ELSE IF x.status = "paused" THEN Released(x, "cancelled")
    ELSE x

-----------------------------------------------------------------------------
(* Writes guarded by the lease: what a worker may do *)

RecordResultForLease(x, l)   == IF HoldsLease(x, l) THEN [x EXCEPT !.result = "run"] ELSE x
MarkCompletedForLease(x, l)  == IF HoldsLease(x, l) THEN Released(x, "completed") ELSE x
MarkFailedForLease(x, l)     == IF HoldsLease(x, l) THEN Released(x, "failed") ELSE x
MarkCancelledForLease(x, l)  == IF HoldsLease(x, l) THEN Released(x, "cancelled") ELSE x

-----------------------------------------------------------------------------
(* Writes without a lease: the control plane and crash adoption *)

\* Fault: only a running request gets the result of a stop.
RecordResultWhenRunning(x) == IF x.status = "running" THEN [x EXCEPT !.result = "stop"] ELSE x

\* Fault: resume does not check that the request is still paused.
MarkResumedUnguarded(x) == IF Exists(x) THEN Released(x, "queued") ELSE x

\* No status in the WHERE clause: any existing row is overwritten.
MarkCompleted(x) == IF Exists(x) THEN Released(x, "completed") ELSE x
MarkFailed(x)    == IF Exists(x) THEN Released(x, "failed") ELSE x
MarkCancelled(x) == IF Exists(x) THEN Released(x, "cancelled") ELSE x
RecordResult(x)  == IF Exists(x) THEN [x EXCEPT !.result = "stop"] ELSE x

CanPause(x)   == x.status \in {"queued", "paused"} \cup ActiveStatus
MarkPaused(x) == IF CanPause(x) THEN Released(x, "paused") ELSE x

CanResume(x)   == x.status = "paused"
MarkResumed(x) == IF CanResume(x) THEN Released(x, "queued") ELSE x

\* fail_orphaned_run_requests: every leased or running row is failed.
FailOrphaned(x) == IF x.status \in ActiveStatus THEN MarkFailed(x) ELSE x

\* delete_run_request_by_run_id; request ids are never used again.
DeleteRunRequest(x) == [AbsentRow EXCEPT !.status = "deleted"]
=============================================================================
