# Verification of the optimizers

TLA+ modules for the Rust optimizers of `synth-laboratories/optimizers` (the GEPA
service, its runs, agents and storage, MAPO and MARL prompt optimisation), TLC configurations
that check them on small instances, and TLAPS proofs of the invariants that
matter most. `PROJECT.json` lists components, runs, the source lines behind each
definition, the hazards of the code and the theorems.

    tlc -workers 2 -config RunService_settle.cfg MCRunService
    tlapm RunServiceProofs.tla

## 1. Inventory

The repository is a workspace of Rust crates (the optimizer platform, the GEPA
optimizer with its HTTP service, two further optimizers) and a Python package
(a reinforcement-learning plane, training jobs, local evaluation, controlled
experiments, clients and boards). What carries state and must survive threads,
processes and crashes:

| Component | State | Operations | Interacts with | What is hard | What makes it correct |
|---|---|---|---|---|---|
| run request store (`workspace.rs`) | `run_requests`, `resource_leases` in SQLite | queue, claim, heartbeat, start, complete, fail, cancel, pause, resume, requeue expired, delete | service workers and handlers | each statement commits alone; workers and handlers interleave between them | a lease names one request and one worker; a terminal status stays |
| GEPA service (`service.rs`) | worker threads, handler threads | tick, recover, create, cancel, stop, pause, resume, delete, step | store, cursor of each run, ownership | rows read in one statement and used in the next; row and cursor are in two databases; restarts | queued requests are settled; cancellation reaches the run; one advancer |
| service ownership (`service_ownership.rs`) | lock file, heartbeat file, heartbeat thread | acquire, decide, evict, adopt, refresh, drop | other service processes, the operating system | open/flock/rename are separate calls; pids are reused; processes hang | one owner; only the own lineage is signalled; an adopted crash is real |
| optimizer jobs (`jobs.rs`, `failures.rs`, `workspace.rs`) | `optimizer_jobs` | enqueue, claim, mark running, retry, recover, settle | runtime executor, recovery | upserts from stale copies; leases that lapse under a live holder | attempts are counted before the call they allow |
| budget ledger (`limits.rs`, `workspace.rs`) | `budget_reservations`, `budget_commits` | admit, reserve, commit, snapshot | effects | a cost may be unknown; admission and reservation are two statements | spent and reserved stay within the limit; what is paid is on the books |
| runtime effects (`lib.rs`, `runtime.rs`) | `runtime_effects`, the cursor | plan, dispatch, settle, consume, abort | jobs, ledger, provider | eight statements settle an effect; crash or cancel between any two; abort beside the worker | the retry policy bounds paid calls; nothing is consumed that was not dispatched; the run ends |
| GEPA phases (`lib.rs`, `machines.rs`) | cursor, candidates, active evaluation, budgets | one handler per phase, finalizers, deferral, completion | effects, transition log | cursor and log are two databases; rows that fail for good; a budget that ends inside a group | only fully scored candidates are deployed; the best leads; the run ends |
| async lanes (`pipeline.rs`, `planner.rs`) | partials, lane queues, lane leases | propose, rollout, evaluate and consume ticks | GEPA phases | lanes that wait for one another; staleness; speculation | a partial is held once; no lane waits for ever |
| transition log (`state_machine.rs`, `fsm.rs`) | append-only transitions | record, replay | GEPA phases | redo after a crash is refused | log, machine and phase agree |
| run tables (`workspace.rs`, `invariants.rs`, `scores.rs`, `candidates.rs`) | candidates, frames, score vectors, frontier, ledgers, projections, report | every write of a tick, refresh, report | GEPA phases, jobs, ledger | dozens of statements per tick, redone after a kill | the run's own report is clean; the frontier is the best of the stored rewards |
| run storage (`events.rs`, `cache.rs`, `disk_budget.rs`, `storage_maintenance.rs`, `checkpoints.rs`) | event files, cache, checkpoints, disk budget | append, look up, store, prune, delete, compact, read | workers, handlers, readers, other runs | cached sizes; maintenance beside a tick; torn lines | a live run keeps its storage; readers miss nothing; an answer is paid for once |
| proposer agents (`codex_app_server.rs`, `leakage.rs`, `agent_runtime/`) | workspace, homes, sessions, server process, watchdog | stage, start, turn, read back, clean up | effects, external servers | messages before their turn is named; servers that hang; retries in an old workspace | the outcome is the attempt's own; nothing leaks, is left running or is lost |
| MAPO (`synth_mapo/`) | candidates, champion, artifact files | generations, selection, heldout comparison, persist | container | files written one by one; reruns in one directory | a fair comparison; files that never claim too much |
| MARL prompt optimisation (`synth_marl_promptopt/`) | registry, budgets, scores of four strategies | generations, audit, heldout pairs | container, proposer | a budget that ends inside a row's arms; orders that are not total | a fair comparison; the champion leads |
| limit engine (`limit_engine.rs`, `stopper.rs`) | pure | evaluate | effects | numeric edges | agrees with a reference definition |
| RL queues (`rl/queues.py`, `leases.py`, `store.py`, `lifecycle.py`) | journalled queues, leases, controls | admit, dispatch, settle, gate, pause, drain, resume, stop | executor, container | two clocks per attempt, staleness at the gate, restart from the journal | bounded queues; no sample trains twice or stale |
| RL catalog (`rl/catalog.py`, `policy_sets.py`) | append-only catalog, outbox | publish, resolve | executor, evaluation | a revision of several components | published whole or not at all |
| training jobs (`runtime/jobs.py`, `operations.py`, `worker.py`) | job store, journal | submit, claim, boundary | SFT, CISPO, provider | a provider call whose outcome is unknown | never replayed automatically |
| trial semaphore (`eval/semaphore.py`) | lease files | acquire, renew, release | eval runs | processes that die with a token | never more tokens than the limit |

Everything else (clients, boards, contracts, configuration, numerical kernels,
provider adapters) is I/O, validation or arithmetic on floats; `PROJECT.json`
says so part by part.

## 2. Modules

| Module | Models | Uses |
|---|---|---|
| `RunRequestStore` | rows of `run_requests` and one operator per SQL statement on them | |
| `RunService` | workers, step calls and control calls over the store and the cursors; deadlines; process ends and restarts | `RunRequestStore` |
| `ServiceOwnership` | service processes of one database and their two files | |
| `OptimizerJobStore` | rows of `optimizer_jobs` and one operator per statement; error classes | |
| `BudgetLedger` | reservations, commits, the snapshot and the limit tests | |
| `RuntimeEffects` | one run in service mode: ticks of workers and of the canceller, statement by statement | `OptimizerJobStore`, `BudgetLedger` |
| `TransitionLog` | transition tables of candidates, proposer rounds and the run, and what the log refuses | |
| `GepaRun` | a run from the seed to the deployed candidate, handler by handler, synchronous pipeline | `TransitionLog` |
| `PipelineLanes` | the two async pipelines around the handlers of `GepaRun` | `GepaRun` |
| `RunTables` | the rows a run writes, killed between any two of them, and its invariant report | |
| `RunStorage` | the files of a run, the worker, readers, handlers and the disk budget | `EventFeed` (refined) |
| `EventFeed` | abstract: what a reader of a run's events is promised | |
| `AgentTurn` | a turn of an agent on each substrate: client, server, watchdog, sessions, resources | |
| `CodexProposer` | attempts in one workspace: evidence, leak scans, manifest, chat backend | `AgentTurn` |
| `MarlVariants` | arms, scores and orders of coma, ic3net, rode and imac | |
| `MarlPromptopt` | a whole MARL prompt optimisation run | `MarlVariants` |
| `Mapo` | a whole MAPO run with its files and reruns | |
| `MC...` | values of constants for TLC | |
| `...Proofs` | theorems, in modules of their own | |

The GEPA service is seen from several sides, each module taking the others'
subject as a choice. In `RunService` the run is a cursor that a worker advances
by a phase. In `RuntimeEffects` the request is a status and an owner, and the
tick is the life of one paid effect; its `Cancel`, `Steal` and `Crash` are what
`RunService` shows to be possible. In `GepaRun` an effect is an outcome, and the
tick is a handler with its durable writes. `PipelineLanes` keeps these handlers
and changes who calls them. `RunTables` takes a script of such handlers and
follows every row they write; `RunStorage` follows the files. `CodexProposer` is
what happens inside the dispatch of a proposal.

### State and steps

A step is one autocommitted SQL statement, one load or save of a checkpoint,
one append, rename or removal other processes can see, one message, or one call
to a provider. What a thread read stays in its local record (`tick`, `call`,
`seen`, `worker`, `client`) and is used after others have moved: this is where
the interesting behaviours come from. The place of a thread in its handler is
`pc` (or `at`); each action is guarded by it and by the conditions of the code,
and follows the order of the code's statements.

* `RunService`: `row` (the table), `res` (active resource leases), `cursor`
  (latest checkpoint of each run's workspace), `tick`, `call`, `service`.
  Phases of the cursor are grouped by what the control plane tells apart.
  Persisting a cursor keeps the highest sequence number, as
  `latest_checkpoint` does. A lease id is a worker id and a reading of the clock
  in milliseconds, as in the code (`service.rs:527`): all step calls share one
  worker id, two of them may read the same millisecond, and the clock may be set
  back, so ids repeat. `Millis` bounds the readings; one value, which the runs
  use, lets every two ids of one worker be equal.
* `ServiceOwnership`: the lock *path* and the locked *inode* are two things
  (`lock`, `fd`, `holder`), because eviction renames the file under its holder.
  A heartbeat record is pid, start identity, binary digest and freshness. The
  temporary file of the heartbeat is shared by all writers, as in the code.
* `RuntimeEffects`: `effect`, `reservation`, `commit`, `job`, `cursor`, and per
  thread the tick with the row copy it read, its lease and what it is settling
  with. `dispatched` and `unknown` are history variables.
* `GepaRun`: `cur` is the cursor, `candLog` and `roundLog` the transition log,
  `jobs` and `frames` the run workspace. A handler is an operator that returns the sequence of durable
  writes it makes; a tick makes all of them, or, when the process dies, a prefix.
  Redoing a handler over what the prefix left is then the code's own path.
* `PipelineLanes`: the cursor gains the set of partials and the lane state; a
  handler's own save and the lane's second save are two writes.
* `RunTables`: `db` holds the tables, `todo` the writes the current tick has
  still to make, `cursor` the saved one. `Violations` translates
  `build_run_invariant_report` and its count, ledger and projection checks.
* `RunStorage`: `disk` is the run directory by file, `worker` the tick, `call` an
  HTTP handler, `reader` a websocket subscriber or a poller, `budget` the cached
  walk and the bytes noted since. Sizes are counted in lines, cursors and files.
* `AgentTurn`/`CodexProposer`: `pc` of the calling thread, `client` (next id,
  buffer, put-back messages, what it waits for), `srv` (the external server and
  its pipe), the watchdog, staged homes, the workspace's manifest as the number
  of the turn that wrote it.
* `Mapo`, `MarlPromptopt`: one sequential process whose state is in memory; what
  persists are MAPO's files, written one by one.

### What is abstracted

* Candidates, prompts, scores and messages: an effect is a number, a candidate a
  name, a row keeps only the columns that decisions read, a reward is one of two
  values, a file is who wrote it.
* Errors are the classes the decisions tell apart.
* `RuntimeEffects` has one run in the sync-serial pipeline: effects are planned
  in a fixed order, one at a time, in the cost dimension, the one in which a
  value may be unknown. The release row written beside a commit is read by no
  decision and merged with it.
* `ServiceOwnership` takes the signal and the identity test before it as one
  step (pids are handed out in turn, so none is reused in between), and leaves
  out torn reads of the temporary file and failing renames.
* `GepaRun` leaves out the single-candidate variants of finalizers, and the run
  loop outside the service; `RunTables` covers both kinds of loop.
* `PipelineLanes`: reflective review and patch of stale work, and the adjustment
  of stage workers (made in no-op ticks and never persisted) are left out.
* `RunTables` follows scripts of one or two generations and one kill. Not there:
  the refresh reader (its row and its counts are read in separate statements),
  `refresh_terminal_run_projection` (unreachable), a rollout that a limit refuses
  (only a proposer's turn meets the limits, and only under the run loop, which it
  ends), per-frame job rows of the registry, the check on resource leases.
* `RunStorage` assumes one worker per run and a run id submitted once. Health over
  several roots, alerts, inference from the registry, dry runs and the
  50 000-event limit of a replay are left out.
* `AgentTurn`: websocket framing, installing the helper binaries, the replay of a
  recorded turn and the death of the optimizer process inside a turn are left
  out, and so is the error of `kill` in `terminate` (`app_server.rs:404`): the child
  is the caller's own and not yet reaped, which leaves kill(2) no reason to fail.
  Time is a choice: any wait may end when its window may.

## 3. Runs

| Run | Instance | Shows |
|---|---|---|
| `settle` | 2 workers, 1 request, 1 cancel, 1 deadline, 1 process end | `SingleAdvancer`, `CompletedCursorAgrees`, `QueuedIsSettled`, `CancelReachesCursor` |
| `control` | 1 worker, 1 deadline, requests of which two share a namespace; 1 queued request, 1 step call and 2 calls of any kind, or 3 queued requests, 2 step calls of one worker id and one millisecond and 1 process end | `CompletedHasResult`, `TerminalIsFinal`, `LeaseOwner`, `SlotHoldsOne` |
| `ownership` | 2 services, 1 stranger, 2 pids, any start; 1 crash, 1 suspension, 1 failed bind | `SoleOwnerAtPath`, `KillsOnlyItsLineage`, `AdoptedIsGone`, `AcquireEnds` |
| `effects_retry` | a proposal and a rollout, every error class, 2 lapsed job leases, 2 crashes | `DispatchBound`, `BooksHold`, `RunSettles` |
| `effects_faults` | 1 proposal, 2 workers and the canceller, cancelled at any statement, the request's lease lost once | `PaidOnTheBooks`, `CancelReachesCursor` |
| `gepa_phases` | 2 generations, 4 payloads, 3 proposals at once, every pattern of rewards; 1 row that fails for good, 1 crash, a cancel | `CompletedHasHeldout`, `MachineFollowsPhase`, `BestLeadsOnTrain`, `AsksAreGranted`, `RunEnds` |
| `lanes` | both pipelines, 2 generations, 3 payloads; 1 failed row, 1 crash, a cancel | `LanesSound`, `LanesEnd` |
| `agents` | 7 configurations of call and substrate, 2 attempts in one workspace, every set of 5 evidence frames, 1 fault | `WorkspaceSound`, `CallLeavesNothing`, `OutcomeIsItsOwn`, `AttemptEnds` |
| `storage` | 5 scenarios of who is present, 3 events, 2 saves, 1 call, 1 fault | `StorageSound`, `EmitsBelowHard`, `LiveRunKeepsItsStorage`, `FeedAsPromised` |
| `tables` | 8 scenarios: run loop and service with a kill, cancel, overlapping minibatches, a cut pass, no proposals, a proposer's turn refused by its budget without and after a kill | `ReportClean`, `FrontierAgrees` |
| `marl` | 4 strategies with budgets that end inside a row, 6 edge configurations, a container and a proposer that fail | `ComparisonIsFair`, `ChampionLeads`, `FailsOnlyForCause` |
| `mapo` | 11 configurations with and without selection and branches, a frozen campaign, failing writes, a crash and a rerun | `ComparisonIsFair`, `ChampionIsBest`, `DiskIsTruthful` |

Properties that combine several named parts (`BooksHold`, `LanesSound`,
`StorageSound`, `WorkspaceSound`, ...) say so in their definition; the parts
stand before them in the module with a comment each.

Why the bounds are enough to meet the interesting cases: two actors suffice for
every stale read (one reads, one writes in between), two effects for a budget
that is used up between them, and one fault of each kind may fall between any
two statements. A rollout may be tried three times and a proposal once, so two
lapsed leases and two crashes use up a policy in all orders. In `gepa_phases` the
budget of 12 covers the seed and not all three proposals, so deferral, the
boundary and the heldout reserve are met; the second generation repeats a
candidate. In `tables` each script has every kind of stage, and the kill comes
between every two of its writes. In `marl` and `mapo` groups have two rows where
a mean or a tie matters. In `agents` the second attempt meets what the first
left, and a pooled session of two turns ends by its own limit. What holds only on
these instances and what is proved for all is in section 5. `control` starts two
instances in one run (`MCInit`): the calls in one, a second step call, more queued
requests and the process end in the other; step calls, and calls, are symmetric.

What the properties except, and why:

* `SingleAdvancer` and `CompletedCursorAgrees` are for behaviours without a
  passed deadline and without a pause: after either, an old and a new holder do
  advance the same run for a while, which the code accepts.
* `LeaseOwner` claims of a service worker that the row its worker id holds is the
  one its tick works on, under that lease; of step calls it claims only that
  nobody works under *another* worker's lease. Two step calls in one millisecond
  do hold two requests under one lease id (`control` reaches it); the statements
  guard by request and lease, so neither takes the other's row.
* `TerminalIsFinal` excepts control calls that read the row before it became
  terminal: cancel, stop and delete write without a status guard.
* `SoleOwnerAtPath` is for starts that do not overlap (section 4).
* `PaidOnTheBooks` is checked without crashes: between the reservation's end and
  the commit a crash leaves neither. The outcome part of `BooksHold` is about runs
  that are not cancelled: a canceller and a worker that settle the same job
  overwrite each other's row.
* `SeedCompared`, a part of `AsksAreGranted`, is for runs that did not crash: an orphaned reservation may cost
  the seed its score. What the deployed candidate itself needs,
  `CompletedHasHeldout`, has no such exception.
* `MachineFollowsPhase` lets a run reach `Finalizing` with the machine still Ready
  when it has no best candidate: then the seed itself was deferred, and nothing was
  ever evaluated.
* `LanesEnd` is for runs that were never restarted, and `lanes` has flash_evolve
  with one candidate in flight (section 4).
* `AttemptEnds` leaves out the nano pool, which has no watchdog.
* `FeedAsPromised` ends with a cancellation or a removal of the files:
  a cancelled run may still write.
* `ReportClean` tolerates after a kill a ledger or an access log that is off and an
  overstated cost, never an understated one, and in a failed run a reservation
  without a job; `FrontierAgrees` excepts a full-train pass the budget cut.
* `ChampionLeads` compares the keys whose order is total: the champion that depends
  on the registry's order (section 4) is not its subject.

### Fairness

* `RunService`: a worker thread loops for ever and a handler that began runs to
  its end (`WF` on their steps), and the supervisor starts the process again.
  Deadlines, process ends and the arrival of calls are not fair.
* `ServiceOwnership`: a running process goes on with its acquisition and its
  `LOCK_RETRY_BUDGET` passes. Crashes, suspensions, wake-ups and heartbeats are
  not fair.
* `RuntimeEffects`: workers keep ticking the runs they hold, leases nobody holds
  lapse, back-offs pass, and the primary worker calls `recover_service_state` on
  each tick. Crash, cancel and the loss of a lease by a live holder are not fair
  and bounded; without a bound a provider that never answers in time could keep
  a run alive for ever.
* `GepaRun`, `PipelineLanes`: the service ticks a run until it has ended; a lane
  that waits with no retry due is what `NeverStuck` forbids, so it need not be
  fair.
* `CodexProposer`: the calling thread and the watchdog thread run, and the hard
  deadline of a server that has stopped reading passes. Nothing is assumed of the
  server.
* `Mapo`, `MarlPromptopt`: the process runs on until it ends or crashes.

Deadlock is not checked where a system may stop: a run that has ended, processes
that have all ended, a call that returned.

## 4. Behaviours met while modelling

What the models show the code to do beside the properties above. None is kept as
a run of its own; each was seen as a trace of a run, or read off the lines while
translating them.

Service and ownership:

* Pausing and resuming change cursor and row one after the other; with a second
  call in between the row is queued while the cursor stays paused, and the
  request is ticked for ever (`service.rs:2702`).
* After a crash, a second newcomer that reads the dead owner's heartbeat before
  the first has replaced it takes the lock's holder for a stranger, renames the
  locked file away and owns a fresh one (`service_ownership.rs:279`; the test at
  line 821 expects "second owner must fail with already_running").
* The namespace test and the claim are two statements (`workspace.rs:724`,
  `:780`), so two claimants can hold one cache namespace. The `Idempotency-Key`
  is looked up before the container handshake and inserted after it
  (`service.rs:1820`). A heartbeat records resource leases after its guarded
  UPDATE (`workspace.rs:835`). A pause inside a tick is taken for a lost lease and
  aborts the run (`lib.rs:3333`). The start of a requeued request drops the
  `previous_phase` of a concurrent pause (`service.rs:729`). A worker's result may
  land between the two statements of stop (`service.rs:2619`).

Effects and budget:

* `record_runtime_effect_job` upserts a pending row with attempt 0 over the row a
  successor has claimed (`lib.rs:20578`): a planner that lost the run's lease makes
  a paid proposer turn go out twice. Hence `MaxSteals = 0` in `RetryPolicyHolds`.
* An expired job is consumed as failed without settling its reservation; the
  commit of a retry replaces the unknown commit of the failed attempt, and
  admission goes on.
* Reservation observations of the limit engine carry a spent value of 0, so the
  rate of positive differences is overestimated.

Phases and lanes:

* `advance_proposer_waiting` reuses a candidate registered under an older parent
  (`lib.rs:12951`): its minibatch can be admitted on the new parent's scores and
  fail the assertion of the finalizer (`lib.rs:11967`).
* A failed reference row is scheduled against the same finished job and counted
  again, until the breaker trips; degraded minibatch and full-train rows end the
  run; the no-improvement stop never fires (`lib.rs:12035`, `:12332`). A crash
  between log and cursor makes the log refuse the redo and fails the run. Deferral
  and leakage change a candidate's status without a transition.
* `async_partial_id` is made of stage and generation only (`lib.rs:6760`), so two
  partials collide; proposals beyond `max_in_flight_candidates` are lost
  (`lib.rs:12644`). flash_evolve with two or more in flight goes round without
  progress, and with one, speculation and staleness are out of reach. A crash
  between the handler's save and the lane's strands a partial.

Tables:

* A reopened run's closed row says `initializing` with `completed_at` set. A
  completed run killed before its last save and then cancelled becomes cancelled,
  with a failure manifest beside its best candidate and cost.
* A kill before the first ledger is saved doubles the reported cost; a redone
  proposer tick emits `proposer.completed` twice; a finalization killed after the
  cache profile leaves stale accesses. The Pareto projection is stale on healthy
  runs; overlapping minibatches without a cache leave two annotations for one
  frame; the report read between the Completed transition and the manifest shows
  violations; a cancelled run has more materialisations than frames. A
  proposer's turn that is admitted, killed between its reservation and its job and
  then refused for that very reservation has two admissions, and the failed run
  keeps the reservation (`lib.rs:20190`).
* Under the run loop a job left running by a killed process is never recovered
  and the rerun sleeps for ever; under the service a proposer killed inside its
  turn expires and the failed run keeps its reservation.
* A candidate deferred inside its full-train pass keeps its frames, so
  `rebuild_frontier_cells` may list it while its train reward is NULL. A transition
  refused on redo leaves the run's row open.

Storage:

* The soft limit is evaluated at every open of the run context and ends a run in
  progress (`disk_budget.rs:11` says once at launch). Events may follow the
  terminal one (`lib.rs:14063`): the limit estimate after `gepa.run.finished`, a
  redo, or a cancelled run's last tick, which may also create a pruned directory
  again. Prune drops the row when a removal failed; dropping artifacts has no
  terminal guard. A full cache fails every later open. A torn line makes a run
  unresumable. A walk stored after a concurrent note loses the note.

Agents:

* A failed deletion of a Daytona sandbox is reported as cleaned, and errors
  between its creation and the turn leak it; a failed start of a nano session
  leaks child and home, a websocket listener that is not ready its child; docker's
  kill hits the client, not the container. A token refreshed in a one-shot turn
  that fails is lost; parallel proposers sharing a home may write back the older
  one. A failed persist turns a completed turn into an error. Daytona ignores
  terminal messages without a turn id. The staleness template already says accept;
  `jesterky_*` files are not scanned for leaks.

MAPO and MARL:

* A campaign's cap is exceeded, because heldout seeds and repetitions are both the
  heldout count and are multiplied (`campaign.rs:306`); branch selection is not
  counted. Duplicate heldout seeds or zero repetitions fail only at the final
  comparison. Two selection tasks with the same numeric suffix share a rollout id;
  selection tasks are not compared with heldout seeds; `resume` and
  `proposer_mode = "external"` are recorded and ignored; a rerun in one directory
  leaves stale comparison and failure files.
* MARL compares `minimum_rows_per_candidate` with rollouts. A budget that ends
  inside a row's arms fails the run in coma, ic3net and rode, and a train budget
  of zero fails every run at the seed's empty batch. Over imac's and
  rode's orders, which are not total, the champion depends on the registry's
  order. Duplicate heldout ids fail after everything is paid.

## 5. Proofs

Constants are arbitrary within the named assumptions `ServiceAssumption`,
`OwnershipAssumption`, `EffectsAssumption`, `GepaAssumption`, `RunStorageAssumption`,
`MapoAssumption`, `AgentTurnAssumption`, `CodexProposerAssumption`, `HeldoutApart`,
`MarlAssumption`, `EnvelopeAssumption` and those of the stores: any number of requests, workers, calls, processes,
effects, events, checkpoints and faults, any rows, proposals, budgets and pipeline
limits of a GEPA run, any configuration of a MAPO or MARL run
and any answer of a rollout, any evidence shown to a proposer and any order of its
server's messages.

| Theorem | Module | States |
|---|---|---|
| `TypeCorrect` | `RunServiceProofs` | `[]TypeOK` |
| `SlotsHoldOneRequest`, `LeaseHasOneOwner` | `RunServiceProofs` | `[]SlotHoldsOne`, `[]LeaseOwner` |
| `OneAdvancerAtATime` | `RunServiceProofs` | `[]SingleAdvancer` |
| `CompletedRunsHaveResults`, `TerminalStaysTerminal` | `RunServiceProofs` | `[]CompletedHasResult`, `TerminalIsFinal` |
| `CompletedCursorsAgree` | `RunServiceProofs` | at most one step call implies `[]CompletedCursorAgrees` |
| `OnlyLineageIsSignalled`, `AdoptedCrashIsReal` | `ServiceOwnershipProofs` | `[]KillsOnlyItsLineage`, `[]AdoptedIsGone` |
| `OwnerIsSole` | `ServiceOwnershipProofs` | one binary implies `[]SoleOwnerAtPath` |
| `TypeCorrect` | `RuntimeEffectsProofs` | `[]TypeOK` |
| `NothingPassedUnasked` | `RuntimeEffectsProofs` | the cursor passes no effect that was not dispatched |
| `PaidStaysOnTheBooks` | `RuntimeEffectsProofs` | no crash implies `[]PaidOnTheBooks` |
| `RetryPolicyHolds` | `RuntimeEffectsProofs` | `MaxSteals = 0` implies `[]DispatchBound` |
| `BooksStayTrue` | `RuntimeEffectsProofs` | `MaxSteals = 0` implies `[]BooksHold` |
| `RunIsSound` | `GepaRunProofs` | `[]GInv`, the inductive invariant of a run |
| `MachineAlwaysFollows` | `GepaRunProofs` | `[]MachineFollowsPhase` |
| `CompletedRunHasHeldout` | `GepaRunProofs` | `[]CompletedHasHeldout` |
| `BestAlwaysLeads` | `GepaRunProofs` | `[]BestLeadsOnTrain` |
| `StorageIsSound` | `RunStorageProofs` | `[]StorageSound` |
| `LiveRunKeeps`, `EmitsAreBelowHard` | `RunStorageProofs` | `LiveRunKeepsItsStorage`, `EmitsBelowHard` |
| `FeedServedAsPromised` | `RunStorageProofs` | the refinement `FeedAsPromised` |
| `FilesNeverLie`, `ComparisonsAreFair` | `MapoProofs` | `[]DiskIsTruthful`, `[]ComparisonIsFair` |
| `ChampionsLead` | `MapoProofs` | `[]ChampionIsBest` |
| `CodexCallLeavesNothing`, `CodexWorkspaceSound` | `CodexProposerProofs` | `[]CallLeavesNothing`, `[]WorkspaceSound` |
| `CodexOutcomeIsItsOwn` | `CodexProposerProofs` | `OutcomeIsItsOwn` |
| `MarlComparisonIsFair`, `MarlFailsForCause` | `MarlPromptoptProofs` | `[]ComparisonIsFair`, `[]FailsOnlyForCause` |
| `MarlChampionLeads` | `MarlPromptoptProofs` | `[]ChampionLeads` |

The inductive invariants:

* `RunService`. `TypeInv` adds to the types what a thread's place in its handler
  says about what it holds (`ThreadOK`, `CallOK`): without it an action would
  index a row by no request. `LeaseInv` adds to `LeaseOwner` and
  `SlotHoldsOne` that a row's columns agree (`LeaseColumns`: active, leased and
  owned together, by the worker its lease id names), that a thread's lease names
  its worker id (`LeaseNames`), and that a service worker between
  `active_run_request` and its claim holds no row (`SlotFree`). Nothing says that
  lease ids differ: a stale lease is harmless because a worker's next claim comes
  after the end of the tick that held the old one. `ResultInv` adds `ResultKept`: whoever is
  about to complete a request has seen its result written, and no statement
  takes it away while the row exists. Actions that leave the relevant columns
  alone are handled by one lemma each (`Quiet`, `ThreadQuiet`, `Modest`).
  While no deadline passes and nobody pauses, `OnceInv` says that a request is
  leased once and never queued again, so all who hold it act under one worker
  id; `SingleAdvancer` follows. `AgreeInv` then follows a completed cursor to the
  row: who is between the load and the save of a cursor, what the stops and
  deletes under way say of the row, and that the cursor is completed last. It
  needs `OneStepCall`: two racing step calls act as one `ManualWorker` under one
  lease, both load the cursor, and the failing one may save its copy over the
  completed one at the same sequence number. The run has one step call as well.
* `ServiceOwnership`. Pids of live processes are distinct; every record, in the
  files or in a process's memory, is truthful about the process that wrote it;
  a process about to evict or to adopt has judged such a record. Records stay
  truthful when pids are reused because the start identity is compared with the
  pid. For these no assumption on the order of starts is needed.
  `SoleOwnerAtPath` is about starts that do not overlap, and `CalmInv` says what
  holds as long as they do not: acquisitions are in turn (`InTurn`), at most one
  process has the lock of the inode at the path (`LocksOK`), an owner's heartbeat
  is out (`ShownOK`), and a newcomer that judges it finds its owner alive
  (`NewcomersOK`). `OneLineage`, one binary digest, is what the last of these needs:
  an owner of another digest is not recognised, and is evicted.
* `RuntimeEffects`. `TypeInv` is `TypeOK` and `TickOK` for every tick.
  `BookInv` is the order of the writes: a reservation comes before its job and
  the job before the dispatch, a row that is over has been dispatched unless it
  was aborted (`Backed`), and a reservation that is over has its commit, or a
  thread about to write it (`AllBooked`). The last needs `MaxCrashes = 0`: the code
  writes the reservation's status and the commit one after the other, and a
  crash between them leaves a reservation that holds nothing and no commit.
  `AttemptInv` carries the retry bound. `attempt` is raised by the claim, before
  the dispatch, and every other statement copies it, so while one worker holds
  the run every row counts its dispatches exactly and so does the worker's copy
  (`Exact`). A cancellation breaks this, since the canceller writes rows of jobs
  the worker is executing. What survives is `Left`: at the beginning of a tick
  each row is over or exact, and from the claim on the effect has a dispatch
  left in its policy. `Alone` says who may be inside a tick: the holder of the
  run's lease, and besides it the canceller of a cancelled run, which claims and
  dispatches nothing. The assumption `MaxSteals = 0` is needed:
  section 4 has the behaviour that breaks the bound without it.
  `LedgerInv` is for `BooksHold`. `ThereInv` says that the rows a tick has passed
  are there, and that a reservation which still counts has no commit. `LimitInv`
  gives each effect a charge, at most its estimate (`ChargeOf`); the charges fit
  the limit, and what was spent beyond is `Overrun`. Admission and reservation
  are two transactions, and the ledger is read in the first: `Ahead` and `Room`
  say that nothing beyond the cursor is reserved and that in between charges only
  go down, so the room found is still there. An interrupted reservation is found
  again at the cursor's place, for which there was room. `OverInv` follows a
  job's outcome from its row into the settlement and to the cursor. The sums are
  brought to additions of one element by a least counterexample on subsets.
  Under a second holder of the run (`MaxSteals = 1`) TLC finds a completed job
  whose outcome the other worker overwrote, and a cursor beyond it: the
  hypothesis is needed here too.
* `GepaRun`. `GInv` is about the three things the next tick reads: cursor, jobs and
  frames. `Stands` lists the combinations of phase, stage of the active evaluation
  and run machine a saved cursor may have; `MachineFollowsPhase` is a consequence,
  and is not inductive without the stage. `CandOK` says that a candidate marked as
  scored on heldout rows has a frame for each of them, `EvalOK` the same of the
  rows an active evaluation counts as scored, and `BestOK` that whoever is best,
  selected or to be deployed is registered, so that `CompletedHasHeldout` can be
  read off the candidate table at the end. `PendingOK` ties the pending job to the
  active stage. A handler is a sequence of writes, and a tick may die behind any of
  them: `Sound` asks of each saved cursor to be a good one whose pending job was
  planned before it (`Follows`), and `WrittenHolds` turns this once and for all
  into `GInv'` for the whole tick and for each of its prefixes. What is left is one
  lemma per handler, over lemmas for the loops it is made of. A loop is a function
  of how far it has come (`Fold`, `Keep`), and a least counterexample on the
  turns replaces the induction. The proof found the exception of
  `MachineFollowsPhase`: under a budget with no slack, a tick that dies after it
  reserved the seed's last batch leaves a reservation nobody will use, the redone
  tick defers the seed for want of budget, and without a best candidate
  `advance_heldout` goes straight from a Ready machine to `Finalizing`, where the
  run fails. TLC has the trace with two train rows, `MaxRollouts = TrainLimit = 2`
  and `Chunk = 1`; the budgets of `gepa_phases` do not reach it.

  `Lead` is what makes `BestLeadsOnTrain` inductive: whoever is selectable is the
  best, or both have a frame for every train row and the best has the higher
  total. A candidate's rows are complete before it is marked as trained, so a frame
  added later is never one of a candidate that has been compared: `Untrained` says
  of the candidates under full-train evaluation that they are not marked yet, and
  `FrameAdded` draws the conclusion (`LeadStays`). The acceptance loop compares with
  the best of the moment, hence with all it leads (`LeadAccepted`), and the scan of
  `select_best_train_candidate` ends with a total that nobody it saw beats
  (`TrainScanLeads`). That totals are numbers (`SumParts`) is once more a least
  counterexample, on the subsets of the rows; since the property compares means,
  it follows with equal numbers of rows on both sides (`ProductGrows`).
* `RunStorage`. `StorageInv` ties the worker's counts to the files: lines are
  numbered by their place and the worker knows how many there are (`MainInv`), the
  other feed follows with as many gaps as there were faults (`CanonInv`), a reader
  has had a beginning of its feed (`ReaderInv`), nobody who rewrites old
  checkpoints touches the latest (`SavesInv`), an answer on its way into the cache
  is not there yet (`PaidInv`), what a recommended compaction has passed is gone
  (`WantedInv`), and the cached walk lags by no more than what nobody told it
  (`BudgetInv`). The refinement is proved step by step: the initial states map to
  initial ones, every action to `EventFeed`'s append, read or end, or to a stutter.
* `Mapo`. `PlaceInv` says what is in memory at each place of the run; `DiskInv`
  follows what is still owed to the directory and what each file says, the
  status coming last (`Owed`, `Says`, `StatusLast`). `FairInv` has the lists the
  search works through, the size of the registry (`Room`), the seeds seen so far
  (`SeenInv`) and the names of the groups paid (`UniqueInv`): no name comes twice,
  because generation, split and place are in it, and the cases of one group are
  told apart by quotient and remainder. `ChampionInv` is about the race: without a
  selection split the champion leads all that was registered so far (`TrainLed`),
  the best of a selection under way leads those who met the message floor
  (`BestLeads`), and the incumbent is on the list that is being compared or still
  among those to compare (`PlaceOfChampion`, `Here`). Each step needs that
  `mapo_score_better` is a strict weak order on the scores a group can have, hence
  that a sum over records is a number: `SumsExist` shows that the sums of
  `FromRollouts` are defined at every size, by the least size at which they would
  not be. That the incumbent survives the cut to `topK` is about a sort, so `Mapo`
  states it as what `sort_by` returns, a stable arrangement (`Stable`,
  `Arranged`): the place of an entry is the number of those before it, and
  `ArrangedHolds` shows that this numbers the entries of any finite list, for
  every strict total order.
* `CodexProposer`. `PlaceInv` and `ServerInv` tie the place of a call to what it is:
  which substrate, which session, whether a server or its watchdog may still be
  there. The messages of a turn are one stream in four parts, deferred, put back,
  in the channel and to be sent (`Stream`): all of one turn, with the message that
  ends it last. Between turns there are none (`Quiet`), in a kept session as well,
  because a failing nano call either drops its session or waits for the interrupt;
  hence the end that a wait accepts is its own (`FlowInv`), and a wait that stalls
  has read all there was. `DiskInv` and `HomeInv` follow the manifest and the login
  through the copies of a staged workspace and a staged home, and `LeftInv` what
  a failing call has still to take away. What a proposer is shown needs
  `HeldoutApart`: the rows of a candidate are filtered by split and stage, not by
  task, so the wall stands because `validate_gepa_task_pools_config`
  (`config.rs:2508`) refuses a heldout task that is also in a training pool.
* `MarlPromptopt`. A call of `evaluate_candidate` belongs to one place of the run
  and rolls out rows of one split (`EvalInv`), so every rollout requested was of a
  task of its stage's split (`CallsInv`); a run that has left the checks has passed
  them (`StartInv`), so the splits are apart. The ordinal in a rollout id is the
  budget used before it: all ordinals given out are below what is used, and those
  of the next row are not, hence no id comes twice although the audit repeats
  candidate, stage and task. `PairInv` walks both sides of the heldout comparison
  down the same cyclic list: a seed turn begins only when both halves are
  affordable, so what is used is odd between the halves of a pair, and the
  champion's half cannot be left out. `BatchInv` says that a row has every arm of
  its task, or the rest of the train budget was too small for it, and `CauseInv`
  keeps what each cause of a failure says of the configuration. The proof found
  that `ScoreFailsOnlyWhenCut` had to leave out a train budget of zero, which no
  check before the first rollout refuses: the seed's batch is then empty and
  cannot be scored, though no arms were cut.

  `LeadInv` is about the champion. Every registered candidate has a score of the
  strategy's width whose first `TotalKeys` keys are integers, because a batch that
  can be scored has finitely many arms and answers in `Responses`, and sums and
  quotients of integers are integers (`SumIsInteger`, `MeanIsInteger`); a proposal
  has no selection score before its minibatch. Being `Ahead` on those keys is then a
  strict weak order (`AheadIsWeak`), and every strategy's `compare` agrees with it,
  whatever the keys after them say (`AheadDecides`, `AheadIsGreater`). So the fold of
  `best_candidate_index` keeps a candidate that nobody before it is ahead of, even
  where the whole order is not transitive (`BestLeads`), and after the choice the
  registry does not change. A metric that is not reported is `NoMetric`, which is no
  integer and so equal to no mean.

The strengthenings were checked with TLC before they were proved. Where a
property is about a sequence of any length (a feed, a list of cases), the proof
takes a least counterexample, from the well-foundedness of `<` on `Nat`.

Only model-checked:

* all liveness, fairness being out of reach of the prover, and with it
  `AcquireEnds`;
* of `GepaRun`: `AsksAreGranted`, whose budget needs the number of frames of each
  stage related to what every candidate of a group still asks for, and whose log
  needs the state logged for every candidate in every phase, without a crash;
* everything about `PipelineLanes` and `RunTables`: a saved cursor there has any
  number of suspended partials, or is one of a script of writes.

## 6. Plan and what is not modelled

Done, in this order: the request store and the service; ownership; jobs, ledger
and effects; transition log, phases and lanes; MARL and MAPO; agents; storage with
the abstract `EventFeed`; the run's tables. What is left, most useful first:

1. Theorems: `LanesSound` of `PipelineLanes` from the handler lemmas of
   `GepaRunProofs`; `AsksAreGranted` of `GepaRun`.
2. `RlQueues`: the four bounded queues of `rl/queues.py` with the leases, the
   dequeue gate, lifecycle controls and restart from the journal of `rl/store.py`.
3. `TrainingJobs`: `runtime/jobs.py`, `operations.py` and `worker.py`: an unknown
   provider outcome is never replayed.
4. `TrialSemaphore` (`eval/semaphore.py`) and `PolicyCatalog` (`rl/catalog.py`,
   `policy_sets.py`).
5. The limit engine and the stopper as operators against reference definitions.

Not modelled, and why: the Python package (points 2 to 4 are planned; the clients,
boards, contracts and provider adapters are I/O and validation); the kernels of
the RL algorithms (floating point); parsing and validation of configuration
beyond what the runs of MAPO and MARL check; spawning of process groups (system
calls, seen in `AgentTurn` as children that live or are killed); rendering of
events and metrics; the Python bindings (conversion of arguments). `PROJECT.json`
has the status part by part.
