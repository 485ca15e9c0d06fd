--------------------------- MODULE CodexProposer ---------------------------
(***************************************************************************)
(* The proposer of a GEPA run: it materialises a workspace that holds the  *)
(* evidence of the rollouts and an empty manifest, has an agent (or, for   *)
(* the chat backend, one completion request) fill the manifest in, and     *)
(* reads it back.  The retry policy of a proposer allows one attempt, but a *)
(* run that is resumed or started again repeats a failed one in the same   *)
(* workspace directory.  The staleness reviewer is the same exchange over  *)
(* review/verdict.json, whose template is already an "accept" verdict.     *)
(***************************************************************************)
EXTENDS AgentTurn

CONSTANTS
    MaxAttempts,  \* bound on the attempts made in one workspace directory
    Inputs        \* the evidence a proposer may be started with

ASSUME CodexProposerAssumption ==
    /\ MaxAttempts \in Nat \ {0}
    /\ \A i \in Inputs : /\ DOMAIN i = {"pool", "frames", "train", "mini", "parent"}
                         /\ DOMAIN i.mini = DOMAIN i.train
    /\ \E i \in Inputs : i.frames # {}

\* The configuration is refused unless the heldout tasks are apart from those a
\* search draws from, so a heldout task is seen in heldout frames only.
ASSUME HeldoutApart ==
    \A i \in Inputs : \A g \in i.frames : g.split = "heldout" =>
        /\ \A f \in i.frames : f.task = g.task => "heldout" \in {f.split, f.stage}
        /\ \A c \in DOMAIN i.train : \A s \in i.train[c] \cup i.mini[c] : s.task # g.task

VARIABLES
    ask,       \* "proposal", "review" or "command"
    attempt,
    posts,     \* chat completion requests of this attempt that failed
    accepted,  \* the turn that wrote the accepted manifest, or NoManifest
    tainted,   \* .agent_artifacts holds a blocked term
    input,     \* the evidence at hand
    shown      \* the rows the workspace files show

proposerVars == <<ask, attempt, posts, accepted, tainted, input, shown>>
vars == <<turnVars, proposerVars>>

NoManifest == -1

-----------------------------------------------------------------------------
(* The evidence.  A frame is a rollout [cand, stage, split, task, win]; the  *)
(* train and minibatch scores of a candidate are sets of [task, win].        *)

VisibleStages == {"seed_full_train", "candidate_minibatch", "parent_minibatch_reference",
                  "reflection"}

proposer_visible_task(i, task) == i.pool = {} \/ task \in i.pool

proposer_visible_frame(i, f) ==
    /\ f.stage # "heldout" /\ f.split # "heldout"
    /\ f.stage \in VisibleStages
    /\ proposer_visible_task(i, f.task)

VisibleFrames(i, c) == {f \in i.frames : f.cand = c /\ proposer_visible_frame(i, f)}

\* Scores stand in for a candidate none of whose frames is visible.
proposer_score_only_rows(i, c) ==
    LET full == i.train[c] # {}
    IN  {[cand |-> c, stage |-> IF full THEN "train_score" ELSE "minibatch_score",
          task |-> s.task, win |-> s.win] :
            s \in {x \in IF full THEN i.train[c] ELSE i.mini[c] : proposer_visible_task(i, x.task)}}

proposer_example_rows(i, c) ==
    {[cand |-> c, stage |-> f.stage, task |-> f.task, win |-> f.win] : f \in VisibleFrames(i, c)}

\* rollouts_read_model and the example rows of every file but the frames.
proposer_examples_read_model(i) ==
    UNION {IF VisibleFrames(i, c) = {} THEN proposer_score_only_rows(i, c)
                                       ELSE proposer_example_rows(i, c) : c \in DOMAIN i.train}

\* The summaries regroup those rows (truncated to 80, 40, 24 or 20 of them,
\* more than an instance has).
proposer_failure_summary(rows) ==
    [losses |-> {r \in rows : ~r.win}, wins |-> {r \in rows : r.win}]
proposer_repair_hints(i, rows) ==
    [losses |-> {r \in rows : r.cand = i.parent /\ ~r.win},
     wins   |-> {r \in rows : r.cand = i.parent /\ r.win}]
reflective_frames_read_model(i) ==
    UNION {proposer_example_rows(i, c) : c \in DOMAIN i.train}

WorkspaceRows(i) ==
    LET rows == proposer_examples_read_model(i)
    IN  (UNION {v.losses \cup v.wins : v \in {proposer_failure_summary(rows),
                                              proposer_repair_hints(i, rows)}})
        \cup reflective_frames_read_model(i)

-----------------------------------------------------------------------------
\* Bound: the evidence varies under the chat backend, whose calls are short;
\* how it is shown does not depend on the backend.  Reviews run on this host.
Init ==
    /\ job \in Jobs
    /\ input \in IF job.call = "chat" THEN Inputs ELSE {CHOOSE i \in Inputs : i.frames # {}}
    /\ ask \in CASE job.call = "turn" -> IF job.sub = "local" THEN {"proposal", "review"}
                                       ELSE {"proposal"}
                 [] job.call = "exec" -> {"command"}
                 [] OTHER             -> {"proposal"}
    /\ pc = "idle" /\ result = "none"
    /\ client = NoClient /\ session = NoSession /\ srv = NoServer /\ chan = <<>> /\ wd = NoWatch
    /\ home = [source |-> 0, staged |-> Missing, latest |-> 0]
    /\ disk = [orig |-> 0, staged |-> 0, remote |-> 0, latest |-> 0]
    /\ left = [staging |-> FALSE, sandbox |-> FALSE, warned |-> FALSE, orphan |-> FALSE]
    /\ turns = 0 /\ own = 0 /\ got = 0 /\ seen = {} /\ faults = 0
    /\ attempt = 0 /\ posts = 0 /\ accepted = NoManifest /\ tainted = FALSE /\ shown = {}

Entry == CASE job.call = "nano" -> "pool" [] job.call = "chat" -> "chat"
           [] Staged -> "stage" [] OTHER -> "prepare"

\* A call starts: with its own client, server and watchdog unless it goes to
\* the pool, and nothing yet known of its turn.
BeginCall ==
    /\ own' = 0 /\ got' = 0 /\ seen' = {} /\ posts' = 0 /\ wd' = NoWatch
    /\ left' = [left EXCEPT !.warned = FALSE, !.sandbox = FALSE, !.orphan = FALSE]
    /\ attempt' = attempt + 1
    /\ IF OneShot THEN client' = NoClient /\ srv' = NoServer /\ chan' = <<>>
                  ELSE UNCHANGED <<client, srv, chan>>
    /\ UNCHANGED <<job, session, home, turns, faults, ask, accepted, tainted, input>>

\* The scan of the workspace for blocked terms.
assert_proposer_workspace_no_leaks == ~tainted

\* The template replaces what an earlier attempt wrote; the scan for blocked
\* terms also meets the artifacts that attempt left.
\* Mutant: the manifest of an earlier attempt is left in place.
MaterializeKeepsManifest ==
    /\ pc = "idle" /\ ask = "proposal"
    /\ disk' = [disk EXCEPT !.latest = 0]
    /\ shown' = WorkspaceRows(input)
    /\ IF assert_proposer_workspace_no_leaks THEN result' = "none" /\ pc' = Entry
                                          ELSE result' = "leak" /\ pc' = "returned"
    /\ BeginCall

materialize_workspace ==
    /\ pc = "idle" /\ ask = "proposal"
    /\ disk' = [disk EXCEPT !.orig = 0, !.latest = 0]
    /\ shown' = WorkspaceRows(input)
    /\ IF assert_proposer_workspace_no_leaks THEN result' = "none" /\ pc' = Entry
                                          ELSE result' = "leak" /\ pc' = "returned"
    /\ BeginCall

materialize_staleness_review_workspace ==
    /\ pc = "idle" /\ ask = "review"
    /\ disk' = [disk EXCEPT !.orig = 0, !.latest = 0]
    /\ result' = "none" /\ pc' = Entry
    /\ BeginCall /\ UNCHANGED shown

run_command_exec ==
    /\ pc = "idle" /\ ask = "command"
    /\ result' = "none" /\ pc' = Entry
    /\ BeginCall /\ UNCHANGED <<disk, shown>>

\* A completion request with its own retries failed, or its answer holds no
\* manifest: the chat backend asks three times.
post_deepseek_chat_completion_fails ==
    /\ Fault /\ posts' = posts + 1
    /\ IF posts' < 3 THEN UNCHANGED <<pc, result>> ELSE pc' = "returned" /\ result' = "http"
    /\ UNCHANGED <<turns, own, got, seen, disk>>

\* It needs an API key first, and writes the manifest itself.
run_deepseek_chat_proposer ==
    /\ pc = "chat"
    /\ \/ \E t \in {turns + 1} :
            /\ turns' = t /\ own' = t /\ got' = t /\ seen' = seen \cup {t}
            /\ disk' = [disk EXCEPT !.orig = t, !.latest = t]
            /\ result' = "ok" /\ pc' = "returned" /\ UNCHANGED <<posts, faults>>
       \/ post_deepseek_chat_completion_fails
       \/ /\ Fault /\ posts = 0 /\ pc' = "returned" /\ result' = "setup"
          /\ UNCHANGED <<posts, turns, own, got, seen, disk>>
    /\ UNCHANGED <<job, client, session, srv, chan, wd, home, left, ask, attempt, accepted,
                   tainted, input, shown>>

-----------------------------------------------------------------------------
\* The failure is final for the effect; the run may be taken up again.
Retry == pc' = "done" \/ (attempt < MaxAttempts /\ pc' = "idle")

TurnUnchanged ==
    UNCHANGED <<job, client, session, srv, chan, wd, home, disk, left, turns, own, got, seen,
                ask, attempt, posts, input, shown>>

\* What the agent said is kept in the workspace, blocked terms included.
write_agent_artifacts == tainted' \in IF job.call = "chat" THEN {tainted} ELSE BOOLEAN

proposals_from_manifest ==
    IF disk.orig # 0 THEN accepted' = disk.orig /\ pc' = "done" /\ UNCHANGED result
                     ELSE result' = "no_proposals" /\ Retry /\ UNCHANGED accepted

\* Neither joining adjacent strings nor taking the last of several documents
\* makes the agent's manifest readable.
ManifestUnreadable ==
    disk.orig # 0 /\ Fault /\ result' = "bad_manifest" /\ Retry /\ UNCHANGED accepted

\* The manifest is read back after the artifacts of the turn are written: the
\* template has no proposals and is refused, the verdict template is not.
build_response_from_outcome ==
    /\ pc = "returned" /\ result = "ok" /\ ask = "proposal"
    /\ write_agent_artifacts
    /\ \/ proposals_from_manifest /\ UNCHANGED faults
       \/ ManifestUnreadable
    /\ TurnUnchanged

\* Neither accept nor discard, or a patch without its payload.
VerdictRefused ==
    disk.orig # 0 /\ Fault /\ result' = "bad_verdict" /\ Retry /\ UNCHANGED accepted

build_staleness_review_response ==
    /\ pc = "returned" /\ result = "ok" /\ ask = "review"
    /\ \/ accepted' = disk.orig /\ pc' = "done" /\ UNCHANGED <<result, faults>>
       \/ VerdictRefused
    /\ TurnUnchanged /\ UNCHANGED tainted

CallEnds ==
    /\ pc = "returned" /\ (result # "ok" \/ ask = "command")
    /\ IF result = "ok" THEN pc' = "done" ELSE Retry
    /\ TurnUnchanged /\ UNCHANGED <<result, accepted, tainted, faults>>

ProposerStep ==
    \/ materialize_workspace \/ materialize_staleness_review_workspace \/ run_command_exec
    \/ run_deepseek_chat_proposer
    \/ build_response_from_outcome \/ build_staleness_review_response \/ CallEnds

Next == \/ TurnStep /\ UNCHANGED proposerVars
        \/ ProposerStep

Spec == Init /\ [][Next]_vars

\* The calling thread and the watchdog run on; a read gives up on a silent
\* server, and the deadline of a watchdog passes in the end.
FairSpec ==
    /\ Spec
    /\ WF_vars((CallerStep /\ UNCHANGED proposerVars) \/ ProposerStep)
    /\ WF_vars(WatchdogStep /\ UNCHANGED proposerVars)
    /\ WF_vars(srv.proc = "wedged" /\ DeadlinePasses /\ UNCHANGED proposerVars)

-----------------------------------------------------------------------------
(* Properties *)

TypeOK ==
    /\ job \in Jobs /\ input \in Inputs
    /\ ask \in {"proposal", "review", "command"}
    /\ client.next \in Nat \ {0} /\ client.turn \in 0..turns
    /\ \A m \in {chan[k] : k \in DOMAIN chan} : m \in Message
    /\ srv.proc \in {"none", "up", "wedged", "dead"}
    /\ session \in 0..MaxTurnsPerSession \cup {NoSession}
    /\ wd.at \in {"gone", "asleep", "marking", "killing"}
    /\ home.source \in 0..turns
    /\ disk.orig \in 0..turns /\ accepted \in 0..turns \cup {NoManifest}
    /\ attempt \in 0..MaxAttempts /\ faults \in 0..MaxFaults

\* The terminal message a turn ends with belongs to the turn the server
\* started for this call, and the wait for a turn on this host gives up on a
\* silent server only when no terminal message of the turn has been sent:
\* the ones that came before the turn's id was known were put back.
OutcomeIsItsOwn ==
    [][/\ got' # 0 => got' = own'
       /\ (pc = "turn_wait" /\ result' = "stalled" /\ ~Remote) => own \notin seen]_vars

\* The manifest a proposal is taken from was written by the turn of the
\* attempt that returns it, never by an earlier attempt in the same
\* workspace; a staleness verdict is that turn's or the untouched template.
AcceptedIsFresh ==
    accepted # NoManifest =>
        /\ accepted \in IF ask = "review" THEN {0, own} ELSE {own}
        /\ accepted = disk.latest
        /\ result = "ok"

\* When a one-shot call that got a client returns, its server is dead (or
\* its sandbox is kept or could not be deleted), the watchdog is gone, and
\* after a success nothing staged is left that no warning tells of.
EndsClean ==
    (pc = "returned" /\ job.call \in {"turn", "exec"} /\ client.next > 1) =>
        /\ wd.at = "gone"
        /\ ~Alive \/ (Remote /\ (job.keep \/ left.warned))
        /\ result = "ok" =>
             /\ ~left.staging
             /\ left.sandbox => job.keep \/ left.warned
             /\ home.staged = Missing \/ left.warned

\* After a successful turn on a ChatGPT login the source home holds the last
\* token the server left.
AuthKept ==
    (pc = "returned" /\ result = "ok" /\ job.auth = "chatgpt" /\ job.call \in {"turn", "exec"}) =>
        home.source = home.latest

\* A call leaves nothing running and nothing staged behind, and does not
\* throw a rotated refresh token away with the staged home.
CallLeavesNothing == TypeOK /\ EndsClean /\ AuthKept

\* A proposer sees only rollouts of the tasks it may reflect on, and none
\* that the heldout comparison will use.
WorkspaceWall ==
    \A r \in shown : /\ r.stage # "heldout"
                     /\ r.task \notin {f.task : f \in {g \in input.frames : g.split = "heldout"}}
                     /\ input.pool # {} => r.task \in input.pool

\* What goes into a proposer's workspace and what is taken out of it.
WorkspaceSound == AcceptedIsFresh /\ WorkspaceWall

\* Every call outside the nano pool comes to an end: a server that stops
\* reading is killed at the hard deadline.
AttemptEnds == job.call # "nano" ~> pc = "done"
=============================================================================
