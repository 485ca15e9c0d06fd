----------------------------- MODULE AgentTurn -----------------------------
(***************************************************************************)
(* One turn of a proposer agent: the Codex app-server process, the         *)
(* JSON-RPC client that drives it, the watchdog that bounds a one-shot     *)
(* turn, the pool of long-lived nano-Codex sessions, and the substrate the *)
(* process runs on (the host, a Docker container over a staged copy of the *)
(* workspace, a Daytona sandbox).  The app server, Docker and Daytona are  *)
(* external: a server answers each request, reports a turn in order, and   *)
(* may at any time stall, die, print garbage or stop reading its input.    *)
(*                                                                         *)
(* Time is a choice: a read may stall whenever nothing is there to be      *)
(* read, the window of a wait may end at any read, and the hard deadline   *)
(* may pass at any time.  File contents are numbers: a workspace holds the *)
(* manifest written by turn n (0: the empty template), a Codex home holds  *)
(* the auth.json of its n-th refresh.                                      *)
(***************************************************************************)
EXTENDS Integers, Sequences, FiniteSets

CONSTANTS
    Jobs,               \* [call, sub, mode, auth, keep, back] the caller may be configured with
    MaxTurnsPerSession, \* proposer.nano_codex.max_turns_per_session
    MaxFaults           \* bound on injected faults

ASSUME AgentTurnAssumption ==
    /\ \A j \in Jobs : /\ j.call \in {"turn", "exec", "nano", "chat"}
                       /\ j.sub \in {"local", "docker", "daytona"}
                       /\ j.mode \in {"stdio", "websocket"}
                       /\ j.auth \in {"chatgpt", "api_key"}
                       /\ j.keep \in BOOLEAN /\ j.back \in BOOLEAN
                       /\ j.call \in {"nano", "chat"} => j.sub = "local"
                       /\ j.call = "exec" => j.sub # "docker"
    /\ MaxTurnsPerSession \in Nat \ {0}
    /\ MaxFaults \in Nat

VARIABLES
    job,     \* the proposer configuration and the call made
    pc,      \* where the calling thread is
    result,  \* what the call returns so far: "none", "ok" or the error
    client,  \* CodexAppServerClient: [next, buffer, deferred, wait, turn]
    session, \* the pooled nano session's turn_count, or NoSession
    srv,     \* the app server: [proc, resp, notes]
    chan,    \* messages on their way from the server to the reader
    wd,      \* the watchdog thread: [at, done, killed]
    home,    \* auth.json: [source, staged, latest]
    disk,    \* the manifest: [orig, staged, remote, latest]
    left,    \* what exists outside the workspace: [staging, sandbox, warned, orphan]
    turns,   \* turns the server has started
    own,     \* the turn the server started for this call (0: none)
    got,     \* the turn whose terminal message the call accepted (0: none)
    seen,    \* turns whose terminal message the server has sent
    faults

turnVars == <<job, pc, result, client, session, srv, chan, wd, home, disk, left, turns, own,
              got, seen, faults>>

NoSession == -1
Missing   == -1      \* no such file
Invalid   == -2      \* an auth.json without a token bundle

NoClient == [next |-> 1, buffer |-> <<>>, deferred |-> <<>>, wait |-> 0, turn |-> 0]
NoServer == [proc |-> "none", resp |-> <<>>, notes |-> <<>>]
NoWatch  == [at |-> "gone", done |-> FALSE, killed |-> FALSE]

Message == [type : {"response", "error", "started", "item", "completed", "failed",
                    "interrupted", "garbage"}, id : Nat, turn : Nat]
Msg(type, id, turn) == [type |-> type, id |-> id, turn |-> turn]

Remote  == job.sub = "daytona"
Staged  == job.sub # "local"
OneShot == job.call # "nano"
Alive   == srv.proc \in {"up", "wedged"}
Fault   == faults < MaxFaults /\ faults' = faults + 1

-----------------------------------------------------------------------------
(* The app server (external).  Responses leave in the order of the requests, *)
(* the notifications of a turn in the order of the turn; the two interleave  *)
(* freely.  While it works the agent writes the manifest and Codex may       *)
(* refresh its auth.json.                                                    *)

Emit(m) == chan' = Append(chan, m)

ServerResponds ==
    /\ srv.proc = "up" /\ srv.resp # <<>>
    /\ Emit(Head(srv.resp))
    /\ srv' = [srv EXCEPT !.resp = Tail(@)]
    /\ UNCHANGED <<job, pc, result, client, session, wd, home, disk, left, turns, own, got, seen,
                   faults>>

\* The files are those the server sees: in the sandbox, in the staged copy or in place.
AgentWrites(n) ==
    disk' = [disk EXCEPT !.orig   = IF ~Staged THEN n ELSE @,
                         !.staged = IF Staged /\ ~Remote THEN n ELSE @,
                         !.remote = IF Remote THEN n ELSE @,
                         !.latest = n]

\* An auth.json without its token bundle counts as a fault.
CodexRefreshes ==
    \/ UNCHANGED <<home, faults>>
    \/ /\ job.auth = "chatgpt"
       /\ \/ home' = [home EXCEPT !.staged = turns, !.latest = turns] /\ UNCHANGED faults
          \/ home' = [home EXCEPT !.staged = Invalid, !.latest = Invalid] /\ Fault

ServerReports ==
    /\ srv.proc = "up" /\ srv.notes # <<>>
    /\ LET m == Head(srv.notes)
       IN  /\ Emit(m)
           /\ srv' = [srv EXCEPT !.notes = Tail(@)]
           /\ seen' = IF m.type \in {"completed", "failed"} THEN seen \cup {turns} ELSE seen
           /\ IF m.type = "item"
              THEN /\ disk' = disk \/ AgentWrites(turns)
                   /\ CodexRefreshes
              ELSE UNCHANGED <<disk, home, faults>>
    /\ UNCHANGED <<job, pc, result, client, session, wd, left, turns, own, got>>

ServerFails ==
    /\ Alive /\ Fault
    /\ \/ srv' = [NoServer EXCEPT !.proc = "dead"] /\ UNCHANGED chan
       \/ srv' = [srv EXCEPT !.proc = "wedged"] /\ UNCHANGED chan
       \/ srv.proc = "up" /\ ~Remote /\ UNCHANGED srv /\ Emit(Msg("garbage", 0, 0))
    /\ UNCHANGED <<job, pc, result, client, session, wd, home, disk, left, turns, own, got, seen>>

-----------------------------------------------------------------------------
(* Where a failed step leads.  A one-shot call terminates its client; the    *)
(* pool drops the session, after an interrupt when the turn was running, but *)
(* a session that failed to start has no owner yet that would stop it.       *)

Starting == {"initialize", "initialize_wait", "thread", "thread_wait"}

\* Mutant: an early return skips the termination of a local client.
FailureSkipsTerminate ==
    IF OneShot THEN IF Remote THEN "close" ELSE "join"
    ELSE CASE pc \in Starting  -> "orphan"
           [] pc = "turn_wait" -> "interrupt"
           [] OTHER            -> "drop"

AfterFailure ==
    IF OneShot THEN IF Remote THEN "close" ELSE "terminate"
    ELSE CASE pc \in Starting  -> "orphan"
           [] pc = "turn_wait" -> "interrupt"
           [] OTHER            -> "drop"

Fail(e) == result' = e /\ pc' = AfterFailure
Keep    == UNCHANGED <<job, session, wd, home, disk, left, turns, own, got, seen>>

-----------------------------------------------------------------------------
(* Sending.  A write to a server that has died fails, one to a server that   *)
(* no longer reads blocks; Daytona's input endpoint takes it either way.     *)

Requests == [initialize |-> "initialize_wait", thread |-> "thread_wait",
             turn |-> "started_wait", exec |-> "exec_wait", interrupt |-> "interrupt_wait"]

\* What a request makes the server say: one response, or an error; and for a
\* turn its notifications, which may or may not name the turn.
Answer(id) ==
    IF pc # "turn"
    THEN /\ \/ srv' = [srv EXCEPT !.resp = Append(@, Msg("response", id, 0))]
            \/ srv' = [srv EXCEPT !.resp = Append(@, Msg("error", id, 0))]
         /\ UNCHANGED <<turns, own>>
    ELSE \/ /\ srv' = [srv EXCEPT !.resp = Append(@, Msg("error", id, 0))]
            /\ UNCHANGED <<turns, own>>
         \/ LET t == turns + 1
            IN  \E fin \in {"completed", "failed"}, named \in {0, t} :
                  /\ turns' = t /\ own' = t
                  /\ srv' = [srv EXCEPT !.resp  = Append(@, Msg("response", id, t)),
                                        !.notes = <<Msg("started", 0, named), Msg("item", 0, named),
                                                    Msg(fin, 0, named)>>]

SendRequest ==
    /\ pc \in DOMAIN Requests
    /\ IF srv.proc = "dead"
       THEN /\ IF pc = "interrupt" THEN pc' = "drop" /\ UNCHANGED result ELSE Fail("io")
            /\ UNCHANGED <<client, srv, turns, own>>
       ELSE /\ srv.proc = "up" \/ Remote
            /\ client' = [client EXCEPT !.next = @ + 1, !.wait = client.next]
            /\ IF srv.proc = "up" THEN Answer(client.next) ELSE UNCHANGED <<srv, turns, own>>
            /\ pc' = Requests[pc] /\ UNCHANGED result
    /\ UNCHANGED <<job, session, chan, wd, home, disk, left, got, seen, faults>>

-----------------------------------------------------------------------------
(* Reading: read_next takes a restored message first, then the channel.      *)

Available == client.buffer # <<>> \/ chan # <<>>
NextMsg   == IF client.buffer # <<>> THEN Head(client.buffer) ELSE Head(chan)

Rest      == IF client.buffer # <<>> THEN Tail(client.buffer) ELSE <<>>
TakeMsg   == chan' = IF client.buffer # <<>> THEN chan ELSE Tail(chan)

\* Mutant: the messages read while waiting for something else are dropped.
RestoreForgets(rest) == rest
restore_deferred(rest) == client.deferred \o rest

Accept(turn) ==
    /\ TakeMsg
    /\ client' = [client EXCEPT !.buffer = restore_deferred(Rest), !.deferred = <<>>, !.turn = turn]
Defer ==
    /\ TakeMsg
    /\ client' = [client EXCEPT !.buffer = Rest, !.deferred = Append(@, NextMsg)]

Answers(m) == m.type \in {"response", "error"} /\ m.id = client.wait
Reading    == {"initialize_wait", "thread_wait", "exec_wait", "interrupt_wait", "started_wait",
               "turn_wait"}

\* An error response or an unreadable line ends the wait, and the messages
\* it deferred go with it.
Bad(m) == m.type = "garbage" \/ (m.type = "error" /\ Answers(m) /\ pc # "turn_wait")

ReadError ==
    /\ pc \in Reading /\ Available /\ Bad(NextMsg)
    /\ TakeMsg /\ client' = [client EXCEPT !.buffer = Rest, !.deferred = <<>>]
    /\ IF pc = "interrupt_wait" THEN pc' = "drop" /\ UNCHANGED result
       ELSE Fail(IF NextMsg.type = "garbage" THEN "garbage" ELSE "refused")
    /\ Keep /\ UNCHANGED <<srv, faults>>

AfterCommand == IF Remote THEN "auth_sync" ELSE "persist"

AfterResponse ==
    CASE pc = "initialize_wait" -> IF job.call = "exec" THEN "exec" ELSE "thread"
      [] pc = "thread_wait"     -> "turn"
      [] pc = "interrupt_wait"  -> "drop"
      [] pc = "exec_wait"       -> AfterCommand

wait_for_response ==
    /\ pc \in {"initialize_wait", "thread_wait", "exec_wait", "interrupt_wait"}
    /\ Available /\ ~Bad(NextMsg)
    /\ IF Answers(NextMsg)
       THEN /\ Accept(client.turn)
            /\ pc' = AfterResponse
            /\ result' = IF pc = "exec_wait" THEN "ok" ELSE result
            \* The nano session exists once its thread does.
            /\ session' = IF pc = "thread_wait" /\ job.call = "nano" THEN 0 ELSE session
       ELSE Defer /\ UNCHANGED <<pc, result, session>>
    /\ UNCHANGED <<job, srv, wd, home, disk, left, turns, own, got, seen, faults>>

Starts(m) == Answers(m) \/ (m.type = "started" /\ m.turn # 0)

wait_for_turn_started ==
    /\ pc = "started_wait" /\ Available /\ ~Bad(NextMsg)
    /\ IF Starts(NextMsg) THEN Accept(NextMsg.turn) /\ pc' = "turn_wait"
                          ELSE Defer /\ UNCHANGED pc
    /\ UNCHANGED <<job, result, session, srv, wd, home, disk, left, turns, own, got, seen, faults>>

\* The local client takes a terminal message without a turn id for its own,
\* the Daytona client does not, and does not know "interrupted".
LocalTerminal(m) ==
    m.type \in {"completed", "failed", "interrupted"} /\ m.turn \in {0, client.turn}
DaytonaTerminal(m) ==
    m.type \in {"completed", "failed"} /\ m.turn = client.turn
Terminal(m) == IF Remote THEN DaytonaTerminal(m) ELSE LocalTerminal(m)

AfterTurn == CASE job.call = "nano" -> "record" [] Remote -> "auth_sync" [] OTHER -> "persist"

wait_for_turn ==
    /\ pc = "turn_wait" /\ Available /\ ~Bad(NextMsg)
    /\ TakeMsg /\ client' = [client EXCEPT !.buffer = Rest]
    /\ IF Terminal(NextMsg)
       THEN /\ got' = client.turn
            /\ IF NextMsg.type = "completed"
               THEN pc' = AfterTurn /\ result' = "ok"
               ELSE result' = "failed"
                    /\ pc' = (IF job.call = "nano" THEN "drop" ELSE AfterFailure)
       ELSE UNCHANGED <<got, pc, result>>
    /\ UNCHANGED <<job, session, srv, wd, home, disk, left, turns, own, seen, faults>>

\* recv_timeout ran out, or the server is gone and everything has been read.
Stall ==
    /\ pc \in Reading /\ ~Available
    /\ client' = [client EXCEPT !.deferred = <<>>]
    /\ IF pc = "interrupt_wait" THEN pc' = "drop" /\ UNCHANGED result
       ELSE Fail(IF srv.proc = "dead" THEN "closed" ELSE "stalled")
    /\ Keep /\ UNCHANGED <<srv, chan, faults>>

\* The overall window ends although messages keep coming.
WindowEnds ==
    /\ pc \in Reading \ {"interrupt_wait"} /\ Available /\ Fault
    /\ client' = [client EXCEPT !.deferred = <<>>]
    /\ Fail("timeout")
    /\ Keep /\ UNCHANGED <<srv, chan>>

\* Daytona's messages are framed out of the polled log of the command: a poll
\* may fail, or the command may be found to have exited.
PollFails ==
    /\ Remote /\ pc \in Reading /\ client.buffer = <<>> /\ Fault
    /\ client' = [client EXCEPT !.deferred = <<>>]
    /\ Fail("poll")
    /\ Keep /\ UNCHANGED <<srv, chan>>

-----------------------------------------------------------------------------
(* Launching the server. *)

\* The launch failed: what was staged is still synced and removed.
Abort(e) == result' = e /\ pc' = (IF Staged THEN "sync" ELSE "returned")

stage_workspace == [disk EXCEPT !.staged = disk.orig]

\* A copy that fails half-way leaves its directory behind.
Stage ==
    /\ pc = "stage"
    /\ \/ /\ left' = [left EXCEPT !.staging = TRUE]
          /\ disk' = stage_workspace
          /\ pc' = "prepare" /\ UNCHANGED <<result, faults>>
       \/ /\ Fault /\ \E b \in BOOLEAN : left' = [left EXCEPT !.staging = b]
          /\ result' = "setup" /\ pc' = "returned" /\ UNCHANGED disk
    /\ UNCHANGED <<job, client, session, srv, chan, wd, home, turns, own, got, seen>>

\* The staged Codex home is made afresh: a copy of the ChatGPT home, or a
\* home with the API key, which is never written back.
copy_codex_home            == [home EXCEPT !.staged = home.source, !.latest = home.source]
prepare_api_key_codex_home == [home EXCEPT !.staged = 0]

AfterPrepare == IF Remote THEN "provision" ELSE "spawn"

prepare_proposer_codex_launch ==
    /\ pc = "prepare"
    /\ \/ /\ home' = IF job.auth = "chatgpt" THEN copy_codex_home ELSE prepare_api_key_codex_home
          /\ pc' = AfterPrepare /\ UNCHANGED <<result, faults>>
       \/ Fault /\ Abort("setup") /\ UNCHANGED home
    /\ UNCHANGED <<job, client, session, srv, chan, wd, disk, left, turns, own, got, seen>>

Launched ==
    /\ srv' = [NoServer EXCEPT !.proc = "up"]
    /\ client' = NoClient /\ chan' = <<>>
    /\ wd' = IF OneShot /\ ~Remote THEN [NoWatch EXCEPT !.at = "asleep"] ELSE NoWatch
    /\ pc' = "initialize" /\ UNCHANGED result

\* A websocket server that never becomes ready is started and not stopped.
NeverReady == job.mode = "websocket"

start_process ==
    /\ pc = "spawn"
    /\ \/ Launched /\ UNCHANGED <<left, faults>>
       \/ /\ Fault /\ Abort("setup")
          /\ left' = [left EXCEPT !.orphan = NeverReady]
          /\ UNCHANGED <<srv, client, chan, wd>>
    /\ UNCHANGED <<job, session, home, disk, turns, own, got, seen>>

upload_workspace == [disk EXCEPT !.remote = disk.staged]

\* Whether a sandbox exists after a start that failed: the request may have
\* created it, and what comes before the turn does not delete it.
create_sandbox == BOOLEAN

Provision ==
    /\ pc = "provision"
    /\ \/ /\ left' = [left EXCEPT !.sandbox = TRUE]
          /\ disk' = upload_workspace
          /\ Launched /\ UNCHANGED faults
       \/ /\ Fault /\ Abort("setup")
          /\ \E b \in create_sandbox : left' = [left EXCEPT !.sandbox = b]
          /\ UNCHANGED <<srv, client, chan, wd, disk>>
    /\ UNCHANGED <<job, session, home, turns, own, got, seen>>

-----------------------------------------------------------------------------
(* The watchdog of a one-shot turn on this host: it sleeps until the hard    *)
(* deadline, looks at done once more, marks the turn and kills the server.   *)

DeadlinePasses ==
    /\ wd.at = "asleep" /\ ~wd.done /\ (srv.proc = "wedged" \/ faults < MaxFaults)
    /\ faults' = IF srv.proc = "wedged" THEN faults ELSE faults + 1
    /\ wd' = [wd EXCEPT !.at = "marking"]
    /\ UNCHANGED <<job, pc, result, client, session, srv, chan, home, disk, left, turns, own, got,
                   seen>>

\* Mutant: the watchdog marks the turn and does not kill its server.
WatchdogOnlyMarks ==
    /\ \/ wd.at = "asleep" /\ wd.done /\ wd' = [wd EXCEPT !.at = "gone"]
       \/ wd.at = "marking" /\ wd' = [wd EXCEPT !.at = "gone", !.killed = TRUE]
    /\ UNCHANGED <<job, pc, result, client, session, srv, chan, home, disk, left, turns, own, got,
                   seen, faults>>

WatchdogStep ==
    /\ \/ wd.at = "asleep" /\ wd.done /\ wd' = [wd EXCEPT !.at = "gone"] /\ UNCHANGED srv
       \/ wd.at = "marking" /\ wd' = [wd EXCEPT !.at = "killing", !.killed = TRUE]
          /\ UNCHANGED srv
       \/ /\ wd.at = "killing" /\ wd' = [wd EXCEPT !.at = "gone"]
          /\ srv' = IF Alive THEN [NoServer EXCEPT !.proc = "dead"] ELSE srv
    /\ UNCHANGED <<job, pc, result, client, session, chan, home, disk, left, turns, own, got, seen,
                   faults>>

-----------------------------------------------------------------------------
(* The end of a one-shot turn. *)

\* What persist_refreshed_chatgpt_codex_auth makes of the source home.
Persisted ==
    IF job.auth = "chatgpt" /\ home.staged \notin {Missing, Invalid} THEN home.staged
    ELSE home.source
Refused == job.auth = "chatgpt" /\ home.staged = Invalid

PersistTo(next) ==
    /\ \/ home' = [home EXCEPT !.source = Persisted] /\ UNCHANGED faults
          /\ result' = IF Refused THEN "persist" ELSE result
       \/ job.auth = "chatgpt" /\ Fault /\ result' = "persist" /\ UNCHANGED home
    /\ pc' = next
    /\ UNCHANGED <<job, client, session, srv, chan, wd, disk, left, turns, own, got, seen>>

persist_refreshed_auth_home == pc = "persist" /\ PersistTo("terminate")

\* Kill, wait, remove the staged home; a failure becomes a shutdown warning.
terminate ==
    /\ pc = "terminate"
    /\ srv' = [NoServer EXCEPT !.proc = "dead"]
    /\ \/ home' = [home EXCEPT !.staged = Missing] /\ UNCHANGED <<left, faults>>
       \/ Fault /\ left' = [left EXCEPT !.warned = TRUE] /\ UNCHANGED home
    /\ pc' = "join"
    /\ UNCHANGED <<job, result, client, session, chan, wd, disk, turns, own, got, seen>>

JoinWatchdog ==
    /\ \/ pc = "join" /\ wd' = [wd EXCEPT !.done = TRUE] /\ pc' = "joining" /\ UNCHANGED result
       \/ /\ pc = "joining" /\ wd.at = "gone" /\ UNCHANGED wd
          /\ result' = IF wd.killed THEN "killed" ELSE result
          /\ pc' = IF Staged THEN "sync" ELSE "returned"
    /\ UNCHANGED <<job, client, session, srv, chan, home, disk, left, turns, own, got, seen, faults>>

sync_refreshed_codex_auth == pc = "auth_sync" /\ PersistTo("output_sync")

sync_output_files ==
    /\ pc = "output_sync"
    /\ \/ disk' = [disk EXCEPT !.staged = disk.remote] /\ UNCHANGED <<result, faults>>
       \/ Fault /\ UNCHANGED disk /\ result' = IF result = "ok" THEN "sync" ELSE result
    /\ pc' = "close"
    /\ UNCHANGED <<job, client, session, srv, chan, wd, home, left, turns, own, got, seen>>

\* Unless it is kept, the sandbox is deleted; a failure becomes a shutdown warning.
CloseSandbox ==
    /\ pc = "close" /\ pc' = "sync"
    /\ \/ job.keep /\ UNCHANGED <<srv, left, faults>>
       \/ /\ ~job.keep /\ srv' = [NoServer EXCEPT !.proc = "dead"]
          /\ left' = [left EXCEPT !.sandbox = FALSE] /\ UNCHANGED faults
       \/ ~job.keep /\ Fault /\ left' = [left EXCEPT !.warned = TRUE] /\ UNCHANGED srv
    /\ UNCHANGED <<job, result, client, session, chan, wd, home, disk, turns, own, got, seen>>

\* Docker copies the staged workspace back whatever happened, Daytona when it
\* is told to or, the two output files only, when the turn succeeded.
DaytonaSyncsBack == job.back \/ result = "ok"
SyncsBack == Remote => DaytonaSyncsBack

sync_workspace_back ==
    /\ pc = "sync" /\ pc' = "cleanup"
    /\ \/ disk' = [disk EXCEPT !.orig = IF SyncsBack THEN disk.staged ELSE @]
          /\ UNCHANGED <<result, faults>>
       \/ SyncsBack /\ Fault /\ result' = "cleanup" /\ UNCHANGED disk
    /\ UNCHANGED <<job, client, session, srv, chan, wd, home, left, turns, own, got, seen>>

cleanup_staged_workspace ==
    /\ pc = "cleanup" /\ pc' = "returned"
    /\ \/ /\ left' = [left EXCEPT !.staging = FALSE]
          /\ home' = [home EXCEPT !.staged = Missing]
          /\ UNCHANGED <<result, faults>>
       \/ Fault /\ result' = "cleanup" /\ UNCHANGED <<left, home>>
    /\ UNCHANGED <<job, client, session, srv, chan, wd, disk, turns, own, got, seen>>

-----------------------------------------------------------------------------
(* The nano-Codex pool. *)

\* Drop of a session: persist and terminate, errors ignored.
DropSession ==
    /\ session' = NoSession
    /\ srv' = [NoServer EXCEPT !.proc = "dead"]
    /\ home' = [home EXCEPT !.source = Persisted, !.staged = Missing]

PoolRun ==
    /\ pc = "pool"
    /\ IF session # NoSession /\ session < MaxTurnsPerSession
       THEN pc' = "turn" /\ UNCHANGED <<session, srv, home>>
       ELSE /\ pc' = "prepare"
            /\ IF session = NoSession THEN UNCHANGED <<session, srv, home>> ELSE DropSession
    /\ UNCHANGED <<job, result, client, chan, wd, disk, left, turns, own, got, seen, faults>>

\* The completed turn used a tool that is not allowed or left no manifest to
\* capture.
validate_observed_tools == Fault /\ result' = "record" /\ pc' = "drop" /\ UNCHANGED session

\* Otherwise it is recorded and the session kept for the next one.
record_turn ==
    /\ pc = "record"
    /\ \/ session' = session + 1 /\ pc' = "returned" /\ UNCHANGED <<result, faults>>
       \/ validate_observed_tools
    /\ UNCHANGED <<job, client, srv, chan, wd, home, disk, left, turns, own, got, seen>>

RemoveSession ==
    /\ pc' = "returned"
    /\ \/ pc = "drop" /\ DropSession /\ UNCHANGED left
       \/ /\ pc = "orphan" /\ left' = [left EXCEPT !.orphan = Alive]
          /\ UNCHANGED <<session, srv, home>>
    /\ UNCHANGED <<job, result, client, chan, wd, disk, turns, own, got, seen, faults>>

-----------------------------------------------------------------------------
Server == ServerResponds \/ ServerReports \/ ServerFails

\* The steps of the calling thread.
CallerStep ==
    \/ Stage \/ prepare_proposer_codex_launch \/ start_process \/ Provision
    \/ SendRequest \/ ReadError \/ wait_for_response \/ wait_for_turn_started \/ wait_for_turn
    \/ Stall \/ WindowEnds \/ PollFails
    \/ persist_refreshed_auth_home \/ terminate \/ JoinWatchdog
    \/ sync_refreshed_codex_auth \/ sync_output_files \/ CloseSandbox
    \/ sync_workspace_back \/ cleanup_staged_workspace
    \/ PoolRun \/ record_turn \/ RemoveSession

TurnStep == Server \/ CallerStep \/ DeadlinePasses \/ WatchdogStep
=============================================================================
