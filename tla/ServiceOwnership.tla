-------------------------- MODULE ServiceOwnership --------------------------
(***************************************************************************)
(* Who may run the GEPA service of one database                             *)
(* (synth_gepa/src/service_ownership.rs, run_gepa_service of service.rs).   *)
(*                                                                          *)
(* Every service process takes a flock on the lock file of its service id,  *)
(* and keeps a heartbeat file beside it.  A newcomer that finds the lock    *)
(* taken judges its holder by the heartbeat.  The files are named by path,  *)
(* the flock belongs to the inode: a rename leaves the holder with a lock   *)
(* that nobody who opens the path will meet.                                *)
(*                                                                          *)
(* A step is one system call that other processes can see, with the tests   *)
(* that follow it.  The one exception is kill_pid, which is one step with   *)
(* the identity test that allows it: the kernel hands out pids in turn, so  *)
(* a pid does not name a new process within those milliseconds.             *)
(***************************************************************************)
EXTENDS Naturals, FiniteSets

CONSTANTS
    Services,    \* service processes that may be started, each once
    Strangers,   \* processes that have nothing to do with the service
    Exe,         \* process -> the binary it runs
    Pids,        \* process ids; a free one is reused
    NoPid, Nobody,
    MaxInodes,   \* bound: lock files ever created
    MaxCrashes,  \* bound: processes that die by themselves
    MaxHangs,    \* bound: processes that are suspended
    MaxErrors    \* bound: failed binds and failed accepts

Processes == Services \cup Strangers
Inodes == 1 .. MaxInodes

ASSUME OwnershipAssumption ==
    /\ Services \cap Strangers = {} /\ Nobody \notin Processes
    /\ DOMAIN Exe = Processes
    /\ NoPid \notin Pids
    /\ MaxInodes \in Nat /\ MaxCrashes \in Nat
    /\ MaxHangs \in Nat /\ MaxErrors \in Nat

VARIABLES
    pid,       \* process -> its pid; NoPid: not started, or dead
    pc,        \* service -> where its main thread is
    writer,    \* service -> its heartbeat thread: off, idle, write or publish
    fd,        \* service -> the inode it has open as the lock; 0: none
    seen,      \* service -> the heartbeat it read
    adopted,   \* service -> the process whose crash it adopted
    late,      \* services past their LOCK_RETRY_BUDGET
    hung,      \* suspended services
    lock,      \* the inode at the lock path; 0: no such file
    holder,    \* inode -> the service that holds its flock
    inodes,    \* lock files created
    heartbeat, \* the heartbeat file
    tmp,       \* the file a heartbeat is written to before its rename
    killed,    \* pairs of a killer and its victim
    faults     \* crashes, hangs and errors that happened, and whether two
               \* starts, or a drop and a heartbeat write, ever overlapped

vars == <<pid, pc, writer, fd, seen, adopted, late, hung, lock, holder,
          inodes, heartbeat, tmp, killed, faults>>

files == <<lock, holder, inodes, heartbeat, tmp>>
local == <<writer, fd, seen, adopted, late>>
world == <<hung, killed, faults>>

\* What a heartbeat says of its writer: its pid, its start identity (which
\* is the process itself) and its exe_digest, and whether last_seen is fresh.
Record == [pid: Pids, start: Services, exe: {Exe[p] : p \in Services},
           fresh: BOOLEAN]
NoRecord == [pid |-> NoPid, start |-> Nobody, exe |-> Nobody, fresh |-> FALSE]

Acquiring == {"open", "lock", "read", "decide", "retry", "evict",
              "evictLock", "claim", "publish"}
Owning == {"bind", "refresh", "refreshPublish", "serving"}
Dropping == {"drop", "dropRemove", "dropUnlock", "dropped"}

Alive(p) == pid[p] # NoPid
Runs(p) == Alive(p) /\ p \notin hung
Owns(p) == Alive(p) /\ pc[p] \in Owning
HoldsLock(p) == fd[p] # 0 /\ holder[fd[p]] = p

\* Fault: any process under the recorded pid passes for the writer.
MatchesByPid(p, r) == r.pid # NoPid /\ \E q \in Processes : pid[q] = r.pid

\* ProcessIdentity::matches_live_process, as process p computes it.
MatchesLiveProcess(p, r) ==
    /\ r.pid # NoPid
    /\ \E q \in Processes : pid[q] = r.pid /\ r.start = q
    /\ r.exe = Exe[p]

PeerIsHealthy(p, r) == MatchesLiveProcess(p, r) /\ r.fresh

Goto(p, label) == pc' = [pc EXCEPT ![p] = label]

\* Process q ends while the others go on at next: its descriptors close, and
\* its flock goes with them.
Ends(q, next) ==
    /\ pid' = [pid EXCEPT ![q] = NoPid]
    /\ pc' = [p \in Services |-> IF p = q THEN "ended" ELSE next[p]]
    /\ writer' = [p \in Services |-> IF p = q THEN "off" ELSE writer[p]]
    /\ holder' = [i \in Inodes |-> IF holder[i] = q THEN Nobody ELSE holder[i]]
    /\ hung' = hung \ {q}

Init ==
    /\ pid = [p \in Processes |-> NoPid]
    /\ pc = [p \in Services |-> "off"]
    /\ writer = [p \in Services |-> "off"]
    /\ fd = [p \in Services |-> 0]
    /\ seen = [p \in Services |-> NoRecord]
    /\ adopted = [p \in Services |-> Nobody]
    /\ late = {} /\ hung = {}
    /\ lock = 0 /\ holder = [i \in Inodes |-> Nobody] /\ inodes = 0
    /\ heartbeat = NoRecord /\ tmp = NoRecord
    /\ killed = {}
    /\ faults = [crash |-> 0, hang |-> 0, error |-> 0, overlap |-> 0]

-----------------------------------------------------------------------------
(* Acquiring: acquire_service_ownership_in and start_owned_guard. *)

TakesPid(p) ==
    \E n \in Pids :
      /\ \A q \in Processes : pid[q] # n
      /\ pid' = [pid EXCEPT ![p] = n]

\* History: an overlap that the calm guarantees exclude is remembered.
Overlaps(now) == faults' = [faults EXCEPT !.overlap = IF now THEN 1 ELSE @]

StartService(p) ==
    /\ pc[p] = "off"
    /\ TakesPid(p)
    /\ Goto(p, "open")
    /\ Overlaps(\E q \in Services : pc[q] \in Acquiring)
    /\ UNCHANGED <<local, files, hung, killed>>

\* The loop's open(lock_path), with create(true).
OpenLock(p) ==
    /\ pc[p] = "open"
    /\ IF lock = 0
         THEN /\ inodes < MaxInodes
              /\ inodes' = inodes + 1 /\ lock' = inodes + 1
              /\ fd' = [fd EXCEPT ![p] = inodes + 1]
         ELSE /\ fd' = [fd EXCEPT ![p] = lock]
              /\ UNCHANGED <<inodes, lock>>
    /\ Goto(p, "lock")
    /\ UNCHANGED <<pid, writer, seen, adopted, late, holder, heartbeat, tmp,
                   world>>

\* try_lock_exclusive; WouldBlock leaves the file open and unlocked.
TryLock(p) ==
    /\ pc[p] = "lock"
    /\ holder' = IF holder[fd[p]] = Nobody
                   THEN [holder EXCEPT ![fd[p]] = p] ELSE holder
    /\ Goto(p, "read")
    /\ UNCHANGED <<pid, local, lock, inodes, heartbeat, tmp, world>>

ReadHeartbeat(p) ==
    /\ pc[p] = "read"
    /\ seen' = [seen EXCEPT ![p] = heartbeat]
    /\ Goto(p, "decide")
    /\ UNCHANGED <<pid, writer, fd, adopted, late, files, world>>

\* An error return of run_gepa_service without a guard: the process ends.
Fail(p) ==
    /\ Ends(p, pc)
    /\ UNCHANGED <<fd, seen, adopted, late, lock, inodes, heartbeat, tmp,
                   killed, faults>>

Step(p, label) == Goto(p, label) /\ UNCHANGED <<pid, local, files, world>>

\* Fault: the signal has no effect, and the crash is adopted all the same.
KillPeerIgnored(p, label) ==
    /\ Goto(p, label)
    /\ adopted' = [adopted EXCEPT ![p] = seen[p].start]
    /\ UNCHANGED <<pid, writer, fd, seen, late, files, world>>

\* kill_pid: whoever has the recorded pid is terminated, and its crash adopted.
KillPeer(p, label) ==
    \E q \in Processes \ {p} :
      /\ pid[q] = seen[p].pid
      /\ Ends(q, [pc EXCEPT ![p] = label])
      /\ killed' = killed \cup {<<p, q>>}
      /\ adopted' = [adopted EXCEPT ![p] = seen[p].start]
      /\ UNCHANGED <<fd, seen, late, lock, inodes, heartbeat, tmp, faults>>

\* The lock is ours: a live writer of our lineage is killed, any other
\* heartbeat is moved aside.
DecideWinner(p) ==
    \/ seen[p] = NoRecord /\ Step(p, "claim")
    \/ MatchesLiveProcess(p, seen[p]) /\ KillPeer(p, "claim")
    \/ /\ seen[p] # NoRecord /\ ~MatchesLiveProcess(p, seen[p])
       /\ Step(p, "evict")

\* Fault: the lock of a hung peer is moved aside, and the peer left alone.
DecideBlockedSparingTheHung(p) ==
    \/ seen[p] = NoRecord /\ Step(p, "retry")
    \/ PeerIsHealthy(p, seen[p]) /\ Fail(p)
    \/ seen[p] # NoRecord /\ ~PeerIsHealthy(p, seen[p]) /\ Step(p, "evict")

\* The lock is taken: a healthy peer keeps it, a hung one is killed, and a
\* lock whose heartbeat is not of a live process of our lineage is moved aside.
DecideBlocked(p) ==
    \/ seen[p] = NoRecord /\ Step(p, "retry")
    \/ PeerIsHealthy(p, seen[p]) /\ Fail(p)
    \/ /\ MatchesLiveProcess(p, seen[p]) /\ ~PeerIsHealthy(p, seen[p])
       /\ KillPeer(p, "retry")
    \/ /\ seen[p] # NoRecord /\ ~MatchesLiveProcess(p, seen[p])
       /\ Step(p, "evict")

Decide(p) ==
    /\ pc[p] = "decide"
    /\ \/ HoldsLock(p) /\ DecideWinner(p)
       \/ ~HoldsLock(p) /\ DecideBlocked(p)

\* Fault: the loop has no deadline.
RetryForever(p) == pc[p] = "retry" /\ Step(p, "open")

\* The end of a turn of the loop: the deadline, or sleep and try again.
Retry(p) ==
    /\ pc[p] = "retry"
    /\ \/ p \in late /\ Fail(p)
       \/ p \notin late /\ Step(p, "open")

\* quarantine_peer: the heartbeat, whosever it is by now, is renamed away...
EvictHeartbeat(p) ==
    /\ pc[p] = "evict"
    /\ heartbeat' = NoRecord
    /\ adopted' = [adopted EXCEPT ![p] = seen[p].start]
    /\ Goto(p, IF HoldsLock(p) THEN "claim" ELSE "evictLock")
    /\ UNCHANGED <<pid, writer, fd, seen, late, lock, holder, inodes, tmp,
                   world>>

\* ... and under a taken lock, so is the lock file.  The loop starts again,
\* whatever the time.
EvictLock(p) ==
    /\ pc[p] = "evictLock"
    /\ lock' = 0
    /\ Goto(p, "open")
    /\ UNCHANGED <<pid, local, holder, inodes, heartbeat, tmp, world>>

\* owned_heartbeat_payload.
Own(p) == [pid |-> pid[p], start |-> p, exe |-> Exe[p], fresh |-> TRUE]

\* write_owned_heartbeat: the record goes to a temporary file that all share,
\* and a rename publishes what is in it by then.
WriteTmp(p) ==
    /\ tmp' = Own(p)
    /\ UNCHANGED <<pid, fd, seen, adopted, late, lock, holder, inodes,
                   heartbeat, world>>

RenameTmp(p) ==
    /\ tmp # NoRecord
    /\ heartbeat' = tmp /\ tmp' = NoRecord
    /\ UNCHANGED <<pid, fd, seen, adopted, late, lock, holder, inodes, world>>

Claim(p) ==
    /\ pc[p] = "claim"
    /\ WriteTmp(p) /\ Goto(p, "publish") /\ UNCHANGED writer

Publish(p) ==
    /\ pc[p] = "publish"
    /\ \/ RenameTmp(p) /\ Goto(p, "bind") /\ writer' = [writer EXCEPT ![p] = "idle"]
       \/ tmp = NoRecord /\ Fail(p)

Acquire(p) ==
    \/ OpenLock(p) \/ TryLock(p) \/ ReadHeartbeat(p) \/ Decide(p) \/ Retry(p)
    \/ EvictHeartbeat(p) \/ EvictLock(p) \/ Claim(p) \/ Publish(p)

-----------------------------------------------------------------------------
(* Owning: the rest of run_gepa_service, the heartbeat thread, and the drop. *)

Error(p, label) ==
    /\ faults.error < MaxErrors
    /\ faults' = [faults EXCEPT !.error = @ + 1]
    /\ Goto(p, label)
    /\ UNCHANGED <<pid, local, files, hung, killed>>

\* The orphaned requests are failed and the port is bound.
Bind(p) ==
    /\ pc[p] = "bind"
    /\ Step(p, "refresh") \/ Error(p, "drop")

\* refresh_owned_heartbeat; it writes only over a heartbeat with its pid.
Refresh(p) ==
    /\ pc[p] = "refresh"
    /\ \/ heartbeat.pid # pid[p] /\ Step(p, "serving")
       \/ /\ heartbeat.pid = pid[p]
          /\ WriteTmp(p) /\ Goto(p, "refreshPublish") /\ UNCHANGED writer

RefreshPublish(p) ==
    /\ pc[p] = "refreshPublish"
    /\ \/ RenameTmp(p) /\ Goto(p, "serving") /\ UNCHANGED writer
       \/ tmp = NoRecord /\ Step(p, "drop")

AcceptFails(p) == pc[p] = "serving" /\ Error(p, "drop")

\* ServiceOwnershipGuard::drop.  The heartbeat thread is told to stop: a
\* sleeping one writes no more, one that is writing finishes.
Drop(p) ==
    /\ pc[p] = "drop"
    /\ Overlaps(writer[p] # "idle")
    /\ Goto(p, IF heartbeat.pid = pid[p] THEN "dropRemove" ELSE "dropUnlock")
    /\ writer' = [writer EXCEPT ![p] = IF @ = "idle" THEN "off" ELSE @]
    /\ UNCHANGED <<pid, fd, seen, adopted, late, files, hung, killed>>

DropRemove(p) ==
    /\ pc[p] = "dropRemove"
    /\ heartbeat' = NoRecord
    /\ Goto(p, "dropUnlock")
    /\ UNCHANGED <<pid, local, lock, holder, inodes, tmp, world>>

DropUnlock(p) ==
    /\ pc[p] = "dropUnlock"
    /\ holder' = [holder EXCEPT ![fd[p]] = Nobody]
    /\ Goto(p, "dropped")
    /\ UNCHANGED <<pid, local, lock, inodes, heartbeat, tmp, world>>

Exit(p) == pc[p] = "dropped" /\ Fail(p)

Serve(p) ==
    \/ Bind(p) \/ Refresh(p) \/ RefreshPublish(p) \/ AcceptFails(p)
    \/ Drop(p) \/ DropRemove(p) \/ DropUnlock(p) \/ Exit(p)

\* The heartbeat thread of start_owned_guard: it finds the stop flag clear,
\* writes, and ignores a failed rename.
WriterWakes(p) ==
    /\ writer[p] = "idle"
    /\ writer' = [writer EXCEPT ![p] = "write"]
    /\ UNCHANGED <<pid, pc, fd, seen, adopted, late, files, world>>

WriterWrites(p) ==
    /\ writer[p] = "write"
    /\ WriteTmp(p)
    /\ writer' = [writer EXCEPT ![p] = "publish"] /\ UNCHANGED pc

WriterPublishes(p) ==
    /\ writer[p] = "publish"
    /\ writer' = [writer EXCEPT ![p] = IF pc[p] \in Dropping \ {"drop"}
                                         THEN "off" ELSE "idle"]
    /\ UNCHANGED pc
    /\ \/ RenameTmp(p)
       \/ /\ tmp = NoRecord
          /\ UNCHANGED <<pid, fd, seen, adopted, late, files, world>>

Writer(p) == WriterWakes(p) \/ WriterWrites(p) \/ WriterPublishes(p)

-----------------------------------------------------------------------------
(* The environment. *)

\* LOCK_RETRY_BUDGET is over.
Deadline(p) ==
    /\ pc[p] \in Acquiring /\ p \notin late
    /\ late' = late \cup {p}
    /\ UNCHANGED <<pid, pc, writer, fd, seen, adopted, files, world>>

\* HEARTBEAT_STALE passes without a write.
Stale ==
    /\ heartbeat.fresh
    /\ \/ heartbeat.start \in hung
       \/ writer[heartbeat.start] = "off"
    /\ heartbeat' = [heartbeat EXCEPT !.fresh = FALSE]
    /\ UNCHANGED <<pid, pc, local, lock, holder, inodes, tmp, world>>

Crash(p) ==
    /\ Alive(p) /\ faults.crash < MaxCrashes
    /\ faults' = [faults EXCEPT !.crash = @ + 1]
    /\ Ends(p, pc)
    /\ UNCHANGED <<fd, seen, adopted, late, lock, inodes, heartbeat, tmp, killed>>

\* A process is suspended, and may be resumed.
Hang(p) ==
    /\ Runs(p) /\ faults.hang < MaxHangs
    /\ faults' = [faults EXCEPT !.hang = @ + 1]
    /\ hung' = hung \cup {p}
    /\ UNCHANGED <<pid, pc, local, files, killed>>

Wake(p) ==
    /\ p \in hung
    /\ hung' = hung \ {p}
    /\ UNCHANGED <<pid, pc, local, files, killed, faults>>

StartStranger(q) ==
    /\ pid[q] = NoPid
    /\ TakesPid(q)
    /\ UNCHANGED <<pc, local, files, world>>

Next ==
    \/ \E p \in Services :
         \/ StartService(p)
         \/ Runs(p) /\ (Acquire(p) \/ Serve(p) \/ Writer(p))
         \/ Deadline(p) \/ Crash(p) \/ Hang(p) \/ Wake(p)
    \/ Stale
    \/ \E q \in Strangers : StartStranger(q)

Spec == Init /\ [][Next]_vars

\* A running process goes on with its acquisition, and time passes.
FairSpec ==
    /\ Spec
    /\ \A p \in Services :
         WF_vars(Runs(p) /\ Acquire(p)) /\ WF_vars(Deadline(p))

-----------------------------------------------------------------------------
(* Properties. *)

TypeOK ==
    /\ pid \in [Processes -> Pids \cup {NoPid}]
    /\ pc \in [Services -> Acquiring \cup Owning \cup Dropping \cup {"off", "ended"}]
    /\ writer \in [Services -> {"off", "idle", "write", "publish"}]
    /\ fd \in [Services -> 0 .. MaxInodes]
    /\ seen \in [Services -> Record \cup {NoRecord}]
    /\ adopted \in [Services -> Services \cup {Nobody}]
    /\ late \subseteq Services /\ hung \subseteq Services
    /\ lock \in 0 .. MaxInodes /\ inodes \in 0 .. MaxInodes
    /\ holder \in [Inodes -> Services \cup {Nobody}]
    /\ heartbeat \in Record \cup {NoRecord} /\ tmp \in Record \cup {NoRecord}
    /\ killed \subseteq Services \X Processes
    /\ faults \in [crash : 0 .. MaxCrashes, hang : 0 .. MaxHangs,
                   error : 0 .. MaxErrors, overlap : 0 .. 1]

\* A mismatch is never signalled: however pids are reused, a service only
\* ever kills a service process that runs its own binary.
KillsOnlyItsLineage ==
    \A k \in killed : k[2] \in Services /\ Exe[k[2]] = Exe[k[1]]

\* The crash that a service adopted, for which it will fail the runs that
\* were in progress, is not that of a live process of its own lineage.
AdoptedIsGone ==
    \A p \in Services :
      Owns(p) /\ adopted[p] # Nobody =>
        ~Alive(adopted[p]) \/ Exe[adopted[p]] # Exe[p]

\* One process at a time owns the service.
SoleOwner == \A p, q \in Services : Owns(p) /\ Owns(q) => p = q

\* The lock of an owner is the one that a newcomer opens.
OwnerHoldsThePath == \A p \in Services : Owns(p) => lock = fd[p] /\ HoldsLock(p)

\* A started process comes to own the service, or ends.
AcquireEnds ==
    \A p \in Services : pc[p] \in Acquiring ~> pc[p] \notin Acquiring \/ p \in hung

\* While processes are started one after the other and no heartbeat write is
\* under way in a drop, whoever crashed, hung, was killed or was bypassed, at
\* most one process owns the service, and the lock it holds is the one at the
\* path.
SoleOwnerAtPath ==
    TypeOK /\ (faults.overlap = 0 => SoleOwner /\ OwnerHoldsThePath)
=============================================================================
