----------------------------- MODULE RunStorage -----------------------------
(***************************************************************************)
(* The files of one run of the GEPA service and everybody who touches them: *)
(* the worker that ticks the run (it opens the run's context, appends      *)
(* events to events.jsonl and events.optimizer.jsonl, stores answers in the *)
(* request cache, saves the cursor as checkpoints and at the end writes the *)
(* storage report, the normalized feed and the manifest), the HTTP handlers *)
(* that prune, delete and compact finished runs or drop their artifacts,   *)
(* the readers of the feeds (a websocket subscriber of events.jsonl, a     *)
(* poller of the optimizer-events pages) and the disk budget, which guesses *)
(* from a cached directory size and the bytes noted since.                 *)
(*                                                                         *)
(* Sizes are counted in lines, cursors and files.  Which events a tick     *)
(* writes, which calls it makes and how often it saves are choices; what a *)
(* tick does in between is GepaRun's subject.  One worker ticks a run at a *)
(* time (RunService checks that), a run_id is submitted once, and all      *)
(* events are of a kind the subscriber asked for.                          *)
(***************************************************************************)
EXTENDS Integers, Sequences, FiniteSets, SequencesExt, FiniteSetsExt

CONSTANTS
    Soft, Hard,   \* disk_budget: soft_limit_gb and hard_limit_gb
    Requests,     \* requests the run makes: [body, volatile], two renderings of one body are equivalent
    CacheMax,     \* DEFAULT_REQUEST_CACHE_MAX_BYTES
    Scenarios,    \* who is there: [reader, operator, neighbour, mode]
    PageLimit,    \* events of one optimizer-events page
    MaxEvents, MaxSaves, MaxCalls, MaxForeign, MaxFaults  \* bounds

ASSUME RunStorageAssumption ==
    /\ Soft \in Nat \ {0} /\ Hard \in Nat /\ Soft <= Hard
    /\ IsFiniteSet(Requests)
    /\ Scenarios \subseteq [reader : {"websocket", "poll", "none"}, operator : BOOLEAN,
                            neighbour : BOOLEAN, mode : {"off", "readwrite", "readonly"}]
    /\ {CacheMax, PageLimit} \subseteq Nat \ {0}
    /\ {MaxEvents, MaxSaves, MaxCalls, MaxForeign, MaxFaults} \subseteq Nat

VARIABLES
    row,     \* the run request's projected status, "gone" when deleted
    disk,    \* the run's directory
    worker,  \* the worker's tick
    budget,  \* the tick's DiskBudget: [size, fresh]
    call,    \* a maintenance request being handled
    reader,  \* a reader of the feed
    foreign, \* bytes of other runs under output_dir
    paid,    \* live calls made for each body
    lost,    \* answers paid for that no cache holds
    unseen,  \* bytes added since the last walk that no one noted
    kept,    \* the run was not cancelled and none of its files removed
    faults,
    calls,   \* maintenance requests begun
    scene    \* the scenario, with the run's cache.mode

vars == <<row, disk, worker, budget, call, reader, foreign, paid, lost, unseen, kept, faults,
          calls, scene>>

-----------------------------------------------------------------------------
(* The directory.  A feed is the sequence numbers of its lines and its end: "whole" (the   *)
(* last line has its newline), "open" (it has not: the next line will be glued to it) or   *)
(* "bad" (a line does not parse).                                                          *)

Feed(lines, end) == [lines |-> lines, end |-> end]
NoFeed           == Feed(<<>>, "whole")

Absent == [dir |-> FALSE, main |-> NoFeed, canon |-> NoFeed, saves |-> <<>>, over |-> FALSE,
           cached |-> {}, cacheBytes |-> 0, files |-> {}, refs |-> FALSE]

(* A line appended with writeln. *)
Appended(feed, n) ==
    Feed(Append(feed.lines, n), IF feed.end = "whole" THEN "whole" ELSE "bad")

Readable(feed) == feed.end # "bad"

Full(d) == {i \in DOMAIN d.saves : d.saves[i] = "full"}

(* directory_size_bytes of the run's directory and of output_dir. *)
RunBytes(d) == Len(d.main.lines) + Len(d.canon.lines) + Cardinality(Full(d))
                   + Cardinality(d.files) + d.cacheBytes
DirectorySize(d, others) == RunBytes(d) + others

Used == DirectorySize(disk, foreign)

(* The event bytes of one emit: a line in either feed. *)
EventBytes == 2

IsTerminal(status) == status \in {"completed", "failed", "cancelled"}

Idle   == [at |-> "rest", stage |-> "work", records |-> 0, seq |-> 0, linked |-> TRUE, req |-> {}]
NoCall == [op |-> "none", at |-> "idle", profile |-> "none", upto |-> 0, wanted |-> FALSE]

-----------------------------------------------------------------------------
(* The disk budget. *)

(* current_used_bytes: the cached size while it is fresh, otherwise a walk. *)
CurrentUsed == IF budget.fresh THEN budget.size ELSE Used

(* classify. *)
Classify(used) ==
    IF used >= Hard THEN "hard" ELSE IF used >= Soft THEN "soft" ELSE "healthy"

BelowSoft(used) == Classify(used) = "healthy"
BelowHard(used) == Classify(used) # "hard"

(* What an evaluation leaves in the cache, and the unnoted bytes it makes visible. *)
Evaluated(used) ==
    /\ budget' = [size |-> used, fresh |-> TRUE]
    /\ unseen' = IF budget.fresh THEN unseen ELSE 0

(* note_appended_bytes; and the same noting one of the two lines. *)
NoteMainOnly(bytes) == budget' = [budget EXCEPT !.size = @ + 1]
NoteAppended(bytes) == budget' = [budget EXCEPT !.size = @ + bytes]

(* CACHE_TTL passes. *)
CacheTtl ==
    /\ scene.neighbour /\ worker.at = "write" /\ budget.fresh
    /\ budget' = [budget EXCEPT !.fresh = FALSE]
    /\ UNCHANGED <<row, disk, worker, call, reader, foreign, paid, lost, unseen, kept, faults,
                   calls, scene>>

(* The tick has a budget. *)
Ticking == worker.at \notin {"rest", "down", "ensure", "open"}

(* Another run of the same output_dir writes. *)
OthersWrite ==
    /\ scene.neighbour /\ foreign < MaxForeign
    /\ foreign' = foreign + 1 /\ unseen' = IF Ticking THEN unseen + 1 ELSE 0
    /\ UNCHANGED <<row, disk, worker, budget, call, reader, paid, lost, kept, faults, calls, scene>>

-----------------------------------------------------------------------------
(* A tick of the run. *)

Goes(at) == worker' = [worker EXCEPT !.at = at]

(* The tick is over, and its budget with it. *)
NoBudget == [size |-> 0, fresh |-> FALSE]
Rests(at) == worker' = [Idle EXCEPT !.at = at] /\ budget' = NoBudget /\ unseen' = 0

(* What changes in a directory the worker still holds; a removed one is written to in vain. *)
Writes(d) == disk' = IF worker.linked THEN d ELSE disk

Grows(d) == unseen' = unseen + IF worker.linked THEN Max({0, RunBytes(d) - RunBytes(disk)}) ELSE 0

untouched == <<row, call, reader, foreign, kept, faults, calls, scene>>

(* tick_next_unit picks the run, or a cancelled one whose cursor is not terminal yet. *)
BeginTick ==
    /\ worker.at = "rest"
    /\ \/ row = "running" /\ Goes("ensure")
       \/ row = "cancelled" /\ disk.dir /\ ~disk.over /\ Goes("open")
    /\ UNCHANGED <<disk, budget, paid, lost, unseen>> /\ UNCHANGED untouched

(* ensure_run_workspace: opens (creates) workspace.sqlite, then reads the request's config. *)
EnsureRunWorkspace ==
    /\ worker.at = "ensure"
    /\ disk' = [disk EXCEPT !.dir = TRUE]
    /\ Goes(IF row = "gone" THEN "rest" ELSE "open")
    /\ UNCHANGED <<budget, paid, lost, unseen>> /\ UNCHANGED untouched

LatestCheckpoint(d) == Len(d.saves)

(* open_gepa_run_context and the restore: a fresh budget and its soft gate, the directories, *)
(* the cursor, the feeds (append: the records of the file are read back), the cache.       *)
OpenRunContext ==
    /\ worker.at = "open"
    /\ budget' = [size |-> Used, fresh |-> TRUE]
    /\ IF ~BelowSoft(Used)
       THEN /\ Goes("error") /\ unseen' = 0 /\ UNCHANGED disk
       ELSE LET d == [disk EXCEPT !.dir = TRUE]
                ok == /\ Readable(d.main)
                      /\ LatestCheckpoint(d) # 0 => d.saves[LatestCheckpoint(d)] = "full"
            IN  /\ disk' = d
                /\ unseen' = 0
                /\ worker' = [Idle EXCEPT !.at = IF ok THEN "write" ELSE "error",
                                          !.stage = "opening",
                                          !.records = Len(d.main.lines),
                                          !.seq = LatestCheckpoint(d)]
    /\ UNCHANGED <<paid, lost>> /\ UNCHANGED untouched

(* EventWriter::emit up to the line of events.jsonl: the hard gate comes first. *)
Emit ==
    /\ worker.at = "write" /\ worker.records < MaxEvents
    /\ IF BelowHard(CurrentUsed)
       THEN /\ Goes("publish")
            /\ Writes([disk EXCEPT !.main = Appended(@, worker.records + 1)])
       ELSE Goes("error") /\ UNCHANGED disk
    /\ Evaluated(CurrentUsed)
    /\ UNCHANGED <<paid, lost>> /\ UNCHANGED untouched

(* The rest of emit: the line of events.optimizer.jsonl, the noted bytes, the record. *)
Publish ==
    /\ worker.at = "publish"
    /\ Writes([disk EXCEPT !.canon = Appended(@, worker.records + 1)])
    /\ NoteAppended(EventBytes)
    /\ worker' = [worker EXCEPT !.records = @ + 1,
                                !.at = IF worker.stage = "finished" THEN "normalize" ELSE "write",
                                !.stage = IF @ = "snapshot" THEN "finished" ELSE @]
    /\ UNCHANGED <<paid, lost, unseen>> /\ UNCHANGED untouched

(* A write of emit fails (ENOSPC, EIO): the line may be there whole, without its newline or *)
(* torn, or not at all; emit returns the error.                                            *)
Torn(feed, n) == {feed, Appended(feed, n), [Appended(feed, n) EXCEPT !.end = "bad"]}
                     \cup IF feed.end = "whole" THEN {[Appended(feed, n) EXCEPT !.end = "open"]} ELSE {}

TornDisks ==
    CASE worker.at = "write" -> {[disk EXCEPT !.main = f] : f \in Torn(disk.main, worker.records + 1)}
      [] worker.at = "publish" -> {[disk EXCEPT !.canon = f] : f \in Torn(disk.canon, worker.records + 1)}

WriteFails ==
    /\ worker.at \in {"write", "publish"} /\ faults < MaxFaults /\ worker.records < MaxEvents
    /\ \E d \in TornDisks : Writes(d) /\ Grows(d)
    /\ Goes("error") /\ faults' = faults + 1
    /\ UNCHANGED <<row, budget, call, reader, foreign, paid, lost, kept, calls, scene>>

-----------------------------------------------------------------------------
(* The request cache. *)

(* RequestCache::open, the last step of the context: a cache at its limit is refused. *)
CacheFull(bytes) == scene.mode = "readwrite" /\ bytes >= CacheMax

OpenCache ==
    /\ worker.at = "write" /\ worker.stage = "opening"
    /\ worker' = IF CacheFull(disk.cacheBytes) THEN [worker EXCEPT !.at = "error"]
                                              ELSE [worker EXCEPT !.stage = "work"]
    /\ UNCHANGED <<disk, budget, paid, lost, unseen>> /\ UNCHANGED untouched

(* normalize_for_cache_profile: secrets, paths, times and ids are dropped from a request. *)
Normalized(r) == r.body
Bodies == {Normalized(r) : r \in Requests}

Asked == {Normalized(r) : r \in worker.req}

(* find_equivalent, get_entry_or_miss: the answer of an equivalent request, if one is held. *)
Hit(r) == scene.mode # "off" /\ Normalized(r) \in disk.cached

(* cached_profiled_call_with_access: a hit is returned; a miss is an error in a readonly     *)
(* cache and a live call otherwise.                                                        *)
CachedCall ==
    /\ worker.at = "write" /\ worker.stage = "work"
    /\ \E r \in Requests :
          IF scene.mode = "readonly" /\ ~Hit(r)
          THEN Goes("error") /\ UNCHANGED paid
          ELSE /\ ~Hit(r) /\ paid[Normalized(r)] <= MaxFaults
               /\ paid' = [paid EXCEPT ![Normalized(r)] = @ + 1]
               /\ worker' = [worker EXCEPT !.at = "answered", !.req = {r}]
    /\ UNCHANGED <<disk, budget, lost, unseen>> /\ UNCHANGED untouched

(* put_with_metadata: the limit is tested before the insert, with the entry's bytes, and    *)
(* after it, with what sqlite made of them; either test fails the call although the answer *)
(* is there and paid for.                                                                  *)
Stored(r, overhead) ==
    [disk EXCEPT !.cached = @ \cup {Normalized(r)}, !.cacheBytes = @ + 1 + overhead]

PutAnswer ==
    /\ worker.at = "answered"
    /\ \E r \in worker.req :
          LET leaves == {"traces", "homes"} IN
          \/ /\ scene.mode = "off" \/ CacheFull(disk.cacheBytes + 1)
             /\ Writes([disk EXCEPT !.files = @ \cup leaves])
             /\ Grows([disk EXCEPT !.files = @ \cup leaves])
             /\ lost' = [lost EXCEPT ![Normalized(r)] = @ + 1]
             /\ worker' = [worker EXCEPT !.at = IF scene.mode = "off" THEN "write" ELSE "error", !.req = {}]
          \/ /\ scene.mode = "readwrite" /\ ~CacheFull(disk.cacheBytes + 1)
             /\ \E overhead \in {0, 1} :
                   LET d == [Stored(r, overhead) EXCEPT !.files = @ \cup leaves] IN
                   /\ Writes(d) /\ Grows(d)
                   /\ worker' = [worker EXCEPT !.at = IF CacheFull(d.cacheBytes) THEN "error" ELSE "write",
                                               !.req = {}]
             /\ UNCHANGED lost
    /\ UNCHANGED <<budget, paid>> /\ UNCHANGED untouched

-----------------------------------------------------------------------------
(* The cursor.  saves[i] is the checkpoint with sequence number i: "full", or "summary"     *)
(* once it was compacted.                                                                  *)

(* record_checkpoint of the next cursor, in record_checkpoint_compacting_previous. *)
SaveCheckpoint ==
    /\ worker.at = "write" /\ worker.stage \in {"work", "completed"} /\ worker.seq < MaxSaves
    /\ \/ /\ worker.linked /\ Goes("compact")
          /\ \E over \in IF worker.stage = "completed" THEN {TRUE}
                         ELSE IF row = "cancelled" THEN BOOLEAN ELSE {FALSE} :
                LET d == [disk EXCEPT !.saves = Append(@, "full"), !.over = over]
                IN  Writes(d) /\ Grows(d)
       \/ ~worker.linked /\ Goes("error") /\ UNCHANGED <<disk, unseen>>
    /\ UNCHANGED <<budget, paid, lost>> /\ UNCHANGED untouched

(* ... and the cursor that was the latest before, unless it is no older, or a summary.     *)
Previous == worker.seq
CompactPrevious ==
    /\ worker.at = "compact"
    /\ worker' = [worker EXCEPT !.at = "write", !.seq = @ + 1,
                                !.stage = IF @ = "completed" THEN "sealed" ELSE @]
    /\ IF Previous # 0 /\ worker.linked
       THEN disk' = [disk EXCEPT !.saves[Previous] = "summary"] ELSE UNCHANGED disk
    /\ UNCHANGED <<budget, paid, lost, unseen>> /\ UNCHANGED untouched

-----------------------------------------------------------------------------
(* The end of a tick and of the run. *)

EndTick ==
    /\ worker.at = "write" /\ worker.stage = "work"
    /\ Rests("rest")
    /\ UNCHANGED <<disk, paid, lost>> /\ UNCHANGED untouched

(* record_terminal_storage_snapshot: the report is written into the directory. *)
WriteReport ==
    /\ worker.at = "write" /\ worker.stage = "work" /\ worker.seq > 0
    /\ worker.records + 2 <= MaxEvents /\ worker.seq < MaxSaves
    /\ LET d == [disk EXCEPT !.files = @ \cup {"report"}] IN
       \/ worker.linked /\ Writes(d) /\ Grows(d)
          /\ worker' = [worker EXCEPT !.stage = "snapshot"]
       \/ ~worker.linked /\ Goes("error") /\ UNCHANGED <<disk, unseen>>
    /\ UNCHANGED <<budget, paid, lost>> /\ UNCHANGED untouched

(* normalize_event_feed: reads the feed back, writes its normalized copy. *)
NormalizeFeed ==
    /\ worker.at = "normalize"
    /\ LET d == [disk EXCEPT !.files = @ \cup {"normalized"}] IN
       \/ worker.linked /\ Readable(disk.main) /\ Writes(d) /\ Grows(d) /\ Goes("manifest")
       \/ ~(worker.linked /\ Readable(disk.main)) /\ Goes("error") /\ UNCHANGED <<disk, unseen>>
    /\ UNCHANGED <<budget, paid, lost>> /\ UNCHANGED untouched

(* record_artifact_refs, record_manifest and the manifest file; the Completed cursor is next. *)
WriteManifest ==
    /\ worker.at = "manifest"
    /\ LET d == [disk EXCEPT !.files = @ \cup {"manifest"}, !.refs = TRUE] IN
       \/ worker.linked /\ Writes(d) /\ Grows(d)
          /\ worker' = [worker EXCEPT !.at = "write", !.stage = "completed"]
       \/ ~worker.linked /\ Goes("error") /\ UNCHANGED <<disk, unseen>>
    /\ UNCHANGED <<budget, paid, lost>> /\ UNCHANGED untouched

(* terminalize_advanced_run_request and terminalize_run_request_error: the row is closed for *)
(* the lease, which a cancelled or deleted row no longer has.                              *)
Settle ==
    /\ \/ worker.at = "write" /\ worker.stage = "sealed" /\ row' = IF row = "running" THEN "completed" ELSE row
       \/ worker.at = "error" /\ row' = IF row = "running" THEN "failed" ELSE row
    /\ Rests("rest")
    /\ UNCHANGED <<disk, call, reader, foreign, paid, lost, kept, faults, calls, scene>>

(* A cancellation is seen between two steps of a tick. *)
SeesCancel ==
    /\ worker.at \in {"open", "write"} /\ row \in {"cancelled", "gone"}
    /\ Rests("rest")
    /\ UNCHANGED <<disk, paid, lost>> /\ UNCHANGED untouched

(* control_run "cancel": the row is terminal at once. *)
Cancel ==
    /\ scene.operator /\ worker.at # "down" /\ row = "running"
    /\ row' = "cancelled" /\ kept' = FALSE
    /\ UNCHANGED <<disk, worker, budget, call, reader, foreign, paid, lost, unseen, faults, calls, scene>>

(* The service dies, perhaps in the middle of a line, and a reader comes back with since     *)
(* (after_sequence) at the last event it has had.                                          *)
Crash ==
    /\ faults < MaxFaults /\ faults' = faults + 1
    /\ \E d \in IF worker.at \in {"write", "publish"} /\ worker.records < MaxEvents
                 THEN TornDisks ELSE {disk} :
          Writes(d)
    /\ Rests("down") /\ call' = NoCall
    /\ reader' = IF reader.at = "feed" THEN [reader EXCEPT !.at = "row"] ELSE reader
    /\ lost' = [b \in Bodies |-> lost[b] + Cardinality({b} \cap Asked)]
    /\ UNCHANGED <<row, foreign, paid, kept, calls, scene>>

(* A new process fails the orphaned row (fail_orphaned_run_requests) or takes it over. *)
Restart ==
    /\ worker.at = "down" /\ worker' = Idle
    /\ row' \in IF row = "running" THEN {"running", "failed"} ELSE {row}
    /\ UNCHANGED <<disk, budget, call, reader, foreign, paid, lost, unseen, kept, faults, calls, scene>>

-----------------------------------------------------------------------------
(* Maintenance.  Every handler reads the row once and works on what it read. *)

(* inspect_run_storage: what could be reclaimed, and the profile recommended for it. *)
ReclaimableSaves(d) == Full(d) \ {LatestCheckpoint(d)}
Reclaimable(d) ==
    Cardinality(d.files \cap {"homes", "traces"}) + d.cacheBytes + Cardinality(ReclaimableSaves(d))

StorageRecommendation(terminal, d) ==
    CASE ~terminal \/ Reclaimable(d) = 0 -> "none"
      [] terminal /\ Reclaimable(d) # 0 /\ d.cacheBytes + Cardinality(d.files \cap {"traces"}) > 0 -> "minimal"
      [] OTHER -> "compact"

RemovesTraces(profile)      == profile = "minimal"
RemovesRequestCache(profile) == profile = "minimal"
CompactsCheckpoints(profile) == profile \in {"compact", "minimal"}

Handling(op) == call.op = op
CallGoes(at) == call' = [call EXCEPT !.at = at]
CallEnds     == call' = NoCall

bystanders == <<worker, budget, reader, foreign, paid, lost, unseen, faults, calls, scene>>

(* The guard all destructive handlers share; drop_artifacts_response only wants a row, and   *)
(* so would handlers without the guard.                                                    *)
AdmitsAnything(op) == row # "gone"
Admits(op) == IF op = "drop" THEN row # "gone" ELSE IsTerminal(row)

BeginCall ==
    /\ scene.operator /\ worker.at # "down" /\ call.at \in {"idle", "done"} /\ calls < MaxCalls /\ calls' = calls + 1
    /\ \E op \in {"prune", "delete", "compact", "drop"}, p \in {"debug", "compact", "minimal"} :
          /\ Admits(op) /\ (op = "compact" \/ p = "debug")
          /\ call' = [op |-> op, profile |-> p, upto |-> 0,
                      at |-> CASE op \in {"prune", "delete"} -> "remove"
                               [] op = "compact" -> "homes" [] op = "drop" -> "drop",
                      wanted |-> /\ row \in {"completed", "failed"}
                                 /\ p = StorageRecommendation(TRUE, disk)]
    /\ UNCHANGED <<row, disk, worker, budget, reader, foreign, paid, lost, unseen, kept, faults, scene>>

(* remove_dir_all.  It fails half way when a tick in flight writes into a directory that    *)
(* was just emptied, or the file system refuses; prune ignores that, delete keeps the row. *)
RemoveRunDir ==
    /\ call.at = "remove"
    /\ \/ disk' = Absent /\ CallGoes("unrow")
       \/ /\ faults < MaxFaults /\ disk.dir
          /\ disk' = [Absent EXCEPT !.dir = TRUE]
          /\ IF Handling("prune") THEN CallGoes("unrow") ELSE CallEnds
    /\ worker' = [worker EXCEPT !.linked = @ /\ worker.at \in {"rest", "ensure", "open"}]
    /\ kept' = FALSE
    /\ UNCHANGED <<row, budget, reader, foreign, paid, lost, unseen, faults, calls, scene>>

(* delete_run_request_by_run_id. *)
DeleteRow ==
    /\ call.at = "unrow" /\ row' = "gone" /\ CallEnds
    /\ UNCHANGED <<disk, kept>> /\ UNCHANGED bystanders

(* compact_run_storage removes its paths in the order of their names. *)
CompactHomes ==
    /\ call.at = "homes"
    /\ disk' = [disk EXCEPT !.files = @ \ {"homes"}]
    /\ CallGoes(IF RemovesRequestCache(call.profile) THEN "cache"
                ELSE IF CompactsCheckpoints(call.profile) THEN "history" ELSE "record")
    /\ UNCHANGED <<row, kept>> /\ UNCHANGED bystanders

CompactCache ==
    /\ call.at = "cache"
    /\ disk' = [disk EXCEPT !.cached = {}, !.cacheBytes = 0]
    /\ CallGoes(IF RemovesTraces(call.profile) THEN "traces" ELSE "history")
    /\ UNCHANGED <<row, kept>> /\ UNCHANGED bystanders

CompactTraces ==
    /\ call.at = "traces"
    /\ disk' = [disk EXCEPT !.files = @ \ {"traces"}]
    /\ CallGoes("history")
    /\ UNCHANGED <<row, kept>> /\ UNCHANGED bystanders

(* A path cannot be sized or removed, and the request fails: what was removed stays removed. *)
CompactionFails ==
    /\ call.at \in {"homes", "cache", "traces"} /\ faults < MaxFaults
    /\ CallEnds
    /\ UNCHANGED <<row, disk, kept>> /\ UNCHANGED bystanders

(* As ReadHistory, with no record kept. *)
ReadHistoryToTheEnd ==
    /\ call.at = "history"
    /\ call' = [call EXCEPT !.at = "rewrite", !.upto = LatestCheckpoint(disk)]
    /\ UNCHANGED <<row, disk, kept>> /\ UNCHANGED bystanders

(* compact_workspace_checkpoints reads the history and keeps its last record. *)
ReadHistory ==
    /\ call.at = "history"
    /\ call' = [call EXCEPT !.at = "rewrite", !.upto = Max({0, LatestCheckpoint(disk) - 1})]
    /\ UNCHANGED <<row, disk, kept>> /\ UNCHANGED bystanders

(* ... and rewrites the others, one transaction each. *)
RewriteCheckpoint ==
    /\ call.at = "rewrite"
    /\ LET todo == Full(disk) \cap (1..call.upto) IN
       IF todo = {} THEN CallGoes("record") /\ UNCHANGED disk
       ELSE disk' = [disk EXCEPT !.saves[Min(todo)] = "summary"] /\ UNCHANGED call
    /\ UNCHANGED <<row, kept>> /\ UNCHANGED bystanders

(* The compaction manifest; without its directory the request fails. *)
RecordCompaction ==
    /\ call.at = "record"
    /\ IF disk.dir
       THEN /\ disk' = [disk EXCEPT !.files = @ \cup {"compaction"}]
            /\ unseen' = IF Ticking THEN unseen + 1 ELSE 0
            /\ IF call.wanted THEN CallGoes("done") ELSE CallEnds
       ELSE UNCHANGED <<disk, unseen>> /\ CallEnds
    /\ UNCHANGED <<row, worker, budget, reader, foreign, paid, lost, kept, faults, calls, scene>>

(* drop_artifacts_response: the public artifacts the run has registered, events.jsonl too. *)
DropArtifacts ==
    /\ call.at = "drop" /\ CallEnds
    /\ IF disk.refs
       THEN disk' = [disk EXCEPT !.main = NoFeed, !.files = @ \ {"normalized", "manifest"}]
       ELSE UNCHANGED disk
    /\ kept' = (kept /\ ~disk.refs)
    /\ worker' = [worker EXCEPT !.linked = @ /\ (~disk.refs \/ worker.at \in {"rest", "ensure", "open"})]
    /\ UNCHANGED <<row, budget, reader, foreign, paid, lost, unseen, faults, calls, scene>>

-----------------------------------------------------------------------------
(* Readers. *)

audience == <<row, disk, worker, budget, call, foreign, paid, lost, unseen, kept, faults, calls, scene>>

(* As ReadRow, with a terminal row reported before the feed is read. *)
ReadRowAndTell ==
    /\ worker.at # "down" /\ reader.at = "row"
    /\ reader' = [reader EXCEPT !.at = IF IsTerminal(row) THEN "told" ELSE "feed", !.over = FALSE]
    /\ UNCHANGED audience

(* Both read the row first.  A subscriber of a deleted run gets an error frame; a poller is *)
(* served from the run index, where the manifest tells that the run is over.               *)
ReadRow ==
    /\ worker.at # "down" /\ reader.at = "row"
    /\ reader' = [reader EXCEPT
           !.at = IF row = "gone" /\ reader.kind = "websocket" THEN "closed" ELSE "feed",
           !.over = IF row = "gone" THEN "manifest" \in disk.files ELSE IsTerminal(row)]
    /\ UNCHANGED audience

FeedOf(kind) == IF kind = "websocket" THEN disk.main ELSE disk.canon

(* project_run_events, read_optimizer_event_page: the events after the last one sent.  The   *)
(* numbers of a feed that is not refused grow, so these are its end, a page at a time.     *)
Sent(lines, last) == Cardinality({i \in DOMAIN lines : lines[i] <= last})

Unsent(kind, last) ==
    LET lines == FeedOf(kind).lines
        sent  == Sent(lines, last)
    IN  SubSeq(lines, sent + 1, IF kind = "poll" THEN Min({sent + PageLimit, Len(lines)}) ELSE Len(lines))

Increasing(seq) == \A i, j \in DOMAIN seq : i < j => seq[i] < seq[j]

(* The rest of a round of stream_websocket_run, or of a page: a line that does not parse (and *)
(* in a page a number that does not grow) is an error; a stream ends when the row it read was *)
(* terminal, a poller stops at an empty page of a terminal run.                              *)
ReadFeed ==
    /\ reader.at = "feed"
    /\ LET kind == reader.kind
           bad  == \/ ~Readable(FeedOf(kind))
                   \/ kind = "poll" /\ ~Increasing(FeedOf(kind).lines)
           new  == Unsent(kind, reader.last)
           ends == reader.over /\ (kind = "websocket" \/ new = <<>>)
       IN  reader' = IF bad THEN [reader EXCEPT !.at = "closed"]
                     ELSE [reader EXCEPT !.at = IF ends THEN "told" ELSE "row",
                                         !.got = @ \o new,
                                         !.last = IF new = <<>> THEN @ ELSE Last(new),
                                         !.over = FALSE]
    /\ UNCHANGED audience

-----------------------------------------------------------------------------
Init ==
    /\ scene \in Scenarios
    /\ row = "running" /\ disk = Absent /\ worker = Idle
    /\ budget = NoBudget /\ call = NoCall
    /\ reader = [kind |-> scene.reader, at |-> IF scene.reader = "none" THEN "closed" ELSE "row",
                 over |-> FALSE, last |-> 0, got |-> <<>>]
    /\ foreign = 0 /\ paid = [b \in Bodies |-> 0] /\ lost = [b \in Bodies |-> 0]
    /\ unseen = 0 /\ kept = TRUE /\ faults = 0 /\ calls = 0

Tick ==
    \/ BeginTick \/ EnsureRunWorkspace \/ OpenRunContext \/ Emit \/ Publish \/ WriteFails
    \/ OpenCache \/ CachedCall \/ PutAnswer \/ SaveCheckpoint \/ CompactPrevious \/ EndTick
    \/ WriteReport \/ NormalizeFeed \/ WriteManifest \/ Settle \/ SeesCancel

Maintenance ==
    \/ BeginCall \/ RemoveRunDir \/ DeleteRow \/ CompactHomes \/ CompactCache \/ CompactTraces
    \/ CompactionFails \/ ReadHistory \/ RewriteCheckpoint \/ RecordCompaction \/ DropArtifacts

Next == Tick \/ Maintenance \/ ReadRow \/ ReadFeed \/ Cancel \/ Crash \/ Restart \/ CacheTtl \/ OthersWrite

Spec == Init /\ [][Next]_vars

-----------------------------------------------------------------------------
(* Properties. *)

TypeOK ==
    /\ row \in {"running", "completed", "failed", "cancelled", "gone"}
    /\ disk.main.end \in {"whole", "open", "bad"} /\ disk.canon.end \in {"whole", "open", "bad"}
    /\ \A i \in DOMAIN disk.saves : disk.saves[i] \in {"full", "summary"}
    /\ disk.cached \subseteq Bodies
    /\ disk.files \subseteq {"homes", "traces", "report", "normalized", "manifest", "compaction"}
    /\ budget.size \in Nat /\ unseen \in Nat

(* The cursor a tick restores, the latest checkpoint, is always there in full, whichever of  *)
(* the worker and the compaction handlers rewrites the older ones.                         *)
ResumePoint == disk.saves # <<>> => disk.saves[LatestCheckpoint(disk)] = "full"

(* The optimizer feed never repeats a number or goes back, and misses an event of           *)
(* events.jsonl only for a crash or a failed write.                                        *)
FeedsAgree ==
    kept => /\ Increasing(disk.canon.lines)
            /\ Len(disk.main.lines) - Len(disk.canon.lines)
                   <= faults + IF worker.at = "publish" THEN 1 ELSE 0

(* An answer the run has paid for is paid for again only when the cache was off or full, or  *)
(* a crash came between the answer and its insert.                                         *)
PaidOnce ==
    kept /\ row = "running" => \A b \in Bodies :
        paid[b] <= lost[b] + Cardinality({b} \cap disk.cached) + Cardinality({b} \cap Asked)

(* Following the recommendation of the storage report leaves nothing to reclaim. *)
CompactionDelivers == call.at = "done" /\ call.wanted => Reclaimable(disk) = 0

StorageSound == TypeOK /\ ResumePoint /\ FeedsAgree /\ PaidOnce /\ CompactionDelivers

(* An event is only ever appended while everything under output_dir, less what others and   *)
(* the run's own unnoted writes have added since the last walk, is below the hard limit.   *)
EmitsBelowHard ==
    [][worker.at = "write" /\ worker'.at = "publish" => Used - unseen' < Hard]_vars

(* Maintenance takes nothing of a run whose row is open: its directory, homes, traces, cache *)
(* or cursors, however late the request acts on the row it has read.                       *)
Loses(d, e) ==
    \/ d.dir /\ ~e.dir
    \/ ~(d.files \cap {"homes", "traces"} \subseteq e.files)
    \/ ~(d.cached \subseteq e.cached)
    \/ ~(Full(d) \subseteq Full(e))

LiveRunKeepsItsStorage ==
    [][worker'.at = worker.at /\ Loses(disk, disk') => row # "running"]_vars

(* The readers are served as EventFeed promises. *)
Promise == INSTANCE EventFeed WITH
              log <- FeedOf(reader.kind).lines, delivered <- reader.got, open <- row = "running",
              over <- reader.at = "told", kept <- kept
FeedAsPromised == Promise!Spec
=============================================================================
