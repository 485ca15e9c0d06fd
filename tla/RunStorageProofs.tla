-------------------------- MODULE RunStorageProofs --------------------------
(***************************************************************************)
(* Proofs about RunStorage, for every number of events, saves, calls,      *)
(* faults and requests: a live run keeps its storage, an event is written  *)
(* below the hard limit, the directory stays sound, and the two feeds are  *)
(* served as EventFeed promises.                                           *)
(***************************************************************************)
EXTENDS RunStorage, TLAPS, SequenceTheorems, FiniteSetTheorems, WellFoundedInduction

-----------------------------------------------------------------------------
(* The inductive invariant. *)

Statuses  == {"running", "completed", "failed", "cancelled", "gone"}
FileNames == {"homes", "traces", "report", "normalized", "manifest", "compaction"}
FeedType  == [lines : Seq(Nat), end : {"whole", "open", "bad"}]
DiskType  == [dir : BOOLEAN, main : FeedType, canon : FeedType, saves : Seq({"full", "summary"}),
              over : BOOLEAN, cached : SUBSET Bodies, cacheBytes : Nat, files : SUBSET FileNames,
              refs : BOOLEAN]

\* Where a tick has its budget, its records and its sequence number from the directory.
Inside     == {"write", "publish", "answered", "compact", "normalize", "manifest"}
Places     == Inside \cup {"rest", "down", "ensure", "open", "error"}
WorkerType == [at : Places, stage : {"work", "opening", "snapshot", "finished", "completed", "sealed"},
               records : Nat, seq : Nat, linked : BOOLEAN, req : SUBSET Requests]

Compacting == {"homes", "cache", "traces", "history", "rewrite", "record"}
CallType   == [op : {"none", "prune", "delete", "compact", "drop"},
               at : Compacting \cup {"idle", "remove", "unrow", "drop", "done"},
               profile : {"none", "debug", "compact", "minimal"}, upto : Nat, wanted : BOOLEAN]

ReaderType == [kind : {"websocket", "poll", "none"}, at : {"row", "feed", "told", "closed"},
               over : BOOLEAN, last : Nat, got : Seq(Nat)]

Types ==
    /\ row \in Statuses /\ disk \in DiskType /\ worker \in WorkerType
    /\ budget \in [size : Nat, fresh : BOOLEAN]
    /\ call \in CallType /\ reader \in ReaderType
    /\ foreign \in Nat /\ paid \in [Bodies -> Nat] /\ lost \in [Bodies -> Nat]
    /\ unseen \in Nat /\ kept \in BOOLEAN /\ faults \in Nat /\ calls \in Nat
    /\ scene \in Scenarios

\* A row that is not running stays so; who ticks, maintains or has been told has read it.
RowInv ==
    /\ row \in {"cancelled", "gone"} => ~kept
    /\ worker.at \notin {"rest", "down"} => row \in {"running", "cancelled", "gone"}
    /\ call.at \notin {"idle", "drop"} => row # "running"
    /\ call.at = "unrow" => ~kept
    /\ reader.over => row # "running"
    /\ kept => worker.linked

\* A line of events.jsonl is numbered by its place, and a tick knows how many there are.
MainInv ==
    /\ \A i \in DOMAIN disk.main.lines : disk.main.lines[i] = i
    /\ worker.linked /\ worker.at \in Inside =>
          Len(disk.main.lines) = worker.records + IF worker.at = "publish" THEN 1 ELSE 0

\* The other feed follows it with gaps: c are its numbers, m the lines of events.jsonl, p is 1
\* between the two writes of an emit, f counts the faults.
Follows(c, m, p, f) ==
    /\ Increasing(c)
    /\ \A i \in DOMAIN c : 1 <= c[i] /\ c[i] + p <= m
    /\ m - Len(c) <= f + p

Between == IF worker.at = "publish" THEN 1 ELSE 0

CanonInv == kept => Follows(disk.canon.lines, Len(disk.main.lines), Between, faults)

\* The reader has had a beginning of its feed and remembers the number it ends with.
ReaderInv ==
    /\ reader.last = IF reader.got = <<>> THEN 0 ELSE reader.got[Len(reader.got)]
    /\ kept => /\ Len(reader.got) <= Len(FeedOf(reader.kind).lines)
               /\ \A i \in 1 .. Len(reader.got) : reader.got[i] = FeedOf(reader.kind).lines[i]

\* Nobody who rewrites old checkpoints touches the latest one.
SavesInv ==
    /\ ResumePoint
    /\ worker.linked /\ worker.at \in Inside =>
          Len(disk.saves) = worker.seq + IF worker.at = "compact" THEN 1 ELSE 0
    /\ call.at = "rewrite" => call.upto = 0 \/ call.upto < Len(disk.saves)

\* An answer on its way into the cache is not there yet.
PaidInv ==
    /\ PaidOnce
    /\ worker.at # "answered" => worker.req = {}
    /\ worker.at = "answered" => \E r \in Requests : worker.req = {r}
    /\ worker.at = "answered" /\ scene.mode = "readwrite" => Asked \cap disk.cached = {}

\* A recommended compaction has the finished directory for itself, and leaves nothing of
\* what it has passed.
WantedInv ==
    call.wanted =>
        /\ call.at \in Compacting \cup {"done"} /\ call.profile \in {"compact", "minimal"}
        /\ row \in {"completed", "failed"}
        /\ call.at # "homes" => "homes" \notin disk.files
        /\ call.profile = "compact" \/ call.at \notin {"homes", "cache"} => disk.cacheBytes = 0
        /\ call.profile = "compact" \/ call.at \notin {"homes", "cache", "traces"} => "traces" \notin disk.files
        /\ call.at = "rewrite" => call.upto = Max({0, LatestCheckpoint(disk) - 1})
        /\ call.at \in {"record", "done"} => Full(disk) \subseteq {LatestCheckpoint(disk)}

\* The budget of a tick has seen all but the unseen bytes, and a line that is not noted yet.
BudgetInv ==
    Ticking /\ budget.fresh =>
        Used - unseen <= budget.size + IF worker.at \in {"publish", "error"} THEN 1 ELSE 0

StorageInv == Types /\ RowInv /\ MainInv /\ CanonInv /\ ReaderInv /\ SavesInv /\ PaidInv
                /\ WantedInv /\ BudgetInv

-----------------------------------------------------------------------------
(* Types. *)

LEMMA TypesInit == Init => Types
  BY RunStorageAssumption DEF Init, Types, Absent, NoFeed, Feed, Idle, NoBudget, NoCall, Statuses, FeedType,
        DiskType, Places, Inside, WorkerType, CallType, Compacting, ReaderType

\* The larger and the smaller of two numbers, as the code takes them with max and min.
LEMMA MaxOfTwo == \A a, b \in Int : Max({a, b}) = IF a >= b THEN a ELSE b
  BY DEF Max

LEMMA MinOfTwo == \A a, b \in Int : Min({a, b}) = IF a <= b THEN a ELSE b
  BY DEF Min

\* The parts of a directory and what may be put in their place.
LEMMA DiskParts ==
  ASSUME NEW d \in DiskType
  PROVE  /\ d.dir \in BOOLEAN /\ d.over \in BOOLEAN /\ d.refs \in BOOLEAN
         /\ d.main \in FeedType /\ d.canon \in FeedType
         /\ d.main.lines \in Seq(Nat) /\ d.canon.lines \in Seq(Nat)
         /\ d.saves \in Seq({"full", "summary"})
         /\ d.cached \in SUBSET Bodies /\ d.cacheBytes \in Nat
         /\ d.files \in SUBSET FileNames
  BY DEF DiskType, FeedType

\* What may be put in the place of a part of the directory.
LEMMA DiskUpdates ==
  ASSUME NEW d \in DiskType
  PROVE  /\ \A b \in BOOLEAN : [d EXCEPT !.dir = b] \in DiskType
         /\ \A f \in FeedType : [d EXCEPT !.main = f] \in DiskType
         /\ \A f \in FeedType : [d EXCEPT !.canon = f] \in DiskType
         /\ \A s \in Seq({"full", "summary"}) : [d EXCEPT !.saves = s] \in DiskType
         /\ \A s \in Seq({"full", "summary"}), b \in BOOLEAN :
               [d EXCEPT !.saves = s, !.over = b] \in DiskType
         /\ \A F \in SUBSET FileNames : [d EXCEPT !.files = F] \in DiskType
         /\ \A F \in SUBSET FileNames : [d EXCEPT !.files = F, !.refs = TRUE] \in DiskType
         /\ \A F \in SUBSET FileNames, f \in FeedType : [d EXCEPT !.main = f, !.files = F] \in DiskType
         /\ \A S \in SUBSET Bodies, n \in Nat : [d EXCEPT !.cached = S, !.cacheBytes = n] \in DiskType
  BY DEF DiskType

\* A line more in a feed.
LEMMA AppendedTyped ==
  ASSUME NEW f \in FeedType, NEW n \in Nat PROVE Appended(f, n) \in FeedType
  BY DEF FeedType, Appended, Feed

\* A directory has finitely many full checkpoints and files, so it has a size.
LEMMA SizeTyped ==
  ASSUME NEW d \in DiskType
  PROVE  /\ IsFiniteSet(Full(d)) /\ IsFiniteSet(d.files)
         /\ Cardinality(Full(d)) \in Nat /\ Cardinality(d.files) \in Nat
         /\ RunBytes(d) \in Nat
  <1>1. Len(d.saves) \in Nat /\ DOMAIN d.saves = 1 .. Len(d.saves)
    BY DiskParts
  <1>2. IsFiniteSet(1 .. Len(d.saves))
    BY <1>1, FS_Interval
  <1>3. IsFiniteSet(Full(d))
    BY <1>1, <1>2, FS_Subset DEF Full
  <1>4. IsFiniteSet(FileNames)
    <2>1. IsFiniteSet({}) BY FS_EmptySet
    <2>2. IsFiniteSet({"homes"}) BY <2>1, FS_AddElement
    <2>3. IsFiniteSet({"homes"} \cup {"traces"}) BY <2>2, FS_AddElement
    <2>4. IsFiniteSet({"homes"} \cup {"traces"} \cup {"report"}) BY <2>3, FS_AddElement
    <2>5. IsFiniteSet({"homes"} \cup {"traces"} \cup {"report"} \cup {"normalized"}) BY <2>4, FS_AddElement
    <2>6. IsFiniteSet({"homes"} \cup {"traces"} \cup {"report"} \cup {"normalized"} \cup {"manifest"})
      BY <2>5, FS_AddElement
    <2>7. IsFiniteSet({"homes"} \cup {"traces"} \cup {"report"} \cup {"normalized"} \cup {"manifest"}
                        \cup {"compaction"})
      BY <2>6, FS_AddElement
    <2>8. FileNames = {"homes"} \cup {"traces"} \cup {"report"} \cup {"normalized"} \cup {"manifest"}
                        \cup {"compaction"}
      BY DEF FileNames
    <2> QED BY <2>7, <2>8
  <1>5. IsFiniteSet(d.files)
    BY <1>4, FS_Subset, DiskParts
  <1>6. Cardinality(Full(d)) \in Nat /\ Cardinality(d.files) \in Nat
    BY <1>3, <1>5, FS_CardinalityType
  <1>7. Len(d.main.lines) \in Nat /\ Len(d.canon.lines) \in Nat /\ d.cacheBytes \in Nat
    BY DiskParts
  <1>8. \A a, b, c, e, f \in Nat : a + b + c + e + f \in Nat
    OBVIOUS
  <1>9. RunBytes(d) \in Nat
    BY <1>6, <1>7, <1>8, Zenon DEF RunBytes
  <1> QED BY <1>3, <1>5, <1>6, <1>9

LEMMA UsedTyped == ASSUME Types PROVE Used \in Nat
  BY SizeTyped DEF Types, Used, DirectorySize

\* What the budget has not seen stays a number.
LEMMA GrowsTyped ==
  ASSUME Types, NEW d \in DiskType, Grows(d) PROVE unseen' \in Nat
  BY SizeTyped, MaxOfTwo DEF Types, Grows

\* What a failed or interrupted write leaves is a directory still.
LEMMA TornTyped ==
  ASSUME Types, worker.at \in {"write", "publish"}, NEW d \in TornDisks PROVE d \in DiskType
  <1>1. ASSUME NEW f \in FeedType, NEW n \in Nat PROVE Torn(f, n) \subseteq FeedType
    BY AppendedTyped DEF FeedType, Torn
  <1>2. disk.main \in FeedType /\ disk.canon \in FeedType /\ worker.records + 1 \in Nat
    BY DEF Types, DiskType, WorkerType
  <1>3. \A f \in FeedType : [disk EXCEPT !.main = f] \in DiskType /\ [disk EXCEPT !.canon = f] \in DiskType
    BY DiskUpdates DEF Types
  <1> QED BY <1>1, <1>2, <1>3 DEF TornDisks

\* The parts of a tick, of a request and of a reader.
LEMMA WorkerUpdates ==
  ASSUME Types
  PROVE  /\ \A p \in Places : [worker EXCEPT !.at = p] \in WorkerType
         /\ \A p \in Places : [worker EXCEPT !.at = p, !.req = {}] \in WorkerType
         /\ \A r \in Requests : [worker EXCEPT !.at = "answered", !.req = {r}] \in WorkerType
         /\ \A b \in BOOLEAN : [worker EXCEPT !.linked = b] \in WorkerType
  BY DEF Types, WorkerType, Places, Inside

LEMMA WorkerParts ==
  ASSUME Types
  PROVE  /\ worker.records \in Nat /\ worker.seq \in Nat /\ worker.linked \in BOOLEAN
         /\ worker.at \in Places /\ worker.req \subseteq Requests
  BY DEF Types, WorkerType

LEMMA CallUpdates ==
  ASSUME Types
  PROVE  /\ \A p \in Compacting \cup {"idle", "remove", "unrow", "drop", "done"} :
               [call EXCEPT !.at = p] \in CallType
         /\ \A n \in Nat : [call EXCEPT !.at = "rewrite", !.upto = n] \in CallType
         /\ NoCall \in CallType
  BY DEF Types, CallType, Compacting, NoCall

LEMMA ReaderUpdates ==
  ASSUME Types
  PROVE  /\ \A p \in {"row", "feed", "told", "closed"} : [reader EXCEPT !.at = p] \in ReaderType
         /\ \A p \in {"row", "feed", "told", "closed"}, b \in BOOLEAN :
               [reader EXCEPT !.at = p, !.over = b] \in ReaderType
         /\ \A p \in {"row", "feed", "told", "closed"}, g \in Seq(Nat), n \in Nat :
               [reader EXCEPT !.at = p, !.got = g, !.last = n, !.over = FALSE] \in ReaderType
  BY DEF Types, ReaderType

\* The directories the steps of a tick and of a compaction write.
LEMMA FilesTyped ==
  ASSUME NEW d \in DiskType, NEW F \in SUBSET FileNames
  PROVE  /\ [d EXCEPT !.files = @ \cup F] \in DiskType
         /\ [d EXCEPT !.files = @ \cup F, !.refs = TRUE] \in DiskType
         /\ [d EXCEPT !.files = @ \ F] \in DiskType
  BY DiskParts, DiskUpdates

\* A cache and a history after an update.
LEMMA StoredTyped ==
  ASSUME Types, NEW r \in Requests, NEW n \in {0, 1}, NEW F \in SUBSET FileNames
  PROVE  [Stored(r, n) EXCEPT !.files = @ \cup F] \in DiskType
  <1>1. Normalized(r) \in Bodies
    BY DEF Bodies
  <1>2. disk.cached \cup {Normalized(r)} \in SUBSET Bodies /\ disk.cacheBytes + 1 + n \in Nat
    BY <1>1, DiskParts DEF Types
  <1>3. Stored(r, n) \in DiskType
    BY <1>2, DiskUpdates DEF Stored, Types
  <1> QED BY <1>3, FilesTyped

LEMMA SavesTyped ==
  ASSUME NEW d \in DiskType
  PROVE  /\ \A b \in BOOLEAN : [d EXCEPT !.saves = Append(@, "full"), !.over = b] \in DiskType
         /\ \A i \in DOMAIN d.saves : [d EXCEPT !.saves[i] = "summary"] \in DiskType
  <1>1. d.saves \in Seq({"full", "summary"})
    BY DiskParts
  <1>2. Append(d.saves, "full") \in Seq({"full", "summary"})
    BY <1>1
  <1>3. \A i \in DOMAIN d.saves : [d.saves EXCEPT ![i] = "summary"] \in Seq({"full", "summary"})
    BY <1>1, ExceptSeq
  <1> QED BY <1>1, <1>2, <1>3, DiskUpdates

\* A set of naturals that is not empty has its least element.
LEMMA LeastIsThere ==
  ASSUME NEW d \in DiskType, NEW n \in Nat, Full(d) \cap (1 .. n) # {}
  PROVE  /\ Min(Full(d) \cap (1 .. n)) \in Full(d)
         /\ Min(Full(d) \cap (1 .. n)) \in 1 .. n
  <1> DEFINE T == Full(d) \cap (1 .. n)
  <1>1. T \subseteq Nat /\ T # {}
    OBVIOUS
  <1>2. PICK x \in T : \A y \in T : ~(<<y, x>> \in OpToRel(<, Nat))
    BY <1>1, NatLessThanWellFounded, WFMin
  <1>3. \A y \in T : x <= y
    <2> SUFFICES ASSUME NEW y \in T PROVE x <= y
      OBVIOUS
    <2> HIDE DEF T
    <2>1. x \in Nat /\ y \in Nat /\ ~(<<y, x>> \in OpToRel(<, Nat))
      BY <1>1, <1>2
    <2> QED BY <2>1 DEF OpToRel
  <1>4. Min(T) \in T
    BY <1>3 DEF Min
  <1> QED BY <1>4

\* What a reader is sent is a piece of its feed.
LEMMA UnsentTyped ==
  ASSUME NEW k, NEW n \in Nat, FeedOf(k).lines \in Seq(Nat), PageLimit \in Nat
  PROVE  /\ Sent(FeedOf(k).lines, n) \in 0 .. Len(FeedOf(k).lines)
         /\ Unsent(k, n) \in Seq(Nat)
  <1> DEFINE lines == FeedOf(k).lines
             S     == {i \in DOMAIN lines : lines[i] <= n}
  <1>1. Len(lines) \in Nat /\ DOMAIN lines = 1 .. Len(lines)
    OBVIOUS
  <1>2. IsFiniteSet(1 .. Len(lines)) /\ Cardinality(1 .. Len(lines)) = Len(lines)
    BY <1>1, FS_Interval
  <1>3. IsFiniteSet(S) /\ Cardinality(S) <= Len(lines)
    BY <1>1, <1>2, FS_Subset
  <1>4. Sent(lines, n) \in 0 .. Len(lines)
    BY <1>1, <1>3, FS_CardinalityType DEF Sent
  <1>5. Min({Sent(lines, n) + PageLimit, Len(lines)}) \in 0 .. Len(lines)
    <2>1. ASSUME NEW a \in Nat, NEW b \in Nat, NEW c \in 0 .. b PROVE Min({c + a, b}) \in 0 .. b
      BY MinOfTwo
    <2> QED BY <1>1, <1>4, <2>1
  <1>6. \A m \in 0 .. Len(lines) : SubSeq(lines, Sent(lines, n) + 1, m) \in Seq(Nat)
    BY <1>1, <1>4, SubSeqProperties
  <1>7. Len(lines) \in 0 .. Len(lines)
    BY <1>1
  <1> QED BY <1>4, <1>5, <1>6, <1>7 DEF Unsent

LEMMA AbsentTyped == NoFeed \in FeedType /\ Absent \in DiskType
  BY DEF NoFeed, Feed, FeedType, Absent, DiskType

\* Every action keeps the types.
LEMMA TypesBeginTick == ASSUME Types, BeginTick PROVE Types'
  BY DEF Types, BeginTick, WorkerType, Places, Inside, Goes, untouched

LEMMA TypesEnsureRunWorkspace == ASSUME Types, EnsureRunWorkspace PROVE Types'
  BY DEF Types, EnsureRunWorkspace, WorkerType, Places, Inside, Goes, DiskType, FeedType, untouched

LEMMA TypesOpenRunContext == ASSUME Types, OpenRunContext PROVE Types'
  <1>1. worker' \in WorkerType
    <2>1. CASE ~BelowSoft(Used)
      BY <2>1, WorkerUpdates DEF OpenRunContext, Goes, Places
    <2>2. CASE BelowSoft(Used)
      <3>1. Len(disk.main.lines) \in Nat /\ Len(disk.saves) \in Nat
        BY DiskParts DEF Types
      <3>2. [disk EXCEPT !.dir = TRUE].main = disk.main /\ [disk EXCEPT !.dir = TRUE].saves = disk.saves
        BY DEF Types, DiskType
      <3>3. \E p \in {"write", "error"} :
               worker' = [Idle EXCEPT !.at = p, !.stage = "opening", !.records = Len(disk.main.lines),
                                      !.seq = Len(disk.saves)]
        BY <2>2, <3>2 DEF OpenRunContext, LatestCheckpoint
      <3> QED BY <3>1, <3>3 DEF Idle, WorkerType, Places, Inside
    <2> QED BY <2>1, <2>2
  <1>2. disk' \in DiskType
    BY ZenonT(40) DEF Types, OpenRunContext, DiskType, FeedType
  <1>3. budget' \in [size : Nat, fresh : BOOLEAN]
    BY UsedTyped DEF Types, OpenRunContext
  <1>4. unseen' \in Nat
    BY DEF Types, OpenRunContext
  <1> QED BY <1>1, <1>2, <1>3, <1>4 DEF Types, OpenRunContext, untouched

LEMMA TypesEmit == ASSUME Types, Emit PROVE Types'
  <1>1. worker' \in WorkerType
    BY DEF Types, Emit, WorkerType, Places, Inside, Goes
  <1>2. disk' \in DiskType
    <2>1. Appended(disk.main, worker.records + 1) \in FeedType
      BY AppendedTyped, DiskParts, WorkerParts DEF Types
    <2>2. [disk EXCEPT !.main = Appended(@, worker.records + 1)] \in DiskType
      BY <2>1, DiskUpdates DEF Types
    <2> QED BY <2>2 DEF Emit, Writes, Types
  <1>3. budget' \in [size : Nat, fresh : BOOLEAN]
    BY UsedTyped DEF Types, Emit, CurrentUsed, Evaluated
  <1>4. unseen' \in Nat
    BY DEF Types, Emit, Evaluated
  <1> QED BY <1>1, <1>2, <1>3, <1>4 DEF Types, Emit, untouched

LEMMA TypesPublish == ASSUME Types, Publish PROVE Types'
  <1>1. worker' \in WorkerType
    <2>1. worker.records + 1 \in Nat
      BY WorkerParts
    <2> QED BY <2>1 DEF Publish, Types, WorkerType, Places, Inside
  <1>2. disk' \in DiskType
    <2>1. Appended(disk.canon, worker.records + 1) \in FeedType
      BY AppendedTyped, DiskParts, WorkerParts DEF Types
    <2>2. [disk EXCEPT !.canon = Appended(@, worker.records + 1)] \in DiskType
      BY <2>1, DiskUpdates DEF Types
    <2> QED BY <2>2 DEF Publish, Writes, Types
  <1>3. budget' \in [size : Nat, fresh : BOOLEAN]
    BY DEF Types, Publish, NoteAppended, EventBytes
  <1> QED BY <1>1, <1>2, <1>3 DEF Types, Publish, untouched

LEMMA TypesWriteFails == ASSUME Types, WriteFails PROVE Types'
  BY TornTyped, GrowsTyped DEF Types, WriteFails, WorkerType, Places, Inside, Goes, Writes

LEMMA TypesOpenCache == ASSUME Types, OpenCache PROVE Types'
  BY DEF Types, OpenCache, WorkerType, Places, Inside, untouched

LEMMA TypesCachedCall == ASSUME Types, CachedCall PROVE Types'
  <1>1. worker' \in WorkerType
    BY WorkerUpdates DEF Places, CachedCall, Goes
  <1>2. paid' \in [Bodies -> Nat]
    BY DEF Types, CachedCall, Bodies
  <1> QED BY <1>1, <1>2 DEF Types, CachedCall, untouched

LEMMA TypesPutAnswer == ASSUME Types, PutAnswer PROVE Types'
  <1>1. worker' \in WorkerType
    <2>1. /\ [worker EXCEPT !.at = "error", !.req = {}] \in WorkerType
          /\ [worker EXCEPT !.at = "write", !.req = {}] \in WorkerType
      BY WorkerUpdates DEF Places, Inside
    <2>2. \/ worker' = [worker EXCEPT !.at = "error", !.req = {}]
          \/ worker' = [worker EXCEPT !.at = "write", !.req = {}]
      BY DEF PutAnswer
    <2> QED BY <2>1, <2>2
  <1>2. disk' \in DiskType
    <2>1. {"traces", "homes"} \in SUBSET FileNames /\ worker.req \subseteq Requests /\ disk \in DiskType
      BY WorkerParts DEF FileNames, Types
    <2>2. [disk EXCEPT !.files = @ \cup {"traces", "homes"}] \in DiskType
      BY <2>1, FilesTyped
    <2>3. \A r \in worker.req, n \in {0, 1} :
             [Stored(r, n) EXCEPT !.files = @ \cup {"traces", "homes"}] \in DiskType
      BY <2>1, StoredTyped
    <2>4. \E d \in DiskType : Writes(d)
      BY <2>2, <2>3 DEF PutAnswer
    <2> QED BY <2>1, <2>4 DEF Writes
  <1>3. unseen' \in Nat
    BY WorkerParts, FilesTyped, StoredTyped, GrowsTyped DEF FileNames, Types, PutAnswer
  <1>4. lost' \in [Bodies -> Nat]
    BY DEF Types, PutAnswer, Bodies, WorkerType
  <1> QED BY <1>1, <1>2, <1>3, <1>4 DEF Types, PutAnswer, untouched

LEMMA TypesSaveCheckpoint == ASSUME Types, SaveCheckpoint PROVE Types'
  <1>1. worker' \in WorkerType
    BY DEF Types, SaveCheckpoint, WorkerType, Places, Inside, Goes
  <1>2. disk' \in DiskType
    BY SavesTyped DEF Types, SaveCheckpoint, Writes
  <1>3. unseen' \in Nat
    <2>1. CASE worker.linked
      BY <2>1, SavesTyped, GrowsTyped DEF SaveCheckpoint, Types
    <2> QED BY <2>1 DEF SaveCheckpoint, Types
  <1> QED BY <1>1, <1>2, <1>3 DEF Types, SaveCheckpoint, untouched

LEMMA TypesCompactPrevious == ASSUME Types, SavesInv, CompactPrevious PROVE Types'
  <1>1. worker' \in WorkerType
    <2>1. worker.seq + 1 \in Nat
      BY WorkerParts
    <2> QED BY <2>1 DEF CompactPrevious, Types, WorkerType, Places, Inside
  <1>2. disk' \in DiskType
    <2>1. CASE Previous # 0 /\ worker.linked
      <3>1. Previous \in DOMAIN disk.saves
        BY <2>1, WorkerParts DEF CompactPrevious, SavesInv, Inside, Previous
      <3> QED BY <2>1, <3>1, SavesTyped DEF CompactPrevious, Types
    <2> QED BY <2>1 DEF CompactPrevious, Types
  <1> QED BY <1>1, <1>2 DEF Types, CompactPrevious, untouched

LEMMA TypesEndTick == ASSUME Types, EndTick PROVE Types'
  BY DEF Types, EndTick, WorkerType, Places, Inside, Rests, Idle, NoBudget, untouched

LEMMA TypesWriteReport == ASSUME Types, WriteReport PROVE Types'
  <1>1. worker' \in WorkerType
    BY DEF Types, WriteReport, WorkerType, Places, Inside, Goes
  <1>2. disk' \in DiskType
    <2>1. [disk EXCEPT !.files = @ \cup {"report"}] \in DiskType
      BY FilesTyped DEF Types, FileNames
    <2> QED BY <2>1 DEF WriteReport, Types, Writes
  <1>3. unseen' \in Nat
    <2>1. CASE worker.linked /\ Grows([disk EXCEPT !.files = @ \cup {"report"}])
      BY FilesTyped, <2>1, GrowsTyped DEF Types, FileNames
    <2> QED BY <2>1 DEF WriteReport, Types
  <1> QED BY <1>1, <1>2, <1>3 DEF Types, WriteReport, untouched

LEMMA TypesNormalizeFeed == ASSUME Types, NormalizeFeed PROVE Types'
  <1>1. worker' \in WorkerType
    BY DEF Types, NormalizeFeed, WorkerType, Places, Inside, Goes
  <1>2. disk' \in DiskType
    <2>1. [disk EXCEPT !.files = @ \cup {"normalized"}] \in DiskType
      BY FilesTyped DEF Types, FileNames
    <2> QED BY <2>1 DEF NormalizeFeed, Types, Writes
  <1>3. unseen' \in Nat
    <2>1. CASE worker.linked /\ Grows([disk EXCEPT !.files = @ \cup {"normalized"}])
      BY FilesTyped, <2>1, GrowsTyped DEF Types, FileNames
    <2> QED BY <2>1 DEF NormalizeFeed, Types
  <1> QED BY <1>1, <1>2, <1>3 DEF Types, NormalizeFeed, untouched

LEMMA TypesWriteManifest == ASSUME Types, WriteManifest PROVE Types'
  <1>1. worker' \in WorkerType
    BY DEF Types, WriteManifest, WorkerType, Places, Inside, Goes
  <1>2. disk' \in DiskType
    <2>1. [disk EXCEPT !.files = @ \cup {"manifest"}, !.refs = TRUE] \in DiskType
      BY FilesTyped DEF Types, FileNames
    <2> QED BY <2>1 DEF WriteManifest, Types, Writes
  <1>3. unseen' \in Nat
    <2>1. CASE worker.linked /\ Grows([disk EXCEPT !.files = @ \cup {"manifest"}, !.refs = TRUE])
      BY FilesTyped, <2>1, GrowsTyped DEF Types, FileNames
    <2> QED BY <2>1 DEF WriteManifest, Types
  <1> QED BY <1>1, <1>2, <1>3 DEF Types, WriteManifest, untouched

LEMMA TypesSettle == ASSUME Types, Settle PROVE Types'
  BY DEF Types, Settle, Statuses, WorkerType, Places, Inside, Rests, Idle, NoBudget

LEMMA TypesSeesCancel == ASSUME Types, SeesCancel PROVE Types'
  BY DEF Types, SeesCancel, WorkerType, Places, Inside, Rests, Idle, NoBudget, untouched

LEMMA TypesBeginCall == ASSUME Types, BeginCall PROVE Types'
  BY DEF Types, BeginCall, CallType, Compacting

LEMMA TypesRemoveRunDir == ASSUME Types, RemoveRunDir PROVE Types'
  <1>1. worker' \in WorkerType
    BY DEF Types, RemoveRunDir, WorkerType, Places, Inside
  <1>2. disk' \in DiskType
    BY AbsentTyped, DiskUpdates DEF RemoveRunDir
  <1>3. call' \in CallType
    BY CallUpdates DEF RemoveRunDir, CallGoes, CallEnds
  <1>4. kept' \in BOOLEAN
    BY DEF Types, RemoveRunDir
  <1> QED BY <1>1, <1>2, <1>3, <1>4 DEF Types, RemoveRunDir

LEMMA TypesDeleteRow == ASSUME Types, DeleteRow PROVE Types'
  BY DEF Types, DeleteRow, CallType, Compacting, CallEnds, NoCall, Statuses, bystanders

LEMMA TypesCompactionFails == ASSUME Types, CompactionFails PROVE Types'
  BY DEF Types, CompactionFails, CallType, Compacting, CallEnds, NoCall, bystanders

LEMMA TypesCompactHomes == ASSUME Types, CompactHomes PROVE Types'
  BY DEF Types, CompactHomes, CallType, Compacting, CallGoes, DiskType, FeedType, bystanders

LEMMA TypesCompactCache == ASSUME Types, CompactCache PROVE Types'
  BY DEF Types, CompactCache, CallType, Compacting, CallGoes, DiskType, FeedType, bystanders

LEMMA TypesCompactTraces == ASSUME Types, CompactTraces PROVE Types'
  BY DEF Types, CompactTraces, CallType, Compacting, CallGoes, DiskType, FeedType, bystanders

LEMMA TypesReadHistory == ASSUME Types, ReadHistory PROVE Types'
  <1>1. call' \in CallType
    <2>1. Len(disk.saves) - 1 \in Int
      BY DiskParts DEF Types
    <2>2. Max({0, LatestCheckpoint(disk) - 1}) \in Nat
      BY <2>1, MaxOfTwo DEF LatestCheckpoint
    <2> QED BY <2>2, CallUpdates DEF ReadHistory
  <1> QED BY <1>1 DEF Types, ReadHistory, bystanders

LEMMA TypesRewriteCheckpoint == ASSUME Types, RewriteCheckpoint PROVE Types'
  <1>1. call' \in CallType
    BY CallUpdates DEF Types, RewriteCheckpoint, CallGoes, Compacting
  <1>2. disk' \in DiskType
    <2>1. CASE Full(disk) \cap (1..call.upto) = {}
      BY <2>1 DEF RewriteCheckpoint, Types
    <2>2. CASE Full(disk) \cap (1..call.upto) # {}
      <3>1. Min(Full(disk) \cap (1..call.upto)) \in Full(disk)
        BY <2>2, LeastIsThere DEF Types, CallType
      <3>2. Min(Full(disk) \cap (1..call.upto)) \in DOMAIN disk.saves
        BY <3>1 DEF Full
      <3> QED BY <3>2, SavesTyped DEF RewriteCheckpoint, Types
    <2> QED BY <2>1, <2>2
  <1> QED BY <1>1, <1>2 DEF Types, RewriteCheckpoint, bystanders

LEMMA TypesRecordCompaction == ASSUME Types, RecordCompaction PROVE Types'
  <1>1. call' \in CallType
    BY CallUpdates DEF RecordCompaction, CallGoes, CallEnds
  <1>2. disk' \in DiskType
    <2>1. [disk EXCEPT !.files = @ \cup {"compaction"}] \in DiskType
      BY FilesTyped DEF Types, FileNames
    <2> QED BY <2>1 DEF RecordCompaction, Types
  <1>3. unseen' \in Nat
    BY DEF Types, RecordCompaction
  <1> QED BY <1>1, <1>2, <1>3 DEF Types, RecordCompaction

LEMMA TypesDropArtifacts == ASSUME Types, DropArtifacts PROVE Types'
  <1>1. worker' \in WorkerType
    BY DEF Types, DropArtifacts, WorkerType, Places, Inside
  <1>2. call' \in CallType
    BY DEF Types, DropArtifacts, CallType, Compacting, CallEnds, NoCall
  <1>3. disk' \in DiskType
    <2>1. disk.files \ {"normalized", "manifest"} \in SUBSET FileNames /\ NoFeed \in FeedType
      BY DiskParts, AbsentTyped DEF Types
    <2>2. [disk EXCEPT !.main = NoFeed, !.files = @ \ {"normalized", "manifest"}] \in DiskType
      BY <2>1, DiskUpdates DEF Types
    <2> QED BY <2>2 DEF DropArtifacts, Types
  <1>4. kept' \in BOOLEAN
    BY DEF Types, DropArtifacts
  <1> QED BY <1>1, <1>2, <1>3, <1>4 DEF Types, DropArtifacts

LEMMA TypesReadRow == ASSUME Types, ReadRow PROVE Types'
  <1>1. reader' \in ReaderType
    <2> DEFINE p == IF row = "gone" /\ reader.kind = "websocket" THEN "closed" ELSE "feed"
               b == IF row = "gone" THEN "manifest" \in disk.files ELSE IsTerminal(row)
    <2>1. p \in {"row", "feed", "told", "closed"}
      OBVIOUS
    <2>2. b \in BOOLEAN
      <3>1. ("manifest" \in disk.files) \in BOOLEAN /\ IsTerminal(row) \in BOOLEAN
        BY DEF IsTerminal
      <3>2. CASE row = "gone"
        BY <3>1, <3>2
      <3>3. CASE row # "gone"
        BY <3>1, <3>3
      <3> QED BY <3>2, <3>3
    <2>3. reader' = [reader EXCEPT !.at = p, !.over = b]
      BY DEF ReadRow
    <2> HIDE DEF p, b
    <2> QED BY <2>1, <2>2, <2>3, ReaderUpdates
  <1> QED BY <1>1 DEF Types, ReadRow, audience

LEMMA TypesReadFeed == ASSUME Types, ReadFeed PROVE Types'
  <1>1. reader' \in ReaderType
    <2>1. FeedOf(reader.kind).lines \in Seq(Nat) /\ reader.got \in Seq(Nat) /\ reader.last \in Nat
      BY DiskParts DEF Types, ReaderType, FeedOf
    <2>2. Unsent(reader.kind, reader.last) \in Seq(Nat)
      BY <2>1, UnsentTyped, RunStorageAssumption
    <2>3. reader.got \o Unsent(reader.kind, reader.last) \in Seq(Nat)
      BY <2>1, <2>2
    <2>4. Unsent(reader.kind, reader.last) # <<>> => Last(Unsent(reader.kind, reader.last)) \in Nat
      BY <2>2 DEF Last
    <2> QED BY <2>1, <2>3, <2>4, ReaderUpdates DEF ReadFeed
  <1> QED BY <1>1 DEF Types, ReadFeed, audience

LEMMA TypesCancel == ASSUME Types, Cancel PROVE Types'
  BY DEF Types, Cancel, Statuses

LEMMA TypesCrash == ASSUME Types, Crash PROVE Types'
  <1>1. worker' \in WorkerType
    BY DEF Types, Crash, WorkerType, Places, Inside, Rests, Idle
  <1>2. budget' \in [size : Nat, fresh : BOOLEAN]
    BY DEF Types, Crash, Rests, NoBudget
  <1>3. unseen' \in Nat
    BY DEF Types, Crash, Rests
  <1>4. disk' \in DiskType
    BY TornTyped DEF Types, Crash, Writes
  <1>5. call' \in CallType
    BY DEF Types, Crash, CallType, Compacting, NoCall
  <1>6. reader' \in ReaderType
    BY DEF Types, Crash, ReaderType
  <1>7. lost' \in [Bodies -> Nat]
    <2>1. ASSUME NEW b \in Bodies PROVE Cardinality({b} \cap Asked) \in Nat
      BY FS_Singleton, FS_Subset, FS_CardinalityType
    <2> QED BY <2>1 DEF Crash, Types
  <1>8. faults' \in Nat
    BY DEF Types, Crash
  <1> QED BY <1>1, <1>2, <1>3, <1>4, <1>5, <1>6, <1>7, <1>8 DEF Types, Crash

LEMMA TypesRestart == ASSUME Types, Restart PROVE Types'
  BY DEF Types, Restart, WorkerType, Places, Inside, Idle, Statuses

LEMMA TypesCacheTtl == ASSUME Types, CacheTtl PROVE Types'
  BY DEF Types, CacheTtl

LEMMA TypesOthersWrite == ASSUME Types, OthersWrite PROVE Types'
  BY DEF Types, OthersWrite

\* No step leaves the types.
LEMMA TypesStep == ASSUME StorageInv, [Next]_vars PROVE Types'
  <1>1. CASE UNCHANGED vars
    BY <1>1 DEF StorageInv, Types, vars
  <1>2. CASE BeginTick BY <1>2, TypesBeginTick DEF StorageInv
  <1>3. CASE EnsureRunWorkspace BY <1>3, TypesEnsureRunWorkspace DEF StorageInv
  <1>4. CASE OpenRunContext BY <1>4, TypesOpenRunContext DEF StorageInv
  <1>5. CASE Emit BY <1>5, TypesEmit DEF StorageInv
  <1>6. CASE Publish BY <1>6, TypesPublish DEF StorageInv
  <1>7. CASE WriteFails BY <1>7, TypesWriteFails DEF StorageInv
  <1>8. CASE OpenCache BY <1>8, TypesOpenCache DEF StorageInv
  <1>9. CASE CachedCall BY <1>9, TypesCachedCall DEF StorageInv
  <1>10. CASE PutAnswer BY <1>10, TypesPutAnswer DEF StorageInv
  <1>11. CASE SaveCheckpoint BY <1>11, TypesSaveCheckpoint DEF StorageInv
  <1>12. CASE CompactPrevious BY <1>12, TypesCompactPrevious DEF StorageInv
  <1>13. CASE EndTick BY <1>13, TypesEndTick DEF StorageInv
  <1>14. CASE WriteReport BY <1>14, TypesWriteReport DEF StorageInv
  <1>15. CASE NormalizeFeed BY <1>15, TypesNormalizeFeed DEF StorageInv
  <1>16. CASE WriteManifest BY <1>16, TypesWriteManifest DEF StorageInv
  <1>17. CASE Settle BY <1>17, TypesSettle DEF StorageInv
  <1>18. CASE SeesCancel BY <1>18, TypesSeesCancel DEF StorageInv
  <1>19. CASE BeginCall BY <1>19, TypesBeginCall DEF StorageInv
  <1>20. CASE RemoveRunDir BY <1>20, TypesRemoveRunDir DEF StorageInv
  <1>21. CASE DeleteRow \/ CompactionFails BY <1>21, TypesDeleteRow, TypesCompactionFails DEF StorageInv
  <1>22. CASE CompactHomes BY <1>22, TypesCompactHomes DEF StorageInv
  <1>23. CASE CompactCache BY <1>23, TypesCompactCache DEF StorageInv
  <1>24. CASE CompactTraces BY <1>24, TypesCompactTraces DEF StorageInv
  <1>25. CASE ReadHistory BY <1>25, TypesReadHistory DEF StorageInv
  <1>26. CASE RewriteCheckpoint BY <1>26, TypesRewriteCheckpoint DEF StorageInv
  <1>27. CASE RecordCompaction BY <1>27, TypesRecordCompaction DEF StorageInv
  <1>28. CASE DropArtifacts BY <1>28, TypesDropArtifacts DEF StorageInv
  <1>29. CASE ReadRow BY <1>29, TypesReadRow DEF StorageInv
  <1>30. CASE ReadFeed BY <1>30, TypesReadFeed DEF StorageInv
  <1>31. CASE Cancel BY <1>31, TypesCancel DEF StorageInv
  <1>32. CASE Crash BY <1>32, TypesCrash DEF StorageInv
  <1>33. CASE Restart BY <1>33, TypesRestart DEF StorageInv
  <1>34. CASE CacheTtl BY <1>34, TypesCacheTtl DEF StorageInv
  <1>35. CASE OthersWrite BY <1>35, TypesOthersWrite DEF StorageInv
  <1> QED BY <1>1, <1>2, <1>3, <1>4, <1>5, <1>6, <1>7, <1>8, <1>9, <1>10, <1>11, <1>12, <1>13, <1>14, <1>15,
        <1>16, <1>17, <1>18, <1>19, <1>20, <1>21, <1>22, <1>23, <1>24, <1>25, <1>26, <1>27, <1>28, <1>29,
        <1>30, <1>31, <1>32, <1>33, <1>34, <1>35 DEF Next, Tick, Maintenance

-----------------------------------------------------------------------------
(* Who has read the row. *)

\* Only a settled or cancelled row ends the run, and a call that maintains has read it.
LEMMA RowStep == ASSUME StorageInv, Types', Next PROVE RowInv'
  <1>1. CASE BeginTick
    BY <1>1 DEF StorageInv, Types, RowInv, BeginTick, Goes, untouched, WorkerType, CallType, ReaderType
  <1>2. CASE EnsureRunWorkspace
    BY <1>2 DEF StorageInv, Types, RowInv, EnsureRunWorkspace, Goes, untouched, WorkerType, CallType, ReaderType
  <1>3. CASE OpenRunContext
    <2>1. worker'.at \in {"write", "error"} /\ (worker'.linked \/ worker'.linked = worker.linked)
      BY ZenonT(40), <1>3 DEF OpenRunContext, Goes, Idle, StorageInv, Types, WorkerType
    <2>2. UNCHANGED <<row, kept, call, reader>> /\ worker.at = "open"
      BY <1>3 DEF OpenRunContext, untouched
    <2> QED BY <2>1, <2>2 DEF StorageInv, RowInv
  <1>4. CASE Emit
    BY <1>4 DEF StorageInv, Types, RowInv, Emit, Goes, untouched, WorkerType
  <1>5. CASE Publish
    BY <1>5 DEF StorageInv, Types, RowInv, Publish, untouched, WorkerType, CallType, ReaderType
  <1>6. CASE WriteFails
    BY <1>6 DEF StorageInv, Types, RowInv, WriteFails, Goes, WorkerType, CallType, ReaderType
  <1>7. CASE OpenCache
    BY <1>7 DEF StorageInv, Types, RowInv, OpenCache, untouched, WorkerType, CallType, ReaderType
  <1>8. CASE CachedCall
    BY <1>8 DEF StorageInv, Types, RowInv, CachedCall, Goes, untouched, WorkerType, CallType, ReaderType
  <1>9. CASE PutAnswer
    BY <1>9 DEF StorageInv, Types, RowInv, PutAnswer, untouched, WorkerType, CallType, ReaderType
  <1>10. CASE SaveCheckpoint
    BY <1>10 DEF StorageInv, Types, RowInv, SaveCheckpoint, Goes, untouched, WorkerType, CallType, ReaderType
  <1>11. CASE CompactPrevious
    BY <1>11 DEF StorageInv, Types, RowInv, CompactPrevious, untouched, WorkerType, CallType, ReaderType
  <1>12. CASE EndTick
    BY <1>12 DEF StorageInv, Types, RowInv, EndTick, Rests, Idle, untouched, WorkerType, CallType, ReaderType
  <1>13. CASE WriteReport
    BY <1>13 DEF StorageInv, Types, RowInv, WriteReport, Goes, untouched, WorkerType, CallType, ReaderType
  <1>14. CASE NormalizeFeed
    BY <1>14 DEF StorageInv, Types, RowInv, NormalizeFeed, Goes, untouched, WorkerType, CallType, ReaderType
  <1>15. CASE WriteManifest
    BY <1>15 DEF StorageInv, Types, RowInv, WriteManifest, untouched, WorkerType
  <1>16. CASE Settle
    BY <1>16 DEF StorageInv, Types, RowInv, Settle, Rests, Idle, WorkerType, CallType, ReaderType
  <1>17. CASE SeesCancel
    BY <1>17 DEF StorageInv, Types, RowInv, SeesCancel, Rests, Idle, untouched, WorkerType, CallType, ReaderType
  <1>18. CASE BeginCall
    <2>1. PICK op \in {"prune", "delete", "compact", "drop"} :
             /\ Admits(op)
             /\ call'.at = CASE op \in {"prune", "delete"} -> "remove"
                              [] op = "compact" -> "homes" [] op = "drop" -> "drop"
      BY <1>18 DEF BeginCall
    <2>2. call'.at # "drop" => row # "running" /\ call'.at # "unrow"
      BY <2>1 DEF Admits, IsTerminal
    <2>3. call'.at # "unrow"
      BY <2>1
    <2> QED BY <1>18, <2>2, <2>3 DEF StorageInv, RowInv, BeginCall
  <1>19. CASE RemoveRunDir
    BY <1>19 DEF StorageInv, Types, RowInv, RemoveRunDir, CallGoes, CallEnds, NoCall, WorkerType, CallType, ReaderType
  <1>20. CASE DeleteRow \/ CompactionFails
    BY <1>20 DEF StorageInv, Types, RowInv, DeleteRow, CompactionFails, CallEnds, NoCall, bystanders, WorkerType, CallType, ReaderType
  <1>21. CASE CompactHomes
    BY <1>21 DEF StorageInv, Types, RowInv, CompactHomes, CallGoes, bystanders, WorkerType, CallType, ReaderType
  <1>22. CASE CompactCache
    BY <1>22 DEF StorageInv, Types, RowInv, CompactCache, CallGoes, bystanders, WorkerType, CallType, ReaderType
  <1>23. CASE CompactTraces
    BY <1>23 DEF StorageInv, Types, RowInv, CompactTraces, CallGoes, bystanders, WorkerType, CallType, ReaderType
  <1>24. CASE ReadHistory
    BY <1>24 DEF StorageInv, Types, RowInv, ReadHistory, bystanders, WorkerType, CallType, ReaderType
  <1>25. CASE RewriteCheckpoint
    BY <1>25 DEF StorageInv, Types, RowInv, RewriteCheckpoint, CallGoes, bystanders, WorkerType, CallType, ReaderType
  <1>26. CASE RecordCompaction
    BY <1>26 DEF StorageInv, Types, RowInv, RecordCompaction, CallGoes, CallEnds, NoCall, WorkerType,
          CallType, ReaderType
  <1>27. CASE DropArtifacts
    BY <1>27 DEF StorageInv, Types, RowInv, DropArtifacts, CallEnds, NoCall, WorkerType, CallType, ReaderType
  <1>28. CASE ReadRow
    BY <1>28 DEF ReadRow, IsTerminal, StorageInv, Types, ReaderType, RowInv, audience
  <1>29. CASE ReadFeed
    BY <1>29 DEF StorageInv, Types, RowInv, ReadFeed, audience, WorkerType, CallType, ReaderType
  <1>30. CASE Cancel
    BY <1>30 DEF StorageInv, Types, RowInv, Cancel, WorkerType, CallType, ReaderType
  <1>31. CASE Crash
    BY <1>31 DEF StorageInv, Types, RowInv, Crash, Rests, Idle, NoCall, WorkerType, CallType, ReaderType
  <1>32. CASE Restart
    BY <1>32 DEF StorageInv, Types, RowInv, Restart, Idle, WorkerType, CallType, ReaderType
  <1>33. CASE CacheTtl \/ OthersWrite
    BY <1>33 DEF CacheTtl, OthersWrite, StorageInv, RowInv
  <1> QED BY <1>1, <1>2, <1>3, <1>4, <1>5, <1>6, <1>7, <1>8, <1>9, <1>10, <1>11, <1>12, <1>13, <1>14, <1>15,
        <1>16, <1>17, <1>18, <1>19, <1>20, <1>21, <1>22, <1>23, <1>24, <1>25, <1>26, <1>27, <1>28, <1>29,
        <1>30, <1>31, <1>32, <1>33 DEF Next, Tick, Maintenance

-----------------------------------------------------------------------------
(* What each action does to the parts of the state, for the invariants below to cite. *)

LEMMA BeginTickEffect ==
  ASSUME Types, BeginTick
  PROVE  /\ disk' = disk
         /\ worker'.stage = worker.stage /\ worker'.records = worker.records /\ worker'.seq = worker.seq
         /\ worker'.linked = worker.linked /\ worker'.req = worker.req
         /\ worker.at = "rest" /\ worker'.at \in {"ensure", "open"}
         /\ UNCHANGED <<row, budget, call, reader, foreign, paid, lost, unseen, kept, faults, calls, scene>>
  BY DEF Types, BeginTick, Goes, WorkerType, untouched

LEMMA OpenCacheEffect ==
  ASSUME Types, OpenCache
  PROVE  /\ disk' = disk
         /\ worker'.records = worker.records /\ worker'.seq = worker.seq /\ worker'.linked = worker.linked
         /\ worker'.req = worker.req
         /\ worker.at = "write" /\ worker'.at \in {"write", "error"}
         /\ UNCHANGED <<row, budget, call, reader, foreign, paid, lost, unseen, kept, faults, calls, scene>>
  BY DEF Types, OpenCache, WorkerType, untouched

LEMMA CachedCallEffect ==
  ASSUME Types, CachedCall
  PROVE  /\ disk' = disk
         /\ worker'.stage = worker.stage /\ worker'.records = worker.records /\ worker'.seq = worker.seq
         /\ worker'.linked = worker.linked
         /\ worker.at = "write" /\ worker'.at \in {"answered", "error"}
         /\ worker'.at = "error" => worker'.req = worker.req
         /\ UNCHANGED <<row, budget, call, reader, foreign, lost, unseen, kept, faults, calls, scene>>
  <1>1. /\ disk' = disk
    BY DEF Types, CachedCall
  <1>2. /\ worker'.stage = worker.stage /\ worker'.records = worker.records /\ worker'.seq = worker.seq
        /\ worker'.linked = worker.linked
        /\ worker.at = "write" /\ worker'.at \in {"answered", "error"}
        /\ worker'.at = "error" => worker'.req = worker.req
    BY DEF Types, CachedCall, Goes, WorkerType
  <1>3. UNCHANGED <<row, budget, call, reader, foreign, lost, unseen, kept, faults, calls, scene>>
    BY DEF CachedCall, untouched
  <1> QED BY <1>1, <1>2, <1>3

LEMMA EndTickEffect ==
  ASSUME Types, EndTick
  PROVE  /\ disk' = disk
         /\ worker.at = "write" /\ worker'.at = "rest" /\ worker'.linked /\ worker'.req = {}
         /\ UNCHANGED <<row, call, reader, foreign, paid, lost, kept, faults, calls, scene>>
  BY DEF Types, EndTick, Rests, Idle, WorkerType, untouched

LEMMA SettleEffect ==
  ASSUME Types, Settle
  PROVE  /\ disk' = disk
         /\ worker.at \in {"write", "error"} /\ worker'.at = "rest" /\ worker'.linked /\ worker'.req = {}
         /\ UNCHANGED <<call, reader, foreign, paid, lost, kept, faults, calls, scene>>
  BY DEF Types, Settle, Rests, Idle, WorkerType

LEMMA SeesCancelEffect ==
  ASSUME Types, SeesCancel
  PROVE  /\ disk' = disk
         /\ worker.at \in {"open", "write"} /\ worker'.at = "rest" /\ worker'.linked /\ worker'.req = {}
         /\ UNCHANGED <<row, call, reader, foreign, paid, lost, kept, faults, calls, scene>>
  BY DEF Types, SeesCancel, Rests, Idle, WorkerType, untouched

LEMMA RestartEffect ==
  ASSUME Types, Restart
  PROVE  /\ disk' = disk
         /\ worker.at = "down" /\ worker'.at = "rest" /\ worker'.linked /\ worker'.req = {}
         /\ UNCHANGED <<budget, call, reader, foreign, paid, lost, unseen, kept, faults, calls, scene>>
  BY DEF Types, Restart, Idle, WorkerType

LEMMA EnsureRunWorkspaceEffect ==
  ASSUME Types, EnsureRunWorkspace
  PROVE  /\ disk'.main = disk.main /\ disk'.canon = disk.canon /\ disk'.saves = disk.saves
         /\ disk'.over = disk.over /\ disk'.cached = disk.cached /\ disk'.cacheBytes = disk.cacheBytes
         /\ disk'.files = disk.files /\ disk'.refs = disk.refs
         /\ worker'.stage = worker.stage /\ worker'.records = worker.records /\ worker'.seq = worker.seq
         /\ worker'.linked = worker.linked /\ worker'.req = worker.req
         /\ worker.at = "ensure"
         /\ worker'.at \in {"rest", "open"}
         /\ UNCHANGED <<row, budget, call, reader, foreign, paid, lost, unseen, kept, faults, calls, scene>>
  BY DEF Types, EnsureRunWorkspace, DiskType, Goes, WorkerType, untouched

LEMMA OpenRunContextEffect ==
  ASSUME Types, OpenRunContext
  PROVE  /\ disk'.main = disk.main /\ disk'.canon = disk.canon /\ disk'.saves = disk.saves
         /\ disk'.over = disk.over /\ disk'.cached = disk.cached /\ disk'.cacheBytes = disk.cacheBytes
         /\ disk'.files = disk.files /\ disk'.refs = disk.refs
         /\ worker.at = "open"
         /\ worker'.at \in {"write", "error"}
         /\ (worker'.linked \/ worker'.linked = worker.linked) /\ (worker'.req = {} \/ worker'.req = worker.req)
         /\ worker'.at = "write" => worker'.linked /\ worker'.records = Len(disk.main.lines) /\ worker'.seq = Len(disk.saves)
         /\ UNCHANGED <<row, call, reader, foreign, paid, lost, kept, faults, calls, scene>>
  <1>1. /\ disk'.main = disk.main /\ disk'.canon = disk.canon /\ disk'.saves = disk.saves
        /\ disk'.over = disk.over /\ disk'.cached = disk.cached /\ disk'.cacheBytes = disk.cacheBytes
        /\ disk'.files = disk.files /\ disk'.refs = disk.refs
    BY DEF Types, OpenRunContext, DiskType
  <1>2. /\ worker.at = "open"
        /\ worker'.at \in {"write", "error"}
        /\ (worker'.linked \/ worker'.linked = worker.linked) /\ (worker'.req = {} \/ worker'.req = worker.req)
        /\ worker'.at = "write" => worker'.linked /\ worker'.records = Len(disk.main.lines) /\ worker'.seq = Len(disk.saves)
    <2>3. worker.at = "open"
      BY DEF OpenRunContext
    <2>1. CASE ~BelowSoft(Used)
      BY <2>1 DEF Types, OpenRunContext, Goes, WorkerType
    <2>2. CASE BelowSoft(Used)
      <3>1. [disk EXCEPT !.dir = TRUE].main = disk.main /\ [disk EXCEPT !.dir = TRUE].saves = disk.saves
        BY DEF Types, DiskType
      <3>2. \E p \in {"write", "error"} :
               worker' = [Idle EXCEPT !.at = p, !.stage = "opening", !.records = Len(disk.main.lines),
                                      !.seq = Len(disk.saves)]
        BY <2>2, <3>1 DEF OpenRunContext, LatestCheckpoint
      <3> QED BY <2>3, <3>2 DEF Idle
    <2> QED BY <2>1, <2>2
  <1>3. UNCHANGED <<row, call, reader, foreign, paid, lost, kept, faults, calls, scene>>
    BY DEF OpenRunContext, untouched
  <1> QED BY <1>1, <1>2, <1>3

LEMMA PutAnswerEffect ==
  ASSUME Types, PutAnswer
  PROVE  /\ disk'.dir = disk.dir /\ disk'.main = disk.main /\ disk'.canon = disk.canon
         /\ disk'.saves = disk.saves /\ disk'.over = disk.over /\ disk'.refs = disk.refs
         /\ worker'.stage = worker.stage /\ worker'.records = worker.records /\ worker'.seq = worker.seq
         /\ worker'.linked = worker.linked
         /\ worker.at = "answered"
         /\ worker'.at \in {"write", "error"} /\ worker'.req = {}
         /\ UNCHANGED <<row, budget, call, reader, foreign, paid, kept, faults, calls, scene>>
  <1>1. /\ disk'.dir = disk.dir /\ disk'.main = disk.main /\ disk'.canon = disk.canon
        /\ disk'.saves = disk.saves /\ disk'.over = disk.over /\ disk'.refs = disk.refs
    BY ZenonT(40) DEF Types, PutAnswer, Writes, DiskType, Stored
  <1>2. /\ worker'.stage = worker.stage /\ worker'.records = worker.records /\ worker'.seq = worker.seq
        /\ worker'.linked = worker.linked
        /\ worker.at = "answered"
        /\ worker'.at \in {"write", "error"} /\ worker'.req = {}
    BY DEF Types, PutAnswer, WorkerType
  <1>3. UNCHANGED <<row, budget, call, reader, foreign, paid, kept, faults, calls, scene>>
    BY DEF PutAnswer, untouched
  <1> QED BY <1>1, <1>2, <1>3

LEMMA SaveCheckpointEffect ==
  ASSUME Types, SaveCheckpoint
  PROVE  /\ disk'.dir = disk.dir /\ disk'.main = disk.main /\ disk'.canon = disk.canon
         /\ disk'.cached = disk.cached /\ disk'.cacheBytes = disk.cacheBytes /\ disk'.files = disk.files
         /\ disk'.refs = disk.refs
         /\ worker'.stage = worker.stage /\ worker'.records = worker.records /\ worker'.seq = worker.seq
         /\ worker'.linked = worker.linked /\ worker'.req = worker.req
         /\ worker.at = "write"
         /\ worker'.at \in {"compact", "error"}
         /\ UNCHANGED <<row, budget, call, reader, foreign, paid, lost, kept, faults, calls, scene>>
  <1>1. /\ disk'.dir = disk.dir /\ disk'.main = disk.main /\ disk'.canon = disk.canon
        /\ disk'.cached = disk.cached /\ disk'.cacheBytes = disk.cacheBytes /\ disk'.files = disk.files
        /\ disk'.refs = disk.refs
    BY DEF Types, SaveCheckpoint, Writes, DiskType
  <1>2. /\ worker'.stage = worker.stage /\ worker'.records = worker.records /\ worker'.seq = worker.seq
        /\ worker'.linked = worker.linked /\ worker'.req = worker.req
        /\ worker.at = "write"
        /\ worker'.at \in {"compact", "error"}
    BY DEF Types, SaveCheckpoint, Goes, WorkerType
  <1>3. UNCHANGED <<row, budget, call, reader, foreign, paid, lost, kept, faults, calls, scene>>
    BY DEF SaveCheckpoint, untouched
  <1> QED BY <1>1, <1>2, <1>3

LEMMA CompactPreviousEffect ==
  ASSUME Types, CompactPrevious
  PROVE  /\ disk'.dir = disk.dir /\ disk'.main = disk.main /\ disk'.canon = disk.canon
         /\ disk'.over = disk.over /\ disk'.cached = disk.cached /\ disk'.cacheBytes = disk.cacheBytes
         /\ disk'.files = disk.files /\ disk'.refs = disk.refs
         /\ worker'.records = worker.records /\ worker'.linked = worker.linked /\ worker'.req = worker.req
         /\ worker.at = "compact"
         /\ worker'.at = "write" /\ worker'.seq = worker.seq + 1
         /\ UNCHANGED <<row, budget, call, reader, foreign, paid, lost, unseen, kept, faults, calls, scene>>
  BY DEF Types, CompactPrevious, DiskType, WorkerType, untouched

LEMMA WriteReportEffect ==
  ASSUME Types, WriteReport
  PROVE  /\ disk'.dir = disk.dir /\ disk'.main = disk.main /\ disk'.canon = disk.canon
         /\ disk'.saves = disk.saves /\ disk'.over = disk.over /\ disk'.cached = disk.cached
         /\ disk'.cacheBytes = disk.cacheBytes /\ disk'.refs = disk.refs
         /\ worker'.records = worker.records /\ worker'.seq = worker.seq /\ worker'.linked = worker.linked
         /\ worker'.req = worker.req
         /\ worker.at = "write"
         /\ worker'.at \in {"write", "error"}
         /\ UNCHANGED <<row, budget, call, reader, foreign, paid, lost, kept, faults, calls, scene>>
  BY DEF Types, WriteReport, Writes, DiskType, Goes, WorkerType, untouched

LEMMA NormalizeFeedEffect ==
  ASSUME Types, NormalizeFeed
  PROVE  /\ disk'.dir = disk.dir /\ disk'.main = disk.main /\ disk'.canon = disk.canon
         /\ disk'.saves = disk.saves /\ disk'.over = disk.over /\ disk'.cached = disk.cached
         /\ disk'.cacheBytes = disk.cacheBytes /\ disk'.refs = disk.refs
         /\ worker'.stage = worker.stage /\ worker'.records = worker.records /\ worker'.seq = worker.seq
         /\ worker'.linked = worker.linked /\ worker'.req = worker.req
         /\ worker.at = "normalize"
         /\ worker'.at \in {"manifest", "error"}
         /\ UNCHANGED <<row, budget, call, reader, foreign, paid, lost, kept, faults, calls, scene>>
  BY DEF Types, NormalizeFeed, Writes, DiskType, Goes, WorkerType, untouched

LEMMA WriteManifestEffect ==
  ASSUME Types, WriteManifest
  PROVE  /\ disk'.dir = disk.dir /\ disk'.main = disk.main /\ disk'.canon = disk.canon
         /\ disk'.saves = disk.saves /\ disk'.over = disk.over /\ disk'.cached = disk.cached
         /\ disk'.cacheBytes = disk.cacheBytes
         /\ worker'.records = worker.records /\ worker'.seq = worker.seq /\ worker'.linked = worker.linked
         /\ worker'.req = worker.req
         /\ worker.at = "manifest"
         /\ worker'.at \in {"write", "error"}
         /\ UNCHANGED <<row, budget, call, reader, foreign, paid, lost, kept, faults, calls, scene>>
  <1>1. /\ disk'.dir = disk.dir /\ disk'.main = disk.main /\ disk'.canon = disk.canon
        /\ disk'.saves = disk.saves /\ disk'.over = disk.over /\ disk'.cached = disk.cached
        /\ disk'.cacheBytes = disk.cacheBytes
    BY DEF Types, WriteManifest, Writes, DiskType
  <1>2. /\ worker'.records = worker.records /\ worker'.seq = worker.seq /\ worker'.linked = worker.linked
        /\ worker'.req = worker.req
        /\ worker.at = "manifest"
        /\ worker'.at \in {"write", "error"}
    BY DEF Types, WriteManifest, Goes, WorkerType
  <1>3. UNCHANGED <<row, budget, call, reader, foreign, paid, lost, kept, faults, calls, scene>>
    BY DEF WriteManifest, untouched
  <1> QED BY <1>1, <1>2, <1>3

LEMMA EmitEffect ==
  ASSUME Types, Emit
  PROVE  /\ disk'.dir = disk.dir /\ disk'.canon = disk.canon /\ disk'.saves = disk.saves
         /\ disk'.over = disk.over /\ disk'.cached = disk.cached /\ disk'.cacheBytes = disk.cacheBytes
         /\ disk'.files = disk.files /\ disk'.refs = disk.refs
         /\ worker'.stage = worker.stage /\ worker'.records = worker.records /\ worker'.seq = worker.seq
         /\ worker'.linked = worker.linked /\ worker'.req = worker.req
         /\ worker.at = "write"
         /\ worker'.at \in {"publish", "error"}
         /\ UNCHANGED <<row, call, reader, foreign, paid, lost, kept, faults, calls, scene>>
  <1>1. /\ disk'.dir = disk.dir /\ disk'.canon = disk.canon /\ disk'.saves = disk.saves
        /\ disk'.over = disk.over /\ disk'.cached = disk.cached /\ disk'.cacheBytes = disk.cacheBytes
        /\ disk'.files = disk.files /\ disk'.refs = disk.refs
    BY DEF Types, Emit, Writes, DiskType
  <1>2. /\ worker'.stage = worker.stage /\ worker'.records = worker.records /\ worker'.seq = worker.seq
        /\ worker'.linked = worker.linked /\ worker'.req = worker.req
        /\ worker.at = "write"
        /\ worker'.at \in {"publish", "error"}
    BY DEF Types, Emit, Goes, WorkerType
  <1>3. UNCHANGED <<row, call, reader, foreign, paid, lost, kept, faults, calls, scene>>
    BY DEF Emit, untouched
  <1> QED BY <1>1, <1>2, <1>3

LEMMA PublishEffect ==
  ASSUME Types, Publish
  PROVE  /\ disk'.dir = disk.dir /\ disk'.main = disk.main /\ disk'.saves = disk.saves
         /\ disk'.over = disk.over /\ disk'.cached = disk.cached /\ disk'.cacheBytes = disk.cacheBytes
         /\ disk'.files = disk.files /\ disk'.refs = disk.refs
         /\ worker'.seq = worker.seq /\ worker'.linked = worker.linked /\ worker'.req = worker.req
         /\ worker.at = "publish"
         /\ worker'.at \in {"write", "normalize"} /\ worker'.records = worker.records + 1
         /\ UNCHANGED <<row, call, reader, foreign, paid, lost, unseen, kept, faults, calls, scene>>
  BY DEF Types, Publish, Writes, DiskType, WorkerType, untouched

LEMMA WriteFailsEffect ==
  ASSUME Types, WriteFails
  PROVE  /\ disk'.dir = disk.dir /\ disk'.saves = disk.saves /\ disk'.over = disk.over
         /\ disk'.cached = disk.cached /\ disk'.cacheBytes = disk.cacheBytes /\ disk'.files = disk.files
         /\ disk'.refs = disk.refs
         /\ worker'.stage = worker.stage /\ worker'.records = worker.records /\ worker'.seq = worker.seq
         /\ worker'.linked = worker.linked /\ worker'.req = worker.req
         /\ worker.at \in {"write", "publish"}
         /\ worker'.at = "error"
         /\ UNCHANGED <<row, budget, call, reader, foreign, paid, lost, kept, calls, scene>>
  <1>1. /\ disk'.dir = disk.dir /\ disk'.saves = disk.saves /\ disk'.over = disk.over
        /\ disk'.cached = disk.cached /\ disk'.cacheBytes = disk.cacheBytes /\ disk'.files = disk.files
        /\ disk'.refs = disk.refs
    BY SMTT(60) DEF Types, WriteFails, Writes, TornDisks, DiskType
  <1>2. /\ worker'.stage = worker.stage /\ worker'.records = worker.records /\ worker'.seq = worker.seq
        /\ worker'.linked = worker.linked /\ worker'.req = worker.req
        /\ worker.at \in {"write", "publish"}
        /\ worker'.at = "error"
    BY DEF Types, WriteFails, Goes, WorkerType
  <1>3. UNCHANGED <<row, budget, call, reader, foreign, paid, lost, kept, calls, scene>>
    BY DEF WriteFails
  <1> QED BY <1>1, <1>2, <1>3

LEMMA CrashEffect ==
  ASSUME Types, Crash
  PROVE  /\ disk'.dir = disk.dir /\ disk'.saves = disk.saves /\ disk'.over = disk.over
         /\ disk'.cached = disk.cached /\ disk'.cacheBytes = disk.cacheBytes /\ disk'.files = disk.files
         /\ disk'.refs = disk.refs
         /\ worker'.at = "down" /\ worker'.linked /\ worker'.req = {}
         /\ UNCHANGED <<row, foreign, paid, kept, calls, scene>>
         /\ call'.at = "idle" /\ ~call'.wanted
  <1>1. /\ disk'.dir = disk.dir /\ disk'.saves = disk.saves /\ disk'.over = disk.over
        /\ disk'.cached = disk.cached /\ disk'.cacheBytes = disk.cacheBytes /\ disk'.files = disk.files
        /\ disk'.refs = disk.refs
    BY SMTT(60) DEF Types, Crash, Writes, TornDisks, DiskType
  <1>2. /\ worker'.at = "down" /\ worker'.linked /\ worker'.req = {}
    BY DEF Types, Crash, Rests, Idle, WorkerType
  <1>3. UNCHANGED <<row, foreign, paid, kept, calls, scene>>
    BY DEF Crash
  <1>4. /\ call'.at = "idle" /\ ~call'.wanted
    BY DEF Types, Crash, NoCall, CallType
  <1> QED BY <1>1, <1>2, <1>3, <1>4

LEMMA CompactHomesEffect ==
  ASSUME Types, CompactHomes
  PROVE  /\ disk'.dir = disk.dir /\ disk'.main = disk.main /\ disk'.canon = disk.canon
         /\ disk'.saves = disk.saves /\ disk'.over = disk.over /\ disk'.cached = disk.cached
         /\ disk'.cacheBytes = disk.cacheBytes /\ disk'.refs = disk.refs
         /\ disk'.files = disk.files \ {"homes"}
         /\ worker' = worker
         /\ UNCHANGED <<row, budget, reader, foreign, paid, lost, unseen, kept, faults, calls, scene>>
         /\ call.at = "homes" /\ call'.at \in {"cache", "history", "record"}
         /\ call.profile = "minimal" => call'.at = "cache"
         /\ call.profile = "compact" => call'.at = "history"
         /\ call'.op = call.op /\ call'.profile = call.profile /\ call'.wanted = call.wanted
  BY DEF Types, CompactHomes, DiskType, bystanders, CallGoes, CallType, RemovesRequestCache,
     CompactsCheckpoints

LEMMA CompactTracesEffect ==
  ASSUME Types, CompactTraces
  PROVE  /\ disk'.dir = disk.dir /\ disk'.main = disk.main /\ disk'.canon = disk.canon
         /\ disk'.saves = disk.saves /\ disk'.over = disk.over /\ disk'.cached = disk.cached
         /\ disk'.cacheBytes = disk.cacheBytes /\ disk'.refs = disk.refs
         /\ disk'.files = disk.files \ {"traces"}
         /\ worker' = worker
         /\ UNCHANGED <<row, budget, reader, foreign, paid, lost, unseen, kept, faults, calls, scene>>
         /\ call.at = "traces" /\ call'.at = "history"
         /\ call'.op = call.op /\ call'.profile = call.profile /\ call'.wanted = call.wanted
  BY DEF Types, CompactTraces, DiskType, bystanders, CallGoes, CallType

LEMMA CompactCacheEffect ==
  ASSUME Types, CompactCache
  PROVE  /\ disk'.dir = disk.dir /\ disk'.main = disk.main /\ disk'.canon = disk.canon
         /\ disk'.saves = disk.saves /\ disk'.over = disk.over /\ disk'.files = disk.files
         /\ disk'.refs = disk.refs
         /\ disk'.cacheBytes = 0 /\ disk'.cached = {}
         /\ worker' = worker
         /\ UNCHANGED <<row, budget, reader, foreign, paid, lost, unseen, kept, faults, calls, scene>>
         /\ call.at = "cache" /\ call'.at \in {"traces", "history"}
         /\ call.profile = "minimal" => call'.at = "traces"
         /\ call'.op = call.op /\ call'.profile = call.profile /\ call'.wanted = call.wanted
  BY DEF Types, CompactCache, DiskType, bystanders, CallGoes, CallType, RemovesTraces

LEMMA RewriteCheckpointEffect ==
  ASSUME Types, RewriteCheckpoint
  PROVE  /\ disk'.dir = disk.dir /\ disk'.main = disk.main /\ disk'.canon = disk.canon
         /\ disk'.over = disk.over /\ disk'.cached = disk.cached /\ disk'.cacheBytes = disk.cacheBytes
         /\ disk'.files = disk.files /\ disk'.refs = disk.refs
         /\ worker' = worker
         /\ UNCHANGED <<row, budget, reader, foreign, paid, lost, unseen, kept, faults, calls, scene>>
  BY DEF Types, RewriteCheckpoint, DiskType, bystanders

LEMMA RecordCompactionEffect ==
  ASSUME Types, RecordCompaction
  PROVE  /\ disk'.dir = disk.dir /\ disk'.main = disk.main /\ disk'.canon = disk.canon
         /\ disk'.saves = disk.saves /\ disk'.over = disk.over /\ disk'.cached = disk.cached
         /\ disk'.cacheBytes = disk.cacheBytes /\ disk'.refs = disk.refs
         /\ disk'.files \subseteq disk.files \cup {"compaction"}
         /\ worker' = worker
         /\ UNCHANGED <<row, budget, reader, foreign, paid, lost, kept, faults, calls, scene>>
         /\ call.at = "record" /\ call'.at \in {"done", "idle"}
         /\ call'.at = "done" => call'.profile = call.profile /\ call'.wanted = call.wanted
         /\ call'.at = "idle" => ~call'.wanted
  BY DEF Types, RecordCompaction, DiskType, CallGoes, CallEnds, NoCall, CallType

LEMMA RemoveRunDirEffect ==
  ASSUME Types, RemoveRunDir
  PROVE  /\ disk'.main = NoFeed /\ disk'.canon = NoFeed /\ disk'.saves = <<>>
         /\ disk'.cached = {} /\ disk'.cacheBytes = 0 /\ disk'.files = {}
         /\ worker'.at = worker.at /\ worker'.stage = worker.stage /\ worker'.records = worker.records
         /\ worker'.seq = worker.seq /\ worker'.req = worker.req
         /\ worker'.linked => worker.at \in {"rest", "ensure", "open"}
         /\ UNCHANGED <<row, budget, reader, foreign, paid, lost, unseen, faults, calls, scene>>
         /\ call.at = "remove" /\ call'.at \in {"unrow", "idle"}
         /\ call'.wanted => call.wanted
  <1>1. /\ disk'.main = NoFeed /\ disk'.canon = NoFeed /\ disk'.saves = <<>>
        /\ disk'.cached = {} /\ disk'.cacheBytes = 0 /\ disk'.files = {}
    BY DEF Types, RemoveRunDir, DiskType, Absent
  <1>2. /\ worker'.at = worker.at /\ worker'.stage = worker.stage /\ worker'.records = worker.records
        /\ worker'.seq = worker.seq /\ worker'.req = worker.req
        /\ worker'.linked => worker.at \in {"rest", "ensure", "open"}
    BY DEF Types, RemoveRunDir, WorkerType
  <1>3. UNCHANGED <<row, budget, reader, foreign, paid, lost, unseen, faults, calls, scene>>
    BY DEF RemoveRunDir
  <1>4. /\ call.at = "remove" /\ call'.at \in {"unrow", "idle"}
        /\ call'.wanted => call.wanted
    BY DEF Types, RemoveRunDir, CallGoes, CallEnds, NoCall, CallType
  <1> QED BY <1>1, <1>2, <1>3, <1>4

LEMMA DropArtifactsEffect ==
  ASSUME Types, DropArtifacts
  PROVE  /\ disk'.dir = disk.dir /\ disk'.canon = disk.canon /\ disk'.saves = disk.saves
         /\ disk'.over = disk.over /\ disk'.cached = disk.cached /\ disk'.cacheBytes = disk.cacheBytes
         /\ disk'.refs = disk.refs
         /\ disk'.files \subseteq disk.files
         /\ worker'.at = worker.at /\ worker'.stage = worker.stage /\ worker'.records = worker.records
         /\ worker'.seq = worker.seq /\ worker'.req = worker.req
         /\ worker'.linked => worker.linked /\ (~disk.refs \/ worker.at \in {"rest", "ensure", "open"})
         /\ UNCHANGED <<row, budget, reader, foreign, paid, lost, unseen, faults, calls, scene>>
         /\ call.at = "drop" /\ call'.at = "idle" /\ ~call'.wanted
  <1>1. /\ disk'.dir = disk.dir /\ disk'.canon = disk.canon /\ disk'.saves = disk.saves
        /\ disk'.over = disk.over /\ disk'.cached = disk.cached /\ disk'.cacheBytes = disk.cacheBytes
        /\ disk'.refs = disk.refs
        /\ disk'.files \subseteq disk.files
    <2>1. CASE disk.refs
      BY <2>1 DEF Types, DropArtifacts, DiskType
    <2>2. CASE ~disk.refs
      BY <2>2 DEF Types, DropArtifacts
    <2> QED BY <2>1, <2>2
  <1>2. /\ worker'.at = worker.at /\ worker'.stage = worker.stage /\ worker'.records = worker.records
        /\ worker'.seq = worker.seq /\ worker'.req = worker.req
        /\ worker'.linked => worker.linked /\ (~disk.refs \/ worker.at \in {"rest", "ensure", "open"})
    BY DEF Types, DropArtifacts, WorkerType
  <1>3. UNCHANGED <<row, budget, reader, foreign, paid, lost, unseen, faults, calls, scene>>
    BY DEF DropArtifacts
  <1>4. /\ call.at = "drop" /\ call'.at = "idle" /\ ~call'.wanted
    BY DEF Types, DropArtifacts, CallEnds, NoCall, CallType
  <1> QED BY <1>1, <1>2, <1>3, <1>4

-----------------------------------------------------------------------------
(* events.jsonl is numbered by place. *)

\* A line written at the end is numbered by its place.
LEMMA NumberedByPlace ==
  ASSUME NEW s \in Seq(Nat), \A i \in DOMAIN s : s[i] = i
  PROVE  \A i \in DOMAIN Append(s, Len(s) + 1) : Append(s, Len(s) + 1)[i] = i
  OBVIOUS

\* A failed write leaves one feed alone and the other as it was, or a line longer.
LEMMA TornLines ==
  ASSUME Types, worker.at \in {"write", "publish"}, NEW d \in TornDisks
  PROVE  LET n == worker.records + 1 IN
         /\ worker.at = "write" =>
               /\ d.canon = disk.canon
               /\ d.main.lines = disk.main.lines \/ d.main.lines = Append(disk.main.lines, n)
         /\ worker.at = "publish" =>
               /\ d.main = disk.main
               /\ d.canon.lines = disk.canon.lines \/ d.canon.lines = Append(disk.canon.lines, n)
  <1>1. ASSUME NEW f, NEW n, NEW g \in Torn(f, n)
        PROVE  g.lines = f.lines \/ g.lines = Append(f.lines, n)
    BY <1>1 DEF Torn, Appended, Feed
  <1>2. CASE worker.at = "write"
    <2>1. PICK g \in Torn(disk.main, worker.records + 1) : d = [disk EXCEPT !.main = g]
      BY <1>2 DEF TornDisks
    <2>2. d.main = g /\ d.canon = disk.canon
      BY <2>1 DEF Types, DiskType
    <2> QED BY <1>1, <1>2, <2>1, <2>2
  <1>3. CASE worker.at = "publish"
    <2>1. PICK g \in Torn(disk.canon, worker.records + 1) : d = [disk EXCEPT !.canon = g]
      BY <1>3 DEF TornDisks
    <2>2. d.canon = g /\ d.main = disk.main
      BY <2>1 DEF Types, DiskType
    <2> QED BY <1>1, <1>3, <2>1, <2>2
  <1> QED BY <1>2, <1>3

LEMMA TornMain ==
  ASSUME Types, MainInv, worker.at \in {"write", "publish"}, worker.linked, NEW d \in TornDisks
  PROVE  \A i \in DOMAIN d.main.lines : d.main.lines[i] = i
  <1>1. \A i \in DOMAIN disk.main.lines : disk.main.lines[i] = i
    BY DEF MainInv
  <1>2. disk.main.lines \in Seq(Nat)
    BY DiskParts DEF Types
  <1>3. CASE d.main.lines = disk.main.lines
    BY <1>1, <1>3
  <1>4. CASE d.main.lines # disk.main.lines
    <2>1. worker.at = "write" /\ d.main.lines = Append(disk.main.lines, worker.records + 1)
      BY <1>4, TornLines
    <2>2. worker.records = Len(disk.main.lines)
      BY <2>1, WorkerParts DEF MainInv, Inside
    <2> QED BY <1>1, <1>2, <2>1, <2>2, NumberedByPlace
  <1> QED BY <1>3, <1>4

\* Every action keeps events.jsonl numbered by place, and a tick its count of records.
LEMMA MainStep == ASSUME StorageInv, Types', Next PROVE MainInv'
  <1>1. CASE BeginTick
    BY <1>1, BeginTickEffect DEF StorageInv, MainInv, Inside
  <1>2. CASE EnsureRunWorkspace
    BY <1>2, EnsureRunWorkspaceEffect DEF StorageInv, MainInv, Inside
  <1>3. CASE OpenRunContext
    <2>1. Len(disk.main.lines) \in Nat
      BY DiskParts DEF StorageInv, Types
    <2> QED BY <1>3, <2>1, OpenRunContextEffect DEF StorageInv, MainInv, Inside
  <1>4. CASE Emit
    <2>1. CASE worker'.at = "publish" /\ worker.linked
      <3>1. disk'.main = Appended(disk.main, worker.records + 1) /\ worker.at = "write"
        BY <1>4, <2>1 DEF StorageInv, Types, Emit, Goes, Writes, DiskType, WorkerType
      <3>2. Len(disk.main.lines) = worker.records /\ disk.main.lines \in Seq(Nat) /\ worker.records \in Nat
        BY <3>1, <2>1, DiskParts, WorkerParts DEF StorageInv, Types, MainInv, Inside
      <3>3. disk'.main.lines = Append(disk.main.lines, worker.records + 1)
        BY <3>1 DEF Appended, Feed
      <3>4. /\ Len(disk'.main.lines) = worker.records + 1
            /\ \A i \in DOMAIN disk'.main.lines : disk'.main.lines[i] = i
        BY <3>2, <3>3 DEF StorageInv, MainInv
      <3> QED BY <1>4, <2>1, <3>4, EmitEffect DEF StorageInv, MainInv
    <2>2. CASE ~(worker'.at = "publish" /\ worker.linked)
      BY <1>4, <2>2, EmitEffect DEF StorageInv, Types, Emit, Goes, Writes, WorkerType, MainInv,
         Inside
    <2> QED BY <2>1, <2>2
  <1>5. CASE Publish
    BY WorkerParts, <1>5, PublishEffect DEF StorageInv, MainInv, Inside
  <1>6. CASE WriteFails
    BY <1>6, TornMain, WriteFailsEffect DEF StorageInv, WriteFails, Writes, MainInv, Inside
  <1>7. CASE OpenCache
    BY <1>7, OpenCacheEffect DEF StorageInv, MainInv, Inside
  <1>8. CASE CachedCall
    BY <1>8, CachedCallEffect DEF StorageInv, MainInv, Inside
  <1>9. CASE PutAnswer
    BY <1>9, PutAnswerEffect DEF StorageInv, MainInv, Inside
  <1>10. CASE SaveCheckpoint
    BY <1>10, SaveCheckpointEffect DEF StorageInv, MainInv, Inside
  <1>11. CASE CompactPrevious
    BY <1>11, CompactPreviousEffect DEF StorageInv, MainInv, Inside
  <1>12. CASE EndTick
    BY <1>12, EndTickEffect DEF StorageInv, MainInv, Inside
  <1>13. CASE WriteReport
    BY <1>13, WriteReportEffect DEF StorageInv, MainInv, Inside
  <1>14. CASE NormalizeFeed
    BY <1>14, NormalizeFeedEffect DEF StorageInv, MainInv, Inside
  <1>15. CASE WriteManifest
    BY <1>15, WriteManifestEffect DEF StorageInv, MainInv, Inside
  <1>16. CASE Settle
    BY <1>16, SettleEffect DEF StorageInv, MainInv, Inside
  <1>17. CASE SeesCancel
    BY <1>17, SeesCancelEffect DEF StorageInv, MainInv, Inside
  <1>18. CASE RemoveRunDir
    <2> QED BY <1>18, RemoveRunDirEffect DEF StorageInv, MainInv, Inside, NoFeed, Feed
  <1>19. CASE CompactHomes
    BY <1>19, CompactHomesEffect DEF StorageInv, MainInv, Inside
  <1>20. CASE CompactCache
    BY <1>20, CompactCacheEffect DEF StorageInv, MainInv, Inside
  <1>21. CASE CompactTraces
    BY <1>21, CompactTracesEffect DEF StorageInv, MainInv, Inside
  <1>22. CASE RewriteCheckpoint
    BY <1>22, RewriteCheckpointEffect DEF StorageInv, MainInv, Inside
  <1>23. CASE RecordCompaction
    BY <1>23, RecordCompactionEffect DEF StorageInv, MainInv, Inside
  <1>24. CASE DropArtifacts
    <2>1. CASE disk.refs
      <3>1. disk'.main = NoFeed
        BY <1>24, <2>1 DEF StorageInv, Types, DropArtifacts, DiskType
      <3> QED BY <1>24, <2>1, <3>1, DropArtifactsEffect DEF StorageInv, MainInv, Inside, NoFeed, Feed
    <2>2. CASE ~disk.refs
      BY <1>24, <2>2, DropArtifactsEffect DEF DropArtifacts, StorageInv, MainInv, Inside
    <2> QED BY <2>1, <2>2
  <1>25. CASE Crash
    BY <1>25, TornMain, CrashEffect DEF StorageInv, Crash, Writes, MainInv, Inside
  <1>26. CASE Restart
    BY <1>26, RestartEffect DEF StorageInv, MainInv, Inside
  <1>27. CASE BeginCall \/ DeleteRow \/ ReadHistory \/ CompactionFails \/ ReadRow \/ ReadFeed \/ Cancel \/ CacheTtl \/ OthersWrite
    <2>1. UNCHANGED <<disk, worker>>
      BY <1>27 DEF BeginCall, DeleteRow, ReadHistory, CompactionFails, ReadRow, ReadFeed, Cancel, CacheTtl, OthersWrite,
            audience, bystanders
    <2> QED BY <2>1 DEF StorageInv, MainInv
  <1> QED BY <1>1, <1>2, <1>3, <1>4, <1>5, <1>6, <1>7, <1>8, <1>9, <1>10, <1>11, <1>12, <1>13, <1>14, <1>15,
        <1>16, <1>17, <1>18, <1>19, <1>20, <1>21, <1>22, <1>23, <1>24, <1>25, <1>26, <1>27 DEF Next, Tick,
        Maintenance

-----------------------------------------------------------------------------
(* The optimizer feed follows it. *)

\* How the optimizer feed goes on following events.jsonl: over a fault, when a line of
\* events.jsonl is written, and when the event is published.
LEMMA FollowsAfterFault ==
  ASSUME NEW c \in Seq(Nat), NEW m \in Nat, NEW p \in {0, 1}, NEW f \in Nat, Follows(c, m, p, f)
  PROVE  Follows(c, m, 0, f + 1)
  BY DEF Follows

LEMMA FollowsAfterEmit ==
  ASSUME NEW c \in Seq(Nat), NEW m \in Nat, NEW f \in Nat, Follows(c, m, 0, f)
  PROVE  Follows(c, m + 1, 1, f) /\ Follows(c, m + 1, 0, f + 1)
  BY DEF Follows

LEMMA FollowsAfterPublish ==
  ASSUME NEW c \in Seq(Nat), NEW m \in Nat \ {0}, NEW f \in Nat, Follows(c, m, 1, f)
  PROVE  Follows(Append(c, m), m, 0, f) /\ Follows(Append(c, m), m, 0, f + 1)
  <1> DEFINE s == Append(c, m)
  <1>1. /\ Len(s) = Len(c) + 1 /\ DOMAIN s = 1 .. Len(c) + 1 /\ Len(c) \in Nat
        /\ DOMAIN c = 1 .. Len(c)
        /\ s[Len(c) + 1] = m /\ \A i \in 1 .. Len(c) : s[i] = c[i] /\ c[i] \in Nat
    OBVIOUS
  <1> HIDE DEF s
  <1>2. \A i \in 1 .. Len(c) : 1 <= c[i] /\ c[i] + 1 <= m
    BY <1>1 DEF Follows
  <1>3. \A i \in DOMAIN s : 1 <= s[i] /\ s[i] + 0 <= m
    BY SMTT(30), <1>1, <1>2
  <1>4. Increasing(s)
    <2> SUFFICES ASSUME NEW i \in DOMAIN s, NEW j \in DOMAIN s, i < j PROVE s[i] < s[j]
      BY DEF Increasing
    <2>1. CASE j = Len(c) + 1
      BY <1>1, <1>2, <2>1
    <2>2. CASE j # Len(c) + 1
      <3>1. i \in DOMAIN c /\ j \in DOMAIN c /\ s[i] = c[i] /\ s[j] = c[j]
        BY <1>1, <2>2
      <3> QED BY <3>1 DEF Follows, Increasing
    <2> QED BY <2>1, <2>2
  <1>5. m - Len(s) <= f + 0 /\ m - Len(s) <= f + 1 + 0
    BY <1>1 DEF Follows
  <1>6. Follows(s, m, 0, f) /\ Follows(s, m, 0, f + 1)
    BY <1>3, <1>4, <1>5 DEF Follows
  <1> QED BY <1>6 DEF s

\* Every action keeps the optimizer feed behind events.jsonl by no more than the faults.
LEMMA CanonStep == ASSUME StorageInv, Types', Next PROVE CanonInv'
  <1>1. CASE BeginTick
    BY <1>1, BeginTickEffect DEF StorageInv, CanonInv, Between, untouched
  <1>2. CASE EnsureRunWorkspace
    BY <1>2, EnsureRunWorkspaceEffect DEF StorageInv, CanonInv, Between, untouched
  <1>3. CASE OpenRunContext
    BY <1>3, OpenRunContextEffect DEF StorageInv, CanonInv, Between, untouched
  <1>4. CASE Emit
    <2> SUFFICES ASSUME kept' PROVE Follows(disk'.canon.lines, Len(disk'.main.lines), Between', faults')
      BY DEF CanonInv
    <2> DEFINE c == disk.canon.lines
               m == Len(disk.main.lines)
    <2>1. c \in Seq(Nat) /\ disk.main.lines \in Seq(Nat) /\ m \in Nat /\ faults \in Nat
      BY DiskParts DEF StorageInv, Types
    <2>2. kept /\ worker.linked /\ Follows(c, m, Between, faults)
      BY <1>4, EmitEffect DEF StorageInv, RowInv, CanonInv
    <2>3. Between = 0 /\ faults' = faults /\ disk'.canon = disk.canon
      BY <1>4, EmitEffect DEF StorageInv, Between
    <2>4. \/ worker'.at = "error" /\ disk' = disk
          \/ worker'.at = "publish" /\ disk'.main = Appended(disk.main, worker.records + 1)
      BY <1>4, <2>2 DEF StorageInv, Types, Emit, Goes, Writes, DiskType, WorkerType
    <2>5. CASE worker'.at = "error" /\ disk' = disk
      BY <2>2, <2>3, <2>5 DEF Between
    <2>6. CASE worker'.at = "publish" /\ disk'.main = Appended(disk.main, worker.records + 1)
      BY <2>1, <2>6, <2>2, <2>3, FollowsAfterEmit DEF Appended, Feed, Between
    <2> QED BY <2>4, <2>5, <2>6
  <1>5. CASE Publish
    <2> SUFFICES ASSUME kept' PROVE Follows(disk'.canon.lines, Len(disk'.main.lines), Between', faults')
      BY DEF CanonInv
    <2> DEFINE c == disk.canon.lines
               m == Len(disk.main.lines)
    <2>1. c \in Seq(Nat) /\ disk.main.lines \in Seq(Nat) /\ m \in Nat /\ faults \in Nat
      BY DiskParts DEF StorageInv, Types
    <2>2. kept /\ worker.linked /\ Follows(c, m, Between, faults)
      BY <1>5, PublishEffect DEF StorageInv, RowInv, CanonInv
    <2>3. Between = 1 /\ Between' = 0 /\ faults' = faults /\ disk'.main = disk.main
      BY <1>5, PublishEffect DEF StorageInv, Between
    <2>4. disk'.canon.lines = Append(c, worker.records + 1)
      BY <1>5, <2>2 DEF StorageInv, Types, Publish, Writes, DiskType, Appended, Feed
    <2>5. worker.records + 1 = m /\ m \in Nat \ {0}
      BY <1>5, <2>2, PublishEffect, WorkerParts DEF StorageInv, MainInv, Inside
    <2> QED BY <2>1, <2>2, <2>3, <2>4, <2>5, FollowsAfterPublish
  <1>6. CASE WriteFails
    <2> SUFFICES ASSUME kept' PROVE Follows(disk'.canon.lines, Len(disk'.main.lines), Between', faults')
      BY DEF CanonInv
    <2> DEFINE c == disk.canon.lines
               m == Len(disk.main.lines)
    <2>1. c \in Seq(Nat) /\ disk.main.lines \in Seq(Nat) /\ m \in Nat /\ faults \in Nat
      BY DiskParts DEF StorageInv, Types
    <2>2. kept /\ worker.linked /\ Follows(c, m, Between, faults)
      BY <1>6, WriteFailsEffect DEF StorageInv, RowInv, CanonInv
    <2>3. Between \in {0, 1} /\ Between' = 0 /\ faults' = faults + 1
      BY <1>6, WriteFailsEffect DEF StorageInv, WriteFails, Between
    <2>4. disk' = disk \/ (worker.at \in {"write", "publish"} /\ disk' \in TornDisks)
      BY <1>6, <2>2 DEF WriteFails, Writes
    <2>5. CASE disk'.main.lines = disk.main.lines /\ disk'.canon.lines = c
      BY <2>1, <2>2, <2>3, <2>5, FollowsAfterFault
    <2>6. CASE worker.at = "write" /\ disk'.canon = disk.canon
                 /\ disk'.main.lines = Append(disk.main.lines, worker.records + 1)
      BY <2>1, <2>6, <2>2, <2>3, FollowsAfterEmit DEF Between
    <2>7. CASE worker.at = "publish" /\ disk'.main = disk.main
                 /\ disk'.canon.lines = Append(c, worker.records + 1)
      BY <2>2, <2>7, WorkerParts, <2>1, <2>3, FollowsAfterPublish DEF StorageInv, MainInv, Inside,
         Between
    <2> QED BY <2>4, <2>5, <2>6, <2>7, TornLines DEF StorageInv
  <1>7. CASE OpenCache
    BY <1>7, OpenCacheEffect DEF StorageInv, CanonInv, Between, untouched
  <1>8. CASE CachedCall
    BY <1>8, CachedCallEffect DEF StorageInv, CanonInv, Between, untouched
  <1>9. CASE PutAnswer
    BY <1>9, PutAnswerEffect DEF StorageInv, CanonInv, Between, untouched
  <1>10. CASE SaveCheckpoint
    BY <1>10, SaveCheckpointEffect DEF StorageInv, CanonInv, Between, untouched
  <1>11. CASE CompactPrevious
    BY <1>11, CompactPreviousEffect DEF StorageInv, CanonInv, Between, untouched
  <1>12. CASE EndTick
    BY <1>12, EndTickEffect DEF StorageInv, CanonInv, Between, untouched
  <1>13. CASE WriteReport
    BY <1>13, WriteReportEffect DEF StorageInv, CanonInv, Between, untouched
  <1>14. CASE NormalizeFeed
    BY <1>14, NormalizeFeedEffect DEF StorageInv, CanonInv, Between, untouched
  <1>15. CASE WriteManifest
    BY <1>15, WriteManifestEffect DEF StorageInv, CanonInv, Between, untouched
  <1>16. CASE Settle
    BY <1>16, SettleEffect DEF StorageInv, CanonInv, Between
  <1>17. CASE SeesCancel
    BY <1>17, SeesCancelEffect DEF StorageInv, CanonInv, Between, untouched
  <1>18. CASE RemoveRunDir
    BY <1>18 DEF RemoveRunDir, CanonInv
  <1>19. CASE CompactHomes
    BY <1>19, CompactHomesEffect DEF StorageInv, CanonInv, Between
  <1>20. CASE CompactCache
    BY <1>20, CompactCacheEffect DEF StorageInv, CanonInv, Between
  <1>21. CASE CompactTraces
    BY <1>21, CompactTracesEffect DEF StorageInv, CanonInv, Between
  <1>22. CASE RewriteCheckpoint
    BY <1>22, RewriteCheckpointEffect DEF StorageInv, CanonInv, Between
  <1>23. CASE RecordCompaction
    BY <1>23, RecordCompactionEffect DEF StorageInv, CanonInv, Between
  <1>24. CASE DropArtifacts
    BY <1>24, DropArtifactsEffect DEF DropArtifacts, StorageInv, CanonInv, Between
  <1>25. CASE Cancel
    BY <1>25 DEF Cancel, CanonInv
  <1>26. CASE Crash
    <2> SUFFICES ASSUME kept' PROVE Follows(disk'.canon.lines, Len(disk'.main.lines), Between', faults')
      BY DEF CanonInv
    <2> DEFINE c == disk.canon.lines
               m == Len(disk.main.lines)
    <2>1. c \in Seq(Nat) /\ disk.main.lines \in Seq(Nat) /\ m \in Nat /\ faults \in Nat
      BY DiskParts DEF StorageInv, Types
    <2>2. kept /\ worker.linked /\ Follows(c, m, Between, faults)
      BY <1>26, CrashEffect DEF StorageInv, RowInv, CanonInv
    <2>3. Between \in {0, 1} /\ Between' = 0 /\ faults' = faults + 1
      BY <1>26, CrashEffect DEF StorageInv, Crash, Between
    <2>4. disk' = disk \/ (worker.at \in {"write", "publish"} /\ disk' \in TornDisks)
      BY <1>26, <2>2 DEF Crash, Writes
    <2>5. CASE disk'.main.lines = disk.main.lines /\ disk'.canon.lines = c
      BY <2>1, <2>2, <2>3, <2>5, FollowsAfterFault
    <2>6. CASE worker.at = "write" /\ disk'.canon = disk.canon
                 /\ disk'.main.lines = Append(disk.main.lines, worker.records + 1)
      BY <2>1, <2>6, <2>2, <2>3, FollowsAfterEmit DEF Between
    <2>7. CASE worker.at = "publish" /\ disk'.main = disk.main
                 /\ disk'.canon.lines = Append(c, worker.records + 1)
      BY <2>2, <2>7, WorkerParts, <2>1, <2>3, FollowsAfterPublish DEF StorageInv, MainInv, Inside,
         Between
    <2> QED BY <2>4, <2>5, <2>6, <2>7, TornLines DEF StorageInv
  <1>27. CASE Restart
    BY <1>27, RestartEffect DEF StorageInv, CanonInv, Between
  <1>28. CASE BeginCall \/ DeleteRow \/ ReadHistory \/ CompactionFails \/ ReadRow \/ ReadFeed \/ CacheTtl \/ OthersWrite
    <2>1. UNCHANGED <<disk, worker, kept, faults>>
      BY <1>28 DEF BeginCall, DeleteRow, ReadHistory, CompactionFails, ReadRow, ReadFeed, CacheTtl, OthersWrite, audience, bystanders
    <2> QED BY <2>1 DEF StorageInv, CanonInv, Between
  <1> QED BY <1>1, <1>2, <1>3, <1>4, <1>5, <1>6, <1>7, <1>8, <1>9, <1>10, <1>11, <1>12, <1>13, <1>14, <1>15,
        <1>16, <1>17, <1>18, <1>19, <1>20, <1>21, <1>22, <1>23, <1>24, <1>25, <1>26, <1>27, <1>28 DEF Next,
        Tick, Maintenance

-----------------------------------------------------------------------------
(* The resume point. *)

\* Every action keeps the latest checkpoint full, and a tick its sequence number.
LEMMA SavesStep == ASSUME StorageInv, Types', Next PROVE SavesInv'
  <1>1. CASE BeginTick
    BY <1>1, BeginTickEffect DEF StorageInv, SavesInv, ResumePoint, LatestCheckpoint, Inside, untouched
  <1>2. CASE EnsureRunWorkspace
    BY <1>2, EnsureRunWorkspaceEffect DEF StorageInv, SavesInv, ResumePoint, LatestCheckpoint, Inside, untouched
  <1>3. CASE OpenRunContext
    <2>1. Len(disk.saves) \in Nat
      BY DiskParts DEF StorageInv, Types
    <2> QED BY <1>3, <2>1, OpenRunContextEffect DEF StorageInv, SavesInv, ResumePoint, LatestCheckpoint, Inside
  <1>4. CASE Emit
    BY <1>4, EmitEffect DEF StorageInv, SavesInv, ResumePoint, LatestCheckpoint, Inside, untouched
  <1>5. CASE Publish
    BY <1>5, PublishEffect DEF StorageInv, SavesInv, ResumePoint, LatestCheckpoint, Inside, untouched
  <1>6. CASE WriteFails
    BY <1>6, WriteFailsEffect DEF StorageInv, SavesInv, ResumePoint, LatestCheckpoint, Inside
  <1>7. CASE OpenCache
    BY <1>7, OpenCacheEffect DEF StorageInv, SavesInv, ResumePoint, LatestCheckpoint, Inside, untouched
  <1>8. CASE CachedCall
    BY <1>8, CachedCallEffect DEF StorageInv, SavesInv, ResumePoint, LatestCheckpoint, Inside, untouched
  <1>9. CASE PutAnswer
    BY <1>9, PutAnswerEffect DEF StorageInv, SavesInv, ResumePoint, LatestCheckpoint, Inside, untouched
  <1>10. CASE SaveCheckpoint
    <2>1. disk.saves \in Seq({"full", "summary"}) /\ worker.seq \in Nat /\ call.upto \in Nat
      BY DiskParts, WorkerParts DEF StorageInv, Types, CallType
    <2>2. CASE worker.linked
      <3>1. disk'.saves = Append(disk.saves, "full") /\ worker'.at = "compact"
        BY <1>10, <2>2 DEF Types, SaveCheckpoint, Writes, Goes, DiskType, WorkerType
      <3>2. /\ Len(disk'.saves) = Len(disk.saves) + 1
            /\ disk'.saves[Len(disk'.saves)] = "full"
        BY <2>1, <3>1
      <3>3. Len(disk.saves) = worker.seq
        BY <1>10, <2>1, <2>2, SaveCheckpointEffect DEF StorageInv, SavesInv, Inside
      <3>4. ResumePoint'
        BY <3>2 DEF ResumePoint, LatestCheckpoint
      <3>5. call.at = "rewrite" => call.upto = 0 \/ call.upto < Len(disk'.saves)
        BY <2>1, <3>2 DEF StorageInv, SavesInv
      <3> QED BY <1>10, <3>1, <3>2, <3>3, <3>4, <3>5, SaveCheckpointEffect DEF StorageInv, SavesInv
    <2>3. CASE ~worker.linked
      BY <1>10, <2>3, SaveCheckpointEffect DEF SaveCheckpoint, StorageInv, SavesInv, ResumePoint,
         LatestCheckpoint
    <2> QED BY <2>2, <2>3
  <1>11. CASE CompactPrevious
    <2>1. disk.saves \in Seq({"full", "summary"}) /\ worker.seq \in Nat
      BY DiskParts, WorkerParts DEF StorageInv, Types
    <2>2. CASE worker.linked
      <3>1. Len(disk.saves) = worker.seq + 1
        BY <1>11, <2>1, <2>2, CompactPreviousEffect DEF StorageInv, SavesInv, Inside
      <3>2. disk'.saves = disk.saves \/ disk'.saves = [disk.saves EXCEPT ![worker.seq] = "summary"]
        BY <1>11 DEF StorageInv, Types, CompactPrevious, Previous, DiskType
      <3>3. /\ Len(disk'.saves) = Len(disk.saves)
            /\ disk'.saves[Len(disk.saves)] = disk.saves[Len(disk.saves)]
        BY <2>1, <3>1, <3>2
      <3>4. ResumePoint'
        BY <2>1, <3>1, <3>3 DEF StorageInv, SavesInv, ResumePoint, LatestCheckpoint
      <3> QED BY <1>11, <2>1, <3>1, <3>3, <3>4, CompactPreviousEffect DEF StorageInv, SavesInv
    <2>3. CASE ~worker.linked
      BY <1>11, <2>3, CompactPreviousEffect DEF CompactPrevious, StorageInv, SavesInv, ResumePoint,
         LatestCheckpoint
    <2> QED BY <2>2, <2>3
  <1>12. CASE EndTick
    BY <1>12, EndTickEffect DEF StorageInv, SavesInv, ResumePoint, LatestCheckpoint, Inside, untouched
  <1>13. CASE WriteReport
    BY <1>13, WriteReportEffect DEF StorageInv, SavesInv, ResumePoint, LatestCheckpoint, Inside, untouched
  <1>14. CASE NormalizeFeed
    BY <1>14, NormalizeFeedEffect DEF StorageInv, SavesInv, ResumePoint, LatestCheckpoint, Inside, untouched
  <1>15. CASE WriteManifest
    BY <1>15, WriteManifestEffect DEF StorageInv, SavesInv, ResumePoint, LatestCheckpoint, Inside, untouched
  <1>16. CASE Settle
    BY <1>16, SettleEffect DEF StorageInv, SavesInv, ResumePoint, LatestCheckpoint, Inside
  <1>17. CASE SeesCancel
    BY <1>17, SeesCancelEffect DEF StorageInv, SavesInv, ResumePoint, LatestCheckpoint, Inside, untouched
  <1>18. CASE BeginCall
    BY <1>18 DEF StorageInv, Types, BeginCall, SavesInv, ResumePoint, LatestCheckpoint
  <1>19. CASE RemoveRunDir
    BY <1>19, RemoveRunDirEffect DEF StorageInv, SavesInv, ResumePoint, LatestCheckpoint, Inside
  <1>20. CASE DeleteRow \/ CompactionFails
    BY <1>20 DEF StorageInv, Types, DeleteRow, CompactionFails, CallEnds, NoCall, SavesInv, ResumePoint,
       LatestCheckpoint, bystanders
  <1>21. CASE CompactHomes
    BY <1>21, CompactHomesEffect DEF StorageInv, SavesInv, ResumePoint, LatestCheckpoint, Inside
  <1>22. CASE CompactCache
    BY <1>22, CompactCacheEffect DEF StorageInv, SavesInv, ResumePoint, LatestCheckpoint, Inside
  <1>23. CASE CompactTraces
    BY <1>23, CompactTracesEffect DEF StorageInv, SavesInv, ResumePoint, LatestCheckpoint, Inside
  <1>24. CASE ReadHistory
    <2>1. Len(disk.saves) \in Nat
      BY DiskParts DEF StorageInv, Types
    <2>2. call'.upto = IF Len(disk.saves) = 0 THEN 0 ELSE Len(disk.saves) - 1
      <3>1. call'.upto = Max({0, Len(disk.saves) - 1})
        BY <1>24 DEF StorageInv, Types, ReadHistory, LatestCheckpoint, CallType
      <3>2. Max({0, Len(disk.saves) - 1}) = IF 0 >= Len(disk.saves) - 1 THEN 0 ELSE Len(disk.saves) - 1
        BY <2>1, MaxOfTwo
      <3> QED BY <2>1, <3>1, <3>2
    <2> QED BY <1>24, <2>1, <2>2 DEF StorageInv, SavesInv, ResumePoint, LatestCheckpoint, ReadHistory, bystanders
  <1>25. CASE RewriteCheckpoint
    <2>1. disk.saves \in Seq({"full", "summary"}) /\ call.upto \in Nat /\ call.at = "rewrite"
      BY <1>25, DiskParts DEF StorageInv, Types, CallType, RewriteCheckpoint
    <2>2. CASE Full(disk) \cap (1 .. call.upto) = {}
      <3>1. disk' = disk /\ call'.at = "record"
        BY <1>25, <2>2 DEF StorageInv, Types, RewriteCheckpoint, CallGoes, CallType
      <3> QED BY <1>25, <3>1, RewriteCheckpointEffect DEF StorageInv, SavesInv, ResumePoint, LatestCheckpoint
    <2>3. CASE Full(disk) \cap (1 .. call.upto) # {}
      <3>1. PICK k \in Full(disk) \cap (1 .. call.upto) :
               disk'.saves = [disk.saves EXCEPT ![k] = "summary"] /\ call' = call
        <4>1. Min(Full(disk) \cap (1 .. call.upto)) \in Full(disk) \cap (1 .. call.upto)
          BY <2>1, <2>3, LeastIsThere DEF StorageInv, Types
        <4> QED BY <1>25, <2>3, <4>1 DEF StorageInv, Types, RewriteCheckpoint, DiskType
      <3>2. k < Len(disk.saves)
        BY <2>1, <3>1 DEF StorageInv, SavesInv
      <3>3. /\ Len(disk'.saves) = Len(disk.saves)
            /\ disk'.saves[Len(disk.saves)] = disk.saves[Len(disk.saves)]
        BY <2>1, <3>1, <3>2
      <3>4. ResumePoint'
        BY <2>1, <3>2, <3>3 DEF StorageInv, SavesInv, ResumePoint, LatestCheckpoint
      <3> QED BY <1>25, <3>1, <3>3, <3>4, RewriteCheckpointEffect DEF StorageInv, SavesInv
    <2> QED BY <2>2, <2>3
  <1>26. CASE RecordCompaction
    BY <1>26, RecordCompactionEffect DEF StorageInv, SavesInv, ResumePoint, LatestCheckpoint, Inside
  <1>27. CASE DropArtifacts
    BY <1>27, DropArtifactsEffect DEF StorageInv, SavesInv, ResumePoint, LatestCheckpoint, Inside
  <1>28. CASE Crash
    BY <1>28, CrashEffect DEF StorageInv, SavesInv, ResumePoint, LatestCheckpoint, Inside
  <1>29. CASE Restart
    BY <1>29, RestartEffect DEF StorageInv, SavesInv, ResumePoint, LatestCheckpoint, Inside
  <1>30. CASE ReadRow \/ ReadFeed \/ Cancel \/ CacheTtl \/ OthersWrite
    BY <1>30 DEF ReadRow, ReadFeed, Cancel, CacheTtl, OthersWrite, audience, StorageInv, SavesInv,
       ResumePoint, LatestCheckpoint
  <1> QED BY <1>1, <1>2, <1>3, <1>4, <1>5, <1>6, <1>7, <1>8, <1>9, <1>10, <1>11, <1>12, <1>13, <1>14, <1>15,
        <1>16, <1>17, <1>18, <1>19, <1>20, <1>21, <1>22, <1>23, <1>24, <1>25, <1>26, <1>27, <1>28, <1>29,
        <1>30 DEF Next, Tick, Maintenance

-----------------------------------------------------------------------------
(* A recommended compaction. *)

\* A set has one element or none in common with a singleton.
LEMMA OneOrNone ==
  ASSUME NEW S, NEW x 
  PROVE  /\ Cardinality(S \cap {x}) = IF x \in S THEN 1 ELSE 0
         /\ Cardinality({x} \cap S) = IF x \in S THEN 1 ELSE 0
  <1>1. CASE x \in S
    BY <1>1, FS_Singleton
  <1>2. CASE x \notin S
    BY <1>2, FS_EmptySet
  <1> QED BY <1>1, <1>2

\* Every action keeps what a recommended compaction has done so far.
LEMMA WantedStep == ASSUME StorageInv, Types', Next PROVE WantedInv'
  <1>idle. call.wanted => worker.at \in {"rest", "down"}
    BY DEF StorageInv, WantedInv, RowInv
  <1>1. CASE EnsureRunWorkspace
    BY <1>1, <1>idle, EnsureRunWorkspaceEffect DEF StorageInv, WantedInv
  <1>2. CASE OpenRunContext
    BY <1>2, <1>idle, OpenRunContextEffect DEF StorageInv, WantedInv
  <1>3. CASE Emit
    BY <1>3, <1>idle, EmitEffect DEF StorageInv, WantedInv
  <1>4. CASE Publish
    BY <1>4, <1>idle, PublishEffect DEF StorageInv, WantedInv
  <1>5. CASE WriteFails
    BY <1>5, <1>idle, WriteFailsEffect DEF StorageInv, WantedInv
  <1>6. CASE PutAnswer
    BY <1>6, <1>idle, PutAnswerEffect DEF StorageInv, WantedInv
  <1>7. CASE SaveCheckpoint
    BY <1>7, <1>idle, SaveCheckpointEffect DEF StorageInv, WantedInv
  <1>8. CASE CompactPrevious
    BY <1>8, <1>idle, CompactPreviousEffect DEF StorageInv, WantedInv
  <1>9. CASE WriteReport
    BY <1>9, <1>idle, WriteReportEffect DEF StorageInv, WantedInv
  <1>10. CASE NormalizeFeed
    BY <1>10, <1>idle, NormalizeFeedEffect DEF StorageInv, WantedInv
  <1>11. CASE WriteManifest
    BY <1>11, <1>idle, WriteManifestEffect DEF StorageInv, WantedInv
  <1>12. CASE Settle
    BY <1>12, <1>idle, SettleEffect DEF StorageInv, WantedInv
  <1>13. CASE BeginCall
    <2> SUFFICES ASSUME call'.wanted PROVE WantedInv'
      BY DEF WantedInv
    <2>1. PICK op \in {"prune", "delete", "compact", "drop"}, p \in {"debug", "compact", "minimal"} :
             /\ op = "compact" \/ p = "debug"
             /\ call' = [op |-> op, profile |-> p, upto |-> 0,
                         at |-> CASE op \in {"prune", "delete"} -> "remove"
                                  [] op = "compact" -> "homes" [] op = "drop" -> "drop",
                         wanted |-> /\ row \in {"completed", "failed"}
                                    /\ p = StorageRecommendation(TRUE, disk)]
      BY <1>13 DEF BeginCall
    <2>2. row \in {"completed", "failed"} /\ p = StorageRecommendation(TRUE, disk)
      BY <2>1
    <2>3. p # "debug"
      BY <2>2 DEF StorageRecommendation
    <2>4. call'.at = "homes" /\ call'.profile = p
      BY <2>1, <2>3
    <2>5. p = "compact" => disk.cacheBytes = 0 /\ "traces" \notin disk.files
      <3> SUFFICES ASSUME p = "compact" PROVE disk.cacheBytes = 0 /\ "traces" \notin disk.files
        OBVIOUS
      <3>1. ~(disk.cacheBytes + Cardinality(disk.files \cap {"traces"}) > 0)
        BY <2>2 DEF StorageRecommendation
      <3>2. disk.cacheBytes \in Nat
        BY DiskParts DEF StorageInv, Types
      <3>3. Cardinality(disk.files \cap {"traces"}) = IF "traces" \in disk.files THEN 1 ELSE 0
        BY OneOrNone
      <3> QED BY <3>1, <3>2, <3>3
    <2>6. UNCHANGED <<disk, row>>
      BY <1>13 DEF BeginCall
    <2> QED BY <2>2, <2>3, <2>4, <2>5, <2>6 DEF WantedInv, Compacting
  <1>14. CASE RemoveRunDir
    BY <1>14, RemoveRunDirEffect DEF StorageInv, WantedInv, Compacting
  <1>15. CASE DeleteRow \/ CompactionFails
    BY <1>15 DEF DeleteRow, CompactionFails, CallEnds, NoCall, WantedInv
  <1>16. CASE CompactHomes
    BY <1>16, CompactHomesEffect DEF StorageInv, WantedInv, Compacting
  <1>17. CASE CompactCache
    BY <1>17, CompactCacheEffect DEF StorageInv, WantedInv, Compacting
  <1>18. CASE CompactTraces
    BY <1>18, CompactTracesEffect DEF StorageInv, WantedInv, Compacting
  <1>19. CASE ReadHistory
    BY <1>19 DEF StorageInv, Types, ReadHistory, CallType, WantedInv, Compacting
  <1>20. CASE RewriteCheckpoint
    <2> SUFFICES ASSUME call'.wanted PROVE WantedInv'
      BY DEF WantedInv
    <2>1. disk.saves \in Seq({"full", "summary"}) /\ call.upto \in Nat /\ call.at = "rewrite"
      BY <1>20, DiskParts DEF StorageInv, Types, CallType, RewriteCheckpoint
    <2>2. CASE Full(disk) \cap (1 .. call.upto) = {}
      <3>1. /\ disk' = disk /\ call'.at = "record"
            /\ call'.wanted = call.wanted /\ call'.profile = call.profile
        BY <1>20, <2>2 DEF StorageInv, Types, RewriteCheckpoint, CallGoes, CallType
      <3>2. call.upto = Max({0, Len(disk.saves) - 1})
        BY <2>1, <3>1 DEF StorageInv, WantedInv, LatestCheckpoint
      <3>3. Max({0, Len(disk.saves) - 1}) = IF 0 >= Len(disk.saves) - 1 THEN 0 ELSE Len(disk.saves) - 1
        BY <2>1, MaxOfTwo
      <3>4. Full(disk) \subseteq 1 .. Len(disk.saves)
        BY <2>1 DEF Full
      <3>5. Full(disk) \subseteq {Len(disk.saves)}
        <4>1. ASSUME NEW n \in Nat, NEW u, u = (IF 0 >= n - 1 THEN 0 ELSE n - 1), NEW F, F \subseteq 1 .. n,
                     F \cap (1 .. u) = {}
              PROVE  F \subseteq {n}
          BY <4>1
        <4>2. Len(disk.saves) \in Nat
          BY <2>1
        <4> QED BY <2>2, <3>2, <3>3, <3>4, <4>1, <4>2
      <3> QED BY <1>20, <2>1, <3>1, <3>5, RewriteCheckpointEffect
          DEF StorageInv, WantedInv, LatestCheckpoint, Compacting
    <2>3. CASE Full(disk) \cap (1 .. call.upto) # {}
      <3>1. PICK k \in Full(disk) \cap (1 .. call.upto) :
               disk'.saves = [disk.saves EXCEPT ![k] = "summary"] /\ call' = call
        BY <2>1, <2>3, LeastIsThere, <1>20 DEF StorageInv, Types, RewriteCheckpoint, DiskType
      <3>2. Len(disk'.saves) = Len(disk.saves)
        BY <2>1, <3>1
      <3> QED BY <1>20, <2>1, <3>1, <3>2, RewriteCheckpointEffect DEF StorageInv, WantedInv, LatestCheckpoint
    <2> QED BY <2>2, <2>3
  <1>21. CASE RecordCompaction
    <2> SUFFICES ASSUME call'.wanted PROVE WantedInv'
      BY DEF WantedInv
    <2>1. /\ call.at = "record" /\ call'.at = "done" /\ call.wanted /\ call'.profile = call.profile
          /\ disk'.saves = disk.saves /\ disk'.cacheBytes = disk.cacheBytes /\ row' = row
          /\ disk'.files \subseteq disk.files \cup {"compaction"}
      BY <1>21, RecordCompactionEffect DEF StorageInv
    <2>2. Full(disk') = Full(disk)
      BY <2>1 DEF Full
    <2> QED BY <2>1, <2>2 DEF StorageInv, WantedInv, LatestCheckpoint, Compacting
  <1>22. CASE DropArtifacts
    BY <1>22, DropArtifactsEffect DEF StorageInv, WantedInv
  <1>23. CASE Cancel
    BY <1>23 DEF Cancel, StorageInv, WantedInv
  <1>24. CASE Crash
    BY <1>24, CrashEffect DEF StorageInv, WantedInv
  <1>25. CASE Restart
    BY <1>25, RestartEffect DEF Restart, StorageInv, WantedInv
  <1>26. CASE BeginTick \/ OpenCache \/ CachedCall \/ EndTick \/ SeesCancel \/ ReadRow \/ ReadFeed \/ CacheTtl \/ OthersWrite
    <2>1. UNCHANGED <<disk, row, call>>
      BY <1>26 DEF BeginTick, OpenCache, CachedCall, EndTick, SeesCancel, ReadRow, ReadFeed, CacheTtl,
            OthersWrite, audience, untouched
    <2> QED BY <2>1 DEF StorageInv, WantedInv, LatestCheckpoint, Full
  <1> QED BY <1>1, <1>2, <1>3, <1>4, <1>5, <1>6, <1>7, <1>8, <1>9, <1>10, <1>11, <1>12, <1>13, <1>14, <1>15,
        <1>16, <1>17, <1>18, <1>19, <1>20, <1>21, <1>22, <1>23, <1>24, <1>25, <1>26 DEF Next, Tick,
        Maintenance

-----------------------------------------------------------------------------
(* What is paid for once. *)

\* What is paid for stands while the cache, the books and the question asked are left alone.
LEMMA PaidFrame ==
  ASSUME PaidInv, disk'.cached = disk.cached, worker'.req = worker.req,
         (worker'.at = "answered") <=> (worker.at = "answered"),
         row' = "running" => row = "running", kept' => kept, UNCHANGED <<paid, lost, scene>>
  PROVE  PaidInv'
  BY DEF PaidInv, PaidOnce, Asked

\* Every action pays for a body once, but for what was lost or answered while it was being asked.
LEMMA PaidStep == ASSUME StorageInv, Types', Next PROVE PaidInv'
  <1>1. CASE BeginTick
    BY <1>1, BeginTickEffect, PaidFrame DEF StorageInv, PaidInv
  <1>2. CASE EnsureRunWorkspace
    BY <1>2, EnsureRunWorkspaceEffect, PaidFrame DEF StorageInv, PaidInv
  <1>3. CASE OpenRunContext
    <2>1. worker.req = {} /\ worker'.req = {}
      BY <1>3, OpenRunContextEffect DEF StorageInv, PaidInv
    <2> QED BY <1>3, <2>1, PaidFrame, OpenRunContextEffect DEF StorageInv
  <1>4. CASE Emit
    BY <1>4, EmitEffect, PaidFrame DEF StorageInv, PaidInv
  <1>5. CASE Publish
    BY <1>5, PublishEffect, PaidFrame DEF StorageInv, PaidInv
  <1>6. CASE WriteFails
    BY <1>6, WriteFailsEffect, PaidFrame DEF StorageInv, PaidInv
  <1>7. CASE OpenCache
    BY <1>7, OpenCacheEffect, PaidFrame DEF StorageInv, PaidInv
  <1>8. CASE CachedCall
    <2>1. PICK r \in Requests :
             \/ worker'.at = "error" /\ UNCHANGED paid
             \/ /\ ~Hit(r) /\ scene.mode # "readonly" /\ paid' = [paid EXCEPT ![Normalized(r)] = @ + 1]
                /\ worker'.at = "answered" /\ worker'.req = {r}
      BY <1>8 DEF StorageInv, Types, CachedCall, Goes, WorkerType
    <2>2. CASE worker'.at = "error" /\ UNCHANGED paid
      BY <1>8, <2>2, PaidFrame, CachedCallEffect DEF StorageInv
    <2>3. CASE /\ ~Hit(r) /\ scene.mode # "readonly" /\ paid' = [paid EXCEPT ![Normalized(r)] = @ + 1]
               /\ worker'.at = "answered" /\ worker'.req = {r}
      <3>1. /\ Asked = {} /\ Asked' = {Normalized(r)}
            /\ UNCHANGED <<row, kept, lost, scene, disk>>
        BY <1>8, <2>3, CachedCallEffect DEF StorageInv, PaidInv, Asked
      <3>2. ASSUME kept, row = "running", NEW b \in Bodies
            PROVE  paid'[b] <= lost'[b] + Cardinality({b} \cap disk'.cached) + Cardinality({b} \cap Asked')
        <4>1. paid[b] <= lost[b] + Cardinality({b} \cap disk.cached) + Cardinality({b} \cap Asked)
          BY <3>2 DEF StorageInv, PaidInv, PaidOnce
        <4>2. paid[b] \in Nat /\ lost[b] \in Nat /\ paid'[b] = IF b = Normalized(r) THEN paid[b] + 1 ELSE paid[b]
          BY <2>3 DEF StorageInv, Types
        <4>3. /\ Cardinality({b} \cap disk.cached) \in {0, 1} /\ Cardinality({b} \cap Asked) = 0
              /\ Cardinality({b} \cap Asked') = IF b = Normalized(r) THEN 1 ELSE 0
          BY <3>1, OneOrNone
        <4> QED BY <3>1, <4>1, <4>2, <4>3
      <3>3. scene.mode = "readwrite" => Asked' \cap disk'.cached = {}
        BY <2>3, <3>1 DEF Hit
      <3> QED BY <2>3, <3>1, <3>2, <3>3 DEF PaidInv, PaidOnce
    <2> QED BY <2>1, <2>2, <2>3
  <1>9. CASE PutAnswer
    <2>1. /\ worker.at = "answered" /\ worker'.at # "answered" /\ worker'.req = {}
          /\ UNCHANGED <<row, kept, paid, scene>>
      BY <1>9, PutAnswerEffect DEF StorageInv
    <2>2. PICK r \in Requests : worker.req = {r}
      BY <2>1 DEF StorageInv, PaidInv
    <2>3. Asked = {Normalized(r)} /\ Asked' = {} /\ Normalized(r) \in Bodies
      BY <2>1, <2>2 DEF Asked, Bodies
    <2>4. ASSUME kept, row = "running", NEW b \in Bodies
          PROVE  paid'[b] <= lost'[b] + Cardinality({b} \cap disk'.cached) + Cardinality({b} \cap Asked')
      <3>1. worker.linked
        BY <2>4 DEF StorageInv, RowInv
      <3>2. \/ disk'.cached = disk.cached /\ lost' = [lost EXCEPT ![Normalized(r)] = @ + 1]
            \/ /\ scene.mode = "readwrite" /\ disk'.cached = disk.cached \cup {Normalized(r)}
               /\ lost' = lost
        <4>1. \/ /\ Writes([disk EXCEPT !.files = @ \cup {"traces", "homes"}])
                 /\ lost' = [lost EXCEPT ![Normalized(r)] = @ + 1]
              \/ /\ scene.mode = "readwrite" /\ lost' = lost
                 /\ \E n \in {0, 1} : Writes([Stored(r, n) EXCEPT !.files = @ \cup {"traces", "homes"}])
          BY <1>9, <2>2 DEF PutAnswer
        <4>2. [disk EXCEPT !.files = @ \cup {"traces", "homes"}].cached = disk.cached
          BY DEF StorageInv, Types, DiskType
        <4>3. \A n \in {0, 1} : [Stored(r, n) EXCEPT !.files = @ \cup {"traces", "homes"}].cached
                                  = disk.cached \cup {Normalized(r)}
          BY DEF StorageInv, Types, DiskType, Stored
        <4> QED BY <3>1, <4>1, <4>2, <4>3 DEF Writes
      <3>3. paid[b] <= lost[b] + Cardinality({b} \cap disk.cached) + Cardinality({b} \cap Asked)
        BY <2>4 DEF StorageInv, PaidInv, PaidOnce
      <3>4. paid[b] \in Nat /\ lost[b] \in Nat /\ paid'[b] = paid[b]
        BY <2>1 DEF StorageInv, Types
      <3>5. /\ Cardinality({b} \cap disk.cached) \in {0, 1} /\ Cardinality({b} \cap Asked') = 0
            /\ Cardinality({b} \cap Asked) = IF b = Normalized(r) THEN 1 ELSE 0
        BY <2>3, OneOrNone
      <3>6. CASE disk'.cached = disk.cached /\ lost' = [lost EXCEPT ![Normalized(r)] = @ + 1]
        BY <3>6, <3>3, <3>4, <3>5 DEF StorageInv, Types
      <3>7. CASE scene.mode = "readwrite" /\ disk'.cached = disk.cached \cup {Normalized(r)} /\ lost' = lost
        BY <2>1, <2>3, <3>7, OneOrNone, <3>3, <3>4, <3>5 DEF StorageInv, PaidInv
      <3> QED BY <3>2, <3>6, <3>7
    <2> QED BY <2>1, <2>4 DEF PaidInv, PaidOnce
  <1>10. CASE SaveCheckpoint
    BY <1>10, SaveCheckpointEffect, PaidFrame DEF StorageInv, PaidInv
  <1>11. CASE CompactPrevious
    BY <1>11, CompactPreviousEffect, PaidFrame DEF StorageInv, PaidInv
  <1>12. CASE EndTick
    BY <1>12, EndTickEffect, PaidFrame DEF StorageInv, PaidInv
  <1>13. CASE WriteReport
    BY <1>13, WriteReportEffect, PaidFrame DEF StorageInv, PaidInv
  <1>14. CASE NormalizeFeed
    BY <1>14, NormalizeFeedEffect, PaidFrame DEF StorageInv, PaidInv
  <1>15. CASE WriteManifest
    BY <1>15, WriteManifestEffect, PaidFrame DEF StorageInv, PaidInv
  <1>16. CASE Settle
    BY <1>16, SettleEffect, PaidFrame DEF StorageInv, PaidInv, Settle
  <1>17. CASE SeesCancel
    BY <1>17, SeesCancelEffect, PaidFrame DEF StorageInv, PaidInv
  <1>18. CASE RemoveRunDir
    BY <1>18, RemoveRunDirEffect DEF RemoveRunDir, StorageInv, PaidInv, PaidOnce, Asked
  <1>19. CASE DeleteRow
    BY <1>19 DEF DeleteRow, bystanders, StorageInv, PaidInv, PaidOnce, Asked
  <1>20. CASE CompactHomes
    BY <1>20, CompactHomesEffect, PaidFrame DEF StorageInv, PaidInv
  <1>21. CASE CompactCache
    BY <1>21, CompactCacheEffect DEF StorageInv, RowInv, PaidInv, PaidOnce, Asked
  <1>22. CASE CompactTraces
    BY <1>22, CompactTracesEffect, PaidFrame DEF StorageInv, PaidInv
  <1>23. CASE RewriteCheckpoint
    BY <1>23, RewriteCheckpointEffect, PaidFrame DEF StorageInv, PaidInv
  <1>24. CASE RecordCompaction
    BY <1>24, RecordCompactionEffect, PaidFrame DEF StorageInv, PaidInv
  <1>25. CASE DropArtifacts
    BY <1>25, DropArtifactsEffect, PaidFrame DEF StorageInv, PaidInv, DropArtifacts
  <1>26. CASE Cancel
    BY <1>26 DEF Cancel, StorageInv, PaidInv, PaidOnce, Asked
  <1>27. CASE Crash
    <2>1. /\ \A b \in Bodies : lost'[b] = lost[b] + Cardinality({b} \cap Asked)
          /\ disk'.cached = disk.cached /\ worker'.req = {} /\ worker'.at = "down"
          /\ UNCHANGED <<row, kept, paid>>
      BY <1>27, CrashEffect DEF StorageInv, Crash
    <2>2. Asked' = {}
      BY <2>1 DEF Asked
    <2>3. ASSUME kept, row = "running", NEW b \in Bodies
          PROVE  paid[b] <= lost'[b] + Cardinality({b} \cap disk'.cached) + Cardinality({b} \cap Asked')
      <3>1. paid[b] <= lost[b] + Cardinality({b} \cap disk.cached) + Cardinality({b} \cap Asked)
        BY <2>3 DEF StorageInv, PaidInv, PaidOnce
      <3>2. paid[b] \in Nat /\ lost[b] \in Nat
        BY DEF StorageInv, Types
      <3>3. /\ Cardinality({b} \cap disk.cached) \in {0, 1} /\ Cardinality({b} \cap Asked) \in {0, 1}
            /\ Cardinality({b} \cap Asked') = 0
        BY <2>2, OneOrNone
      <3> QED BY <2>1, <3>1, <3>2, <3>3
    <2> QED BY <2>1, <2>3 DEF PaidInv, PaidOnce
  <1>28. CASE Restart
    BY <1>28, RestartEffect, PaidFrame DEF StorageInv, PaidInv, Restart
  <1>29. CASE BeginCall \/ ReadHistory \/ CompactionFails \/ ReadRow \/ ReadFeed \/ CacheTtl \/ OthersWrite
    <2>1. UNCHANGED <<disk, row, kept, worker, paid, lost, scene>>
      BY <1>29 DEF BeginCall, ReadHistory, CompactionFails, ReadRow, ReadFeed, CacheTtl, OthersWrite, audience, bystanders
    <2> QED BY <2>1 DEF StorageInv, PaidInv, PaidOnce, Asked
  <1> QED BY <1>1, <1>2, <1>3, <1>4, <1>5, <1>6, <1>7, <1>8, <1>9, <1>10, <1>11, <1>12, <1>13, <1>14, <1>15,
        <1>16, <1>17, <1>18, <1>19, <1>20, <1>21, <1>22, <1>23, <1>24, <1>25, <1>26, <1>27, <1>28,
        <1>29 DEF Next, Tick, Maintenance

-----------------------------------------------------------------------------
(* What the budget has seen. *)

\* A line, a file more; a directory with less in it.
LEMMA BytesOf ==
  ASSUME NEW d \in DiskType
  PROVE  /\ Len(d.main.lines) \in Nat /\ Len(d.canon.lines) \in Nat /\ d.cacheBytes \in Nat
         /\ Cardinality(Full(d)) \in Nat /\ Cardinality(d.files) \in Nat
  BY DiskParts, SizeTyped

\* A line more is a byte more.
LEMMA OneLineMore ==
  ASSUME NEW d \in DiskType, NEW n \in Nat
  PROVE  /\ RunBytes([d EXCEPT !.main = Appended(@, n)]) = RunBytes(d) + 1
         /\ RunBytes([d EXCEPT !.canon = Appended(@, n)]) = RunBytes(d) + 1
  <1> DEFINE e == [d EXCEPT !.main = Appended(@, n)]
             g == [d EXCEPT !.canon = Appended(@, n)]
             a == Len(d.main.lines)
             b == Len(d.canon.lines)
             c == Cardinality(Full(d))
             f == Cardinality(d.files)
             k == d.cacheBytes
  <1>1. d.main.lines \in Seq(Nat) /\ d.canon.lines \in Seq(Nat)
    BY DiskParts
  <1>2. /\ e.main = Appended(d.main, n) /\ e.canon = d.canon /\ e.saves = d.saves /\ e.files = d.files
        /\ e.cacheBytes = d.cacheBytes
        /\ g.canon = Appended(d.canon, n) /\ g.main = d.main /\ g.saves = d.saves /\ g.files = d.files
        /\ g.cacheBytes = d.cacheBytes
    BY DEF DiskType
  <1> HIDE DEF e, g
  <1>3. Len(e.main.lines) = a + 1 /\ Len(g.canon.lines) = b + 1
    BY <1>1, <1>2 DEF Appended, Feed
  <1>4. Full(e) = Full(d) /\ Full(g) = Full(d)
    BY <1>2 DEF Full
  <1>5. a \in Nat /\ b \in Nat /\ c \in Nat /\ f \in Nat /\ k \in Nat
    BY BytesOf
  <1>6. /\ RunBytes(d) = a + b + c + f + k
        /\ RunBytes(e) = (a + 1) + b + c + f + k
        /\ RunBytes(g) = a + (b + 1) + c + f + k
    BY <1>2, <1>3, <1>4, Zenon DEF RunBytes
  <1> HIDE DEF a, b, c, f, k
  <1>7. RunBytes(e) = RunBytes(d) + 1 /\ RunBytes(g) = RunBytes(d) + 1
    BY <1>5, <1>6
  <1> QED BY <1>7 DEF e, g

\* A file more is at most a byte more.
LEMMA OneFileMore ==
  ASSUME NEW d \in DiskType, NEW x
  PROVE  RunBytes([d EXCEPT !.files = @ \cup {x}]) <= RunBytes(d) + 1
  <1> DEFINE e == [d EXCEPT !.files = @ \cup {x}]
             a == Len(d.main.lines)
             b == Len(d.canon.lines)
             c == Cardinality(Full(d))
             f == Cardinality(d.files)
             k == d.cacheBytes
  <1>1. /\ e.main = d.main /\ e.canon = d.canon /\ e.saves = d.saves /\ e.files = d.files \cup {x}
        /\ e.cacheBytes = d.cacheBytes
    BY DEF DiskType
  <1> HIDE DEF e
  <1>2. IsFiniteSet(d.files) /\ a \in Nat /\ b \in Nat /\ c \in Nat /\ f \in Nat /\ k \in Nat
    BY BytesOf, SizeTyped
  <1>3. Cardinality(d.files \cup {x}) = f \/ Cardinality(d.files \cup {x}) = f + 1
    BY <1>2, FS_AddElement
  <1>4. Full(e) = Full(d)
    BY <1>1 DEF Full
  <1>5. /\ RunBytes(d) = a + b + c + f + k
        /\ RunBytes(e) = a + b + c + Cardinality(d.files \cup {x}) + k
    BY <1>1, <1>4, Zenon DEF RunBytes
  <1> HIDE DEF a, b, c, f, k
  <1>6. RunBytes(e) <= RunBytes(d) + 1
    BY <1>2, <1>3, <1>5
  <1> QED BY <1>6 DEF e

\* A directory with less in it is no larger.
LEMMA FewerBytes ==
  ASSUME NEW d \in DiskType, NEW e \in DiskType,
         Len(e.main.lines) <= Len(d.main.lines), Len(e.canon.lines) <= Len(d.canon.lines),
         Full(e) \subseteq Full(d), e.files \subseteq d.files, e.cacheBytes <= d.cacheBytes
  PROVE  RunBytes(e) <= RunBytes(d)
  <1> DEFINE a1 == Len(e.main.lines)
             b1 == Len(d.main.lines)
             a2 == Len(e.canon.lines)
             b2 == Len(d.canon.lines)
             a3 == Cardinality(Full(e))
             b3 == Cardinality(Full(d))
             a4 == Cardinality(e.files)
             b4 == Cardinality(d.files)
             a5 == e.cacheBytes
             b5 == d.cacheBytes
  <1>1. a3 <= b3 /\ a4 <= b4
    BY SizeTyped, FS_Subset
  <1>2. /\ a1 \in Nat /\ a2 \in Nat /\ a3 \in Nat /\ a4 \in Nat /\ a5 \in Nat
        /\ b1 \in Nat /\ b2 \in Nat /\ b3 \in Nat /\ b4 \in Nat /\ b5 \in Nat
    BY BytesOf
  <1>3. a1 <= b1 /\ a2 <= b2 /\ a5 <= b5
    OBVIOUS
  <1>4. RunBytes(e) = a1 + a2 + a3 + a4 + a5 /\ RunBytes(d) = b1 + b2 + b3 + b4 + b5
    BY Zenon DEF RunBytes
  <1> HIDE DEF a1, b1, a2, b2, a3, b3, a4, b4, a5, b5
  <1> QED BY SMTT(30), <1>1, <1>2, <1>3, <1>4

\* Bytes written without a note are unseen.
LEMMA GrowsCovers ==
  ASSUME Types, foreign' = foreign,
         (\E d \in DiskType : Writes(d) /\ Grows(d)) \/ UNCHANGED <<disk, unseen>>
  PROVE  Used' - unseen' <= Used - unseen
  <1>1. RunBytes(disk) \in Nat /\ foreign \in Nat /\ unseen \in Nat
    BY SizeTyped DEF Types
  <1>2. CASE UNCHANGED <<disk, unseen>>
    BY <1>1, <1>2 DEF Used, DirectorySize
  <1>3. ASSUME NEW d \in DiskType, Writes(d), Grows(d) PROVE Used' - unseen' <= Used - unseen
    <2>1. RunBytes(d) \in Nat
      BY SizeTyped
    <2>2. CASE worker.linked
      BY <1>3, <2>2, <1>1, <2>1, MaxOfTwo DEF Writes, Grows, Used, DirectorySize
    <2>3. CASE ~worker.linked
      BY <1>1, <1>3, <2>3 DEF Writes, Grows, Used, DirectorySize
    <2> QED BY <2>2, <2>3
  <1> QED BY <1>2, <1>3

\* The budget still covers what it covered.
LEMMA BudgetMargin ==
  ASSUME Types', budget'.fresh => Used' - unseen' <= budget'.size
  PROVE  BudgetInv'
  BY SizeTyped DEF Types, Used, DirectorySize, BudgetInv

\* The budget stays current while directory, foreign bytes and budget are left alone.
LEMMA BudgetFrame ==
  ASSUME BudgetInv, Types, Types', UNCHANGED budget, Used' - unseen' <= Used - unseen,
         Ticking' => Ticking,
         worker.at \in {"publish", "error"} => worker'.at \in {"publish", "error"}
  PROVE  BudgetInv'
  <1>1. Used \in Nat /\ unseen \in Nat /\ budget.size \in Nat
    BY UsedTyped DEF Types
  <1>2. Used' \in Nat /\ unseen' \in Nat
    BY SizeTyped DEF Types, Used, DirectorySize
  <1> SUFFICES ASSUME Ticking', budget'.fresh
               PROVE  Used' - unseen' <= budget'.size + IF worker'.at \in {"publish", "error"} THEN 1 ELSE 0
    BY DEF BudgetInv
  <1>3. Used - unseen <= budget.size + IF worker.at \in {"publish", "error"} THEN 1 ELSE 0
    BY DEF BudgetInv
  <1>6. budget'.size = budget.size
    OBVIOUS
  <1>7. ASSUME NEW a \in Int, NEW b \in Int, NEW c \in Int, NEW x \in {0, 1}, NEW y \in {0, 1}, x <= y, a <= b, b <= c + x
        PROVE  a <= c + y
    BY <1>7
  <1>8. Used' - unseen' \in Int /\ Used - unseen \in Int /\ budget.size \in Int
    BY <1>1, <1>2
  <1>4. CASE worker.at \in {"publish", "error"}
    BY <1>4, <1>3, <1>8, <1>6
  <1>5. CASE worker.at \notin {"publish", "error"}
    BY <1>3, <1>5, <1>6, <1>7, <1>8
  <1> QED BY <1>4, <1>5

\* Every action keeps the budget of a tick no further behind than the unseen bytes.
LEMMA BudgetStep == ASSUME StorageInv, Types', Next PROVE BudgetInv'
  <1>1. CASE BeginTick
    BY <1>1, BeginTickEffect DEF StorageInv, BudgetInv, Ticking
  <1>2. CASE EnsureRunWorkspace
    BY <1>2, EnsureRunWorkspaceEffect DEF StorageInv, BudgetInv, Ticking
  <1>3. CASE OpenRunContext
    <2>1. RunBytes(disk') = RunBytes(disk)
      BY <1>3, OpenRunContextEffect DEF StorageInv, RunBytes, Full
    <2>2. budget'.size = Used /\ unseen' = 0 /\ foreign' = foreign
      BY <1>3, OpenRunContextEffect DEF StorageInv, OpenRunContext
    <2>3. Used' - unseen' <= budget'.size
      BY SizeTyped, <2>1, <2>2 DEF StorageInv, Types, Used, DirectorySize
    <2> QED BY <2>3, BudgetMargin DEF StorageInv
  <1>4. CASE Emit
    <2>1. RunBytes(disk') <= RunBytes(disk) + 1 /\ (worker'.at = "error" => disk' = disk)
      <3>1. disk' = disk \/ disk' = [disk EXCEPT !.main = Appended(@, worker.records + 1)]
        BY <1>4 DEF Emit, Writes
      <3>2. RunBytes(disk) \in Nat /\ disk \in DiskType /\ worker.records + 1 \in Nat
        BY SizeTyped, WorkerParts DEF StorageInv, Types
      <3>3. worker'.at = "error" => disk' = disk
        BY <1>4 DEF StorageInv, Types, Emit, Goes, WorkerType
      <3>4. RunBytes([disk EXCEPT !.main = Appended(@, worker.records + 1)]) = RunBytes(disk) + 1
        BY <3>2, OneLineMore
      <3> QED BY <3>1, <3>2, <3>3, <3>4
    <2>2. /\ worker.at = "write" /\ worker'.at \in {"publish", "error"} /\ foreign' = foreign
          /\ budget' = [size |-> CurrentUsed, fresh |-> TRUE]
          /\ unseen' = IF budget.fresh THEN unseen ELSE 0
      BY <1>4, EmitEffect DEF StorageInv, Emit, Evaluated
    <2>3. Used - unseen' <= budget'.size
      BY <2>2, UsedTyped DEF StorageInv, Types, BudgetInv, Ticking, CurrentUsed
    <2>4. Used' - unseen' <= budget'.size + IF worker'.at \in {"publish", "error"} THEN 1 ELSE 0
      BY SizeTyped, <2>1, <2>2, <2>3 DEF StorageInv, Types, Used, DirectorySize
    <2> QED BY <2>4 DEF BudgetInv
  <1>5. CASE Publish
    <2>1. RunBytes(disk') <= RunBytes(disk) + 1
      <3>1. disk' = disk \/ disk' = [disk EXCEPT !.canon = Appended(@, worker.records + 1)]
        BY <1>5 DEF Publish, Writes
      <3>2. RunBytes(disk) \in Nat /\ disk \in DiskType /\ worker.records + 1 \in Nat
        BY SizeTyped, WorkerParts DEF StorageInv, Types
      <3>3. RunBytes([disk EXCEPT !.canon = Appended(@, worker.records + 1)]) = RunBytes(disk) + 1
        BY <3>2, OneLineMore
      <3> QED BY <3>1, <3>2, <3>3
    <2>2. /\ worker.at = "publish" /\ foreign' = foreign /\ unseen' = unseen
          /\ budget'.size = budget.size + 2 /\ budget'.fresh = budget.fresh
      BY <1>5, PublishEffect DEF StorageInv, Types, Publish, NoteAppended, EventBytes
    <2>3. /\ RunBytes(disk) \in Nat /\ RunBytes(disk') \in Nat /\ foreign \in Nat /\ unseen \in Nat
          /\ budget.size \in Nat
      BY SizeTyped DEF StorageInv, Types
    <2>4. budget'.fresh => Used' - unseen' <= budget'.size
      BY <2>2, <2>1, <2>3 DEF StorageInv, BudgetInv, Ticking, Used, DirectorySize
    <2> QED BY <2>4, BudgetMargin DEF StorageInv
  <1>6. CASE WriteFails
    BY <1>6, TornTyped, WriteFailsEffect, GrowsCovers, BudgetFrame DEF StorageInv, WriteFails,
       Ticking
  <1>7. CASE OpenCache
    BY <1>7, UsedTyped, OpenCacheEffect, BudgetFrame DEF StorageInv, Types, Used, DirectorySize,
       Ticking
  <1>8. CASE CachedCall
    BY <1>8, UsedTyped, CachedCallEffect, BudgetFrame DEF StorageInv, Types, Used, DirectorySize,
       Ticking
  <1>9. CASE PutAnswer
    <2>1. Used' - unseen' <= Used - unseen
      <3>1. (\E d \in DiskType : Writes(d) /\ Grows(d)) \/ UNCHANGED <<disk, unseen>>
        BY WorkerParts, FilesTyped, StoredTyped, <1>9 DEF FileNames, StorageInv, Types, PutAnswer
      <3>2. foreign' = foreign
        BY <1>9, PutAnswerEffect DEF StorageInv
      <3> QED BY <3>1, <3>2, GrowsCovers DEF StorageInv
    <2>2. UNCHANGED budget /\ (Ticking' => Ticking) /\ worker.at # "publish" /\ (worker.at = "error" => worker'.at = "error")
      BY <1>9, PutAnswerEffect DEF StorageInv, Ticking
    <2> QED BY <2>1, <2>2, BudgetFrame DEF StorageInv
  <1>10. CASE SaveCheckpoint
    <2>1. Used' - unseen' <= Used - unseen
      BY SavesTyped, <1>10, SaveCheckpointEffect, GrowsCovers DEF StorageInv, Types, SaveCheckpoint
    <2>2. UNCHANGED budget /\ (Ticking' => Ticking) /\ worker.at # "publish" /\ (worker.at = "error" => worker'.at = "error")
      BY <1>10, SaveCheckpointEffect DEF StorageInv, Ticking
    <2> QED BY <2>1, <2>2, BudgetFrame DEF StorageInv
  <1>11. CASE CompactPrevious
    <2>1. RunBytes(disk') <= RunBytes(disk)
      <3>1. /\ disk'.main = disk.main /\ disk'.canon = disk.canon /\ disk'.files = disk.files
            /\ disk'.cacheBytes = disk.cacheBytes
        BY <1>11, CompactPreviousEffect DEF StorageInv
      <3>2. disk' = disk \/ \E k : disk'.saves = [disk.saves EXCEPT ![k] = "summary"]
        BY <1>11 DEF StorageInv, Types, CompactPrevious, DiskType
      <3>3. Full(disk') \subseteq Full(disk)
        BY <3>2, DiskParts DEF StorageInv, Types, Full
      <3>4. /\ Len(disk'.main.lines) <= Len(disk.main.lines) /\ Len(disk'.canon.lines) <= Len(disk.canon.lines)
            /\ disk'.cacheBytes <= disk.cacheBytes
        BY <3>1, DiskParts DEF StorageInv, Types
      <3> QED BY <3>1, <3>3, <3>4, FewerBytes DEF StorageInv, Types
    <2>2. Used' - unseen' <= Used - unseen
      BY SizeTyped, <1>11, <2>1, CompactPreviousEffect DEF StorageInv, Types, Used, DirectorySize
    <2>3. UNCHANGED budget /\ worker.at = "compact" /\ worker'.at = "write"
      BY <1>11, CompactPreviousEffect DEF StorageInv
    <2> QED BY <2>2, <2>3, BudgetFrame DEF StorageInv, Ticking
  <1>12. CASE EndTick
    BY <1>12, EndTickEffect DEF StorageInv, BudgetInv, Ticking
  <1>13. CASE WriteReport
    BY FilesTyped, <1>13, WriteReportEffect, GrowsCovers, BudgetFrame DEF StorageInv, Types,
       FileNames, WriteReport, Ticking
  <1>14. CASE NormalizeFeed
    BY FilesTyped, <1>14, NormalizeFeedEffect, GrowsCovers, BudgetFrame DEF StorageInv, Types,
       FileNames, NormalizeFeed, Ticking
  <1>15. CASE WriteManifest
    BY FilesTyped, <1>15, WriteManifestEffect, GrowsCovers, BudgetFrame DEF StorageInv, Types,
       FileNames, WriteManifest, Ticking
  <1>16. CASE Settle
    BY <1>16, SettleEffect DEF StorageInv, BudgetInv, Ticking
  <1>17. CASE SeesCancel
    BY <1>17, SeesCancelEffect DEF StorageInv, BudgetInv, Ticking
  <1>18. CASE RemoveRunDir
    <2>1. RunBytes(disk') <= RunBytes(disk)
      <3>1. /\ Len(disk'.main.lines) <= Len(disk.main.lines) /\ Len(disk'.canon.lines) <= Len(disk.canon.lines)
            /\ disk'.files \subseteq disk.files /\ disk'.cacheBytes <= disk.cacheBytes
        BY SMTT(30), <1>18, RemoveRunDirEffect, DiskParts DEF StorageInv, Types, NoFeed, Feed
      <3>2. Full(disk') \subseteq Full(disk)
        BY <1>18, RemoveRunDirEffect DEF StorageInv, Full
      <3> QED BY <3>1, <3>2, FewerBytes DEF StorageInv, Types
    <2>2. Used' - unseen' <= Used - unseen
      <3>1. RunBytes(disk) \in Nat /\ RunBytes(disk') \in Nat
        BY SizeTyped DEF StorageInv, Types
      <3> QED BY <1>18, <2>1, <3>1, RemoveRunDirEffect DEF StorageInv, Types, Used, DirectorySize
    <2>3. UNCHANGED budget /\ worker'.at = worker.at
      BY <1>18, RemoveRunDirEffect DEF StorageInv
    <2> QED BY <2>2, <2>3, BudgetFrame DEF StorageInv, Ticking
  <1>19. CASE CompactHomes
    <2>1. RunBytes(disk') <= RunBytes(disk)
      <3>1. /\ Len(disk'.main.lines) <= Len(disk.main.lines) /\ Len(disk'.canon.lines) <= Len(disk.canon.lines)
            /\ disk'.files \subseteq disk.files /\ disk'.cacheBytes <= disk.cacheBytes
        BY <1>19, CompactHomesEffect, DiskParts DEF StorageInv, Types
      <3>2. Full(disk') \subseteq Full(disk)
        BY <1>19, CompactHomesEffect DEF StorageInv, Full
      <3> QED BY <3>1, <3>2, FewerBytes DEF StorageInv, Types
    <2>2. Used' - unseen' <= Used - unseen
      BY SizeTyped, <1>19, <2>1, CompactHomesEffect DEF StorageInv, Types, Used, DirectorySize
    <2>3. UNCHANGED budget /\ worker'.at = worker.at
      BY <1>19, CompactHomesEffect DEF StorageInv
    <2> QED BY <2>2, <2>3, BudgetFrame DEF StorageInv, Ticking
  <1>20. CASE CompactCache
    <2>1. RunBytes(disk') <= RunBytes(disk)
      <3>1. /\ Len(disk'.main.lines) <= Len(disk.main.lines) /\ Len(disk'.canon.lines) <= Len(disk.canon.lines)
            /\ disk'.files \subseteq disk.files /\ disk'.cacheBytes <= disk.cacheBytes
        BY SMTT(30), <1>20, CompactCacheEffect, DiskParts DEF StorageInv, Types
      <3>2. Full(disk') \subseteq Full(disk)
        BY <1>20, CompactCacheEffect DEF StorageInv, Full
      <3> QED BY <3>1, <3>2, FewerBytes DEF StorageInv, Types
    <2>2. Used' - unseen' <= Used - unseen
      BY SizeTyped, <1>20, <2>1, CompactCacheEffect DEF StorageInv, Types, Used, DirectorySize
    <2>3. UNCHANGED budget /\ worker'.at = worker.at
      BY <1>20, CompactCacheEffect DEF StorageInv
    <2> QED BY <2>2, <2>3, BudgetFrame DEF StorageInv, Ticking
  <1>21. CASE CompactTraces
    <2>1. RunBytes(disk') <= RunBytes(disk)
      <3>1. /\ Len(disk'.main.lines) <= Len(disk.main.lines) /\ Len(disk'.canon.lines) <= Len(disk.canon.lines)
            /\ disk'.files \subseteq disk.files /\ disk'.cacheBytes <= disk.cacheBytes
        BY SMTT(30), <1>21, CompactTracesEffect, DiskParts DEF StorageInv, Types
      <3>2. Full(disk') \subseteq Full(disk)
        BY <1>21, CompactTracesEffect DEF StorageInv, Full
      <3> QED BY <3>1, <3>2, FewerBytes DEF StorageInv, Types
    <2>2. Used' - unseen' <= Used - unseen
      BY SizeTyped, <1>21, <2>1, CompactTracesEffect DEF StorageInv, Types, Used, DirectorySize
    <2>3. UNCHANGED budget /\ worker'.at = worker.at
      BY <1>21, CompactTracesEffect DEF StorageInv
    <2> QED BY <2>2, <2>3, BudgetFrame DEF StorageInv, Ticking
  <1>22. CASE RewriteCheckpoint
    <2>1. RunBytes(disk') <= RunBytes(disk)
      <3>1. /\ disk'.main = disk.main /\ disk'.canon = disk.canon /\ disk'.files = disk.files
            /\ disk'.cacheBytes = disk.cacheBytes
        BY <1>22, RewriteCheckpointEffect DEF StorageInv
      <3>2. disk' = disk \/ \E k : disk'.saves = [disk.saves EXCEPT ![k] = "summary"]
        BY ZenonT(40), <1>22 DEF StorageInv, Types, RewriteCheckpoint, DiskType
      <3>3. Full(disk') \subseteq Full(disk)
        BY <3>2, DiskParts DEF StorageInv, Types, Full
      <3>4. /\ Len(disk'.main.lines) <= Len(disk.main.lines) /\ Len(disk'.canon.lines) <= Len(disk.canon.lines)
            /\ disk'.cacheBytes <= disk.cacheBytes
        BY <3>1, DiskParts DEF StorageInv, Types
      <3> QED BY <3>1, <3>3, <3>4, FewerBytes DEF StorageInv, Types
    <2>2. Used' - unseen' <= Used - unseen
      BY SizeTyped, <1>22, <2>1, RewriteCheckpointEffect DEF StorageInv, Types, Used, DirectorySize
    <2>3. UNCHANGED budget /\ worker'.at = worker.at
      BY <1>22, RewriteCheckpointEffect DEF StorageInv
    <2> QED BY <2>2, <2>3, BudgetFrame DEF StorageInv, Ticking
  <1>23. CASE RecordCompaction
    <2>1. UNCHANGED <<budget, worker, foreign>>
      BY <1>23 DEF RecordCompaction
    <2>2. CASE disk.dir /\ Ticking
      <3>1. disk' = [disk EXCEPT !.files = @ \cup {"compaction"}] /\ unseen' = unseen + 1
        BY <1>23, <2>2 DEF RecordCompaction
      <3>2. RunBytes(disk') <= RunBytes(disk) + 1
        BY <3>1, OneFileMore DEF StorageInv, Types
      <3>3. RunBytes(disk) \in Nat /\ RunBytes(disk') \in Nat /\ foreign \in Nat /\ unseen \in Nat
        BY SizeTyped DEF StorageInv, Types
      <3>4. Used' - unseen' <= Used - unseen
        BY <2>1, <3>1, <3>2, <3>3 DEF Used, DirectorySize
      <3> QED BY <2>1, <3>4, BudgetFrame DEF StorageInv, Ticking
    <2>3. CASE ~Ticking
      BY <2>1, <2>3 DEF BudgetInv, Ticking
    <2>4. CASE ~disk.dir
      BY <1>23, <2>1, <2>4 DEF StorageInv, BudgetInv, Ticking, Used, DirectorySize, RecordCompaction
    <2> QED BY <2>2, <2>3, <2>4
  <1>24. CASE DropArtifacts
    <2>1. RunBytes(disk') <= RunBytes(disk)
      <3>1. CASE disk.refs
        <4>1. disk'.main.lines = <<>>
          <5>1. disk'.main = NoFeed
            BY <1>24, <3>1 DEF StorageInv, Types, DropArtifacts, DiskType
          <5> QED BY <5>1 DEF NoFeed, Feed
        <4>2. Len(disk'.main.lines) <= Len(disk.main.lines)
          BY <4>1, DiskParts DEF StorageInv, Types
        <4>3. /\ Len(disk'.canon.lines) <= Len(disk.canon.lines) /\ disk'.files \subseteq disk.files
              /\ disk'.cacheBytes <= disk.cacheBytes
          BY <1>24, DropArtifactsEffect, DiskParts DEF StorageInv, Types
        <4>4. Full(disk') \subseteq Full(disk)
          BY <1>24, DropArtifactsEffect DEF StorageInv, Full
        <4> QED BY <4>2, <4>3, <4>4, FewerBytes DEF StorageInv, Types
      <3>2. CASE ~disk.refs
        BY <1>24, <3>2, SizeTyped DEF DropArtifacts, StorageInv, Types
      <3> QED BY <3>1, <3>2
    <2>2. Used' - unseen' <= Used - unseen
      BY SizeTyped, <1>24, <2>1, DropArtifactsEffect DEF StorageInv, Types, Used, DirectorySize
    <2>3. UNCHANGED budget /\ worker'.at = worker.at
      BY <1>24, DropArtifactsEffect DEF StorageInv
    <2> QED BY <2>2, <2>3, BudgetFrame DEF StorageInv, Ticking
  <1>25. CASE Crash
    BY <1>25, CrashEffect DEF StorageInv, BudgetInv, Ticking
  <1>26. CASE Restart
    BY <1>26, RestartEffect DEF StorageInv, BudgetInv, Ticking
  <1>27. CASE CacheTtl
    BY <1>27 DEF CacheTtl, StorageInv, Types, BudgetInv
  <1>28. CASE OthersWrite
    <2>1. UNCHANGED <<budget, worker, disk>> /\ foreign' = foreign + 1 /\ (Ticking => unseen' = unseen + 1)
      BY <1>28 DEF OthersWrite
    <2>2. RunBytes(disk) \in Nat /\ foreign \in Nat /\ unseen \in Nat
      BY SizeTyped DEF StorageInv, Types
    <2>3. Ticking => Used' - unseen' <= Used - unseen
      BY <2>1, <2>2 DEF Used, DirectorySize
    <2>4. CASE Ticking
      BY <2>1, <2>3, <2>4, BudgetFrame DEF StorageInv, Ticking
    <2>5. CASE ~Ticking
      BY <2>1, <2>5 DEF BudgetInv, Ticking
    <2> QED BY <2>4, <2>5
  <1>29. CASE BeginCall \/ DeleteRow \/ ReadHistory \/ CompactionFails \/ ReadRow \/ ReadFeed \/ Cancel
    <2>1. UNCHANGED <<disk, worker, budget, foreign, unseen>>
      BY <1>29 DEF BeginCall, DeleteRow, ReadHistory, CompactionFails, ReadRow, ReadFeed, Cancel, audience, bystanders
    <2> QED BY <2>1 DEF StorageInv, BudgetInv, Ticking, Used, DirectorySize
  <1> QED BY <1>1, <1>2, <1>3, <1>4, <1>5, <1>6, <1>7, <1>8, <1>9, <1>10, <1>11, <1>12, <1>13, <1>14, <1>15,
        <1>16, <1>17, <1>18, <1>19, <1>20, <1>21, <1>22, <1>23, <1>24, <1>25, <1>26, <1>27, <1>28,
        <1>29 DEF Next, Tick, Maintenance

-----------------------------------------------------------------------------
(* What a reader has had. *)

\* While nothing is removed a feed is left alone or gets the event of the tick at its end.
MainGrows ==
    \/ disk'.main.lines = disk.main.lines
    \/ worker.at = "write" /\ disk'.main.lines = Append(disk.main.lines, worker.records + 1)

CanonGrows ==
    \/ disk'.canon.lines = disk.canon.lines
    \/ worker.at = "publish" /\ disk'.canon.lines = Append(disk.canon.lines, worker.records + 1)

\* Every step that removes nothing makes the feeds grow at their end or leaves them alone.
LEMMA FeedsGrow ==
  ASSUME StorageInv, Next, kept' PROVE kept /\ worker.linked /\ MainGrows /\ CanonGrows
  <1>1. CASE BeginTick
    BY <1>1, BeginTickEffect DEF StorageInv, RowInv, MainGrows, CanonGrows
  <1>2. CASE OpenCache
    BY <1>2, OpenCacheEffect DEF StorageInv, RowInv, MainGrows, CanonGrows
  <1>3. CASE CachedCall
    BY <1>3, CachedCallEffect DEF StorageInv, RowInv, MainGrows, CanonGrows
  <1>4. CASE EndTick
    BY <1>4, EndTickEffect DEF StorageInv, RowInv, MainGrows, CanonGrows
  <1>5. CASE Settle
    BY <1>5, SettleEffect DEF StorageInv, RowInv, MainGrows, CanonGrows
  <1>6. CASE SeesCancel
    BY <1>6, SeesCancelEffect DEF StorageInv, RowInv, MainGrows, CanonGrows
  <1>7. CASE Restart
    BY <1>7, RestartEffect DEF StorageInv, RowInv, MainGrows, CanonGrows
  <1>8. CASE EnsureRunWorkspace
    BY <1>8, EnsureRunWorkspaceEffect DEF StorageInv, RowInv, MainGrows, CanonGrows
  <1>9. CASE OpenRunContext
    BY <1>9, OpenRunContextEffect DEF StorageInv, RowInv, MainGrows, CanonGrows
  <1>10. CASE PutAnswer
    BY <1>10, PutAnswerEffect DEF StorageInv, RowInv, MainGrows, CanonGrows
  <1>11. CASE SaveCheckpoint
    BY <1>11, SaveCheckpointEffect DEF StorageInv, RowInv, MainGrows, CanonGrows
  <1>12. CASE CompactPrevious
    BY <1>12, CompactPreviousEffect DEF StorageInv, RowInv, MainGrows, CanonGrows
  <1>13. CASE WriteReport
    BY <1>13, WriteReportEffect DEF StorageInv, RowInv, MainGrows, CanonGrows
  <1>14. CASE NormalizeFeed
    BY <1>14, NormalizeFeedEffect DEF StorageInv, RowInv, MainGrows, CanonGrows
  <1>15. CASE WriteManifest
    BY <1>15, WriteManifestEffect DEF StorageInv, RowInv, MainGrows, CanonGrows
  <1>16. CASE CompactHomes
    BY <1>16, CompactHomesEffect DEF StorageInv, RowInv, MainGrows, CanonGrows
  <1>17. CASE CompactTraces
    BY <1>17, CompactTracesEffect DEF StorageInv, RowInv, MainGrows, CanonGrows
  <1>18. CASE CompactCache
    BY <1>18, CompactCacheEffect DEF StorageInv, RowInv, MainGrows, CanonGrows
  <1>19. CASE RewriteCheckpoint
    BY <1>19, RewriteCheckpointEffect DEF StorageInv, RowInv, MainGrows, CanonGrows
  <1>20. CASE RecordCompaction
    BY <1>20, RecordCompactionEffect DEF StorageInv, RowInv, MainGrows, CanonGrows
  <1>21. CASE Emit
    <2>1. kept /\ worker.linked /\ worker.at = "write" /\ disk'.canon = disk.canon
      BY <1>21, EmitEffect DEF StorageInv, RowInv
    <2>2. disk' = disk \/ disk'.main = Appended(disk.main, worker.records + 1)
      BY <1>21 DEF StorageInv, Types, Emit, Writes, DiskType
    <2> QED BY <2>1, <2>2 DEF MainGrows, CanonGrows, Appended, Feed
  <1>22. CASE Publish
    BY <1>22, PublishEffect DEF StorageInv, RowInv, Types, Publish, Writes, DiskType, MainGrows,
       CanonGrows, Appended, Feed
  <1>23. CASE WriteFails
    BY <1>23, WriteFailsEffect, TornLines DEF StorageInv, RowInv, WriteFails, Writes, MainGrows,
       CanonGrows
  <1>24. CASE Crash
    BY <1>24, CrashEffect, TornLines DEF StorageInv, RowInv, Crash, Writes, MainGrows, CanonGrows
  <1>25. CASE RemoveRunDir \/ Cancel
    BY <1>25 DEF RemoveRunDir, Cancel
  <1>26. CASE DropArtifacts
    BY <1>26 DEF DropArtifacts, StorageInv, RowInv, MainGrows, CanonGrows
  <1>27. CASE BeginCall \/ DeleteRow \/ ReadHistory \/ CompactionFails \/ ReadRow \/ ReadFeed \/ CacheTtl \/ OthersWrite
    <2>1. UNCHANGED <<disk, kept>>
      BY <1>27 DEF BeginCall, DeleteRow, ReadHistory, CompactionFails, ReadRow, ReadFeed, CacheTtl, OthersWrite, audience
    <2> QED BY <2>1 DEF StorageInv, RowInv, MainGrows, CanonGrows
  <1> QED BY <1>1, <1>2, <1>3, <1>4, <1>5, <1>6, <1>7, <1>8, <1>9, <1>10, <1>11, <1>12, <1>13, <1>14, <1>15,
        <1>16, <1>17, <1>18, <1>19, <1>20, <1>21, <1>22, <1>23, <1>24, <1>25, <1>26, <1>27 DEF Next, Tick,
        Maintenance

\* Only a round of reading brings the reader events or the end.
LEMMA OthersDeliverNothing ==
  ASSUME StorageInv, Next, ~ReadFeed
  PROVE  /\ reader'.kind = reader.kind /\ reader'.got = reader.got /\ reader'.last = reader.last
         /\ (reader'.at = "told") <=> (reader.at = "told")
  <1>1. CASE ReadRow
    BY <1>1 DEF ReadRow, StorageInv, Types, ReaderType
  <1>2. CASE Crash
    BY <1>2 DEF Crash, StorageInv, Types, ReaderType
  <1>3. CASE Tick
    <2>1. reader' = reader
      BY <1>3 DEF Tick, BeginTick, EnsureRunWorkspace, OpenRunContext, Emit, Publish, WriteFails, OpenCache,
            CachedCall, PutAnswer, SaveCheckpoint, CompactPrevious, EndTick, WriteReport, NormalizeFeed,
            WriteManifest, Settle, SeesCancel, untouched
    <2> QED BY <2>1
  <1>4. CASE Maintenance
    <2>1. reader' = reader
      BY <1>4 DEF Maintenance, BeginCall, RemoveRunDir, DeleteRow, CompactHomes, CompactCache, CompactTraces,
            CompactionFails, ReadHistory, RewriteCheckpoint, RecordCompaction, DropArtifacts, bystanders
    <2> QED BY <2>1
  <1>5. CASE Cancel \/ Restart \/ CacheTtl \/ OthersWrite
    BY <1>5 DEF Cancel, Restart, CacheTtl, OthersWrite
  <1> QED BY <1>1, <1>2, <1>3, <1>4, <1>5 DEF Next

\* The lines the reader has had are those numbered up to the last one.
LEMMA SentIsHad ==
  ASSUME NEW s \in Seq(Nat), Increasing(s), \A i \in DOMAIN s : 1 <= s[i],
         NEW k \in 0 .. Len(s), NEW last \in Nat, last = IF k = 0 THEN 0 ELSE s[k]
  PROVE  Sent(s, last) = k
  <1>1. DOMAIN s = 1 .. Len(s) /\ Len(s) \in Nat /\ \A i \in 1 .. Len(s) : s[i] \in Nat
    OBVIOUS
  <1>2. {i \in DOMAIN s : s[i] <= last} = 1 .. k
    <2>1. CASE k = 0
      BY <1>1, <2>1
    <2>2. CASE k # 0
      <3>1. k \in DOMAIN s /\ last = s[k]
        BY <1>1, <2>2
      <3>2. ASSUME NEW i \in DOMAIN s PROVE s[i] <= last <=> i <= k
        <4>1. i < k => s[i] < s[k]
          BY <3>1 DEF Increasing
        <4>2. k < i => s[k] < s[i]
          BY <3>1 DEF Increasing
        <4>3. s[i] \in Nat /\ s[k] \in Nat /\ i \in Nat /\ k \in Nat
          BY <1>1, <3>1
        <4> QED BY <3>1, <4>1, <4>2, <4>3
      <3> QED BY <1>1, <3>2
    <2> QED BY <2>1, <2>2
  <1>3. Cardinality(1 .. k) = k
    BY <1>1, FS_Interval
  <1> QED BY <1>2, <1>3 DEF Sent

\* What a round of reading brings: the next piece of the feed, its whole rest for a subscriber.
LEMMA RoundBrings ==
  ASSUME StorageInv, kept
  PROVE  LET lines == FeedOf(reader.kind).lines
             had   == Len(reader.got)
         IN  \E m \in had .. Len(lines) :
                /\ Unsent(reader.kind, reader.last) = SubSeq(lines, had + 1, m)
                /\ reader.kind = "websocket" \/ m = had => m = Len(lines)
  <1> DEFINE lines == FeedOf(reader.kind).lines
             had   == Len(reader.got)
  <1>1. lines \in Seq(Nat) /\ Len(lines) \in Nat /\ had \in Nat /\ reader.last \in Nat
    BY DiskParts DEF StorageInv, Types, ReaderType, FeedOf
  <1>2. Increasing(lines) /\ \A i \in DOMAIN lines : 1 <= lines[i]
    <2>1. CASE reader.kind = "websocket"
      BY DiskParts, <2>1 DEF StorageInv, Types, MainInv, FeedOf, Increasing
    <2>2. CASE reader.kind # "websocket"
      BY <2>2 DEF StorageInv, CanonInv, Follows, FeedOf
    <2> QED BY <2>1, <2>2
  <1>3. had <= Len(lines) /\ reader.last = IF had = 0 THEN 0 ELSE lines[had]
    BY <1>1 DEF StorageInv, ReaderInv, Types, ReaderType
  <1>4. Sent(lines, reader.last) = had
    BY <1>1, <1>2, <1>3, SentIsHad
  <1> DEFINE m == IF reader.kind = "poll" THEN Min({had + PageLimit, Len(lines)}) ELSE Len(lines)
  <1>5. Unsent(reader.kind, reader.last) = SubSeq(lines, had + 1, m)
    BY <1>4 DEF Unsent
  <1> HIDE DEF lines, had
  <1>6. PageLimit \in Nat /\ PageLimit >= 1
    BY RunStorageAssumption
  <1>7. Min({had + PageLimit, Len(lines)}) = IF had + PageLimit <= Len(lines) THEN had + PageLimit ELSE Len(lines)
    BY <1>1, <1>6, MinOfTwo
  <1>8. m \in had .. Len(lines) /\ (reader.kind = "websocket" \/ m = had => m = Len(lines))
    BY <1>1, <1>3, <1>6, <1>7
  <1> QED BY <1>5, <1>8 DEF lines, had

\* A beginning of a sequence and the piece after it are a longer beginning.
LEMMA LongerBeginning ==
  ASSUME NEW lines \in Seq(Nat), NEW got \in Seq(Nat), NEW m \in Len(got) .. Len(lines),
         \A i \in 1 .. Len(got) : got[i] = lines[i]
  PROVE  LET new == SubSeq(lines, Len(got) + 1, m) IN
         /\ got \o new \in Seq(Nat) /\ Len(got \o new) = m
         /\ \A i \in 1 .. Len(got) : (got \o new)[i] = got[i]
         /\ \A i \in 1 .. m : (got \o new)[i] = lines[i]
         /\ new = <<>> => m = Len(got)
  <1> DEFINE new == SubSeq(lines, Len(got) + 1, m)
             had == Len(got)
  <1>1. had \in Nat /\ Len(lines) \in Nat /\ m \in Nat /\ had <= m /\ m <= Len(lines)
    OBVIOUS
  <1>2. \A i \in had + 1 .. m : lines[i] \in Nat
    BY <1>1
  <1>3. new \in Seq(Nat) /\ Len(new) = m - had /\ \A i \in 1 .. m - had : new[i] = lines[had + i]
    <2>1. had + 1 \in Int /\ m \in Int
      BY <1>1
    <2>2. /\ new \in Seq(Nat)
          /\ Len(new) = IF had + 1 <= m THEN m - (had + 1) + 1 ELSE 0
          /\ \A i \in 1 .. m - (had + 1) + 1 : new[i] = lines[had + 1 + i - 1]
      BY <1>2, <2>1, SubSeqProperties
    <2>3. \A i \in 1 .. m - had : i \in 1 .. m - (had + 1) + 1 /\ had + 1 + i - 1 = had + i
      BY <1>1
    <2> HIDE DEF new, had
    <2>4. Len(new) = m - had
      BY <1>1, <2>2
    <2> QED BY <2>2, <2>3, <2>4
  <1>4. /\ got \o new \in Seq(Nat) /\ Len(got \o new) = had + Len(new)
        /\ \A i \in 1 .. had + Len(new) : (got \o new)[i] = IF i <= had THEN got[i] ELSE new[i - had]
    BY <1>3, ConcatProperties
  <1> HIDE DEF new
  <1>5. Len(got \o new) = m /\ had + Len(new) = m
    BY <1>1, <1>3, <1>4
  <1>6. \A i \in 1 .. had : (got \o new)[i] = got[i]
    BY <1>1, <1>4, <1>5
  <1>7. ASSUME NEW i \in 1 .. m PROVE (got \o new)[i] = lines[i]
    <2>1. CASE i <= had
      BY <1>1, <1>6, <2>1
    <2>2. CASE ~(i <= had)
      <3>1. (got \o new)[i] = new[i - had]
        BY <1>4, <1>5, <2>2
      <3>2. i - had \in 1 .. m - had /\ had + (i - had) = i
        BY <1>1, <2>2
      <3> QED BY <1>3, <3>1, <3>2
    <2> QED BY <2>1, <2>2
  <1>8. new = <<>> => m = had
    BY <1>1, <1>3
  <1> QED BY <1>4, <1>5, <1>6, <1>7, <1>8 DEF new

\* With it the reader has a longer beginning of the feed.
LEMMA Delivered ==
  ASSUME StorageInv, kept
  PROVE  LET lines == FeedOf(reader.kind).lines
             new   == Unsent(reader.kind, reader.last)
             got   == reader.got \o new
         IN  /\ got \in Seq(Nat) /\ Len(reader.got) <= Len(got) /\ Len(got) <= Len(lines)
             /\ \A i \in 1 .. Len(reader.got) : got[i] = reader.got[i]
             /\ \A i \in 1 .. Len(got) : got[i] = lines[i]
             /\ reader.kind = "websocket" \/ new = <<>> => Len(got) = Len(lines)
  <1> DEFINE lines == FeedOf(reader.kind).lines
             new   == Unsent(reader.kind, reader.last)
             got   == reader.got \o new
             had   == Len(reader.got)
  <1>1. lines \in Seq(Nat) /\ Len(lines) \in Nat /\ reader.got \in Seq(Nat) /\ had \in Nat
    BY DiskParts DEF StorageInv, Types, ReaderType, FeedOf
  <1>2. PICK m \in had .. Len(lines) :
           /\ new = SubSeq(lines, had + 1, m)
           /\ reader.kind = "websocket" \/ m = had => m = Len(lines)
    BY RoundBrings
  <1>3. had <= Len(lines) /\ \A i \in 1 .. had : reader.got[i] = lines[i]
    BY DEF StorageInv, ReaderInv
  <1> HIDE DEF lines
  <1> DEFINE q == SubSeq(lines, Len(reader.got) + 1, m)
  <1>4. /\ reader.got \o q \in Seq(Nat) /\ Len(reader.got \o q) = m
        /\ \A i \in 1 .. had : (reader.got \o q)[i] = reader.got[i]
        /\ \A i \in 1 .. m : (reader.got \o q)[i] = lines[i]
        /\ q = <<>> => m = had
    BY <1>1, <1>2, <1>3, LongerBeginning
  <1>5. new = q
    BY <1>2
  <1>6. had <= m /\ m <= Len(lines)
    BY <1>1, <1>2
  <1> HIDE DEF q, new
  <1> QED BY <1>2, <1>4, <1>5, <1>6 DEF lines, new

\* Every action keeps what the reader has had a beginning of its feed.
LEMMA ReaderStep == ASSUME StorageInv, Types', Next PROVE ReaderInv'
  <1>1. reader.got \in Seq(Nat) /\ Len(reader.got) \in Nat
    BY DEF StorageInv, Types, ReaderType
  <1>2. disk.main.lines \in Seq(Nat) /\ disk.canon.lines \in Seq(Nat)
    BY DiskParts DEF StorageInv, Types
  <1>3. CASE ReadFeed
    <2> DEFINE new == Unsent(reader.kind, reader.last)
    <2>1. UNCHANGED <<disk, kept>> /\ reader'.kind = reader.kind
      BY <1>3 DEF ReadFeed, audience, StorageInv, Types, ReaderType
    <2>2. \/ reader'.got = reader.got /\ reader'.last = reader.last
          \/ reader'.got = reader.got \o new /\ reader'.last = IF new = <<>> THEN reader.last ELSE Last(new)
      BY <1>3 DEF ReadFeed, StorageInv, Types, ReaderType
    <2>3. FeedOf(reader.kind).lines \in Seq(Nat) /\ reader.last \in Nat
      BY <1>2 DEF StorageInv, Types, ReaderType, FeedOf
    <2>4. new \in Seq(Nat)
      BY <2>3, UnsentTyped, RunStorageAssumption
    <2>5. CASE reader'.got = reader.got /\ reader'.last = reader.last
      BY <2>1, <2>5 DEF StorageInv, ReaderInv, FeedOf
    <2>6. CASE reader'.got = reader.got \o new /\ reader'.last = IF new = <<>> THEN reader.last ELSE Last(new)
      <3>1. reader'.last = IF reader'.got = <<>> THEN 0 ELSE reader'.got[Len(reader'.got)]
        <4>1. CASE new = <<>>
          <5>1. reader'.got = reader.got /\ reader'.last = reader.last
            BY <1>1, <2>6, <4>1
          <5> QED BY <5>1 DEF StorageInv, ReaderInv
        <4>2. CASE new # <<>>
          <5> HIDE DEF new
          <5>1. /\ Len(new) \in Nat /\ Len(new) >= 1 /\ Len(reader'.got) = Len(reader.got) + Len(new)
                /\ reader'.got[Len(reader.got) + Len(new)] = new[Len(new)] /\ reader'.got # <<>>
            BY <1>1, <2>4, <2>6, <4>2
          <5> QED BY <2>6, <4>2, <5>1 DEF Last
        <4> QED BY <4>1, <4>2
      <3>2. ASSUME kept'
            PROVE  /\ Len(reader'.got) <= Len(FeedOf(reader.kind).lines)
                   /\ \A i \in 1 .. Len(reader'.got) : reader'.got[i] = FeedOf(reader.kind).lines[i]
        BY <2>1, <2>6, <3>2, Delivered
      <3> QED BY <2>1, <3>1, <3>2 DEF ReaderInv, FeedOf
    <2> QED BY <2>2, <2>5, <2>6
  <1>4. CASE ~ReadFeed
    <2>1. reader'.kind = reader.kind /\ reader'.got = reader.got /\ reader'.last = reader.last
      BY <1>4, OthersDeliverNothing
    <2>2. ASSUME kept'
          PROVE  /\ Len(reader.got) <= Len(FeedOf(reader.kind)'.lines)
                 /\ \A i \in 1 .. Len(reader.got) : reader.got[i] = FeedOf(reader.kind)'.lines[i]
      <3>1. /\ Len(disk.main.lines) <= Len(disk'.main.lines) /\ Len(disk.canon.lines) <= Len(disk'.canon.lines)
            /\ \A i \in 1 .. Len(disk.main.lines) : disk'.main.lines[i] = disk.main.lines[i]
            /\ \A i \in 1 .. Len(disk.canon.lines) : disk'.canon.lines[i] = disk.canon.lines[i]
        <4>1. MainGrows /\ CanonGrows
          BY <2>2, FeedsGrow
        <4>2. ASSUME NEW s \in Seq(Nat), NEW t, NEW n, t = s \/ t = Append(s, n)
              PROVE  Len(s) <= Len(t) /\ \A i \in 1 .. Len(s) : t[i] = s[i]
          BY <4>2
        <4>3. disk'.main.lines = disk.main.lines \/ disk'.main.lines = Append(disk.main.lines, worker.records + 1)
          BY <4>1 DEF MainGrows
        <4>4. disk'.canon.lines = disk.canon.lines \/ disk'.canon.lines = Append(disk.canon.lines, worker.records + 1)
          BY <4>1 DEF CanonGrows
        <4>5. Len(disk.main.lines) <= Len(disk'.main.lines)
                /\ \A i \in 1 .. Len(disk.main.lines) : disk'.main.lines[i] = disk.main.lines[i]
          BY ZenonT(40), <1>2, <4>2, <4>3
        <4>6. Len(disk.canon.lines) <= Len(disk'.canon.lines)
                /\ \A i \in 1 .. Len(disk.canon.lines) : disk'.canon.lines[i] = disk.canon.lines[i]
          BY <1>2, <4>2, <4>4
        <4> QED BY <4>5, <4>6
      <3>2. kept
        BY <2>2, FeedsGrow
      <3>3. /\ Len(reader.got) <= Len(FeedOf(reader.kind).lines)
            /\ \A i \in 1 .. Len(reader.got) : reader.got[i] = FeedOf(reader.kind).lines[i]
        BY <3>2 DEF StorageInv, ReaderInv
      <3>4. Len(disk.main.lines) \in Nat /\ Len(disk'.main.lines) \in Nat /\ Len(disk.canon.lines) \in Nat
              /\ Len(disk'.canon.lines) \in Nat
        BY BytesOf DEF StorageInv, Types
      <3>5. CASE reader.kind = "websocket"
        BY <1>1, <2>1, <3>1, <3>3, <3>4, <3>5 DEF FeedOf
      <3>6. CASE reader.kind # "websocket"
        BY <1>1, <2>1, <3>1, <3>3, <3>4, <3>6 DEF FeedOf
      <3> QED BY <3>5, <3>6
    <2>3. reader.last = IF reader.got = <<>> THEN 0 ELSE reader.got[Len(reader.got)]
      BY DEF StorageInv, ReaderInv
    <2> QED BY <2>1, <2>2, <2>3 DEF ReaderInv, FeedOf
  <1> QED BY <1>3, <1>4

-----------------------------------------------------------------------------
(* The theorems. *)

\* The invariant holds at the start.
LEMMA StorageInit == Init => StorageInv
  <1> SUFFICES ASSUME Init PROVE StorageInv
    OBVIOUS
  <1>1. Types
    BY TypesInit
  <1>2. /\ disk.main.lines = <<>> /\ disk.canon.lines = <<>> /\ disk.saves = <<>> /\ disk.cached = {}
        /\ worker.at = "rest" /\ worker.linked /\ worker.req = {}
        /\ call.at = "idle" /\ ~call.wanted /\ reader.got = <<>> /\ reader.last = 0 /\ ~reader.over
        /\ row = "running" /\ kept /\ faults = 0
    BY DEF Init, Absent, NoFeed, Feed, Idle, NoCall
  <1>3. RowInv
    BY <1>2 DEF RowInv
  <1>4. MainInv
    BY <1>2 DEF MainInv, Inside
  <1>5. CanonInv
    BY <1>2 DEF CanonInv, Follows, Between, Increasing
  <1>6. ReaderInv
    BY <1>2 DEF FeedOf, ReaderInv
  <1>7. SavesInv
    BY <1>2 DEF SavesInv, ResumePoint, Inside
  <1>8. PaidInv
    <2>1. Asked = {}
      BY <1>2 DEF Asked
    <2>2. ASSUME NEW b \in Bodies
          PROVE  paid[b] <= lost[b] + Cardinality({b} \cap disk.cached) + Cardinality({b} \cap Asked)
      BY <1>2, <2>1, OneOrNone DEF Init
    <2> QED BY <1>2, <2>2 DEF PaidInv, PaidOnce
  <1>9. WantedInv
    BY <1>2 DEF WantedInv
  <1>10. BudgetInv
    BY <1>2 DEF BudgetInv, Ticking
  <1> QED BY <1>1, <1>3, <1>4, <1>5, <1>6, <1>7, <1>8, <1>9, <1>10 DEF StorageInv

\* Every step keeps the invariant.
LEMMA StorageStep == StorageInv /\ [Next]_vars => StorageInv'
  <1> SUFFICES ASSUME StorageInv, [Next]_vars PROVE StorageInv'
    OBVIOUS
  <1>1. Types'
    BY TypesStep
  <1>2. CASE Next
    BY <1>1, <1>2, RowStep, MainStep, CanonStep, ReaderStep, SavesStep, PaidStep, WantedStep, BudgetStep
       DEF StorageInv
  <1>3. CASE UNCHANGED vars
    <2>1. /\ row' = row /\ disk' = disk /\ worker' = worker /\ budget' = budget /\ call' = call /\ reader' = reader
          /\ foreign' = foreign /\ paid' = paid /\ lost' = lost /\ unseen' = unseen /\ kept' = kept
          /\ faults' = faults /\ scene' = scene
      BY <1>3 DEF vars
    <2>2. RowInv' /\ MainInv' /\ CanonInv'
      BY <2>1 DEF StorageInv, RowInv, MainInv, CanonInv, Between
    <2>3. ReaderInv' /\ SavesInv'
      BY <2>1 DEF StorageInv, ReaderInv, FeedOf, SavesInv, ResumePoint, LatestCheckpoint
    <2>4. PaidInv'
      BY <2>1 DEF StorageInv, PaidInv, PaidOnce, Asked
    <2>5. WantedInv' /\ BudgetInv'
      BY <2>1 DEF StorageInv, WantedInv, LatestCheckpoint, Full, BudgetInv, Ticking, Used, DirectorySize
    <2> QED BY <1>1, <2>2, <2>3, <2>4, <2>5 DEF StorageInv
  <1> QED BY <1>2, <1>3

\* The directory, the two feeds, the books of the cache and a compaction are as StorageInv says
\* in every reachable state.
LEMMA StorageInvariance == Spec => []StorageInv
  BY StorageInit, StorageStep, PTL DEF Spec

\* The invariant implies what the run checks.
LEMMA SoundFromInv == StorageInv => StorageSound
  <1> SUFFICES ASSUME StorageInv PROVE StorageSound
    OBVIOUS
  <1>1. TypeOK
    BY DiskParts DEF StorageInv, Types, FeedType, TypeOK, Statuses, FileNames
  <1>2. ResumePoint /\ PaidOnce
    BY DEF StorageInv, SavesInv, PaidInv
  <1>3. FeedsAgree
    BY DEF StorageInv, CanonInv, Follows, Between, FeedsAgree
  <1>4. CompactionDelivers
    <2> SUFFICES ASSUME call.at = "done", call.wanted PROVE Reclaimable(disk) = 0
      BY DEF CompactionDelivers
    <2>1. /\ "homes" \notin disk.files /\ "traces" \notin disk.files /\ disk.cacheBytes = 0
          /\ Full(disk) \subseteq {LatestCheckpoint(disk)}
      BY DEF StorageInv, WantedInv
    <2>2. disk.files \cap {"homes", "traces"} = {} /\ ReclaimableSaves(disk) = {}
      BY <2>1 DEF ReclaimableSaves
    <2>3. Cardinality({}) = 0
      BY FS_EmptySet
    <2> QED BY <2>1, <2>2, <2>3 DEF Reclaimable
  <1> QED BY <1>1, <1>2, <1>3, <1>4 DEF StorageSound

\* The run's directory is sound whatever the worker, the maintenance handlers, the faults and
\* the other runs do in between: the latest checkpoint is there in full, the optimizer feed
\* follows events.jsonl, no answer is paid for twice without a cause, and a recommended
\* compaction leaves nothing to reclaim.
THEOREM StorageIsSound == Spec => []StorageSound
  BY StorageInvariance, SoundFromInv, PTL

\* A step removes from a live run nothing that resuming it needs.
LEMMA LiveStep ==
  ASSUME StorageInv, Next, worker'.at = worker.at, row = "running"
  PROVE  ~Loses(disk, disk')
  <1>0. call.at \in {"idle", "drop"}
    BY DEF StorageInv, RowInv
  <1>1. CASE EnsureRunWorkspace
    BY <1>0, <1>1, EnsureRunWorkspaceEffect DEF StorageInv, Loses, Full
  <1>2. CASE OpenRunContext
    BY <1>0, <1>2, OpenRunContextEffect DEF StorageInv, Loses, Full
  <1>3. CASE PutAnswer
    BY <1>0, <1>3, PutAnswerEffect DEF StorageInv, Loses, Full
  <1>4. CASE SaveCheckpoint
    BY <1>0, <1>4, SaveCheckpointEffect DEF StorageInv, Loses, Full
  <1>5. CASE CompactPrevious
    BY <1>0, <1>5, CompactPreviousEffect DEF StorageInv, Loses, Full
  <1>6. CASE WriteReport
    BY <1>6, WriteReportEffect DEF WriteReport, Writes, StorageInv, Types, DiskType, Loses, Full
  <1>7. CASE NormalizeFeed
    BY <1>0, <1>7, NormalizeFeedEffect DEF StorageInv, Loses, Full
  <1>8. CASE WriteManifest
    BY <1>0, <1>8, WriteManifestEffect DEF StorageInv, Loses, Full
  <1>9. CASE Emit
    BY <1>9, EmitEffect DEF StorageInv, Loses, Full
  <1>10. CASE Publish
    BY <1>10, PublishEffect DEF StorageInv, Loses, Full
  <1>11. CASE WriteFails
    BY <1>11, WriteFailsEffect DEF StorageInv, Loses, Full
  <1>12. CASE Crash
    BY <1>12, CrashEffect DEF StorageInv, Loses, Full
  <1>13. CASE CompactHomes
    BY <1>0, <1>13, CompactHomesEffect DEF StorageInv, Loses, Full
  <1>14. CASE CompactTraces
    BY <1>0, <1>14, CompactTracesEffect DEF StorageInv, Loses, Full
  <1>15. CASE CompactCache
    BY <1>0, <1>15, CompactCacheEffect DEF StorageInv, Loses, Full
  <1>16. CASE RewriteCheckpoint
    BY <1>0, <1>16 DEF RewriteCheckpoint
  <1>17. CASE RecordCompaction
    BY <1>0, <1>17, RecordCompactionEffect DEF StorageInv, Loses, Full
  <1>18. CASE RemoveRunDir
    BY <1>0, <1>18, RemoveRunDirEffect DEF StorageInv, Loses, Full
  <1>19. CASE DropArtifacts
    <2>1. disk.files \cap {"homes", "traces"} \subseteq disk'.files
      <3>1. disk' = disk \/ disk'.files = disk.files \ {"normalized", "manifest"}
        BY <1>19 DEF DropArtifacts, StorageInv, Types, DiskType
      <3> QED BY <3>1
    <2> QED BY <1>19, <2>1, DropArtifactsEffect DEF StorageInv, Loses, Full
  <1>20. CASE \/ BeginTick \/ OpenCache \/ CachedCall \/ EndTick \/ Settle \/ SeesCancel \/ Restart
           \/ BeginCall \/ DeleteRow \/ ReadHistory \/ CompactionFails \/ ReadRow \/ ReadFeed \/ Cancel \/ CacheTtl \/ OthersWrite
    <2>1. disk' = disk
      BY <1>20 DEF BeginTick, OpenCache, CachedCall, EndTick, Settle, SeesCancel, Restart, BeginCall, DeleteRow,
            ReadHistory, CompactionFails, ReadRow, ReadFeed, Cancel, CacheTtl, OthersWrite, audience
    <2> QED BY <2>1 DEF Loses
  <1> QED BY <1>1, <1>2, <1>3, <1>4, <1>5, <1>6, <1>7, <1>8, <1>9, <1>10, <1>11, <1>12, <1>13, <1>14, <1>15,
        <1>16, <1>17, <1>18, <1>19, <1>20 DEF Next, Tick, Maintenance

\* Maintenance takes nothing of a run whose row is open, however late a request acts on the row
\* it has read: a row that has been found terminal never runs again.
THEOREM LiveRunKeeps == Spec => LiveRunKeepsItsStorage
  <1>1. StorageInv /\ [Next]_vars =>
           [worker'.at = worker.at /\ Loses(disk, disk') => row # "running"]_vars
    BY LiveStep
  <1> QED BY <1>1, StorageInvariance, PTL DEF Spec, LiveRunKeepsItsStorage

\* An event is written only after the budget was found below the hard limit.
LEMMA EmitStep ==
  ASSUME StorageInv, Next, worker.at = "write", worker'.at = "publish"
  PROVE  Used - unseen' < Hard
  <1>1. CASE Emit
    <2>1. BelowHard(CurrentUsed) /\ unseen' = IF budget.fresh THEN unseen ELSE 0
      BY <1>1 DEF Emit, Evaluated, Goes, StorageInv, Types, WorkerType
    <2>2. Used \in Nat /\ unseen \in Nat /\ budget.size \in Nat /\ Hard \in Nat
      BY UsedTyped, RunStorageAssumption DEF StorageInv, Types
    <2>3. CurrentUsed < Hard
      BY <2>1, <2>2 DEF BelowHard, Classify, CurrentUsed
    <2>4. budget.fresh => Used - unseen <= budget.size
      BY <2>2 DEF StorageInv, BudgetInv, Ticking
    <2>5. CASE budget.fresh
      BY <2>1, <2>5, <2>2, <2>3, <2>4 DEF CurrentUsed
    <2>6. CASE ~budget.fresh
      BY <2>1, <2>6, <2>2, <2>3 DEF CurrentUsed
    <2> QED BY <2>5, <2>6
  <1>2. CASE BeginTick
    BY <1>2, BeginTickEffect DEF StorageInv
  <1>3. CASE OpenCache
    BY <1>3, OpenCacheEffect DEF StorageInv
  <1>4. CASE CachedCall
    BY <1>4, CachedCallEffect DEF StorageInv
  <1>5. CASE EndTick
    BY <1>5, EndTickEffect DEF StorageInv
  <1>6. CASE Settle
    BY <1>6, SettleEffect DEF StorageInv
  <1>7. CASE SeesCancel
    BY <1>7, SeesCancelEffect DEF StorageInv
  <1>8. CASE Restart
    BY <1>8, RestartEffect DEF StorageInv
  <1>9. CASE EnsureRunWorkspace
    BY <1>9, EnsureRunWorkspaceEffect DEF StorageInv
  <1>10. CASE OpenRunContext
    BY <1>10, OpenRunContextEffect DEF StorageInv
  <1>11. CASE PutAnswer
    BY <1>11, PutAnswerEffect DEF StorageInv
  <1>12. CASE SaveCheckpoint
    BY <1>12, SaveCheckpointEffect DEF StorageInv
  <1>13. CASE CompactPrevious
    BY <1>13, CompactPreviousEffect DEF StorageInv
  <1>14. CASE WriteReport
    BY <1>14, WriteReportEffect DEF StorageInv
  <1>15. CASE NormalizeFeed
    BY <1>15, NormalizeFeedEffect DEF StorageInv
  <1>16. CASE WriteManifest
    BY <1>16, WriteManifestEffect DEF StorageInv
  <1>17. CASE Publish
    BY <1>17, PublishEffect DEF StorageInv
  <1>18. CASE WriteFails
    BY <1>18, WriteFailsEffect DEF StorageInv
  <1>19. CASE Crash
    BY <1>19, CrashEffect DEF StorageInv
  <1>20. CASE RemoveRunDir
    BY <1>20, RemoveRunDirEffect DEF StorageInv
  <1>21. CASE DropArtifacts
    BY <1>21, DropArtifactsEffect DEF StorageInv
  <1>22. CASE \/ CompactHomes \/ CompactTraces \/ CompactCache \/ RewriteCheckpoint \/ RecordCompaction
           \/ BeginCall \/ DeleteRow \/ ReadHistory \/ CompactionFails \/ ReadRow \/ ReadFeed \/ Cancel \/ CacheTtl \/ OthersWrite
    <2>1. worker' = worker
      BY <1>22 DEF CompactHomes, CompactTraces, CompactCache, RewriteCheckpoint, RecordCompaction, BeginCall,
            DeleteRow, ReadHistory, CompactionFails, ReadRow, ReadFeed, Cancel, CacheTtl, OthersWrite, audience, bystanders
    <2> QED BY <2>1
  <1> QED BY <1>1, <1>2, <1>3, <1>4, <1>5, <1>6, <1>7, <1>8, <1>9, <1>10, <1>11, <1>12, <1>13, <1>14, <1>15,
        <1>16, <1>17, <1>18, <1>19, <1>20, <1>21, <1>22 DEF Next, Tick, Maintenance

\* An event is appended only below the hard limit, up to what the cached size cannot know:
\* the bytes of others and of the run's own unnoted writes since the last walk.
THEOREM EmitsAreBelowHard == Spec => EmitsBelowHard
  <1>1. StorageInv /\ [Next]_vars =>
           [worker.at = "write" /\ worker'.at = "publish" => Used - unseen' < Hard]_vars
    BY EmitStep
  <1> QED BY <1>1, StorageInvariance, PTL DEF Spec, EmitsBelowHard

\* What EventFeed sees of a step that keeps the promise.
LEMMA LogGrows ==
  ASSUME StorageInv, Types', Next, kept', reader'.kind = reader.kind
  PROVE  LET old == FeedOf(reader.kind).lines
             new == FeedOf(reader.kind)'.lines
         IN  \/ new = old
             \/ /\ kept /\ row = "running" /\ Len(new) = Len(old) + 1
                /\ Promise!IsPrefix(old, new)
                /\ old = <<>> \/ Promise!Last(new) > Promise!Last(old)
  <1> DEFINE old == FeedOf(reader.kind).lines
             new == FeedOf(reader.kind)'.lines
  <1>1. old \in Seq(Nat) /\ kept /\ MainGrows /\ CanonGrows /\ worker.linked /\ worker.records \in Nat
    BY FeedsGrow, DiskParts, WorkerParts DEF StorageInv, Types, FeedOf
  <1>2. SUFFICES ASSUME new # old
                 PROVE  /\ row = "running" /\ Len(new) = Len(old) + 1
                        /\ Promise!IsPrefix(old, new)
                        /\ old = <<>> \/ Promise!Last(new) > Promise!Last(old)
    BY <1>1
  <1>3. worker.at \in {"write", "publish"} /\ new = Append(old, worker.records + 1)
    BY <1>1, <1>2 DEF FeedOf, MainGrows, CanonGrows
  <1>4. row = "running"
    BY <1>1, <1>3 DEF StorageInv, RowInv
  <1>5. old # <<>> => old[Len(old)] < worker.records + 1
    <2> SUFFICES ASSUME old # <<>> PROVE old[Len(old)] < worker.records + 1
      OBVIOUS
    <2>1. Len(old) \in DOMAIN old /\ Len(old) \in Nat /\ old[Len(old)] \in Nat
      BY <1>1
    <2>2. CASE reader.kind = "websocket"
      BY <1>1, <1>2, <2>2, <2>1 DEF FeedOf, MainGrows, StorageInv, MainInv, Inside
    <2>3. CASE reader.kind # "websocket"
      BY <1>1, <1>2, <2>3, <2>1 DEF FeedOf, CanonGrows, StorageInv, MainInv, Inside, CanonInv,
         Follows, Between
    <2> QED BY <2>2, <2>3
  <1> HIDE DEF old, new
  <1>6. /\ Len(new) = Len(old) + 1 /\ Len(old) \in Nat /\ new[Len(new)] = worker.records + 1
        /\ \A i \in 1 .. Len(old) : new[i] = old[i]
    BY <1>1, <1>3
  <1>7. Promise!IsPrefix(old, new)
    BY <1>1, <1>3, <1>6 DEF Promise!IsPrefix
  <1>8. old = <<>> \/ Promise!Last(new) > Promise!Last(old)
    BY <1>1, <1>5, <1>6 DEF Promise!Last
  <1> QED BY <1>4, <1>6, <1>7, <1>8

\* A sequence is a prefix of one that agrees with it.
LEMMA PrefixByElements ==
  ASSUME NEW s \in Seq(Nat), NEW t \in Seq(Nat), Len(s) <= Len(t), \A i \in 1 .. Len(s) : t[i] = s[i]
  PROVE  Promise!IsPrefix(s, t)
  BY DEF Promise!IsPrefix

\* A read of the feed hands over what the promise allows.
LEMMA ReadIsPromised ==
  ASSUME StorageInv, ReadFeed, kept' PROVE Promise!Read \/ UNCHANGED Promise!vars
  <1> DEFINE lines == FeedOf(reader.kind).lines
             new   == Unsent(reader.kind, reader.last)
             got   == reader.got \o new
  <1>1. UNCHANGED <<disk, kept, row>> /\ reader'.kind = reader.kind /\ reader.at = "feed" /\ kept
    BY DEF ReadFeed, audience, StorageInv, Types, ReaderType
  <1>2. \/ reader'.got = reader.got /\ reader'.at = "closed"
        \/ /\ reader'.got = got
           /\ reader'.at = IF reader.over /\ (reader.kind = "websocket" \/ new = <<>>) THEN "told" ELSE "row"
    BY DEF ReadFeed, StorageInv, Types, ReaderType
  <1>3. FeedOf(reader.kind)'.lines = lines
    BY <1>1 DEF FeedOf
  <1>4. CASE reader'.got = reader.got /\ reader'.at = "closed"
    BY <1>1, <1>3, <1>4 DEF Promise!vars
  <1>5. CASE /\ reader'.got = got
             /\ reader'.at = IF reader.over /\ (reader.kind = "websocket" \/ new = <<>>) THEN "told" ELSE "row"
    <2>1. /\ got \in Seq(Nat) /\ Len(reader.got) <= Len(got) /\ Len(got) <= Len(lines)
          /\ \A i \in 1 .. Len(reader.got) : got[i] = reader.got[i]
          /\ \A i \in 1 .. Len(got) : got[i] = lines[i]
          /\ reader.kind = "websocket" \/ new = <<>> => Len(got) = Len(lines)
      BY <1>1, Delivered
    <2>2. lines \in Seq(Nat) /\ reader.got \in Seq(Nat)
      BY DiskParts DEF StorageInv, Types, ReaderType, FeedOf
    <2> HIDE DEF lines, got, new
    <2>3. Promise!IsPrefix(reader.got, got)
      BY <2>1, <2>2, PrefixByElements
    <2>4. Promise!IsPrefix(got, lines)
      BY <2>1, <2>2, PrefixByElements
    <2>5. reader'.at = "told" => row # "running" /\ got = lines
      BY <1>5, <2>1, <2>2, SeqEqual DEF StorageInv, RowInv
    <2> QED BY <1>1, <1>3, <1>5, <2>3, <2>4, <2>5 DEF Promise!Read, lines
  <1> QED BY <1>2, <1>4, <1>5

\* Every step is a step of the promise or leaves what it speaks of alone.
LEMMA PromiseStep ==
  ASSUME StorageInv, StorageInv', Next PROVE Promise!Next \/ UNCHANGED Promise!vars
  <1>1. CASE ~kept'
    BY <1>1 DEF StorageInv, Types, Promise!Next, Promise!Void
  <1>2. CASE kept' /\ ReadFeed
    BY <1>2, ReadIsPromised DEF Promise!Next
  <1>3. CASE kept' /\ (Settle \/ Restart)
    <2>1. /\ UNCHANGED <<disk, reader, kept>>
          /\ row' = row \/ (row = "running" /\ row' # "running")
      BY <1>3 DEF Settle, Restart
    <2>2. FeedOf(reader.kind)'.lines = FeedOf(reader.kind).lines
      BY <2>1 DEF FeedOf
    <2>3. CASE row' = row
      BY <2>1, <2>2, <2>3 DEF Promise!vars
    <2>4. CASE row = "running" /\ row' # "running"
      BY <1>3, <2>1, <2>2, <2>4 DEF Promise!Next, Promise!Seal
    <2> QED BY <2>1, <2>3, <2>4
  <1>4. CASE kept' /\ ~ReadFeed /\ ~(Settle \/ Restart)
    <2>1. /\ reader'.kind = reader.kind /\ reader'.got = reader.got
          /\ (reader'.at = "told") <=> (reader.at = "told")
      BY <1>4, OthersDeliverNothing
    <2>2. kept /\ kept' = kept
      BY <1>4, FeedsGrow DEF StorageInv, Types
    <2>3. row' = row
      <3>1. ~DeleteRow /\ ~Cancel
        BY <1>4 DEF DeleteRow, Cancel, StorageInv, RowInv
      <3>2. CASE Tick
        BY <1>4, <3>2 DEF Tick, BeginTick, EnsureRunWorkspace, OpenRunContext, Emit, Publish, WriteFails,
              OpenCache, CachedCall, PutAnswer, SaveCheckpoint, CompactPrevious, EndTick, WriteReport,
              NormalizeFeed, WriteManifest, SeesCancel, untouched
      <3>3. CASE Maintenance
        BY <3>1, <3>3 DEF Maintenance, BeginCall, RemoveRunDir, CompactHomes, CompactCache, CompactTraces,
              CompactionFails, ReadHistory, RewriteCheckpoint, RecordCompaction, DropArtifacts
      <3>4. CASE ReadRow \/ Crash \/ CacheTtl \/ OthersWrite
        BY <3>4 DEF ReadRow, Crash, CacheTtl, OthersWrite, audience
      <3> QED BY <1>4, <3>1, <3>2, <3>3, <3>4 DEF Next
    <2>5. CASE FeedOf(reader.kind)'.lines = FeedOf(reader.kind).lines
      BY <2>1, <2>2, <2>3, <2>5 DEF Promise!vars
    <2>6. CASE FeedOf(reader.kind)'.lines # FeedOf(reader.kind).lines
      BY <1>4, <2>1, <2>2, <2>3, <2>6, LogGrows DEF StorageInv, Promise!Next, Promise!Write
    <2> QED BY <2>5, <2>6
  <1> QED BY <1>1, <1>2, <1>3, <1>4

\* The reader of either feed is served as EventFeed promises: the feed only grows while the run is
\* open, the reader gets it from the first event on without gap or repetition, and is told that
\* the run is over only when it has had all of it.
THEOREM FeedServedAsPromised == Spec => FeedAsPromised
  <1>1. Init => Promise!Init
    BY DEF Init, Promise!Init, FeedOf, Absent, NoFeed, Feed
  <1>2. StorageInv /\ StorageInv' /\ [Next]_vars => [Promise!Next]_(Promise!vars)
    <2> SUFFICES ASSUME StorageInv, StorageInv', [Next]_vars PROVE Promise!Next \/ UNCHANGED Promise!vars
      OBVIOUS
    <2>1. CASE Next
      BY <2>1, PromiseStep
    <2>2. CASE UNCHANGED vars
      BY <2>2 DEF vars, Promise!vars, FeedOf
    <2> QED BY <2>1, <2>2
  <1> QED BY <1>1, <1>2, StorageInvariance, PTL DEF Spec, FeedAsPromised, Promise!Spec
=============================================================================
