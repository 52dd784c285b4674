----------------------------- MODULE SegmentIndex -----------------------------
(***************************************************************************)
(* The index of one shard on one worker: the shard's Raft state machine    *)
(* (worker/internal/shard/state_machine.go) writes the primary store and   *)
(* then the segmented index (worker/internal/segment): a mutable segment   *)
(* filled by a background indexer, sealed into immutable segments that a   *)
(* background loop compacts, tombstones for deleted documents, and         *)
(* searches that read all of these while they change.                      *)
(*                                                                         *)
(* Four threads meet here: the writer (Update, one log entry at a time),   *)
(* the indexer, the compaction loop and a search.  Manager.mu is the       *)
(* variable mu: it is held across steps only by a seal and by a            *)
(* compaction, the readers' critical sections are single steps that need   *)
(* it free.  A restart opens the store with lastApplied = 0, so the log is *)
(* applied again from its beginning.                                       *)
(*                                                                         *)
(* A vector is the log position that wrote it, 0 stands for no vector.     *)
(* Segments answer a search with all their documents: the approximation of *)
(* HNSW, scores and k are left out, as are failing file operations.        *)
(***************************************************************************)
EXTENDS Naturals, Sequences, FiniteSets, SequencesExt

CONSTANTS
    DocIDs,
    Commands,         \* commands clients propose: [type, ids]
    AsyncModes,       \* values of VECTRON_SEGMENT_ASYNC_INDEX
    QueueSize,        \* VECTRON_SEGMENT_INDEX_QUEUE_SIZE
    BatchSize,        \* VECTRON_SEGMENT_INDEX_BATCH_SIZE
    MaxVectors,       \* Thresholds.MaxVectors
    CompactionFanIn,  \* Thresholds.CompactionFanIn
    MaxLog,           \* bounds of the model: log entries,
    MaxSegmentID,     \* segments ever created,
    MaxImmutables,    \* immutable segments at a time,
    MaxCrashes        \* and crashes

ASSUME SegmentAssumption ==
    /\ Commands \subseteq [type : {"store", "delete"}, ids : (SUBSET DocIDs) \ {{}}]
    /\ IsFiniteSet(DocIDs)
    /\ AsyncModes \in (SUBSET BOOLEAN) \ {{}}
    /\ QueueSize \in Nat \ {0} /\ BatchSize \in Nat \ {0}
    /\ MaxVectors \in Nat \ {0} /\ CompactionFanIn \in Nat \ {0}
    /\ MaxLog \in Nat /\ MaxSegmentID \in Nat \ {0}
    /\ MaxImmutables \in Nat /\ MaxCrashes \in Nat

VARIABLES
    log,              \* entries the Raft group has delivered
    applied,          \* entries applied since the last start
    acked,            \* entries whose Update has returned, ever
    primary,          \* the v_ keys of the Pebble store
    asyncIndex,
    mutable,          \* ShardIndexManager.mutable
    manifest,         \* its manifest, and
    savedManifest,    \* the one in the store
    payload,          \* segment -> the graph (index) and vectors it was sealed with
    files,            \* segments with files on disk
    immutables,       \* segments loaded in ImmutableSegmentStore
    tombstones,       \* in memory, and
    savedTombstones,  \* in the store
    nextSegment,      \* GenerateSegmentID
    mu,               \* holder of ShardIndexManager.mu
    writer,           \* Update's progress on an entry
    indexerCh,        \* the indexer's queue
    indexer,          \* indexerLoop: its batch and its progress
    compaction,       \* runCompaction's progress
    search,           \* a search in progress
    crashes

storeVars == <<primary, savedManifest, savedTombstones, payload, files>>
managerVars == <<mutable, manifest, immutables, tombstones, nextSegment, mu>>
logVars == <<log, applied, acked, asyncIndex, crashes>>
segVars == <<logVars, storeVars, managerVars, writer, indexerCh, indexer, compaction, search>>

SegmentIDs == 1..MaxSegmentID
NoDocs == [d \in DocIDs |-> 0]
Docs(f) == {d \in DocIDs : f[d] # 0}

NewMutableSegment(id) == [id |-> id, docs |-> NoDocs, count |-> 0, aged |-> FALSE]
IdleIndexer == [pc |-> "idle", ops |-> <<>>, barrier |-> FALSE, vectors |-> NoDocs]
IdleWriter == [pc |-> "idle", cmd |-> <<>>]
IdleCompaction == [pc |-> "idle", before |-> <<>>, new |-> 0]
NoSearch == [pc |-> "idle", tombstones |-> {}, segment |-> 0, found |-> {}, retried |-> FALSE,
             expected |-> {}, deleted |-> {}]

\* NewShardIndexManager on an empty store.
SegInit ==
    /\ log = <<>> /\ applied = 0 /\ acked = 0 /\ crashes = 0
    /\ primary = NoDocs
    /\ asyncIndex \in AsyncModes
    /\ mutable = NewMutableSegment(1)
    /\ manifest = [mutable |-> 1, immutables |-> <<>>]
    /\ savedManifest = manifest
    /\ payload = [s \in SegmentIDs |-> [index |-> NoDocs, vectors |-> NoDocs]]
    /\ files = {} /\ immutables = {}
    /\ tombstones = {} /\ savedTombstones = {}
    /\ nextSegment = 2
    /\ mu = "free"
    /\ writer = IdleWriter /\ indexerCh = <<>> /\ indexer = IdleIndexer
    /\ compaction = IdleCompaction /\ search = NoSearch

-------------------------------------------------------------------------------
(* The mutable segment.                                                    *)

\* MutableSegment.ApplyAddBatch: VectorCount counts an id again once it was deleted.
WithVectors(m, vectors) ==
    [m EXCEPT !.docs = [d \in DocIDs |-> IF vectors[d] # 0 THEN vectors[d] ELSE m.docs[d]],
              !.count = m.count + Cardinality(Docs(vectors) \ Docs(m.docs))]

\* MutableSegment.ApplyDelete.
Without(m, ids) ==
    [m EXCEPT !.docs = [d \in DocIDs |-> IF d \in ids THEN 0 ELSE m.docs[d]]]

\* loadVectors: what the primary store holds now.
LoadVectors(ids) == [d \in DocIDs |-> IF d \in ids THEN primary[d] ELSE 0]

\* MutableSegment.ShouldSeal, within the bounds of the model.
ShouldSeal ==
    /\ mutable.count >= MaxVectors \/ mutable.aged
    /\ nextSegment <= MaxSegmentID
    /\ Len(manifest.immutables) < MaxImmutables

\* applyIndexOp in one step, as the writer does it: nobody else writes the store.
AppliedNow(op) ==
    IF op.segment # mutable.id THEN mutable
    ELSE IF op.type = "store" THEN WithVectors(mutable, LoadVectors(op.ids))
    ELSE Without(mutable, op.ids)

-------------------------------------------------------------------------------
(* The writer.                                                             *)

\* StateMachine.Update takes the next entry, one the log holds since before a restart
\* or a new one, and writes the primary store.
StoreEntry ==
    /\ writer.pc = "idle"
    /\ \E cmd \in Commands :
        /\ \/ /\ applied < Len(log) /\ cmd = log[applied + 1]
              /\ UNCHANGED log
              /\ search' = [search EXCEPT !.expected = IF cmd.type = "delete" THEN @ \ cmd.ids
                                                       ELSE @]
           \/ /\ applied = Len(log) /\ Len(log) < MaxLog
              /\ log' = Append(log, cmd)
              /\ search' = IF cmd.type = "delete"
                           THEN [search EXCEPT !.expected = @ \ cmd.ids]
                           ELSE [search EXCEPT !.deleted = @ \ cmd.ids]
        /\ primary' = [d \in DocIDs |->
                         IF d \notin cmd.ids THEN primary[d]
                         ELSE IF cmd.type = "store" THEN applied + 1 ELSE 0]
        /\ writer' = [pc |-> "index", cmd |-> cmd]
    /\ UNCHANGED <<applied, acked, asyncIndex, crashes, savedManifest, savedTombstones, payload,
                   files, managerVars, indexerCh, indexer, compaction>>

\* ShardIndexManager.Add, AddBatch and Delete hand the entry to the indexer; with its
\* queue full, or without it, they change the mutable segment themselves.
IndexEntry ==
    LET op == [type |-> writer.cmd.type, ids |-> writer.cmd.ids, segment |-> mutable.id]
        next == IF op.type = "store" THEN "check" ELSE "tombstone"
    IN  /\ writer.pc = "index" /\ mu = "free"
        /\ IF asyncIndex /\ Len(indexerCh) < QueueSize
           THEN indexerCh' = Append(indexerCh, op) /\ UNCHANGED mutable
           ELSE mutable' = AppliedNow(op) /\ UNCHANGED indexerCh
        /\ writer' = [writer EXCEPT !.pc = next]
        /\ UNCHANGED <<logVars, storeVars, manifest, immutables, tombstones, nextSegment, mu,
                       indexer, compaction, search>>

\* Update returns.
Returns ==
    /\ writer' = IdleWriter
    /\ applied' = applied + 1
    /\ acked' = IF applied + 1 > acked THEN applied + 1 ELSE acked

\* Mutant: the tombstone is not written to the store.
WriteTombstone_Memory ==
    /\ writer.pc = "tombstone" /\ mu = "free"
    /\ tombstones' = tombstones \cup writer.cmd.ids
    /\ Returns
    /\ UNCHANGED <<log, asyncIndex, crashes, storeVars, mutable, manifest, immutables, nextSegment,
                   mu, indexerCh, indexer, compaction, search>>

\* Delete ends with the tombstone, in memory and in the store.
WriteTombstone ==
    /\ writer.pc = "tombstone" /\ mu = "free"
    /\ tombstones' = tombstones \cup writer.cmd.ids
    /\ savedTombstones' = savedTombstones \cup writer.cmd.ids
    /\ Returns
    /\ UNCHANGED <<log, asyncIndex, crashes, primary, savedManifest, payload, files, mutable,
                   manifest, immutables, nextSegment, mu, indexerCh, indexer, compaction, search>>

\* Add and AddBatch end with a look at the thresholds.
CheckThresholds ==
    /\ writer.pc = "check"
    /\ IF ShouldSeal THEN writer' = [writer EXCEPT !.pc = "seal"] /\ UNCHANGED <<applied, acked>>
       ELSE Returns
    /\ UNCHANGED <<log, asyncIndex, crashes, storeVars, managerVars, indexerCh, indexer,
                   compaction, search>>

\* triggerSeal takes the lock and looks again.
LockForSeal ==
    /\ writer.pc = "seal" /\ mu = "free"
    /\ IF ShouldSeal
       THEN /\ mu' = "seal"
            /\ writer' = [writer EXCEPT !.pc = IF asyncIndex THEN "barrier" ELSE "persist"]
            /\ UNCHANGED <<applied, acked>>
       ELSE Returns /\ UNCHANGED mu
    /\ UNCHANGED <<log, asyncIndex, crashes, storeVars, mutable, manifest, immutables, tombstones,
                   nextSegment, indexerCh, indexer, compaction, search>>

\* flushIndexer sends a barrier, waiting for room in the queue, and then for the indexer.
SendBarrier ==
    /\ writer.pc = "barrier" /\ Len(indexerCh) < QueueSize
    /\ indexerCh' = Append(indexerCh, [type |-> "barrier", ids |-> {}, segment |-> mutable.id])
    /\ writer' = [writer EXCEPT !.pc = "await"]
    /\ UNCHANGED <<logVars, storeVars, managerVars, indexer, compaction, search>>

\* Sealer.Seal: the graph as it is, the vectors of its documents as the store has them.
PersistSegment ==
    LET s == mutable.id
    IN  /\ writer.pc = "persist"
        /\ payload' = [payload EXCEPT ![s] = [index |-> mutable.docs,
                                              vectors |-> LoadVectors(Docs(mutable.docs))]]
        /\ files' = files \cup {s}
        /\ manifest' = [manifest EXCEPT !.immutables = Append(@, s)]
        /\ writer' = [writer EXCEPT !.pc = "publish"]
        /\ UNCHANGED <<logVars, primary, savedManifest, savedTombstones, mutable, immutables,
                       tombstones, nextSegment, mu, indexerCh, indexer, compaction, search>>

\* Mutant: the sealed segment is left to the next start.
PublishSegment_Later ==
    /\ writer.pc = "publish"
    /\ writer' = [writer EXCEPT !.pc = "swap"]
    /\ UNCHANGED <<logVars, storeVars, managerVars, indexerCh, indexer, compaction, search>>

\* The sealed segment is loaded and searched from now on.
PublishSegment ==
    /\ writer.pc = "publish"
    /\ immutables' = immutables \cup {mutable.id}
    /\ writer' = [writer EXCEPT !.pc = "swap"]
    /\ UNCHANGED <<logVars, storeVars, mutable, manifest, tombstones, nextSegment, mu, indexerCh,
                   indexer, compaction, search>>

\* triggerSeal ends: a new mutable segment, for searches too, and the manifest saved.
SwapMutable ==
    /\ writer.pc = "swap"
    /\ mutable' = NewMutableSegment(nextSegment)
    /\ nextSegment' = nextSegment + 1
    /\ manifest' = [manifest EXCEPT !.mutable = nextSegment]
    /\ savedManifest' = manifest'
    /\ mu' = "free"
    /\ Returns
    /\ UNCHANGED <<log, asyncIndex, crashes, primary, savedTombstones, payload, files, immutables,
                   tombstones, indexerCh, indexer, compaction, search>>

WriterStep ==
    \/ StoreEntry \/ IndexEntry \/ WriteTombstone \/ CheckThresholds
    \/ LockForSeal \/ SendBarrier \/ PersistSegment \/ PublishSegment \/ SwapMutable

\* The mutable segment reaches Thresholds.MaxAge.
SegmentAges ==
    /\ ~mutable.aged
    /\ mutable' = [mutable EXCEPT !.aged = TRUE]
    /\ UNCHANGED <<logVars, storeVars, manifest, immutables, tombstones, nextSegment, mu, writer,
                   indexerCh, indexer, compaction, search>>

-------------------------------------------------------------------------------
(* The indexer.                                                            *)

\* indexerLoop receives: a barrier, or a full batch, starts a flush.
ReceiveOp ==
    LET op == Head(indexerCh)
        ops == Append(indexer.ops, op)
    IN  /\ indexer.pc = "idle" /\ indexerCh # <<>>
        /\ indexerCh' = Tail(indexerCh)
        /\ indexer' = IF op.type = "barrier" THEN [indexer EXCEPT !.pc = "flush", !.barrier = TRUE]
                      ELSE [indexer EXCEPT !.ops = ops,
                              !.pc = IF Len(ops) >= BatchSize THEN "flush" ELSE "idle"]
        /\ UNCHANGED <<logVars, storeVars, managerVars, writer, compaction, search>>

\* So does its timer.
FlushTimer ==
    /\ indexer.pc = "idle" /\ indexer.ops # <<>>
    /\ indexer' = [indexer EXCEPT !.pc = "flush"]
    /\ UNCHANGED <<logVars, storeVars, managerVars, writer, indexerCh, compaction, search>>

\* applyIndexOp: under the lock, which segment takes operations.  One for another
\* segment is dropped, a deletion is applied, a store needs vectors from the store.
StartOp ==
    LET op == Head(indexer.ops)
    IN  /\ indexer.pc = "flush" /\ indexer.ops # <<>> /\ mu = "free"
        /\ \/ /\ op.type = "store" /\ op.segment = mutable.id
              /\ indexer' = [indexer EXCEPT !.pc = "apply", !.vectors = LoadVectors(op.ids)]
              /\ UNCHANGED mutable
           \/ /\ op.type = "delete" \/ op.segment # mutable.id
              /\ mutable' = AppliedNow(op)
              /\ indexer' = [indexer EXCEPT !.ops = Tail(@)]
        /\ UNCHANGED <<logVars, storeVars, manifest, immutables, tombstones, nextSegment, mu,
                       writer, indexerCh, compaction, search>>

\* The vectors it read go into the graph, whatever the store holds by now.
ApplyVectors ==
    /\ indexer.pc = "apply"
    /\ mutable' = WithVectors(mutable, indexer.vectors)
    /\ indexer' = [indexer EXCEPT !.pc = "flush", !.ops = Tail(@), !.vectors = NoDocs]
    /\ UNCHANGED <<logVars, storeVars, manifest, immutables, tombstones, nextSegment, mu, writer,
                   indexerCh, compaction, search>>

\* The batch is done; the seal that sent a barrier goes on.
FlushDone ==
    /\ indexer.pc = "flush" /\ indexer.ops = <<>>
    /\ indexer' = IdleIndexer
    /\ writer' = IF indexer.barrier THEN [writer EXCEPT !.pc = "persist"] ELSE writer
    /\ UNCHANGED <<logVars, storeVars, managerVars, indexerCh, compaction, search>>

IndexerStep == ReceiveOp \/ FlushTimer \/ StartOp \/ ApplyVectors \/ FlushDone

-------------------------------------------------------------------------------
(* Compaction.                                                             *)

ToCompact == SubSeq(manifest.immutables, 1, CompactionFanIn)

\* runCompaction and RunCompaction: with enough segments, all of whose files are there.
StartCompaction ==
    /\ compaction.pc = "idle" /\ mu = "free"
    /\ Len(manifest.immutables) >= 2 /\ Len(manifest.immutables) >= CompactionFanIn
    /\ Range(ToCompact) \subseteq files
    /\ nextSegment <= MaxSegmentID
    /\ mu' = "compaction"
    /\ compaction' = [pc |-> "merge", before |-> manifest.immutables, new |-> nextSegment]
    /\ nextSegment' = nextSegment + 1
    /\ UNCHANGED <<logVars, storeVars, mutable, manifest, immutables, tombstones, writer,
                   indexerCh, indexer, search>>

\* compactSegments: the newest vector of each document that has no tombstone.
Merged(segs) ==
    [d \in DocIDs |->
        LET having == {i \in DOMAIN segs : payload[segs[i]].vectors[d] # 0}
        IN  IF d \in savedTombstones \/ having = {} THEN 0
            ELSE payload[segs[Max(having)]].vectors[d]]

\* The new segment's files are written.
MergeSegments ==
    LET docs == Merged(ToCompact)
    IN  /\ compaction.pc = "merge"
        /\ payload' = [payload EXCEPT ![compaction.new] = [index |-> docs, vectors |-> docs]]
        /\ files' = files \cup {compaction.new}
        /\ compaction' = [compaction EXCEPT !.pc = "remove"]
        /\ UNCHANGED <<logVars, primary, savedManifest, savedTombstones, managerVars, writer,
                       indexerCh, indexer, search>>

\* Then the old segments' files are removed.
RemoveFiles ==
    /\ compaction.pc = "remove"
    /\ files' = files \ Range(ToCompact)
    /\ compaction' = [compaction EXCEPT !.pc = "manifest"]
    /\ UNCHANGED <<logVars, primary, savedManifest, savedTombstones, payload, managerVars, writer,
                   indexerCh, indexer, search>>

\* removeSegment: the elements after the first occurrence of x move down one place, in
\* the array that backs the slice and every slice of it.
RemoveSegment(slice, x) ==
    LET at == {i \in 1..slice.len : slice.array[i] = x}
        i == CHOOSE j \in at : \A k \in at : j <= k
    IN  IF at = {} THEN slice
        ELSE [array |-> [k \in DOMAIN slice.array |->
                           IF i <= k /\ k < slice.len THEN slice.array[k + 1] ELSE slice.array[k]],
              len |-> slice.len - 1]

\* RunCompaction's loop reads the ids to remove from the array it removes them from:
\* the slice after each of its rounds.
Removing(list) ==
    LET rest[i \in 0..CompactionFanIn] ==
            IF i = 0 THEN [array |-> list, len |-> Len(list)]
            ELSE RemoveSegment(rest[i - 1], rest[i - 1].array[i])
    IN  rest

Compacted(list, new) ==
    LET rest == Removing(list)[CompactionFanIn]
    IN  Append(SubSeq(rest.array, 1, rest.len), new)

\* The manifest lists the new segment and is saved.
SaveCompaction ==
    /\ compaction.pc = "manifest"
    /\ manifest' = [manifest EXCEPT !.immutables = Compacted(@, compaction.new)]
    /\ savedManifest' = manifest'
    /\ compaction' = [compaction EXCEPT !.pc = "load"]
    /\ UNCHANGED <<logVars, primary, savedTombstones, payload, files, mutable, immutables,
                   tombstones, nextSegment, mu, writer, indexerCh, indexer, search>>

\* Segments the manifest lists are loaded,
LoadCompacted ==
    /\ compaction.pc = "load"
    /\ immutables' = immutables \cup (Range(manifest.immutables) \cap files)
    /\ compaction' = [compaction EXCEPT !.pc = "unload"]
    /\ UNCHANGED <<logVars, storeVars, mutable, manifest, tombstones, nextSegment, mu, writer,
                   indexerCh, indexer, search>>

\* Mutant: the lock stays taken.
UnloadCompacted_KeepsLock ==
    /\ compaction.pc = "unload"
    /\ immutables' = immutables \ (Range(compaction.before) \ Range(manifest.immutables))
    /\ compaction' = IdleCompaction
    /\ UNCHANGED <<logVars, storeVars, mutable, manifest, tombstones, nextSegment, mu, writer,
                   indexerCh, indexer, search>>

\* and those it no longer lists are dropped.
UnloadCompacted ==
    /\ compaction.pc = "unload"
    /\ immutables' = immutables \ (Range(compaction.before) \ Range(manifest.immutables))
    /\ mu' = "free"
    /\ compaction' = IdleCompaction
    /\ UNCHANGED <<logVars, storeVars, mutable, manifest, tombstones, nextSegment, writer,
                   indexerCh, indexer, search>>

CompactionStep ==
    \/ MergeSegments \/ RemoveFiles \/ SaveCompaction \/ LoadCompacted \/ UnloadCompacted

-------------------------------------------------------------------------------
(* Search.                                                                 *)

Indexed(d) == mutable.docs[d] # 0 \/ \E s \in immutables : payload[s].index[d] # 0

\* Documents a search must find: stored, in a segment, and without a tombstone.
Searchable == {d \in DocIDs : primary[d] # 0 /\ d \notin tombstones /\ Indexed(d)}

\* Documents deleted by an Update that returned, and not stored since.
Deleted ==
    {d \in DocIDs : \E n \in 1..acked :
        /\ log[n].type = "delete" /\ d \in log[n].ids
        /\ \A m \in (n + 1)..Len(log) : d \notin log[m].ids}

\* ShardIndexManager.Search copies the tombstones under the lock.
StartSearch ==
    /\ search.pc = "idle" /\ mu = "free"
    /\ search' = [NoSearch EXCEPT !.pc = "segment", !.tombstones = tombstones,
                                  !.expected = Searchable, !.deleted = Deleted]
    /\ UNCHANGED <<logVars, storeVars, managerVars, writer, indexerCh, indexer, compaction>>

\* Searcher.Search takes the mutable segment under a lock of its own,
PickMutable ==
    /\ search.pc = "segment"
    /\ search' = [search EXCEPT !.pc = "mutable", !.segment = mutable.id]
    /\ UNCHANGED <<logVars, storeVars, managerVars, writer, indexerCh, indexer, compaction>>

\* searches it, sealed in between or not,
SearchMutable ==
    LET s == search.segment
    IN  /\ search.pc = "mutable"
        /\ search' = [search EXCEPT !.pc = "immutables",
                        !.found = Docs(IF s = mutable.id THEN mutable.docs ELSE payload[s].index)]
        /\ UNCHANGED <<logVars, storeVars, managerVars, writer, indexerCh, indexer, compaction>>

\* then the immutable ones of the moment, and filters by the tombstones it copied.  An
\* empty answer while operations are pending is tried once more.
SearchImmutables ==
    LET found == (search.found \cup UNION {Docs(payload[s].index) : s \in immutables})
                 \ search.tombstones
        pending == indexerCh # <<>> \/ indexer.ops # <<>>
    IN  /\ search.pc = "immutables"
        /\ search' = IF found = {} /\ pending /\ ~search.retried
                     THEN [search EXCEPT !.pc = "segment", !.retried = TRUE]
                     ELSE [search EXCEPT !.pc = "done", !.found = found]
        /\ UNCHANGED <<logVars, storeVars, managerVars, writer, indexerCh, indexer, compaction>>

EndSearch ==
    /\ search.pc = "done"
    /\ search' = NoSearch
    /\ UNCHANGED <<logVars, storeVars, managerVars, writer, indexerCh, indexer, compaction>>

SearchStep == PickMutable \/ SearchMutable \/ SearchImmutables \/ EndSearch

-------------------------------------------------------------------------------
(* Crash and restart.                                                      *)

\* Mutant: a segment the manifest lists counts as loaded.
LoadMutableSegment_Listed(id, loaded) ==
    LET sealed == UNION {Docs(payload[s].vectors) : s \in Range(savedManifest.immutables)}
    IN  WithVectors(NewMutableSegment(id), LoadVectors(DocIDs \ (sealed \cup savedTombstones)))

\* LoadMutableSegment: the documents of the store that no loaded segment lists and no
\* tombstone hides.
LoadMutableSegment(id, loaded) ==
    LET sealed == UNION {Docs(payload[s].vectors) : s \in loaded}
    IN  WithVectors(NewMutableSegment(id), LoadVectors(DocIDs \ (sealed \cup savedTombstones)))

\* NewShardIndexManager on what the crash left: segments whose files are gone are
\* skipped.  Open reports that nothing was applied.
Restart ==
    LET loaded == Range(savedManifest.immutables) \cap files
    IN  /\ crashes < MaxCrashes
        /\ crashes' = crashes + 1
        /\ manifest' = savedManifest
        /\ tombstones' = savedTombstones
        /\ immutables' = loaded
        /\ mutable' = LoadMutableSegment(savedManifest.mutable, loaded)
        /\ applied' = 0
        /\ mu' = "free"
        /\ writer' = IdleWriter /\ indexerCh' = <<>> /\ indexer' = IdleIndexer
        /\ compaction' = IdleCompaction /\ search' = NoSearch
        /\ UNCHANGED <<log, acked, asyncIndex, storeVars, nextSegment>>

-------------------------------------------------------------------------------
SegNext ==
    \/ WriterStep \/ SegmentAges \/ IndexerStep
    \/ StartCompaction \/ CompactionStep \/ StartSearch \/ SearchStep
    \/ Restart

SegSpec == SegInit /\ [][SegNext]_segVars

\* Every goroutine that can go on does.
SegFairness ==
    /\ WF_segVars(WriterStep) /\ WF_segVars(IndexerStep)
    /\ WF_segVars(CompactionStep) /\ WF_segVars(SearchStep)

FairSegSpec == SegSpec /\ SegFairness

-------------------------------------------------------------------------------
(* Properties.                                                             *)

Op == [type : {"store", "delete", "barrier"}, ids : SUBSET DocIDs, segment : SegmentIDs]
Vectors == [DocIDs -> 0..MaxLog]
Manifest == [mutable : SegmentIDs, immutables : Seq(SegmentIDs)]

\* The state keeps its shape: the queue within its capacity, the manifest made of
\* segments that were created, the lock held exactly by the thread that is past taking it.
SegTypeOK ==
    /\ log \in Seq(Commands) /\ Len(log) <= MaxLog
    /\ applied \in 0..acked /\ acked \in 0..Len(log)
    /\ primary \in Vectors
    /\ asyncIndex \in AsyncModes
    /\ mutable.id \in SegmentIDs /\ mutable.docs \in Vectors
    /\ mutable.count \in Nat /\ mutable.aged \in BOOLEAN
    /\ manifest \in Manifest /\ savedManifest \in Manifest
    /\ payload \in [SegmentIDs -> [index : Vectors, vectors : Vectors]]
    /\ files \subseteq SegmentIDs /\ immutables \subseteq SegmentIDs
    /\ tombstones \subseteq DocIDs /\ savedTombstones \subseteq DocIDs
    /\ nextSegment \in 2..(MaxSegmentID + 1)
    /\ indexerCh \in Seq(Op) /\ Len(indexerCh) <= QueueSize
    /\ indexer.ops \in Seq(Op) /\ Len(indexer.ops) <= BatchSize
    /\ mu = "seal" <=> writer.pc \in {"barrier", "await", "persist", "publish", "swap"}
    /\ mu = "compaction" <=> compaction.pc # "idle"

\* No write is in progress or queued, and the lock is free.
Quiescent ==
    /\ writer.pc = "idle"
    /\ indexerCh = <<>> /\ indexer.ops = <<>>
    /\ mu = "free"

\* When no write is in progress, every document in the primary store that was never
\* deleted is in the mutable segment or in a loaded one: no queue at its limit, seal,
\* compaction or crash between their steps loses it, and a restart finds it again before
\* the log is replayed.
LiveSearchable ==
    Quiescent => \A d \in DocIDs : primary[d] # 0 /\ d \notin tombstones => Indexed(d)

\* A search finds every document that was searchable when it began and was not deleted
\* since, although a seal moves documents between segments and a compaction replaces
\* segments while it runs (Searcher.Search holds no lock of the manager).
SearchComplete == search.pc = "done" => search.expected \subseteq search.found

\* A document whose deletion has returned is in no answer, also after a crash, while the
\* entry that stored it is applied again (Delete writes tombstones to the store, Open
\* starts from the beginning of the log).
DeletedNotFound == search.pc = "done" => search.deleted \cap search.found = {}

\* Every Update returns: a write does not wait for the indexer while the indexer waits
\* for the write's lock (triggerSeal, flushIndexer, applyIndexOp).
WritesReturn == (writer.pc # "idle") ~> (writer.pc = "idle")
===============================================================================
