---------------------------- MODULE SegmentProofs -----------------------------
(***************************************************************************)
(* What SegmentIndex promises of searches, for any documents, log, queue   *)
(* and number of crashes.                                                  *)
(***************************************************************************)
EXTENDS SegmentIndex, WellFoundedInduction, FiniteSetTheorems, TLAPS

----------------------------------------------------------------------------
(* Induction over the naturals, without an operator for a parameter.       *)

\* Every non-empty set of naturals has a least element.
LEMMA NatLeast ==
    ASSUME NEW T, T \subseteq Nat, T # {}
    PROVE  \E m \in T : \A k \in T : m <= k
<1> DEFINE R == {p \in Nat \X Nat : p[1] < p[2]}
<1>1. IsWellFoundedOn(R, Nat)
  BY NatLessThanWellFounded DEF OpToRel
<1>2. \A k, m \in Nat : k < m => <<k, m>> \in R
  OBVIOUS
<1> HIDE DEF R
<1>3. \E m \in T : \A k \in T : ~ (<<k, m>> \in R)
  BY <1>1, WFMin, Zenon
<1>4. PICK m \in T : \A k \in T : ~ (<<k, m>> \in R)
  BY <1>3
<1>5. ASSUME NEW k \in T PROVE m <= k
  <2>1. k \in Nat /\ m \in Nat /\ ~ (<<k, m>> \in R)
    BY <1>4
  <2>2. k < m => <<k, m>> \in R
    BY <1>2, <2>1, Zenon
  <2> QED BY <2>1, <2>2
<1> QED BY <1>5

\* A set with 0 and all successors has every natural.
LEMMA NatSteps ==
    ASSUME NEW S, 0 \in S, \A n \in Nat : n \in S => n + 1 \in S
    PROVE  Nat \subseteq S
<1>1. SUFFICES ASSUME Nat \ S # {} PROVE FALSE
  OBVIOUS
<1>2. PICK m \in Nat \ S : \A k \in Nat \ S : m <= k
  BY <1>1, NatLeast
<1>3. m # 0 /\ m - 1 \in Nat /\ m - 1 \in S
  BY <1>2
<1> QED BY <1>2, <1>3

----------------------------------------------------------------------------
(* Types.                                                                  *)

SealPCs == {"barrier", "await", "persist", "publish", "swap"}
WriterPCs == {"idle", "index", "tombstone", "check", "seal"} \cup SealPCs

Ops == [type : {"store", "delete"}, ids : SUBSET DocIDs, segment : SegmentIDs]

MutableRec == [id : SegmentIDs, docs : Vectors, count : Nat, aged : BOOLEAN]
WriterRec == [pc : WriterPCs, cmd : Commands \cup {<<>>}]
IndexerRec == [pc : {"idle", "flush", "apply"}, ops : Seq(Ops), barrier : BOOLEAN,
               vectors : Vectors]
CompactionRec == [pc : {"idle", "merge", "remove", "manifest", "load", "unload"},
                  before : Seq(SegmentIDs), new : 0..MaxSegmentID]
SearchRec == [pc : {"idle", "segment", "mutable", "immutables", "done"},
              tombstones : SUBSET DocIDs, segment : 0..MaxSegmentID, found : SUBSET DocIDs,
              retried : BOOLEAN, expected : SUBSET DocIDs, deleted : SUBSET DocIDs]

-------------------------------------------------------------------------------
(* The inductive invariant, by the thread it is about.                     *)

\* The log, and where the writer is in it: its command is the next entry, and only a
\* store gets as far as a seal.
WriterInv ==
    /\ log \in Seq(Commands) /\ Len(log) <= MaxLog
    /\ applied \in 0..acked /\ acked \in 0..Len(log)
    /\ writer \in WriterRec
    /\ writer.pc # "idle" =>
         /\ applied < Len(log) /\ writer.cmd = log[applied + 1]
         /\ writer.pc = "tombstone" => writer.cmd.type = "delete"
         /\ writer.pc \in {"check", "seal"} \cup SealPCs => writer.cmd.type = "store"
    /\ crashes \in Nat

\* The lock, and what a seal relies on while it has it.
LockInv ==
    /\ mu \in {"free", "seal", "compaction"}
    /\ mu = "seal" <=> writer.pc \in SealPCs
    /\ mu = "compaction" <=> compaction.pc # "idle"
    /\ writer.pc \in SealPCs => nextSegment <= MaxSegmentID
    /\ writer.pc \in {"barrier", "await"} => asyncIndex

\* The segments.
SegmentsInv ==
    /\ mutable \in MutableRec
    /\ manifest \in Manifest /\ savedManifest \in Manifest
    /\ payload \in [SegmentIDs -> [index : Vectors, vectors : Vectors]]
    /\ files \subseteq SegmentIDs /\ immutables \subseteq SegmentIDs
    /\ nextSegment \in 2..(MaxSegmentID + 1)
    /\ compaction \in CompactionRec
    /\ compaction.pc # "idle" => compaction.new \in SegmentIDs
    /\ compaction.pc \in {"merge", "remove", "manifest"} =>
           compaction.before = manifest.immutables /\ CompactionFanIn <= Len(manifest.immutables)

StoreInv ==
    /\ primary \in Vectors
    /\ asyncIndex \in AsyncModes
    /\ tombstones \subseteq DocIDs /\ savedTombstones \subseteq DocIDs

\* The queue: a barrier is the last thing in it, there is one at a time, and the writer
\* waits for it.
IndexerInv ==
    /\ indexerCh \in Seq(Op) /\ Len(indexerCh) <= QueueSize
    /\ indexer \in IndexerRec
    /\ Len(indexer.ops) <= BatchSize
    /\ indexer.pc = "idle" => Len(indexer.ops) < BatchSize /\ ~indexer.barrier
    /\ indexer.pc = "apply" => indexer.ops # <<>>
    /\ indexer.barrier => writer.pc = "await" /\ indexerCh = <<>>
    /\ \A i \in 1..Len(indexerCh) :
           indexerCh[i].type = "barrier" => i = Len(indexerCh) /\ writer.pc = "await"

TypeInv == WriterInv /\ LockInv /\ SegmentsInv /\ StoreInv /\ IndexerInv /\ search \in SearchRec

\* Deletions that have returned are on record, and a search has copied the record.
TombstonesInv ==
    /\ tombstones = savedTombstones
    /\ \A n \in 1..acked : log[n].type = "delete" => log[n].ids \subseteq tombstones
    /\ search.deleted \subseteq search.tombstones
    /\ search.pc = "done" => search.found \cap search.tombstones = {}

-------------------------------------------------------------------------------
(* Nothing stored gets lost.                                               *)

\* Documents of a deletion that is under way.
Deleting == IF writer.pc \in {"index", "tombstone"} /\ writer.cmd.type = "delete"
            THEN writer.cmd.ids ELSE {}

\* Documents that have not been deleted, as far as the index is concerned.
Kept == DocIDs \ (tombstones \cup Deleting)

QueuedOps == Range(indexerCh) \cup Range(indexer.ops)

\* A seal is made of a graph that nobody changes any more, and nothing is queued for
\* another segment than the one that takes operations.
SealInv ==
    /\ ~asyncIndex => indexerCh = <<>> /\ indexer.ops = <<>> /\ indexer.pc = "idle"
    /\ writer.pc \in {"persist", "publish", "swap"} =>
           indexerCh = <<>> /\ indexer.ops = <<>> /\ indexer.pc = "idle"
    /\ \A op \in QueuedOps : op.segment = mutable.id
    /\ writer.pc \in {"publish", "swap"} => payload[mutable.id].index = mutable.docs

\* Ids of segments are handed out once.
IdsInv ==
    /\ mutable.id = manifest.mutable /\ manifest.mutable = savedManifest.mutable
    /\ mutable.id < nextSegment
    /\ search.segment < nextSegment /\ (search.pc = "mutable" => search.segment \in SegmentIDs)
    /\ \A s \in immutables \cup Range(manifest.immutables) \cup Range(savedManifest.immutables) :
           s < nextSegment
    /\ mutable.id \notin Range(savedManifest.immutables)
    /\ mutable.id \in immutables => writer.pc = "swap"
    /\ mutable.id \in Range(manifest.immutables) => writer.pc \in {"publish", "swap"}
    /\ writer.pc = "swap" => mutable.id \in immutables
    /\ compaction.pc # "idle" =>
           /\ compaction.new < nextSegment
           /\ compaction.new # mutable.id /\ compaction.new # search.segment
           /\ compaction.new \notin Range(compaction.before)
    /\ compaction.pc \in {"merge", "remove", "manifest"} =>
           compaction.new \notin immutables /\ compaction.new \notin Range(manifest.immutables)

\* What is kept is in the store; what a segment's graph has is among the vectors that a
\* restart and a compaction read.
DeletingInv == \A d \in Deleting : primary[d] = 0

DeletesInv == \A op \in QueuedOps : op.type = "delete" => op.ids \cap Kept = {}

GraphInv == \A d \in Kept : mutable.docs[d] # 0 \/ indexer.vectors[d] # 0 => primary[d] # 0

PayloadInv ==
    \A s \in SegmentIDs : \A d \in DocIDs :
        /\ payload[s].vectors[d] # 0 => payload[s].index[d] # 0
        /\ payload[s].index[d] # 0 /\ d \notin tombstones => payload[s].vectors[d] # 0

KeptInv == DeletingInv /\ DeletesInv /\ GraphInv /\ PayloadInv

\* A compaction's segment has what the ones it replaces have.
MergeInv ==
    /\ compaction.pc \in {"remove", "manifest", "load", "unload"} =>
           /\ compaction.new \in files
           /\ \A s \in Range(compaction.before) : \A d \in Kept :
                  payload[s].vectors[d] # 0 => payload[compaction.new].index[d] # 0
    /\ compaction.pc \in {"load", "unload"} => compaction.new \in Range(manifest.immutables)
    /\ compaction.pc = "unload" => compaction.new \in immutables

\* What is on its way into the index.
Pending(d) ==
    \/ writer.pc = "index" /\ writer.cmd.type = "store" /\ d \in writer.cmd.ids
    \/ \E op \in QueuedOps : op.type = "store" /\ d \in op.ids

ReachedInv == \A d \in Kept : primary[d] # 0 => Indexed(d) \/ Pending(d)

EntryInv ==
    writer.pc = "index" /\ writer.cmd.type = "store" => \A d \in writer.cmd.ids : primary[d] # 0

StoresInv ==
    \A op \in QueuedOps : op.type = "store" => \A d \in op.ids \cap Kept : primary[d] # 0

VectorsInv ==
    indexer.pc = "apply" =>
        /\ Head(indexer.ops).type = "store"
        /\ \A d \in Head(indexer.ops).ids \cap Kept : indexer.vectors[d] # 0

PendingInv == ReachedInv /\ EntryInv /\ StoresInv /\ VectorsInv

\* A document that a search must find is where the search has still to look, or found.
FoundInv ==
    /\ search.tombstones \subseteq tombstones
    /\ \A d \in search.expected :
         /\ d \in Kept /\ primary[d] # 0
         /\ search.pc = "segment" => Indexed(d)
         /\ search.pc = "mutable" =>
              \/ search.segment = mutable.id /\ mutable.docs[d] # 0
              \/ search.segment # mutable.id /\ payload[search.segment].index[d] # 0
              \/ \E s \in immutables : payload[s].index[d] # 0
         /\ search.pc = "immutables" =>
              d \in search.found \/ \E s \in immutables : payload[s].index[d] # 0
         /\ search.pc = "done" => d \in search.found

LossInv == SealInv /\ IdsInv /\ KeptInv /\ MergeInv /\ PendingInv /\ FoundInv

\* The manifest lists no more segments than one compaction takes.
FewSegments == Len(manifest.immutables) <= CompactionFanIn

-------------------------------------------------------------------------------
(* The helpers.                                                            *)

Slice(n, X) == [array : [1..n -> X], len : 0..n]

\* A round of the loop: the slice it goes on with, after the first round shorter.
Round(slice, i) == RemoveSegment(slice, slice.array[i])

LEMMA RoundType ==
    ASSUME NEW n \in Nat, NEW X, NEW slice \in Slice(n, X), NEW i \in 1..n
    PROVE  /\ Round(slice, i) \in Slice(n, X)
           /\ Round(slice, i).len <= slice.len
           /\ i <= slice.len => Round(slice, i).len < slice.len
<1> DEFINE x == slice.array[i]
           at == {k \in 1..slice.len : slice.array[k] = x}
           j == CHOOSE k \in at : \A l \in at : k <= l
<1>1. slice.array \in [1..n -> X] /\ slice.len \in 0..n
  BY DEF Slice
<1>2. i <= slice.len => at # {}
  BY <1>1
<1>3. CASE at = {}
  BY <1>1, <1>2, <1>3 DEF Round, RemoveSegment
<1>4. CASE at # {}
  <2>1. at \subseteq Nat
    BY <1>1
  <2>2. \E k \in at : \A l \in at : k <= l
    BY <1>4, <2>1, NatLeast
  <2>3. j \in at
    BY <2>2
  <2> DEFINE shifted == [k \in DOMAIN slice.array |->
                           IF j <= k /\ k < slice.len THEN slice.array[k + 1] ELSE slice.array[k]]
  <2>4. Round(slice, i) = [array |-> shifted, len |-> slice.len - 1]
    BY <1>4 DEF Round, RemoveSegment
  <2>5. slice.len \in 1..n
    BY <1>1, <2>3
  <2>6. shifted \in [1..n -> X]
    <3>1. j \in Nat
      BY <2>1, <2>3
    <3> HIDE DEF j
    <3> QED BY <1>1, <2>5, <3>1
  <2> HIDE DEF shifted
  <2> QED BY <2>4, <2>5, <2>6 DEF Slice
<1> QED BY <1>3, <1>4

\* The loop is well defined.
LEMMA RemovingDef ==
    ASSUME NEW list, CompactionFanIn \in Nat
    PROVE  Removing(list) =
             [i \in 0..CompactionFanIn |->
                IF i = 0 THEN [array |-> list, len |-> Len(list)]
                ELSE Round(Removing(list)[i - 1], i)]
<1> DEFINE first == [array |-> list, len |-> Len(list)]
           Body(g, n) == [i \in 0..n |-> IF i = 0 THEN first ELSE Round(g[i - 1], i)]
           S == {n \in Nat : \E g : g = Body(g, n)}
<1>1. 0 \in S
  <2>1. [i \in 0..0 |-> first] = Body([i \in 0..0 |-> first], 0)
    OBVIOUS
  <2> QED BY <2>1
<1>2. ASSUME NEW n \in Nat, n \in S PROVE n + 1 \in S
  <2>1. PICK g : g = Body(g, n)
    BY <1>2
  <2> DEFINE h == [i \in 0..(n + 1) |-> IF i = n + 1 THEN Round(g[n], n + 1) ELSE g[i]]
  <2>2. h = Body(h, n + 1)
    <3>1. \A i \in 0..n : g[i] = IF i = 0 THEN first ELSE Round(g[i - 1], i)
      BY <2>1
    <3>2. \A i \in 0..n : h[i] = g[i]
      OBVIOUS
    <3>3. \A i \in 1..(n + 1) : i - 1 \in 0..n
      OBVIOUS
    <3>4. ASSUME NEW i \in 0..(n + 1)
          PROVE  h[i] = IF i = 0 THEN first ELSE Round(h[i - 1], i)
      <4>1. CASE i = n + 1
        BY <3>2, <4>1
      <4>2. CASE i # n + 1
        <5>1. i \in 0..n
          BY <4>2
        <5>2. i # 0 => i - 1 \in 0..n
          BY <5>1
        <5> HIDE DEF first
        <5> QED BY <3>1, <3>2, <5>1, <5>2
      <4> QED BY <4>1, <4>2
    <3> HIDE DEF first
    <3> QED BY <3>4
  <2>3. \E f : f = Body(f, n + 1)
    <3> HIDE DEF h, Body
    <3> QED BY <2>2, Zenon
  <2> HIDE DEF Body
  <2> QED BY <2>3
<1>3. CompactionFanIn \in S
  <2> HIDE DEF S
  <2> QED BY <1>1, <1>2, NatSteps
<1>4. \E g : g = Body(g, CompactionFanIn)
  BY <1>3
<1>5. Removing(list) = CHOOSE g : g = Body(g, CompactionFanIn)
  BY DEF Removing, Round
<1> QED BY <1>4, <1>5

\* What the loop leaves is a shorter list of segments, whatever it removes.
LEMMA RemovingType ==
    ASSUME NEW list \in Seq(SegmentIDs), CompactionFanIn \in Nat \ {0}, CompactionFanIn <= Len(list)
    PROVE  /\ Removing(list)[CompactionFanIn] \in Slice(Len(list), Range(list))
           /\ Removing(list)[CompactionFanIn].len < Len(list)
<1> DEFINE r == Removing(list)
           L == Len(list)
           S == {n \in Nat : n <= CompactionFanIn =>
                   r[n] \in Slice(L, Range(list)) /\ (n = 0 => r[n].len = L) /\ (n > 0 => r[n].len < L)}
<1>1. /\ r[0] = [array |-> list, len |-> L]
      /\ \A i \in 1..CompactionFanIn : r[i] = Round(r[i - 1], i)
  <2>1. r = [i \in 0..CompactionFanIn |->
               IF i = 0 THEN [array |-> list, len |-> L] ELSE Round(r[i - 1], i)]
    BY RemovingDef, Zenon
  <2> HIDE DEF r
  <2> QED BY <2>1
<1> HIDE DEF r
<1>2. L \in Nat /\ list \in [1..L -> Range(list)]
  BY DEF Range
<1> HIDE DEF L
<1>3. 0 \in S
  BY <1>1, <1>2 DEF Slice
<1>4. ASSUME NEW n \in Nat, n \in S PROVE n + 1 \in S
  <2>1. SUFFICES ASSUME n + 1 <= CompactionFanIn
                 PROVE  r[n + 1] \in Slice(L, Range(list)) /\ r[n + 1].len < L
    OBVIOUS
  <2>2. r[n] \in Slice(L, Range(list)) /\ (n = 0 => r[n].len = L) /\ (n > 0 => r[n].len < L)
    BY <1>4, <2>1
  <2>3. n + 1 \in 1..L
    BY <1>2, <2>1 DEF L
  <2>4. r[n + 1] = Round(r[n], n + 1)
    BY <1>1, <2>1
  <2>5. r[n].len \in Nat
    BY <1>2, <2>2 DEF Slice
  <2>6. /\ Round(r[n], n + 1) \in Slice(L, Range(list))
        /\ Round(r[n], n + 1).len <= r[n].len
        /\ n + 1 <= r[n].len => Round(r[n], n + 1).len < r[n].len
    BY <1>2, <2>2, <2>3, RoundType
  <2>7. r[n + 1].len \in Nat
    BY <1>2, <2>4, <2>6 DEF Slice
  <2> QED BY <1>2, <2>2, <2>3, <2>4, <2>5, <2>6, <2>7
<1>5. CompactionFanIn \in S
  <2> HIDE DEF S
  <2> QED BY <1>3, <1>4, NatSteps
<1> QED BY <1>5 DEF r, L

LEMMA CompactedType ==
    ASSUME NEW list \in Seq(SegmentIDs), CompactionFanIn \in Nat \ {0}, CompactionFanIn <= Len(list),
           NEW new \in SegmentIDs
    PROVE  /\ Compacted(list, new) \in Seq(SegmentIDs)
           /\ Len(Compacted(list, new)) <= Len(list)
           /\ new \in Range(Compacted(list, new))
           /\ Range(Compacted(list, new)) \subseteq Range(list) \cup {new}
<1> DEFINE rest == Removing(list)[CompactionFanIn]
           kept == SubSeq(rest.array, 1, rest.len)
<1>1. rest \in Slice(Len(list), Range(list)) /\ rest.len < Len(list)
  BY RemovingType
<1> HIDE DEF rest
<1>2. rest.array \in Seq(Range(list)) /\ Len(rest.array) = Len(list) /\ rest.len \in Nat
  BY <1>1 DEF Slice
<1>3. kept \in Seq(Range(list)) /\ Len(kept) = rest.len
  BY <1>1, <1>2
<1>4. Compacted(list, new) = Append(kept, new)
  BY DEF Compacted, rest
<1> HIDE DEF kept
<1>5. /\ Append(kept, new) \in Seq(Range(list) \cup {new}) /\ Len(Append(kept, new)) = rest.len + 1
      /\ Append(kept, new)[rest.len + 1] = new
  BY <1>2, <1>3
<1>6. Len(list) \in Nat /\ Range(list) \subseteq SegmentIDs
  BY DEF Range
<1>7. Append(kept, new) \in Seq(SegmentIDs)
  BY <1>5, <1>6
<1> QED BY <1>1, <1>2, <1>4, <1>5, <1>6, <1>7, SMTT(30) DEF Range

\* A non-empty set of positions has a last one.
LEMMA LastPosition ==
    ASSUME NEW n \in Nat, NEW S \in SUBSET (1..n), S # {}
    PROVE  Max(S) \in S
<1> DEFINE T == {n - i : i \in S}
<1>1. T \subseteq Nat
  OBVIOUS
<1>2. T # {}
  <2>1. PICK i \in S : TRUE
    OBVIOUS
  <2> QED BY <2>1
<1> HIDE DEF T
<1>3. PICK m \in T : \A k \in T : m <= k
  BY <1>1, <1>2, NatLeast
<1>4. PICK i \in S : m = n - i
  BY <1>3 DEF T
<1>5. ASSUME NEW j \in S PROVE i >= j
  <2>1. n - j \in T
    BY DEF T
  <2> QED BY <1>3, <1>4, <2>1
<1> QED BY <1>4, <1>5 DEF Max

LEMMA WithVectorsType ==
    ASSUME NEW m \in MutableRec, NEW v \in Vectors, IsFiniteSet(DocIDs)
    PROVE  /\ WithVectors(m, v) \in MutableRec
           /\ WithVectors(m, v).id = m.id
           /\ WithVectors(m, v).docs = [d \in DocIDs |-> IF v[d] # 0 THEN v[d] ELSE m.docs[d]]
<1>1. IsFiniteSet(Docs(v) \ Docs(m.docs))
  BY FS_Subset, Docs(v) \ Docs(m.docs) \subseteq DocIDs DEF Docs
<1>2. Cardinality(Docs(v) \ Docs(m.docs)) \in Nat
  BY <1>1, FS_CardinalityType
<1> DEFINE docs == [d \in DocIDs |-> IF v[d] # 0 THEN v[d] ELSE m.docs[d]]
           n == Cardinality(Docs(v) \ Docs(m.docs))
<1>3. docs \in Vectors
  BY DEF MutableRec, Vectors
<1>4. WithVectors(m, v) = [m EXCEPT !.docs = docs, !.count = m.count + n]
  BY DEF WithVectors
<1>5. n \in Nat
  BY <1>2
<1> HIDE DEF docs, n
<1>6. WithVectors(m, v) = [id |-> m.id, docs |-> docs, count |-> m.count + n, aged |-> m.aged]
  BY <1>4 DEF MutableRec
<1>7. WithVectors(m, v) \in MutableRec
  BY <1>3, <1>5, <1>6 DEF MutableRec
<1> QED BY <1>6, <1>7 DEF docs

LEMMA WithoutType ==
    ASSUME NEW m \in MutableRec, NEW ids, MaxLog \in Nat
    PROVE  /\ Without(m, ids) \in MutableRec
           /\ Without(m, ids).id = m.id
           /\ Without(m, ids).docs = [d \in DocIDs |-> IF d \in ids THEN 0 ELSE m.docs[d]]
BY DEF Without, MutableRec, Vectors

LEMMA LoadVectorsType ==
    ASSUME primary \in Vectors, MaxLog \in Nat, NEW ids
    PROVE  LoadVectors(ids) \in Vectors
BY DEF LoadVectors, Vectors

LEMMA AppliedNowType ==
    ASSUME primary \in Vectors, mutable \in MutableRec, MaxLog \in Nat, IsFiniteSet(DocIDs), NEW op
    PROVE  AppliedNow(op) \in MutableRec /\ AppliedNow(op).id = mutable.id
BY LoadVectorsType, WithVectorsType, WithoutType DEF AppliedNow

LEMMA MergedType ==
    ASSUME payload \in [SegmentIDs -> [index : Vectors, vectors : Vectors]], MaxLog \in Nat,
           NEW segs \in Seq(SegmentIDs)
    PROVE  /\ Merged(segs) \in Vectors
           /\ \A i \in 1..Len(segs) : \A d \in DocIDs \ savedTombstones :
                 payload[segs[i]].vectors[d] # 0 => Merged(segs)[d] # 0
<1> DEFINE Having(d) == {i \in DOMAIN segs : payload[segs[i]].vectors[d] # 0}
<1>1. ASSUME NEW d \in DocIDs, Having(d) # {}
      PROVE  Max(Having(d)) \in Having(d)
  <2>1. Len(segs) \in Nat /\ DOMAIN segs = 1..Len(segs)
    OBVIOUS
  <2>2. Having(d) \in SUBSET (1..Len(segs))
    BY <2>1
  <2> HIDE DEF Having
  <2> QED BY <1>1, <2>1, <2>2, LastPosition
<1>2. Merged(segs) = [d \in DocIDs |-> IF d \in savedTombstones \/ Having(d) = {} THEN 0
                                       ELSE payload[segs[Max(Having(d))]].vectors[d]]
  BY DEF Merged
<1>3. ASSUME NEW d \in DocIDs
      PROVE  /\ Merged(segs)[d] \in 0..MaxLog
             /\ d \notin savedTombstones /\ Having(d) # {} => Merged(segs)[d] # 0
  <2>1. CASE d \in savedTombstones \/ Having(d) = {}
    <3>1. Merged(segs)[d] = 0
      BY <1>2, <2>1
    <3> HIDE DEF Having
    <3> QED BY <2>1, <3>1
  <2>2. CASE ~(d \in savedTombstones \/ Having(d) = {})
    <3> DEFINE m == Max(Having(d))
    <3>1. m \in Having(d)
      BY <1>1, <2>2
    <3>2. Merged(segs)[d] = payload[segs[m]].vectors[d]
      BY <1>2, <2>2
    <3> HIDE DEF m
    <3> QED BY <3>1, <3>2 DEF Vectors
  <2> QED BY <2>1, <2>2
<1>4. Merged(segs) \in Vectors
  BY <1>2, <1>3 DEF Vectors
<1> QED BY <1>3, <1>4

-------------------------------------------------------------------------------
(* The shape of the state.                                                 *)

USE DEF SealPCs, WriterPCs

LEMMA TypeInit == SegInit => TypeInv
BY SegmentAssumption DEF SegInit, TypeInv, WriterInv, LockInv, SegmentsInv, StoreInv, IndexerInv,
   NewMutableSegment, IdleWriter, IdleIndexer, IdleCompaction, NoSearch, NoDocs, Vectors, Manifest,
   MutableRec, WriterRec, IndexerRec, CompactionRec, SearchRec, SegmentIDs

\* The command in progress is one of the log's.
LEMMA CommandType ==
    ASSUME TypeInv, writer.pc # "idle"
    PROVE  /\ writer.cmd \in Commands
           /\ writer.cmd \in [type : {"store", "delete"}, ids : SUBSET DocIDs]
           /\ writer.cmd.type \in {"store", "delete"} /\ writer.cmd.ids \subseteq DocIDs
<1>1. writer.cmd \in Commands
  <2>1. applied \in Nat /\ log \in Seq(Commands) /\ applied < Len(log) /\ writer.cmd = log[applied + 1]
    BY DEF TypeInv, WriterInv
  <2>2. applied + 1 \in 1..Len(log)
    BY <2>1
  <2> QED BY <2>1, <2>2
<1> QED BY <1>1, SegmentAssumption

\* The writer applies the log in its order.
LEMMA WriterInvStep == TypeInv /\ [SegNext]_segVars => WriterInv'
<1>1. SUFFICES ASSUME TypeInv, [SegNext]_segVars PROVE WriterInv'
  OBVIOUS
<1>2. CASE UNCHANGED <<log, applied, acked, writer, crashes>>
  BY <1>1, <1>2 DEF TypeInv, WriterInv
<1> USE SegmentAssumption
<1>3. CASE StoreEntry
  <2>1. PICK cmd \in Commands :
          /\ writer' = [pc |-> "index", cmd |-> cmd]
          /\ \/ applied < Len(log) /\ cmd = log[applied + 1] /\ log' = log
             \/ applied = Len(log) /\ Len(log) < MaxLog /\ log' = Append(log, cmd)
    BY <1>3 DEF StoreEntry
  <2>2. log \in Seq(Commands) /\ Len(log) \in Nat /\ applied \in Nat /\ acked \in Nat
    BY <1>1 DEF TypeInv, WriterInv
  <2>3. log' \in Seq(Commands) /\ Len(log') <= MaxLog /\ acked <= Len(log')
    BY <1>1, <2>1, <2>2 DEF TypeInv, WriterInv
  <2>4. applied < Len(log') /\ cmd = log'[applied + 1]
    BY <1>1, <2>1, <2>2 DEF TypeInv, WriterInv
  <2>5. writer' \in WriterRec
    BY <2>1 DEF WriterRec
  <2>6. UNCHANGED <<applied, acked, crashes>>
    BY <1>3 DEF StoreEntry
  <2> QED BY <1>1, <2>1, <2>3, <2>4, <2>5, <2>6 DEF TypeInv, WriterInv
<1>4. CASE IndexEntry
  <2>1. writer.pc = "index" /\ writer.cmd.type \in {"store", "delete"}
    BY <1>1, <1>4, CommandType DEF IndexEntry
  <2>2. writer' = [pc |-> IF writer.cmd.type = "store" THEN "check" ELSE "tombstone", cmd |-> writer.cmd]
    BY <1>1, <1>4 DEF IndexEntry, TypeInv, WriterInv, WriterRec
  <2>3. UNCHANGED <<log, applied, acked, crashes>>
    BY <1>4 DEF IndexEntry, logVars
  <2> QED BY <1>1, <2>1, <2>2, <2>3 DEF TypeInv, WriterInv, WriterRec
<1> DEFINE Goes(q) == /\ writer.pc # "idle" /\ writer.cmd.type = "store"
                      /\ writer' = [writer EXCEPT !.pc = q]
                      /\ UNCHANGED <<log, applied, acked, crashes>>
<1>a. ASSUME NEW q \in {"seal"} \cup SealPCs, Goes(q) PROVE WriterInv'
  <2>1. writer' = [pc |-> q, cmd |-> writer.cmd] /\ writer' \in WriterRec
    BY <1>1, <1>a DEF TypeInv, WriterInv, WriterRec
  <2>2. q # "tombstone" /\ q # "idle"
    OBVIOUS
  <2> QED BY <1>1, <1>a, <2>1, <2>2 DEF TypeInv, WriterInv
<1>b. ASSUME writer.pc # "idle", Returns, UNCHANGED <<log, crashes>> PROVE WriterInv'
  <2>1. writer' = IdleWriter /\ IdleWriter.pc = "idle" /\ IdleWriter \in WriterRec
    BY <1>b DEF Returns, IdleWriter, WriterRec
  <2>2. applied' \in 0..acked' /\ acked' \in 0..Len(log)
    BY <1>1, <1>b DEF Returns, TypeInv, WriterInv
  <2> QED BY <1>1, <1>b, <2>1, <2>2 DEF TypeInv, WriterInv
<1>c. writer.pc \in {"check", "seal"} \cup SealPCs =>
          writer.pc # "idle" /\ writer.cmd.type = "store"
  BY <1>1 DEF TypeInv, WriterInv
<1>5. CASE WriteTombstone
  BY <1>5, <1>b DEF WriteTombstone
<1>6. CASE CheckThresholds
  <2>1. CASE ShouldSeal
    BY <1>6, <1>a, <1>c, <2>1 DEF CheckThresholds
  <2>2. CASE ~ShouldSeal
    BY <1>6, <1>b, <2>2 DEF CheckThresholds
  <2> QED BY <2>1, <2>2
<1>7. CASE LockForSeal
  <2>1. CASE ShouldSeal
    <3>1. PICK q \in {"barrier", "persist"} : Goes(q)
      BY <1>7, <1>c, <2>1 DEF LockForSeal
    <3> QED BY <1>a, <3>1
  <2>2. CASE ~ShouldSeal
    BY <1>7, <1>b, <2>2 DEF LockForSeal
  <2> QED BY <2>1, <2>2
<1>8. CASE SendBarrier
  BY <1>8, <1>a, <1>c DEF SendBarrier, logVars
<1>9. CASE PersistSegment
  BY <1>9, <1>a, <1>c DEF PersistSegment, logVars
<1>10. CASE PublishSegment
  BY <1>10, <1>a, <1>c DEF PublishSegment, logVars
<1>11. CASE SwapMutable
  BY <1>11, <1>b DEF SwapMutable
<1>12. CASE FlushDone
  BY <1>1, <1>12 DEF FlushDone, TypeInv, WriterInv, WriterRec, Returns,
     IdleWriter, logVars, LockInv, IndexerInv
<1>13. CASE Restart
  BY <1>1, <1>13 DEF Restart, TypeInv, WriterInv, WriterRec, Returns,
     IdleWriter, logVars, LockInv, IndexerInv
<1> QED
  BY <1>1, <1>2, <1>3, <1>4, <1>5, <1>6, <1>7, <1>8, <1>9, <1>10, <1>11, <1>12, <1>13
     DEF SegNext, WriterStep, IndexerStep, CompactionStep, SearchStep, segVars, logVars,
         storeVars, managerVars, SegmentAges, ReceiveOp, FlushTimer, StartOp, ApplyVectors,
         StartCompaction, MergeSegments, RemoveFiles, SaveCompaction, LoadCompacted,
         UnloadCompacted, StartSearch, PickMutable, SearchMutable, SearchImmutables, EndSearch

\* The lock has the thread that took it.
LEMMA LockInvStep ==
    TypeInv /\ [SegNext]_segVars => LockInv'
<1>1. SUFFICES ASSUME TypeInv, [SegNext]_segVars PROVE LockInv'
  OBVIOUS
<1>2. CASE UNCHANGED <<mu, writer, compaction, nextSegment, asyncIndex>>
  BY <1>1, <1>2 DEF TypeInv, LockInv
<1>3. CASE StoreEntry
  BY <1>1, <1>3 DEF StoreEntry, managerVars, TypeInv, WriterInv, LockInv, WriterRec
<1>4. CASE IndexEntry
  BY <1>1, <1>4 DEF IndexEntry, logVars, TypeInv, WriterInv, LockInv, WriterRec
<1>5. CASE WriteTombstone
  BY <1>1, <1>5 DEF WriteTombstone, Returns, IdleWriter, TypeInv, WriterInv, LockInv, WriterRec
<1>6. CASE CheckThresholds
  BY <1>1, <1>6 DEF CheckThresholds, Returns, IdleWriter, managerVars, TypeInv, WriterInv,
     LockInv, WriterRec
<1>7. CASE LockForSeal
  BY <1>1, <1>7 DEF LockForSeal, ShouldSeal, Returns, IdleWriter, TypeInv, WriterInv, LockInv,
     WriterRec
<1>8. CASE SendBarrier
  BY <1>1, <1>8 DEF SendBarrier, logVars, managerVars, TypeInv, WriterInv, LockInv, WriterRec
<1>9. CASE PersistSegment
  BY <1>1, <1>9 DEF PersistSegment, logVars, TypeInv, WriterInv, LockInv, WriterRec
<1>10. CASE PublishSegment
  BY <1>1, <1>10 DEF PublishSegment, logVars, TypeInv, WriterInv, LockInv, WriterRec
<1>11. CASE SwapMutable
  BY <1>1, <1>11 DEF SwapMutable, Returns, IdleWriter, TypeInv, WriterInv, LockInv, WriterRec
<1>12. CASE FlushDone
  BY <1>1, <1>12 DEF FlushDone, logVars, managerVars, IndexerInv, TypeInv, WriterInv, LockInv,
     WriterRec
<1>13. CASE StartCompaction
  BY <1>1, <1>13 DEF StartCompaction, logVars, TypeInv, WriterInv, LockInv, WriterRec
<1>14. CASE MergeSegments
  BY <1>1, <1>14 DEF MergeSegments, logVars, managerVars, SegmentsInv, CompactionRec, TypeInv,
     WriterInv, LockInv, WriterRec
<1>15. CASE RemoveFiles
  BY <1>1, <1>15 DEF RemoveFiles, logVars, managerVars, SegmentsInv, CompactionRec, TypeInv,
     WriterInv, LockInv, WriterRec
<1>16. CASE SaveCompaction
  BY <1>1, <1>16 DEF SaveCompaction, logVars, SegmentsInv, CompactionRec, TypeInv, WriterInv,
     LockInv, WriterRec
<1>17. CASE LoadCompacted
  BY <1>1, <1>17 DEF LoadCompacted, logVars, SegmentsInv, CompactionRec, TypeInv, WriterInv,
     LockInv, WriterRec
<1>18. CASE UnloadCompacted
  BY <1>1, <1>18 DEF UnloadCompacted, logVars, IdleCompaction, TypeInv, WriterInv, LockInv,
     WriterRec
<1>19. CASE Restart
  BY <1>1, <1>19 DEF Restart, IdleWriter, IdleCompaction, TypeInv, WriterInv, LockInv, WriterRec
<1> QED
  BY <1>1, <1>2, <1>3, <1>4, <1>5, <1>6, <1>7, <1>8, <1>9, <1>10, <1>11, <1>12, <1>13, <1>14,
     <1>15, <1>16, <1>17, <1>18, <1>19 DEF SegNext, WriterStep, IndexerStep, CompactionStep,
     SearchStep, segVars, logVars, storeVars, managerVars, SegmentAges, ReceiveOp, FlushTimer,
     StartOp, ApplyVectors, StartSearch, PickMutable, SearchMutable, SearchImmutables, EndSearch

\* Segments, manifests and compactions are made of segments that were created.
LEMMA SegmentsInvStep ==
    TypeInv /\ [SegNext]_segVars => SegmentsInv'
<1>1. SUFFICES ASSUME TypeInv, [SegNext]_segVars PROVE SegmentsInv'
  OBVIOUS
<1> USE SegmentAssumption
<1>2. CASE UNCHANGED <<mutable, manifest, savedManifest, payload, files, immutables, nextSegment,
   compaction>>
  BY <1>1, <1>2 DEF TypeInv, SegmentsInv
<1>3. CASE IndexEntry
  <2>1. mutable' \in MutableRec
    BY <1>1, <1>3, AppliedNowType DEF IndexEntry, TypeInv, StoreInv, SegmentsInv
  <2>2. UNCHANGED <<manifest, savedManifest, payload, files, immutables, nextSegment, compaction>>
    BY <1>3 DEF IndexEntry, storeVars
  <2> QED BY <1>1, <2>1, <2>2 DEF TypeInv, SegmentsInv
<1>4. CASE PersistSegment
  <2>1. mutable.id \in SegmentIDs /\ mutable.docs \in Vectors
    BY <1>1 DEF TypeInv, SegmentsInv, MutableRec
  <2>2. LoadVectors(Docs(mutable.docs)) \in Vectors
    BY <1>1, LoadVectorsType DEF TypeInv, StoreInv
  <2>3. payload' \in [SegmentIDs -> [index : Vectors, vectors : Vectors]]
    BY <1>1, <1>4, <2>1, <2>2 DEF PersistSegment, TypeInv, SegmentsInv
  <2>4. manifest' \in Manifest
    <3>1. manifest \in Manifest /\ Append(manifest.immutables, mutable.id) \in Seq(SegmentIDs)
      BY <1>1, <2>1 DEF TypeInv, SegmentsInv, Manifest
    <3>2. manifest' = [mutable |-> manifest.mutable,
                       immutables |-> Append(manifest.immutables, mutable.id)]
      BY <1>4, <3>1 DEF PersistSegment, Manifest
    <3> QED BY <3>1, <3>2 DEF Manifest
  <2>5. files' \subseteq SegmentIDs
    BY <1>1, <1>4, <2>1 DEF PersistSegment, TypeInv, SegmentsInv
  <2>6. UNCHANGED <<mutable, savedManifest, immutables, nextSegment, compaction>>
    BY <1>4 DEF PersistSegment
  <2>7. compaction.pc = "idle"
    BY <1>1, <1>4 DEF PersistSegment, TypeInv, LockInv
  <2> QED BY <1>1, <2>3, <2>4, <2>5, <2>6, <2>7 DEF TypeInv, SegmentsInv
<1>5. CASE PublishSegment
  BY <1>1, <1>5 DEF PublishSegment, storeVars, MutableRec, TypeInv, SegmentsInv
<1>6. CASE SwapMutable
  <2>1. nextSegment \in SegmentIDs
    BY <1>1, <1>6 DEF SwapMutable, TypeInv, SegmentsInv, LockInv, SegmentIDs
  <2>2. mutable' \in MutableRec
    BY <1>6, <2>1 DEF SwapMutable, NewMutableSegment, NoDocs, MutableRec, Vectors
  <2>3. manifest' \in Manifest /\ savedManifest' \in Manifest
    BY <1>1, <1>6, <2>1 DEF SwapMutable, TypeInv, SegmentsInv, Manifest
  <2>4. nextSegment' \in 2..(MaxSegmentID + 1)
    BY <1>1, <1>6, <2>1 DEF SwapMutable, TypeInv, SegmentsInv, SegmentIDs
  <2>5. UNCHANGED <<payload, files, immutables, compaction>>
    BY <1>6 DEF SwapMutable
  <2>6. compaction.pc = "idle"
    BY <1>1, <1>6 DEF SwapMutable, TypeInv, LockInv
  <2> QED BY <1>1, <2>2, <2>3, <2>4, <2>5, <2>6 DEF TypeInv, SegmentsInv
<1>7. CASE SegmentAges
  <2>1. mutable' \in MutableRec
    BY <1>1, <1>7 DEF SegmentAges, TypeInv, SegmentsInv, MutableRec
  <2>2. UNCHANGED <<manifest, savedManifest, payload, files, immutables, nextSegment, compaction>>
    BY <1>7 DEF SegmentAges, storeVars
  <2> QED BY <1>1, <2>1, <2>2 DEF TypeInv, SegmentsInv
<1>8. CASE StartOp
  <2>1. mutable' \in MutableRec
    BY <1>1, <1>8, AppliedNowType DEF StartOp, TypeInv, StoreInv, SegmentsInv
  <2>2. UNCHANGED <<manifest, savedManifest, payload, files, immutables, nextSegment, compaction>>
    BY <1>8 DEF StartOp, storeVars
  <2> QED BY <1>1, <2>1, <2>2 DEF TypeInv, SegmentsInv
<1>9. CASE ApplyVectors
  <2>1. mutable' \in MutableRec
    BY <1>1, <1>9, WithVectorsType DEF ApplyVectors, TypeInv, IndexerInv, IndexerRec, SegmentsInv
  <2>2. UNCHANGED <<manifest, savedManifest, payload, files, immutables, nextSegment, compaction>>
    BY <1>9 DEF ApplyVectors, storeVars
  <2> QED BY <1>1, <2>1, <2>2 DEF TypeInv, SegmentsInv
<1>10. CASE StartCompaction
  <2>1. nextSegment \in SegmentIDs
    BY <1>1, <1>10 DEF StartCompaction, TypeInv, SegmentsInv, SegmentIDs
  <2>2. compaction' \in CompactionRec /\ compaction'.new \in SegmentIDs
    BY <1>1, <1>10, <2>1 DEF StartCompaction, TypeInv, SegmentsInv, CompactionRec, SegmentIDs,
       Manifest
  <2>3. nextSegment' \in 2..(MaxSegmentID + 1)
    BY <1>1, <1>10, <2>1 DEF StartCompaction, TypeInv, SegmentsInv, SegmentIDs
  <2>4. UNCHANGED <<mutable, manifest, savedManifest, payload, files, immutables>>
    BY <1>10 DEF StartCompaction, storeVars
  <2>5. CompactionFanIn <= Len(manifest.immutables) /\ compaction'.before = manifest.immutables
    BY <1>10 DEF StartCompaction
  <2> QED BY <1>1, <2>2, <2>3, <2>4, <2>5 DEF TypeInv, SegmentsInv
<1>11. CASE MergeSegments
  <2>1. ToCompact \in Seq(SegmentIDs)
    BY <1>1, <1>11 DEF MergeSegments, ToCompact, TypeInv, SegmentsInv, Manifest
  <2>2. Merged(ToCompact) \in Vectors
    BY <1>1, <2>1, MergedType DEF TypeInv, SegmentsInv
  <2>3. compaction.new \in SegmentIDs
    BY <1>1, <1>11 DEF MergeSegments, TypeInv, SegmentsInv
  <2>4. payload' \in [SegmentIDs -> [index : Vectors, vectors : Vectors]] /\ files' \subseteq SegmentIDs
    BY <1>1, <1>11, <2>2, <2>3 DEF MergeSegments, TypeInv, SegmentsInv
  <2>5. compaction' = [pc |-> "remove", before |-> compaction.before, new |-> compaction.new]
    BY <1>1, <1>11 DEF MergeSegments, TypeInv, SegmentsInv, CompactionRec
  <2>6. UNCHANGED <<mutable, manifest, savedManifest, immutables, nextSegment>>
    BY <1>11 DEF MergeSegments, managerVars
  <2>7. compaction.pc = "merge"
    BY <1>11 DEF MergeSegments
  <2> QED BY <1>1, <2>3, <2>4, <2>5, <2>6, <2>7 DEF TypeInv, SegmentsInv, CompactionRec
<1>12. CASE RemoveFiles
  <2>1. compaction' = [pc |-> "manifest", before |-> compaction.before, new |-> compaction.new]
    BY <1>1, <1>12 DEF RemoveFiles, TypeInv, SegmentsInv, CompactionRec
  <2>2. UNCHANGED <<mutable, manifest, savedManifest, payload, immutables, nextSegment>>
    BY <1>12 DEF RemoveFiles, managerVars
  <2>3. compaction.pc = "remove" /\ files' \subseteq files
    BY <1>12 DEF RemoveFiles
  <2> QED BY <1>1, <2>1, <2>2, <2>3 DEF TypeInv, SegmentsInv, CompactionRec
<1>13. CASE SaveCompaction
  <2>1. compaction' = [pc |-> "load", before |-> compaction.before, new |-> compaction.new]
    BY <1>1, <1>13 DEF SaveCompaction, TypeInv, SegmentsInv, CompactionRec
  <2>2. manifest.immutables \in Seq(SegmentIDs) /\ compaction.new \in SegmentIDs
    BY <1>1, <1>13 DEF SaveCompaction, TypeInv, SegmentsInv, Manifest
  <2>3. CompactionFanIn <= Len(manifest.immutables)
    BY <1>1, <1>13 DEF SaveCompaction, TypeInv, SegmentsInv
  <2>4. Compacted(manifest.immutables, compaction.new) \in Seq(SegmentIDs)
    BY <2>2, <2>3, CompactedType
  <2>5. manifest' \in Manifest /\ savedManifest' \in Manifest
    BY <1>1, <1>13, <2>4 DEF SaveCompaction, TypeInv, SegmentsInv, Manifest
  <2>6. UNCHANGED <<mutable, payload, files, immutables, nextSegment>>
    BY <1>13 DEF SaveCompaction
  <2> QED BY <1>1, <2>1, <2>2, <2>5, <2>6 DEF TypeInv, SegmentsInv, CompactionRec
<1>14. CASE LoadCompacted
  <2>1. compaction' = [pc |-> "unload", before |-> compaction.before, new |-> compaction.new]
    BY <1>1, <1>14 DEF LoadCompacted, TypeInv, SegmentsInv, CompactionRec
  <2>2. UNCHANGED <<mutable, manifest, savedManifest, payload, files, nextSegment>>
    BY <1>14 DEF LoadCompacted, storeVars
  <2>3. compaction.pc = "load" /\ immutables' \subseteq immutables \cup files
    BY <1>14 DEF LoadCompacted
  <2> QED BY <1>1, <2>1, <2>2, <2>3 DEF TypeInv, SegmentsInv, CompactionRec
<1>15. CASE UnloadCompacted
  <2>1. UNCHANGED <<mutable, manifest, savedManifest, payload, files, nextSegment>>
    BY <1>15 DEF UnloadCompacted, storeVars
  <2>2. compaction' = IdleCompaction /\ immutables' \subseteq immutables
    BY <1>15 DEF UnloadCompacted
  <2> QED BY <1>1, <2>1, <2>2 DEF TypeInv, SegmentsInv, CompactionRec, IdleCompaction
<1>16. CASE Restart
  <2> DEFINE loaded == Range(savedManifest.immutables) \cap files
  <2>1. savedManifest.mutable \in SegmentIDs
    BY <1>1 DEF TypeInv, SegmentsInv, Manifest
  <2>2. LoadMutableSegment(savedManifest.mutable, loaded) \in MutableRec
    <3>1. NewMutableSegment(savedManifest.mutable) \in MutableRec
      BY <2>1 DEF NewMutableSegment, NoDocs, MutableRec, Vectors
    <3>2. \A ids : LoadVectors(ids) \in Vectors
      BY <1>1, LoadVectorsType DEF TypeInv, StoreInv
    <3> QED BY <3>1, <3>2, WithVectorsType DEF LoadMutableSegment
  <2>3. mutable' \in MutableRec /\ immutables' \subseteq files
    BY <1>16, <2>2 DEF Restart
  <2>4. manifest' = savedManifest /\ compaction' = IdleCompaction
    BY <1>16 DEF Restart
  <2>5. UNCHANGED <<savedManifest, payload, files, nextSegment>>
    BY <1>16 DEF Restart, storeVars
  <2> QED BY <1>1, <2>3, <2>4, <2>5 DEF TypeInv, SegmentsInv, CompactionRec, IdleCompaction
<1> QED
  BY <1>1, <1>2, <1>3, <1>4, <1>5, <1>6, <1>7, <1>8, <1>9, <1>10, <1>11, <1>12, <1>13, <1>14,
     <1>15, <1>16 DEF SegNext, WriterStep, IndexerStep, CompactionStep, SearchStep, segVars,
     logVars, storeVars, managerVars, StoreEntry, WriteTombstone, CheckThresholds, LockForSeal,
     SendBarrier, ReceiveOp, FlushTimer, FlushDone, StartSearch, PickMutable, SearchMutable,
     SearchImmutables, EndSearch

\* The store holds log positions, the tombstones documents.
LEMMA StoreInvStep ==
    TypeInv /\ [SegNext]_segVars => StoreInv'
<1>1. SUFFICES ASSUME TypeInv, [SegNext]_segVars PROVE StoreInv'
  OBVIOUS
<1> USE SegmentAssumption
<1>2. CASE UNCHANGED <<primary, asyncIndex, tombstones, savedTombstones>>
  BY <1>1, <1>2 DEF TypeInv, StoreInv
<1>3. CASE StoreEntry
  <2>1. applied \in Nat /\ Len(log) \in Nat
    BY <1>1 DEF TypeInv, WriterInv
  <2>2. PICK cmd \in Commands :
          /\ applied < Len(log) \/ (applied = Len(log) /\ Len(log) < MaxLog)
          /\ primary' = [d \in DocIDs |-> IF d \notin cmd.ids THEN primary[d]
                                         ELSE IF cmd.type = "store" THEN applied + 1 ELSE 0]
    BY <1>3 DEF StoreEntry
  <2>3. applied + 1 \in 0..MaxLog
    BY <1>1, <2>1, <2>2 DEF TypeInv, WriterInv
  <2>4. primary' \in Vectors
    BY <1>1, <2>2, <2>3 DEF TypeInv, StoreInv, Vectors
  <2>5. UNCHANGED <<asyncIndex, tombstones, savedTombstones>>
    BY <1>3 DEF StoreEntry, managerVars
  <2> QED BY <1>1, <2>4, <2>5 DEF TypeInv, StoreInv
<1>4. CASE WriteTombstone
  <2>1. writer.cmd.ids \subseteq DocIDs
    BY <1>1, <1>4, CommandType DEF WriteTombstone
  <2> QED BY <1>1, <1>4, <2>1 DEF WriteTombstone, TypeInv, StoreInv
<1>5. CASE Restart
  BY <1>1, <1>5 DEF Restart, TypeInv, StoreInv, storeVars
<1> QED
  BY <1>1, <1>2, <1>3, <1>4, <1>5 DEF SegNext, WriterStep, IndexerStep, CompactionStep,
     SearchStep, segVars, logVars, storeVars, managerVars, IndexEntry, CheckThresholds,
     LockForSeal, SendBarrier, PersistSegment, PublishSegment, SwapMutable, SegmentAges,
     ReceiveOp, FlushTimer, StartOp, ApplyVectors, FlushDone, StartCompaction, MergeSegments,
     RemoveFiles, SaveCompaction, LoadCompacted, UnloadCompacted, StartSearch, PickMutable,
     SearchMutable, SearchImmutables, EndSearch

\* The indexer's queue and batch keep within their sizes, and a barrier waits for the writer
\* that sent it, which waits for the barrier.
LEMMA IndexerInvStep ==
    TypeInv /\ [SegNext]_segVars => IndexerInv'
<1>1. SUFFICES ASSUME TypeInv, [SegNext]_segVars PROVE IndexerInv'
  OBVIOUS
<1> USE SegmentAssumption
<1>2. CASE UNCHANGED <<indexerCh, indexer, writer>>
  BY <1>1, <1>2 DEF TypeInv, IndexerInv
<1>3. CASE StoreEntry
  <2>1. writer.pc # "await" /\ UNCHANGED <<indexerCh, indexer>>
    BY <1>3 DEF StoreEntry
  <2> QED BY <1>1, <2>1 DEF TypeInv, IndexerInv
<1>4. CASE IndexEntry
  <2> DEFINE op == [type |-> writer.cmd.type, ids |-> writer.cmd.ids, segment |-> mutable.id]
  <2>1. op \in Op /\ op.type # "barrier"
    BY <1>1, <1>4, CommandType DEF IndexEntry, Op, TypeInv, SegmentsInv, MutableRec
  <2>2. writer.pc = "index" /\ indexer' = indexer
    BY <1>4 DEF IndexEntry
  <2>3. \/ Len(indexerCh) < QueueSize /\ indexerCh' = Append(indexerCh, op)
        \/ indexerCh' = indexerCh
    BY <1>4 DEF IndexEntry
  <2> HIDE DEF op
  <2>4. indexerCh \in Seq(Op) /\ Len(indexerCh) \in Nat /\ ~indexer.barrier
    BY <1>1, <2>2 DEF TypeInv, IndexerInv
  <2>5. \A i \in 1..Len(indexerCh') : indexerCh'[i].type # "barrier"
    BY <1>1, <2>1, <2>2, <2>3, <2>4, SMTT(30) DEF TypeInv, IndexerInv
  <2>6. indexerCh' \in Seq(Op) /\ Len(indexerCh') <= QueueSize
    BY <1>1, <2>1, <2>3, <2>4 DEF TypeInv, IndexerInv
  <2> QED BY <1>1, <2>2, <2>4, <2>5, <2>6 DEF TypeInv, IndexerInv
<1>5. CASE WriteTombstone
  <2>1. writer.pc # "await" /\ UNCHANGED <<indexerCh, indexer>>
    BY <1>5 DEF WriteTombstone
  <2> QED BY <1>1, <2>1 DEF TypeInv, IndexerInv
<1>6. CASE CheckThresholds
  <2>1. writer.pc # "await" /\ UNCHANGED <<indexerCh, indexer>>
    BY <1>6 DEF CheckThresholds
  <2> QED BY <1>1, <2>1 DEF TypeInv, IndexerInv
<1>7. CASE LockForSeal
  <2>1. writer.pc # "await" /\ UNCHANGED <<indexerCh, indexer>>
    BY <1>7 DEF LockForSeal
  <2> QED BY <1>1, <2>1 DEF TypeInv, IndexerInv
<1>8. CASE SendBarrier
  <2> DEFINE op == [type |-> "barrier", ids |-> {}, segment |-> mutable.id]
  <2>1. op \in Op
    BY <1>1 DEF Op, TypeInv, SegmentsInv, MutableRec
  <2>2. /\ writer.pc = "barrier" /\ writer'.pc = "await" /\ indexer' = indexer
        /\ Len(indexerCh) < QueueSize /\ indexerCh' = Append(indexerCh, op)
    BY <1>1, <1>8 DEF SendBarrier, TypeInv, WriterInv, WriterRec
  <2> HIDE DEF op
  <2>4. indexerCh \in Seq(Op) /\ Len(indexerCh) \in Nat /\ ~indexer.barrier
    BY <1>1, <2>2 DEF TypeInv, IndexerInv
  <2>5. \A i \in 1..Len(indexerCh) : indexerCh[i].type # "barrier"
    BY <1>1, <2>2 DEF TypeInv, IndexerInv
  <2>6. indexerCh' \in Seq(Op) /\ Len(indexerCh') <= QueueSize /\ Len(indexerCh') = Len(indexerCh) + 1
    BY <1>1, <2>1, <2>2, <2>4
  <2>7. \A i \in 1..Len(indexerCh') : indexerCh'[i].type = "barrier" => i = Len(indexerCh')
    BY <2>2, <2>4, <2>5, <2>6
  <2> QED BY <1>1, <2>2, <2>4, <2>6, <2>7 DEF TypeInv, IndexerInv
<1>9. CASE PersistSegment
  <2>1. writer.pc # "await" /\ UNCHANGED <<indexerCh, indexer>>
    BY <1>9 DEF PersistSegment
  <2> QED BY <1>1, <2>1 DEF TypeInv, IndexerInv
<1>10. CASE PublishSegment
  <2>1. writer.pc # "await" /\ UNCHANGED <<indexerCh, indexer>>
    BY <1>10 DEF PublishSegment
  <2> QED BY <1>1, <2>1 DEF TypeInv, IndexerInv
<1>11. CASE SwapMutable
  <2>1. writer.pc # "await" /\ UNCHANGED <<indexerCh, indexer>>
    BY <1>11 DEF SwapMutable
  <2> QED BY <1>1, <2>1 DEF TypeInv, IndexerInv
<1>12. CASE ReceiveOp
  <2> DEFINE op == Head(indexerCh)
             ops == Append(indexer.ops, op)
  <2>1. indexer \in IndexerRec /\ indexer.ops \in Seq(Ops) /\ indexer.pc = "idle" /\ ~indexer.barrier
    BY <1>1, <1>12 DEF ReceiveOp, TypeInv, IndexerInv, IndexerRec
  <2>2. /\ indexerCh \in Seq(Op) /\ indexerCh # <<>> /\ indexerCh' = Tail(indexerCh)
        /\ Len(indexerCh) \in Nat \ {0} /\ op \in Op /\ op = indexerCh[1] /\ writer' = writer
    BY <1>1, <1>12 DEF ReceiveOp, TypeInv, IndexerInv
  <2>3. /\ indexerCh' \in Seq(Op) /\ Len(indexerCh') = Len(indexerCh) - 1
        /\ \A i \in 1..Len(indexerCh') : indexerCh'[i] = indexerCh[i + 1]
    BY <2>2
  <2>7. \A i \in 1..Len(indexerCh) :
           indexerCh[i].type = "barrier" => i = Len(indexerCh) /\ writer.pc = "await"
    BY <1>1 DEF TypeInv, IndexerInv
  <2>4. \A i \in 1..Len(indexerCh') :
           indexerCh'[i].type = "barrier" => i = Len(indexerCh') /\ writer'.pc = "await"
    <3>1. SUFFICES ASSUME NEW i \in 1..Len(indexerCh'), indexerCh'[i].type = "barrier"
                   PROVE  i = Len(indexerCh') /\ writer.pc = "await"
      BY <2>2
    <3>2. i + 1 \in 1..Len(indexerCh) /\ indexerCh'[i] = indexerCh[i + 1]
      BY <2>2, <2>3
    <3>3. i + 1 = Len(indexerCh) /\ writer.pc = "await"
      BY <2>7, <3>1, <3>2
    <3>4. Len(indexerCh') = Len(indexerCh) - 1 /\ Len(indexerCh) \in Nat /\ i \in Nat
      BY <2>2, <2>3
    <3> QED BY ONLY <3>3, <3>4
  <2>5. CASE op.type = "barrier"
    <3>1. indexer' = [pc |-> "flush", ops |-> indexer.ops, barrier |-> TRUE,
                      vectors |-> indexer.vectors]
      BY <1>12, <2>1, <2>5 DEF ReceiveOp, IndexerRec
    <3>2. writer.pc = "await" /\ Len(indexerCh) = 1
      <4>1. 1 \in 1..Len(indexerCh) /\ indexerCh[1].type = "barrier"
        BY <2>2, <2>5
      <4> QED BY <2>7, <4>1
    <3>3. indexerCh' = <<>>
      BY <2>3, <3>2
    <3>4. indexer' \in IndexerRec
      BY <2>1, <3>1 DEF IndexerRec
    <3>5. Len(indexer'.ops) <= BatchSize /\ Len(indexerCh') <= QueueSize
      BY <1>1, <2>2, <2>3, <3>1, <3>2 DEF TypeInv, IndexerInv
    <3> HIDE DEF op
    <3> QED BY <2>2, <2>3, <2>4, <3>1, <3>2, <3>3, <3>4, <3>5 DEF IndexerInv
  <2>6. CASE op.type # "barrier"
    <3>1. indexer' = [pc |-> IF Len(ops) >= BatchSize THEN "flush" ELSE "idle", ops |-> ops,
                      barrier |-> indexer.barrier, vectors |-> indexer.vectors]
      BY <1>12, <2>1, <2>6 DEF ReceiveOp, IndexerRec
    <3>2. op \in Ops
      BY <2>2, <2>6 DEF Op, Ops
    <3> HIDE DEF op
    <3>3. ops \in Seq(Ops) /\ Len(ops) = Len(indexer.ops) + 1 /\ ops # <<>>
      BY <2>1, <3>2
    <3>4. Len(indexer.ops) \in Nat /\ Len(indexer.ops) < BatchSize
      BY <1>1, <2>1 DEF TypeInv, IndexerInv
    <3> HIDE DEF ops
    <3>5. indexer' \in IndexerRec
      BY <2>1, <3>1, <3>3 DEF IndexerRec
    <3> QED BY <1>1, <2>1, <2>2, <2>3, <2>4, <3>1, <3>3, <3>4, <3>5 DEF TypeInv, IndexerInv
  <2> QED BY <2>5, <2>6
<1>13. CASE FlushTimer
  <2>1. /\ indexer' = [pc |-> "flush", ops |-> indexer.ops, barrier |-> indexer.barrier,
                       vectors |-> indexer.vectors]
        /\ UNCHANGED <<indexerCh, writer>>
    BY <1>1, <1>13 DEF FlushTimer, TypeInv, IndexerInv, IndexerRec
  <2> QED BY <1>1, <2>1 DEF TypeInv, IndexerInv, IndexerRec
<1>14. CASE StartOp
  <2>1. /\ indexer \in IndexerRec /\ indexer.ops \in Seq(Ops) /\ indexer.ops # <<>>
        /\ indexer.pc = "flush" /\ UNCHANGED <<indexerCh, writer>>
    BY <1>1, <1>14 DEF StartOp, TypeInv, IndexerInv, IndexerRec
  <2>2. Tail(indexer.ops) \in Seq(Ops) /\ Len(Tail(indexer.ops)) <= Len(indexer.ops)
    BY <2>1
  <2>3. LoadVectors(Head(indexer.ops).ids) \in Vectors
    BY <1>1, LoadVectorsType DEF TypeInv, StoreInv
  <2>4. \/ indexer' = [pc |-> "apply", ops |-> indexer.ops, barrier |-> indexer.barrier,
                       vectors |-> LoadVectors(Head(indexer.ops).ids)]
        \/ indexer' = [pc |-> "flush", ops |-> Tail(indexer.ops), barrier |-> indexer.barrier,
                       vectors |-> indexer.vectors]
    BY <1>14, <2>1 DEF StartOp, IndexerRec
  <2>5. indexer' \in IndexerRec
    BY <2>1, <2>2, <2>3, <2>4, SMTT(30) DEF IndexerRec
  <2>6. Len(indexer'.ops) <= BatchSize
    BY <1>1, <2>1, <2>2, <2>4 DEF TypeInv, IndexerInv
  <2> QED BY <1>1, <2>1, <2>4, <2>5, <2>6 DEF TypeInv, IndexerInv
<1>15. CASE ApplyVectors
  <2>1. /\ indexer \in IndexerRec /\ indexer.ops \in Seq(Ops) /\ indexer.ops # <<>>
        /\ UNCHANGED <<indexerCh, writer>>
    BY <1>1, <1>15 DEF ApplyVectors, TypeInv, IndexerInv, IndexerRec
  <2>2. Tail(indexer.ops) \in Seq(Ops) /\ Len(Tail(indexer.ops)) <= Len(indexer.ops)
    BY <2>1
  <2>3. NoDocs \in Vectors
    BY DEF NoDocs, Vectors
  <2>4. indexer' = [pc |-> "flush", ops |-> Tail(indexer.ops), barrier |-> indexer.barrier,
                    vectors |-> NoDocs]
    BY <1>15, <2>1 DEF ApplyVectors, IndexerRec
  <2>5. indexer' \in IndexerRec
    BY <2>1, <2>2, <2>3, <2>4 DEF IndexerRec
  <2>6. Len(indexer'.ops) <= BatchSize
    BY <1>1, <2>1, <2>2, <2>4 DEF TypeInv, IndexerInv
  <2> QED BY <1>1, <2>1, <2>4, <2>5, <2>6 DEF TypeInv, IndexerInv
<1>16. CASE FlushDone
  <2>1. indexer' = IdleIndexer /\ indexerCh' = indexerCh
    BY <1>16 DEF FlushDone
  <2>2. IdleIndexer \in IndexerRec
    BY DEF IdleIndexer, IndexerRec, NoDocs, Vectors
  <2>3. CASE ~indexer.barrier
    <3>1. writer' = writer
      BY <1>16, <2>3 DEF FlushDone
    <3> QED BY <1>1, <2>1, <2>2, <3>1 DEF TypeInv, IndexerInv, IdleIndexer
  <2>4. CASE indexer.barrier
    BY <1>1, <2>1, <2>2, <2>4 DEF TypeInv, IndexerInv, IdleIndexer
  <2> QED BY <2>3, <2>4
<1>17. CASE Restart
  BY <1>1, <1>17 DEF Restart, TypeInv, IndexerInv, IdleIndexer, IndexerRec, NoDocs, Vectors
<1> QED
  BY <1>1, <1>2, <1>3, <1>4, <1>5, <1>6, <1>7, <1>8, <1>9, <1>10, <1>11, <1>12, <1>13, <1>14,
     <1>15, <1>16, <1>17 DEF SegNext, WriterStep, IndexerStep, CompactionStep, SearchStep,
     segVars, logVars, storeVars, managerVars, SegmentAges, StartCompaction, MergeSegments,
     RemoveFiles, SaveCompaction, LoadCompacted, UnloadCompacted, StartSearch, PickMutable,
     SearchMutable, SearchImmutables, EndSearch

\* A search keeps its shape.
LEMMA SearchTypeStep ==
    TypeInv /\ [SegNext]_segVars => (search \in SearchRec)'
<1>1. SUFFICES ASSUME TypeInv, [SegNext]_segVars PROVE (search \in SearchRec)'
  OBVIOUS
<1> USE SegmentAssumption
<1>2. CASE UNCHANGED <<search>>
  BY <1>1, <1>2 DEF TypeInv
<1>3. CASE StoreEntry
  <2>1. PICK cmd \in Commands :
          \/ search' = search
          \/ search' = [search EXCEPT !.expected = @ \ cmd.ids]
          \/ search' = [search EXCEPT !.deleted = @ \ cmd.ids]
    <3>1. \E cmd \in Commands :
            \/ search' = [search EXCEPT !.expected = IF cmd.type = "delete" THEN @ \ cmd.ids ELSE @]
            \/ search' = IF cmd.type = "delete" THEN [search EXCEPT !.expected = @ \ cmd.ids]
                         ELSE [search EXCEPT !.deleted = @ \ cmd.ids]
      BY <1>3 DEF StoreEntry
    <3> QED BY <1>1, <3>1 DEF TypeInv, SearchRec
  <2> QED BY <1>1, <2>1 DEF TypeInv, SearchRec
<1>4. CASE StartSearch
  <2>1. Searchable \subseteq DocIDs /\ Deleted \subseteq DocIDs /\ tombstones \subseteq DocIDs
    BY <1>1 DEF Searchable, Deleted, TypeInv, StoreInv
  <2>2. search' = [pc |-> "segment", tombstones |-> tombstones, segment |-> 0, found |-> {},
                   retried |-> FALSE, expected |-> Searchable, deleted |-> Deleted]
    BY <1>4 DEF StartSearch, NoSearch
  <2> QED BY <2>1, <2>2 DEF SearchRec
<1>5. CASE PickMutable
  <2>1. mutable.id \in 0..MaxSegmentID
    BY <1>1 DEF TypeInv, SegmentsInv, MutableRec, SegmentIDs
  <2> QED BY <1>1, <1>5, <2>1 DEF PickMutable, TypeInv, SearchRec
<1>6. CASE SearchMutable
  <2>1. \A f : Docs(f) \subseteq DocIDs
    BY DEF Docs
  <2> QED BY <1>1, <1>6, <2>1 DEF SearchMutable, TypeInv, SearchRec
<1>7. CASE SearchImmutables
  <2> DEFINE found == (search.found \cup UNION {Docs(payload[s].index) : s \in immutables})
                      \ search.tombstones
  <2>1. found \subseteq DocIDs
    BY <1>1 DEF Docs, TypeInv, SearchRec
  <2>2. \/ search' = [search EXCEPT !.pc = "segment", !.retried = TRUE]
        \/ search' = [search EXCEPT !.pc = "done", !.found = found]
    BY <1>7 DEF SearchImmutables
  <2> HIDE DEF found
  <2> QED BY <1>1, <2>1, <2>2, ZenonT(60) DEF TypeInv, SearchRec
<1>8. CASE EndSearch
  BY <1>8 DEF EndSearch, NoSearch, SearchRec
<1>9. CASE Restart
  BY <1>9 DEF Restart, NoSearch, SearchRec
<1> QED
  BY <1>1, <1>2, <1>3, <1>4, <1>5, <1>6, <1>7, <1>8, <1>9 DEF SegNext, WriterStep, IndexerStep,
     CompactionStep, SearchStep, segVars, logVars, storeVars, managerVars, IndexEntry,
     WriteTombstone, CheckThresholds, LockForSeal, SendBarrier, PersistSegment, PublishSegment,
     SwapMutable, SegmentAges, ReceiveOp, FlushTimer, StartOp, ApplyVectors, FlushDone,
     StartCompaction, MergeSegments, RemoveFiles, SaveCompaction, LoadCompacted, UnloadCompacted

LEMMA TypeStep == TypeInv /\ [SegNext]_segVars => TypeInv'
BY WriterInvStep, LockInvStep, SegmentsInvStep, StoreInvStep, IndexerInvStep, SearchTypeStep
   DEF TypeInv

LEMMA TypeInvariant == SegSpec => []TypeInv
BY TypeInit, TypeStep, PTL DEF SegSpec

\* The type invariant of the index: the queue of the indexer never exceeds its capacity
\* nor its batch the batch size, manifests list created segments, and ShardIndexManager.mu
\* is held exactly by the seal or the compaction that is past taking it.
THEOREM SegmentsWellFormed == SegSpec => []SegTypeOK
<1>1. TypeInv => SegTypeOK
  <2>1. SUFFICES ASSUME TypeInv PROVE SegTypeOK
    OBVIOUS
  <2>2. indexer.ops \in Seq(Op) /\ Len(indexer.ops) <= BatchSize
    <3>1. Ops \subseteq Op
      BY DEF Ops, Op
    <3> QED BY <2>1, <3>1 DEF TypeInv, IndexerInv, IndexerRec
  <2> QED BY <2>1, <2>2 DEF TypeInv, WriterInv, LockInv, SegmentsInv, StoreInv, IndexerInv,
                           MutableRec, SegTypeOK
<1> QED BY <1>1, TypeInvariant, PTL

-------------------------------------------------------------------------------
(* Deleted documents.                                                      *)

LEMMA TombstonesInit == SegInit => TombstonesInv
BY DEF SegInit, TombstonesInv, NoSearch

\* Every deletion that has returned has its tombstones, and a search reads them before it
\* answers: whatever was deleted when it began is filtered.
LEMMA TombstonesStep ==
    TypeInv /\ TombstonesInv /\ [SegNext]_segVars => TombstonesInv'
<1>1. SUFFICES ASSUME TypeInv /\ TombstonesInv, [SegNext]_segVars PROVE TombstonesInv'
  OBVIOUS
<1>2. CASE UNCHANGED <<tombstones, savedTombstones, acked, log, search>>
  BY <1>1, <1>2 DEF TombstonesInv
<1>3. CASE StoreEntry
  <2>1. \/ log' = log
        \/ \E cmd \in Commands : log' = Append(log, cmd)
    BY <1>3 DEF StoreEntry
  <2>2. \A n \in 1..acked : log'[n] = log[n]
    <3>1. log \in Seq(Commands) /\ acked \in Nat /\ acked <= Len(log)
      BY <1>1 DEF TypeInv, WriterInv
    <3> QED BY <2>1, <3>1
  <2>3. /\ search'.deleted \subseteq search.deleted /\ search'.tombstones = search.tombstones
        /\ search'.pc = search.pc /\ search'.found = search.found
    <3>1. \E cmd \in Commands :
            \/ search' = [search EXCEPT !.expected = IF cmd.type = "delete" THEN @ \ cmd.ids ELSE @]
            \/ search' = IF cmd.type = "delete" THEN [search EXCEPT !.expected = @ \ cmd.ids]
                         ELSE [search EXCEPT !.deleted = @ \ cmd.ids]
      BY <1>3 DEF StoreEntry
    <3> QED BY <1>1, <3>1 DEF TypeInv, SearchRec
  <2>4. UNCHANGED <<acked, tombstones, savedTombstones>>
    BY <1>3 DEF StoreEntry, managerVars
  <2> QED BY <1>1, <2>2, <2>3, <2>4 DEF TombstonesInv
<1>4. CASE WriteTombstone
  <2>1. writer.cmd = log[applied + 1] /\ applied \in Nat /\ acked \in Nat /\ applied <= acked
    BY <1>1, <1>4 DEF WriteTombstone, TypeInv, WriterInv
  <2>2. acked' \in {acked, applied + 1}
    BY <1>4 DEF WriteTombstone, Returns
  <2>3. \A n \in 1..acked' : n \in 1..acked \/ n = applied + 1
    BY <2>1, <2>2
  <2>4. /\ tombstones' = tombstones \cup writer.cmd.ids /\ savedTombstones' = savedTombstones \cup writer.cmd.ids
        /\ UNCHANGED <<log, search>>
    BY <1>4 DEF WriteTombstone
  <2> QED BY <1>1, <2>1, <2>3, <2>4 DEF TombstonesInv
<1>5. CASE CheckThresholds
  <2>1. writer.cmd.type = "store" /\ writer.cmd = log[applied + 1] /\ applied \in Nat /\ acked \in Nat
    BY <1>1, <1>5 DEF CheckThresholds, TypeInv, WriterInv
  <2>2. acked' \in {acked, applied + 1}
    BY <1>5, <2>1 DEF CheckThresholds, Returns
  <2>3. applied <= acked
    BY <1>1 DEF TypeInv, WriterInv
  <2>4. \A n \in 1..acked' : n \in 1..acked \/ n = applied + 1
    BY <2>1, <2>2, <2>3
  <2>5. UNCHANGED <<log, tombstones, savedTombstones, search>>
    BY <1>5 DEF CheckThresholds, storeVars, managerVars
  <2> QED BY <1>1, <2>1, <2>4, <2>5 DEF TombstonesInv
<1>6. CASE LockForSeal
  <2>1. writer.cmd.type = "store" /\ writer.cmd = log[applied + 1] /\ applied \in Nat /\ acked \in Nat
    BY <1>1, <1>6 DEF LockForSeal, TypeInv, WriterInv
  <2>2. acked' \in {acked, applied + 1}
    BY <1>6, <2>1 DEF LockForSeal, Returns
  <2>3. applied <= acked
    BY <1>1 DEF TypeInv, WriterInv
  <2>4. \A n \in 1..acked' : n \in 1..acked \/ n = applied + 1
    BY <2>1, <2>2, <2>3
  <2>5. UNCHANGED <<log, tombstones, savedTombstones, search>>
    BY <1>6 DEF LockForSeal, storeVars, managerVars
  <2> QED BY <1>1, <2>1, <2>4, <2>5 DEF TombstonesInv
<1>7. CASE SwapMutable
  <2>1. writer.cmd.type = "store" /\ writer.cmd = log[applied + 1] /\ applied \in Nat /\ acked \in Nat
    BY <1>1, <1>7 DEF SwapMutable, TypeInv, WriterInv
  <2>2. acked' \in {acked, applied + 1}
    BY <1>7, <2>1 DEF SwapMutable, Returns
  <2>3. applied <= acked
    BY <1>1 DEF TypeInv, WriterInv
  <2>4. \A n \in 1..acked' : n \in 1..acked \/ n = applied + 1
    BY <2>1, <2>2, <2>3
  <2>5. UNCHANGED <<log, tombstones, savedTombstones, search>>
    BY <1>7 DEF SwapMutable, storeVars, managerVars
  <2> QED BY <1>1, <2>1, <2>4, <2>5 DEF TombstonesInv
<1>8. CASE StartSearch
  <2>1. Deleted \subseteq tombstones
    BY <1>1 DEF Deleted, TombstonesInv
  <2>2. search' = [pc |-> "segment", tombstones |-> tombstones, segment |-> 0, found |-> {},
                   retried |-> FALSE, expected |-> Searchable, deleted |-> Deleted]
    BY <1>8 DEF StartSearch, NoSearch
  <2>3. UNCHANGED <<log, acked, tombstones, savedTombstones>>
    BY <1>8 DEF StartSearch, logVars, storeVars, managerVars
  <2> QED BY <1>1, <2>1, <2>2, <2>3 DEF TombstonesInv
<1>9. CASE PickMutable
  BY <1>1, <1>9 DEF PickMutable, TombstonesInv, TypeInv, SearchRec, logVars, storeVars,
     managerVars
<1>10. CASE SearchMutable
  BY <1>1, <1>10 DEF SearchMutable, TombstonesInv, TypeInv, SearchRec, logVars, storeVars,
     managerVars
<1>11. CASE SearchImmutables
  <2> DEFINE found == (search.found \cup UNION {Docs(payload[s].index) : s \in immutables})
                      \ search.tombstones
  <2>1. found \cap search.tombstones = {}
    OBVIOUS
  <2>2. \/ search' = [search EXCEPT !.pc = "segment", !.retried = TRUE]
        \/ search' = [search EXCEPT !.pc = "done", !.found = found]
    BY <1>11 DEF SearchImmutables
  <2>3. UNCHANGED <<log, acked, tombstones, savedTombstones>>
    BY <1>11 DEF SearchImmutables, logVars, storeVars, managerVars
  <2> HIDE DEF found
  <2> QED BY <1>1, <2>1, <2>2, <2>3 DEF TombstonesInv, TypeInv, SearchRec
<1>12. CASE EndSearch
  BY <1>1, <1>12 DEF EndSearch, NoSearch, TombstonesInv, logVars, storeVars, managerVars
<1>13. CASE Restart
  BY <1>1, <1>13 DEF Restart, NoSearch, TombstonesInv, storeVars
<1> QED
  BY <1>1, <1>2, <1>3, <1>4, <1>5, <1>6, <1>7, <1>8, <1>9, <1>10, <1>11, <1>12, <1>13 DEF SegNext,
     WriterStep, IndexerStep, CompactionStep, SearchStep, segVars, logVars, storeVars,
     managerVars, IndexEntry, SendBarrier, PersistSegment, PublishSegment, SegmentAges, ReceiveOp,
     FlushTimer, StartOp, ApplyVectors, FlushDone, StartCompaction, MergeSegments, RemoveFiles,
     SaveCompaction, LoadCompacted, UnloadCompacted

LEMMA TombstonesInvariant == SegSpec => []TombstonesInv
BY TypeInvariant, TombstonesInit, TombstonesStep, PTL DEF SegSpec

\* No search answers with a document whose deletion had returned when the search began and
\* that was not stored since, for any interleaving of writer, indexer, seals, compactions
\* and searches, and across crashes after which the log is applied again from its start.
THEOREM DeletedStaysDeleted == SegSpec => []DeletedNotFound
<1>1. TombstonesInv => DeletedNotFound
  BY DEF TombstonesInv, DeletedNotFound
<1> QED BY <1>1, TombstonesInvariant, PTL

-------------------------------------------------------------------------------
(* What is queued for the indexer.                                         *)

LEMMA RangeAppend ==
    ASSUME NEW S, NEW s \in Seq(S), NEW x
    PROVE  Range(Append(s, x)) = Range(s) \cup {x}
<1>1. Len(s) \in Nat /\ DOMAIN s = 1..Len(s) /\ DOMAIN Append(s, x) = 1..(Len(s) + 1)
  OBVIOUS
<1>2. Append(s, x)[Len(s) + 1] = x /\ \A i \in 1..Len(s) : Append(s, x)[i] = s[i]
  OBVIOUS
<1> QED BY <1>1, <1>2 DEF Range

LEMMA RangeTail ==
    ASSUME NEW S, NEW s \in Seq(S), s # <<>>
    PROVE  Range(s) = Range(Tail(s)) \cup {Head(s)} /\ Head(s) \in S
<1>1. /\ Len(s) \in Nat \ {0} /\ DOMAIN s = 1..Len(s) /\ DOMAIN Tail(s) = 1..(Len(s) - 1)
      /\ Head(s) = s[1] /\ s[1] \in S
  OBVIOUS
<1>2. \A i \in 1..(Len(s) - 1) : Tail(s)[i] = s[i + 1]
  OBVIOUS
<1>3. ASSUME NEW i \in 2..Len(s) PROVE s[i] = Tail(s)[i - 1] /\ i - 1 \in 1..(Len(s) - 1)
  BY <1>1, <1>2
<1>4. \A i \in 1..Len(s) : i = 1 \/ i \in 2..Len(s)
  BY <1>1
<1>5. Range(Tail(s)) \subseteq Range(s)
  BY <1>1, <1>2 DEF Range
<1>6. Range(s) \subseteq Range(Tail(s)) \cup {Head(s)}
  BY <1>1, <1>3, <1>4 DEF Range
<1>7. Head(s) \in Range(s)
  BY <1>1 DEF Range
<1> QED BY <1>1, <1>5, <1>6, <1>7

LEMMA RangeEmpty == Range(<<>>) = {}
BY DEF Range

LEMMA QueuedType == TypeInv => QueuedOps \subseteq Op
<1>1. SUFFICES ASSUME TypeInv PROVE QueuedOps \subseteq Op
  OBVIOUS
<1>2. indexerCh \in Seq(Op) /\ indexer.ops \in Seq(Ops) /\ Ops \subseteq Op
  BY <1>1 DEF TypeInv, IndexerInv, IndexerRec, Op, Ops
<1> QED BY <1>2 DEF QueuedOps, Range

\* The operation an entry becomes.
EntryOp == [type |-> writer.cmd.type, ids |-> writer.cmd.ids, segment |-> mutable.id]

\* It is queued, or applied at once.
LEMMA EntryQueued ==
    ASSUME TypeInv, IndexEntry
    PROVE  \/ asyncIndex /\ mutable' = mutable /\ QueuedOps' = QueuedOps \cup {EntryOp}
           \/ mutable' = AppliedNow(EntryOp) /\ QueuedOps' = QueuedOps
<1>1. indexer' = indexer /\ indexerCh \in Seq(Op)
  BY DEF IndexEntry, TypeInv, IndexerInv
<1>2. \/ asyncIndex /\ mutable' = mutable /\ indexerCh' = Append(indexerCh, EntryOp)
      \/ mutable' = AppliedNow(EntryOp) /\ indexerCh' = indexerCh
  BY DEF IndexEntry, EntryOp
<1>3. Range(Append(indexerCh, EntryOp)) = Range(indexerCh) \cup {EntryOp}
  BY <1>1, RangeAppend
<1> QED BY <1>1, <1>2, <1>3 DEF QueuedOps

LEMMA BarrierQueued ==
    ASSUME TypeInv, SendBarrier
    PROVE  QueuedOps' = QueuedOps \cup {[type |-> "barrier", ids |-> {}, segment |-> mutable.id]}
<1>1. indexer' = indexer /\ indexerCh \in Seq(Op)
  BY DEF SendBarrier, TypeInv, IndexerInv
<1> DEFINE op == [type |-> "barrier", ids |-> {}, segment |-> mutable.id]
<1>2. indexerCh' = Append(indexerCh, op)
  BY DEF SendBarrier
<1> HIDE DEF op
<1>3. Range(Append(indexerCh, op)) = Range(indexerCh) \cup {op}
  BY <1>1, RangeAppend
<1>4. QueuedOps' = QueuedOps \cup {op}
  BY <1>1, <1>2, <1>3 DEF QueuedOps
<1> QED BY <1>4 DEF op

\* What the indexer receives stays queued, but a barrier.
LEMMA ReceivedQueued ==
    ASSUME TypeInv, ReceiveOp
    PROVE  /\ QueuedOps' \subseteq QueuedOps
           /\ \A op \in QueuedOps : op.type # "barrier" => op \in QueuedOps'
<1> DEFINE op == Head(indexerCh)
<1>1. /\ indexer \in IndexerRec /\ indexer.ops \in Seq(Ops) /\ indexerCh \in Seq(Op)
      /\ indexerCh # <<>> /\ indexerCh' = Tail(indexerCh)
  BY DEF ReceiveOp, TypeInv, IndexerInv, IndexerRec
<1>2. Range(indexerCh) = Range(indexerCh') \cup {op}
  BY <1>1, RangeTail
<1>3. \/ op.type = "barrier" /\ indexer'.ops = indexer.ops
      \/ indexer'.ops = Append(indexer.ops, op)
  BY <1>1 DEF ReceiveOp, IndexerRec
<1>4. Range(Append(indexer.ops, op)) = Range(indexer.ops) \cup {op}
  BY <1>1, RangeAppend
<1> HIDE DEF op
<1> QED BY <1>2, <1>3, <1>4 DEF QueuedOps

\* The first operation of the batch is the one the indexer is busy with.
LEMMA FirstQueued ==
    ASSUME TypeInv, indexer.ops # <<>>
    PROVE  /\ Head(indexer.ops) \in QueuedOps /\ Head(indexer.ops) \in Ops
           /\ QueuedOps = Range(indexerCh) \cup Range(Tail(indexer.ops)) \cup {Head(indexer.ops)}
<1>1. indexer.ops \in Seq(Ops)
  BY DEF TypeInv, IndexerInv, IndexerRec
<1> QED BY <1>1, RangeTail DEF QueuedOps

\* A deletion, which is the only other thing the indexer applies.
LEMMA OpStarted ==
    ASSUME TypeInv, SealInv, StartOp
    PROVE  /\ Head(indexer.ops) \in QueuedOps /\ Head(indexer.ops) \in Ops
           /\ \/ /\ Head(indexer.ops).type = "store" /\ mutable' = mutable /\ QueuedOps' = QueuedOps
                 /\ indexer' = [pc |-> "apply", ops |-> indexer.ops, barrier |-> indexer.barrier,
                                vectors |-> LoadVectors(Head(indexer.ops).ids)]
              \/ /\ Head(indexer.ops).type = "delete"
                 /\ mutable' = Without(mutable, Head(indexer.ops).ids)
                 /\ indexer' = [pc |-> "flush", ops |-> Tail(indexer.ops),
                                barrier |-> indexer.barrier, vectors |-> indexer.vectors]
                 /\ QueuedOps = QueuedOps' \cup {Head(indexer.ops)}
<1> DEFINE op == Head(indexer.ops)
<1>1. indexer \in IndexerRec /\ indexer.ops # <<>> /\ indexerCh' = indexerCh
  BY DEF StartOp, TypeInv, IndexerInv
<1>2. /\ op \in QueuedOps /\ op \in Ops
      /\ QueuedOps = Range(indexerCh) \cup Range(Tail(indexer.ops)) \cup {op}
  BY <1>1, FirstQueued
<1>3. op.segment = mutable.id /\ op.type \in {"store", "delete"}
  BY <1>2 DEF SealInv, Ops
<1>4. CASE op.type = "store"
  <2>1. indexer' = [pc |-> "apply", ops |-> indexer.ops, barrier |-> indexer.barrier,
                    vectors |-> LoadVectors(op.ids)] /\ mutable' = mutable
    BY <1>1, <1>3, <1>4 DEF StartOp, IndexerRec
  <2>2. indexer'.ops = indexer.ops
    BY <2>1
  <2> QED BY <1>1, <1>2, <1>4, <2>1, <2>2 DEF QueuedOps
<1>5. CASE op.type = "delete"
  <2>1. indexer' = [pc |-> "flush", ops |-> Tail(indexer.ops), barrier |-> indexer.barrier,
                    vectors |-> indexer.vectors]
    BY <1>1, <1>3, <1>5 DEF StartOp, IndexerRec
  <2>2. mutable' = Without(mutable, op.ids)
    BY <1>3, <1>5 DEF StartOp, AppliedNow
  <2>3. indexer'.ops = Tail(indexer.ops)
    BY <2>1
  <2>4. QueuedOps = QueuedOps' \cup {op}
    BY <1>1, <1>2, <2>3 DEF QueuedOps
  <2> QED BY <1>2, <1>5, <2>1, <2>2, <2>4
<1> QED BY <1>3, <1>4, <1>5

LEMMA VectorsApplied ==
    ASSUME TypeInv, ApplyVectors
    PROVE  /\ Head(indexer.ops) \in QueuedOps /\ Head(indexer.ops) \in Ops
           /\ QueuedOps = QueuedOps' \cup {Head(indexer.ops)}
           /\ indexer' = [pc |-> "flush", ops |-> Tail(indexer.ops), barrier |-> indexer.barrier,
                          vectors |-> NoDocs]
<1>1. indexer \in IndexerRec /\ indexer.pc = "apply" /\ indexer.ops # <<>> /\ indexerCh' = indexerCh
  BY DEF ApplyVectors, TypeInv, IndexerInv
<1>2. indexer' = [pc |-> "flush", ops |-> Tail(indexer.ops), barrier |-> indexer.barrier,
                  vectors |-> NoDocs]
  BY <1>1 DEF ApplyVectors, IndexerRec
<1>3. indexer'.ops = Tail(indexer.ops)
  BY <1>2
<1> QED BY <1>1, <1>2, <1>3, FirstQueued DEF QueuedOps

LEMMA BatchDone ==
    ASSUME TypeInv, FlushDone
    PROVE  QueuedOps' = QueuedOps
<1>1. indexer.ops = <<>> /\ indexer'.ops = <<>> /\ indexerCh' = indexerCh
  BY DEF FlushDone, IdleIndexer
<1> QED BY <1>1 DEF QueuedOps

LEMMA NothingQueued == Restart => QueuedOps' = {}
<1>1. Restart => indexer'.ops = <<>> /\ indexerCh' = <<>>
  BY DEF Restart, IdleIndexer
<1> QED BY <1>1, RangeEmpty DEF QueuedOps

-------------------------------------------------------------------------------
(* Nothing stored gets lost: the steps.                                    *)

LossHyp == TypeInv /\ TombstonesInv /\ LossInv /\ FewSegments /\ FewSegments'

\* Only a restart takes a deletion back, one that has not returned.
LEMMA KeptStep ==
    TypeInv /\ [SegNext]_segVars /\ ~Restart => Kept' \subseteq Kept
<1>1. SUFFICES ASSUME TypeInv, [SegNext]_segVars, ~Restart PROVE Kept' \subseteq Kept
  OBVIOUS
<1>2. CASE UNCHANGED <<writer, tombstones>>
  BY <1>2 DEF Kept, Deleting
<1>3. CASE StoreEntry
  <2>1. writer.pc = "idle" /\ tombstones' = tombstones
    BY <1>3 DEF StoreEntry, managerVars
  <2> QED BY <2>1 DEF Kept, Deleting
<1>4. CASE IndexEntry
  BY <1>1, <1>4 DEF IndexEntry, Kept, Deleting, TypeInv, WriterInv, WriterRec, logVars
<1>5. CASE WriteTombstone
  <2>1. /\ writer.pc = "tombstone" /\ writer.cmd.type = "delete" /\ writer'.pc = "idle"
        /\ tombstones' = tombstones \cup writer.cmd.ids
    BY <1>1, <1>5 DEF WriteTombstone, Returns, IdleWriter, TypeInv, WriterInv
  <2> QED BY <2>1 DEF Kept, Deleting
<1>6. CASE CheckThresholds
  BY <1>1, <1>6 DEF CheckThresholds, Kept, Deleting, TypeInv, WriterInv, WriterRec, Returns,
     IdleWriter, managerVars
<1>7. CASE LockForSeal
  BY <1>1, <1>7 DEF LockForSeal, Kept, Deleting, TypeInv, WriterInv, WriterRec, Returns,
     IdleWriter
<1>8. CASE SendBarrier
  BY <1>1, <1>8 DEF SendBarrier, Kept, Deleting, TypeInv, WriterInv, WriterRec, managerVars
<1>9. CASE PersistSegment
  BY <1>1, <1>9 DEF PersistSegment, Kept, Deleting, TypeInv, WriterInv, WriterRec, storeVars
<1>10. CASE PublishSegment
  BY <1>1, <1>10 DEF PublishSegment, Kept, Deleting, TypeInv, WriterInv, WriterRec, storeVars
<1>11. CASE SwapMutable
  BY <1>1, <1>11 DEF SwapMutable, Kept, Deleting, TypeInv, WriterInv, WriterRec, Returns,
     IdleWriter
<1>12. CASE FlushDone
  BY <1>1, <1>12 DEF FlushDone, Kept, Deleting, TypeInv, WriterInv, WriterRec, managerVars,
     IndexerInv
<1> QED
  BY <1>1, <1>2, <1>3, <1>4, <1>5, <1>6, <1>7, <1>8, <1>9, <1>10, <1>11, <1>12 DEF SegNext,
     WriterStep, IndexerStep, CompactionStep, SearchStep, segVars, logVars, storeVars,
     managerVars, SegmentAges, ReceiveOp, FlushTimer, StartOp, ApplyVectors, StartCompaction,
     MergeSegments, RemoveFiles, SaveCompaction, LoadCompacted, UnloadCompacted, StartSearch,
     PickMutable, SearchMutable, SearchImmutables, EndSearch

\* A seal waits for the indexer to be done with the segment.
LEMMA SealInvStep ==
    LossHyp /\ [SegNext]_segVars => SealInv'
<1>1. SUFFICES ASSUME LossHyp, [SegNext]_segVars PROVE SealInv'
  OBVIOUS
<1>2. CASE UNCHANGED <<asyncIndex, indexerCh, indexer, writer, mutable, payload>>
  BY <1>1, <1>2 DEF LossHyp, LossInv, SealInv, QueuedOps
<1>3. CASE StoreEntry
  <2>1. /\ UNCHANGED <<asyncIndex, indexerCh, indexer, mutable, payload>>
        /\ writer'.pc \notin {"persist", "publish", "swap"}
    BY <1>1, <1>3 DEF StoreEntry, LossHyp, TypeInv, WriterInv, WriterRec, Returns, IdleWriter,
       logVars, storeVars, managerVars
  <2> QED BY <1>1, <2>1 DEF LossHyp, LossInv, SealInv, QueuedOps
<1>4. CASE IndexEntry
  <2>1. UNCHANGED <<asyncIndex, indexer, payload>> /\ writer.pc = "index"
    BY <1>4 DEF IndexEntry, logVars, storeVars
  <2>2. writer'.pc \notin {"persist", "publish", "swap"}
    BY <1>1, <1>4 DEF IndexEntry, LossHyp, TypeInv, WriterInv, WriterRec
  <2>3. /\ mutable'.id = mutable.id /\ EntryOp.segment = mutable.id
        /\ QueuedOps' \subseteq QueuedOps \cup {EntryOp}
    BY <1>1, <1>4, EntryQueued, AppliedNowType, SegmentAssumption
       DEF LossHyp, TypeInv, StoreInv, SegmentsInv, EntryOp
  <2>4. ~asyncIndex => indexerCh' = indexerCh
    BY <1>4 DEF IndexEntry
  <2> QED BY <1>1, <2>1, <2>2, <2>3, <2>4 DEF LossHyp, LossInv, SealInv
<1>5. CASE WriteTombstone
  <2>1. /\ UNCHANGED <<asyncIndex, indexerCh, indexer, mutable, payload>>
        /\ writer'.pc \notin {"persist", "publish", "swap"}
    BY <1>1, <1>5 DEF WriteTombstone, LossHyp, TypeInv, WriterInv, WriterRec, Returns, IdleWriter,
       logVars, storeVars, managerVars
  <2> QED BY <1>1, <2>1 DEF LossHyp, LossInv, SealInv, QueuedOps
<1>6. CASE CheckThresholds
  <2>1. /\ UNCHANGED <<asyncIndex, indexerCh, indexer, mutable, payload>>
        /\ writer'.pc \notin {"persist", "publish", "swap"}
    BY <1>1, <1>6 DEF CheckThresholds, LossHyp, TypeInv, WriterInv, WriterRec, Returns,
       IdleWriter, logVars, storeVars, managerVars
  <2> QED BY <1>1, <2>1 DEF LossHyp, LossInv, SealInv, QueuedOps
<1>7. CASE LockForSeal
  <2>1. UNCHANGED <<asyncIndex, indexerCh, indexer, mutable, payload>>
    BY <1>7 DEF LockForSeal, storeVars
  <2>2. writer'.pc \notin {"publish", "swap"} /\ (writer'.pc = "persist" => ~asyncIndex)
    BY <1>1, <1>7 DEF LockForSeal, Returns, IdleWriter, LossHyp, TypeInv, WriterInv, WriterRec
  <2> QED BY <1>1, <2>1, <2>2 DEF LossHyp, LossInv, SealInv, QueuedOps
<1>8. CASE SendBarrier
  <2>1. UNCHANGED <<asyncIndex, indexer, mutable, payload>> /\ asyncIndex
    BY <1>1, <1>8 DEF SendBarrier, logVars, storeVars, managerVars, LossHyp, TypeInv, LockInv
  <2>2. writer'.pc \notin {"persist", "publish", "swap"}
    BY <1>1, <1>8 DEF SendBarrier, LossHyp, TypeInv, WriterInv, WriterRec
  <2>3. \A op \in QueuedOps' : op.segment = mutable.id
    BY <1>1, <1>8, BarrierQueued DEF LossHyp, LossInv, SealInv
  <2> QED BY <1>1, <2>1, <2>2, <2>3 DEF LossHyp, LossInv, SealInv
<1>9. CASE PersistSegment
  <2>1. UNCHANGED <<asyncIndex, indexerCh, indexer, mutable>> /\ writer.pc = "persist"
    BY <1>9 DEF PersistSegment, logVars
  <2>2. payload'[mutable.id].index = mutable.docs
    BY <1>1, <1>9 DEF PersistSegment, LossHyp, TypeInv, SegmentsInv, MutableRec
  <2> QED BY <1>1, <2>1, <2>2 DEF LossHyp, LossInv, SealInv, QueuedOps
<1>10. CASE PublishSegment
  <2>1. UNCHANGED <<asyncIndex, indexerCh, indexer, mutable, payload>> /\ writer.pc = "publish"
    BY <1>10 DEF PublishSegment, logVars, storeVars
  <2> QED BY <1>1, <2>1 DEF LossHyp, LossInv, SealInv, QueuedOps
<1>11. CASE SwapMutable
  <2>1. UNCHANGED <<asyncIndex, indexerCh, indexer, payload>> /\ writer.pc = "swap" /\ writer'.pc = "idle"
    BY <1>11 DEF SwapMutable, Returns, IdleWriter
  <2>2. QueuedOps' = {}
    BY <1>1, <2>1, RangeEmpty DEF LossHyp, LossInv, SealInv, QueuedOps
  <2> QED BY <1>1, <2>1, <2>2 DEF LossHyp, LossInv, SealInv
<1>12. CASE SegmentAges
  <2>1. mutable'.id = mutable.id /\ mutable'.docs = mutable.docs
    BY <1>1, <1>12 DEF SegmentAges, LossHyp, TypeInv, SegmentsInv, MutableRec
  <2>2. UNCHANGED <<asyncIndex, indexerCh, indexer, writer, payload>>
    BY <1>12 DEF SegmentAges, logVars, storeVars
  <2> QED BY <1>1, <2>1, <2>2 DEF LossHyp, LossInv, SealInv, QueuedOps
<1>13. CASE ReceiveOp
  <2>1. indexerCh # <<>> /\ UNCHANGED <<asyncIndex, writer, mutable, payload>>
    BY <1>13 DEF ReceiveOp, logVars, storeVars, managerVars
  <2>2. asyncIndex /\ writer.pc \notin {"persist", "publish", "swap"}
    BY <1>1, <2>1 DEF LossHyp, LossInv, SealInv
  <2> QED BY <1>1, <1>13, <2>1, <2>2, ReceivedQueued DEF LossHyp, LossInv, SealInv
<1>14. CASE FlushTimer
  <2>1. indexer.ops # <<>> /\ UNCHANGED <<asyncIndex, writer, mutable, payload, indexerCh>>
    BY <1>14 DEF FlushTimer, logVars, storeVars, managerVars
  <2>2. asyncIndex /\ writer.pc \notin {"persist", "publish", "swap"}
    BY <1>1, <2>1 DEF LossHyp, LossInv, SealInv
  <2>3. indexer'.ops = indexer.ops
    BY <1>1, <1>14 DEF FlushTimer, LossHyp, TypeInv, IndexerInv, IndexerRec
  <2> QED BY <1>1, <2>1, <2>2, <2>3 DEF LossHyp, LossInv, SealInv, QueuedOps
<1>15. CASE StartOp
  <2>1. indexer.ops # <<>> /\ UNCHANGED <<asyncIndex, writer, payload>>
    BY <1>15 DEF StartOp, logVars, storeVars
  <2>2. asyncIndex /\ writer.pc \notin {"persist", "publish", "swap"}
    BY <1>1, <2>1 DEF LossHyp, LossInv, SealInv
  <2>3. QueuedOps' \subseteq QueuedOps
    BY <1>1, <1>15, OpStarted DEF LossHyp, LossInv
  <2>4. mutable'.id = mutable.id
    BY <1>1, <1>15, OpStarted, WithoutType, SegmentAssumption, ZenonT(60)
       DEF LossHyp, LossInv, TypeInv, SegmentsInv
  <2> QED BY <1>1, <2>1, <2>2, <2>3, <2>4 DEF LossHyp, LossInv, SealInv
<1>16. CASE ApplyVectors
  <2>1. indexer.pc = "apply" /\ UNCHANGED <<asyncIndex, writer, payload>>
    BY <1>16 DEF ApplyVectors, logVars, storeVars
  <2>2. asyncIndex /\ writer.pc \notin {"persist", "publish", "swap"}
    BY <1>1, <2>1 DEF LossHyp, LossInv, SealInv
  <2>3. QueuedOps' \subseteq QueuedOps
    BY <1>1, <1>16, VectorsApplied DEF LossHyp
  <2>4. mutable'.id = mutable.id
    BY <1>1, <1>16, WithVectorsType, SegmentAssumption
       DEF ApplyVectors, LossHyp, TypeInv, SegmentsInv, IndexerInv, IndexerRec
  <2> QED BY <1>1, <2>1, <2>2, <2>3, <2>4 DEF LossHyp, LossInv, SealInv
<1>17. CASE FlushDone
  <2>1. /\ UNCHANGED <<asyncIndex, mutable, payload, indexerCh>>
        /\ indexer' = IdleIndexer /\ QueuedOps' = QueuedOps
    BY <1>1, <1>17, BatchDone DEF FlushDone, logVars, storeVars, managerVars, LossHyp
  <2>2. indexer'.ops = <<>> /\ indexer'.pc = "idle"
    BY <2>1 DEF IdleIndexer
  <2>3. \/ writer' = writer
        \/ writer'.pc = "persist" /\ indexerCh = <<>>
    BY <1>1, <1>17 DEF FlushDone, LossHyp, TypeInv, IndexerInv, WriterInv, WriterRec
  <2> QED BY <1>1, <2>1, <2>2, <2>3 DEF LossHyp, LossInv, SealInv
<1>18. CASE MergeSegments
  <2>1. writer.pc \notin SealPCs
    BY <1>1, <1>18 DEF MergeSegments, LossHyp, TypeInv, LockInv
  <2>2. UNCHANGED <<asyncIndex, indexerCh, indexer, writer, mutable>>
    BY <1>18 DEF MergeSegments, logVars, managerVars
  <2> QED BY <1>1, <2>1, <2>2 DEF LossHyp, LossInv, SealInv, QueuedOps
<1>19. CASE Restart
  <2>1. writer'.pc = "idle" /\ indexerCh' = <<>> /\ indexer' = IdleIndexer
    BY <1>19 DEF Restart, IdleWriter
  <2> QED BY <1>19, <2>1, NothingQueued DEF SealInv, IdleIndexer
<1> QED
  BY <1>1, <1>2, <1>3, <1>4, <1>5, <1>6, <1>7, <1>8, <1>9, <1>10, <1>11, <1>12, <1>13, <1>14,
     <1>15, <1>16, <1>17, <1>18, <1>19 DEF SegNext, WriterStep, IndexerStep, CompactionStep,
     SearchStep, segVars, logVars, storeVars, managerVars, StartCompaction, RemoveFiles,
     SaveCompaction, LoadCompacted, UnloadCompacted, StartSearch, PickMutable, SearchMutable,
     SearchImmutables, EndSearch

LEMMA SegmentNumbers ==
    ASSUME TypeInv
    PROVE  /\ mutable.id \in Int /\ search.segment \in Int /\ 0 < nextSegment
           /\ compaction.pc # "idle" => compaction.new # 0
           /\ immutables \cup Range(manifest.immutables) \cup Range(savedManifest.immutables) \subseteq Int
<1>1. SegmentIDs \subseteq Int \ {0}
  BY DEF SegmentIDs
<1>2. /\ manifest.immutables \in Seq(SegmentIDs) /\ savedManifest.immutables \in Seq(SegmentIDs)
      /\ immutables \subseteq SegmentIDs
  BY DEF TypeInv, SegmentsInv, Manifest
<1>3. Range(manifest.immutables) \cup Range(savedManifest.immutables) \subseteq SegmentIDs
  BY <1>2 DEF Range
<1>4. /\ mutable.id \in SegmentIDs /\ search.segment \in Int /\ 0 < nextSegment
      /\ compaction.pc # "idle" => compaction.new \in SegmentIDs
  BY DEF TypeInv, SegmentsInv, MutableRec, SearchRec
<1> QED BY <1>1, <1>2, <1>3, <1>4

\* No segment is made twice, and the mutable one is listed by no manifest that a restart reads.
LEMMA IdsInvStep ==
    LossHyp /\ [SegNext]_segVars => IdsInv'
<1>1. SUFFICES ASSUME LossHyp, [SegNext]_segVars PROVE IdsInv'
  OBVIOUS
<1>2. CASE UNCHANGED <<mutable, manifest, savedManifest, nextSegment, search, immutables,
   compaction, writer>>
  BY <1>1, <1>2 DEF LossHyp, LossInv, IdsInv
<1>3. CASE StoreEntry
  <2>1. /\ UNCHANGED <<mutable, manifest, savedManifest, nextSegment, immutables, compaction>>
        /\ writer.pc = "idle" /\ writer'.pc = "index"
    BY <1>3 DEF StoreEntry, managerVars
  <2>2. search'.segment = search.segment /\ search'.pc = search.pc
    <3>1. \E cmd \in Commands :
            \/ search' = [search EXCEPT !.expected = IF cmd.type = "delete" THEN @ \ cmd.ids ELSE @]
            \/ search' = IF cmd.type = "delete" THEN [search EXCEPT !.expected = @ \ cmd.ids]
                         ELSE [search EXCEPT !.deleted = @ \ cmd.ids]
      BY <1>3 DEF StoreEntry
    <3> QED BY <1>1, <3>1 DEF LossHyp, TypeInv, SearchRec
  <2> QED BY <1>1, <2>1, <2>2 DEF LossHyp, LossInv, IdsInv
<1>4. CASE IndexEntry
  <2>1. mutable'.id = mutable.id
    BY <1>1, <1>4, AppliedNowType, SegmentAssumption DEF IndexEntry, LossHyp, LossInv, TypeInv,
       StoreInv, SegmentsInv, IndexerInv, IndexerRec, MutableRec
  <2>2. /\ UNCHANGED <<manifest, savedManifest, nextSegment, search, immutables, compaction>>
        /\ \/ writer.pc = writer'.pc
           \/ writer.pc \notin {"publish", "swap"} /\ writer'.pc \notin {"publish", "swap"}
    BY <1>1, <1>4 DEF IndexEntry, storeVars, LossHyp, TypeInv, WriterInv, WriterRec
  <2> QED BY <1>1, <2>1, <2>2 DEF LossHyp, LossInv, IdsInv
<1>5. CASE WriteTombstone
  <2>1. /\ UNCHANGED <<mutable, manifest, savedManifest, nextSegment, search, immutables, compaction>>
        /\ writer.pc \notin {"publish", "swap"} /\ writer'.pc \notin {"publish", "swap"}
    BY <1>1, <1>5 DEF WriteTombstone, LossHyp, TypeInv, WriterInv, WriterRec, Returns, IdleWriter,
       logVars, storeVars, managerVars
  <2> QED BY <1>1, <2>1 DEF LossHyp, LossInv, IdsInv
<1>6. CASE CheckThresholds
  <2>1. /\ UNCHANGED <<mutable, manifest, savedManifest, nextSegment, search, immutables, compaction>>
        /\ writer.pc \notin {"publish", "swap"} /\ writer'.pc \notin {"publish", "swap"}
    BY <1>1, <1>6 DEF CheckThresholds, LossHyp, TypeInv, WriterInv, WriterRec, Returns,
       IdleWriter, logVars, storeVars, managerVars
  <2> QED BY <1>1, <2>1 DEF LossHyp, LossInv, IdsInv
<1>7. CASE LockForSeal
  <2>1. /\ UNCHANGED <<mutable, manifest, savedManifest, nextSegment, search, immutables, compaction>>
        /\ writer.pc \notin {"publish", "swap"} /\ writer'.pc \notin {"publish", "swap"}
    BY <1>1, <1>7 DEF LockForSeal, LossHyp, TypeInv, WriterInv, WriterRec, Returns, IdleWriter,
       logVars, storeVars, managerVars
  <2> QED BY <1>1, <2>1 DEF LossHyp, LossInv, IdsInv
<1>8. CASE SendBarrier
  <2>1. /\ UNCHANGED <<mutable, manifest, savedManifest, nextSegment, search, immutables, compaction>>
        /\ writer.pc \notin {"publish", "swap"} /\ writer'.pc \notin {"publish", "swap"}
    BY <1>1, <1>8 DEF SendBarrier, LossHyp, TypeInv, WriterInv, WriterRec, Returns, IdleWriter,
       logVars, storeVars, managerVars
  <2> QED BY <1>1, <2>1 DEF LossHyp, LossInv, IdsInv
<1>9. CASE PersistSegment
  <2>1. /\ UNCHANGED <<mutable, savedManifest, nextSegment, search, immutables, compaction>>
        /\ writer.pc = "persist" /\ writer'.pc = "publish"
        /\ manifest' = [manifest EXCEPT !.immutables = Append(@, mutable.id)]
    BY <1>1, <1>9 DEF PersistSegment, LossHyp, TypeInv, WriterInv, WriterRec
  <2>2. manifest \in Manifest /\ compaction.pc = "idle"
    BY <1>1, <2>1 DEF LossHyp, TypeInv, SegmentsInv, LockInv
  <2>3. /\ Range(manifest'.immutables) = Range(manifest.immutables) \cup {mutable.id}
        /\ manifest'.mutable = manifest.mutable
    BY <2>1, <2>2, RangeAppend DEF Manifest
  <2> QED BY <1>1, <2>1, <2>2, <2>3 DEF LossHyp, LossInv, IdsInv
<1>10. CASE PublishSegment
  <2>1. /\ UNCHANGED <<mutable, manifest, savedManifest, nextSegment, search, compaction>>
        /\ writer.pc = "publish" /\ writer'.pc = "swap" /\ immutables' = immutables \cup {mutable.id}
    BY <1>1, <1>10 DEF PublishSegment, storeVars, LossHyp, TypeInv, WriterInv, WriterRec
  <2>2. compaction.pc = "idle"
    BY <1>1, <2>1 DEF LossHyp, TypeInv, LockInv
  <2> QED BY <1>1, <2>1, <2>2 DEF LossHyp, LossInv, IdsInv
<1>11. CASE SwapMutable
  <2>1. /\ UNCHANGED <<search, immutables, compaction>> /\ mutable'.id = nextSegment
        /\ nextSegment' = nextSegment + 1 /\ nextSegment \in Nat
        /\ writer.pc = "swap" /\ writer'.pc = "idle"
    BY <1>1, <1>11 DEF SwapMutable, Returns, IdleWriter, NewMutableSegment, LossHyp, TypeInv,
       SegmentsInv
  <2>2. /\ manifest'.mutable = nextSegment /\ manifest'.immutables = manifest.immutables
        /\ savedManifest' = manifest'
    BY <1>1, <1>11 DEF SwapMutable, LossHyp, TypeInv, SegmentsInv, Manifest
  <2>3. compaction.pc = "idle"
    BY <1>1, <2>1 DEF LossHyp, TypeInv, LockInv
  <2>4. mutable.id \in Int /\ search.segment \in Int /\ immutables \cup Range(manifest.immutables) \subseteq Int
    BY <1>1, SegmentNumbers DEF LossHyp
  <2>5. \A s \in immutables \cup Range(manifest.immutables) :
            s < nextSegment /\ s # nextSegment /\ s < nextSegment + 1
    BY <1>1, <2>1, <2>4 DEF LossHyp, LossInv, IdsInv
  <2>6. search.segment < nextSegment + 1 /\ nextSegment < nextSegment + 1
    BY <1>1, <2>1, <2>4 DEF LossHyp, LossInv, IdsInv
  <2>7. search.pc = "mutable" => search.segment \in SegmentIDs
    BY <1>1 DEF LossHyp, LossInv, IdsInv
  <2> QED BY <2>1, <2>2, <2>3, <2>5, <2>6, <2>7 DEF IdsInv
<1>12. CASE SegmentAges
  <2>1. mutable'.id = mutable.id
    BY <1>1, <1>12, SegmentAssumption DEF SegmentAges, LossHyp, LossInv, TypeInv, StoreInv,
       SegmentsInv, IndexerInv, IndexerRec, MutableRec
  <2>2. /\ UNCHANGED <<manifest, savedManifest, nextSegment, search, immutables, compaction>>
        /\ \/ writer.pc = writer'.pc
           \/ writer.pc \notin {"publish", "swap"} /\ writer'.pc \notin {"publish", "swap"}
    BY <1>1, <1>12 DEF SegmentAges, storeVars, LossHyp, TypeInv, WriterInv, WriterRec
  <2> QED BY <1>1, <2>1, <2>2 DEF LossHyp, LossInv, IdsInv
<1>13. CASE StartOp
  <2>1. mutable'.id = mutable.id
    BY <1>1, <1>13, OpStarted, WithoutType, SegmentAssumption, ZenonT(60)
       DEF LossHyp, LossInv, TypeInv, SegmentsInv
  <2>2. /\ UNCHANGED <<manifest, savedManifest, nextSegment, search, immutables, compaction>>
        /\ \/ writer.pc = writer'.pc
           \/ writer.pc \notin {"publish", "swap"} /\ writer'.pc \notin {"publish", "swap"}
    BY <1>1, <1>13 DEF StartOp, storeVars, LossHyp, TypeInv, WriterInv, WriterRec
  <2> QED BY <1>1, <2>1, <2>2 DEF LossHyp, LossInv, IdsInv
<1>14. CASE ApplyVectors
  <2>1. mutable'.id = mutable.id
    BY <1>1, <1>14, WithVectorsType, SegmentAssumption DEF ApplyVectors, LossHyp, LossInv,
       TypeInv, StoreInv, SegmentsInv, IndexerInv, IndexerRec, MutableRec
  <2>2. /\ UNCHANGED <<manifest, savedManifest, nextSegment, search, immutables, compaction>>
        /\ \/ writer.pc = writer'.pc
           \/ writer.pc \notin {"publish", "swap"} /\ writer'.pc \notin {"publish", "swap"}
    BY <1>1, <1>14 DEF ApplyVectors, storeVars, LossHyp, TypeInv, WriterInv, WriterRec
  <2> QED BY <1>1, <2>1, <2>2 DEF LossHyp, LossInv, IdsInv
<1>15. CASE FlushDone
  <2>1. /\ UNCHANGED <<mutable, manifest, savedManifest, nextSegment, search, immutables, compaction>>
        /\ writer' = writer \/ (writer.pc = "await" /\ writer'.pc = "persist")
    BY <1>1, <1>15 DEF FlushDone, LossHyp, TypeInv, WriterInv, WriterRec, IndexerInv, storeVars,
       managerVars
  <2> QED BY <1>1, <2>1 DEF LossHyp, LossInv, IdsInv
<1>16. CASE StartCompaction
  <2>1. /\ UNCHANGED <<mutable, manifest, savedManifest, search, immutables, writer>>
        /\ compaction' = [pc |-> "merge", before |-> manifest.immutables, new |-> nextSegment]
        /\ nextSegment' = nextSegment + 1 /\ nextSegment \in Nat
    BY <1>1, <1>16 DEF StartCompaction, storeVars, LossHyp, TypeInv, SegmentsInv
  <2>2. /\ mutable.id \in Int /\ search.segment \in Int
        /\ immutables \cup Range(manifest.immutables) \cup Range(savedManifest.immutables) \subseteq Int
    BY <1>1, SegmentNumbers DEF LossHyp
  <2>3. \A s \in immutables \cup Range(manifest.immutables) \cup Range(savedManifest.immutables) :
           s # nextSegment /\ s < nextSegment + 1
    BY <1>1, <2>1, <2>2 DEF LossHyp, LossInv, IdsInv
  <2>4. /\ search.segment # nextSegment /\ search.segment < nextSegment + 1
        /\ mutable.id # nextSegment /\ mutable.id < nextSegment + 1 /\ nextSegment < nextSegment + 1
    BY <1>1, <2>1, <2>2 DEF LossHyp, LossInv, IdsInv
  <2> QED BY <1>1, <2>1, <2>3, <2>4 DEF LossHyp, LossInv, IdsInv
<1>17. CASE MergeSegments
  <2>1. compaction' = [pc |-> "remove", before |-> compaction.before, new |-> compaction.new]
    BY <1>1, <1>17 DEF MergeSegments, LossHyp, TypeInv, SegmentsInv, CompactionRec
  <2>2. UNCHANGED <<mutable, manifest, savedManifest, nextSegment, search, immutables, writer>>
    BY <1>17 DEF MergeSegments, managerVars
  <2>3. compaction.pc = "merge"
    BY <1>17 DEF MergeSegments
  <2> QED BY <1>1, <2>1, <2>2, <2>3 DEF LossHyp, LossInv, IdsInv
<1>18. CASE RemoveFiles
  <2>1. compaction' = [pc |-> "manifest", before |-> compaction.before, new |-> compaction.new]
    BY <1>1, <1>18 DEF RemoveFiles, LossHyp, TypeInv, SegmentsInv, CompactionRec
  <2>2. UNCHANGED <<mutable, manifest, savedManifest, nextSegment, search, immutables, writer>>
    BY <1>18 DEF RemoveFiles, managerVars
  <2>3. compaction.pc = "remove"
    BY <1>18 DEF RemoveFiles
  <2> QED BY <1>1, <2>1, <2>2, <2>3 DEF LossHyp, LossInv, IdsInv
<1>19. CASE SaveCompaction
  <2>1. compaction' = [pc |-> "load", before |-> compaction.before, new |-> compaction.new]
    BY <1>1, <1>19 DEF SaveCompaction, LossHyp, TypeInv, SegmentsInv, CompactionRec
  <2>2. UNCHANGED <<mutable, nextSegment, search, immutables, writer>> /\ compaction.pc = "manifest"
    BY <1>19 DEF SaveCompaction
  <2>3. /\ manifest'.mutable = manifest.mutable /\ savedManifest' = manifest'
        /\ manifest'.immutables = Compacted(manifest.immutables, compaction.new)
    BY <1>1, <1>19 DEF SaveCompaction, LossHyp, TypeInv, SegmentsInv, Manifest
  <2>4. /\ manifest.immutables \in Seq(SegmentIDs) /\ compaction.new \in SegmentIDs
        /\ CompactionFanIn <= Len(manifest.immutables)
    BY <1>1, <2>2 DEF LossHyp, TypeInv, SegmentsInv, Manifest
  <2>5. Range(manifest'.immutables) \subseteq Range(manifest.immutables) \cup {compaction.new}
    BY <2>3, <2>4, CompactedType, SegmentAssumption
  <2>6. writer.pc \notin SealPCs
    BY <1>1, <2>2 DEF LossHyp, TypeInv, LockInv
  <2> QED BY <1>1, <2>1, <2>2, <2>3, <2>5, <2>6 DEF LossHyp, LossInv, IdsInv
<1>20. CASE LoadCompacted
  <2>1. compaction' = [pc |-> "unload", before |-> compaction.before, new |-> compaction.new]
    BY <1>1, <1>20 DEF LoadCompacted, LossHyp, TypeInv, SegmentsInv, CompactionRec
  <2>2. /\ UNCHANGED <<mutable, manifest, savedManifest, nextSegment, search, writer>>
        /\ compaction.pc = "load" /\ immutables \subseteq immutables'
        /\ immutables' \subseteq immutables \cup Range(manifest.immutables)
    BY <1>20 DEF LoadCompacted, storeVars
  <2>3. writer.pc \notin SealPCs
    BY <1>1, <2>2 DEF LossHyp, TypeInv, LockInv
  <2> QED BY <1>1, <2>1, <2>2, <2>3 DEF LossHyp, LossInv, IdsInv
<1>21. CASE UnloadCompacted
  <2>1. /\ UNCHANGED <<mutable, manifest, savedManifest, nextSegment, search, writer>>
        /\ compaction.pc = "unload" /\ immutables' \subseteq immutables
        /\ compaction' = IdleCompaction
    BY <1>21 DEF UnloadCompacted, storeVars
  <2>2. writer.pc \notin SealPCs
    BY <1>1, <2>1 DEF LossHyp, TypeInv, LockInv
  <2> QED BY <1>1, <2>1, <2>2 DEF LossHyp, LossInv, IdsInv, IdleCompaction
<1>22. CASE StartSearch
  <2>1. UNCHANGED <<mutable, manifest, savedManifest, nextSegment, immutables, compaction, writer>>
    BY <1>22 DEF StartSearch, storeVars, managerVars
  <2>2. /\ search'.segment = 0
        /\ search'.pc # "mutable"
    BY <1>1, <1>22 DEF StartSearch, NoSearch, LossHyp, TypeInv, SearchRec
  <2> QED BY <1>1, <2>1, <2>2, SegmentNumbers DEF LossHyp, LossInv, IdsInv
<1>23. CASE PickMutable
  <2>1. UNCHANGED <<mutable, manifest, savedManifest, nextSegment, immutables, compaction, writer>>
    BY <1>23 DEF PickMutable, storeVars, managerVars
  <2>2. search'.segment = mutable.id /\ mutable.id \in SegmentIDs
    BY <1>1, <1>23 DEF PickMutable, LossHyp, TypeInv, SegmentsInv, MutableRec, SearchRec
  <2> QED BY <1>1, <2>1, <2>2 DEF LossHyp, LossInv, IdsInv
<1>24. CASE SearchMutable
  <2>1. UNCHANGED <<mutable, manifest, savedManifest, nextSegment, immutables, compaction, writer>>
    BY <1>24 DEF SearchMutable, storeVars, managerVars
  <2>2. /\ search'.segment = search.segment
        /\ search'.pc # "mutable"
    BY <1>1, <1>24 DEF SearchMutable, NoSearch, LossHyp, TypeInv, SearchRec
  <2> QED BY <1>1, <2>1, <2>2, SegmentNumbers DEF LossHyp, LossInv, IdsInv
<1>25. CASE SearchImmutables
  <2>1. UNCHANGED <<mutable, manifest, savedManifest, nextSegment, immutables, compaction, writer>>
    BY <1>25 DEF SearchImmutables, storeVars, managerVars
  <2>2. /\ search'.segment = search.segment
        /\ search'.pc # "mutable"
    BY <1>1, <1>25 DEF SearchImmutables, NoSearch, LossHyp, TypeInv, SearchRec
  <2> QED BY <1>1, <2>1, <2>2, SegmentNumbers DEF LossHyp, LossInv, IdsInv
<1>26. CASE EndSearch
  <2>1. UNCHANGED <<mutable, manifest, savedManifest, nextSegment, immutables, compaction, writer>>
    BY <1>26 DEF EndSearch, storeVars, managerVars
  <2>2. /\ search'.segment = 0
        /\ search'.pc # "mutable"
    BY <1>1, <1>26 DEF EndSearch, NoSearch, LossHyp, TypeInv, SearchRec
  <2> QED BY <1>1, <2>1, <2>2, SegmentNumbers DEF LossHyp, LossInv, IdsInv
<1>27. CASE Restart
  <2>1. /\ UNCHANGED <<savedManifest, nextSegment>> /\ manifest' = savedManifest
        /\ immutables' \subseteq Range(savedManifest.immutables)
        /\ writer'.pc = "idle" /\ search' = NoSearch /\ compaction'.pc = "idle"
    BY <1>27 DEF Restart, storeVars, IdleWriter, IdleCompaction
  <2>2. mutable'.id = savedManifest.mutable
    <3>1. NewMutableSegment(savedManifest.mutable) \in MutableRec
      BY <1>1, SegmentAssumption
         DEF LossHyp, TypeInv, SegmentsInv, Manifest, NewMutableSegment, NoDocs, MutableRec, Vectors
    <3>2. \A ids : LoadVectors(ids) \in Vectors
      BY <1>1, LoadVectorsType, SegmentAssumption DEF LossHyp, TypeInv, StoreInv
    <3> QED BY <1>27, <3>1, <3>2, WithVectorsType, SegmentAssumption
            DEF Restart, LoadMutableSegment, NewMutableSegment
  <2>3. 0 < nextSegment
    BY <1>1 DEF LossHyp, TypeInv, SegmentsInv
  <2> QED BY <1>1, <2>1, <2>2, <2>3 DEF LossHyp, LossInv, IdsInv, NoSearch
<1> QED
  BY <1>1, <1>2, <1>3, <1>4, <1>5, <1>6, <1>7, <1>8, <1>9, <1>10, <1>11, <1>12, <1>13, <1>14,
     <1>15, <1>16, <1>17, <1>18, <1>19, <1>20, <1>21, <1>22, <1>23, <1>24, <1>25, <1>26, <1>27 DEF
     SegNext, WriterStep, IndexerStep, CompactionStep, SearchStep, segVars, logVars, storeVars,
     managerVars, ReceiveOp, FlushTimer

\* What taking an entry does to the store and to the documents a search must find.
LEMMA EntryStored ==
    ASSUME TypeInv, StoreEntry
    PROVE  \E cmd \in Commands :
             /\ cmd.type \in {"store", "delete"} /\ cmd.ids \subseteq DocIDs
             /\ writer.pc = "idle" /\ writer' = [pc |-> "index", cmd |-> cmd]
             /\ \A d \in DocIDs :
                  /\ d \notin cmd.ids => primary'[d] = primary[d]
                  /\ d \in cmd.ids /\ cmd.type = "store" => primary'[d] # 0
                  /\ d \in cmd.ids /\ cmd.type = "delete" => primary'[d] = 0
             /\ search'.expected \subseteq search.expected
             /\ cmd.type = "delete" => search'.expected \cap cmd.ids = {}
             /\ UNCHANGED <<search.pc, search.segment, search.found, search.tombstones>>
<1>1. PICK cmd \in Commands :
        /\ writer.pc = "idle" /\ writer' = [pc |-> "index", cmd |-> cmd]
        /\ primary' = [d \in DocIDs |-> IF d \notin cmd.ids THEN primary[d]
                                       ELSE IF cmd.type = "store" THEN applied + 1 ELSE 0]
        /\ \/ search' = [search EXCEPT !.expected = IF cmd.type = "delete" THEN @ \ cmd.ids ELSE @]
           \/ search' = IF cmd.type = "delete" THEN [search EXCEPT !.expected = @ \ cmd.ids]
                        ELSE [search EXCEPT !.deleted = @ \ cmd.ids]
  BY DEF StoreEntry
<1>2. cmd.type \in {"store", "delete"} /\ cmd.ids \subseteq DocIDs
  BY SegmentAssumption
<1>3. applied + 1 # 0
  BY DEF TypeInv, WriterInv
<1>4. /\ search'.expected \subseteq search.expected
      /\ cmd.type = "delete" => search'.expected \cap cmd.ids = {}
      /\ UNCHANGED <<search.pc, search.segment, search.found, search.tombstones>>
  BY <1>1 DEF TypeInv, SearchRec
<1>5. \A d \in DocIDs :
        /\ d \notin cmd.ids => primary'[d] = primary[d]
        /\ d \in cmd.ids /\ cmd.type = "store" => primary'[d] # 0
        /\ d \in cmd.ids /\ cmd.type = "delete" => primary'[d] = 0
  BY <1>1, <1>3
<1> QED BY <1>1, <1>2, <1>4, <1>5

\* What an entry applied at once does to the graph.
LEMMA EntryApplied ==
    ASSUME TypeInv, writer.pc = "index"
    PROVE  /\ AppliedNow(EntryOp).id = mutable.id
           /\ \A d \in DocIDs :
                /\ d \notin writer.cmd.ids => AppliedNow(EntryOp).docs[d] = mutable.docs[d]
                /\ writer.cmd.type = "store" /\ d \in writer.cmd.ids =>
                     AppliedNow(EntryOp).docs[d] = IF primary[d] # 0 THEN primary[d] ELSE mutable.docs[d]
                /\ writer.cmd.type = "delete" /\ d \in writer.cmd.ids => AppliedNow(EntryOp).docs[d] = 0
<1> USE SegmentAssumption
<1>1. /\ EntryOp.segment = mutable.id /\ EntryOp.type = writer.cmd.type /\ EntryOp.ids = writer.cmd.ids
      /\ writer.cmd.type \in {"store", "delete"}
  BY CommandType DEF EntryOp
<1>2. mutable \in MutableRec /\ primary \in Vectors /\ mutable.docs \in [DocIDs -> 0..MaxLog]
  BY DEF TypeInv, SegmentsInv, StoreInv, MutableRec, Vectors
<1>3. CASE writer.cmd.type = "store"
  <2>1. LoadVectors(writer.cmd.ids) \in Vectors
    BY <1>2, LoadVectorsType
  <2>2. AppliedNow(EntryOp) = WithVectors(mutable, LoadVectors(writer.cmd.ids))
    BY <1>1, <1>3 DEF AppliedNow
  <2>3. AppliedNow(EntryOp).id = mutable.id
    BY <1>2, <2>1, <2>2, WithVectorsType
  <2>4. AppliedNow(EntryOp).docs =
          [d \in DocIDs |-> IF LoadVectors(writer.cmd.ids)[d] # 0 THEN LoadVectors(writer.cmd.ids)[d]
                            ELSE mutable.docs[d]]
    BY <1>2, <2>1, <2>2, WithVectorsType
  <2> QED BY <1>3, <2>3, <2>4 DEF LoadVectors
<1>4. CASE writer.cmd.type = "delete"
  <2>1. AppliedNow(EntryOp) = Without(mutable, writer.cmd.ids)
    BY <1>1, <1>4 DEF AppliedNow
  <2>2. /\ AppliedNow(EntryOp).id = mutable.id
        /\ AppliedNow(EntryOp).docs = [d \in DocIDs |-> IF d \in writer.cmd.ids THEN 0 ELSE mutable.docs[d]]
    BY <1>2, <2>1, WithoutType
  <2> QED BY <1>4, <2>2
<1> QED BY <1>1, <1>3, <1>4

\* What the indexer's vectors do to it.
LEMMA VectorsInGraph ==
    ASSUME TypeInv, ApplyVectors
    PROVE  /\ mutable'.id = mutable.id
           /\ \A d \in DocIDs : mutable'.docs[d] = IF indexer.vectors[d] # 0 THEN indexer.vectors[d]
                                                    ELSE mutable.docs[d]
<1>1. mutable \in MutableRec /\ indexer.vectors \in Vectors
  BY DEF TypeInv, SegmentsInv, IndexerInv, IndexerRec
<1>2. /\ mutable'.id = mutable.id
      /\ mutable'.docs = [d \in DocIDs |-> IF indexer.vectors[d] # 0 THEN indexer.vectors[d] ELSE mutable.docs[d]]
  BY <1>1, WithVectorsType, SegmentAssumption DEF ApplyVectors
<1> QED BY <1>2

\* What a restart loads.
LEMMA RestartLoads ==
    ASSUME TypeInv, Restart
    PROVE  \A d \in DocIDs :
             /\ mutable'.docs[d] # 0 => mutable'.docs[d] = primary[d]
             /\ \/ mutable'.docs[d] = primary[d]
                \/ d \in savedTombstones
                \/ \E s \in immutables' : payload[s].vectors[d] # 0
<1> DEFINE loaded == Range(savedManifest.immutables) \cap files
           sealed == UNION {Docs(payload[s].vectors) : s \in loaded}
           ids == DocIDs \ (sealed \cup savedTombstones)
           new == NewMutableSegment(savedManifest.mutable)
<1>1. new \in MutableRec /\ LoadVectors(ids) \in Vectors
  BY LoadVectorsType, SegmentAssumption
     DEF TypeInv, SegmentsInv, StoreInv, Manifest, NewMutableSegment, NoDocs, MutableRec, Vectors
<1>2. mutable' = WithVectors(new, LoadVectors(ids)) /\ immutables' = loaded
  BY DEF Restart, LoadMutableSegment
<1>3. mutable'.docs = [d \in DocIDs |-> IF LoadVectors(ids)[d] # 0 THEN LoadVectors(ids)[d] ELSE new.docs[d]]
  <2> HIDE DEF new, ids
  <2> QED BY <1>1, <1>2, WithVectorsType, SegmentAssumption
<1>4. \A d \in DocIDs : new.docs[d] = 0
  BY DEF NewMutableSegment, NoDocs
<1>5. \A d \in sealed : \E s \in immutables' : payload[s].vectors[d] # 0
  BY <1>2 DEF Docs
<1> HIDE DEF sealed, new
<1> QED BY <1>3, <1>4, <1>5 DEF LoadVectors

\* A document whose deletion is under way is not in the store.
LEMMA DeletingInvStep ==
    LossHyp /\ [SegNext]_segVars => DeletingInv'
<1>1. SUFFICES ASSUME LossHyp, [SegNext]_segVars PROVE DeletingInv'
  OBVIOUS
<1>2. CASE UNCHANGED <<writer, primary>>
  BY <1>1, <1>2 DEF LossHyp, LossInv, KeptInv, DeletingInv, Deleting
<1>3. CASE StoreEntry
  <2>1. PICK cmd \in Commands :
          /\ cmd.ids \subseteq DocIDs /\ writer' = [pc |-> "index", cmd |-> cmd]
          /\ \A d \in DocIDs : d \in cmd.ids /\ cmd.type = "delete" => primary'[d] = 0
    BY <1>1, <1>3, EntryStored DEF LossHyp
  <2> QED BY <2>1 DEF DeletingInv, Deleting
<1>4. CASE IndexEntry
  <2>1. primary' = primary /\ (Deleting' \subseteq Deleting)
    BY <1>1, <1>4 DEF IndexEntry, Deleting, LossHyp, TypeInv, WriterInv, WriterRec, Returns,
       IdleWriter, logVars, storeVars, managerVars
  <2> QED BY <1>1, <2>1 DEF LossHyp, LossInv, KeptInv, DeletingInv
<1>5. CASE WriteTombstone
  <2>1. primary' = primary /\ (Deleting' \subseteq Deleting)
    BY <1>1, <1>5 DEF WriteTombstone, Deleting, LossHyp, TypeInv, WriterInv, WriterRec, Returns,
       IdleWriter, logVars, storeVars, managerVars
  <2> QED BY <1>1, <2>1 DEF LossHyp, LossInv, KeptInv, DeletingInv
<1>6. CASE CheckThresholds
  <2>1. primary' = primary /\ (Deleting' \subseteq Deleting)
    BY <1>1, <1>6 DEF CheckThresholds, Deleting, LossHyp, TypeInv, WriterInv, WriterRec, Returns,
       IdleWriter, logVars, storeVars, managerVars
  <2> QED BY <1>1, <2>1 DEF LossHyp, LossInv, KeptInv, DeletingInv
<1>7. CASE LockForSeal
  <2>1. primary' = primary /\ (Deleting' \subseteq Deleting)
    BY <1>1, <1>7 DEF LockForSeal, Deleting, LossHyp, TypeInv, WriterInv, WriterRec, Returns,
       IdleWriter, logVars, storeVars, managerVars
  <2> QED BY <1>1, <2>1 DEF LossHyp, LossInv, KeptInv, DeletingInv
<1>8. CASE SendBarrier
  <2>1. primary' = primary /\ (Deleting' \subseteq Deleting)
    BY <1>1, <1>8 DEF SendBarrier, Deleting, LossHyp, TypeInv, WriterInv, WriterRec, Returns,
       IdleWriter, logVars, storeVars, managerVars
  <2> QED BY <1>1, <2>1 DEF LossHyp, LossInv, KeptInv, DeletingInv
<1>9. CASE PersistSegment
  <2>1. primary' = primary /\ (Deleting' \subseteq Deleting)
    BY <1>1, <1>9 DEF PersistSegment, Deleting, LossHyp, TypeInv, WriterInv, WriterRec, Returns,
       IdleWriter, logVars, storeVars, managerVars
  <2> QED BY <1>1, <2>1 DEF LossHyp, LossInv, KeptInv, DeletingInv
<1>10. CASE PublishSegment
  <2>1. primary' = primary /\ (Deleting' \subseteq Deleting)
    BY <1>1, <1>10 DEF PublishSegment, Deleting, LossHyp, TypeInv, WriterInv, WriterRec, Returns,
       IdleWriter, logVars, storeVars, managerVars
  <2> QED BY <1>1, <2>1 DEF LossHyp, LossInv, KeptInv, DeletingInv
<1>11. CASE SwapMutable
  <2>1. primary' = primary /\ (Deleting' \subseteq Deleting)
    BY <1>1, <1>11 DEF SwapMutable, Deleting, LossHyp, TypeInv, WriterInv, WriterRec, Returns,
       IdleWriter, logVars, storeVars, managerVars
  <2> QED BY <1>1, <2>1 DEF LossHyp, LossInv, KeptInv, DeletingInv
<1>12. CASE FlushDone
  <2>1. primary' = primary /\ (Deleting' \subseteq Deleting)
    BY <1>1, <1>12 DEF FlushDone, Deleting, LossHyp, TypeInv, WriterInv, WriterRec, Returns,
       IdleWriter, logVars, storeVars, managerVars, IndexerInv
  <2> QED BY <1>1, <2>1 DEF LossHyp, LossInv, KeptInv, DeletingInv
<1>13. CASE Restart
  BY <1>13 DEF Restart, IdleWriter, DeletingInv, Deleting
<1> QED
  BY <1>1, <1>2, <1>3, <1>4, <1>5, <1>6, <1>7, <1>8, <1>9, <1>10, <1>11, <1>12, <1>13 DEF SegNext,
     WriterStep, IndexerStep, CompactionStep, SearchStep, segVars, logVars, storeVars,
     managerVars, SegmentAges, ReceiveOp, FlushTimer, StartOp, ApplyVectors, StartCompaction,
     MergeSegments, RemoveFiles, SaveCompaction, LoadCompacted, UnloadCompacted, StartSearch,
     PickMutable, SearchMutable, SearchImmutables, EndSearch

\* What a queued deletion removes from the graph is not kept.
LEMMA DeletesInvStep ==
    LossHyp /\ [SegNext]_segVars => DeletesInv'
<1>1. SUFFICES ASSUME LossHyp, [SegNext]_segVars PROVE DeletesInv'
  OBVIOUS
<1>2. CASE UNCHANGED <<writer, tombstones, indexerCh, indexer>>
  BY <1>1, <1>2 DEF LossHyp, LossInv, KeptInv, DeletesInv, Kept, Deleting, QueuedOps
<1>3. CASE Restart
  BY <1>3, NothingQueued DEF DeletesInv
<1>4. ASSUME ~Restart, QueuedOps' \subseteq QueuedOps PROVE DeletesInv'
  BY <1>1, <1>4, KeptStep DEF LossHyp, LossInv, KeptInv, DeletesInv
<1>5. CASE ~Restart /\ UNCHANGED <<indexerCh, indexer>>
  BY <1>4, <1>5 DEF QueuedOps
<1>6. CASE IndexEntry
  <2>1. writer.pc = "index" /\ ~Restart /\ writer'.pc \in {"check", "tombstone"}
    BY <1>1, <1>6 DEF IndexEntry, Restart, IdleWriter, LossHyp, TypeInv, WriterInv, WriterRec
  <2>2. Kept' \subseteq Kept /\ QueuedOps' \subseteq QueuedOps \cup {EntryOp}
    BY <1>1, <1>6, <2>1, KeptStep, EntryQueued DEF LossHyp
  <2>3. EntryOp.type = "delete" => EntryOp.ids = Deleting
    BY <2>1 DEF EntryOp, Deleting
  <2> QED BY <1>1, <2>2, <2>3 DEF LossHyp, LossInv, KeptInv, DeletesInv, Kept
<1>7. CASE SendBarrier
  <2>1. ~Restart
    BY <1>1, <1>7 DEF SendBarrier, Restart, IdleWriter, LossHyp, TypeInv, WriterInv, WriterRec
  <2>2. Kept' \subseteq Kept
    BY <1>1, <2>1, KeptStep DEF LossHyp
  <2>3. \A op \in QueuedOps' : op \in QueuedOps \/ op.type = "barrier"
    BY <1>1, <1>7, BarrierQueued DEF LossHyp
  <2> QED BY <1>1, <2>2, <2>3 DEF LossHyp, LossInv, KeptInv, DeletesInv
<1>8. CASE ReceiveOp
  <2>1. QueuedOps' \subseteq QueuedOps
    BY <1>1, <1>8, ReceivedQueued DEF LossHyp
  <2> QED BY <1>3, <1>4, <2>1
<1>9. CASE StartOp
  <2>1. QueuedOps' \subseteq QueuedOps
    BY <1>1, <1>9, OpStarted DEF LossHyp, LossInv
  <2> QED BY <1>3, <1>4, <2>1
<1>10. CASE ApplyVectors
  <2>1. QueuedOps' \subseteq QueuedOps
    BY <1>1, <1>10, VectorsApplied DEF LossHyp
  <2> QED BY <1>3, <1>4, <2>1
<1>11. CASE FlushTimer
  <2>1. indexer'.ops = indexer.ops /\ indexerCh' = indexerCh
    BY <1>1, <1>11 DEF FlushTimer, LossHyp, TypeInv, IndexerInv, IndexerRec
  <2> QED BY <1>3, <1>4, <2>1 DEF QueuedOps
<1>12. CASE FlushDone
  <2>1. QueuedOps' \subseteq QueuedOps
    BY <1>1, <1>12, BatchDone DEF LossHyp
  <2> QED BY <1>3, <1>4, <2>1
<1> QED
  BY <1>1, <1>2, <1>3, <1>4, <1>5, <1>6, <1>7, <1>8, <1>9, <1>10, <1>11, <1>12 DEF SegNext,
     WriterStep, IndexerStep, CompactionStep, SearchStep, segVars, logVars, storeVars,
     managerVars, StoreEntry, WriteTombstone, CheckThresholds, LockForSeal, PersistSegment,
     PublishSegment, SwapMutable, SegmentAges, StartCompaction, MergeSegments, RemoveFiles,
     SaveCompaction, LoadCompacted, UnloadCompacted, StartSearch, PickMutable, SearchMutable,
     SearchImmutables, EndSearch

\* What is kept in the graph, or on its way into it, is in the store.
LEMMA GraphInvStep ==
    LossHyp /\ [SegNext]_segVars => GraphInv'
<1>1. SUFFICES ASSUME LossHyp, [SegNext]_segVars PROVE GraphInv'
  OBVIOUS
<1>2. CASE UNCHANGED <<writer, tombstones, mutable, indexer, primary>>
  BY <1>1, <1>2 DEF LossHyp, LossInv, KeptInv, GraphInv, Kept, Deleting
<1>3. CASE Restart
  <2>1. primary' = primary /\ indexer'.vectors = NoDocs
    BY <1>3 DEF Restart, storeVars, IdleIndexer
  <2>2. Kept' \subseteq DocIDs
    BY DEF Kept
  <2> QED BY <1>1, <1>3, <2>1, <2>2, RestartLoads DEF GraphInv, NoDocs, LossHyp
<1>4. ASSUME ~Restart PROVE Kept' \subseteq Kept /\ Kept \subseteq DocIDs
  BY <1>1, <1>4, KeptStep DEF LossHyp, Kept
<1>5. CASE ~Restart /\ UNCHANGED <<mutable, indexer, primary>>
  BY <1>1, <1>4, <1>5 DEF LossHyp, LossInv, KeptInv, GraphInv
<1>6. CASE ~Restart /\ StoreEntry
  <2>1. UNCHANGED <<mutable, indexer, tombstones>>
    BY <1>6 DEF StoreEntry, managerVars
  <2>2. PICK cmd \in Commands :
          /\ cmd.type \in {"store", "delete"} /\ writer' = [pc |-> "index", cmd |-> cmd]
          /\ \A d \in DocIDs : /\ d \notin cmd.ids => primary'[d] = primary[d]
                               /\ d \in cmd.ids /\ cmd.type = "store" => primary'[d] # 0
    BY <1>1, <1>6, EntryStored DEF LossHyp
  <2>3. cmd.type = "delete" => Kept' \cap cmd.ids = {}
    BY <2>2 DEF Kept, Deleting
  <2> QED BY <1>1, <1>4, <1>6, <2>1, <2>2, <2>3 DEF LossHyp, LossInv, KeptInv, GraphInv
<1>7. CASE ~Restart /\ IndexEntry
  <2>1. UNCHANGED <<indexer, primary>> /\ writer.pc = "index"
    BY <1>7 DEF IndexEntry, storeVars
  <2>2. mutable' = mutable \/ mutable' = AppliedNow(EntryOp)
    BY <1>1, <1>7, EntryQueued DEF LossHyp
  <2>3. writer.cmd.type \in {"store", "delete"}
    BY <1>1, <2>1, CommandType DEF LossHyp
  <2>4. \A d \in DocIDs : mutable'.docs[d] \in {0, primary[d], mutable.docs[d]}
    BY <1>1, <2>1, <2>2, <2>3, EntryApplied DEF LossHyp
  <2> QED BY <1>1, <1>4, <1>7, <2>1, <2>4 DEF LossHyp, LossInv, KeptInv, GraphInv
<1>8. CASE ~Restart /\ SwapMutable
  <2>1. UNCHANGED <<indexer, primary>> /\ \A d \in DocIDs : mutable'.docs[d] = 0
    BY <1>8 DEF SwapMutable, NewMutableSegment, NoDocs
  <2> QED BY <1>1, <1>4, <1>8, <2>1 DEF LossHyp, LossInv, KeptInv, GraphInv
<1>9. CASE ~Restart /\ SegmentAges
  <2>1. UNCHANGED <<indexer, primary>> /\ mutable'.docs = mutable.docs
    BY <1>1, <1>9 DEF SegmentAges, storeVars, LossHyp, TypeInv, SegmentsInv, MutableRec
  <2> QED BY <1>1, <1>4, <1>9, <2>1 DEF LossHyp, LossInv, KeptInv, GraphInv
<1>10. CASE ~Restart /\ (ReceiveOp \/ FlushTimer)
  <2>1. UNCHANGED <<mutable, primary>> /\ indexer'.vectors = indexer.vectors
    BY <1>1, <1>10 DEF ReceiveOp, FlushTimer, storeVars, managerVars, LossHyp, TypeInv,
       IndexerInv, IndexerRec
  <2> QED BY <1>1, <1>4, <1>10, <2>1 DEF LossHyp, LossInv, KeptInv, GraphInv
<1>11. CASE ~Restart /\ StartOp
  <2>1. primary' = primary
    BY <1>11 DEF StartOp, storeVars
  <2>2. \A d \in DocIDs : mutable'.docs[d] \in {0, mutable.docs[d]}
    <3>1. mutable \in MutableRec /\ MaxLog \in Nat
      BY <1>1, SegmentAssumption DEF LossHyp, TypeInv, SegmentsInv
    <3>2. mutable' = mutable \/ mutable' = Without(mutable, Head(indexer.ops).ids)
      BY <1>1, <1>11, OpStarted DEF LossHyp, LossInv
    <3>3. Without(mutable, Head(indexer.ops).ids).docs =
            [d \in DocIDs |-> IF d \in Head(indexer.ops).ids THEN 0 ELSE mutable.docs[d]]
      BY <3>1, WithoutType
    <3> QED BY <3>2, <3>3
  <2>3. \A d \in DocIDs : indexer'.vectors[d] \in {0, primary[d], indexer.vectors[d]}
    BY <1>1, <1>11, OpStarted DEF LossHyp, LossInv, LoadVectors
  <2> QED BY <1>1, <1>4, <1>11, <2>1, <2>2, <2>3 DEF LossHyp, LossInv, KeptInv, GraphInv
<1>12. CASE ~Restart /\ ApplyVectors
  <2>1. primary' = primary /\ \A d \in DocIDs : indexer'.vectors[d] = 0
    BY <1>1, <1>12, VectorsApplied DEF ApplyVectors, storeVars, LossHyp, NoDocs
  <2> QED BY <1>1, <1>4, <1>12, <2>1, VectorsInGraph DEF LossHyp, LossInv, KeptInv, GraphInv
<1>13. CASE ~Restart /\ FlushDone
  <2>1. UNCHANGED <<mutable, primary>> /\ \A d \in DocIDs : indexer'.vectors[d] = 0
    BY <1>1, <1>13 DEF FlushDone, storeVars, managerVars, IdleIndexer, NoDocs
  <2> QED BY <1>1, <1>4, <1>13, <2>1 DEF LossHyp, LossInv, KeptInv, GraphInv
<1> QED
  BY <1>1, <1>2, <1>3, <1>4, <1>5, <1>6, <1>7, <1>8, <1>9, <1>10, <1>11, <1>12, <1>13 DEF SegNext,
     WriterStep, IndexerStep, CompactionStep, SearchStep, segVars, logVars, storeVars,
     managerVars, WriteTombstone, CheckThresholds, LockForSeal, SendBarrier, PersistSegment,
     PublishSegment, StartCompaction, MergeSegments, RemoveFiles, SaveCompaction, LoadCompacted,
     UnloadCompacted, StartSearch, PickMutable, SearchMutable, SearchImmutables, EndSearch

\* A segment's vectors and its graph have the same documents, but for deleted ones.
LEMMA PayloadInvStep ==
    LossHyp /\ [SegNext]_segVars => PayloadInv'
<1>1. SUFFICES ASSUME LossHyp, [SegNext]_segVars PROVE PayloadInv'
  OBVIOUS
<1>2. CASE UNCHANGED <<payload, tombstones>>
  BY <1>1, <1>2 DEF LossHyp, LossInv, KeptInv, PayloadInv
<1>3. CASE WriteTombstone
  <2>1. payload' = payload /\ tombstones \subseteq tombstones'
    BY <1>3 DEF WriteTombstone
  <2> QED BY <1>1, <2>1 DEF LossHyp, LossInv, KeptInv, PayloadInv
<1>4. CASE PersistSegment
  <2> DEFINE s == mutable.id
             new == [index |-> mutable.docs, vectors |-> LoadVectors(Docs(mutable.docs))]
  <2>1. payload' = [payload EXCEPT ![s] = new] /\ tombstones' = tombstones
    BY <1>4 DEF PersistSegment
  <2>2. ASSUME NEW d \in DocIDs
        PROVE  /\ new.vectors[d] # 0 => new.index[d] # 0
               /\ new.index[d] # 0 /\ d \notin tombstones => new.vectors[d] # 0
    <3>1. Deleting = {}
      BY <1>4 DEF PersistSegment, Deleting
    <3>2. d \notin tombstones /\ mutable.docs[d] # 0 => primary[d] # 0
      BY <1>1, <3>1 DEF LossHyp, LossInv, KeptInv, GraphInv, Kept
    <3> QED BY <3>2 DEF LoadVectors, Docs
  <2> HIDE DEF s, new
  <2>3. payload \in [SegmentIDs -> [index : Vectors, vectors : Vectors]]
    BY <1>1 DEF LossHyp, TypeInv, SegmentsInv
  <2>4. \A t \in SegmentIDs : payload'[t] = payload[t] \/ payload'[t] = new
    BY <2>1, <2>3
  <2> QED BY <1>1, <2>1, <2>2, <2>4 DEF LossHyp, LossInv, KeptInv, PayloadInv
<1>5. CASE MergeSegments
  <2> DEFINE docs == Merged(ToCompact)
             new == [index |-> docs, vectors |-> docs]
  <2>1. payload' = [payload EXCEPT ![compaction.new] = new] /\ tombstones' = tombstones
    BY <1>5 DEF MergeSegments, managerVars
  <2>2. new.index = new.vectors
    OBVIOUS
  <2> HIDE DEF new
  <2>3. payload \in [SegmentIDs -> [index : Vectors, vectors : Vectors]]
    BY <1>1 DEF LossHyp, TypeInv, SegmentsInv
  <2>4. \A t \in SegmentIDs : payload'[t] = payload[t] \/ payload'[t] = new
    BY <2>1, <2>3
  <2> QED BY <1>1, <2>1, <2>2, <2>4 DEF LossHyp, LossInv, KeptInv, PayloadInv
<1>6. CASE Restart
  <2>1. payload' = payload /\ tombstones' = tombstones
    BY <1>1, <1>6 DEF Restart, storeVars, LossHyp, TombstonesInv
  <2> QED BY <1>1, <2>1 DEF LossHyp, LossInv, KeptInv, PayloadInv
<1> QED
  BY <1>1, <1>2, <1>3, <1>4, <1>5, <1>6 DEF SegNext, WriterStep, IndexerStep, CompactionStep,
     SearchStep, segVars, logVars, storeVars, managerVars, StoreEntry, IndexEntry,
     CheckThresholds, LockForSeal, SendBarrier, PublishSegment, SwapMutable, SegmentAges,
     ReceiveOp, FlushTimer, StartOp, ApplyVectors, FlushDone, StartCompaction, RemoveFiles,
     SaveCompaction, LoadCompacted, UnloadCompacted, StartSearch, PickMutable, SearchMutable,
     SearchImmutables, EndSearch

\* A compaction has written everything it is about to remove.
LEMMA MergeInvStep ==
    LossHyp /\ [SegNext]_segVars => MergeInv'
<1>1. SUFFICES ASSUME LossHyp, [SegNext]_segVars PROVE MergeInv'
  OBVIOUS
<1>2. CASE UNCHANGED <<compaction, files, payload, manifest, immutables, writer, tombstones>>
  BY <1>1, <1>2 DEF LossHyp, LossInv, MergeInv, Kept, Deleting
<1>3. CASE Restart
  BY <1>3 DEF Restart, IdleCompaction, MergeInv
<1>4. ASSUME ~Restart PROVE Kept' \subseteq Kept
  BY <1>1, <1>4, KeptStep DEF LossHyp
<1>5. CASE ~Restart /\ UNCHANGED <<compaction, files, payload, manifest, immutables>>
  BY <1>1, <1>4, <1>5 DEF LossHyp, LossInv, MergeInv
<1>6. CASE PersistSegment \/ PublishSegment \/ SwapMutable
  <2>1. compaction'.pc = "idle"
    BY <1>1, <1>6 DEF PersistSegment, PublishSegment, SwapMutable, LossHyp, TypeInv, LockInv
  <2> QED BY <2>1 DEF MergeInv
<1>7. CASE ~Restart /\ StartCompaction
  <2>1. compaction'.pc = "merge"
    BY <1>7 DEF StartCompaction
  <2> QED BY <2>1 DEF MergeInv
<1>8. CASE ~Restart /\ MergeSegments
  <2>1. /\ compaction' = [pc |-> "remove", before |-> compaction.before, new |-> compaction.new]
        /\ compaction.pc = "merge" /\ compaction.new \in SegmentIDs
    BY <1>1, <1>4, <1>8 DEF MergeSegments, LossHyp, TypeInv, SegmentsInv, CompactionRec
  <2>2. /\ compaction.before = manifest.immutables /\ manifest.immutables \in Seq(SegmentIDs)
        /\ Len(manifest.immutables) = CompactionFanIn /\ UNCHANGED <<manifest, immutables>>
    BY <1>1, <1>8, <2>1, SegmentAssumption
       DEF MergeSegments, managerVars, LossHyp, FewSegments, TypeInv, SegmentsInv, Manifest
  <2>3. ToCompact = manifest.immutables
    BY <2>2 DEF ToCompact
  <2> DEFINE docs == Merged(manifest.immutables)
             new == [index |-> docs, vectors |-> docs]
  <2>4. payload' = [payload EXCEPT ![compaction.new] = new] /\ compaction.new \in files'
    BY <1>8, <2>3 DEF MergeSegments
  <2>5. payload \in [SegmentIDs -> [index : Vectors, vectors : Vectors]]
    BY <1>1 DEF LossHyp, TypeInv, SegmentsInv
  <2>6. \A i \in 1..Len(manifest.immutables) : \A d \in DocIDs \ savedTombstones :
           payload[manifest.immutables[i]].vectors[d] # 0 => docs[d] # 0
    BY <2>2, <2>5, MergedType, SegmentAssumption
  <2>7. Kept \subseteq DocIDs \ savedTombstones
    BY <1>1 DEF LossHyp, TombstonesInv, Kept
  <2>8. payload'[compaction.new].index = docs
    BY <2>1, <2>4, <2>5
  <2>9. ASSUME NEW s \in Range(manifest.immutables), NEW d \in Kept, payload'[s].vectors[d] # 0
        PROVE  docs[d] # 0
    <3> HIDE DEF docs, new
    <3>1. PICK i \in 1..Len(manifest.immutables) : s = manifest.immutables[i]
      BY <2>2 DEF Range
    <3>2. s \in SegmentIDs /\ s # compaction.new
      BY <1>1, <2>1, <2>2, <3>1 DEF LossHyp, LossInv, IdsInv
    <3>3. payload'[s] = payload[s]
      BY <2>4, <2>5, <3>2
    <3> QED BY <2>6, <2>7, <2>9, <3>1, <3>3
  <2> HIDE DEF docs, new
  <2> QED BY <1>4, <1>8, <2>1, <2>2, <2>4, <2>8, <2>9 DEF MergeInv
<1>9. CASE ~Restart /\ RemoveFiles
  <2>1. /\ compaction' = [pc |-> "manifest", before |-> compaction.before, new |-> compaction.new]
        /\ compaction.pc = "remove" /\ compaction.new \in SegmentIDs
    BY <1>1, <1>4, <1>9 DEF RemoveFiles, LossHyp, TypeInv, SegmentsInv, CompactionRec
  <2>2. UNCHANGED <<payload, manifest, immutables>> /\ files' = files \ Range(ToCompact)
    BY <1>9 DEF RemoveFiles, managerVars
  <2>3. /\ manifest.immutables \in Seq(SegmentIDs) /\ CompactionFanIn \in Nat
        /\ CompactionFanIn <= Len(manifest.immutables)
    BY <1>1, <2>1, SegmentAssumption DEF LossHyp, TypeInv, SegmentsInv, Manifest
  <2>4. Range(ToCompact) \subseteq Range(manifest.immutables)
    <3>1. \A i \in 1..CompactionFanIn : ToCompact[i] = manifest.immutables[i]
      BY <2>3 DEF ToCompact
    <3>2. DOMAIN ToCompact = 1..CompactionFanIn
      BY <2>3 DEF ToCompact
    <3>3. /\ DOMAIN manifest.immutables = 1..Len(manifest.immutables)
          /\ 1..CompactionFanIn \subseteq 1..Len(manifest.immutables)
      BY <2>3
    <3> QED BY <3>1, <3>2, <3>3 DEF Range
  <2>5. compaction.new \notin Range(manifest.immutables)
    BY <1>1, <2>1 DEF LossHyp, LossInv, IdsInv
  <2> QED BY <1>1, <1>4, <1>9, <2>1, <2>2, <2>4, <2>5 DEF LossHyp, LossInv, MergeInv
<1>10. CASE ~Restart /\ SaveCompaction
  <2>1. /\ compaction' = [pc |-> "load", before |-> compaction.before, new |-> compaction.new]
        /\ compaction.pc = "manifest" /\ compaction.new \in SegmentIDs
    BY <1>1, <1>4, <1>10 DEF SaveCompaction, LossHyp, TypeInv, SegmentsInv, CompactionRec
  <2>2. UNCHANGED <<payload, files, immutables>>
    BY <1>10 DEF SaveCompaction
  <2>3. /\ manifest.immutables \in Seq(SegmentIDs)
        /\ manifest'.immutables = Compacted(manifest.immutables, compaction.new)
        /\ CompactionFanIn <= Len(manifest.immutables)
    BY <1>1, <1>10, <2>1 DEF SaveCompaction, LossHyp, TypeInv, SegmentsInv, Manifest
  <2>4. compaction.new \in Range(manifest'.immutables)
    BY <2>1, <2>3, CompactedType, SegmentAssumption
  <2> QED BY <1>1, <1>4, <1>10, <2>1, <2>2, <2>4 DEF LossHyp, LossInv, MergeInv
<1>11. CASE ~Restart /\ LoadCompacted
  <2>1. /\ compaction' = [pc |-> "unload", before |-> compaction.before, new |-> compaction.new]
        /\ compaction.pc = "load" /\ compaction.new \in SegmentIDs
    BY <1>1, <1>4, <1>11 DEF LoadCompacted, LossHyp, TypeInv, SegmentsInv, CompactionRec
  <2>2. /\ UNCHANGED <<payload, files, manifest>>
        /\ immutables' = immutables \cup (Range(manifest.immutables) \cap files)
    BY <1>11 DEF LoadCompacted, storeVars
  <2> QED BY <1>1, <1>4, <1>11, <2>1, <2>2 DEF LossHyp, LossInv, MergeInv
<1>12. CASE ~Restart /\ UnloadCompacted
  BY <1>12 DEF UnloadCompacted, IdleCompaction, MergeInv
<1> QED
  BY <1>1, <1>2, <1>3, <1>4, <1>5, <1>6, <1>7, <1>8, <1>9, <1>10, <1>11, <1>12 DEF SegNext,
     WriterStep, IndexerStep, CompactionStep, SearchStep, segVars, logVars, storeVars,
     managerVars, StoreEntry, IndexEntry, WriteTombstone, CheckThresholds, LockForSeal,
     SendBarrier, SegmentAges, ReceiveOp, FlushTimer, StartOp, ApplyVectors, FlushDone,
     StartSearch, PickMutable, SearchMutable, SearchImmutables, EndSearch

\* The entry in progress is in the store before it is queued.
LEMMA EntryInvStep ==
    LossHyp /\ [SegNext]_segVars => EntryInv'
<1>1. SUFFICES ASSUME LossHyp, [SegNext]_segVars PROVE EntryInv'
  OBVIOUS
<1>2. CASE UNCHANGED <<writer, primary>>
  BY <1>1, <1>2 DEF LossHyp, LossInv, PendingInv, EntryInv
<1>3. CASE StoreEntry
  <2>1. PICK cmd \in Commands :
          /\ cmd.ids \subseteq DocIDs /\ writer' = [pc |-> "index", cmd |-> cmd]
          /\ \A d \in DocIDs : d \in cmd.ids /\ cmd.type = "store" => primary'[d] # 0
    BY <1>1, <1>3, EntryStored DEF LossHyp
  <2> QED BY <2>1 DEF EntryInv
<1>4. CASE writer'.pc # "index"
  BY <1>4 DEF EntryInv
<1>5. CASE IndexEntry
  BY <1>1, <1>4, <1>5 DEF IndexEntry, LossHyp, TypeInv, WriterInv, WriterRec, Returns, IdleWriter,
     logVars, storeVars, managerVars
<1>6. CASE WriteTombstone
  BY <1>1, <1>4, <1>6 DEF WriteTombstone, LossHyp, TypeInv, WriterInv, WriterRec, Returns,
     IdleWriter, logVars, storeVars, managerVars
<1>7. CASE CheckThresholds
  BY <1>1, <1>4, <1>7 DEF CheckThresholds, LossHyp, TypeInv, WriterInv, WriterRec, Returns,
     IdleWriter, logVars, storeVars, managerVars
<1>8. CASE LockForSeal
  BY <1>1, <1>4, <1>8 DEF LockForSeal, LossHyp, TypeInv, WriterInv, WriterRec, Returns,
     IdleWriter, logVars, storeVars, managerVars
<1>9. CASE SendBarrier
  BY <1>1, <1>4, <1>9 DEF SendBarrier, LossHyp, TypeInv, WriterInv, WriterRec, Returns,
     IdleWriter, logVars, storeVars, managerVars
<1>10. CASE PersistSegment
  BY <1>1, <1>4, <1>10 DEF PersistSegment, LossHyp, TypeInv, WriterInv, WriterRec, Returns,
     IdleWriter, logVars, storeVars, managerVars
<1>11. CASE PublishSegment
  BY <1>1, <1>4, <1>11 DEF PublishSegment, LossHyp, TypeInv, WriterInv, WriterRec, Returns,
     IdleWriter, logVars, storeVars, managerVars
<1>12. CASE SwapMutable
  BY <1>1, <1>4, <1>12 DEF SwapMutable, LossHyp, TypeInv, WriterInv, WriterRec, Returns,
     IdleWriter, logVars, storeVars, managerVars
<1>13. CASE FlushDone
  BY <1>1, <1>2, <1>4, <1>13 DEF FlushDone, LossHyp, TypeInv, WriterInv, WriterRec, Returns,
     IdleWriter,
     logVars, storeVars, managerVars, IndexerInv
<1>14. CASE Restart
  BY <1>1, <1>4, <1>14 DEF Restart, LossHyp, TypeInv, WriterInv, WriterRec, Returns, IdleWriter,
     logVars, storeVars, managerVars
<1> QED
  BY <1>1, <1>2, <1>3, <1>4, <1>5, <1>6, <1>7, <1>8, <1>9, <1>10, <1>11, <1>12, <1>13, <1>14 DEF
     SegNext, WriterStep, IndexerStep, CompactionStep, SearchStep, segVars, logVars, storeVars,
     managerVars, SegmentAges, ReceiveOp, FlushTimer, StartOp, ApplyVectors, StartCompaction,
     MergeSegments, RemoveFiles, SaveCompaction, LoadCompacted, UnloadCompacted, StartSearch,
     PickMutable, SearchMutable, SearchImmutables, EndSearch

\* So is what is queued, unless it was deleted since.
LEMMA StoresInvStep ==
    LossHyp /\ [SegNext]_segVars => StoresInv'
<1>1. SUFFICES ASSUME LossHyp, [SegNext]_segVars PROVE StoresInv'
  OBVIOUS
<1>2. CASE UNCHANGED <<writer, tombstones, primary, indexerCh, indexer>>
  BY <1>1, <1>2 DEF LossHyp, LossInv, PendingInv, StoresInv, Kept, Deleting, QueuedOps
<1>3. CASE Restart
  BY <1>3, NothingQueued DEF StoresInv
<1>4. ASSUME ~Restart PROVE Kept' \subseteq Kept /\ Kept \subseteq DocIDs
  BY <1>1, <1>4, KeptStep DEF LossHyp, Kept
<1>5. CASE ~Restart /\ UNCHANGED <<primary, indexerCh, indexer>>
  BY <1>1, <1>4, <1>5 DEF LossHyp, LossInv, PendingInv, StoresInv, QueuedOps
<1>6. CASE ~Restart /\ StoreEntry
  <2>1. UNCHANGED <<indexerCh, indexer, tombstones>>
    BY <1>6 DEF StoreEntry, managerVars
  <2>2. PICK cmd \in Commands :
          /\ cmd.type \in {"store", "delete"} /\ writer' = [pc |-> "index", cmd |-> cmd]
          /\ \A d \in DocIDs : /\ d \notin cmd.ids => primary'[d] = primary[d]
                               /\ d \in cmd.ids /\ cmd.type = "store" => primary'[d] # 0
    BY <1>1, <1>6, EntryStored DEF LossHyp
  <2>3. cmd.type = "delete" => Kept' \cap cmd.ids = {}
    BY <2>2 DEF Kept, Deleting
  <2>4. QueuedOps' = QueuedOps
    BY <2>1 DEF QueuedOps
  <2> QED BY <1>1, <1>4, <1>6, <2>2, <2>3, <2>4 DEF LossHyp, LossInv, PendingInv, StoresInv
<1>7. CASE ~Restart /\ IndexEntry
  <2>1. primary' = primary /\ writer.pc = "index"
    BY <1>7 DEF IndexEntry, storeVars
  <2>2. QueuedOps' \subseteq QueuedOps \cup {EntryOp}
    BY <1>1, <1>7, EntryQueued DEF LossHyp
  <2>3. EntryOp.type = "store" => \A d \in EntryOp.ids : primary[d] # 0
    BY <1>1, <2>1 DEF LossHyp, LossInv, PendingInv, EntryInv, EntryOp
  <2> QED BY <1>1, <1>4, <1>7, <2>1, <2>2, <2>3 DEF LossHyp, LossInv, PendingInv, StoresInv
<1>8. CASE ~Restart /\ SendBarrier
  <2>1. primary' = primary /\ \A op \in QueuedOps' : op.type = "store" => op \in QueuedOps
    BY <1>1, <1>8, BarrierQueued DEF SendBarrier, storeVars, LossHyp, LossInv
  <2> QED BY <1>1, <1>4, <1>8, <2>1 DEF LossHyp, LossInv, PendingInv, StoresInv
<1>9. CASE ~Restart /\ ReceiveOp
  <2>1. primary' = primary /\ \A op \in QueuedOps' : op.type = "store" => op \in QueuedOps
    BY <1>1, <1>9, ReceivedQueued DEF ReceiveOp, storeVars, LossHyp, LossInv
  <2> QED BY <1>1, <1>4, <1>9, <2>1 DEF LossHyp, LossInv, PendingInv, StoresInv
<1>10. CASE ~Restart /\ StartOp
  <2>1. primary' = primary /\ \A op \in QueuedOps' : op.type = "store" => op \in QueuedOps
    BY <1>1, <1>10, OpStarted DEF StartOp, storeVars, LossHyp, LossInv
  <2> QED BY <1>1, <1>4, <1>10, <2>1 DEF LossHyp, LossInv, PendingInv, StoresInv
<1>11. CASE ~Restart /\ ApplyVectors
  <2>1. primary' = primary /\ \A op \in QueuedOps' : op.type = "store" => op \in QueuedOps
    BY <1>1, <1>11, VectorsApplied DEF ApplyVectors, storeVars, LossHyp, LossInv
  <2> QED BY <1>1, <1>4, <1>11, <2>1 DEF LossHyp, LossInv, PendingInv, StoresInv
<1>12. CASE ~Restart /\ FlushDone
  <2>1. primary' = primary /\ \A op \in QueuedOps' : op.type = "store" => op \in QueuedOps
    BY <1>1, <1>12, BatchDone DEF FlushDone, storeVars, LossHyp, LossInv
  <2> QED BY <1>1, <1>4, <1>12, <2>1 DEF LossHyp, LossInv, PendingInv, StoresInv
<1>13. CASE ~Restart /\ FlushTimer
  <2>1. indexer'.ops = indexer.ops /\ indexerCh' = indexerCh /\ primary' = primary
    BY <1>1, <1>13 DEF FlushTimer, storeVars, LossHyp, TypeInv, IndexerInv, IndexerRec
  <2> QED BY <1>1, <1>4, <1>13, <2>1 DEF LossHyp, LossInv, PendingInv, StoresInv, QueuedOps
<1> QED
  BY <1>1, <1>2, <1>3, <1>4, <1>5, <1>6, <1>7, <1>8, <1>9, <1>10, <1>11, <1>12, <1>13 DEF SegNext,
     WriterStep, IndexerStep, CompactionStep, SearchStep, segVars, logVars, storeVars,
     managerVars, WriteTombstone, CheckThresholds, LockForSeal, PersistSegment, PublishSegment,
     SwapMutable, SegmentAges, StartCompaction, MergeSegments, RemoveFiles, SaveCompaction,
     LoadCompacted, UnloadCompacted, StartSearch, PickMutable, SearchMutable, SearchImmutables,
     EndSearch

\* The vectors the indexer has read are those of the documents it is about to add.
LEMMA VectorsInvStep ==
    LossHyp /\ [SegNext]_segVars => VectorsInv'
<1>1. SUFFICES ASSUME LossHyp, [SegNext]_segVars PROVE VectorsInv'
  OBVIOUS
<1>2. CASE UNCHANGED <<writer, tombstones, indexer>>
  BY <1>1, <1>2 DEF LossHyp, LossInv, PendingInv, VectorsInv, Kept, Deleting
<1>3. CASE Restart
  BY <1>3 DEF Restart, IdleIndexer, VectorsInv
<1>4. ASSUME ~Restart PROVE Kept' \subseteq Kept /\ Kept \subseteq DocIDs
  BY <1>1, <1>4, KeptStep DEF LossHyp, Kept
<1>5. CASE ~Restart /\ indexer' = indexer
  BY <1>1, <1>4, <1>5 DEF LossHyp, LossInv, PendingInv, VectorsInv
<1>6. CASE ReceiveOp
  <2>1. indexer'.pc # "apply"
    BY <1>1, <1>6 DEF ReceiveOp, LossHyp, TypeInv, IndexerInv, IndexerRec
  <2> QED BY <2>1 DEF VectorsInv
<1>7. CASE FlushTimer
  <2>1. indexer'.pc # "apply"
    BY <1>1, <1>7 DEF FlushTimer, LossHyp, TypeInv, IndexerInv, IndexerRec
  <2> QED BY <2>1 DEF VectorsInv
<1>8. CASE ~Restart /\ StartOp
  <2> DEFINE op == Head(indexer.ops)
  <2>1. CASE indexer'.pc # "apply"
    BY <2>1 DEF VectorsInv
  <2>2. CASE indexer'.pc = "apply"
    <3>1. /\ op.type = "store" /\ op \in QueuedOps
          /\ indexer' = [pc |-> "apply", ops |-> indexer.ops, barrier |-> indexer.barrier,
                         vectors |-> LoadVectors(op.ids)]
      BY <1>1, <1>8, <2>2, OpStarted DEF LossHyp, LossInv
    <3>2. \A d \in op.ids \cap Kept : primary[d] # 0
      BY <1>1, <3>1 DEF LossHyp, LossInv, PendingInv, StoresInv
    <3>3. \A d \in op.ids \cap Kept' : d \in DocIDs /\ LoadVectors(op.ids)[d] # 0
      BY <1>4, <1>8, <3>2 DEF LoadVectors
    <3>4. indexer'.ops = indexer.ops /\ indexer'.vectors = LoadVectors(op.ids)
      BY <3>1
    <3> QED BY <3>1, <3>3, <3>4 DEF VectorsInv
  <2> QED BY <2>1, <2>2
<1>9. CASE ApplyVectors
  <2>1. indexer'.pc # "apply"
    BY <1>1, <1>9 DEF ApplyVectors, LossHyp, TypeInv, IndexerInv, IndexerRec
  <2> QED BY <2>1 DEF VectorsInv
<1>10. CASE FlushDone
  BY <1>10 DEF FlushDone, IdleIndexer, VectorsInv
<1> QED
  BY <1>1, <1>2, <1>3, <1>4, <1>5, <1>6, <1>7, <1>8, <1>9, <1>10 DEF SegNext, WriterStep,
     IndexerStep, CompactionStep, SearchStep, segVars, logVars, storeVars, managerVars,
     StoreEntry, IndexEntry, WriteTombstone, CheckThresholds, LockForSeal, SendBarrier,
     PersistSegment, PublishSegment, SwapMutable, SegmentAges, StartCompaction, MergeSegments,
     RemoveFiles, SaveCompaction, LoadCompacted, UnloadCompacted, StartSearch, PickMutable,
     SearchMutable, SearchImmutables, EndSearch

\* A document in a loaded segment's graph.
Sealed(d) == \E s \in immutables : payload[s].index[d] # 0

\* It stays in one until it is deleted: a compaction loads the segment that has it before it
\* drops the one that had it.
LEMMA SealedStep ==
    ASSUME LossHyp, [SegNext]_segVars, ~Restart, NEW d \in Kept', Sealed(d)
    PROVE  Sealed(d)'
<1>1. d \in Kept /\ d \in DocIDs /\ d \notin tombstones
  BY KeptStep DEF LossHyp, Kept
<1>2. CASE UNCHANGED <<immutables, payload>>
  BY <1>2 DEF Sealed
<1>3. CASE PersistSegment
  <2>1. mutable.id \notin immutables /\ mutable.id \in SegmentIDs /\ immutables \subseteq SegmentIDs
    BY <1>3 DEF PersistSegment, LossHyp, LossInv, IdsInv, TypeInv, SegmentsInv, MutableRec
  <2>2. \A s \in immutables : payload'[s] = payload[s]
    BY <1>3, <2>1 DEF PersistSegment, LossHyp, TypeInv, SegmentsInv
  <2>3. immutables' = immutables
    BY <1>3 DEF PersistSegment
  <2> QED BY <2>2, <2>3 DEF Sealed
<1>4. CASE PublishSegment
  BY <1>4 DEF PublishSegment, storeVars, Sealed
<1>5. CASE MergeSegments
  <2>1. compaction.new \notin immutables /\ immutables \subseteq SegmentIDs
    BY <1>5 DEF MergeSegments, LossHyp, LossInv, IdsInv, TypeInv, SegmentsInv
  <2>2. \A s \in immutables : payload'[s] = payload[s]
    BY <1>5, <2>1 DEF MergeSegments, LossHyp, TypeInv, SegmentsInv
  <2>3. immutables' = immutables
    BY <1>5 DEF MergeSegments, managerVars
  <2> QED BY <2>2, <2>3 DEF Sealed
<1>6. CASE LoadCompacted
  BY <1>6 DEF LoadCompacted, storeVars, Sealed
<1>7. CASE UnloadCompacted
  <2>1. PICK s \in immutables : payload[s].index[d] # 0
    BY DEF Sealed
  <2>2. /\ compaction.pc = "unload" /\ payload' = payload
        /\ immutables' = immutables \ (Range(compaction.before) \ Range(manifest.immutables))
    BY <1>7 DEF UnloadCompacted, storeVars
  <2>3. CASE s \in immutables'
    BY <2>1, <2>2, <2>3 DEF Sealed
  <2>4. CASE s \notin immutables'
    <3>1. s \in Range(compaction.before) /\ s \in SegmentIDs
      BY <2>1, <2>2, <2>4 DEF LossHyp, TypeInv, SegmentsInv
    <3>2. payload[s].vectors[d] # 0
      BY <1>1, <2>1, <3>1 DEF LossHyp, LossInv, KeptInv, PayloadInv
    <3>3. payload[compaction.new].index[d] # 0 /\ compaction.new \in immutables
      BY <1>1, <2>2, <3>1, <3>2 DEF LossHyp, LossInv, MergeInv
    <3>4. compaction.new \in immutables'
      BY <2>2, <3>3 DEF LossHyp, LossInv, IdsInv
    <3> QED BY <2>2, <3>3, <3>4 DEF Sealed
  <2> QED BY <2>3, <2>4
<1> QED
  BY <1>1, <1>2, <1>3, <1>4, <1>5, <1>6, <1>7 DEF SegNext, WriterStep, IndexerStep,
     CompactionStep, SearchStep, segVars, logVars, storeVars, managerVars, StoreEntry, IndexEntry,
     WriteTombstone, CheckThresholds, LockForSeal, SendBarrier, SwapMutable, SegmentAges,
     ReceiveOp, FlushTimer, StartOp, ApplyVectors, FlushDone, StartCompaction, RemoveFiles,
     SaveCompaction, StartSearch, PickMutable, SearchMutable, SearchImmutables, EndSearch

\* It stays in the mutable segment, or a seal takes both into a loaded one.
LEMMA GraphStep ==
    ASSUME LossHyp, [SegNext]_segVars, ~Restart, NEW d \in Kept', mutable.docs[d] # 0
    PROVE  \/ mutable'.id = mutable.id /\ mutable'.docs[d] # 0
           \/ /\ mutable'.id = nextSegment /\ UNCHANGED <<search, payload>>
              /\ mutable.id \in immutables' /\ payload'[mutable.id].index[d] # 0
<1>1. d \in Kept /\ d \in DocIDs /\ d \notin tombstones
  BY KeptStep DEF LossHyp, Kept
<1>2. CASE UNCHANGED <<mutable>>
  BY <1>1, <1>2
<1>3. CASE IndexEntry
  <2>1. writer.pc = "index" /\ (mutable' = mutable \/ mutable' = AppliedNow(EntryOp))
    BY <1>3, EntryQueued DEF LossHyp, IndexEntry
  <2>2. writer.cmd.type \in {"store", "delete"}
    BY <2>1, CommandType DEF LossHyp
  <2>3. writer.cmd.type = "delete" => d \notin writer.cmd.ids
    BY <1>1, <2>1 DEF Kept, Deleting
  <2> QED BY <1>1, <2>1, <2>2, <2>3, EntryApplied DEF LossHyp
<1>4. CASE SwapMutable
  <2>1. /\ writer.pc = "swap" /\ UNCHANGED <<search, payload, immutables>>
        /\ mutable'.id = nextSegment
    BY <1>4 DEF SwapMutable, NewMutableSegment
  <2>2. mutable.id \in immutables /\ payload[mutable.id].index = mutable.docs
    BY <2>1 DEF LossHyp, LossInv, IdsInv, SealInv
  <2> QED BY <2>1, <2>2
<1>5. CASE SegmentAges
  <2>1. mutable'.id = mutable.id /\ mutable'.docs = mutable.docs
    BY <1>5 DEF SegmentAges, LossHyp, TypeInv, SegmentsInv, MutableRec
  <2> QED BY <2>1
<1>6. CASE StartOp
  <2>1. \/ mutable' = mutable
        \/ /\ mutable' = Without(mutable, Head(indexer.ops).ids)
           /\ Head(indexer.ops).type = "delete" /\ Head(indexer.ops) \in QueuedOps
    BY <1>6, OpStarted DEF LossHyp, LossInv
  <2>2. CASE mutable' = mutable
    BY <2>2
  <2>3. CASE /\ mutable' = Without(mutable, Head(indexer.ops).ids)
             /\ Head(indexer.ops).type = "delete" /\ Head(indexer.ops) \in QueuedOps
    <3>1. d \notin Head(indexer.ops).ids
      BY <1>1, <2>3 DEF LossHyp, LossInv, KeptInv, DeletesInv
    <3>2. /\ mutable'.id = mutable.id
          /\ mutable'.docs = [e \in DocIDs |-> IF e \in Head(indexer.ops).ids THEN 0 ELSE mutable.docs[e]]
      BY <2>3, WithoutType, SegmentAssumption DEF LossHyp, TypeInv, SegmentsInv
    <3> QED BY <1>1, <3>1, <3>2
  <2> QED BY <2>1, <2>2, <2>3
<1>7. CASE ApplyVectors
  BY <1>1, <1>7, VectorsInGraph DEF LossHyp
<1> QED
  BY <1>1, <1>2, <1>3, <1>4, <1>5, <1>6, <1>7 DEF SegNext, WriterStep, IndexerStep,
     CompactionStep, SearchStep, segVars, logVars, storeVars, managerVars, StoreEntry,
     WriteTombstone, CheckThresholds, LockForSeal, SendBarrier, PersistSegment, PublishSegment,
     ReceiveOp, FlushTimer, FlushDone, StartCompaction, MergeSegments, RemoveFiles,
     SaveCompaction, LoadCompacted, UnloadCompacted, StartSearch, PickMutable, SearchMutable,
     SearchImmutables, EndSearch

\* So what is indexed stays indexed.
LEMMA IndexedStep ==
    ASSUME LossHyp, [SegNext]_segVars, ~Restart, NEW d \in Kept', Indexed(d)
    PROVE  Indexed(d)'
<1>1. CASE Sealed(d)
  BY <1>1, SealedStep DEF Sealed, Indexed
<1>2. CASE mutable.docs[d] # 0
  <2>1. \/ mutable'.docs[d] # 0
        \/ mutable.id \in immutables' /\ payload'[mutable.id].index[d] # 0
    BY <1>2, GraphStep
  <2> QED BY <2>1 DEF Indexed
<1> QED BY <1>1, <1>2 DEF Indexed, Sealed

\* What is stored is indexed or on its way.
LEMMA ReachedInvStep ==
    LossHyp /\ [SegNext]_segVars => ReachedInv'
<1>1. SUFFICES ASSUME LossHyp, [SegNext]_segVars PROVE ReachedInv'
  OBVIOUS
<1>2. CASE UNCHANGED <<writer, tombstones, primary, indexerCh, indexer, mutable, immutables,
   payload>>
  BY <1>1, <1>2 DEF LossHyp, LossInv, PendingInv, ReachedInv, Kept, Deleting, QueuedOps, Indexed,
     Pending
<1>3. CASE Restart
  <2>1. SUFFICES ASSUME NEW d \in Kept', primary'[d] # 0 PROVE Indexed(d)'
    BY DEF ReachedInv
  <2>2. UNCHANGED <<primary, payload, savedTombstones>> /\ tombstones' = savedTombstones
    BY <1>3 DEF Restart, storeVars
  <2>3. d \in DocIDs /\ d \notin savedTombstones
    BY <2>2 DEF Kept
  <2>4. \/ mutable'.docs[d] = primary[d]
        \/ \E s \in immutables' : payload[s].vectors[d] # 0
    BY <1>1, <1>3, <2>3, RestartLoads DEF LossHyp
  <2>5. immutables' \subseteq SegmentIDs
    BY <1>1, <1>3 DEF Restart, LossHyp, TypeInv, SegmentsInv
  <2>6. \A s \in immutables' : payload[s].vectors[d] # 0 => payload'[s].index[d] # 0
    BY <1>1, <2>2, <2>3, <2>5 DEF LossHyp, LossInv, KeptInv, PayloadInv
  <2> QED BY <2>1, <2>2, <2>4, <2>6 DEF Indexed
<1>4. ASSUME ~Restart PROVE /\ Kept' \subseteq Kept /\ Kept \subseteq DocIDs
                               /\ \A d \in Kept' : Indexed(d) => Indexed(d)'
  BY <1>1, <1>4, KeptStep, IndexedStep DEF LossHyp, Kept
<1>5. CASE ~Restart /\ UNCHANGED <<writer, primary, indexerCh, indexer>>
  BY <1>1, <1>4, <1>5 DEF LossHyp, LossInv, PendingInv, ReachedInv, Pending, QueuedOps
<1>6. CASE ~Restart /\ StoreEntry
  <2>1. PICK cmd \in Commands :
          /\ cmd.type \in {"store", "delete"} /\ writer.pc = "idle" /\ writer' = [pc |-> "index", cmd |-> cmd]
          /\ \A d \in DocIDs : /\ d \notin cmd.ids => primary'[d] = primary[d]
                               /\ d \in cmd.ids /\ cmd.type = "delete" => primary'[d] = 0
    BY <1>1, <1>6, EntryStored DEF LossHyp
  <2>2. QueuedOps' = QueuedOps
    BY <1>6 DEF StoreEntry, QueuedOps
  <2>3. \A d \in cmd.ids : cmd.type = "store" => Pending(d)'
    BY <2>1 DEF Pending
  <2>4. \A d : Pending(d) => Pending(d)'
    BY <2>1, <2>2 DEF Pending
  <2> QED BY <1>1, <1>4, <1>6, <2>1, <2>3, <2>4 DEF LossHyp, LossInv, PendingInv, ReachedInv
<1>7. CASE ~Restart /\ IndexEntry
  <2>1. primary' = primary /\ writer.pc = "index" /\ immutables' = immutables /\ payload' = payload
    BY <1>7 DEF IndexEntry, storeVars
  <2>2. \/ QueuedOps' = QueuedOps \cup {EntryOp}
        \/ mutable' = AppliedNow(EntryOp) /\ QueuedOps' = QueuedOps
    BY <1>1, <1>7, EntryQueued DEF LossHyp
  <2>3. ASSUME NEW d \in Kept', primary[d] # 0, Pending(d)
        PROVE  Indexed(d)' \/ Pending(d)'
    <3>1. CASE \E op \in QueuedOps : op.type = "store" /\ d \in op.ids
      BY <2>2, <3>1 DEF Pending
    <3>2. CASE writer.cmd.type = "store" /\ d \in writer.cmd.ids
      <4>1. EntryOp.type = "store" /\ d \in EntryOp.ids
        BY <3>2 DEF EntryOp
      <4>2. CASE EntryOp \in QueuedOps'
        BY <4>1, <4>2 DEF Pending
      <4>3. CASE mutable' = AppliedNow(EntryOp)
        <5>1. d \in DocIDs
          BY <1>4, <1>7
        <5>2. mutable'.docs[d] = primary[d]
          BY <1>1, <2>1, <2>3, <3>2, <4>3, <5>1, EntryApplied DEF LossHyp
        <5> QED BY <2>3, <5>2 DEF Indexed
      <4> QED BY <2>2, <4>2, <4>3
    <3> QED BY <2>3, <3>1, <3>2 DEF Pending
  <2> QED BY <1>1, <1>4, <1>7, <2>1, <2>3 DEF LossHyp, LossInv, PendingInv, ReachedInv
<1>8. CASE ~Restart /\ WriteTombstone
  <2>1. primary' = primary /\ writer.pc # "index" /\ UNCHANGED <<indexerCh, indexer>>
    BY <1>8 DEF WriteTombstone, storeVars
  <2> QED BY <1>1, <1>4, <1>8, <2>1 DEF LossHyp, LossInv, PendingInv, ReachedInv, Pending, QueuedOps
<1>9. CASE ~Restart /\ CheckThresholds
  <2>1. primary' = primary /\ writer.pc # "index" /\ UNCHANGED <<indexerCh, indexer>>
    BY <1>9 DEF CheckThresholds, storeVars
  <2> QED BY <1>1, <1>4, <1>9, <2>1 DEF LossHyp, LossInv, PendingInv, ReachedInv, Pending, QueuedOps
<1>10. CASE ~Restart /\ LockForSeal
  <2>1. primary' = primary /\ writer.pc # "index" /\ UNCHANGED <<indexerCh, indexer>>
    BY <1>10 DEF LockForSeal, storeVars
  <2> QED BY <1>1, <1>4, <1>10, <2>1 DEF LossHyp, LossInv, PendingInv, ReachedInv, Pending, QueuedOps
<1>11. CASE ~Restart /\ PersistSegment
  <2>1. primary' = primary /\ writer.pc # "index" /\ UNCHANGED <<indexerCh, indexer>>
    BY <1>11 DEF PersistSegment, storeVars
  <2> QED BY <1>1, <1>4, <1>11, <2>1 DEF LossHyp, LossInv, PendingInv, ReachedInv, Pending, QueuedOps
<1>12. CASE ~Restart /\ PublishSegment
  <2>1. primary' = primary /\ writer.pc # "index" /\ UNCHANGED <<indexerCh, indexer>>
    BY <1>12 DEF PublishSegment, storeVars
  <2> QED BY <1>1, <1>4, <1>12, <2>1 DEF LossHyp, LossInv, PendingInv, ReachedInv, Pending, QueuedOps
<1>13. CASE ~Restart /\ SwapMutable
  <2>1. primary' = primary /\ writer.pc # "index" /\ UNCHANGED <<indexerCh, indexer>>
    BY <1>13 DEF SwapMutable, storeVars
  <2> QED BY <1>1, <1>4, <1>13, <2>1 DEF LossHyp, LossInv, PendingInv, ReachedInv, Pending, QueuedOps
<1>14. CASE ~Restart /\ SendBarrier
  <2>1. primary' = primary /\ writer.pc # "index"
    BY <1>14 DEF SendBarrier, storeVars
  <2>2. QueuedOps \subseteq QueuedOps'
    BY <1>1, <1>14, BarrierQueued DEF LossHyp
  <2> QED BY <1>1, <1>4, <1>14, <2>1, <2>2 DEF LossHyp, LossInv, PendingInv, ReachedInv, Pending
<1>15. CASE ~Restart /\ ReceiveOp
  <2>1. primary' = primary
    BY <1>15 DEF ReceiveOp, storeVars
  <2>2. \A op \in QueuedOps : op.type = "store" => op \in QueuedOps'
    BY <1>1, <1>15, ReceivedQueued DEF LossHyp, LossInv
  <2>3. writer.pc = "index" => writer' = writer
    BY <1>1, <1>15 DEF ReceiveOp, LossHyp, TypeInv, IndexerInv
  <2> QED BY <1>1, <1>4, <1>15, <2>1, <2>2, <2>3 DEF LossHyp, LossInv, PendingInv, ReachedInv, Pending
<1>16. CASE ~Restart /\ FlushTimer
  <2>1. indexer'.ops = indexer.ops /\ indexerCh' = indexerCh /\ primary' = primary /\ writer' = writer
    BY <1>1, <1>16 DEF FlushTimer, storeVars, LossHyp, TypeInv, IndexerInv, IndexerRec
  <2> QED BY <1>1, <1>4, <1>16, <2>1 DEF LossHyp, LossInv, PendingInv, ReachedInv, Pending, QueuedOps
<1>17. CASE ~Restart /\ StartOp
  <2>1. primary' = primary
    BY <1>17 DEF StartOp, storeVars
  <2>2. \A op \in QueuedOps : op.type = "store" => op \in QueuedOps'
    BY <1>1, <1>17, OpStarted DEF LossHyp, LossInv
  <2>3. writer.pc = "index" => writer' = writer
    BY <1>1, <1>17 DEF StartOp, LossHyp, TypeInv, IndexerInv
  <2> QED BY <1>1, <1>4, <1>17, <2>1, <2>2, <2>3 DEF LossHyp, LossInv, PendingInv, ReachedInv, Pending
<1>18. CASE ~Restart /\ ApplyVectors
  <2> DEFINE op == Head(indexer.ops)
  <2>1. primary' = primary /\ writer' = writer /\ indexer.pc = "apply"
    BY <1>18 DEF ApplyVectors, storeVars
  <2>2. QueuedOps = QueuedOps' \cup {op}
    BY <1>1, <1>18, VectorsApplied DEF LossHyp
  <2>3. \A d \in op.ids \cap Kept : indexer.vectors[d] # 0
    BY <1>1, <2>1 DEF LossHyp, LossInv, PendingInv, VectorsInv
  <2>4. \A d \in op.ids \cap Kept : mutable'.docs[d] # 0
    BY <1>1, <1>4, <1>18, <2>3, VectorsInGraph DEF LossHyp
  <2> HIDE DEF op
  <2>5. \A d \in Kept : Pending(d) => Pending(d)' \/ mutable'.docs[d] # 0
    BY <2>1, <2>2, <2>4 DEF Pending
  <2> QED BY <1>1, <1>4, <1>18, <2>1, <2>5 DEF LossHyp, LossInv, PendingInv, ReachedInv, Indexed
<1>19. CASE ~Restart /\ FlushDone
  <2>1. primary' = primary
    BY <1>19 DEF FlushDone, storeVars
  <2>2. \A op \in QueuedOps : op.type = "store" => op \in QueuedOps'
    BY <1>1, <1>19, BatchDone DEF LossHyp, LossInv
  <2>3. writer.pc = "index" => writer' = writer
    BY <1>1, <1>19 DEF FlushDone, LossHyp, TypeInv, IndexerInv
  <2> QED BY <1>1, <1>4, <1>19, <2>1, <2>2, <2>3 DEF LossHyp, LossInv, PendingInv, ReachedInv, Pending
<1> QED
  BY <1>1, <1>2, <1>3, <1>4, <1>5, <1>6, <1>7, <1>8, <1>9, <1>10, <1>11, <1>12, <1>13, <1>14,
     <1>15, <1>16, <1>17, <1>18, <1>19 DEF SegNext, WriterStep, IndexerStep, CompactionStep,
     SearchStep, segVars, logVars, storeVars, managerVars, SegmentAges, StartCompaction,
     MergeSegments, RemoveFiles, SaveCompaction, LoadCompacted, UnloadCompacted, StartSearch,
     PickMutable, SearchMutable, SearchImmutables, EndSearch

\* Only the next entry can end the keeping of a document, or change the store.
LEMMA KeepsOn ==
    TypeInv /\ TombstonesInv /\ [SegNext]_segVars /\ ~StoreEntry =>
        Kept \subseteq Kept' /\ primary' = primary /\ tombstones \subseteq tombstones'
<1>1. SUFFICES ASSUME TypeInv, TombstonesInv, [SegNext]_segVars, ~StoreEntry
               PROVE  Kept \subseteq Kept' /\ primary' = primary /\ tombstones \subseteq tombstones'
  OBVIOUS
<1>2. CASE UNCHANGED <<writer, tombstones, primary>>
  BY <1>2 DEF Kept, Deleting
<1>3. CASE IndexEntry
  BY <1>1, <1>3 DEF IndexEntry, Kept, Deleting, TypeInv, WriterInv, WriterRec, Returns,
     IdleWriter, logVars, storeVars, managerVars
<1>4. CASE WriteTombstone
  <2>1. /\ writer.pc = "tombstone" /\ writer.cmd.type = "delete" /\ primary' = primary
        /\ tombstones' = tombstones \cup writer.cmd.ids /\ writer'.pc = "idle"
    BY <1>1, <1>4 DEF WriteTombstone, Returns, IdleWriter, TypeInv, WriterInv
  <2> QED BY <2>1 DEF Kept, Deleting
<1>5. CASE CheckThresholds
  BY <1>1, <1>5 DEF CheckThresholds, Kept, Deleting, TypeInv, WriterInv, WriterRec, Returns,
     IdleWriter, logVars, storeVars, managerVars
<1>6. CASE LockForSeal
  BY <1>1, <1>6 DEF LockForSeal, Kept, Deleting, TypeInv, WriterInv, WriterRec, Returns,
     IdleWriter, logVars, storeVars, managerVars
<1>7. CASE SendBarrier
  BY <1>1, <1>7 DEF SendBarrier, Kept, Deleting, TypeInv, WriterInv, WriterRec, Returns,
     IdleWriter, logVars, storeVars, managerVars
<1>8. CASE PersistSegment
  BY <1>1, <1>8 DEF PersistSegment, Kept, Deleting, TypeInv, WriterInv, WriterRec, Returns,
     IdleWriter, logVars, storeVars, managerVars
<1>9. CASE PublishSegment
  BY <1>1, <1>9 DEF PublishSegment, Kept, Deleting, TypeInv, WriterInv, WriterRec, Returns,
     IdleWriter, logVars, storeVars, managerVars
<1>10. CASE SwapMutable
  BY <1>1, <1>10 DEF SwapMutable, Kept, Deleting, TypeInv, WriterInv, WriterRec, Returns,
     IdleWriter, logVars, storeVars, managerVars
<1>11. CASE FlushDone
  BY <1>1, <1>11 DEF FlushDone, Kept, Deleting, TypeInv, WriterInv, WriterRec, Returns,
     IdleWriter, logVars, storeVars, managerVars, IndexerInv
<1>12. CASE Restart
  BY <1>1, <1>12 DEF Restart, IdleWriter, storeVars, TombstonesInv, Kept, Deleting
<1> QED
  BY <1>1, <1>2, <1>3, <1>4, <1>5, <1>6, <1>7, <1>8, <1>9, <1>10, <1>11, <1>12 DEF SegNext,
     WriterStep, IndexerStep, CompactionStep, SearchStep, segVars, logVars, storeVars,
     managerVars, SegmentAges, ReceiveOp, FlushTimer, StartOp, ApplyVectors, StartCompaction,
     MergeSegments, RemoveFiles, SaveCompaction, LoadCompacted, UnloadCompacted, StartSearch,
     PickMutable, SearchMutable, SearchImmutables, EndSearch

\* The segment a search is in keeps its graph once it is sealed, or is replaced.
LEMMA SearchedStep ==
    ASSUME LossHyp, [SegNext]_segVars, search.pc = "mutable", search.segment # mutable.id, ~Restart
    PROVE  payload'[search.segment] = payload[search.segment] /\ search.segment # mutable'.id
<1>1. search.segment \in SegmentIDs /\ search.segment # nextSegment
  BY SegmentNumbers DEF LossHyp, LossInv, IdsInv, TypeInv, SegmentsInv
<1>2. payload'[search.segment] = payload[search.segment]
  <2>1. CASE UNCHANGED payload
    BY <1>1, <2>1
  <2>2. CASE PersistSegment
    BY <1>1, <2>2 DEF PersistSegment, LossHyp, TypeInv, SegmentsInv
  <2>3. CASE MergeSegments
    BY <1>1, <2>3 DEF MergeSegments, LossHyp, LossInv, IdsInv, TypeInv, SegmentsInv
  <2> QED
    BY <2>1, <2>2, <2>3 DEF SegNext, WriterStep, IndexerStep, CompactionStep, SearchStep, segVars,
       logVars, storeVars, managerVars, StoreEntry, IndexEntry, WriteTombstone, CheckThresholds,
       LockForSeal, SendBarrier, PublishSegment, SwapMutable, SegmentAges, ReceiveOp, FlushTimer,
       StartOp, ApplyVectors, FlushDone, StartCompaction, RemoveFiles, SaveCompaction,
       LoadCompacted, UnloadCompacted, StartSearch, PickMutable, SearchMutable, SearchImmutables,
       EndSearch
<1>3. search.segment # mutable'.id
  <2>1. CASE UNCHANGED mutable
    BY <1>1, <2>1
  <2>2. CASE IndexEntry
    BY <1>1, <2>2, AppliedNowType, SegmentAssumption DEF IndexEntry, LossHyp, TypeInv, StoreInv,
       SegmentsInv
  <2>3. CASE SwapMutable
    BY <1>1, <2>3 DEF SwapMutable, NewMutableSegment
  <2>4. CASE SegmentAges
    BY <1>1, <2>4 DEF SegmentAges, LossHyp, TypeInv, SegmentsInv, MutableRec
  <2>5. CASE StartOp
    <3>1. mutable' = mutable \/ mutable' = Without(mutable, Head(indexer.ops).ids)
      BY <2>5, OpStarted DEF LossHyp, LossInv
    <3>2. Without(mutable, Head(indexer.ops).ids).id = mutable.id
      BY WithoutType, SegmentAssumption DEF LossHyp, TypeInv, SegmentsInv
    <3> QED BY <3>1, <3>2
  <2>6. CASE ApplyVectors
    BY <1>1, <2>6, VectorsInGraph DEF LossHyp
  <2> QED
    BY <2>1, <2>2, <2>3, <2>4, <2>5, <2>6 DEF SegNext, WriterStep, IndexerStep, CompactionStep,
       SearchStep, segVars, logVars, storeVars, managerVars, StoreEntry, WriteTombstone,
       CheckThresholds, LockForSeal, SendBarrier, PersistSegment, PublishSegment, ReceiveOp,
       FlushTimer, FlushDone, StartCompaction, MergeSegments, RemoveFiles, SaveCompaction,
       LoadCompacted, UnloadCompacted, StartSearch, PickMutable, SearchMutable, SearchImmutables,
       EndSearch
<1> QED BY <1>2, <1>3

\* A search goes on to look where the documents it must find have moved.
LEMMA FoundInvStep ==
    LossHyp /\ [SegNext]_segVars => FoundInv'
<1>1. SUFFICES ASSUME LossHyp, [SegNext]_segVars PROVE FoundInv'
  OBVIOUS
<1>2. CASE UNCHANGED <<search, writer, tombstones, primary, mutable, immutables, payload>>
  BY <1>1, <1>2 DEF LossHyp, LossInv, FoundInv, Indexed, Kept, Deleting
<1>3. CASE Restart
  <2>1. search' = NoSearch
    BY <1>3 DEF Restart
  <2> QED BY <2>1 DEF FoundInv, NoSearch
<1>4. ASSUME ~Restart, tombstones \subseteq tombstones', search'.expected \subseteq search.expected,
              UNCHANGED <<search.pc, search.segment, search.found, search.tombstones>>,
              \A d \in search'.expected : d \in Kept' /\ primary'[d] # 0
       PROVE  FoundInv'
  <2>1. SUFFICES ASSUME NEW d \in search'.expected
                 PROVE  /\ search.pc = "segment" => Indexed(d)'
                        /\ search.pc = "mutable" =>
                             \/ search.segment = mutable'.id /\ mutable'.docs[d] # 0
                             \/ search.segment # mutable'.id /\ payload'[search.segment].index[d] # 0
                             \/ Sealed(d)'
                        /\ search.pc = "immutables" => d \in search.found \/ Sealed(d)'
                        /\ search.pc = "done" => d \in search.found
    BY <1>1, <1>4 DEF LossHyp, LossInv, FoundInv, Sealed
  <2>2. d \in search.expected /\ d \in Kept'
    BY <1>4, <2>1
  <2>3. CASE search.pc = "segment"
    BY <1>1, <1>4, <2>2, <2>3, IndexedStep DEF LossHyp, LossInv, FoundInv
  <2>4. CASE search.pc = "mutable"
    <3>1. CASE Sealed(d)
      BY <1>1, <1>4, <2>2, <2>4, <3>1, SealedStep
    <3>2. CASE search.segment = mutable.id /\ mutable.docs[d] # 0
      <4>1. CASE mutable'.id = mutable.id /\ mutable'.docs[d] # 0
        BY <2>4, <3>2, <4>1
      <4>2. CASE mutable.id \in immutables' /\ payload'[mutable.id].index[d] # 0
        BY <2>4, <4>2 DEF Sealed
      <4> QED BY <1>1, <1>4, <2>2, <3>2, <4>1, <4>2, GraphStep
    <3>3. CASE search.segment # mutable.id /\ payload[search.segment].index[d] # 0
      BY <1>1, <1>4, <2>4, <3>3, SearchedStep
    <3> QED BY <1>1, <2>2, <2>4, <3>1, <3>2, <3>3 DEF LossHyp, LossInv, FoundInv, Sealed
  <2>5. CASE search.pc = "immutables"
    BY <1>1, <1>4, <2>2, <2>5, SealedStep DEF LossHyp, LossInv, FoundInv, Sealed
  <2>6. CASE search.pc = "done"
    BY <1>1, <2>2, <2>6 DEF LossHyp, LossInv, FoundInv
  <2> QED BY <2>3, <2>4, <2>5, <2>6
<1>5. CASE StoreEntry
  <2>1. PICK cmd \in Commands :
          /\ cmd.type \in {"store", "delete"} /\ writer.pc = "idle"
          /\ writer' = [pc |-> "index", cmd |-> cmd]
          /\ \A d \in DocIDs :
               /\ d \notin cmd.ids => primary'[d] = primary[d]
               /\ d \in cmd.ids /\ cmd.type = "store" => primary'[d] # 0
          /\ search'.expected \subseteq search.expected
          /\ cmd.type = "delete" => search'.expected \cap cmd.ids = {}
          /\ UNCHANGED <<search.pc, search.segment, search.found, search.tombstones>>
    BY <1>1, <1>5, EntryStored DEF LossHyp
  <2>2. tombstones' = tombstones /\ ~Restart
    BY <2>1, <1>5 DEF StoreEntry, managerVars, Restart, IdleWriter
  <2>3. ASSUME NEW d \in search'.expected PROVE d \in Kept' /\ primary'[d] # 0
    <3>1. d \in Kept /\ primary[d] # 0 /\ d \in DocIDs
      BY <1>1, <2>1 DEF LossHyp, LossInv, FoundInv, Kept
    <3> QED BY <2>1, <2>2, <3>1 DEF Kept, Deleting
  <2> QED BY <1>4, <2>1, <2>2, <2>3
<1>6. CASE ~Restart /\ ~StoreEntry /\ search' = search
  <2>1. Kept \subseteq Kept' /\ primary' = primary /\ tombstones \subseteq tombstones'
    BY <1>1, <1>6, KeepsOn DEF LossHyp
  <2>2. \A d \in search.expected : d \in Kept' /\ primary'[d] # 0
    BY <1>1, <2>1 DEF LossHyp, LossInv, FoundInv
  <2> QED BY <1>4, <1>6, <2>1, <2>2
<1>7. CASE StartSearch
  <2>1. /\ UNCHANGED <<mutable, immutables, payload, writer, primary, tombstones>>
        /\ search' = [pc |-> "segment", tombstones |-> tombstones, segment |-> 0, found |-> {},
                      retried |-> FALSE, expected |-> Searchable, deleted |-> Deleted]
    BY <1>7 DEF StartSearch, NoSearch, storeVars, managerVars
  <2>2. ASSUME NEW d \in Searchable PROVE d \in Kept' /\ primary'[d] # 0 /\ Indexed(d)'
    BY <1>1, <2>1 DEF Searchable, Kept, Deleting, Indexed, LossHyp, LossInv, KeptInv, DeletingInv
  <2> QED BY <2>1, <2>2 DEF FoundInv
<1>8. CASE PickMutable
  <2>1. /\ UNCHANGED <<mutable, immutables, payload, writer, primary, tombstones>>
        /\ search \in SearchRec
    BY <1>1, <1>8 DEF PickMutable, storeVars, managerVars, LossHyp, TypeInv
  <2>2. /\ search.pc = "segment" /\ search'.pc = "mutable" /\ search'.segment = mutable.id
        /\ search'.expected = search.expected /\ search'.tombstones = search.tombstones
    BY <1>8, <2>1 DEF PickMutable, SearchRec
  <2> QED BY <1>1, <2>1, <2>2 DEF LossHyp, LossInv, FoundInv, Indexed, Kept, Deleting
<1>9. CASE SearchMutable
  <2>1. /\ UNCHANGED <<mutable, immutables, payload, writer, primary, tombstones>>
        /\ search \in SearchRec
    BY <1>1, <1>9 DEF SearchMutable, storeVars, managerVars, LossHyp, TypeInv
  <2>2. /\ search.pc = "mutable" /\ search'.pc = "immutables"
        /\ search'.found = Docs(IF search.segment = mutable.id THEN mutable.docs
                                ELSE payload[search.segment].index)
        /\ search'.expected = search.expected /\ search'.tombstones = search.tombstones
    BY <1>9, <2>1 DEF SearchMutable, SearchRec
  <2>3. \A d \in search.expected : d \in DocIDs
    BY <2>1 DEF SearchRec
  <2> QED BY <1>1, <2>1, <2>2, <2>3 DEF LossHyp, LossInv, FoundInv, Kept, Deleting, Docs
<1>10. CASE SearchImmutables
  <2>1. /\ UNCHANGED <<mutable, immutables, payload, writer, primary, tombstones>>
        /\ search \in SearchRec
    BY <1>1, <1>10 DEF SearchImmutables, storeVars, managerVars, LossHyp, TypeInv
  <2> DEFINE found == (search.found \cup UNION {Docs(payload[s].index) : s \in immutables})
                      \ search.tombstones
  <2>2. /\ search.pc = "immutables" /\ search'.expected = search.expected
        /\ search'.tombstones = search.tombstones
        /\ \/ search'.pc = "segment" /\ found = {}
           \/ search'.pc = "done" /\ search'.found = found
    BY <1>10, <2>1 DEF SearchImmutables, SearchRec
  <2>3. ASSUME NEW d \in search.expected PROVE d \in found
    <3>1. d \in DocIDs /\ d \notin search.tombstones
      BY <1>1 DEF LossHyp, LossInv, FoundInv, Kept
    <3>2. d \in search.found \/ \E s \in immutables : payload[s].index[d] # 0
      BY <1>1, <2>2 DEF LossHyp, LossInv, FoundInv
    <3> QED BY <3>1, <3>2 DEF Docs
  <2> HIDE DEF found
  <2> QED BY <1>1, <2>1, <2>2, <2>3 DEF LossHyp, LossInv, FoundInv, Kept, Deleting
<1>11. CASE EndSearch
  <2>1. search' = NoSearch
    BY <1>11 DEF EndSearch
  <2> QED BY <2>1 DEF FoundInv, NoSearch
<1> QED
  BY <1>1, <1>2, <1>3, <1>4, <1>5, <1>6, <1>7, <1>8, <1>9, <1>10, <1>11 DEF SegNext, WriterStep,
     IndexerStep, CompactionStep, SearchStep, segVars, logVars, storeVars, managerVars,
     IndexEntry, WriteTombstone, CheckThresholds, LockForSeal, SendBarrier, PersistSegment,
     PublishSegment, SwapMutable, SegmentAges, ReceiveOp, FlushTimer, StartOp, ApplyVectors,
     FlushDone, StartCompaction, MergeSegments, RemoveFiles, SaveCompaction, LoadCompacted,
     UnloadCompacted

LEMMA LossInit == SegInit => LossInv
<1>1. SUFFICES ASSUME SegInit PROVE LossInv
  OBVIOUS
<1>2. QueuedOps = {} /\ Deleting = {}
  BY <1>1, RangeEmpty DEF SegInit, QueuedOps, Deleting, IdleIndexer, IdleWriter
<1>3. SealInv /\ KeptInv /\ MergeInv /\ PendingInv /\ FoundInv
  BY <1>1, <1>2, SegmentAssumption
     DEF SegInit, SealInv, KeptInv, DeletingInv, DeletesInv, GraphInv, PayloadInv, MergeInv, PendingInv,
         ReachedInv, EntryInv, StoresInv, VectorsInv, FoundInv, IdleWriter, IdleIndexer, IdleCompaction,
         NoSearch, NoDocs, NewMutableSegment, Kept
<1>4. IdsInv
  BY <1>1, RangeEmpty DEF SegInit, IdsInv, NewMutableSegment, IdleCompaction, IdleWriter, NoSearch
<1> QED BY <1>3, <1>4 DEF LossInv

LEMMA LossStep == LossHyp /\ [SegNext]_segVars => LossInv'
BY SealInvStep, IdsInvStep, DeletingInvStep, DeletesInvStep, GraphInvStep, PayloadInvStep,
   MergeInvStep, ReachedInvStep, EntryInvStep, StoresInvStep, VectorsInvStep, FoundInvStep
   DEF LossInv, KeptInv, PendingInv

LEMMA LossInvariant == SegSpec /\ []FewSegments => []LossInv
<1>1. TypeInv /\ TombstonesInv /\ FewSegments /\ FewSegments' /\ LossInv /\ [SegNext]_segVars => LossInv'
  BY LossStep DEF LossHyp
<1> QED BY <1>1, LossInit, TypeInvariant, TombstonesInvariant, PTL DEF SegSpec

\* As long as the manifest lists no more segments than a compaction takes, no document of
\* the primary store that was never deleted is missing from the index once nothing is in
\* progress: whatever the queue's and the batch's size, whichever segment a queued
\* operation was for, and wherever in a seal, a compaction or the log's replay a crash hits.
THEOREM StoredStaysSearchable == SegSpec /\ []FewSegments => []LiveSearchable
<1>1. LossInv => LiveSearchable
  <2>1. SUFFICES ASSUME LossInv, Quiescent, NEW d \in DocIDs, primary[d] # 0, d \notin tombstones
                 PROVE  Indexed(d)
    BY DEF LiveSearchable
  <2>2. d \in Kept /\ ~Pending(d)
    BY <2>1, RangeEmpty DEF Quiescent, Kept, Deleting, Pending, QueuedOps
  <2> QED BY <2>1, <2>2 DEF LossInv, PendingInv, ReachedInv
<1> QED BY <1>1, LossInvariant, PTL

\* Under the same condition a search finds everything that could be found when it began
\* and was not deleted since, although Searcher.Search takes the mutable segment and the
\* immutable ones at different moments and holds no lock of the manager in between.
THEOREM SearchFindsAll == SegSpec /\ []FewSegments => []SearchComplete
<1>1. LossInv => SearchComplete
  BY DEF LossInv, FoundInv, SearchComplete
<1> QED BY <1>1, LossInvariant, PTL

===============================================================================
