------------------------------- MODULE JsBatch --------------------------------
(***************************************************************************)
(* upsertBatch of the JavaScript client (clientlibs/js/src/client.ts) over *)
(* the calls of JsClient: the points are cut into batches, the batches     *)
(* dealt to workers, and every worker awaits one upsert after the other.   *)
(* Batch k is upserted by call BatchCalls[k].                              *)
(***************************************************************************)
EXTENDS JsClient, Sequences, SequencesExt

CONSTANTS
    Points,             \* the sequences of points considered: their bytes, and if valid
    BatchSizes,         \* arguments batchSize and
    Concurrencies,      \* concurrency, zero included
    BatchBytes,         \* options maxBatchBytes, 0 for none
    DefaultBatchSize,   \* 256 in the code
    BatchCalls          \* the calls that upsert the batches, in their order

PointType == [bytes : Nat, valid : BOOLEAN]

ASSUME BatchAssumption ==
    /\ Points \subseteq Seq(PointType)
    /\ BatchSizes \subseteq Int /\ Concurrencies \subseteq Int /\ BatchBytes \subseteq Int
    /\ DefaultBatchSize \in Nat \ {0}
    /\ BatchCalls \in Seq(Calls) /\ IsInjective(BatchCalls)
    /\ \A points \in Points : Len(points) <= Len(BatchCalls)

VARIABLE job            \* the one upsertBatch that the caller may make

batchVars == <<clientVars, job>>

NoJob == [state |-> "none", points |-> <<>>, batches |-> <<>>, concurrency |-> 1, total |-> 0,
          batchSize |-> 1, maxBytes |-> 0]

\* The sum of the first n numbers of a sequence, for every n.
Sums(numbers) ==
    LET sum[n \in 0..Len(numbers)] == IF n = 0 THEN 0 ELSE sum[n - 1] + numbers[n]
    IN  sum

Total(numbers) == Sums(numbers)[Len(numbers)]

Bytes(batch) == Total([i \in 1..Len(batch) |-> batch[i].bytes])

Count(batches) == Total([k \in 1..Len(batches) |-> Len(batches[k])])

\* Mutant: off by one in the batch size.
HasRoom_OneMore(batch, p, size, maxBytes) ==
    /\ Len(batch) <= size
    /\ maxBytes > 0 => Bytes(batch) + p.bytes <= maxBytes

\* A point joins the last batch while that has room; an oversized one is alone.
HasRoom(batch, p, size, maxBytes) ==
    /\ Len(batch) < size
    /\ maxBytes > 0 => Bytes(batch) + p.bytes <= maxBytes

Place(batches, p, size, maxBytes) ==
    IF batches # <<>> /\ HasRoom(Last(batches), p, size, maxBytes)
    THEN Append(Front(batches), Append(Last(batches), p))
    ELSE Append(batches, <<p>>)

\* The batches of the first n points, for every n.
Cuts(points, size, maxBytes) ==
    LET cut[n \in 0..Len(points)] ==
            IF n = 0 THEN <<>> ELSE Place(cut[n - 1], points[n], size, maxBytes)
    IN  cut

Split(points, size, maxBytes) == Cuts(points, size, maxBytes)[Len(points)]

UpsertBatch(points, batchSize, concurrency, maxBytes) ==
    /\ job.state = "none"
    /\ \A c \in Calls : call[c].state = "idle"
    /\ LET size == IF batchSize <= 0 THEN DefaultBatchSize ELSE batchSize
       IN  job' = [state |-> IF points = <<>> THEN "resolved" ELSE "running",
                   points |-> points, batches |-> Split(points, size, maxBytes),
                   concurrency |-> IF concurrency <= 0 THEN 1 ELSE concurrency,
                   total |-> 0, batchSize |-> size, maxBytes |-> maxBytes]
    /\ UNCHANGED clientVars

\* Mutant: a worker goes on after a batch that failed.
StartBatch_GoesOn(k) ==
    /\ k \in DOMAIN job.batches
    /\ k > job.concurrency => Settled(BatchCalls[k - job.concurrency])
    /\ Begin(BatchCalls[k], "upsert")
    /\ UNCHANGED job

\* The worker of batch k gets to it: batches.filter((_, idx) => idx % concurrency === i),
\* one after the other.  A rejection ends its worker, and no other.
StartBatch(k) ==
    /\ k \in DOMAIN job.batches
    /\ k > job.concurrency => call[BatchCalls[k - job.concurrency]].state = "resolved"
    /\ \/ /\ \A p \in Range(job.batches[k]) : p.valid
          /\ Begin(BatchCalls[k], "upsert")
       \/ /\ \E p \in Range(job.batches[k]) : ~p.valid
          /\ BeginInvalid(BatchCalls[k], "upsert")
    /\ UNCHANGED job

BatchState(k) == call[BatchCalls[k]].state

\* Mutant: the first batch that returns counts.
FinishBatch_Any ==
    /\ job.state = "running"
    /\ \E k \in DOMAIN job.batches : BatchState(k) = "resolved"
    /\ job' = [job EXCEPT !.state = "resolved",
                          !.total = Count(job.batches)]
    /\ UNCHANGED clientVars

\* Promise.all, or the loop of the one worker.
FinishBatch ==
    /\ job.state = "running"
    /\ \/ /\ \E k \in DOMAIN job.batches : BatchState(k) = "rejected"
          /\ job' = [job EXCEPT !.state = "rejected"]
       \/ /\ \A k \in DOMAIN job.batches : BatchState(k) = "resolved"
          /\ job' = [job EXCEPT !.state = "resolved",
                                !.total = Count(job.batches)]
    /\ UNCHANGED clientVars

BatchInit == ClientInit /\ job = NoJob

\* The caller makes single calls or one upsertBatch.
BatchNext ==
    \/ \E points \in Points, size \in BatchSizes, n \in Concurrencies, bytes \in BatchBytes :
        UpsertBatch(points, size, n, bytes)
    \/ \E k \in 1..Len(BatchCalls) : StartBatch(k)
    \/ FinishBatch
    \/ /\ job.state = "none"
       /\ \E c \in Calls : \E op \in CallerOps[c] : BeginCall(c, op)
       /\ UNCHANGED job
    \/ Close /\ UNCHANGED job
    \/ ClientStep /\ UNCHANGED job

BatchFairness ==
    /\ ClientFairness
    /\ \A k \in 1..Len(BatchCalls) : WF_batchVars(StartBatch(k))
    /\ WF_batchVars(FinishBatch)

BatchSpec == BatchInit /\ [][BatchNext]_batchVars /\ BatchFairness

----------------------------------------------------------------------------
(* Properties.                                                             *)

\* The batches are the points in their order, none empty, none larger than the
\* batch size, and none above the byte limit but a point that is so by itself.
BatchesPartition ==
    /\ FlattenSeq(job.batches) = job.points
    /\ \A k \in DOMAIN job.batches :
        /\ Len(job.batches[k]) \in 1..job.batchSize
        /\ job.maxBytes > 0 /\ Len(job.batches[k]) > 1 => Bytes(job.batches[k]) <= job.maxBytes

\* An upsertBatch that returns has written every batch and counted each point once
\* (that no batch was written twice is WritesAtMostOnce).
BatchIsComplete ==
    job.state = "resolved" =>
        /\ job.total = Len(job.points)
        /\ \A k \in DOMAIN job.batches : effects[BatchCalls[k]] # {}

\* What is written is, for every worker, a prefix of its batches up to the first
\* that failed: after a failure, of a sequential upsertBatch nothing more is sent.
WorkersStopAtFailure ==
    \A k \in DOMAIN job.batches :
        effects[BatchCalls[k]] # {} =>
            \A j \in 1..(k - 1) : j % job.concurrency = k % job.concurrency
                                    => BatchState(j) = "resolved"

\* With a timeout every call that is no hedged read returns or throws, and so does
\* upsertBatch, whatever the gateway does (getCallOptions, callWithRetry).
PromisesSettle ==
    /\ CallsSettle
    /\ job.state = "running" /\ options.timeout ~> job.state \in {"resolved", "rejected"}
=============================================================================
