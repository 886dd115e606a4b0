---------------------------- MODULE ScanPipeline ----------------------------
(***************************************************************************)
(* The path of an uploaded PDF through the memory server: quarantine,      *)
(* scan request, verdict, indexing.                                        *)
(*                                                                         *)
(* Two transactional outboxes in the memory_items table carry it:          *)
(* published_at_ms (the scan request reached the broker) and indexed_at_ms *)
(* (the chunks reached the vector store).  Every pod runs the same tasks:  *)
(* the upload handler, a publisher and a scan janitor around an in-memory  *)
(* scan queue, a verdict consumer, an index worker and an index janitor    *)
(* around an in-memory index queue.  The pods share the table, the object  *)
(* store, the vector store and the broker, and nothing else.               *)
(*                                                                         *)
(* An action is what one task does between two awaits at which another     *)
(* task can observe or disturb it.  A queue is a bag: what it holds, not   *)
(* in which order.                                                         *)
(***************************************************************************)
EXTENDS Integers, FiniteSets, Functions

CONSTANTS
    Docs,              \* uploads, by scan_id
    Pods,              \* memory-server replicas
    None,              \* not an upload
    CorruptDocs,       \* uploads whose bytes no extraction can read
    IndexMaxAttempts,  \* settings.index_max_attempts
    BatchSize,         \* _JANITOR_BATCH_SIZE of both janitors
    MaxScanInFlight,   \* bound: scan messages in flight for an upload
    MaxIndexInFlight,  \* bound: index messages in flight for an upload
    MaxFaults,         \* bound: failed calls to broker, database or indexer
    MaxCrashes,        \* bound: pod crashes
    MaxReplays         \* bound: operator replays

ASSUME NoneAssumption     == None \notin Docs
ASSUME CorruptAssumption  == CorruptDocs \subseteq Docs
ASSUME AttemptsAssumption == IndexMaxAttempts \in Nat \ {0}
ASSUME BatchAssumption    == BatchSize \in Nat \ {0}
ASSUME InFlightAssumption == /\ MaxScanInFlight \in Nat \ {0}
                             /\ MaxIndexInFlight \in Nat \ {0}
ASSUME BudgetAssumption   == /\ MaxFaults \in Nat
                             /\ MaxCrashes \in Nat
                             /\ MaxReplays \in Nat

VARIABLES
    \* memory_items: the row whose id is the scan_id
    status,      \* scan_status, or "absent" when there is no row
    key,         \* key: which URI the row points at
    published,   \* published_at_ms IS NOT NULL
    indexed,     \* indexed_at_ms IS NOT NULL
    attempts,    \* index_attempts, counted up to IndexMaxAttempts
    failed,      \* index_failed_at_ms IS NOT NULL
    warned,      \* extraction_warnings holds a permanent code
    shadow,      \* a second row exists, keyed by the bare episodic key
    \* shared stores and the broker
    object,      \* prefixes of the bucket that hold the bytes
    chunks,      \* chunks of the upload in the vector store
    requests,    \* scan requests in the broker
    verdicts,    \* verdicts in the broker
    dlx,         \* uploads with a dead-lettered broker message
    \* tasks of a pod
    upload,      \* the upload handler
    scanQ,       \* queue from handler and scan janitor to the publisher
    publisher,   \* the request just sent, to be marked published
    consumer,    \* the verdict just applied, to be acknowledged
    indexQ,      \* queue from consumer and index janitor to the worker
    worker,      \* the index worker
    \* budgets
    faults, crashes, replays

rowVars    == <<status, key, published, indexed, attempts, failed, warned, shadow>>
storeVars  == <<object, chunks>>
brokerVars == <<requests, verdicts, dlx>>
podVars    == <<upload, scanQ, publisher, consumer, indexQ, worker>>
budgetVars == <<faults, crashes, replays>>
vars       == <<rowVars, storeVars, brokerVars, podVars, budgetVars>>

-----------------------------------------------------------------------------
ScanStatus  == {"pending_scan", "scanned_clean", "rejected_malware", "scan_failed"}
VerdictKind == {"clean", "rejected", "scan_failed"}

\* Mutant: the verdict's own word is stored.
StatusOfVerdict == [k \in VerdictKind |-> k]

\* What _VERDICT_TO_SCAN_STATUS maps a verdict to.
StatusOf == [clean       |-> "scanned_clean",
             rejected    |-> "rejected_malware",
             scan_failed |-> "scan_failed"]

\* The two URIs a row can point at, and the bucket-relative key of the
\* promoted object, which an index envelope carries.
Uri       == {"quarantine_uri", "episodic_uri"}
BareKey   == "episodic_bare"

NoUpload  == [doc |-> None, step |-> "idle"]
NoVerdict == [doc |-> None, kind |-> "clean"]
WorkerAt(d, step) == [doc |-> d, step |-> step, attempts |-> 0, dead |-> FALSE]
IdleWorker == WorkerAt(None, "idle")

\* At most BatchSize elements of S, any of them: a LIMIT without an ORDER BY.
Batches(S) == {B \in SUBSET S :
                 /\ B # {}
                 /\ Cardinality(B) <= BatchSize
                 /\ B = S \/ Cardinality(B) = BatchSize}

\* The messages of d between the pods' scan queues and the verdict's
\* acknowledgement, and those between an index queue and the worker's
\* outcome.  Only the two bounds limit them: a task that would go over
\* one takes its step later.
One(b) == IF b THEN 1 ELSE 0

ScanInFlight(d) ==
    FoldFunction(+, 0, [p \in Pods |-> FoldFunction(+, 0, scanQ[p][d])
                                         + One(consumer[p].doc = d)])
      + FoldFunction(+, 0, requests[d]) + FoldFunction(+, 0, verdicts[d])

IndexInFlight(d) ==
    FoldFunction(+, 0, [p \in Pods |-> indexQ[p][d] + One(worker[p].doc = d)])

Fault == faults < MaxFaults /\ faults' = faults + 1

Init ==
    /\ status    = [d \in Docs |-> "absent"]
    /\ key       = [d \in Docs |-> "quarantine_uri"]
    /\ published = [d \in Docs |-> FALSE]
    /\ indexed   = [d \in Docs |-> FALSE]
    /\ attempts  = [d \in Docs |-> 0]
    /\ failed    = [d \in Docs |-> FALSE]
    /\ warned    = [d \in Docs |-> FALSE]
    /\ shadow    = [d \in Docs |-> FALSE]
    /\ object    = [d \in Docs |-> {}]
    /\ chunks    = [d \in Docs |-> "none"]
    /\ requests  = [d \in Docs |-> [u \in Uri |-> 0]]
    /\ verdicts  = [d \in Docs |-> [k \in VerdictKind |-> 0]]
    /\ dlx       = {}
    /\ upload    = [p \in Pods |-> NoUpload]
    /\ scanQ     = [p \in Pods |-> [d \in Docs |-> [u \in Uri |-> 0]]]
    /\ publisher = [p \in Pods |-> None]
    /\ consumer  = [p \in Pods |-> NoVerdict]
    /\ indexQ    = [p \in Pods |-> [d \in Docs |-> 0]]
    /\ worker    = [p \in Pods |-> IdleWorker]
    /\ faults = 0 /\ crashes = 0 /\ replays = 0

-----------------------------------------------------------------------------
(* The upload handler: PUT to quarantine, INSERT the row, put the envelope *)
(* on the pod's queue, answer 202.  A PUT that fails changes nothing.      *)

UploadStore(p, d) ==
    /\ upload[p] = NoUpload
    /\ object[d] = {} /\ status[d] = "absent"
    /\ object' = [object EXCEPT ![d] = {"quarantine"}]
    /\ upload' = [upload EXCEPT ![p] = [doc |-> d, step |-> "stored"]]
    /\ UNCHANGED <<rowVars, chunks, brokerVars, scanQ, publisher, consumer,
                   indexQ, worker, budgetVars>>

UploadInsert(p) ==
    LET d == upload[p].doc IN
    /\ upload[p].step = "stored"
    /\ status' = [status EXCEPT ![d] = "pending_scan"]
    /\ upload' = [upload EXCEPT ![p] = [doc |-> d, step |-> "inserted"]]
    /\ UNCHANGED <<key, published, indexed, attempts, failed, warned, shadow,
                   storeVars, brokerVars, scanQ, publisher, consumer, indexQ,
                   worker, budgetVars>>

\* The INSERT raises: the request fails, the stored object has no row.
UploadInsertFails(p) ==
    /\ upload[p].step = "stored"
    /\ Fault
    /\ upload' = [upload EXCEPT ![p] = NoUpload]
    /\ UNCHANGED <<rowVars, storeVars, brokerVars, scanQ, publisher, consumer,
                   indexQ, worker, crashes, replays>>

\* Mutant: the envelope may be queued before the row is committed.
UploadEnqueueEarly(p) ==
    LET d == upload[p].doc IN
    /\ upload[p].step \in {"stored", "inserted"}
    /\ scanQ' = [scanQ EXCEPT ![p][d]["quarantine_uri"] = @ + 1]
    /\ upload' = [upload EXCEPT ![p] = NoUpload]
    /\ UNCHANGED <<rowVars, storeVars, brokerVars, publisher, consumer, indexQ,
                   worker, budgetVars>>

UploadEnqueue(p) ==
    LET d == upload[p].doc IN
    /\ upload[p].step = "inserted"
    /\ scanQ' = [scanQ EXCEPT ![p][d]["quarantine_uri"] = @ + 1]
    /\ upload' = [upload EXCEPT ![p] = NoUpload]
    /\ UNCHANGED <<rowVars, storeVars, brokerVars, publisher, consumer, indexQ,
                   worker, budgetVars>>

-----------------------------------------------------------------------------
(* ScanRequestPublisher: publish, then mark the row in a transaction of    *)
(* its own.  An envelope whose publish fails is dropped, not requeued.     *)

Publish(p, d, u) ==
    /\ publisher[p] = None
    /\ scanQ[p][d][u] > 0
    /\ scanQ' = [scanQ EXCEPT ![p][d][u] = @ - 1]
    /\ requests' = [requests EXCEPT ![d][u] = @ + 1]
    /\ publisher' = [publisher EXCEPT ![p] = d]
    /\ UNCHANGED <<rowVars, storeVars, verdicts, dlx, upload, consumer, indexQ,
                   worker, budgetVars>>

\* Mutant: the early return after a failed publish is missing.
PublishFailsThenMarks(p, d, u) ==
    /\ publisher[p] = None
    /\ scanQ[p][d][u] > 0
    /\ Fault
    /\ scanQ' = [scanQ EXCEPT ![p][d][u] = @ - 1]
    /\ publisher' = [publisher EXCEPT ![p] = d]
    /\ UNCHANGED <<rowVars, storeVars, brokerVars, upload, consumer, indexQ,
                   worker, crashes, replays>>

\* The publish raises; the broker may have taken the message all the same.
PublishFails(p, d, u) ==
    /\ publisher[p] = None
    /\ scanQ[p][d][u] > 0
    /\ Fault
    /\ scanQ' = [scanQ EXCEPT ![p][d][u] = @ - 1]
    /\ \/ requests' = [requests EXCEPT ![d][u] = @ + 1]
       \/ UNCHANGED requests
    /\ UNCHANGED <<rowVars, storeVars, verdicts, dlx, upload, publisher,
                   consumer, indexQ, worker, crashes, replays>>

MarkPublished(p) ==
    /\ publisher[p] # None
    /\ published' = [published EXCEPT ![publisher[p]] = TRUE]
    /\ publisher' = [publisher EXCEPT ![p] = None]
    /\ UNCHANGED <<status, key, indexed, attempts, failed, warned, shadow,
                   storeVars, brokerVars, upload, scanQ, consumer, indexQ,
                   worker, budgetVars>>

\* The outbox UPDATE fails: logged and swallowed.
MarkPublishedFails(p) ==
    /\ publisher[p] # None
    /\ Fault
    /\ publisher' = [publisher EXCEPT ![p] = None]
    /\ UNCHANGED <<rowVars, storeVars, brokerVars, upload, scanQ, consumer,
                   indexQ, worker, crashes, replays>>

-----------------------------------------------------------------------------
(* ScanRequestJanitor: re-enqueue rows whose outbox marker is NULL, with   *)
(* the row's current key as the object URI.  Both forms of the key are s3  *)
(* URIs, so the scheme check skips neither.                                *)

\* Mutant: the NULL test of the outbox marker is inverted.
ScanOrphansPublished == {d \in Docs : status[d] # "absent" /\ published[d]}

ScanOrphans == {d \in Docs : status[d] # "absent" /\ ~published[d]}

ScanJanitorTick(p) ==
    \E B \in Batches(ScanOrphans) :
        /\ \A d \in B : ScanInFlight(d) < MaxScanInFlight
        /\ scanQ' = [scanQ EXCEPT ![p] =
                       [d \in Docs |-> [u \in Uri |->
                          IF d \in B /\ u = key[d] THEN @[d][u] + 1
                                                   ELSE @[d][u]]]]
        /\ UNCHANGED <<rowVars, storeVars, brokerVars, upload, publisher,
                       consumer, indexQ, worker, budgetVars>>

-----------------------------------------------------------------------------
(* content-control, the scanner beyond the broker (external).  It reads    *)
(* the quarantine object, promotes or deletes it and answers; where it     *)
(* cannot read the object it answers scan_failed.                          *)

Answer(d, u, k) ==
    /\ requests[d][u] > 0
    /\ requests' = [requests EXCEPT ![d][u] = @ - 1]
    /\ verdicts' = [verdicts EXCEPT ![d][k] = @ + 1]
    /\ UNCHANGED <<rowVars, chunks, dlx, podVars, budgetVars>>

ScanClean(d) ==
    /\ "quarantine" \in object[d]
    /\ \/ object' = [object EXCEPT ![d] = {"episodic"}]
       \/ object' = [object EXCEPT ![d] = {"episodic", "quarantine"}]
    /\ Answer(d, "quarantine_uri", "clean")

ScanRejected(d) ==
    /\ "quarantine" \in object[d]
    /\ object' = [object EXCEPT ![d] = @ \ {"quarantine"}]
    /\ Answer(d, "quarantine_uri", "rejected")

ScanFailed(d, u) ==
    /\ UNCHANGED object
    /\ Answer(d, u, "scan_failed")

\* The scanner refuses the message and the broker dead-letters it.
RequestDeadLettered(d, u) ==
    /\ requests[d][u] > 0
    /\ Fault
    /\ requests' = [requests EXCEPT ![d][u] = @ - 1]
    /\ dlx' = dlx \cup {d}
    /\ UNCHANGED <<rowVars, storeVars, verdicts, podVars, crashes, replays>>

-----------------------------------------------------------------------------
(* ScanVerdictConsumer: one transaction writes the row, whatever its       *)
(* status was; then a clean verdict is put on the index queue and the      *)
(* message is acknowledged.  A verdict whose row is missing would only be  *)
(* logged: none is, since a request follows its row and no row is removed  *)
(* (RowFirst).                                                             *)

\* Mutant: every verdict is treated as a clean one once it is mapped.
VerdictApplyAnyKind(p, d, k) ==
    /\ consumer[p] = NoVerdict
    /\ verdicts[d][k] > 0
    /\ verdicts' = [verdicts EXCEPT ![d][k] = @ - 1]
    /\ status' = [status EXCEPT ![d] = StatusOf[k]]
    /\ key' = [key EXCEPT ![d] = "episodic_uri"]
    /\ indexed' = [indexed EXCEPT ![d] = FALSE]
    /\ consumer' = [consumer EXCEPT ![p] = [doc |-> d, kind |-> k]]
    /\ UNCHANGED <<published, attempts, failed, warned, shadow, storeVars,
                   requests, dlx, upload, scanQ, publisher, indexQ, worker,
                   budgetVars>>

VerdictApply(p, d, k) ==
    /\ consumer[p] = NoVerdict
    /\ verdicts[d][k] > 0
    /\ verdicts' = [verdicts EXCEPT ![d][k] = @ - 1]
    /\ status' = [status EXCEPT ![d] = StatusOf[k]]
    /\ IF k = "clean"
       THEN /\ key' = [key EXCEPT ![d] = "episodic_uri"]
            /\ indexed' = [indexed EXCEPT ![d] = FALSE]
       ELSE UNCHANGED <<key, indexed>>
    /\ consumer' = [consumer EXCEPT ![p] = [doc |-> d, kind |-> k]]
    /\ UNCHANGED <<published, attempts, failed, warned, shadow, storeVars,
                   requests, dlx, upload, scanQ, publisher, indexQ, worker,
                   budgetVars>>

VerdictAck(p) ==
    LET d == consumer[p].doc IN
    /\ d # None
    /\ IF consumer[p].kind = "clean"
       THEN /\ IndexInFlight(d) < MaxIndexInFlight
            /\ indexQ' = [indexQ EXCEPT ![p][d] = @ + 1]
       ELSE UNCHANGED indexQ
    /\ consumer' = [consumer EXCEPT ![p] = NoVerdict]
    /\ UNCHANGED <<rowVars, storeVars, brokerVars, upload, scanQ, publisher,
                   worker, budgetVars>>

\* The handler raises (database error, a payload it cannot map): the
\* message is nacked without requeue and the broker dead-letters it.
VerdictRefused(p, d, k) ==
    /\ consumer[p] = NoVerdict
    /\ verdicts[d][k] > 0
    /\ Fault
    /\ verdicts' = [verdicts EXCEPT ![d][k] = @ - 1]
    /\ dlx' = dlx \cup {d}
    /\ UNCHANGED <<rowVars, storeVars, requests, podVars, crashes, replays>>

-----------------------------------------------------------------------------
(* IndexWorker: run the indexer, then mark the row indexed or record the   *)
(* failure.  The PDF pipeline writes page by page, and at the end its      *)
(* metadata with upsert_pdf_metadata under the key of the envelope, which  *)
(* is the bare one.                                                        *)

\* The promoted object is there and its bytes can be parsed.
Readable(d) == d \notin CorruptDocs /\ "episodic" \in object[d]

UpsertPdfMetadata(d, permanent) ==
    /\ warned' = [warned EXCEPT ![d] = IF key[d] = BareKey THEN permanent ELSE @]
    /\ shadow' = [shadow EXCEPT ![d] = @ \/ key[d] # BareKey]

TakeEnvelope(p, d) ==
    /\ worker[p] = IdleWorker
    /\ indexQ[p][d] > 0
    /\ indexQ' = [indexQ EXCEPT ![p][d] = @ - 1]
    /\ worker' = [worker EXCEPT ![p] = WorkerAt(d, "indexing")]
    /\ UNCHANGED <<rowVars, storeVars, brokerVars, upload, scanQ, publisher,
                   consumer, budgetVars>>

\* The first pages are upserted while later ones are still to come.
WritePages(p) ==
    LET d == worker[p].doc IN
    /\ worker[p].step = "indexing"
    /\ Readable(d) /\ chunks[d] = "none"
    /\ chunks' = [chunks EXCEPT ![d] = "some"]
    /\ UNCHANGED <<rowVars, object, brokerVars, podVars, budgetVars>>

IndexSucceeds(p) ==
    LET d == worker[p].doc IN
    /\ worker[p].step = "indexing"
    /\ Readable(d)
    /\ chunks' = [chunks EXCEPT ![d] = "all"]
    /\ UpsertPdfMetadata(d, FALSE)
    /\ worker' = [worker EXCEPT ![p] = WorkerAt(d, "ok")]
    /\ UNCHANGED <<status, key, published, indexed, attempts, failed, object,
                   brokerVars, upload, scanQ, publisher, consumer, indexQ, budgetVars>>

\* The parse budget runs out, or a page is refused for its redactions: the
\* page loop stops there and the pass still counts as a success.
IndexCutShort(p) ==
    LET d == worker[p].doc IN
    /\ worker[p].step = "indexing"
    /\ Readable(d)
    /\ chunks' = [chunks EXCEPT ![d] = IF @ = "all" THEN @ ELSE "cut"]
    /\ UpsertPdfMetadata(d, FALSE)
    /\ worker' = [worker EXCEPT ![p] = WorkerAt(d, "ok")]
    /\ UNCHANGED <<status, key, published, indexed, attempts, failed, object,
                   brokerVars, upload, scanQ, publisher, consumer, indexQ, budgetVars>>

\* An exception in extraction, embedding or upsert, whatever its cause, is
\* classified as a corrupt PDF; the manifest is flushed unless the exception
\* came before the page loop or the flush failed too.
IndexFails(p) ==
    LET d == worker[p].doc IN
    /\ worker[p].step = "indexing"
    /\ IF Readable(d) THEN Fault ELSE UNCHANGED faults
    /\ \/ UpsertPdfMetadata(d, TRUE)
       \/ UNCHANGED <<warned, shadow>>
    /\ worker' = [worker EXCEPT ![p] = WorkerAt(d, "failed")]
    /\ UNCHANGED <<status, key, published, indexed, attempts, failed, storeVars,
                   brokerVars, upload, scanQ, publisher, consumer, indexQ,
                   crashes, replays>>

\* Mutant: the row is marked whatever the indexer returned.
MarkIndexedAlways(p) ==
    /\ worker[p].step \in {"ok", "failed"}
    /\ indexed' = [indexed EXCEPT ![worker[p].doc] = TRUE]
    /\ worker' = [worker EXCEPT ![p] = IdleWorker]
    /\ UNCHANGED <<status, key, published, attempts, failed, warned, shadow,
                   storeVars, brokerVars, upload, scanQ, publisher, consumer,
                   indexQ, budgetVars>>

MarkIndexed(p) ==
    /\ worker[p].step = "ok"
    /\ indexed' = [indexed EXCEPT ![worker[p].doc] = TRUE]
    /\ worker' = [worker EXCEPT ![p] = IdleWorker]
    /\ UNCHANGED <<status, key, published, attempts, failed, warned, shadow,
                   storeVars, brokerVars, upload, scanQ, publisher, consumer,
                   indexQ, budgetVars>>

\* The count is read only against the cap, so it stops there.
Counted(n) == IF n < IndexMaxAttempts THEN n + 1 ELSE n

\* _record_failure reads the row, decides whether the failure is terminal,
\* and writes its decision in a later statement.  Its branch for a row that
\* is not there does nothing and is not reached: an envelope follows its row,
\* and no row is removed (RowFirst).
RecordRead(p) ==
    LET d == worker[p].doc
        n == Counted(attempts[d])
    IN
    /\ worker[p].step = "failed"
    /\ worker' = [worker EXCEPT ![p] =
                    [doc |-> d, step |-> "recording", attempts |-> n,
                     dead |-> warned[d] \/ n >= IndexMaxAttempts]]
    /\ UNCHANGED <<rowVars, storeVars, brokerVars, upload, scanQ, publisher,
                   consumer, indexQ, budgetVars>>

\* Mutant: the decision is written, the count is not.
RecordWriteNoCount(p) ==
    /\ worker[p].step = "recording"
    /\ failed' = [failed EXCEPT ![worker[p].doc] = worker[p].dead]
    /\ worker' = [worker EXCEPT ![p] = IdleWorker]
    /\ UNCHANGED <<status, key, published, indexed, attempts, warned, shadow,
                   storeVars, brokerVars, upload, scanQ, publisher, consumer,
                   indexQ, budgetVars>>

RecordWrite(p) ==
    /\ worker[p].step = "recording"
    /\ attempts' = [attempts EXCEPT ![worker[p].doc] = worker[p].attempts]
    /\ failed' = [failed EXCEPT ![worker[p].doc] = worker[p].dead]
    /\ worker' = [worker EXCEPT ![p] = IdleWorker]
    /\ UNCHANGED <<status, key, published, indexed, warned, shadow, storeVars,
                   brokerVars, upload, scanQ, publisher, consumer, indexQ,
                   budgetVars>>

\* The outbox write of either outcome fails: logged and swallowed.
WorkerWriteFails(p) ==
    /\ worker[p].step \in {"ok", "failed", "recording"}
    /\ Fault
    /\ worker' = [worker EXCEPT ![p] = IdleWorker]
    /\ UNCHANGED <<rowVars, storeVars, brokerVars, upload, scanQ, publisher,
                   consumer, indexQ, crashes, replays>>

-----------------------------------------------------------------------------
(* IndexJanitor, and the operator's replay of dead-lettered rows.          *)

\* Mutant: the scan_status filter of the index janitor is missing.
IndexOrphansUnscanned == {d \in Docs : /\ status[d] # "absent"
                                       /\ ~indexed[d]
                                       /\ ~failed[d]}

IndexOrphans == {d \in Docs : /\ status[d] = "scanned_clean"
                              /\ ~indexed[d]
                              /\ ~failed[d]}

IndexJanitorTick(p) ==
    \E B \in Batches(IndexOrphans) :
        /\ \A d \in B : IndexInFlight(d) < MaxIndexInFlight
        /\ indexQ' = [indexQ EXCEPT ![p] =
                        [d \in Docs |-> IF d \in B THEN @[d] + 1 ELSE @[d]]]
        /\ UNCHANGED <<rowVars, storeVars, brokerVars, upload, scanQ, publisher,
                       consumer, worker, budgetVars>>

Replay(d) ==
    /\ replays < MaxReplays
    /\ replays' = replays + 1
    /\ failed[d]
    /\ failed' = [failed EXCEPT ![d] = FALSE]
    /\ attempts' = [attempts EXCEPT ![d] = 0]
    /\ UNCHANGED <<status, key, published, indexed, warned, shadow, storeVars,
                   brokerVars, podVars, faults, crashes>>

-----------------------------------------------------------------------------
\* A pod dies and comes back: its queues and tasks are gone, a verdict it
\* had not acknowledged is delivered again.
Crash(p) ==
    /\ crashes < MaxCrashes
    /\ crashes' = crashes + 1
    /\ upload' = [upload EXCEPT ![p] = NoUpload]
    /\ scanQ' = [scanQ EXCEPT ![p] = [d \in Docs |-> [u \in Uri |-> 0]]]
    /\ publisher' = [publisher EXCEPT ![p] = None]
    /\ consumer' = [consumer EXCEPT ![p] = NoVerdict]
    /\ indexQ' = [indexQ EXCEPT ![p] = [d \in Docs |-> 0]]
    /\ worker' = [worker EXCEPT ![p] = IdleWorker]
    /\ verdicts' = [d \in Docs |-> [k \in VerdictKind |->
                      IF consumer[p].doc = d /\ consumer[p].kind = k
                      THEN verdicts[d][k] + 1 ELSE verdicts[d][k]]]
    /\ UNCHANGED <<rowVars, storeVars, requests, dlx, faults, replays>>

-----------------------------------------------------------------------------
UploadNext(p) ==
    \/ \E d \in Docs : UploadStore(p, d)
    \/ UploadInsert(p)
    \/ UploadInsertFails(p)
    \/ UploadEnqueue(p)

PublisherNext(p) ==
    \/ \E d \in Docs, u \in Uri : Publish(p, d, u)
    \/ \E d \in Docs, u \in Uri : PublishFails(p, d, u)
    \/ MarkPublished(p)
    \/ MarkPublishedFails(p)

ScannerNext ==
    \/ \E d \in Docs : ScanClean(d)
    \/ \E d \in Docs : ScanRejected(d)
    \/ \E d \in Docs, u \in Uri : ScanFailed(d, u)
    \/ \E d \in Docs, u \in Uri : RequestDeadLettered(d, u)

ConsumerNext(p) ==
    \/ \E d \in Docs, k \in VerdictKind : VerdictApply(p, d, k)
    \/ \E d \in Docs, k \in VerdictKind : VerdictRefused(p, d, k)
    \/ VerdictAck(p)

WorkerNext(p) ==
    \/ \E d \in Docs : TakeEnvelope(p, d)
    \/ WritePages(p)
    \/ IndexSucceeds(p)
    \/ IndexCutShort(p)
    \/ IndexFails(p)
    \/ MarkIndexed(p)
    \/ RecordRead(p)
    \/ RecordWrite(p)
    \/ WorkerWriteFails(p)

Next ==
    \/ \E p \in Pods : \/ UploadNext(p)
                       \/ PublisherNext(p)
                       \/ ScanJanitorTick(p)
                       \/ ConsumerNext(p)
                       \/ WorkerNext(p)
                       \/ IndexJanitorTick(p)
                       \/ Crash(p)
    \/ ScannerNext
    \/ \E d \in Docs : Replay(d)

Spec == Init /\ [][Next]_vars

=============================================================================
