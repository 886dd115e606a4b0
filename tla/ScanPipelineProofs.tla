------------------------- MODULE ScanPipelineProofs -------------------------
(***************************************************************************)
(* Proofs about ScanPipeline for any number of uploads and pods and any    *)
(* budget of faults, crashes and replays: type correctness, one lemma per  *)
(* part of the inductive invariant IInv, the safety properties, and that   *)
(* the pipeline implements UploadGate.  Only guards mention the bounds, so *)
(* no proof uses them.                                                     *)
(***************************************************************************)
EXTENDS ScanPipelineProperties, TLAPS

(* A task that is not idle holds an upload. *)
Busy ==
    /\ \A p \in Pods : upload[p].step # "idle" => upload[p].doc \in Docs
    /\ \A p \in Pods : worker[p].step # "idle" => worker[p].doc \in Docs

(* A batch is taken from the rows the query selects. *)
LEMMA BatchSubset == \A S : \A B \in Batches(S) : B \subseteq S
    BY DEF Batches

(* The saturating count stays in its range and stops exactly at the cap.   *)
LEMMA CountedCap ==
    \A a \in 0 .. IndexMaxAttempts :
        /\ Counted(a) \in 0 .. IndexMaxAttempts
        /\ Counted(a) >= IndexMaxAttempts => Counted(a) = IndexMaxAttempts
    BY AttemptsAssumption DEF Counted

(* The initial state is type-correct. *)
LEMMA TypeInit == Init => TypeOK /\ Busy
    BY NoneAssumption, AttemptsAssumption
    DEF Init, TypeOK, Busy, NoUpload, NoVerdict, IdleWorker, WorkerAt, ScanStatus, VerdictKind, Uri

(* Every handler, worker and janitor step keeps the types. *)
LEMMA TypeStep == TypeOK /\ Busy /\ [Next]_vars => TypeOK' /\ Busy'
<1> SUFFICES ASSUME TypeOK, Busy, [Next]_vars PROVE TypeOK' /\ Busy'
    OBVIOUS
<1> USE NoneAssumption, AttemptsAssumption DEF TypeOK, Busy, NoUpload,
   NoVerdict, IdleWorker, WorkerAt,
        rowVars, storeVars, brokerVars, podVars, budgetVars, Fault
<1>1. ASSUME NEW p \in Pods, NEW d \in Docs, UploadStore(p, d)
      PROVE  TypeOK' /\ Busy'
    BY <1>1 DEF UploadStore
<1>2. ASSUME NEW p \in Pods, UploadInsert(p)
      PROVE  TypeOK' /\ Busy'
    BY <1>2 DEF UploadInsert, ScanStatus
<1>3. ASSUME NEW p \in Pods, UploadInsertFails(p)
      PROVE  TypeOK' /\ Busy'
    BY <1>3 DEF UploadInsertFails
<1>4. ASSUME NEW p \in Pods, UploadEnqueue(p)
      PROVE  TypeOK' /\ Busy'
    BY <1>4 DEF UploadEnqueue, Uri
<1>5. ASSUME NEW p \in Pods, NEW d \in Docs, NEW u \in Uri, Publish(p, d, u)
      PROVE  TypeOK' /\ Busy'
    BY <1>5 DEF Publish
<1>6. ASSUME NEW p \in Pods, NEW d \in Docs, NEW u \in Uri, PublishFails(p, d, u)
      PROVE  TypeOK' /\ Busy'
  <2>1. scanQ' \in [Pods -> [Docs -> [Uri -> Nat]]]
    BY <1>6 DEF PublishFails
  <2>2. requests' \in [Docs -> [Uri -> Nat]]
    <3>1. CASE requests' = [requests EXCEPT ![d][u] = @ + 1]
      BY <3>1
    <3>2. CASE UNCHANGED requests
      BY <3>2
    <3> QED
      BY <1>6, <3>1, <3>2 DEF PublishFails
  <2>3. faults' \in Nat
    BY <1>6 DEF PublishFails
  <2>4. Busy'
    BY <1>6 DEF PublishFails
  <2> QED
    BY <1>6, <2>1, <2>2, <2>3, <2>4 DEF PublishFails
<1>7. ASSUME NEW p \in Pods, MarkPublished(p)
      PROVE  TypeOK' /\ Busy'
    BY <1>7 DEF MarkPublished
<1>8. ASSUME NEW p \in Pods, MarkPublishedFails(p)
      PROVE  TypeOK' /\ Busy'
    BY <1>8 DEF MarkPublishedFails
<1>9. ASSUME NEW p \in Pods, ScanJanitorTick(p)
      PROVE  TypeOK' /\ Busy'
    BY <1>9 DEF ScanJanitorTick
<1>10. ASSUME NEW d \in Docs, ScanClean(d)
      PROVE  TypeOK' /\ Busy'
  <2>1. object' \in [Docs -> SUBSET {"quarantine", "episodic"}]
    <3>1. CASE object' = [object EXCEPT ![d] = {"episodic"}]
      BY <3>1
    <3>2. CASE object' = [object EXCEPT ![d] = {"episodic", "quarantine"}]
      BY <3>2
    <3> QED
      BY <1>10, <3>1, <3>2 DEF ScanClean
  <2>2. requests' \in [Docs -> [Uri -> Nat]]
    BY <1>10 DEF ScanClean, Answer, Uri
  <2>3. verdicts' \in [Docs -> [VerdictKind -> Nat]]
    BY <1>10 DEF ScanClean, Answer, VerdictKind
  <2>4. Busy'
    BY <1>10 DEF ScanClean, Answer
  <2> QED
    BY <1>10, <2>1, <2>2, <2>3, <2>4 DEF ScanClean, Answer
<1>11. ASSUME NEW d \in Docs, ScanRejected(d)
      PROVE  TypeOK' /\ Busy'
    BY <1>11 DEF ScanRejected, Answer, Uri, VerdictKind
<1>12. ASSUME NEW d \in Docs, NEW u \in Uri, ScanFailed(d, u)
      PROVE  TypeOK' /\ Busy'
    BY <1>12 DEF ScanFailed, Answer, VerdictKind
<1>13. ASSUME NEW d \in Docs, NEW u \in Uri, RequestDeadLettered(d, u)
      PROVE  TypeOK' /\ Busy'
    BY <1>13 DEF RequestDeadLettered
<1>14. ASSUME NEW p \in Pods, NEW d \in Docs, NEW k \in VerdictKind, VerdictApply(p, d, k)
      PROVE  TypeOK' /\ Busy'
  <2>1. status' \in [Docs -> ScanStatus \cup {"absent"}]
    BY <1>14 DEF VerdictApply, StatusOf, ScanStatus, VerdictKind
  <2>2. key' \in [Docs -> Uri]
    BY <1>14 DEF VerdictApply, Uri
  <2>3. indexed' \in [Docs -> BOOLEAN]
    BY <1>14 DEF VerdictApply
  <2>4. verdicts' \in [Docs -> [VerdictKind -> Nat]]
    BY <1>14 DEF VerdictApply
  <2>5. consumer' \in [Pods -> [doc : Docs \cup {None}, kind : VerdictKind]]
    BY <1>14 DEF VerdictApply
  <2> QED
    BY <1>14, <2>1, <2>2, <2>3, <2>4, <2>5 DEF VerdictApply
<1>15. ASSUME NEW p \in Pods, NEW d \in Docs, NEW k \in VerdictKind, VerdictRefused(p, d, k)
      PROVE  TypeOK' /\ Busy'
    BY <1>15 DEF VerdictRefused
<1>16. ASSUME NEW p \in Pods, VerdictAck(p)
      PROVE  TypeOK' /\ Busy'
  <2>1. indexQ' \in [Pods -> [Docs -> Nat]]
    <3>1. CASE consumer[p].kind = "clean"
      <4>1. consumer[p].doc \in Docs
        BY <1>16 DEF VerdictAck
      <4>2. indexQ' = [indexQ EXCEPT ![p][consumer[p].doc] = @ + 1]
        BY <1>16, <3>1 DEF VerdictAck
      <4> QED
        BY <4>1, <4>2
    <3>2. CASE consumer[p].kind # "clean"
      BY <1>16, <3>2 DEF VerdictAck
    <3> QED
      BY <3>1, <3>2
  <2>2. consumer' \in [Pods -> [doc : Docs \cup {None}, kind : VerdictKind]]
    BY <1>16 DEF VerdictAck, VerdictKind
  <2>3. Busy'
    BY <1>16 DEF VerdictAck
  <2> QED
    BY <1>16, <2>1, <2>2, <2>3 DEF VerdictAck
<1>17. ASSUME NEW p \in Pods, NEW d \in Docs, TakeEnvelope(p, d)
      PROVE  TypeOK' /\ Busy'
    BY <1>17 DEF TakeEnvelope
<1>18. ASSUME NEW p \in Pods, WritePages(p)
      PROVE  TypeOK' /\ Busy'
    BY <1>18 DEF WritePages
<1>19. ASSUME NEW p \in Pods, IndexSucceeds(p)
      PROVE  TypeOK' /\ Busy'
  <2>1. warned' \in [Docs -> BOOLEAN] /\ shadow' \in [Docs -> BOOLEAN]
    BY <1>19 DEF IndexSucceeds, UpsertPdfMetadata
  <2>2. chunks' \in [Docs -> {"none", "some", "cut", "all"}]
    BY <1>19 DEF IndexSucceeds
  <2>3. worker' \in [Pods -> [doc : Docs \cup {None},
                               step : {"idle", "indexing", "ok", "failed", "recording"},
                               attempts : 0 .. IndexMaxAttempts,
                               dead : BOOLEAN]]
    BY <1>19 DEF IndexSucceeds
  <2>4. Busy'
    BY <1>19 DEF IndexSucceeds
  <2> QED
    BY <1>19, <2>1, <2>2, <2>3, <2>4 DEF IndexSucceeds
<1>20. ASSUME NEW p \in Pods, IndexCutShort(p)
      PROVE  TypeOK' /\ Busy'
  <2>1. warned' \in [Docs -> BOOLEAN] /\ shadow' \in [Docs -> BOOLEAN]
    BY <1>20 DEF IndexCutShort, UpsertPdfMetadata
  <2>2. chunks' \in [Docs -> {"none", "some", "cut", "all"}]
    BY <1>20 DEF IndexCutShort
  <2>3. worker' \in [Pods -> [doc : Docs \cup {None},
                               step : {"idle", "indexing", "ok", "failed", "recording"},
                               attempts : 0 .. IndexMaxAttempts,
                               dead : BOOLEAN]]
    BY <1>20 DEF IndexCutShort
  <2>4. Busy'
    BY <1>20 DEF IndexCutShort
  <2> QED
    BY <1>20, <2>1, <2>2, <2>3, <2>4 DEF IndexCutShort
<1>21. ASSUME NEW p \in Pods, IndexFails(p)
      PROVE  TypeOK' /\ Busy'
  <2>1. warned' \in [Docs -> BOOLEAN] /\ shadow' \in [Docs -> BOOLEAN]
    <3>1. CASE UpsertPdfMetadata(worker[p].doc, TRUE)
      BY <3>1 DEF UpsertPdfMetadata
    <3>2. CASE UNCHANGED <<warned, shadow>>
      BY <3>2
    <3> QED
      BY <1>21, <3>1, <3>2 DEF IndexFails
  <2>2. faults' \in Nat
    BY <1>21 DEF IndexFails
  <2>3. worker' \in [Pods -> [doc : Docs \cup {None},
                               step : {"idle", "indexing", "ok", "failed", "recording"},
                               attempts : 0 .. IndexMaxAttempts,
                               dead : BOOLEAN]]
    BY <1>21 DEF IndexFails
  <2>4. Busy'
    BY <1>21 DEF IndexFails
  <2> QED
    BY <1>21, <2>1, <2>2, <2>3, <2>4 DEF IndexFails
<1>22. ASSUME NEW p \in Pods, RecordRead(p)
      PROVE  TypeOK' /\ Busy'
    BY <1>22, CountedCap DEF RecordRead
<1>23. ASSUME NEW p \in Pods, RecordWrite(p)
      PROVE  TypeOK' /\ Busy'
    BY <1>23 DEF RecordWrite
<1>24. ASSUME NEW p \in Pods, MarkIndexed(p)
      PROVE  TypeOK' /\ Busy'
    BY <1>24 DEF MarkIndexed
<1>25. ASSUME NEW p \in Pods, WorkerWriteFails(p)
      PROVE  TypeOK' /\ Busy'
    BY <1>25 DEF WorkerWriteFails
<1>26. ASSUME NEW p \in Pods, IndexJanitorTick(p)
      PROVE  TypeOK' /\ Busy'
    BY <1>26 DEF IndexJanitorTick
<1>27. ASSUME NEW p \in Pods, Crash(p)
      PROVE  TypeOK' /\ Busy'
  <2>1. verdicts' \in [Docs -> [VerdictKind -> Nat]]
    BY <1>27 DEF Crash
  <2>2. consumer' \in [Pods -> [doc : Docs \cup {None}, kind : VerdictKind]]
    BY <1>27 DEF Crash, VerdictKind
  <2>3. scanQ' \in [Pods -> [Docs -> [Uri -> Nat]]]
    BY <1>27 DEF Crash
  <2> QED
    BY <1>27, <2>1, <2>2, <2>3 DEF Crash
<1>28. ASSUME NEW d \in Docs, Replay(d)
      PROVE  TypeOK' /\ Busy'
    BY <1>28 DEF Replay
<1>29. CASE UNCHANGED vars
    BY <1>29 DEF vars
<1> QED
    BY <1>1, <1>2, <1>3, <1>4, <1>5, <1>6, <1>7, <1>8, <1>9, <1>10, <1>11,
       <1>12, <1>13, <1>14, <1>15, <1>16, <1>17, <1>18, <1>19, <1>20, <1>21,
       <1>22, <1>23, <1>24, <1>25, <1>26, <1>27, <1>28, <1>29 DEF Next,
       UploadNext, PublisherNext, ScannerNext, ConsumerNext, WorkerNext

-----------------------------------------------------------------------------
(* The handler commits the row before the envelope: no step gives an      *)
(* upload without a row a message, a marker or a task.                     *)
LEMMA RowFirstStep ==
    TypeOK /\ Busy /\ RowFirst /\ [Next]_vars => RowFirst'
<1> SUFFICES ASSUME TypeOK, Busy, RowFirst, [Next]_vars PROVE RowFirst'
    OBVIOUS
<1> USE NoneAssumption, AttemptsAssumption DEF TypeOK, Busy, RowFirst, Queued,
   Requested, Answered, Indexing, NoUpload, NoVerdict, IdleWorker,
        WorkerAt, rowVars, storeVars, brokerVars, podVars, budgetVars, Fault
<1>1. ASSUME NEW p \in Pods, NEW d \in Docs, UploadStore(p, d)
      PROVE  RowFirst'
    BY <1>1 DEF UploadStore
<1>2. ASSUME NEW p \in Pods, UploadInsert(p)
      PROVE  RowFirst'
    BY <1>2 DEF UploadInsert
<1>3. ASSUME NEW p \in Pods, UploadInsertFails(p)
      PROVE  RowFirst'
    BY <1>3 DEF UploadInsertFails
<1>4. ASSUME NEW p \in Pods, UploadEnqueue(p)
      PROVE  RowFirst'
    BY <1>4 DEF UploadEnqueue
<1>5. ASSUME NEW p \in Pods, NEW d \in Docs, NEW u \in Uri, Publish(p, d, u)
      PROVE  RowFirst'
    BY <1>5 DEF Publish
<1>6. ASSUME NEW p \in Pods, NEW d \in Docs, NEW u \in Uri, PublishFails(p, d, u)
      PROVE  RowFirst'
    BY <1>6 DEF PublishFails
<1>7. ASSUME NEW p \in Pods, MarkPublished(p)
      PROVE  RowFirst'
    BY <1>7 DEF MarkPublished
<1>8. ASSUME NEW p \in Pods, MarkPublishedFails(p)
      PROVE  RowFirst'
    BY <1>8 DEF MarkPublishedFails
<1>9. ASSUME NEW p \in Pods, ScanJanitorTick(p)
      PROVE  RowFirst'
    BY BatchSubset, <1>9 DEF ScanJanitorTick, ScanOrphans
<1>10. ASSUME NEW d \in Docs, ScanClean(d)
      PROVE  RowFirst'
  <2>1. status[d] # "absent"
    BY <1>10 DEF ScanClean, Answer, Uri
  <2>2. \A e \in Docs : e # d => requests'[e] = requests[e] /\ verdicts'[e] = verdicts[e]
    BY <1>10 DEF ScanClean, Answer
  <2> QED
    BY <1>10, <2>1, <2>2 DEF ScanClean, Answer
<1>11. ASSUME NEW d \in Docs, ScanRejected(d)
      PROVE  RowFirst'
  <2>1. status[d] # "absent"
    BY <1>11 DEF ScanRejected, Answer, Uri
  <2>2. \A e \in Docs : e # d => requests'[e] = requests[e] /\ verdicts'[e] = verdicts[e]
    BY <1>11 DEF ScanRejected, Answer
  <2> QED
    BY <1>11, <2>1, <2>2 DEF ScanRejected, Answer
<1>12. ASSUME NEW d \in Docs, NEW u \in Uri, ScanFailed(d, u)
      PROVE  RowFirst'
    BY <1>12 DEF ScanFailed, Answer
<1>13. ASSUME NEW d \in Docs, NEW u \in Uri, RequestDeadLettered(d, u)
      PROVE  RowFirst'
    BY <1>13 DEF RequestDeadLettered
<1>14. ASSUME NEW p \in Pods, NEW d \in Docs, NEW k \in VerdictKind, VerdictApply(p, d, k)
      PROVE  RowFirst'
    BY <1>14 DEF VerdictApply, StatusOf, VerdictKind
<1>15. ASSUME NEW p \in Pods, NEW d \in Docs, NEW k \in VerdictKind, VerdictRefused(p, d, k)
      PROVE  RowFirst'
    BY <1>15 DEF VerdictRefused
<1>16. ASSUME NEW p \in Pods, VerdictAck(p)
      PROVE  RowFirst'
  <2>1. consumer[p].doc \in Docs /\ status[consumer[p].doc] # "absent"
    BY <1>16 DEF VerdictAck
  <2>2. \A q \in Pods, e \in Docs : e # consumer[p].doc => indexQ'[q][e] = indexQ[q][e]
    <3>1. \/ indexQ' = [indexQ EXCEPT ![p][consumer[p].doc] = @ + 1]
          \/ indexQ' = indexQ
      BY <1>16 DEF VerdictAck
    <3>2. CASE indexQ' = [indexQ EXCEPT ![p][consumer[p].doc] = @ + 1]
      BY <2>1, <3>2
    <3>3. CASE indexQ' = indexQ
      BY <3>3
    <3> QED
      BY <3>1, <3>2, <3>3
  <2>3. \A q \in Pods, e \in Docs : consumer'[q].doc = e => consumer[q].doc = e
    BY <1>16 DEF VerdictAck
  <2>4. /\ status' = status /\ published' = published /\ key' = key
        /\ requests' = requests /\ verdicts' = verdicts
        /\ upload' = upload /\ scanQ' = scanQ /\ publisher' = publisher /\ worker' = worker
    BY <1>16 DEF VerdictAck
  <2>5. ASSUME NEW e \in Docs, status'[e] = "absent"
        PROVE  ~Indexing(e)'
    BY <2>1, <2>2, <2>4, <2>5
  <2>6. ASSUME NEW e \in Docs, status'[e] = "absent"
        PROVE  (~Queued(e) /\ ~Requested(e) /\ ~Answered(e) /\ ~published[e] /\ key[e] # "episodic_uri")'
    BY <2>4, <2>6
  <2>7. ASSUME NEW e \in Docs, status'[e] = "absent", NEW q \in Pods
        PROVE  (consumer[q].doc # e /\ (upload[q].step = "inserted" => upload[q].doc # e))'
    BY <2>3, <2>4, <2>7
  <2> QED
    BY <2>5, <2>6, <2>7
<1>17. ASSUME NEW p \in Pods, NEW d \in Docs, TakeEnvelope(p, d)
      PROVE  RowFirst'
    BY <1>17 DEF TakeEnvelope
<1>18. ASSUME NEW p \in Pods, WritePages(p)
      PROVE  RowFirst'
    BY <1>18 DEF WritePages
<1>19. ASSUME NEW p \in Pods, IndexSucceeds(p)
      PROVE  RowFirst'
    BY <1>19 DEF IndexSucceeds, UpsertPdfMetadata
<1>20. ASSUME NEW p \in Pods, IndexCutShort(p)
      PROVE  RowFirst'
    BY <1>20 DEF IndexCutShort, UpsertPdfMetadata
<1>21. ASSUME NEW p \in Pods, IndexFails(p)
      PROVE  RowFirst'
    BY <1>21 DEF IndexFails, UpsertPdfMetadata
<1>22. ASSUME NEW p \in Pods, RecordRead(p)
      PROVE  RowFirst'
    BY <1>22, CountedCap DEF RecordRead
<1>23. ASSUME NEW p \in Pods, RecordWrite(p)
      PROVE  RowFirst'
    BY <1>23 DEF RecordWrite
<1>24. ASSUME NEW p \in Pods, MarkIndexed(p)
      PROVE  RowFirst'
    BY <1>24 DEF MarkIndexed
<1>25. ASSUME NEW p \in Pods, WorkerWriteFails(p)
      PROVE  RowFirst'
    BY <1>25 DEF WorkerWriteFails
<1>26. ASSUME NEW p \in Pods, IndexJanitorTick(p)
      PROVE  RowFirst'
    BY BatchSubset, <1>26 DEF IndexJanitorTick, IndexOrphans
<1>27. ASSUME NEW p \in Pods, Crash(p)
      PROVE  RowFirst'
    BY <1>27 DEF Crash
<1>28. ASSUME NEW d \in Docs, Replay(d)
      PROVE  RowFirst'
    BY <1>28 DEF Replay
<1>29. CASE UNCHANGED vars
    BY <1>29 DEF vars
<1> QED
    BY <1>1, <1>2, <1>3, <1>4, <1>5, <1>6, <1>7, <1>8, <1>9, <1>10, <1>11,
       <1>12, <1>13, <1>14, <1>15, <1>16, <1>17, <1>18, <1>19, <1>20, <1>21,
       <1>22, <1>23, <1>24, <1>25, <1>26, <1>27, <1>28, <1>29 DEF Next,
       UploadNext, PublisherNext, ScannerNext, ConsumerNext, WorkerNext

-----------------------------------------------------------------------------
(* No step gives two handlers the same upload, nor a row to an upload      *)
(* whose handler has yet to insert it.                                     *)
LEMMA OneHandlerStep ==
    TypeOK /\ Busy /\ OneHandler /\ RowFirst /\ [Next]_vars => OneHandler'
<1> SUFFICES ASSUME TypeOK, Busy, OneHandler, RowFirst, [Next]_vars PROVE OneHandler'
    OBVIOUS
<1> USE NoneAssumption, AttemptsAssumption DEF TypeOK, Busy, OneHandler,
   RowFirst, Queued, Requested, Answered, Indexing, NoUpload, NoVerdict,
   IdleWorker,
        WorkerAt, rowVars, storeVars, brokerVars, podVars, budgetVars, Fault
<1>1. ASSUME NEW p \in Pods, NEW d \in Docs, UploadStore(p, d)
      PROVE  OneHandler'
  <2>1. \A q \in Pods : upload[q].step = "stored" => upload[q].doc # d
    BY <1>1 DEF UploadStore
  <2>2. upload'[p].doc = d
    BY <1>1 DEF UploadStore
  <2>3. \A q \in Pods : q # p => upload'[q] = upload[q]
    BY <1>1 DEF UploadStore
  <2>4. object'[d] # {} /\ \A e \in Docs : e # d => object'[e] = object[e]
    BY <1>1 DEF UploadStore
  <2>5. status' = status /\ status[d] = "absent"
    BY <1>1 DEF UploadStore
  <2>6. ASSUME NEW q \in Pods, upload'[q].step = "stored"
        PROVE  status'[upload'[q].doc] = "absent" /\ object'[upload'[q].doc] # {}
    <3>1. CASE q = p
      BY <2>2, <2>4, <2>5, <3>1
    <3>2. CASE q # p
      <4>1. upload'[q] = upload[q]
        BY <2>3, <3>2
      <4>2. upload[q].doc \in Docs /\ upload[q].doc # d
        BY <2>1, <2>6, <4>1
      <4> QED
        BY <2>4, <2>5, <2>6, <4>1, <4>2
    <3> QED
      BY <3>1, <3>2
  <2>7. ASSUME NEW q \in Pods, NEW r \in Pods,
               upload'[q].step = "stored", upload'[r].step = "stored",
               upload'[r].doc = upload'[q].doc
        PROVE  r = q
    <3>1. CASE q # p /\ r # p
      BY <2>3, <2>7, <3>1
    <3>2. CASE q = p /\ r # p
      BY <2>1, <2>2, <2>3, <2>7, <3>2
    <3>3. CASE q # p /\ r = p
      BY <2>1, <2>2, <2>3, <2>7, <3>3
    <3> QED
      BY <3>1, <3>2, <3>3
  <2> QED
    BY <2>6, <2>7
<1>2. ASSUME NEW p \in Pods, UploadInsert(p)
      PROVE  OneHandler'
    BY <1>2 DEF UploadInsert
<1>3. ASSUME NEW p \in Pods, UploadInsertFails(p)
      PROVE  OneHandler'
    BY <1>3 DEF UploadInsertFails
<1>4. ASSUME NEW p \in Pods, UploadEnqueue(p)
      PROVE  OneHandler'
    BY <1>4 DEF UploadEnqueue
<1>5. ASSUME NEW p \in Pods, NEW d \in Docs, NEW u \in Uri, Publish(p, d, u)
      PROVE  OneHandler'
    BY <1>5 DEF Publish
<1>6. ASSUME NEW p \in Pods, NEW d \in Docs, NEW u \in Uri, PublishFails(p, d, u)
      PROVE  OneHandler'
    BY <1>6 DEF PublishFails
<1>7. ASSUME NEW p \in Pods, MarkPublished(p)
      PROVE  OneHandler'
    BY <1>7 DEF MarkPublished
<1>8. ASSUME NEW p \in Pods, MarkPublishedFails(p)
      PROVE  OneHandler'
    BY <1>8 DEF MarkPublishedFails
<1>9. ASSUME NEW p \in Pods, ScanJanitorTick(p)
      PROVE  OneHandler'
    BY BatchSubset, <1>9 DEF ScanJanitorTick, ScanOrphans
<1>10. ASSUME NEW d \in Docs, ScanClean(d)
      PROVE  OneHandler'
  <2>1. status[d] # "absent"
    BY <1>10 DEF ScanClean, Answer, Uri
  <2>2. \A e \in Docs : e # d => object'[e] = object[e]
    BY <1>10 DEF ScanClean
  <2>3. upload' = upload /\ status' = status
    BY <1>10 DEF ScanClean, Answer
  <2>4. ASSUME NEW q \in Pods, upload'[q].step = "stored"
        PROVE  status'[upload'[q].doc] = "absent" /\ object'[upload'[q].doc] # {}
    <3>1. upload[q].doc \in Docs /\ upload[q].doc # d
      BY <2>1, <2>3, <2>4
    <3>2. object'[upload'[q].doc] # {}
      BY <2>2, <2>3, <2>4, <3>1
    <3> QED
      BY <2>3, <2>4, <3>2
  <2>5. \A q, r \in Pods :
            upload'[q].step = "stored" /\ upload'[r].step = "stored"
              /\ upload'[r].doc = upload'[q].doc => r = q
    BY <2>3
  <2> QED
    BY <2>4, <2>5
<1>11. ASSUME NEW d \in Docs, ScanRejected(d)
      PROVE  OneHandler'
  <2>1. status[d] # "absent"
    BY <1>11 DEF ScanRejected, Answer, Uri
  <2>2. \A e \in Docs : e # d => object'[e] = object[e]
    BY <1>11 DEF ScanRejected
  <2>3. upload' = upload /\ status' = status
    BY <1>11 DEF ScanRejected, Answer
  <2>4. ASSUME NEW q \in Pods, upload'[q].step = "stored"
        PROVE  status'[upload'[q].doc] = "absent" /\ object'[upload'[q].doc] # {}
    <3>1. upload[q].doc \in Docs /\ upload[q].doc # d
      BY <2>1, <2>3, <2>4
    <3>2. object'[upload'[q].doc] # {}
      BY <2>2, <2>3, <2>4, <3>1
    <3> QED
      BY <2>3, <2>4, <3>2
  <2>5. \A q, r \in Pods :
            upload'[q].step = "stored" /\ upload'[r].step = "stored"
              /\ upload'[r].doc = upload'[q].doc => r = q
    BY <2>3
  <2> QED
    BY <2>4, <2>5
<1>12. ASSUME NEW d \in Docs, NEW u \in Uri, ScanFailed(d, u)
      PROVE  OneHandler'
    BY <1>12 DEF ScanFailed, Answer
<1>13. ASSUME NEW d \in Docs, NEW u \in Uri, RequestDeadLettered(d, u)
      PROVE  OneHandler'
    BY <1>13 DEF RequestDeadLettered
<1>14. ASSUME NEW p \in Pods, NEW d \in Docs, NEW k \in VerdictKind, VerdictApply(p, d, k)
      PROVE  OneHandler'
    BY <1>14 DEF VerdictApply, StatusOf, VerdictKind
<1>15. ASSUME NEW p \in Pods, NEW d \in Docs, NEW k \in VerdictKind, VerdictRefused(p, d, k)
      PROVE  OneHandler'
    BY <1>15 DEF VerdictRefused
<1>16. ASSUME NEW p \in Pods, VerdictAck(p)
      PROVE  OneHandler'
    BY <1>16 DEF VerdictAck
<1>17. ASSUME NEW p \in Pods, NEW d \in Docs, TakeEnvelope(p, d)
      PROVE  OneHandler'
    BY <1>17 DEF TakeEnvelope
<1>18. ASSUME NEW p \in Pods, WritePages(p)
      PROVE  OneHandler'
    BY <1>18 DEF WritePages
<1>19. ASSUME NEW p \in Pods, IndexSucceeds(p)
      PROVE  OneHandler'
    BY <1>19 DEF IndexSucceeds, UpsertPdfMetadata
<1>20. ASSUME NEW p \in Pods, IndexCutShort(p)
      PROVE  OneHandler'
    BY <1>20 DEF IndexCutShort, UpsertPdfMetadata
<1>21. ASSUME NEW p \in Pods, IndexFails(p)
      PROVE  OneHandler'
    BY <1>21 DEF IndexFails, UpsertPdfMetadata
<1>22. ASSUME NEW p \in Pods, RecordRead(p)
      PROVE  OneHandler'
    BY <1>22, CountedCap DEF RecordRead
<1>23. ASSUME NEW p \in Pods, RecordWrite(p)
      PROVE  OneHandler'
    BY <1>23 DEF RecordWrite
<1>24. ASSUME NEW p \in Pods, MarkIndexed(p)
      PROVE  OneHandler'
    BY <1>24 DEF MarkIndexed
<1>25. ASSUME NEW p \in Pods, WorkerWriteFails(p)
      PROVE  OneHandler'
    BY <1>25 DEF WorkerWriteFails
<1>26. ASSUME NEW p \in Pods, IndexJanitorTick(p)
      PROVE  OneHandler'
    BY BatchSubset, <1>26 DEF IndexJanitorTick, IndexOrphans
<1>27. ASSUME NEW p \in Pods, Crash(p)
      PROVE  OneHandler'
    BY <1>27 DEF Crash
<1>28. ASSUME NEW d \in Docs, Replay(d)
      PROVE  OneHandler'
    BY <1>28 DEF Replay
<1>29. CASE UNCHANGED vars
    BY <1>29 DEF vars
<1> QED
    BY <1>1, <1>2, <1>3, <1>4, <1>5, <1>6, <1>7, <1>8, <1>9, <1>10, <1>11,
       <1>12, <1>13, <1>14, <1>15, <1>16, <1>17, <1>18, <1>19, <1>20, <1>21,
       <1>22, <1>23, <1>24, <1>25, <1>26, <1>27, <1>28, <1>29 DEF Next,
       UploadNext, PublisherNext, ScannerNext, ConsumerNext, WorkerNext

-----------------------------------------------------------------------------
(* A request leaves the broker only for a verdict or the dead-letter       *)
(* queue, a verdict only into the row or the dead-letter queue.            *)
LEMMA InHandStep ==
    TypeOK /\ Busy /\ InHand /\ RowFirst /\ OneHandler /\ [Next]_vars => InHand'
<1> SUFFICES ASSUME TypeOK, Busy, InHand, RowFirst, OneHandler, [Next]_vars PROVE InHand'
    OBVIOUS
<1> USE NoneAssumption, AttemptsAssumption DEF TypeOK, Busy, InHand, RowFirst,
   OneHandler, Queued, Requested, Answered, Indexing, NoUpload, NoVerdict,
   IdleWorker,
        WorkerAt, rowVars, storeVars, brokerVars, podVars, budgetVars, Fault
<1>1. ASSUME NEW p \in Pods, NEW d \in Docs, UploadStore(p, d)
      PROVE  InHand'
    BY <1>1 DEF UploadStore
<1>2. ASSUME NEW p \in Pods, UploadInsert(p)
      PROVE  InHand'
    BY <1>2 DEF UploadInsert
<1>3. ASSUME NEW p \in Pods, UploadInsertFails(p)
      PROVE  InHand'
    BY <1>3 DEF UploadInsertFails
<1>4. ASSUME NEW p \in Pods, UploadEnqueue(p)
      PROVE  InHand'
    BY <1>4 DEF UploadEnqueue
<1>5. ASSUME NEW p \in Pods, NEW d \in Docs, NEW u \in Uri, Publish(p, d, u)
      PROVE  InHand'
  <2>1. requests'[d][u] > 0 /\ \A e \in Docs : e # d => requests'[e] = requests[e]
    BY <1>5 DEF Publish
  <2>2. \A q \in Pods : publisher'[q] = publisher[q] \/ publisher'[q] = d
    BY <1>5 DEF Publish
  <2>3. status' = status /\ published' = published /\ verdicts' = verdicts /\ dlx' = dlx
    BY <1>5 DEF Publish
  <2>4. ASSUME NEW e \in Docs, status'[e] = "pending_scan",
               published'[e] \/ \E q \in Pods : publisher'[q] = e
        PROVE  (Requested(e) \/ Answered(e) \/ e \in dlx)'
    <3>1. CASE e = d
      BY <2>1, <3>1
    <3>2. CASE e # d
      <4>1. published[e] \/ \E q \in Pods : publisher[q] = e
        <5>1. CASE published'[e]
          BY <2>3, <5>1
        <5>2. ASSUME NEW q \in Pods, publisher'[q] = e
              PROVE  publisher[q] = e
          BY <2>2, <3>2, <5>2
        <5> QED
          BY <2>4, <5>1, <5>2
      <4>2. Requested(e) \/ Answered(e) \/ e \in dlx
        BY <2>3, <2>4, <4>1
      <4> QED
        BY <2>1, <2>3, <3>2, <4>2
    <3> QED
      BY <3>1, <3>2
  <2> QED
    BY <2>4
<1>6. ASSUME NEW p \in Pods, NEW d \in Docs, NEW u \in Uri, PublishFails(p, d, u)
      PROVE  InHand'
  <2>1. \A e \in Docs : Requested(e) => Requested(e)'
    <3>1. CASE requests' = [requests EXCEPT ![d][u] = @ + 1]
      BY <3>1
    <3>2. CASE UNCHANGED requests
      BY <3>2
    <3> QED
      BY <1>6, <3>1, <3>2 DEF PublishFails
  <2>2. UNCHANGED <<status, published, publisher, verdicts, dlx>>
    BY <1>6 DEF PublishFails
  <2> QED
    BY <2>1, <2>2
<1>7. ASSUME NEW p \in Pods, MarkPublished(p)
      PROVE  InHand'
  <2>1. \A e \in Docs : published'[e] => published[e] \/ \E q \in Pods : publisher[q] = e
    BY <1>7 DEF MarkPublished
  <2>2. \A q \in Pods, e \in Docs : publisher'[q] = e => publisher[q] = e
    BY <1>7 DEF MarkPublished
  <2>3. status' = status /\ requests' = requests /\ verdicts' = verdicts /\ dlx' = dlx
    BY <1>7 DEF MarkPublished
  <2>4. ASSUME NEW e \in Docs, status'[e] = "pending_scan",
               published'[e] \/ \E q \in Pods : publisher'[q] = e
        PROVE  (Requested(e) \/ Answered(e) \/ e \in dlx)'
    <3>1. published[e] \/ \E q \in Pods : publisher[q] = e
      BY <2>1, <2>2, <2>4
    <3>2. Requested(e) \/ Answered(e) \/ e \in dlx
      BY <2>3, <2>4, <3>1
    <3> QED
      BY <2>3, <3>2
  <2> QED
    BY <2>4
<1>8. ASSUME NEW p \in Pods, MarkPublishedFails(p)
      PROVE  InHand'
  <2>1. \A e \in Docs : published'[e] => published[e] \/ \E q \in Pods : publisher[q] = e
    BY <1>8 DEF MarkPublishedFails
  <2>2. \A q \in Pods, e \in Docs : publisher'[q] = e => publisher[q] = e
    BY <1>8 DEF MarkPublishedFails
  <2>3. status' = status /\ requests' = requests /\ verdicts' = verdicts /\ dlx' = dlx
    BY <1>8 DEF MarkPublishedFails
  <2>4. ASSUME NEW e \in Docs, status'[e] = "pending_scan",
               published'[e] \/ \E q \in Pods : publisher'[q] = e
        PROVE  (Requested(e) \/ Answered(e) \/ e \in dlx)'
    <3>1. published[e] \/ \E q \in Pods : publisher[q] = e
      BY <2>1, <2>2, <2>4
    <3>2. Requested(e) \/ Answered(e) \/ e \in dlx
      BY <2>3, <2>4, <3>1
    <3> QED
      BY <2>3, <3>2
  <2> QED
    BY <2>4
<1>9. ASSUME NEW p \in Pods, ScanJanitorTick(p)
      PROVE  InHand'
  <2>1. UNCHANGED <<status, published, publisher, requests, verdicts, dlx>>
    BY <1>9 DEF ScanJanitorTick
  <2> QED
    BY <2>1
<1>10. ASSUME NEW d \in Docs, ScanClean(d)
      PROVE  InHand'
  <2>1. Answered(d)'
    <3>1. verdicts'[d]["clean"] > 0
      BY <1>10 DEF ScanClean, Answer, VerdictKind
    <3> QED
      BY <3>1 DEF VerdictKind
  <2>2. \A e \in Docs : e # d => requests'[e] = requests[e] /\ verdicts'[e] = verdicts[e]
    BY <1>10 DEF ScanClean, Answer
  <2>3. UNCHANGED <<status, published, publisher, dlx>>
    BY <1>10 DEF ScanClean, Answer
  <2> QED
    BY <2>1, <2>2, <2>3
<1>11. ASSUME NEW d \in Docs, ScanRejected(d)
      PROVE  InHand'
  <2>1. Answered(d)'
    <3>1. verdicts'[d]["rejected"] > 0
      BY <1>11 DEF ScanRejected, Answer, VerdictKind
    <3> QED
      BY <3>1 DEF VerdictKind
  <2>2. \A e \in Docs : e # d => requests'[e] = requests[e] /\ verdicts'[e] = verdicts[e]
    BY <1>11 DEF ScanRejected, Answer
  <2>3. UNCHANGED <<status, published, publisher, dlx>>
    BY <1>11 DEF ScanRejected, Answer
  <2> QED
    BY <2>1, <2>2, <2>3
<1>12. ASSUME NEW d \in Docs, NEW u \in Uri, ScanFailed(d, u)
      PROVE  InHand'
  <2>1. Answered(d)'
    <3>1. verdicts'[d]["scan_failed"] > 0
      BY <1>12 DEF ScanFailed, Answer, VerdictKind
    <3> QED
      BY <3>1 DEF VerdictKind
  <2>2. \A e \in Docs : e # d => requests'[e] = requests[e] /\ verdicts'[e] = verdicts[e]
    BY <1>12 DEF ScanFailed, Answer
  <2>3. UNCHANGED <<status, published, publisher, dlx>>
    BY <1>12 DEF ScanFailed, Answer
  <2> QED
    BY <2>1, <2>2, <2>3
<1>13. ASSUME NEW d \in Docs, NEW u \in Uri, RequestDeadLettered(d, u)
      PROVE  InHand'
    BY <1>13 DEF RequestDeadLettered
<1>14. ASSUME NEW p \in Pods, NEW d \in Docs, NEW k \in VerdictKind, VerdictApply(p, d, k)
      PROVE  InHand'
    BY <1>14 DEF VerdictApply, StatusOf, VerdictKind
<1>15. ASSUME NEW p \in Pods, NEW d \in Docs, NEW k \in VerdictKind, VerdictRefused(p, d, k)
      PROVE  InHand'
    BY <1>15 DEF VerdictRefused
<1>16. ASSUME NEW p \in Pods, VerdictAck(p)
      PROVE  InHand'
    BY <1>16 DEF VerdictAck
<1>17. ASSUME NEW p \in Pods, NEW d \in Docs, TakeEnvelope(p, d)
      PROVE  InHand'
    BY <1>17 DEF TakeEnvelope
<1>18. ASSUME NEW p \in Pods, WritePages(p)
      PROVE  InHand'
    BY <1>18 DEF WritePages
<1>19. ASSUME NEW p \in Pods, IndexSucceeds(p)
      PROVE  InHand'
    BY <1>19 DEF IndexSucceeds, UpsertPdfMetadata
<1>20. ASSUME NEW p \in Pods, IndexCutShort(p)
      PROVE  InHand'
    BY <1>20 DEF IndexCutShort, UpsertPdfMetadata
<1>21. ASSUME NEW p \in Pods, IndexFails(p)
      PROVE  InHand'
    BY <1>21 DEF IndexFails, UpsertPdfMetadata
<1>22. ASSUME NEW p \in Pods, RecordRead(p)
      PROVE  InHand'
    BY <1>22, CountedCap DEF RecordRead
<1>23. ASSUME NEW p \in Pods, RecordWrite(p)
      PROVE  InHand'
    BY <1>23 DEF RecordWrite
<1>24. ASSUME NEW p \in Pods, MarkIndexed(p)
      PROVE  InHand'
    BY <1>24 DEF MarkIndexed
<1>25. ASSUME NEW p \in Pods, WorkerWriteFails(p)
      PROVE  InHand'
    BY <1>25 DEF WorkerWriteFails
<1>26. ASSUME NEW p \in Pods, IndexJanitorTick(p)
      PROVE  InHand'
  <2>1. UNCHANGED <<status, published, publisher, requests, verdicts, dlx>>
    BY <1>26 DEF IndexJanitorTick
  <2> QED
    BY <2>1
<1>27. ASSUME NEW p \in Pods, Crash(p)
      PROVE  InHand'
  <2>1. \A e \in Docs, k \in VerdictKind : verdicts[e][k] > 0 => verdicts'[e][k] > 0
    BY <1>27 DEF Crash
  <2>2. \A q \in Pods, e \in Docs : publisher'[q] = e => publisher[q] = e
    BY <1>27 DEF Crash
  <2>3. status' = status /\ published' = published /\ requests' = requests /\ dlx' = dlx
    BY <1>27 DEF Crash
  <2>4. ASSUME NEW e \in Docs, status'[e] = "pending_scan",
               published'[e] \/ \E q \in Pods : publisher'[q] = e
        PROVE  (Requested(e) \/ Answered(e) \/ e \in dlx)'
    <3>1. published[e] \/ \E q \in Pods : publisher[q] = e
      BY <2>2, <2>3, <2>4
    <3>2. Requested(e) \/ Answered(e) \/ e \in dlx
      BY <2>3, <2>4, <3>1
    <3> QED
      BY <2>1, <2>3, <3>2
  <2> QED
    BY <2>4
<1>28. ASSUME NEW d \in Docs, Replay(d)
      PROVE  InHand'
    BY <1>28 DEF Replay
<1>29. CASE UNCHANGED vars
    BY <1>29 DEF vars
<1> QED
    BY <1>1, <1>2, <1>3, <1>4, <1>5, <1>6, <1>7, <1>8, <1>9, <1>10, <1>11,
       <1>12, <1>13, <1>14, <1>15, <1>16, <1>17, <1>18, <1>19, <1>20, <1>21,
       <1>22, <1>23, <1>24, <1>25, <1>26, <1>27, <1>28, <1>29 DEF Next,
       UploadNext, PublisherNext, ScannerNext, ConsumerNext, WorkerNext

-----------------------------------------------------------------------------
(* Only the scanner's promotion starts the chain from verdict to chunks.   *)
LEMMA PromotedFirstStep ==
    TypeOK /\ Busy /\ PromotedFirst /\ RowFirst /\ OneHandler /\ [Next]_vars => PromotedFirst'
<1> SUFFICES ASSUME TypeOK, Busy, PromotedFirst, RowFirst, OneHandler, [Next]_vars PROVE PromotedFirst'
    OBVIOUS
<1> USE NoneAssumption, AttemptsAssumption DEF TypeOK, Busy, PromotedFirst,
   RowFirst, OneHandler, Queued, Requested, Answered, Indexing, Cleared,
   NoUpload, NoVerdict, IdleWorker,
        WorkerAt, rowVars, storeVars, brokerVars, podVars, budgetVars, Fault
<1>1. ASSUME NEW p \in Pods, NEW d \in Docs, UploadStore(p, d)
      PROVE  PromotedFirst'
    BY <1>1 DEF UploadStore
<1>2. ASSUME NEW p \in Pods, UploadInsert(p)
      PROVE  PromotedFirst'
    BY <1>2 DEF UploadInsert
<1>3. ASSUME NEW p \in Pods, UploadInsertFails(p)
      PROVE  PromotedFirst'
    BY <1>3 DEF UploadInsertFails
<1>4. ASSUME NEW p \in Pods, UploadEnqueue(p)
      PROVE  PromotedFirst'
    BY <1>4 DEF UploadEnqueue
<1>5. ASSUME NEW p \in Pods, NEW d \in Docs, NEW u \in Uri, Publish(p, d, u)
      PROVE  PromotedFirst'
    BY <1>5 DEF Publish
<1>6. ASSUME NEW p \in Pods, NEW d \in Docs, NEW u \in Uri, PublishFails(p, d, u)
      PROVE  PromotedFirst'
    BY <1>6 DEF PublishFails
<1>7. ASSUME NEW p \in Pods, MarkPublished(p)
      PROVE  PromotedFirst'
    BY <1>7 DEF MarkPublished
<1>8. ASSUME NEW p \in Pods, MarkPublishedFails(p)
      PROVE  PromotedFirst'
    BY <1>8 DEF MarkPublishedFails
<1>9. ASSUME NEW p \in Pods, ScanJanitorTick(p)
      PROVE  PromotedFirst'
    BY BatchSubset, <1>9 DEF ScanJanitorTick, ScanOrphans
<1>10. ASSUME NEW d \in Docs, ScanClean(d)
      PROVE  PromotedFirst'
    BY <1>10 DEF ScanClean, Answer
<1>11. ASSUME NEW d \in Docs, ScanRejected(d)
      PROVE  PromotedFirst'
    BY <1>11 DEF ScanRejected, Answer
<1>12. ASSUME NEW d \in Docs, NEW u \in Uri, ScanFailed(d, u)
      PROVE  PromotedFirst'
    BY <1>12 DEF ScanFailed, Answer
<1>13. ASSUME NEW d \in Docs, NEW u \in Uri, RequestDeadLettered(d, u)
      PROVE  PromotedFirst'
    BY <1>13 DEF RequestDeadLettered
<1>14. ASSUME NEW p \in Pods, NEW d \in Docs, NEW k \in VerdictKind, VerdictApply(p, d, k)
      PROVE  PromotedFirst'
    BY <1>14 DEF VerdictApply, StatusOf, VerdictKind
<1>15. ASSUME NEW p \in Pods, NEW d \in Docs, NEW k \in VerdictKind, VerdictRefused(p, d, k)
      PROVE  PromotedFirst'
    BY <1>15 DEF VerdictRefused
<1>16. ASSUME NEW p \in Pods, VerdictAck(p)
      PROVE  PromotedFirst'
  <2>1. \A q \in Pods, e \in Docs : indexQ'[q][e] > 0 =>
            \/ indexQ[q][e] > 0
            \/ consumer[p].doc = e /\ consumer[p].kind = "clean"
    <3>1. CASE consumer[p].kind = "clean"
      <4>1. indexQ' = [indexQ EXCEPT ![p][consumer[p].doc] = @ + 1]
        BY <1>16, <3>1 DEF VerdictAck
      <4> QED
        BY <4>1, <3>1
    <3>2. CASE consumer[p].kind # "clean"
      BY <1>16, <3>2 DEF VerdictAck
    <3> QED
      BY <3>1, <3>2
  <2>2. \A q \in Pods, e \in Docs : consumer'[q].doc = e => consumer'[q] = consumer[q]
    BY <1>16 DEF VerdictAck
  <2>3. /\ status' = status /\ key' = key /\ object' = object /\ chunks' = chunks
        /\ verdicts' = verdicts /\ worker' = worker
    BY <1>16 DEF VerdictAck
  <2>4. ASSUME NEW e \in Docs, Indexing(e)' PROVE Cleared(e)
    BY <2>1, <2>3, <2>4
  <2>5. ASSUME NEW e \in Docs, NEW q \in Pods, consumer'[q].doc = e, consumer'[q].kind = "clean"
        PROVE  Cleared(e)
    <3>1. consumer[q] = consumer'[q]
      BY <2>2, <2>5
    <3>2. consumer[q].doc = e /\ consumer[q].kind = "clean"
      BY <2>5, <3>1
    <3> QED
      BY <3>2
  <2>6. \A e \in Docs : Cleared(e)' <=> Cleared(e)
    BY <2>3
  <2> QED
    BY <2>3, <2>4, <2>5, <2>6
<1>17. ASSUME NEW p \in Pods, NEW d \in Docs, TakeEnvelope(p, d)
      PROVE  PromotedFirst'
    BY <1>17 DEF TakeEnvelope
<1>18. ASSUME NEW p \in Pods, WritePages(p)
      PROVE  PromotedFirst'
    BY <1>18 DEF WritePages
<1>19. ASSUME NEW p \in Pods, IndexSucceeds(p)
      PROVE  PromotedFirst'
    BY <1>19 DEF IndexSucceeds, UpsertPdfMetadata
<1>20. ASSUME NEW p \in Pods, IndexCutShort(p)
      PROVE  PromotedFirst'
    BY <1>20 DEF IndexCutShort, UpsertPdfMetadata
<1>21. ASSUME NEW p \in Pods, IndexFails(p)
      PROVE  PromotedFirst'
    BY <1>21 DEF IndexFails, UpsertPdfMetadata
<1>22. ASSUME NEW p \in Pods, RecordRead(p)
      PROVE  PromotedFirst'
    BY <1>22, CountedCap DEF RecordRead
<1>23. ASSUME NEW p \in Pods, RecordWrite(p)
      PROVE  PromotedFirst'
    BY <1>23 DEF RecordWrite
<1>24. ASSUME NEW p \in Pods, MarkIndexed(p)
      PROVE  PromotedFirst'
    BY <1>24 DEF MarkIndexed
<1>25. ASSUME NEW p \in Pods, WorkerWriteFails(p)
      PROVE  PromotedFirst'
    BY <1>25 DEF WorkerWriteFails
<1>26. ASSUME NEW p \in Pods, IndexJanitorTick(p)
      PROVE  PromotedFirst'
    BY BatchSubset, <1>26 DEF IndexJanitorTick, IndexOrphans
<1>27. ASSUME NEW p \in Pods, Crash(p)
      PROVE  PromotedFirst'
  <2>1. \A e \in Docs : verdicts'[e]["clean"] > 0 =>
            \/ verdicts[e]["clean"] > 0
            \/ consumer[p].doc = e /\ consumer[p].kind = "clean"
    BY <1>27 DEF Crash, VerdictKind
  <2>2. \A q \in Pods, e \in Docs : consumer'[q].doc = e => consumer'[q] = consumer[q]
    BY <1>27 DEF Crash
  <2>3. \A e \in Docs : Indexing(e)' => Indexing(e)
    BY <1>27 DEF Crash
  <2>4. status' = status /\ key' = key /\ object' = object /\ chunks' = chunks
    BY <1>27 DEF Crash
  <2>5. \A e \in Docs : verdicts'[e]["clean"] > 0 => "episodic" \in object[e]
    BY <2>1
  <2>6. ASSUME NEW e \in Docs, NEW q \in Pods, consumer'[q].doc = e, consumer'[q].kind = "clean"
        PROVE  Cleared(e)
    <3>1. consumer[q] = consumer'[q]
      BY <2>2, <2>6
    <3>2. consumer[q].doc = e /\ consumer[q].kind = "clean"
      BY <2>6, <3>1
    <3> QED
      BY <3>2
  <2>7. \A e \in Docs : Cleared(e)' <=> Cleared(e)
    BY <2>4
  <2>8. \A e \in Docs : Indexing(e)' \/ chunks'[e] # "none" => Cleared(e)
    BY <2>3, <2>4
  <2> QED
    BY <2>4, <2>5, <2>6, <2>7, <2>8
<1>28. ASSUME NEW d \in Docs, Replay(d)
      PROVE  PromotedFirst'
    BY <1>28 DEF Replay
<1>29. CASE UNCHANGED vars
    BY <1>29 DEF vars
<1> QED
    BY <1>1, <1>2, <1>3, <1>4, <1>5, <1>6, <1>7, <1>8, <1>9, <1>10, <1>11,
       <1>12, <1>13, <1>14, <1>15, <1>16, <1>17, <1>18, <1>19, <1>20, <1>21,
       <1>22, <1>23, <1>24, <1>25, <1>26, <1>27, <1>28, <1>29 DEF Next,
       UploadNext, PublisherNext, ScannerNext, ConsumerNext, WorkerNext

-----------------------------------------------------------------------------
(* Only an accepted pass leads to the index marker, and no step takes the  *)
(* chunks of one away.                                                     *)
LEMMA PassFirstStep ==
    TypeOK /\ Busy /\ PassFirst /\ [Next]_vars => PassFirst'
<1> SUFFICES ASSUME TypeOK, Busy, PassFirst, [Next]_vars PROVE PassFirst'
    OBVIOUS
<1> USE NoneAssumption, AttemptsAssumption DEF TypeOK, Busy, PassFirst,
   IndexedHasPass, NoUpload, NoVerdict, IdleWorker,
        WorkerAt, rowVars, storeVars, brokerVars, podVars, budgetVars, Fault
<1>1. ASSUME NEW p \in Pods, NEW d \in Docs, UploadStore(p, d)
      PROVE  PassFirst'
    BY <1>1 DEF UploadStore
<1>2. ASSUME NEW p \in Pods, UploadInsert(p)
      PROVE  PassFirst'
    BY <1>2 DEF UploadInsert
<1>3. ASSUME NEW p \in Pods, UploadInsertFails(p)
      PROVE  PassFirst'
    BY <1>3 DEF UploadInsertFails
<1>4. ASSUME NEW p \in Pods, UploadEnqueue(p)
      PROVE  PassFirst'
    BY <1>4 DEF UploadEnqueue
<1>5. ASSUME NEW p \in Pods, NEW d \in Docs, NEW u \in Uri, Publish(p, d, u)
      PROVE  PassFirst'
    BY <1>5 DEF Publish
<1>6. ASSUME NEW p \in Pods, NEW d \in Docs, NEW u \in Uri, PublishFails(p, d, u)
      PROVE  PassFirst'
    BY <1>6 DEF PublishFails
<1>7. ASSUME NEW p \in Pods, MarkPublished(p)
      PROVE  PassFirst'
    BY <1>7 DEF MarkPublished
<1>8. ASSUME NEW p \in Pods, MarkPublishedFails(p)
      PROVE  PassFirst'
    BY <1>8 DEF MarkPublishedFails
<1>9. ASSUME NEW p \in Pods, ScanJanitorTick(p)
      PROVE  PassFirst'
    BY BatchSubset, <1>9 DEF ScanJanitorTick, ScanOrphans
<1>10. ASSUME NEW d \in Docs, ScanClean(d)
      PROVE  PassFirst'
    BY <1>10 DEF ScanClean, Answer
<1>11. ASSUME NEW d \in Docs, ScanRejected(d)
      PROVE  PassFirst'
    BY <1>11 DEF ScanRejected, Answer
<1>12. ASSUME NEW d \in Docs, NEW u \in Uri, ScanFailed(d, u)
      PROVE  PassFirst'
    BY <1>12 DEF ScanFailed, Answer
<1>13. ASSUME NEW d \in Docs, NEW u \in Uri, RequestDeadLettered(d, u)
      PROVE  PassFirst'
    BY <1>13 DEF RequestDeadLettered
<1>14. ASSUME NEW p \in Pods, NEW d \in Docs, NEW k \in VerdictKind, VerdictApply(p, d, k)
      PROVE  PassFirst'
    BY <1>14 DEF VerdictApply, StatusOf, VerdictKind
<1>15. ASSUME NEW p \in Pods, NEW d \in Docs, NEW k \in VerdictKind, VerdictRefused(p, d, k)
      PROVE  PassFirst'
    BY <1>15 DEF VerdictRefused
<1>16. ASSUME NEW p \in Pods, VerdictAck(p)
      PROVE  PassFirst'
    BY <1>16 DEF VerdictAck
<1>17. ASSUME NEW p \in Pods, NEW d \in Docs, TakeEnvelope(p, d)
      PROVE  PassFirst'
    BY <1>17 DEF TakeEnvelope
<1>18. ASSUME NEW p \in Pods, WritePages(p)
      PROVE  PassFirst'
    BY <1>18 DEF WritePages
<1>19. ASSUME NEW p \in Pods, IndexSucceeds(p)
      PROVE  PassFirst'
    BY <1>19 DEF IndexSucceeds, UpsertPdfMetadata
<1>20. ASSUME NEW p \in Pods, IndexCutShort(p)
      PROVE  PassFirst'
    BY <1>20 DEF IndexCutShort, UpsertPdfMetadata
<1>21. ASSUME NEW p \in Pods, IndexFails(p)
      PROVE  PassFirst'
    BY <1>21 DEF IndexFails, UpsertPdfMetadata
<1>22. ASSUME NEW p \in Pods, RecordRead(p)
      PROVE  PassFirst'
    BY <1>22, CountedCap DEF RecordRead
<1>23. ASSUME NEW p \in Pods, RecordWrite(p)
      PROVE  PassFirst'
    BY <1>23 DEF RecordWrite
<1>24. ASSUME NEW p \in Pods, MarkIndexed(p)
      PROVE  PassFirst'
    BY <1>24 DEF MarkIndexed
<1>25. ASSUME NEW p \in Pods, WorkerWriteFails(p)
      PROVE  PassFirst'
    BY <1>25 DEF WorkerWriteFails
<1>26. ASSUME NEW p \in Pods, IndexJanitorTick(p)
      PROVE  PassFirst'
    BY BatchSubset, <1>26 DEF IndexJanitorTick, IndexOrphans
<1>27. ASSUME NEW p \in Pods, Crash(p)
      PROVE  PassFirst'
    BY <1>27 DEF Crash
<1>28. ASSUME NEW d \in Docs, Replay(d)
      PROVE  PassFirst'
    BY <1>28 DEF Replay
<1>29. CASE UNCHANGED vars
    BY <1>29 DEF vars
<1> QED
    BY <1>1, <1>2, <1>3, <1>4, <1>5, <1>6, <1>7, <1>8, <1>9, <1>10, <1>11,
       <1>12, <1>13, <1>14, <1>15, <1>16, <1>17, <1>18, <1>19, <1>20, <1>21,
       <1>22, <1>23, <1>24, <1>25, <1>26, <1>27, <1>28, <1>29 DEF Next,
       UploadNext, PublisherNext, ScannerNext, ConsumerNext, WorkerNext

-----------------------------------------------------------------------------
(* A stale read may lower the count of a row, but it lowers the mark with  *)
(* it: both are written from the same read.                                *)
LEMMA CountFirstStep ==
    TypeOK /\ Busy /\ CountFirst /\ [Next]_vars => CountFirst'
<1> SUFFICES ASSUME TypeOK, Busy, CountFirst, [Next]_vars PROVE CountFirst'
    OBVIOUS
<1> USE NoneAssumption, AttemptsAssumption DEF TypeOK, Busy, CountFirst,
   DeadLetterEarned, NoUpload, NoVerdict, IdleWorker,
        WorkerAt, rowVars, storeVars, brokerVars, podVars, budgetVars, Fault
<1>1. ASSUME NEW p \in Pods, NEW d \in Docs, UploadStore(p, d)
      PROVE  CountFirst'
    BY <1>1 DEF UploadStore
<1>2. ASSUME NEW p \in Pods, UploadInsert(p)
      PROVE  CountFirst'
    BY <1>2 DEF UploadInsert
<1>3. ASSUME NEW p \in Pods, UploadInsertFails(p)
      PROVE  CountFirst'
    BY <1>3 DEF UploadInsertFails
<1>4. ASSUME NEW p \in Pods, UploadEnqueue(p)
      PROVE  CountFirst'
    BY <1>4 DEF UploadEnqueue
<1>5. ASSUME NEW p \in Pods, NEW d \in Docs, NEW u \in Uri, Publish(p, d, u)
      PROVE  CountFirst'
    BY <1>5 DEF Publish
<1>6. ASSUME NEW p \in Pods, NEW d \in Docs, NEW u \in Uri, PublishFails(p, d, u)
      PROVE  CountFirst'
    BY <1>6 DEF PublishFails
<1>7. ASSUME NEW p \in Pods, MarkPublished(p)
      PROVE  CountFirst'
    BY <1>7 DEF MarkPublished
<1>8. ASSUME NEW p \in Pods, MarkPublishedFails(p)
      PROVE  CountFirst'
    BY <1>8 DEF MarkPublishedFails
<1>9. ASSUME NEW p \in Pods, ScanJanitorTick(p)
      PROVE  CountFirst'
    BY BatchSubset, <1>9 DEF ScanJanitorTick, ScanOrphans
<1>10. ASSUME NEW d \in Docs, ScanClean(d)
      PROVE  CountFirst'
    BY <1>10 DEF ScanClean, Answer
<1>11. ASSUME NEW d \in Docs, ScanRejected(d)
      PROVE  CountFirst'
    BY <1>11 DEF ScanRejected, Answer
<1>12. ASSUME NEW d \in Docs, NEW u \in Uri, ScanFailed(d, u)
      PROVE  CountFirst'
    BY <1>12 DEF ScanFailed, Answer
<1>13. ASSUME NEW d \in Docs, NEW u \in Uri, RequestDeadLettered(d, u)
      PROVE  CountFirst'
    BY <1>13 DEF RequestDeadLettered
<1>14. ASSUME NEW p \in Pods, NEW d \in Docs, NEW k \in VerdictKind, VerdictApply(p, d, k)
      PROVE  CountFirst'
    BY <1>14 DEF VerdictApply, StatusOf, VerdictKind
<1>15. ASSUME NEW p \in Pods, NEW d \in Docs, NEW k \in VerdictKind, VerdictRefused(p, d, k)
      PROVE  CountFirst'
    BY <1>15 DEF VerdictRefused
<1>16. ASSUME NEW p \in Pods, VerdictAck(p)
      PROVE  CountFirst'
    BY <1>16 DEF VerdictAck
<1>17. ASSUME NEW p \in Pods, NEW d \in Docs, TakeEnvelope(p, d)
      PROVE  CountFirst'
    BY <1>17 DEF TakeEnvelope
<1>18. ASSUME NEW p \in Pods, WritePages(p)
      PROVE  CountFirst'
    BY <1>18 DEF WritePages
<1>19. ASSUME NEW p \in Pods, IndexSucceeds(p)
      PROVE  CountFirst'
    BY <1>19 DEF IndexSucceeds, UpsertPdfMetadata
<1>20. ASSUME NEW p \in Pods, IndexCutShort(p)
      PROVE  CountFirst'
    BY <1>20 DEF IndexCutShort, UpsertPdfMetadata
<1>21. ASSUME NEW p \in Pods, IndexFails(p)
      PROVE  CountFirst'
  <2>1. \A e \in Docs : ~warned'[e]
    <3>1. key[worker[p].doc] # BareKey
      BY <1>21 DEF IndexFails, Uri, BareKey
    <3>2. CASE UpsertPdfMetadata(worker[p].doc, TRUE)
      BY <3>1, <3>2 DEF UpsertPdfMetadata
    <3>3. CASE UNCHANGED <<warned, shadow>>
      BY <3>3
    <3> QED
      BY <1>21, <3>2, <3>3 DEF IndexFails
  <2>2. \A q \in Pods : worker'[q].dead => worker[q].dead /\ worker'[q] = worker[q]
    BY <1>21 DEF IndexFails
  <2>3. UNCHANGED <<failed, attempts>>
    BY <1>21 DEF IndexFails
  <2> QED
    BY <2>1, <2>2, <2>3
<1>22. ASSUME NEW p \in Pods, RecordRead(p)
      PROVE  CountFirst'
  <2>1. worker[p].doc \in Docs /\ ~warned[worker[p].doc]
    BY <1>22 DEF RecordRead
  <2>2. worker'[p].dead => worker'[p].attempts = IndexMaxAttempts
    <3>1. attempts[worker[p].doc] \in 0 .. IndexMaxAttempts
      BY <2>1
    <3>2. /\ worker'[p].attempts = Counted(attempts[worker[p].doc])
          /\ worker'[p].dead = (\/ warned[worker[p].doc]
                               \/ Counted(attempts[worker[p].doc]) >= IndexMaxAttempts)
      BY <1>22 DEF RecordRead
    <3> QED
      BY <2>1, <3>1, <3>2, CountedCap
  <2>3. \A q \in Pods : q # p => worker'[q] = worker[q]
    BY <1>22 DEF RecordRead
  <2>4. warned' = warned /\ failed' = failed /\ attempts' = attempts
    BY <1>22 DEF RecordRead
  <2> QED
    BY <2>2, <2>3, <2>4
<1>23. ASSUME NEW p \in Pods, RecordWrite(p)
      PROVE  CountFirst'
    BY <1>23 DEF RecordWrite
<1>24. ASSUME NEW p \in Pods, MarkIndexed(p)
      PROVE  CountFirst'
    BY <1>24 DEF MarkIndexed
<1>25. ASSUME NEW p \in Pods, WorkerWriteFails(p)
      PROVE  CountFirst'
    BY <1>25 DEF WorkerWriteFails
<1>26. ASSUME NEW p \in Pods, IndexJanitorTick(p)
      PROVE  CountFirst'
    BY BatchSubset, <1>26 DEF IndexJanitorTick, IndexOrphans
<1>27. ASSUME NEW p \in Pods, Crash(p)
      PROVE  CountFirst'
    BY <1>27 DEF Crash
<1>28. ASSUME NEW d \in Docs, Replay(d)
      PROVE  CountFirst'
    BY <1>28 DEF Replay
<1>29. CASE UNCHANGED vars
    BY <1>29 DEF vars
<1> QED
    BY <1>1, <1>2, <1>3, <1>4, <1>5, <1>6, <1>7, <1>8, <1>9, <1>10, <1>11,
       <1>12, <1>13, <1>14, <1>15, <1>16, <1>17, <1>18, <1>19, <1>20, <1>21,
       <1>22, <1>23, <1>24, <1>25, <1>26, <1>27, <1>28, <1>29 DEF Next,
       UploadNext, PublisherNext, ScannerNext, ConsumerNext, WorkerNext

-----------------------------------------------------------------------------
(* The parts hold together, from the initial state on.                     *)
LEMMA IInvInit == Init => IInv
    BY AttemptsAssumption, NoneAssumption
    DEF Init, IInv, RowFirst, OneHandler, InHand, PromotedFirst, PassFirst, CountFirst,
        Queued, Requested, Answered, Indexing, Cleared, IndexedHasPass, DeadLetterEarned,
        NoUpload, NoVerdict, IdleWorker, WorkerAt, Uri, VerdictKind

(* Types and inductive invariant hold in every reachable state.           *)
LEMMA Inductive == Spec => [](TypeOK /\ Busy /\ IInv)
<1>1. Init => TypeOK /\ Busy /\ IInv
    BY TypeInit, IInvInit
<1>2. TypeOK /\ Busy /\ IInv /\ [Next]_vars => (TypeOK /\ Busy /\ IInv)'
    BY TypeStep, RowFirstStep, OneHandlerStep, InHandStep, PromotedFirstStep,
       PassFirstStep, CountFirstStep DEF IInv
<1> QED
    BY <1>1, <1>2, PTL DEF Spec

(* Every reachable state of every deployment is type-correct.              *)
THEOREM TypeCorrect == Spec => []TypeOK
    BY Inductive, PTL

(* No message, task or index envelope of any pod refers to an upload whose *)
(* row is not committed.                                                   *)
THEOREM RowBeforeEnvelope == Spec => []EnvelopeHasRow
<1>1. RowFirst => EnvelopeHasRow
    BY DEF RowFirst, EnvelopeHasRow
<1> QED
    BY Inductive, <1>1, PTL DEF IInv

(* An upload whose scan request is marked published is never stranded, for *)
(* any number of pods, crashes and failures.                               *)
THEOREM NeverStranded == Spec => []NoStrandedUpload
<1>1. InHand => NoStrandedUpload
    BY DEF InHand, NoStrandedUpload
<1> QED
    BY Inductive, <1>1, PTL DEF IInv

(* Nothing the scanner has not promoted is queued for, given to or left by *)
(* the indexer.                                                            *)
THEOREM OnlyPromotedIndexed == Spec => []IndexOnlyPromoted
<1>1. PromotedFirst => IndexOnlyPromoted
    BY DEF PromotedFirst, IndexOnlyPromoted, Cleared
<1> QED
    BY Inductive, <1>1, PTL DEF IInv

(* A row is marked indexed only after a pass the pipeline accepted.        *)
THEOREM MarkedAfterPass == Spec => []IndexedHasPass
    BY Inductive, PTL DEF IInv, PassFirst

(* A row is dead-lettered only at its full attempt count.                  *)
THEOREM DeadLetterAtCap == Spec => []DeadLetterEarned
    BY Inductive, PTL DEF IInv, CountFirst

-----------------------------------------------------------------------------
(* The pipeline implements the gate.  Stage looks at three columns and the *)
(* vector store, so most steps stutter.                                    *)
Promoted(d) == "episodic" \in object[d]

LEMMA GateStutter ==
    ASSUME \A e \in Docs : Stage(e)' = Stage(e) /\ (Promoted(e)' <=> Promoted(e))
    PROVE  UNCHANGED Gate!vars
    BY DEF Gate!vars, Promoted

(* One upload moves one stage on, and clears only when it was promoted.    *)
LEMMA GateMoves ==
    ASSUME NEW d \in Docs,
           \A e \in Docs : e # d => Stage(e)' = Stage(e),
           \A e \in Docs : Promoted(e)' <=> Promoted(e),
           \/ Stage(d) = "absent" /\ Stage(d)' = "quarantined"
           \/ Stage(d) = "quarantined" /\ Stage(d)' = "cleared" /\ Promoted(d)
           \/ Stage(d) = "cleared" /\ Stage(d)' = "searchable"
    PROVE  Gate!Next
<1> DEFINE S == [e \in Docs |-> Stage(e)]
<1>1. {e \in Docs : "episodic" \in object[e]}' = {e \in Docs : "episodic" \in object[e]}
    BY DEF Promoted
<1>2. S' = [S EXCEPT ![d] = Stage(d)']
    OBVIOUS
<1>3. CASE Stage(d) = "absent" /\ Stage(d)' = "quarantined"
    BY <1>1, <1>2, <1>3 DEF Gate!Next, Gate!Accept, Gate!Move <1>4. CASE
       Stage(d) = "quarantined" /\ Stage(d)' = "cleared" /\ Promoted(d)
    BY <1>1, <1>2, <1>4 DEF Gate!Next, Gate!Clear, Gate!Move, Promoted
<1>5. CASE Stage(d) = "cleared" /\ Stage(d)' = "searchable"
    BY <1>1, <1>2, <1>5 DEF Gate!Next, Gate!Expose, Gate!Move
<1> QED
    BY <1>3, <1>4, <1>5

(* Chunks written for an upload that a worker holds expose a cleared one.  *)
LEMMA GateExposes ==
    ASSUME TypeOK, IInv, NEW d \in Docs, Indexing(d),
           status' = status, key' = key, object' = object,
           chunks'[d] # "none", \A e \in Docs : e # d => chunks'[e] = chunks[e]
    PROVE  Gate!Next \/ UNCHANGED Gate!vars
<1>1. Cleared(d)
    BY DEF IInv, PromotedFirst
<1>2. \A e \in Docs : e # d => Stage(e)' = Stage(e)
    BY DEF Stage
<1>3. \A e \in Docs : Promoted(e)' <=> Promoted(e)
    BY DEF Promoted
<1>4. Stage(d)' = "searchable"
    BY DEF Stage
<1>5. CASE chunks[d] = "none"
  <2>1. Stage(d) = "cleared"
    BY <1>1, <1>5 DEF Stage, Cleared
  <2> QED
    BY <1>2, <1>3, <1>4, <2>1, GateMoves
<1>6. CASE chunks[d] # "none"
  <2>1. Stage(d) = "searchable"
    BY <1>6 DEF Stage
  <2> QED
    BY <1>2, <1>3, <1>4, <2>1, GateStutter
<1> QED
    BY <1>5, <1>6

(* Every step of the pipeline is a step of the gate or a stutter. *)
LEMMA GateStep == TypeOK /\ Busy /\ IInv /\ [Next]_vars => [Gate!Next]_(Gate!vars)
<1> SUFFICES ASSUME TypeOK, Busy, IInv, [Next]_vars PROVE Gate!Next \/ UNCHANGED Gate!vars
    OBVIOUS
<1> USE DEF rowVars, storeVars, podVars
<1>1. ASSUME NEW p \in Pods, NEW d \in Docs, UploadStore(p, d)
      PROVE  Gate!Next \/ UNCHANGED Gate!vars
  <2>1. status' = status /\ key' = key /\ chunks' = chunks
    BY <1>1 DEF UploadStore, Answer
  <2>2. \A e \in Docs : Promoted(e)' <=> Promoted(e)
    BY <1>1 DEF UploadStore, Answer, Promoted, TypeOK
  <2> QED
    BY <2>1, <2>2, GateStutter DEF Stage
<1>2. ASSUME NEW p \in Pods, UploadInsert(p)
      PROVE  Gate!Next \/ UNCHANGED Gate!vars
  <2>1. PICK d \in Docs : d = upload[p].doc /\ status[d] = "absent"
    BY <1>2 DEF UploadInsert, Busy, IInv, OneHandler
  <2>2. key[d] # "episodic_uri" /\ chunks[d] = "none"
    BY <2>1 DEF IInv, RowFirst, PromotedFirst, Cleared
  <2>3. key' = key /\ chunks' = chunks /\ object' = object
    BY <1>2 DEF UploadInsert
  <2>4. status'[d] = "pending_scan" /\ \A e \in Docs : e # d => status'[e] = status[e]
    BY <1>2, <2>1 DEF UploadInsert, TypeOK
  <2>5. Stage(d) = "absent" /\ Stage(d)' = "quarantined"
    BY <2>1, <2>2, <2>3, <2>4 DEF Stage
  <2>6. \A e \in Docs : e # d => Stage(e)' = Stage(e)
    BY <2>3, <2>4 DEF Stage
  <2>7. \A e \in Docs : Promoted(e)' <=> Promoted(e)
    BY <2>3 DEF Promoted
  <2> QED
    BY <2>1, <2>5, <2>6, <2>7, GateMoves
<1>3. ASSUME NEW p \in Pods, UploadInsertFails(p)
      PROVE  Gate!Next \/ UNCHANGED Gate!vars
  <2>1. status' = status /\ key' = key /\ chunks' = chunks /\ object' = object
    BY <1>3 DEF UploadInsertFails
  <2> QED
    BY <2>1, GateStutter DEF Stage, Promoted
<1>4. ASSUME NEW p \in Pods, UploadEnqueue(p)
      PROVE  Gate!Next \/ UNCHANGED Gate!vars
  <2>1. status' = status /\ key' = key /\ chunks' = chunks /\ object' = object
    BY <1>4 DEF UploadEnqueue
  <2> QED
    BY <2>1, GateStutter DEF Stage, Promoted
<1>5. ASSUME NEW p \in Pods, NEW d \in Docs, NEW u \in Uri, Publish(p, d, u)
      PROVE  Gate!Next \/ UNCHANGED Gate!vars
  <2>1. status' = status /\ key' = key /\ chunks' = chunks /\ object' = object
    BY <1>5 DEF Publish
  <2> QED
    BY <2>1, GateStutter DEF Stage, Promoted
<1>6. ASSUME NEW p \in Pods, NEW d \in Docs, NEW u \in Uri, PublishFails(p, d, u)
      PROVE  Gate!Next \/ UNCHANGED Gate!vars
  <2>1. status' = status /\ key' = key /\ chunks' = chunks /\ object' = object
    BY <1>6 DEF PublishFails
  <2> QED
    BY <2>1, GateStutter DEF Stage, Promoted
<1>7. ASSUME NEW p \in Pods, MarkPublished(p)
      PROVE  Gate!Next \/ UNCHANGED Gate!vars
  <2>1. status' = status /\ key' = key /\ chunks' = chunks /\ object' = object
    BY <1>7 DEF MarkPublished
  <2> QED
    BY <2>1, GateStutter DEF Stage, Promoted
<1>8. ASSUME NEW p \in Pods, MarkPublishedFails(p)
      PROVE  Gate!Next \/ UNCHANGED Gate!vars
  <2>1. status' = status /\ key' = key /\ chunks' = chunks /\ object' = object
    BY <1>8 DEF MarkPublishedFails
  <2> QED
    BY <2>1, GateStutter DEF Stage, Promoted
<1>9. ASSUME NEW p \in Pods, ScanJanitorTick(p)
      PROVE  Gate!Next \/ UNCHANGED Gate!vars
  <2>1. status' = status /\ key' = key /\ chunks' = chunks /\ object' = object
    BY <1>9 DEF ScanJanitorTick
  <2> QED
    BY <2>1, GateStutter DEF Stage, Promoted
<1>10. ASSUME NEW d \in Docs, ScanClean(d)
      PROVE  Gate!Next \/ UNCHANGED Gate!vars
  <2>1. status' = status /\ key' = key /\ chunks' = chunks
    BY <1>10 DEF ScanClean, Answer
  <2>2. Stage(d) # "absent"
    <3>1. Requested(d)
      BY <1>10 DEF ScanClean, Answer, Requested, Uri
    <3> QED
      BY <3>1 DEF IInv, RowFirst, Stage
  <2>3. \A e \in Docs : Promoted(e)' <=> Promoted(e) \/ e = d
    BY <1>10 DEF ScanClean, Promoted, TypeOK
  <2>4. \A e \in Docs : Stage(e)' = Stage(e)
    BY <2>1 DEF Stage
  <2>5. {e \in Docs : "episodic" \in object[e]}'
            = {e \in Docs : "episodic" \in object[e]} \cup {d}
    BY <2>3 DEF Promoted
  <2>6. Gate!Promote(d)
    BY <2>2, <2>4, <2>5 DEF Gate!Promote
  <2> QED
    BY <2>6 DEF Gate!Next
<1>11. ASSUME NEW d \in Docs, ScanRejected(d)
      PROVE  Gate!Next \/ UNCHANGED Gate!vars
  <2>1. status' = status /\ key' = key /\ chunks' = chunks
    BY <1>11 DEF ScanRejected, Answer
  <2>2. \A e \in Docs : Promoted(e)' <=> Promoted(e)
    BY <1>11 DEF ScanRejected, Answer, Promoted, TypeOK
  <2> QED
    BY <2>1, <2>2, GateStutter DEF Stage
<1>12. ASSUME NEW d \in Docs, NEW u \in Uri, ScanFailed(d, u)
      PROVE  Gate!Next \/ UNCHANGED Gate!vars
  <2>1. status' = status /\ key' = key /\ chunks' = chunks /\ object' = object
    BY <1>12 DEF ScanFailed, Answer
  <2> QED
    BY <2>1, GateStutter DEF Stage, Promoted
<1>13. ASSUME NEW d \in Docs, NEW u \in Uri, RequestDeadLettered(d, u)
      PROVE  Gate!Next \/ UNCHANGED Gate!vars
  <2>1. status' = status /\ key' = key /\ chunks' = chunks /\ object' = object
    BY <1>13 DEF RequestDeadLettered
  <2> QED
    BY <2>1, GateStutter DEF Stage, Promoted
<1>14. ASSUME NEW p \in Pods, NEW d \in Docs, NEW k \in VerdictKind, VerdictApply(p, d, k)
      PROVE  Gate!Next \/ UNCHANGED Gate!vars
  <2>1. chunks' = chunks /\ object' = object
    BY <1>14 DEF VerdictApply
  <2>2. status[d] # "absent"
    BY <1>14 DEF VerdictApply, IInv, RowFirst, Answered
  <2>3. status'[d] # "absent"
    BY <1>14 DEF VerdictApply, StatusOf, TypeOK, VerdictKind
  <2>4. \A e \in Docs : e # d => status'[e] = status[e] /\ key'[e] = key[e]
    BY <1>14 DEF VerdictApply, TypeOK
  <2>5. \A e \in Docs : e # d => Stage(e)' = Stage(e)
    BY <2>1, <2>4 DEF Stage
  <2>6. \A e \in Docs : Promoted(e)' <=> Promoted(e)
    BY <2>1 DEF Promoted
  <2>7. CASE k = "clean"
    <3>1. Promoted(d)
      BY <1>14, <2>7 DEF VerdictApply, IInv, PromotedFirst, Promoted
    <3>2. key'[d] = "episodic_uri"
      BY <1>14, <2>7 DEF VerdictApply, TypeOK
    <3>3. CASE Stage(d) = "quarantined"
      <4>1. Stage(d)' = "cleared"
        BY <2>1, <3>2, <3>3 DEF Stage
      <4> QED
        BY <2>5, <2>6, <3>1, <3>3, <4>1, GateMoves
    <3>4. CASE Stage(d) # "quarantined"
      <4>1. Stage(d)' = Stage(d)
        BY <2>1, <2>2, <3>2, <3>4 DEF Stage
      <4> QED
        BY <2>5, <2>6, <4>1, GateStutter
    <3> QED
      BY <3>3, <3>4
  <2>8. CASE k # "clean"
    <3>1. key' = key
      BY <1>14, <2>8 DEF VerdictApply
    <3>2. Stage(d)' = Stage(d)
      BY <2>1, <2>2, <2>3, <3>1 DEF Stage
    <3> QED
      BY <2>5, <2>6, <3>2, GateStutter
  <2> QED
    BY <2>7, <2>8
<1>15. ASSUME NEW p \in Pods, NEW d \in Docs, NEW k \in VerdictKind, VerdictRefused(p, d, k)
      PROVE  Gate!Next \/ UNCHANGED Gate!vars
  <2>1. status' = status /\ key' = key /\ chunks' = chunks /\ object' = object
    BY <1>15 DEF VerdictRefused
  <2> QED
    BY <2>1, GateStutter DEF Stage, Promoted
<1>16. ASSUME NEW p \in Pods, VerdictAck(p)
      PROVE  Gate!Next \/ UNCHANGED Gate!vars
  <2>1. status' = status /\ key' = key /\ chunks' = chunks /\ object' = object
    BY <1>16 DEF VerdictAck
  <2> QED
    BY <2>1, GateStutter DEF Stage, Promoted
<1>17. ASSUME NEW p \in Pods, NEW d \in Docs, TakeEnvelope(p, d)
      PROVE  Gate!Next \/ UNCHANGED Gate!vars
  <2>1. status' = status /\ key' = key /\ chunks' = chunks /\ object' = object
    BY <1>17 DEF TakeEnvelope
  <2> QED
    BY <2>1, GateStutter DEF Stage, Promoted
<1>18. ASSUME NEW p \in Pods, WritePages(p)
      PROVE  Gate!Next \/ UNCHANGED Gate!vars
  <2>1. worker[p].doc \in Docs /\ Indexing(worker[p].doc)
    BY <1>18 DEF WritePages, Busy, Indexing
  <2>2. status' = status /\ key' = key /\ object' = object
    BY <1>18 DEF WritePages
  <2>3. chunks'[worker[p].doc] # "none"
    BY <1>18, <2>1 DEF WritePages, TypeOK
  <2>4. \A e \in Docs : e # worker[p].doc => chunks'[e] = chunks[e]
    BY <1>18 DEF WritePages, TypeOK
  <2> QED
    BY <2>1, <2>2, <2>3, <2>4, GateExposes
<1>19. ASSUME NEW p \in Pods, IndexSucceeds(p)
      PROVE  Gate!Next \/ UNCHANGED Gate!vars
  <2>1. worker[p].doc \in Docs /\ Indexing(worker[p].doc)
    BY <1>19 DEF IndexSucceeds, Busy, Indexing
  <2>2. status' = status /\ key' = key /\ object' = object
    BY <1>19 DEF IndexSucceeds
  <2>3. chunks'[worker[p].doc] # "none"
    BY <1>19, <2>1 DEF IndexSucceeds, TypeOK
  <2>4. \A e \in Docs : e # worker[p].doc => chunks'[e] = chunks[e]
    BY <1>19 DEF IndexSucceeds, TypeOK
  <2> QED
    BY <2>1, <2>2, <2>3, <2>4, GateExposes
<1>20. ASSUME NEW p \in Pods, IndexCutShort(p)
      PROVE  Gate!Next \/ UNCHANGED Gate!vars
  <2>1. worker[p].doc \in Docs /\ Indexing(worker[p].doc)
    BY <1>20 DEF IndexCutShort, Busy, Indexing
  <2>2. status' = status /\ key' = key /\ object' = object
    BY <1>20 DEF IndexCutShort
  <2>3. chunks'[worker[p].doc] # "none"
    BY <1>20, <2>1 DEF IndexCutShort, TypeOK
  <2>4. \A e \in Docs : e # worker[p].doc => chunks'[e] = chunks[e]
    BY <1>20 DEF IndexCutShort, TypeOK
  <2> QED
    BY <2>1, <2>2, <2>3, <2>4, GateExposes
<1>21. ASSUME NEW p \in Pods, IndexFails(p)
      PROVE  Gate!Next \/ UNCHANGED Gate!vars
  <2>1. status' = status /\ key' = key /\ chunks' = chunks /\ object' = object
    BY <1>21 DEF IndexFails
  <2> QED
    BY <2>1, GateStutter DEF Stage, Promoted
<1>22. ASSUME NEW p \in Pods, RecordRead(p)
      PROVE  Gate!Next \/ UNCHANGED Gate!vars
  <2>1. status' = status /\ key' = key /\ chunks' = chunks /\ object' = object
    BY <1>22 DEF RecordRead
  <2> QED
    BY <2>1, GateStutter DEF Stage, Promoted
<1>23. ASSUME NEW p \in Pods, RecordWrite(p)
      PROVE  Gate!Next \/ UNCHANGED Gate!vars
  <2>1. status' = status /\ key' = key /\ chunks' = chunks /\ object' = object
    BY <1>23 DEF RecordWrite
  <2> QED
    BY <2>1, GateStutter DEF Stage, Promoted
<1>24. ASSUME NEW p \in Pods, MarkIndexed(p)
      PROVE  Gate!Next \/ UNCHANGED Gate!vars
  <2>1. status' = status /\ key' = key /\ chunks' = chunks /\ object' = object
    BY <1>24 DEF MarkIndexed
  <2> QED
    BY <2>1, GateStutter DEF Stage, Promoted
<1>25. ASSUME NEW p \in Pods, WorkerWriteFails(p)
      PROVE  Gate!Next \/ UNCHANGED Gate!vars
  <2>1. status' = status /\ key' = key /\ chunks' = chunks /\ object' = object
    BY <1>25 DEF WorkerWriteFails
  <2> QED
    BY <2>1, GateStutter DEF Stage, Promoted
<1>26. ASSUME NEW p \in Pods, IndexJanitorTick(p)
      PROVE  Gate!Next \/ UNCHANGED Gate!vars
  <2>1. status' = status /\ key' = key /\ chunks' = chunks /\ object' = object
    BY <1>26 DEF IndexJanitorTick
  <2> QED
    BY <2>1, GateStutter DEF Stage, Promoted
<1>27. ASSUME NEW p \in Pods, Crash(p)
      PROVE  Gate!Next \/ UNCHANGED Gate!vars
  <2>1. status' = status /\ key' = key /\ chunks' = chunks /\ object' = object
    BY <1>27 DEF Crash
  <2> QED
    BY <2>1, GateStutter DEF Stage, Promoted
<1>28. ASSUME NEW d \in Docs, Replay(d)
      PROVE  Gate!Next \/ UNCHANGED Gate!vars
  <2>1. status' = status /\ key' = key /\ chunks' = chunks /\ object' = object
    BY <1>28 DEF Replay
  <2> QED
    BY <2>1, GateStutter DEF Stage, Promoted
<1>29. CASE UNCHANGED vars
  <2>1. status' = status /\ key' = key /\ chunks' = chunks /\ object' = object
    BY <1>29 DEF vars
  <2> QED
    BY <2>1, GateStutter DEF Stage, Promoted
<1> QED
    BY <1>1, <1>2, <1>3, <1>4, <1>5, <1>6, <1>7, <1>8, <1>9, <1>10, <1>11,
       <1>12, <1>13, <1>14, <1>15, <1>16, <1>17, <1>18, <1>19, <1>20, <1>21,
       <1>22, <1>23, <1>24, <1>25, <1>26, <1>27, <1>28, <1>29 DEF Next,
       UploadNext, PublisherNext, ScannerNext, ConsumerNext, WorkerNext

(* For any number of uploads and pods, through every failure the model has,*)
(* content becomes searchable only as the gate allows.                     *)
THEOREM PipelineIsGate == Spec => GateSpec
<1>1. Init => Gate!Init
    BY DEF Init, Gate!Init, Stage
<1> QED
    BY <1>1, Inductive, GateStep, PTL DEF Spec, GateSpec, Gate!Spec
=============================================================================
