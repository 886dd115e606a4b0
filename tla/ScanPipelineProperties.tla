----------------------- MODULE ScanPipelineProperties -----------------------
(***************************************************************************)
(* What ScanPipeline is checked for.                                       *)
(***************************************************************************)
EXTENDS ScanPipeline

-----------------------------------------------------------------------------
(* Type invariant of the pipeline's state.                                 *)
TypeOK ==
    /\ status    \in [Docs -> ScanStatus \cup {"absent"}]
    /\ key       \in [Docs -> Uri]
    /\ published \in [Docs -> BOOLEAN]
    /\ indexed   \in [Docs -> BOOLEAN]
    /\ attempts  \in [Docs -> 0 .. IndexMaxAttempts]
    /\ failed    \in [Docs -> BOOLEAN]
    /\ warned    \in [Docs -> BOOLEAN]
    /\ shadow    \in [Docs -> BOOLEAN]
    /\ object    \in [Docs -> SUBSET {"quarantine", "episodic"}]
    /\ chunks    \in [Docs -> {"none", "some", "cut", "all"}]
    /\ requests  \in [Docs -> [Uri -> Nat]]
    /\ verdicts  \in [Docs -> [VerdictKind -> Nat]]
    /\ dlx       \in SUBSET Docs
    /\ upload    \in [Pods -> [doc : Docs \cup {None},
                               step : {"idle", "stored", "inserted"}]]
    /\ scanQ     \in [Pods -> [Docs -> [Uri -> Nat]]]
    /\ publisher \in [Pods -> Docs \cup {None}]
    /\ consumer  \in [Pods -> [doc : Docs \cup {None}, kind : VerdictKind]]
    /\ indexQ    \in [Pods -> [Docs -> Nat]]
    /\ worker    \in [Pods -> [doc : Docs \cup {None},
                               step : {"idle", "indexing", "ok", "failed", "recording"},
                               attempts : 0 .. IndexMaxAttempts,
                               dead : BOOLEAN]]
    /\ faults \in Nat /\ crashes \in Nat /\ replays \in Nat

-----------------------------------------------------------------------------
(* Safety *)

Queued(d)    == \E p \in Pods : \/ \E u \in Uri : scanQ[p][d][u] > 0
                                \/ publisher[p] = d
Requested(d) == \E u \in Uri : requests[d][u] > 0
Answered(d)  == \E k \in VerdictKind : verdicts[d][k] > 0
Indexing(d)  == \E p \in Pods : indexQ[p][d] > 0 \/ worker[p].doc = d

(* Whatever is in flight for an upload, on any pod or in the broker, has   *)
(* its manifest row: the row is committed before the envelope is queued,   *)
(* so no UPDATE ... WHERE id = scan_id is ever lost on a missing row.      *)
EnvelopeHasRow ==
    \A d \in Docs :
        Queued(d) \/ Requested(d) \/ Answered(d) \/ Indexing(d)
            => status[d] # "absent"

(* An upload that waits for a verdict and is no longer the scan janitor's  *)
(* to re-enqueue (its outbox marker is set) is still in somebody's hands:  *)
(* a request or a verdict is in the broker, or one was dead-lettered.      *)
(* Neither a crash between publish and UPDATE nor a failed publish strands *)
(* it.                                                                     *)
NoStrandedUpload ==
    \A d \in Docs :
        status[d] = "pending_scan" /\ published[d]
            => Requested(d) \/ Answered(d) \/ d \in dlx

(* Only promoted content is ever handed to the indexer or found in the     *)
(* vector store, whichever pod's worker or janitor picked it up (ADR-048:  *)
(* the memory server only ever indexes content that has been promoted).    *)
IndexOnlyPromoted ==
    \A d \in Docs :
        Indexing(d) \/ chunks[d] # "none"
            => key[d] = "episodic_uri" /\ "episodic" \in object[d]

(* The index outbox marker is never set unless some pass over the upload   *)
(* was accepted by the pipeline: failed passes, duplicate verdicts and     *)
(* crashes in the middle of one never set it.                              *)
IndexedHasPass ==
    \A d \in Docs : indexed[d] => chunks[d] \in {"cut", "all"}

(* The dead-letter mark never stands beside a count below the cap, however *)
(* many pods record failures of one row from stale reads: the mark and the *)
(* count are written together.  It holds of a permanent failure too, which *)
(* index_worker.py:226-230 says is dead-lettered at attempt 1: the warning *)
(* it looks for is written to another row (see CorruptFailsAtOnce).        *)
(* Proved, not run: two pods recording one upload make a run too large.    *)
DeadLetterEarned ==
    \A d \in Docs : failed[d] => attempts[d] = IndexMaxAttempts

(* The pipeline implements the gate that ADR-048 describes.                *)
Stage(d) == IF chunks[d] # "none" THEN "searchable"
            ELSE IF key[d] = "episodic_uri" THEN "cleared"
            ELSE IF status[d] # "absent" THEN "quarantined"
            ELSE "absent"

Gate == INSTANCE UploadGate WITH
    stage    <- [d \in Docs |-> Stage(d)],
    promoted <- {d \in Docs : "episodic" \in object[d]}

GateSpec == Gate!Spec

-----------------------------------------------------------------------------
(* The inductive invariant behind the safety properties, in named parts.   *)
(* It says what holds of messages and tasks in flight, which is what makes *)
(* each of their next steps safe.                                          *)

\* An upload without a row is in no queue, message or task but the handler
\* that has yet to insert it.
RowFirst ==
    \A d \in Docs : status[d] = "absent" =>
        /\ ~Queued(d) /\ ~Requested(d) /\ ~Answered(d) /\ ~Indexing(d)
        /\ ~published[d] /\ key[d] # "episodic_uri"
        /\ \A p \in Pods : /\ consumer[p].doc # d
                           /\ upload[p].step = "inserted" => upload[p].doc # d

\* An object waits for its row in one handler.
OneHandler ==
    \A p \in Pods : upload[p].step = "stored" =>
        /\ status[upload[p].doc] = "absent"
        /\ object[upload[p].doc] # {}
        /\ \A q \in Pods : upload[q].step = "stored" /\ upload[q].doc = upload[p].doc
                               => q = p

\* A request that is marked, or about to be, is with the scanner, answered
\* or dead-lettered for as long as no verdict has been applied.
InHand ==
    \A d \in Docs :
        status[d] = "pending_scan" /\ (published[d] \/ \E p \in Pods : publisher[p] = d)
            => Requested(d) \/ Answered(d) \/ d \in dlx

\* Each stage of a clean upload, from the verdict in the broker to the
\* chunks, follows the promotion.
Cleared(d) == key[d] = "episodic_uri" /\ "episodic" \in object[d]

PromotedFirst ==
    \A d \in Docs :
        /\ verdicts[d]["clean"] > 0 => "episodic" \in object[d]
        /\ key[d] = "episodic_uri" => "episodic" \in object[d]
        /\ \A p \in Pods : consumer[p].doc = d /\ consumer[p].kind = "clean" => Cleared(d)
        /\ status[d] = "scanned_clean" => Cleared(d)
        /\ Indexing(d) \/ chunks[d] # "none" => Cleared(d)

\* The marker, and the worker about to set it, follow an accepted pass.
PassFirst ==
    /\ \A p \in Pods : worker[p].step = "ok" => chunks[worker[p].doc] \in {"cut", "all"}
    /\ IndexedHasPass

\* The dead-letter mark, and the worker about to set it, carry a full count;
\* the warnings of the pipeline never reach the row.
CountFirst ==
    /\ \A p \in Pods : worker[p].dead => worker[p].attempts = IndexMaxAttempts
    /\ \A d \in Docs : ~warned[d]
    /\ DeadLetterEarned

IInv == /\ RowFirst /\ OneHandler /\ InHand
        /\ PromotedFirst /\ PassFirst /\ CountFirst

-----------------------------------------------------------------------------
(* Liveness.  Every task of a pod is a loop that is restarted with the     *)
(* pod, and the scanner answers what it is sent: each keeps taking steps   *)
(* while it has some to take.  Nothing forces a fault, a crash, an upload  *)
(* or a replay.                                                            *)
Fairness ==
    /\ \A p \in Pods :
        /\ WF_vars(\E d \in Docs, u \in Uri : Publish(p, d, u))
        /\ WF_vars(MarkPublished(p))
        /\ WF_vars(ScanJanitorTick(p))
        /\ WF_vars(\E d \in Docs, k \in VerdictKind : VerdictApply(p, d, k))
        /\ WF_vars(VerdictAck(p))
        /\ WF_vars(\E d \in Docs : TakeEnvelope(p, d))
        /\ WF_vars(IndexSucceeds(p) \/ IndexCutShort(p) \/ IndexFails(p))
        /\ WF_vars(MarkIndexed(p))
        /\ WF_vars(RecordRead(p))
        /\ WF_vars(RecordWrite(p))
        /\ WF_vars(IndexJanitorTick(p))
    /\ \A d \in Docs, u \in Uri :
        WF_vars(ScanFailed(d, u) \/ ScanClean(d) \/ ScanRejected(d))

FairSpec == Spec /\ Fairness

(* An upload whose row was committed gets a verdict applied, or one of its *)
(* messages is dead-lettered for an operator to see: lost publishes, lost  *)
(* outbox updates and crashed queues are all made up for by the scan       *)
(* janitor.                                                                *)
UploadResolved ==
    \A d \in Docs : status[d] = "pending_scan"
                        ~> status[d] # "pending_scan" \/ d \in dlx

(* A clean upload ends up indexed or dead-lettered, unless a later verdict *)
(* takes the clean status away: the index janitor retries, and the retry   *)
(* budget bounds it even for content that can never be indexed.            *)
CleanSettled ==
    \A d \in Docs : status[d] = "scanned_clean"
                        ~> indexed[d] \/ failed[d] \/ status[d] # "scanned_clean"

-----------------------------------------------------------------------------
(* What the repository's documents and comments say of the pipeline and    *)
(* the code does not do.                                                   *)

(* ADR-048, failure modes: rejected_malware is "do not retry": no scan of  *)
(* a rejected upload is requested again.                                   *)
RejectedNotRetried ==
    [][\A d \in Docs : status[d] = "rejected_malware" =>
          \A u \in Uri : requests'[d][u] <= requests[d][u]]_vars

(* models.py:372: an index_failed_at_ms timestamp means "terminally        *)
(* dead-lettered": only the operator's replay takes it away.               *)
DeadLetterIsTerminal ==
    [][\A d \in Docs : failed[d] /\ ~failed'[d] => Replay(d)]_vars

(* index_worker.py:302: the indexer returns False where the pipeline       *)
(* rejected the object, "bomb-defense" included, so that the row is not    *)
(* marked: a marked row has all its chunks.                                *)
IndexedIsComplete ==
    \A d \in Docs : indexed[d] => chunks[d] = "all"

(* index_worker.py:226-230: a failure with a permanent code is             *)
(* dead-lettered "NOW", "attempt 1 is enough".  UpsertPdfMetadata writes   *)
(* the code under the bare key, and the row it should reach has a URI.     *)
CorruptFailsAtOnce ==
    \A d \in CorruptDocs : attempts[d] > 0 => failed[d]

=============================================================================
