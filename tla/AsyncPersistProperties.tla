----------------------- MODULE AsyncPersistProperties -----------------------
(***************************************************************************)
(* What AsyncPersist is checked for.                                       *)
(***************************************************************************)
EXTENDS AsyncPersist

-----------------------------------------------------------------------------
(* Type invariant of stream, tables and consumers.                         *)
TypeOK ==
    /\ request \in [Records -> {"open", "enqueued", "storing", "flushing",
                                "answered", "cut"}]
    /\ entry \in [Records -> {"absent", "queued", "pending", "acked"}]
    /\ deliveries \in [Records -> Nat]
    /\ idle \in [Records -> BOOLEAN]
    /\ dlq \in SUBSET Records
    /\ logged \in SUBSET Records
    /\ replayed \in SUBSET Records
    /\ rows \in [Records -> Nat]
    /\ tools \in [Records -> Nat]
    /\ loop \in [Pods -> {"starting", "look", "claim", "read", "dead"}]
    /\ batch \in [Pods -> SUBSET Records]
    /\ item \in [Pods -> [rec : Records \cup {None},
                          step : {"none", "persist", "flush", "dead_letter", "ack"}]]
    /\ faults \in Nat /\ crashes \in Nat /\ replays \in Nat

-----------------------------------------------------------------------------
(* Safety *)

Accounted(r) == rows[r] > 0 \/ r \in dlq \/ r \in logged \/ r \in replayed

(* An interaction leaves the stream only once it is stored or in the       *)
(* dead-letter stream, or a failure of it was logged, or the operator was  *)
(* told it is replayed: no order of slow owners, claims, crashes and lost  *)
(* replies drops one without a trace.                                      *)
NoSilentLoss == \A r \in Records : entry[r] = "acked" => Accounted(r)

(* Of the entries that parse only those delivered more than max_deliveries *)
(* times are dead-lettered, although the count a consumer decides on is    *)
(* one that others change.                                                 *)
DeadLetterEarned ==
    \A r \in dlq \cup replayed :
        Trouble[r] = "parse" \/ deliveries[r] > MaxDeliveries

(* What a consumer knows of the entry in its hands: the part that makes    *)
(* the two above inductive.                                                *)
InHand ==
    \A p \in Pods :
        /\ item[p].step # "none" => item[p].rec \in Records
        /\ item[p].step = "flush" => rows[item[p].rec] > 0
        /\ item[p].step = "ack" => Accounted(item[p].rec)
        /\ item[p].step = "dead_letter" =>
              Trouble[item[p].rec] = "parse" \/ deliveries[item[p].rec] > MaxDeliveries

(* Tool calls are stored behind a row of their interaction, one set per    *)
(* row, by every path that stores either (the interaction_id foreign key). *)
ToolsHaveRow == \A r \in Records : tools[r] <= rows[r]

(* Every copy of an interaction has its own delivery, but for the one the  *)
(* request stores itself: duplicates come from redelivery alone.           *)
CopiesAreDeliveries ==
    \A r \in Records :
        rows[r] <= deliveries[r] + (IF request[r] = "enqueued" THEN 0 ELSE 1)

(* The books that make the two above inductive.  A row not yet behind its  *)
(* tool calls is owed them by the one consumer, or the request, about to   *)
(* flush them; a delivery not yet spent on a row is in the hands of one    *)
(* consumer, and the request's own copy in the request's.                  *)
Flushers(r) == {p \in Pods : item[p] = Holding(r, "flush")}

Holders(r) == {p \in Pods : \/ loop[p] # "claim" /\ r \in batch[p]
                            \/ item[p] = Holding(r, "persist")}

ToolsBalance(r) ==
    tools[r] + Cardinality(Flushers(r)) + (IF request[r] = "flushing" THEN 1 ELSE 0)
        <= rows[r]

CopiesBalance(r) ==
    rows[r] + Cardinality(Holders(r))
            + (IF request[r] \in {"open", "storing"} THEN 1 ELSE 0)
        <= deliveries[r] + (IF request[r] = "enqueued" THEN 0 ELSE 1)

ToolsOwed  == \A r \in Records : ToolsBalance(r)
CopiesOwed == \A r \in Records : CopiesBalance(r)

(* An entry a consumer handles is out of its batch, and it handles none    *)
(* while it claims.                                                        *)
OneAtATime ==
    \A p \in Pods : /\ item[p].rec \notin batch[p]
                    /\ loop[p] = "claim" => item[p] = NoItem

-----------------------------------------------------------------------------
(* Refinement: the stream with its consumers, and the route's own store    *)
(* beside them, are a custody of each interaction.  An acknowledged entry  *)
(* is never delivered again, no failure or replay takes an account back,   *)
(* and what is answered is in the stream or accounted for.                 *)
ChatOf(r) ==
    CASE request[r] = "enqueued" -> "answered"
      [] request[r] = "flushing" -> "storing"
      [] OTHER -> request[r]

StreamOf(r) ==
    CASE entry[r] = "absent" -> "none"
      [] entry[r] = "acked" -> "released"
      [] OTHER -> "held"

Care == INSTANCE Custody WITH
    chat <- [r \in Records |-> ChatOf(r)],
    stream <- [r \in Records |-> StreamOf(r)],
    accounted <- {r \in Records : Accounted(r)}

CustodySpec == Care!Spec

(* What the proof of it needs to know: consumers hold entries of the       *)
(* stream, and nothing is in the stream before its request has tried.      *)
InStream ==
    /\ \A r \in Records : request[r] = "open" => entry[r] = "absent"
    /\ \A p \in Pods :
        /\ \A r \in batch[p] : entry[r] # "absent"
        /\ item[p].step # "none" => entry[item[p].rec] # "absent"

-----------------------------------------------------------------------------
(* Liveness.  Time passes, and a task keeps taking its steps; a database   *)
(* that answers lets a call succeed.  No fault, crash or replay is forced. *)
Fairness ==
    /\ \A r \in Records : /\ WF_vars(GoesIdle(r))
                          /\ WF_vars(SyncPersist(r))
                          /\ WF_vars(SyncFlush(r))
    /\ \A p \in Pods :
        /\ WF_vars(Start(p))
        /\ WF_vars(Look(p))
        /\ WF_vars(Claim(p))
        /\ WF_vars(Read(p))
        /\ WF_vars(\E r \in Records : Check(p, r) \/ ParseFails(p, r))
        /\ WF_vars(Persist(p))
        /\ WF_vars(Flush(p))
        /\ WF_vars(FieldsRaise(p))
        /\ WF_vars(DeadLetter(p))
        /\ WF_vars(Ack(p))

FairSpec == Spec /\ Fairness

(* Once the chat is answered its interaction is accounted for in the end,  *)
(* for as long as one pod's consumer lives: entries of dead or slow owners *)
(* are claimed, and what cannot be stored is dead-lettered.                *)
AnsweredIsAccounted ==
    \A r \in Records :
        request[r] \in {"enqueued", "answered"}
            ~> Accounted(r) \/ \A p \in Pods : loop[p] = "dead"

-----------------------------------------------------------------------------
(* What the code's comments say and the code does not do.                  *)

(* async_persist.py:15: "XACK on success.  Transient errors leave the      *)
(* entry un-acked": what was acknowledged is stored or dead-lettered.      *)
AckedIsStored ==
    \A r \in Records :
        entry[r] = "acked" => rows[r] > 0 \/ r \in dlq \/ r \in replayed

(* audittrace-dlq:9: replay is to "Re-execute the persistence", and to     *)
(* delete the entry "On success": a replayed interaction is stored.        *)
ReplayedIsStored == \A r \in replayed : rows[r] > 0

=============================================================================
