---------------------------- MODULE AsyncPersist ----------------------------
(***************************************************************************)
(* Asynchronous persistence of chat interactions (ADR-046).                *)
(*                                                                         *)
(* A request that asks for it appends its interaction to a Redis stream    *)
(* instead of storing it; where the append fails it stores it after all.   *)
(* Every pod runs one consumer of the stream's group: it claims entries    *)
(* that have been pending too long, reads new ones, stores each with its   *)
(* tool calls and acknowledges it, and moves an entry delivered too often  *)
(* to a dead-letter stream, from which an operator's script replays it.    *)
(*                                                                         *)
(* An action is what a task does between two awaits.  Time is abstracted:  *)
(* a pending entry may become idle at any moment.                          *)
(***************************************************************************)
EXTENDS Integers, FiniteSets

CONSTANTS
    Records,        \* interactions
    Pods,           \* memory-server replicas
    None,           \* not an interaction
    WithTools,      \* interactions that carry tool calls
    Trouble,        \* which fields of its entry this build cannot take (rolling update)
    MaxDeliveries,  \* settings.async_persist_max_deliveries
    BatchSize,      \* settings.async_persist_batch_size
    MaxFaults,      \* bound: failed calls to Redis or PostgreSQL
    MaxCrashes,     \* bound: pod crashes and aborted requests
    MaxReplays      \* bound: replays by the operator

ASSUME RecordsAssumption == /\ None \notin Records
                            /\ WithTools \subseteq Records
                            /\ Trouble \in [Records -> {"none", "parse", "record", "tools"}]
                            /\ \A r \in Records : Trouble[r] = "tools" => r \in WithTools
ASSUME PodsAssumption    == IsFiniteSet(Pods)   \* a deployment has a replica count
ASSUME LimitsAssumption  == /\ MaxDeliveries \in Nat \ {0}
                            /\ BatchSize \in Nat \ {0}
ASSUME BudgetsAssumption == /\ MaxFaults \in Nat
                            /\ MaxCrashes \in Nat
                            /\ MaxReplays \in Nat

VARIABLES
    request,     \* the chat request of an interaction
    entry,       \* its stream entry
    deliveries,  \* how often the group delivered the entry
    idle,        \* the entry was last delivered pending_idle_ms ago
    dlq,         \* interactions in the dead-letter stream
    rows,        \* how often the interaction is in the interactions table
    tools,       \* how often its tool calls are in the tool_calls table
    logged,      \* interactions a swallowed failure was logged for
    replayed,    \* interactions the operator's script reported as replayed
    loop,        \* what a consumer's loop does next
    batch,       \* entries a consumer is to claim, or holds and has yet to handle
    item,        \* the entry a consumer handles, and its next call
    faults, crashes, replays

streamVars   == <<entry, deliveries, idle, dlq>>
tableVars    == <<rows, tools, logged, replayed>>
consumerVars == <<loop, batch, item>>
budgetVars   == <<faults, crashes, replays>>
vars == <<request, streamVars, tableVars, consumerVars, budgetVars>>

-----------------------------------------------------------------------------
NoItem == [rec |-> None, step |-> "none"]
Holding(r, step) == [rec |-> r, step |-> step]

Fault == faults < MaxFaults /\ faults' = faults + 1

Init ==
    /\ request    = [r \in Records |-> "open"]
    /\ entry      = [r \in Records |-> "absent"]
    /\ deliveries = [r \in Records |-> 0]
    /\ idle       = [r \in Records |-> FALSE]
    /\ dlq = {} /\ logged = {} /\ replayed = {}
    /\ rows       = [r \in Records |-> 0]
    /\ tools      = [r \in Records |-> 0]
    /\ loop       = [p \in Pods |-> "starting"]
    /\ batch      = [p \in Pods |-> {}]
    /\ item       = [p \in Pods |-> NoItem]
    /\ faults = 0 /\ crashes = 0 /\ replays = 0

-----------------------------------------------------------------------------
(* _persist_or_enqueue, on the request's side.                             *)

Enqueue(r) ==
    /\ request[r] = "open"
    /\ request' = [request EXCEPT ![r] = "enqueued"]
    /\ entry' = [entry EXCEPT ![r] = "queued"]
    /\ UNCHANGED <<deliveries, idle, dlq, tableVars, consumerVars, budgetVars>>

\* A request that did not ask for it, or async_persist_enabled is off.
StoreInRequest(r) ==
    /\ request[r] = "open"
    /\ request' = [request EXCEPT ![r] = "storing"]
    /\ UNCHANGED <<streamVars, tableVars, consumerVars, budgetVars>>

\* The append raises, although Redis may have executed it.
EnqueueFails(r) ==
    /\ request[r] = "open"
    /\ Fault
    /\ request' = [request EXCEPT ![r] = "storing"]
    /\ \/ entry' = [entry EXCEPT ![r] = "queued"]
       \/ UNCHANGED entry
    /\ UNCHANGED <<deliveries, idle, dlq, tableVars, consumerVars, crashes, replays>>

SyncPersist(r) ==
    /\ request[r] = "storing"
    /\ rows' = [rows EXCEPT ![r] = @ + 1]
    /\ request' = [request EXCEPT ![r] =
                     IF r \in WithTools THEN "flushing" ELSE "answered"]
    /\ UNCHANGED <<streamVars, tools, logged, replayed, consumerVars, budgetVars>>

SyncFlush(r) ==
    /\ request[r] = "flushing"
    /\ tools' = [tools EXCEPT ![r] = @ + 1]
    /\ request' = [request EXCEPT ![r] = "answered"]
    /\ UNCHANGED <<streamVars, rows, logged, replayed, consumerVars, budgetVars>>

\* A failed transaction may have been committed: its reply is lost, or the
\* refresh after it fails.
MaybeOneMore(table, r) == {table, [table EXCEPT ![r] = @ + 1]}

\* A database failure is logged and swallowed; the chat is answered.
SyncFails(r) ==
    /\ request[r] \in {"storing", "flushing"}
    /\ Fault
    /\ IF request[r] = "storing"
       THEN rows'  \in MaybeOneMore(rows, r) /\ UNCHANGED tools
       ELSE tools' \in MaybeOneMore(tools, r) /\ UNCHANGED rows
    /\ request' = [request EXCEPT ![r] = "answered"]
    /\ logged' = logged \cup {r}
    /\ UNCHANGED <<streamVars, replayed, consumerVars, crashes, replays>>

\* The client disconnects or the pod dies in the middle.
RequestCut(r) ==
    /\ request[r] \in {"open", "storing", "flushing"}
    /\ crashes < MaxCrashes
    /\ crashes' = crashes + 1
    /\ \/ request[r] = "open" /\ entry' = [entry EXCEPT ![r] = "queued"]
       \/ UNCHANGED entry
    /\ request' = [request EXCEPT ![r] = "cut"]
    /\ UNCHANGED <<deliveries, idle, dlq, tableVars, consumerVars, faults, replays>>

-----------------------------------------------------------------------------
(* AsyncPersistConsumer.run: create the group, then claim and read in      *)
(* turn.  A failed call ends the cycle and with it what is left of the     *)
(* batch; a failure to create the group ends the task.                     *)

Start(p) ==
    /\ loop[p] = "starting"
    /\ loop' = [loop EXCEPT ![p] = "look"]
    /\ UNCHANGED <<request, streamVars, tableVars, batch, item, budgetVars>>

StartFails(p) ==
    /\ loop[p] = "starting"
    /\ Fault
    /\ loop' = [loop EXCEPT ![p] = "dead"]
    /\ UNCHANGED <<request, streamVars, tableVars, batch, item, crashes, replays>>

\* As many of S as fit a batch.
BatchOf(B, S) ==
    /\ B \subseteq S
    /\ B = S \/ Cardinality(B) = BatchSize
    /\ Cardinality(B) <= BatchSize

Free(p) == batch[p] = {} /\ item[p] = NoItem

\* A delivery makes an entry pending, counts and restarts its idle time.
Deliver(B) ==
    /\ entry' = [r \in Records |-> IF r \in B THEN "pending" ELSE entry[r]]
    /\ deliveries' = [r \in Records |-> IF r \in B THEN deliveries[r] + 1
                                                   ELSE deliveries[r]]
    /\ idle' = [r \in Records |-> r \notin B /\ idle[r]]

\* Mutant: entries nobody has read yet are taken for idle ones.
IdleUnread == {r \in Records : entry[r] = "queued" /\ idle[r]}

IdlePending == {r \in Records : entry[r] = "pending" /\ idle[r]}

Unread == {r \in Records : entry[r] = "queued"}

\* XPENDING IDLE
Look(p) ==
    /\ loop[p] = "look" /\ Free(p)
    /\ \E B \in SUBSET IdlePending :
        /\ BatchOf(B, IdlePending)
        /\ batch' = [batch EXCEPT ![p] = B]
        /\ loop' = [loop EXCEPT ![p] = IF B = {} THEN "read" ELSE "claim"]
    /\ UNCHANGED <<request, streamVars, tableVars, item, budgetVars>>

\* Mutant: XCLAIM with JUSTID, which does not count the delivery.
ClaimJustId(p) ==
    /\ loop[p] = "claim"
    /\ idle' = [r \in Records |-> r \notin batch[p] /\ idle[r]]
    /\ batch' = [batch EXCEPT ![p] = @ \cap IdlePending]
    /\ loop' = [loop EXCEPT ![p] = "read"]
    /\ UNCHANGED <<request, entry, deliveries, dlq, tableVars, item, budgetVars>>

\* Mutant: XCLAIM with FORCE, which makes acknowledged entries pending again.
ClaimForced(p) ==
    /\ loop[p] = "claim"
    /\ Deliver(batch[p])
    /\ loop' = [loop EXCEPT ![p] = "read"]
    /\ UNCHANGED <<request, dlq, tableVars, batch, item, budgetVars>>

\* XCLAIM: another pod may have claimed or acknowledged some meanwhile.
Claim(p) ==
    /\ loop[p] = "claim"
    /\ Deliver(batch[p] \cap IdlePending)
    /\ batch' = [batch EXCEPT ![p] = @ \cap IdlePending]
    /\ loop' = [loop EXCEPT ![p] = "read"]
    /\ UNCHANGED <<request, dlq, tableVars, item, budgetVars>>

\* XREADGROUP >, which returns empty-handed after block_ms.
Read(p) ==
    /\ loop[p] = "read" /\ Free(p)
    /\ \E B \in SUBSET Unread :
        /\ BatchOf(B, Unread)
        /\ Deliver(B)
        /\ batch' = [batch EXCEPT ![p] = B]
    /\ loop' = [loop EXCEPT ![p] = "look"]
    /\ UNCHANGED <<request, dlq, tableVars, item, budgetVars>>

\* Any of the calls raises; the reply may be what is lost.
FetchFails(p) ==
    /\ \/ loop[p] = "claim"
       \/ loop[p] \in {"look", "read"} /\ Free(p)
    /\ Fault
    /\ \/ UNCHANGED <<entry, deliveries, idle>>
       \/ /\ loop[p] = "claim"
          /\ Deliver(batch[p] \cap IdlePending)
       \/ /\ loop[p] = "read"
          /\ \E B \in SUBSET Unread : BatchOf(B, Unread) /\ Deliver(B)
    /\ loop' = [loop EXCEPT ![p] = "look"]
    /\ batch' = [batch EXCEPT ![p] = {}]
    /\ UNCHANGED <<request, dlq, tableVars, item, crashes, replays>>

-----------------------------------------------------------------------------
(* _handle_one.                                                            *)

\* What the delivery count says of an entry: one that is not pending any
\* more counts as delivered once.
DeliveryCount(r) == IF entry[r] = "pending" THEN deliveries[r] ELSE 1

\* An entry of the batch is next.
Picks(p, r) == loop[p] # "claim" /\ item[p] = NoItem /\ r \in batch[p]

\* Fields that do not parse are dead-lettered at once.
ParseFails(p, r) ==
    /\ Picks(p, r) /\ Trouble[r] = "parse"
    /\ batch' = [batch EXCEPT ![p] = @ \ {r}]
    /\ item' = [item EXCEPT ![p] = Holding(r, "dead_letter")]
    /\ UNCHANGED <<request, streamVars, tableVars, loop, budgetVars>>

\* Mutant: an entry is dead-lettered on its last delivery, not after it.
CheckTooEarly(p, r) ==
    /\ Picks(p, r) /\ Trouble[r] # "parse"
    /\ batch' = [batch EXCEPT ![p] = @ \ {r}]
    /\ item' = [item EXCEPT ![p] =
                  Holding(r, IF DeliveryCount(r) >= MaxDeliveries
                             THEN "dead_letter" ELSE "persist")]
    /\ UNCHANGED <<request, streamVars, tableVars, loop, budgetVars>>

Check(p, r) ==
    /\ Picks(p, r) /\ Trouble[r] # "parse"
    /\ batch' = [batch EXCEPT ![p] = @ \ {r}]
    /\ item' = [item EXCEPT ![p] =
                  Holding(r, IF DeliveryCount(r) > MaxDeliveries
                             THEN "dead_letter" ELSE "persist")]
    /\ UNCHANGED <<request, streamVars, tableVars, loop, budgetVars>>

\* The count cannot be read, and is taken to be one.
CheckFails(p, r) ==
    /\ Picks(p, r) /\ Trouble[r] # "parse"
    /\ Fault
    /\ batch' = [batch EXCEPT ![p] = @ \ {r}]
    /\ item' = [item EXCEPT ![p] = Holding(r, "persist")]
    /\ UNCHANGED <<request, streamVars, tableVars, loop, crashes, replays>>

Persist(p) ==
    LET r == item[p].rec IN
    /\ item[p].step = "persist" /\ Trouble[r] # "record"
    /\ rows' = [rows EXCEPT ![r] = @ + 1]
    /\ item' = [item EXCEPT ![p] =
                  Holding(r, IF r \in WithTools THEN "flush" ELSE "ack")]
    /\ UNCHANGED <<request, streamVars, tools, logged, replayed, loop, batch,
                   budgetVars>>

\* Mutant: the tool calls are flushed although no row was written.
PersistFailsThenFlushes(p) ==
    LET r == item[p].rec IN
    /\ item[p].step = "persist" /\ Trouble[r] # "record"
    /\ Fault
    /\ logged' = logged \cup {r}
    /\ item' = [item EXCEPT ![p] =
                  Holding(r, IF r \in WithTools THEN "flush" ELSE "ack")]
    /\ UNCHANGED <<request, streamVars, rows, tools, replayed, loop, batch,
                   crashes, replays>>

\* _persist_interaction logs every exception and returns None, which the
\* consumer does not tell from success.
PersistFails(p) ==
    LET r == item[p].rec IN
    /\ item[p].step = "persist" /\ Trouble[r] # "record"
    /\ Fault
    /\ rows' \in MaybeOneMore(rows, r)
    /\ logged' = logged \cup {r}
    /\ item' = [item EXCEPT ![p] = Holding(r, "ack")]
    /\ UNCHANGED <<request, streamVars, tools, replayed, loop, batch, crashes, replays>>

\* The call itself raises, or rebuilding the tool calls does: the entry
\* stays pending.
FieldsRaise(p) ==
    /\ \/ item[p].step = "persist" /\ Trouble[item[p].rec] = "record"
       \/ item[p].step = "flush" /\ Trouble[item[p].rec] = "tools"
    /\ item' = [item EXCEPT ![p] = NoItem]
    /\ UNCHANGED <<request, streamVars, tableVars, loop, batch, budgetVars>>

Flush(p) ==
    LET r == item[p].rec IN
    /\ item[p].step = "flush" /\ Trouble[r] # "tools"
    /\ tools' = [tools EXCEPT ![r] = @ + 1]
    /\ item' = [item EXCEPT ![p] = Holding(r, "ack")]
    /\ UNCHANGED <<request, streamVars, rows, logged, replayed, loop, batch,
                   budgetVars>>

FlushFails(p) ==
    LET r == item[p].rec IN
    /\ item[p].step = "flush" /\ Trouble[r] # "tools"
    /\ Fault
    /\ tools' \in MaybeOneMore(tools, r)
    /\ logged' = logged \cup {r}
    /\ item' = [item EXCEPT ![p] = Holding(r, "ack")]
    /\ UNCHANGED <<request, streamVars, rows, replayed, loop, batch, crashes, replays>>

\* Mutant: the entry is acknowledged before it is in the dead-letter stream.
DeadLetterAcksFirst(p) ==
    LET r == item[p].rec IN
    /\ item[p].step = "dead_letter"
    /\ entry' = [entry EXCEPT ![r] = "acked"]
    /\ dlq' = IF entry[r] = "acked" THEN dlq \cup {r} ELSE dlq
    /\ item' = [item EXCEPT ![p] = IF entry[r] = "acked" THEN NoItem ELSE @]
    /\ UNCHANGED <<request, deliveries, idle, tableVars, loop, batch, budgetVars>>

\* _move_to_dlq appends, then acknowledges.
DeadLetter(p) ==
    LET r == item[p].rec IN
    /\ item[p].step = "dead_letter"
    /\ dlq' = dlq \cup {r}
    /\ item' = [item EXCEPT ![p] = Holding(r, "ack")]
    /\ UNCHANGED <<request, entry, deliveries, idle, tableVars, loop, batch,
                   budgetVars>>

\* The append raises, executed or not: logged, and the entry is acknowledged
\* all the same.
DeadLetterFails(p) ==
    LET r == item[p].rec IN
    /\ item[p].step = "dead_letter"
    /\ Fault
    /\ dlq' \in {dlq, dlq \cup {r}}
    /\ logged' = logged \cup {r}
    /\ item' = [item EXCEPT ![p] = Holding(r, "ack")]
    /\ UNCHANGED <<request, entry, deliveries, idle, rows, tools, replayed, loop,
                   batch, crashes, replays>>

\* Mutant: the entry is deleted from the stream with its acknowledgement.
AckDeletes(p) ==
    LET r == item[p].rec IN
    /\ item[p].step = "ack"
    /\ entry' = [entry EXCEPT ![r] = "deleted"]
    /\ item' = [item EXCEPT ![p] = NoItem]
    /\ UNCHANGED <<request, deliveries, idle, dlq, tableVars, loop, batch,
                   budgetVars>>

Ack(p) ==
    LET r == item[p].rec IN
    /\ item[p].step = "ack"
    /\ entry' = [entry EXCEPT ![r] = "acked"]
    /\ item' = [item EXCEPT ![p] = NoItem]
    /\ UNCHANGED <<request, deliveries, idle, dlq, tableVars, loop, batch,
                   budgetVars>>

\* XACK raises, executed or not, and ends the cycle.
AckFails(p) ==
    LET r == item[p].rec IN
    /\ item[p].step = "ack"
    /\ Fault
    /\ \/ entry' = [entry EXCEPT ![r] = "acked"]
       \/ UNCHANGED entry
    /\ item' = [item EXCEPT ![p] = NoItem]
    /\ batch' = [batch EXCEPT ![p] = {}]
    /\ loop' = [loop EXCEPT ![p] = "look"]
    /\ UNCHANGED <<request, deliveries, idle, dlq, tableVars, crashes, replays>>

-----------------------------------------------------------------------------
(* Time, crashes and the operator.                                         *)

GoesIdle(r) ==
    /\ entry[r] = "pending" /\ ~idle[r]
    /\ idle' = [idle EXCEPT ![r] = TRUE]
    /\ UNCHANGED <<request, entry, deliveries, dlq, tableVars, consumerVars,
                   budgetVars>>

\* The pod restarts; what it had in hand stays pending in the group.
Crash(p) ==
    /\ crashes < MaxCrashes
    /\ crashes' = crashes + 1
    /\ loop' = [loop EXCEPT ![p] = "starting"]
    /\ batch' = [batch EXCEPT ![p] = {}]
    /\ item' = [item EXCEPT ![p] = NoItem]
    /\ UNCHANGED <<request, streamVars, tableVars, faults, replays>>

\* audittrace-dlq replay.  It runs the coroutine functions of the consumer
\* in a thread, which creates the coroutines and never awaits them: nothing
\* is stored, nothing is None, and the entry is deleted.  Fields it cannot
\* take raise, and leave the entry in place.
Replay(r) ==
    /\ replays < MaxReplays
    /\ replays' = replays + 1
    /\ r \in dlq
    /\ Trouble[r] = "none"
    /\ dlq' = dlq \ {r}
    /\ replayed' = replayed \cup {r}
    /\ UNCHANGED <<request, entry, deliveries, idle, rows, tools, logged,
                   consumerVars, faults, crashes>>

-----------------------------------------------------------------------------
RequestNext(r) ==
    \/ Enqueue(r)
    \/ EnqueueFails(r)
    \/ StoreInRequest(r)
    \/ SyncPersist(r)
    \/ SyncFlush(r)
    \/ SyncFails(r)
    \/ RequestCut(r)

HandleNext(p) ==
    \/ \E r \in Records : ParseFails(p, r)
    \/ \E r \in Records : Check(p, r)
    \/ \E r \in Records : CheckFails(p, r)
    \/ Persist(p)
    \/ PersistFails(p)
    \/ FieldsRaise(p)
    \/ Flush(p)
    \/ FlushFails(p)
    \/ DeadLetter(p)
    \/ DeadLetterFails(p)
    \/ Ack(p)
    \/ AckFails(p)

LoopNext(p) ==
    \/ Start(p)
    \/ StartFails(p)
    \/ Look(p)
    \/ Claim(p)
    \/ Read(p)
    \/ FetchFails(p)

Next ==
    \/ \E p \in Pods : LoopNext(p) \/ HandleNext(p) \/ Crash(p)
    \/ \E r \in Records : RequestNext(r) \/ GoesIdle(r) \/ Replay(r)

Spec == Init /\ [][Next]_vars

=============================================================================
