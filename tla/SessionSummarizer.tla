-------------------------- MODULE SessionSummarizer --------------------------
(***************************************************************************)
(* The background session summariser (ADR-030 part 2).                     *)
(*                                                                         *)
(* Chats append turns to the interactions table; every pod runs a worker   *)
(* that looks for idle sessions, reads the turns of each, has a language   *)
(* model condense them and upserts the sessions row, stamped with the time *)
(* of the write.  Clients save summaries of their own into the same rows.  *)
(* No step takes a lock: an action is one transaction or one call.         *)
(*                                                                         *)
(* Time is a counter; a turn advances it, so that no two share a stamp.    *)
(***************************************************************************)
EXTENDS Integers, FiniteSets

CONSTANTS
    Sessions, Users, Projects,
    Groups,       \* the (session, user, project) triples that chats use
    Pods,         \* memory-server replicas, one worker each
    None,         \* neither a group nor a sessions row
    Oversized,    \* groups whose latest turn alone exceeds the model's context
    Unanswerable, \* groups the model gives no usable answer for any more
    Archive,      \* the stamp of the one turn of each group already summarised at the start
    ArchiveTime,  \* the clock at the start
    MaxPerCycle,  \* settings.summarizer_max_per_cycle
    IdleTime,     \* settings.summarizer_idle_minutes
    LastChat,     \* bound: no turn is stamped later
    MaxClock,     \* bound of the clock
    MaxFaults,    \* bound: failed calls to the model or to PostgreSQL
    MaxCrashes,   \* bound: pod restarts
    MaxSaves      \* bound: summaries saved by clients

\* A sessions row; covers: the turns the summary was made from, or says were
\* left out of it.
SessionRows == [owner : Users, by : {"client", "worker", "sentinel"},
                at : Nat, covers : SUBSET Nat]

ASSUME GroupsAssumption ==
    /\ Groups \subseteq [session : Sessions, user : Users, project : Projects]
    /\ None \notin Groups \cup SessionRows
    /\ Oversized \subseteq Groups /\ Unanswerable \subseteq Groups
ASSUME ArchiveAssumption ==
    /\ DOMAIN Archive \subseteq Groups
    /\ ArchiveTime \in Nat
    /\ \A g \in DOMAIN Archive : Archive[g] \in 1..ArchiveTime
    /\ \A g, h \in DOMAIN Archive :
          g # h => Archive[g] # Archive[h] /\ g.session # h.session
ASSUME TimesAssumption ==
    /\ MaxPerCycle \in Nat \ {0} /\ IdleTime \in Nat
    /\ LastChat \in Nat /\ MaxClock \in Nat
ASSUME BudgetsAssumption == MaxFaults \in Nat /\ MaxCrashes \in Nat /\ MaxSaves \in Nat

VARIABLES
    clock,   \* the latest timestamp given out
    turns,   \* the stamps of a group's rows in interactions
    rows,    \* the sessions table
    queue,   \* groups a worker's cycle has yet to take
    work,    \* the group a worker summarises, and its next step
    late,    \* history: turns stored while a worker held what it had read of their group
    faults, crashes, saves

budgetVars == <<faults, crashes, saves>>
vars == <<clock, turns, rows, queue, work, late, budgetVars>>

-----------------------------------------------------------------------------
NULL == 0       \* summarized_at of a row no worker has written

Work(group, step, read) ==
    [group |-> group, step |-> step, read |-> read, by |-> "worker", now |-> NULL]
NoWork == Work(None, "none", {})

\* Mutant: the stamp is a moment before the write.
RowStampedEarlier(owner, by, at, covers) ==
    [owner |-> owner, by |-> by, at |-> at - 1, covers |-> covers]

Row(owner, by, at, covers) == [owner |-> owner, by |-> by, at |-> at, covers |-> covers]

Fault == faults < MaxFaults /\ faults' = faults + 1

Archived == DOMAIN Archive

\* The rows that summaries made before the start left.
ArchivedRow(s) ==
    IF \E g \in Archived : g.session = s
    THEN LET g == CHOOSE h \in Archived : h.session = s
         IN  Row(g.user, "worker", ArchiveTime, {Archive[g]})
    ELSE None

Init ==
    /\ clock = ArchiveTime
    /\ turns = [g \in Groups |-> IF g \in Archived THEN {Archive[g]} ELSE {}]
    /\ rows  = [s \in Sessions |-> ArchivedRow(s)]
    /\ queue = [p \in Pods |-> {}]
    /\ work  = [p \in Pods |-> NoWork]
    /\ late  = {}
    /\ faults = 0 /\ crashes = 0 /\ saves = 0

-----------------------------------------------------------------------------
(* The callers.                                                            *)

HeldBy(p, g) == work[p].group = g /\ work[p].step \in {"ask", "insert", "update"}

\* A chat turn is stored; a worker may hold an older reading of the group.
Chat(g) ==
    /\ clock < LastChat
    /\ clock' = clock + 1
    /\ turns' = [turns EXCEPT ![g] = @ \cup {clock'}]
    /\ late' = IF \E p \in Pods : HeldBy(p, g) THEN late \cup {clock'} ELSE late
    /\ UNCHANGED <<rows, queue, work, budgetVars>>

Tick ==
    /\ clock < MaxClock
    /\ clock' = clock + 1
    /\ UNCHANGED <<turns, rows, queue, work, late, budgetVars>>

\* A client saves a summary under a session id.  merge() leaves the columns
\* it was not given, summarized_at among them; another user's row is hidden
\* from it, and the insert it then tries violates the primary key.
SaveSession(u, s) ==
    /\ saves < MaxSaves
    /\ saves' = saves + 1
    /\ \/ rows[s] = None /\ rows' = [rows EXCEPT ![s] = Row(u, "client", NULL, {})]
       \/ /\ rows[s] # None
          /\ rows[s].owner = u
          /\ rows' = [rows EXCEPT ![s] = Row(u, "client", @.at, {})]
    /\ UNCHANGED <<clock, turns, queue, work, late, faults, crashes>>

-----------------------------------------------------------------------------
(* The eligibility query.                                                  *)

IsForeign(g) == rows[g.session] # None /\ rows[g.session].owner # g.user
OwnRow(g)    == rows[g.session] # None /\ rows[g.session].owner = g.user
LastTurn(g)  == CHOOSE t \in turns[g] : \A x \in turns[g] : x <= t
SummarizedAt(g) == IF OwnRow(g) THEN rows[g.session].at ELSE NULL

Idle == {g \in Groups : /\ turns[g] # {}
                        /\ LastTurn(g) < clock - IdleTime
                        /\ ~ IsForeign(g)}

\* ORDER BY (summarized_at IS NULL) DESC, last_ts ASC
Precedes(g, h) ==
    \/ SummarizedAt(g) = NULL /\ SummarizedAt(h) # NULL
    \/ /\ (SummarizedAt(g) = NULL) = (SummarizedAt(h) = NULL)
       /\ LastTurn(g) < LastTurn(h)

FirstOf(n, S) == {g \in S : Cardinality({h \in S : Precedes(h, g)}) < n}

\* Mutant: a session is summarised once.
IsStaleOnce(g) == SummarizedAt(g) = NULL

IsStale(g) == SummarizedAt(g) = NULL \/ SummarizedAt(g) < LastTurn(g)

\* The LIMIT applies before the rows are looked at for staleness.
Eligible == FirstOf(MaxPerCycle, {g \in FirstOf(3 * MaxPerCycle, Idle) : IsStale(g)})

-----------------------------------------------------------------------------
(* A worker's cycle.                                                       *)

Steps(p, from) == work[p].step = from

StartCycle(p) ==
    /\ Steps(p, "none") /\ queue[p] = {}
    /\ LET due == Eligible IN
          due # {} /\ queue' = [queue EXCEPT ![p] = due]
    /\ UNCHANGED <<clock, turns, rows, work, late, budgetVars>>

\* Mutant: only the turns since the last summary are read.
TakeGroupReadingNew(p) ==
    /\ Steps(p, "none")
    /\ \E g \in queue[p] :
          /\ queue' = [queue EXCEPT ![p] = @ \ {g}]
          /\ work' = IF IsForeign(g) THEN work
                     ELSE [work EXCEPT ![p] =
                             Work(g, "ask", {t \in turns[g] : t > SummarizedAt(g)})]
    /\ UNCHANGED <<clock, turns, rows, late, budgetVars>>

\* The owner is looked up again before anything is spent on the group, and
\* its turns are read.  The order of the groups of one cycle is left open, and
\* nothing between the two reads could change what either sees.
TakeGroup(p) ==
    /\ Steps(p, "none")
    /\ \E g \in queue[p] :
          /\ queue' = [queue EXCEPT ![p] = @ \ {g}]
          /\ work' = IF IsForeign(g) THEN work
                     ELSE [work EXCEPT ![p] = Work(g, "ask", turns[g])]
    /\ UNCHANGED <<clock, turns, rows, late, budgetVars>>

\* The call raises, or its answer is not the JSON asked for: the row is left.
\* A group too long for the model gets there if the estimate that replaces a
\* failed count of its tokens is too low; the model then refuses the prompt.
CallLLMFails(p) ==
    /\ Steps(p, "ask")
    /\ IF work[p].group \in Unanswerable \ Oversized THEN UNCHANGED faults ELSE Fault
    /\ work' = [work EXCEPT ![p] = NoWork]
    /\ UNCHANGED <<clock, turns, rows, queue, late, crashes, saves>>

\* Mutant: the row is looked up by the session id alone.
LoadOwnRowById(p, by) ==
    work' = [work EXCEPT ![p] =
               [@ EXCEPT !.by = by, !.now = clock,
                         !.step = IF rows[work[p].group.session] # None
                                  THEN "update" ELSE "insert"]]

\* Both writers take the time, then look for the row by id and user.
LoadOwnRow(p, by) ==
    work' = [work EXCEPT ![p] =
               [@ EXCEPT !.by = by, !.now = clock,
                         !.step = IF OwnRow(work[p].group) THEN "update" ELSE "insert"]]

\* The model answers.  A transcript too long has lost its oldest turns by
\* then, and the summary says how many.
Persist(p) ==
    /\ Steps(p, "ask")
    /\ work[p].group \notin Unanswerable \cup Oversized
    /\ LoadOwnRow(p, "worker")
    /\ UNCHANGED <<clock, turns, rows, queue, late, budgetVars>>

\* Not even the latest turn fits, or counting its tokens failed and the
\* estimate says so: the model is not asked and a sentinel is stored.
PersistSentinelOverflow(p) ==
    /\ Steps(p, "ask")
    /\ IF work[p].group \in Oversized THEN UNCHANGED faults ELSE Fault
    /\ LoadOwnRow(p, "sentinel")
    /\ UNCHANGED <<clock, turns, rows, queue, late, crashes, saves>>

\* An update leaves the row's owner alone.
Written(p) ==
    LET g == work[p].group
        owner == IF work[p].step = "update" THEN rows[g.session].owner ELSE g.user
    IN  [rows EXCEPT ![g.session] = Row(owner, work[p].by, work[p].now, work[p].read)]

\* Mutant: the insert overwrites the row it finds.
PkConflictOverwrites(p) == FALSE

\* An insert that finds a row of the id, whoever's, gives up.
PkConflict(p) == Steps(p, "insert") /\ rows[work[p].group.session] # None

Commit(p) ==
    /\ work[p].step \in {"insert", "update"}
    /\ rows' = IF PkConflict(p) THEN rows ELSE Written(p)
    /\ work' = [work EXCEPT ![p] = NoWork]
    /\ UNCHANGED <<clock, turns, queue, late, budgetVars>>

\* The commit raises, although PostgreSQL may have executed it.
CommitFails(p) ==
    /\ work[p].step \in {"insert", "update"}
    /\ Fault
    /\ \/ ~ PkConflict(p) /\ rows' = Written(p)
       \/ UNCHANGED rows
    /\ work' = [work EXCEPT ![p] = NoWork]
    /\ UNCHANGED <<clock, turns, queue, late, crashes, saves>>

\* The pod restarts; its worker begins anew.
Crash(p) ==
    /\ crashes < MaxCrashes
    /\ ~ Steps(p, "none") \/ queue[p] # {}
    /\ crashes' = crashes + 1
    /\ work'  = [work EXCEPT ![p] = NoWork]
    /\ queue' = [queue EXCEPT ![p] = {}]
    /\ UNCHANGED <<clock, turns, rows, late, faults, saves>>

-----------------------------------------------------------------------------
Worker(p) ==
    \/ StartCycle(p) \/ TakeGroup(p) \/ CallLLMFails(p)
    \/ Persist(p) \/ PersistSentinelOverflow(p) \/ Commit(p) \/ CommitFails(p)

Next ==
    \/ Tick
    \/ \E g \in Groups : Chat(g)
    \/ \E u \in Users, s \in Sessions : SaveSession(u, s)
    \/ \E p \in Pods : Worker(p) \/ Crash(p)

Spec == Init /\ [][Next]_vars

\* run() never ends while the process lives, and survives every exception.
FairSpec == Spec /\ WF_vars(Tick) /\ \A p \in Pods : WF_vars(Worker(p))
=============================================================================
