----------------------- MODULE SessionSummarizerProofs -----------------------
(***************************************************************************)
(* Proofs about SessionSummarizer for any number of pods, sessions, users  *)
(* and projects, any limits of the cycle, and any budget of faults,        *)
(* crashes and saves.                                                      *)
(***************************************************************************)
EXTENDS SessionSummarizerProperties, TLAPS

(* What a worker writes: a row of its group's user, over no row or over    *)
(* one that is that user's already.                                        *)
LEMMA WrittenRow ==
    ASSUME TypeOK, WorkIsCurrent, NEW p \in Pods,
           work[p].step \in {"insert", "update"}, ~ PkConflict(p)
    PROVE  /\ work[p].group \in Groups
           /\ work[p].group.session \in Sessions
           /\ work[p].group.user \in Users
           /\ \/ rows[work[p].group.session] = None
              \/ rows[work[p].group.session].owner = work[p].group.user
           /\ \E by \in {"worker", "sentinel"} :
                 Written(p) = [rows EXCEPT ![work[p].group.session] =
                                 [owner |-> work[p].group.user, by |-> by,
                                  at |-> work[p].now, covers |-> work[p].read]]
<1>1. work[p].group \in Groups
  BY DEF WorkIsCurrent
<1>2. /\ work[p].group.session \in Sessions /\ work[p].group.user \in Users
      /\ work[p].by \in {"worker", "sentinel"}
  BY <1>1, GroupsAssumption DEF TypeOK
<1>3. CASE work[p].step = "insert"
  <2>1. rows[work[p].group.session] = None
    BY <1>3 DEF PkConflict, Steps
  <2>2. work[p].step # "update"
    BY <1>3
  <2> QED
    BY <1>1, <1>2, <2>1, <2>2 DEF Written, Row
<1>4. CASE work[p].step = "update"
  <2>1. rows[work[p].group.session].owner = work[p].group.user
    BY <1>4 DEF WorkIsCurrent, OwnRow
  <2> QED
    BY <1>1, <1>2, <1>4, <2>1 DEF Written, Row
<1> QED
  BY <1>3, <1>4

(* A row a worker writes is a sessions row.                                *)
LEMMA NewRowType ==
    ASSUME TypeOK, NEW p \in Pods, NEW u \in Users, NEW by \in {"worker", "sentinel"}
    PROVE  /\ [owner |-> u, by |-> by, at |-> work[p].now, covers |-> work[p].read]
                 \in SessionRows
           /\ [owner |-> u, by |-> by, at |-> work[p].now, covers |-> work[p].read] # None
  BY GroupsAssumption DEF TypeOK, SessionRows

(* Either writer loads its row and changes nothing else.                   *)
LEMMA LoadSteps ==
    ASSUME NEW p \in Pods, Persist(p) \/ PersistSentinelOverflow(p)
    PROVE  /\ work[p].step = "ask"
           /\ \E by \in {"worker", "sentinel"} : LoadOwnRow(p, by)
           /\ UNCHANGED <<clock, turns, rows, queue, late, crashes, saves>>
           /\ faults' = faults \/ faults' = faults + 1
  BY DEF Persist, PersistSentinelOverflow, Steps, Fault, budgetVars

(* Storing either leaves the sessions table or writes the worker's row.    *)
LEMMA StoreSteps ==
    ASSUME NEW p \in Pods, Commit(p) \/ CommitFails(p)
    PROVE  /\ work[p].step \in {"insert", "update"}
           /\ rows' = rows \/ (~ PkConflict(p) /\ rows' = Written(p))
           /\ work' = [work EXCEPT ![p] = NoWork]
           /\ UNCHANGED <<clock, turns, queue, late>>
  BY DEF Commit, CommitFails

(* The initial state has every part of the invariant.                      *)
LEMMA InitHolds ==
    Init => TypeOK /\ WorkIsCurrent /\ StampsAreOrdered /\ SummaryIsOwn /\ MissedIsLate
<1> SUFFICES ASSUME Init
             PROVE  TypeOK /\ WorkIsCurrent /\ StampsAreOrdered /\ SummaryIsOwn /\ MissedIsLate
  OBVIOUS
<1> USE GroupsAssumption, ArchiveAssumption DEF Init, Archived, NoWork, Work, NULL
<1>1. \A g \in Groups : turns[g] \in SUBSET (1..ArchiveTime)
  OBVIOUS
<1>2. ASSUME NEW s \in Sessions, rows[s] # None
      PROVE  \E g \in Archived : /\ g.session = s
                                 /\ rows[s] = Row(g.user, "worker", ArchiveTime, {Archive[g]})
  <2>1. \E g \in Archived : g.session = s
    BY <1>2 DEF ArchivedRow
  <2>2. PICK g \in Archived : g = CHOOSE h \in Archived : h.session = s
    BY <2>1
  <2>3. g.session = s
    BY <2>1, <2>2
  <2> QED
    BY <1>2, <2>1, <2>2, <2>3 DEF ArchivedRow
<1>3. ASSUME NEW s \in Sessions, rows[s] # None
      PROVE  rows[s] \in SessionRows /\ rows[s].at <= clock
  <2>1. PICK g \in Archived : rows[s] = Row(g.user, "worker", ArchiveTime, {Archive[g]})
    BY <1>3, <1>2
  <2>2. g.user \in Users /\ Archive[g] \in Nat
    OBVIOUS
  <2> QED
    BY <2>1, <2>2 DEF Row, SessionRows
<1>4. TypeOK
  <2>1. rows \in [Sessions -> SessionRows \cup {None}]
    BY <1>3
  <2>2. turns \in [Groups -> SUBSET Nat]
    OBVIOUS
  <2> QED
    BY <2>1, <2>2 DEF TypeOK
<1>5. WorkIsCurrent
  BY DEF WorkIsCurrent
<1>6. StampsAreOrdered
  <2>1. ASSUME NEW g \in Groups, NEW h \in Groups, g # h
        PROVE  turns[g] \cap turns[h] = {}
    BY <2>1
  <2>2. \A g \in Groups : \A t \in turns[g] : t <= clock
    BY <1>1
  <2> QED
    BY <1>3, <2>1, <2>2 DEF StampsAreOrdered
<1>7. SummaryIsOwn
  <2> SUFFICES ASSUME NEW s \in Sessions, rows[s] # None
               PROVE  rows[s].covers \subseteq TurnsOf(rows[s].owner, s)
    BY DEF SummaryIsOwn
  <2>1. PICK g \in Archived : /\ g.session = s
                              /\ rows[s] = Row(g.user, "worker", ArchiveTime, {Archive[g]})
    BY <1>2
  <2>2. g \in Groups /\ turns[g] = {Archive[g]}
    OBVIOUS
  <2> QED
    BY <2>1, <2>2 DEF Row, TurnsOf
<1>8. MissedIsLate
  <2> SUFFICES ASSUME NEW g \in Groups, OwnRow(g), rows[g.session].covers \cap turns[g] # {},
                      NEW t \in turns[g] \ rows[g.session].covers
               PROVE  FALSE
    BY DEF MissedIsLate
  <2>1. g \in Archived /\ turns[g] = {Archive[g]}
    OBVIOUS
  <2> QED
    BY <2>1
<1> QED
  BY <1>4, <1>5, <1>6, <1>7, <1>8

(* Every step keeps the types.                                             *)
LEMMA TypeStep == TypeOK /\ WorkIsCurrent /\ [Next]_vars => TypeOK'
<1> SUFFICES ASSUME TypeOK, WorkIsCurrent, [Next]_vars
             PROVE  TypeOK'
  OBVIOUS
<1> USE DEF TypeOK, budgetVars, NoWork, Work, NULL, Fault, Steps
<1>1. CASE Tick
  BY <1>1 DEF Tick
<1>2. ASSUME NEW g \in Groups, Chat(g)
      PROVE  TypeOK'
  <2>1. clock' \in Nat /\ turns' \in [Groups -> SUBSET Nat]
    BY <1>2 DEF Chat
  <2>2. late' \in SUBSET Nat
    BY <1>2, <2>1 DEF Chat
  <2> QED
    BY <1>2, <2>1, <2>2 DEF Chat
<1>3. ASSUME NEW u \in Users, NEW s \in Sessions, SaveSession(u, s)
      PROVE  TypeOK'
  <2>1. rows' \in [Sessions -> SessionRows \cup {None}]
    <3>1. CASE rows' = [rows EXCEPT ![s] = Row(u, "client", NULL, {})]
      BY <3>1 DEF Row, SessionRows
    <3>2. CASE /\ rows[s] # None
               /\ rows' = [rows EXCEPT ![s] = Row(u, "client", rows[s].at, {})]
      BY <3>2 DEF Row, SessionRows
    <3> QED
      BY <1>3, <3>1, <3>2 DEF SaveSession
  <2> QED
    BY <1>3, <2>1 DEF SaveSession
<1>4. ASSUME NEW p \in Pods, StartCycle(p)
      PROVE  TypeOK'
  <2>1. Eligible \subseteq Groups
    BY DEF Eligible, FirstOf, Idle
  <2> QED
    BY <1>4, <2>1 DEF StartCycle
<1>5. ASSUME NEW p \in Pods, TakeGroup(p)
      PROVE  TypeOK'
  <2>1. PICK g \in queue[p] :
           /\ queue' = [queue EXCEPT ![p] = @ \ {g}]
           /\ work' = IF IsForeign(g) THEN work
                      ELSE [work EXCEPT ![p] = Work(g, "ask", turns[g])]
    BY <1>5 DEF TakeGroup
  <2>2. g \in Groups
    OBVIOUS
  <2>3. queue' \in [Pods -> SUBSET Groups]
    BY <2>1
  <2>4. CASE IsForeign(g)
    BY <1>5, <2>1, <2>3, <2>4 DEF TakeGroup
  <2>5. CASE ~ IsForeign(g)
    <3>1. turns[g] \in SUBSET Nat
      BY <2>2
    <3>2. work' = [work EXCEPT ![p] = Work(g, "ask", turns[g])]
      BY <2>1, <2>5
    <3> QED
      BY <1>5, <2>2, <2>3, <3>1, <3>2 DEF TakeGroup
  <2> QED
    BY <2>4, <2>5
<1>6. ASSUME NEW p \in Pods, CallLLMFails(p)
      PROVE  TypeOK'
  BY <1>6 DEF CallLLMFails
<1>7. ASSUME NEW p \in Pods, Persist(p) \/ PersistSentinelOverflow(p)
      PROVE  TypeOK'
  <2>1. PICK by \in {"worker", "sentinel"} : LoadOwnRow(p, by)
    BY <1>7, LoadSteps
  <2>2. work' \in [Pods -> [group : Groups \cup {None},
                          step : {"none", "ask", "insert", "update"},
                          read : SUBSET Nat, by : {"worker", "sentinel"}, now : Nat]]
    <3>1. PICK step \in {"insert", "update"} :
             work' = [work EXCEPT ![p] = [@ EXCEPT !.by = by, !.now = clock, !.step = step]]
      <4>1. CASE OwnRow(work[p].group)
        BY <2>1, <4>1 DEF LoadOwnRow
      <4>2. CASE ~ OwnRow(work[p].group)
        BY <2>1, <4>2 DEF LoadOwnRow
      <4> QED
        BY <4>1, <4>2
    <3> QED
      BY <3>1
  <2>3. faults' \in Nat
    BY <1>7, LoadSteps
  <2> QED
    BY <1>7, <2>2, <2>3, LoadSteps
<1>8. ASSUME NEW p \in Pods, Commit(p) \/ CommitFails(p)
      PROVE  TypeOK'
  <2>1. rows' \in [Sessions -> SessionRows \cup {None}]
    <3>1. CASE rows' = rows
      BY <3>1
    <3>2. CASE ~ PkConflict(p) /\ rows' = Written(p)
      <4>1. work[p].step \in {"insert", "update"}
        BY <1>8, StoreSteps
      <4>2. PICK by \in {"worker", "sentinel"} :
               rows' = [rows EXCEPT ![work[p].group.session] =
                          [owner |-> work[p].group.user, by |-> by,
                           at |-> work[p].now, covers |-> work[p].read]]
        BY <3>2, <4>1, WrittenRow
      <4>3. work[p].group.user \in Users
        BY <3>2, <4>1, WrittenRow
      <4> QED
        BY <4>2, <4>3, NewRowType
    <3> QED
      BY <1>8, <3>1, <3>2, StoreSteps
  <2>2. faults' \in Nat /\ crashes' \in Nat /\ saves' \in Nat
    BY <1>8 DEF Commit, CommitFails
  <2>3. work' = [work EXCEPT ![p] = NoWork] /\ UNCHANGED <<clock, turns, queue, late>>
    BY <1>8, StoreSteps
  <2> QED
    BY <2>1, <2>2, <2>3
<1>9. ASSUME NEW p \in Pods, Crash(p)
      PROVE  TypeOK'
  BY <1>9 DEF Crash
<1>10. CASE UNCHANGED vars
  BY <1>10 DEF vars
<1> QED
  BY <1>1, <1>2, <1>3, <1>4, <1>5, <1>6, <1>7, <1>8, <1>9, <1>10 DEF Next, Worker

(* A row keeps its owner in every step, and is never removed.              *)
LEMMA OwnerStep ==
    ASSUME TypeOK, WorkIsCurrent, [Next]_vars, NEW s \in Sessions, rows[s] # None
    PROVE  rows'[s] # None /\ rows'[s].owner = rows[s].owner
<1>1. ASSUME NEW u \in Users, NEW x \in Sessions, SaveSession(u, x)
      PROVE  rows'[s] # None /\ rows'[s].owner = rows[s].owner
  <2>1. CASE x # s
    BY <1>1, <2>1 DEF SaveSession, TypeOK
  <2>2. CASE x = s
    <3>1. rows'[s] = Row(u, "client", rows[s].at, {}) /\ rows[s].owner = u
      BY <1>1, <2>2 DEF SaveSession, TypeOK
    <3>2. rows[s].at \in Nat
      BY DEF TypeOK, SessionRows
    <3>3. rows'[s] \in SessionRows
      BY <3>1, <3>2 DEF Row, SessionRows
    <3> QED
      BY <3>1, <3>3, GroupsAssumption DEF Row
  <2> QED
    BY <2>1, <2>2
<1>2. ASSUME NEW p \in Pods, Commit(p) \/ CommitFails(p)
      PROVE  rows'[s] # None /\ rows'[s].owner = rows[s].owner
  <2>1. CASE rows' = rows
    BY <2>1
  <2>2. CASE ~ PkConflict(p) /\ rows' = Written(p)
    <3>1. work[p].step \in {"insert", "update"}
      BY <1>2, StoreSteps
    <3>2. PICK by \in {"worker", "sentinel"} :
             rows' = [rows EXCEPT ![work[p].group.session] =
                        [owner |-> work[p].group.user, by |-> by,
                         at |-> work[p].now, covers |-> work[p].read]]
      BY <2>2, <3>1, WrittenRow
    <3>3. /\ work[p].group.session \in Sessions /\ work[p].group.user \in Users
          /\ \/ rows[work[p].group.session] = None
             \/ rows[work[p].group.session].owner = work[p].group.user
      BY <2>2, <3>1, WrittenRow
    <3>4. CASE work[p].group.session # s
      BY <3>2, <3>4 DEF TypeOK
    <3>5. CASE work[p].group.session = s
      BY <3>2, <3>3, <3>5, NewRowType DEF TypeOK
    <3> QED
      BY <3>4, <3>5
  <2> QED
    BY <1>2, <2>1, <2>2, StoreSteps
<1>3. CASE UNCHANGED rows
  BY <1>3
<1> QED
  BY <1>1, <1>2, <1>3
  DEF Next, Worker, Tick, Chat, StartCycle, TakeGroup, CallLLMFails, Persist, PersistSentinelOverflow, LoadOwnRow, Crash, vars

(* Hence a group's own row stays its own.                                  *)
LEMMA OwnRowStays ==
    ASSUME TypeOK, WorkIsCurrent, [Next]_vars, NEW g \in Groups, OwnRow(g)
    PROVE  rows'[g.session] # None /\ rows'[g.session].owner = g.user
<1>1. g.session \in Sessions
  BY GroupsAssumption
<1>2. rows[g.session] # None /\ rows[g.session].owner = g.user
  BY DEF OwnRow
<1> QED
  BY <1>1, <1>2, OwnerStep

(* A turn that a worker holding its group has not read is late: it came    *)
(* while the worker held the group.                                        *)
LEMMA WorkStep == TypeOK /\ WorkIsCurrent /\ [Next]_vars => WorkIsCurrent'
<1> SUFFICES ASSUME TypeOK, WorkIsCurrent, [Next]_vars,
                    NEW q \in Pods, work'[q].step # "none"
             PROVE  /\ work'[q].group \in Groups
                    /\ work'[q].read \subseteq turns'[work'[q].group]
                    /\ turns'[work'[q].group] \ work'[q].read \subseteq late'
                    /\ work'[q].step = "update" =>
                          /\ rows'[work'[q].group.session] # None
                          /\ rows'[work'[q].group.session].owner = work'[q].group.user
  BY DEF WorkIsCurrent, OwnRow
<1> DEFINE OwnPrime == /\ rows'[work'[q].group.session] # None
                       /\ rows'[work'[q].group.session].owner = work'[q].group.user
<1> DEFINE Goal == /\ work'[q].group \in Groups
                   /\ work'[q].read \subseteq turns'[work'[q].group]
                   /\ turns'[work'[q].group] \ work'[q].read \subseteq late'
                   /\ work'[q].step = "update" => OwnPrime
<1>1. ASSUME work'[q] = work[q], turns' = turns, late' = late
      PROVE  Goal
  BY <1>1, OwnRowStays DEF WorkIsCurrent
<1>2. ASSUME NEW p \in Pods, work' = [work EXCEPT ![p] = NoWork],
             turns' = turns, late' = late
      PROVE  Goal
  <2>1. p # q
    BY <1>2 DEF TypeOK, NoWork, Work
  <2>2. work'[q] = work[q]
    BY <1>2, <2>1 DEF TypeOK
  <2> QED
    BY <1>1, <1>2, <2>2
<1>3. CASE Tick
  BY <1>1, <1>3 DEF Tick
<1>4. ASSUME NEW g \in Groups, Chat(g)
      PROVE  Goal
  <2>1. work'[q] = work[q] /\ work[q].step # "none" /\ work[q].group \in Groups
    BY <1>4 DEF Chat, WorkIsCurrent
  <2>2. late \subseteq late'
    BY <1>4 DEF Chat
  <2>3. work'[q].step = "update" => OwnPrime
    BY <2>1, OwnRowStays DEF WorkIsCurrent
  <2>4. CASE g # work[q].group
    <3>1. turns'[work[q].group] = turns[work[q].group]
      BY <1>4, <2>1, <2>4 DEF Chat, TypeOK
    <3> QED
      BY <2>1, <2>2, <2>3, <3>1 DEF WorkIsCurrent
  <2>5. CASE g = work[q].group
    <3>1. turns'[g] = turns[g] \cup {clock'}
      BY <1>4 DEF Chat, TypeOK
    <3>2. work[q].step \in {"ask", "insert", "update"}
      BY <2>1 DEF TypeOK
    <3>3. clock' \in late'
      BY <1>4, <2>5, <3>2 DEF Chat, HeldBy
    <3> QED
      BY <2>1, <2>2, <2>3, <2>5, <3>1, <3>3 DEF WorkIsCurrent
  <2> QED
    BY <2>4, <2>5
<1>5. ASSUME NEW u \in Users, NEW s \in Sessions, SaveSession(u, s)
      PROVE  Goal
  BY <1>1, <1>5 DEF SaveSession
<1>6. ASSUME NEW p \in Pods, StartCycle(p)
      PROVE  Goal
  BY <1>1, <1>6 DEF StartCycle
<1>7. ASSUME NEW p \in Pods, TakeGroup(p)
      PROVE  Goal
  <2>1. PICK g \in queue[p] :
           work' = IF IsForeign(g) THEN work
                   ELSE [work EXCEPT ![p] = Work(g, "ask", turns[g])]
    BY <1>7 DEF TakeGroup
  <2>2. g \in Groups
    BY DEF TypeOK
  <2>3. turns' = turns /\ late' = late
    BY <1>7 DEF TakeGroup
  <2>4. CASE work'[q] = work[q]
    BY <1>1, <2>3, <2>4
  <2>5. CASE work'[q] # work[q]
    <3>1. work'[q] = Work(g, "ask", turns[g])
      BY <2>1, <2>5 DEF TypeOK
    <3> QED
      BY <2>2, <2>3, <3>1 DEF Work
  <2> QED
    BY <2>4, <2>5
<1>8. ASSUME NEW p \in Pods, CallLLMFails(p)
      PROVE  Goal
  BY <1>2, <1>8 DEF CallLLMFails
<1>9. ASSUME NEW p \in Pods, Persist(p) \/ PersistSentinelOverflow(p)
      PROVE  Goal
  <2>0. PICK by \in {"worker", "sentinel"} : LoadOwnRow(p, by)
    BY <1>9, LoadSteps
  <2>1. turns' = turns /\ late' = late /\ rows' = rows /\ work[p].step = "ask"
    BY <1>9, LoadSteps
  <2>2. CASE p # q
    <3>1. work'[q] = work[q]
      BY <2>0, <2>2 DEF LoadOwnRow, TypeOK
    <3> QED
      BY <1>1, <2>1, <3>1
  <2>3. CASE p = q
    <3>1. /\ work'[q].group = work[q].group /\ work'[q].read = work[q].read
          /\ work'[q].step = "update" => OwnRow(work[q].group)
          /\ work[q].step # "none"
      BY <2>0, <2>1, <2>3 DEF LoadOwnRow, TypeOK
    <3>2. work'[q].step = "update" => OwnPrime
      BY <2>1, <3>1 DEF OwnRow
    <3> QED
      BY <2>1, <3>1, <3>2 DEF WorkIsCurrent
  <2> QED
    BY <2>2, <2>3
<1>10. ASSUME NEW p \in Pods, Commit(p) \/ CommitFails(p)
      PROVE  Goal
  BY <1>2, <1>10, StoreSteps
<1>11. ASSUME NEW p \in Pods, Crash(p)
      PROVE  Goal
  BY <1>2, <1>11 DEF Crash
<1>12. CASE UNCHANGED vars
  BY <1>1, <1>12 DEF vars
<1> QED
  BY <1>3, <1>4, <1>5, <1>6, <1>7, <1>8, <1>9, <1>10, <1>11, <1>12 DEF Next, Worker

(* A chat's stamp is new, and no other step stores a turn.                 *)
LEMMA StampsStep ==
    TypeOK /\ WorkIsCurrent /\ StampsAreOrdered /\ [Next]_vars => StampsAreOrdered'
<1> SUFFICES ASSUME TypeOK, WorkIsCurrent, StampsAreOrdered, [Next]_vars
             PROVE  StampsAreOrdered'
  OBVIOUS
<1>1. clock' \in Nat /\ clock <= clock' /\ clock \in Nat
  <2>1. clock' = clock \/ clock' = clock + 1
    BY DEF Next, Worker, Tick, Chat, SaveSession, StartCycle, TakeGroup, CallLLMFails,
           Persist, PersistSentinelOverflow, LoadOwnRow, Commit, CommitFails, Crash, vars
  <2>2. clock \in Nat
    BY DEF TypeOK
  <2> QED
    BY <2>1, <2>2
<1>2. /\ \A g \in Groups : \A t \in turns'[g] : t <= clock'
      /\ \A g, h \in Groups : g # h => turns'[g] \cap turns'[h] = {}
  <2>1. CASE turns' = turns
    BY <1>1, <2>1 DEF StampsAreOrdered, TypeOK
  <2>2. ASSUME NEW g \in Groups, Chat(g)
        PROVE  /\ \A x \in Groups : \A t \in turns'[x] : t <= clock'
               /\ \A x, h \in Groups : x # h => turns'[x] \cap turns'[h] = {}
    <3>1. \A x \in Groups : turns'[x] = IF x = g THEN turns[g] \cup {clock'} ELSE turns[x]
      BY <2>2 DEF Chat, TypeOK
    <3>2. \A x \in Groups : clock' \notin turns[x]
      BY <2>2 DEF Chat, StampsAreOrdered, TypeOK
    <3>3. \A x \in Groups : \A t \in turns[x] : t <= clock'
      BY <1>1 DEF StampsAreOrdered, TypeOK
    <3>4. \A x \in Groups : \A t \in turns'[x] : t <= clock'
      BY <1>1, <3>1, <3>3
    <3>5. ASSUME NEW x \in Groups, NEW h \in Groups, x # h
          PROVE  turns'[x] \cap turns'[h] = {}
      <4>1. turns[x] \cap turns[h] = {}
        BY <3>5 DEF StampsAreOrdered
      <4> QED
        BY <3>1, <3>2, <3>5, <4>1
    <3> QED
      BY <3>4, <3>5
  <2> QED
    BY <2>1, <2>2 DEF Next, Worker, Tick, SaveSession, StartCycle, TakeGroup, CallLLMFails,
                      Persist, PersistSentinelOverflow, LoadOwnRow, Commit, CommitFails, Crash, vars
<1>3. \A q \in Pods : work'[q].now <= clock'
  <2> SUFFICES ASSUME NEW q \in Pods
               PROVE  work'[q].now <= clock'
    OBVIOUS
  <2>1. work[q].now <= clock' /\ work[q].now \in Nat
    BY <1>1 DEF StampsAreOrdered, TypeOK
  <2>2. ASSUME NEW p \in Pods, Persist(p) \/ PersistSentinelOverflow(p)
        PROVE  work'[q].now \in {clock, work[q].now}
    <3>1. PICK by \in {"worker", "sentinel"} : LoadOwnRow(p, by)
      BY <2>2, LoadSteps
    <3> QED
      BY <3>1 DEF LoadOwnRow, TypeOK
  <2>3. ASSUME NEW p \in Pods, TakeGroup(p)
        PROVE  work'[q].now \in {0, work[q].now}
    BY <2>3 DEF TakeGroup, TypeOK, Work, NULL
  <2>4. ASSUME NEW p \in Pods, work' = [work EXCEPT ![p] = NoWork]
        PROVE  work'[q].now \in {0, work[q].now}
    BY <2>4 DEF TypeOK, NoWork, Work, NULL
  <2> QED
    BY <1>1, <2>1, <2>2, <2>3, <2>4
    DEF Next, Worker, Tick, Chat, SaveSession, StartCycle, CallLLMFails,
        Commit, CommitFails, Crash, vars
<1>4. \A s \in Sessions : rows'[s] # None => rows'[s].at <= clock'
  <2> SUFFICES ASSUME NEW s \in Sessions, rows'[s] # None
               PROVE  rows'[s].at <= clock'
    OBVIOUS
  <2>1. CASE rows'[s] = rows[s]
    <3>1. rows[s].at \in Nat /\ rows[s].at <= clock
      BY <2>1 DEF StampsAreOrdered, TypeOK, SessionRows
    <3> QED
      BY <1>1, <2>1, <3>1
  <2>2. ASSUME NEW u \in Users, NEW x \in Sessions, SaveSession(u, x), rows'[s] # rows[s]
        PROVE  rows'[s].at <= clock'
    <3>1. \/ rows'[s] = Row(u, "client", NULL, {})
          \/ rows[s] # None /\ rows'[s] = Row(u, "client", rows[s].at, {})
      BY <2>2 DEF SaveSession, TypeOK
    <3>2. rows[s] # None => rows[s].at \in Nat /\ rows[s].at <= clock
      BY DEF StampsAreOrdered, TypeOK, SessionRows
    <3> QED
      BY <1>1, <3>1, <3>2 DEF Row, NULL
  <2>3. ASSUME NEW p \in Pods, Commit(p) \/ CommitFails(p), rows'[s] # rows[s]
        PROVE  rows'[s].at <= clock'
    <3>1. work[p].step \in {"insert", "update"} /\ ~ PkConflict(p) /\ rows' = Written(p)
      BY <2>3, StoreSteps
    <3>2. PICK by \in {"worker", "sentinel"} :
             rows' = [rows EXCEPT ![work[p].group.session] =
                        [owner |-> work[p].group.user, by |-> by,
                         at |-> work[p].now, covers |-> work[p].read]]
      BY <3>1, WrittenRow
    <3>3. rows'[s].at = work[p].now
      BY <2>3, <3>2 DEF TypeOK
    <3>4. work[p].now \in Nat /\ work[p].now <= clock
      BY DEF StampsAreOrdered, TypeOK
    <3> QED
      BY <1>1, <3>3, <3>4
  <2> QED
    BY <2>1, <2>2, <2>3 DEF Next, Worker, Tick, Chat, StartCycle, TakeGroup, CallLLMFails,
                            Persist, PersistSentinelOverflow, LoadOwnRow, Crash, vars
<1> QED
  BY <1>2, <1>3, <1>4 DEF StampsAreOrdered

(* What a step may do to the row of one session: a client empties it under *)
(* the stamp it had, or a worker writes its reading of one group of it.    *)
LEMMA RowSteps ==
    ASSUME TypeOK, WorkIsCurrent, [Next]_vars, NEW s \in Sessions, rows'[s] # rows[s]
    PROVE  /\ turns' = turns /\ late' = late
           /\ \/ rows'[s].covers = {}
              \/ \E p \in Pods :
                    /\ work[p].step # "none" /\ work[p].group.session = s
                    /\ rows'[s].owner = work[p].group.user
                    /\ rows'[s].covers = work[p].read
<1>1. ASSUME NEW u \in Users, NEW x \in Sessions, SaveSession(u, x)
      PROVE  rows'[s].covers = {} /\ turns' = turns /\ late' = late
  BY <1>1 DEF SaveSession, TypeOK, Row
<1>2. ASSUME NEW p \in Pods, Commit(p) \/ CommitFails(p)
      PROVE  /\ turns' = turns /\ late' = late
             /\ work[p].step # "none" /\ work[p].group.session = s
             /\ rows'[s].owner = work[p].group.user
             /\ rows'[s].covers = work[p].read
  <2>1. /\ work[p].step \in {"insert", "update"} /\ ~ PkConflict(p) /\ rows' = Written(p)
        /\ turns' = turns /\ late' = late
    BY <1>2, StoreSteps
  <2>2. PICK by \in {"worker", "sentinel"} :
           rows' = [rows EXCEPT ![work[p].group.session] =
                      [owner |-> work[p].group.user, by |-> by,
                       at |-> work[p].now, covers |-> work[p].read]]
    BY <2>1, WrittenRow
  <2>3. work[p].group.session = s
    BY <2>2 DEF TypeOK
  <2> QED
    BY <2>1, <2>2, <2>3 DEF TypeOK
<1>3. CASE UNCHANGED rows
  BY <1>3
<1> QED
  BY <1>1, <1>2, <1>3
  DEF Next, Worker, Tick, Chat, StartCycle, TakeGroup, CallLLMFails, Persist, PersistSentinelOverflow, LoadOwnRow, Crash, vars

(* Turns are never taken from a group.                                     *)
LEMMA TurnsGrow ==
    ASSUME TypeOK, [Next]_vars, NEW g \in Groups
    PROVE  turns[g] \subseteq turns'[g]
  BY DEF TypeOK, Next, Worker, Tick, Chat, SaveSession, StartCycle, TakeGroup, CallLLMFails,
         Persist, PersistSentinelOverflow, LoadOwnRow, Commit, CommitFails, Crash, vars

(* A summary stays one of its owner's turns.                               *)
LEMMA SummaryStep ==
    TypeOK /\ WorkIsCurrent /\ SummaryIsOwn /\ [Next]_vars => SummaryIsOwn'
<1> SUFFICES ASSUME TypeOK, WorkIsCurrent, SummaryIsOwn, [Next]_vars,
                    NEW s \in Sessions, rows'[s] # None
             PROVE  \A t \in rows'[s].covers :
                       \E h \in Groups : /\ h.user = rows'[s].owner /\ h.session = s
                                         /\ t \in turns'[h]
  BY DEF SummaryIsOwn, TurnsOf
<1>1. CASE rows'[s] = rows[s]
  BY <1>1, TurnsGrow DEF SummaryIsOwn, TurnsOf
<1>2. CASE rows'[s] # rows[s]
  <2>1. CASE rows'[s].covers = {}
    BY <2>1
  <2>2. CASE rows'[s].covers # {}
    <3>1. PICK p \in Pods : /\ work[p].step # "none" /\ work[p].group.session = s
                            /\ rows'[s].owner = work[p].group.user
                            /\ rows'[s].covers = work[p].read
      BY <1>2, <2>2, RowSteps
    <3>2. work[p].group \in Groups /\ work[p].read \subseteq turns[work[p].group]
      BY <3>1 DEF WorkIsCurrent
    <3> QED
      BY <3>1, <3>2, TurnsGrow
  <2> QED
    BY <2>1, <2>2
<1> QED
  BY <1>1, <1>2

(* A new summary misses only late turns, and a new turn is newer than any  *)
(* stamp.                                                                  *)
LEMMA MissedStep ==
    /\ TypeOK /\ WorkIsCurrent /\ StampsAreOrdered /\ SummaryIsOwn /\ MissedIsLate
    /\ [Next]_vars
    => MissedIsLate'
<1> SUFFICES ASSUME TypeOK, WorkIsCurrent, StampsAreOrdered, SummaryIsOwn, MissedIsLate, [Next]_vars,
                    NEW g \in Groups,
                    rows'[g.session] # None, rows'[g.session].owner = g.user,
                    rows'[g.session].covers \cap turns'[g] # {},
                    NEW t \in turns'[g] \ rows'[g.session].covers,
                    t <= rows'[g.session].at
             PROVE  t \in late'
  BY DEF MissedIsLate, OwnRow
<1>1. g.session \in Sessions
  BY GroupsAssumption
<1>2. CASE rows'[g.session] = rows[g.session]
  <2>1. rows[g.session].at \in Nat /\ rows[g.session].at <= clock
    BY <1>1, <1>2 DEF StampsAreOrdered, TypeOK, SessionRows
  <2>2. late \subseteq late'
    BY DEF Next, Worker, Tick, Chat, SaveSession, StartCycle, TakeGroup, CallLLMFails,
           Persist, PersistSentinelOverflow, LoadOwnRow, Commit, CommitFails, Crash, vars
  <2>3. CASE turns'[g] = turns[g]
    BY <1>2, <2>2, <2>3 DEF MissedIsLate, OwnRow
  <2>4. CASE turns'[g] # turns[g]
    <3>1. Chat(g)
      <4>1. PICK h \in Groups : Chat(h)
        BY <2>4 DEF Next, Worker, Tick, SaveSession, StartCycle, TakeGroup,
                    CallLLMFails, Persist, PersistSentinelOverflow, LoadOwnRow, Commit, CommitFails, Crash, vars
      <4>2. turns' = [turns EXCEPT ![h] = @ \cup {clock'}]
        BY <4>1 DEF Chat
      <4>3. h = g
        BY <2>4, <4>2 DEF TypeOK
      <4> QED
        BY <4>1, <4>3
    <3>2. turns'[g] = turns[g] \cup {clock'} /\ clock' = clock + 1 /\ clock \in Nat
      BY <3>1 DEF Chat, TypeOK
    <3>3. \A x \in {clock'} : ~ (x <= rows[g.session].at)
      BY <2>1, <3>2
    <3>4. t \in turns[g]
      BY <1>2, <3>2, <3>3
    <3>5. clock' \notin rows[g.session].covers
      BY <1>1, <1>2, <3>2 DEF SummaryIsOwn, TurnsOf, StampsAreOrdered, TypeOK
    <3>6. rows[g.session].covers \cap turns[g] # {}
      BY <1>2, <3>2, <3>5
    <3> QED
      BY <1>2, <2>2, <3>4, <3>6 DEF MissedIsLate, OwnRow
  <2> QED
    BY <2>3, <2>4
<1>3. CASE rows'[g.session] # rows[g.session]
  <2>1. turns' = turns /\ late' = late
    BY <1>1, <1>3, RowSteps
  <2>2. PICK p \in Pods : /\ work[p].step # "none" /\ work[p].group.session = g.session
                          /\ rows'[g.session].covers = work[p].read
    BY <1>1, <1>3, RowSteps
  <2>3. /\ work[p].group \in Groups /\ work[p].read \subseteq turns[work[p].group]
        /\ turns[work[p].group] \ work[p].read \subseteq late
    BY <2>2 DEF WorkIsCurrent
  <2>4. work[p].group = g
    BY <2>1, <2>2, <2>3 DEF StampsAreOrdered
  <2> QED
    BY <2>1, <2>2, <2>3, <2>4
<1> QED
  BY <1>2, <1>3

-----------------------------------------------------------------------------
(* The invariant, and what follows from it.                                *)
Inv == TypeOK /\ WorkIsCurrent /\ StampsAreOrdered /\ SummaryIsOwn /\ MissedIsLate

LEMMA Invariance == Spec => []Inv
<1>1. Init => Inv
  BY InitHolds DEF Inv
<1>2. Inv /\ [Next]_vars => Inv'
  BY TypeStep, WorkStep, StampsStep, SummaryStep, MissedStep DEF Inv
<1> QED
  BY <1>1, <1>2, PTL DEF Spec

(* The tables and the workers keep their types.                            *)
THEOREM TypeCorrect == Spec => []TypeOK
<1>1. Inv => TypeOK
  BY DEF Inv
<1> QED
  BY <1>1, Invariance, PTL

(* No summary holds a turn of another user, whatever the workers of any    *)
(* number of pods and the clients do to a session id they share.           *)
THEOREM SummariesAreOwn == Spec => []SummaryIsOwn
<1>1. Inv => SummaryIsOwn
  BY DEF Inv
<1> QED
  BY <1>1, Invariance, PTL

(* A turn that a summary skips for good came while a worker held its group.*)
THEOREM OnlyLateTurnsMissed == Spec => []MissedIsLate
<1>1. Inv => MissedIsLate
  BY DEF Inv
<1> QED
  BY <1>1, Invariance, PTL

(* A sessions row never changes hands and is never removed.                *)
THEOREM OwnersAreFinal == Spec => OwnerIsFinal
<1>1. Inv /\ [Next]_vars => [\A s \in Sessions : rows[s] # None =>
                               rows'[s] # None /\ rows'[s].owner = rows[s].owner]_vars
  BY OwnerStep DEF Inv
<1> QED
  BY <1>1, Invariance, PTL DEF Spec, OwnerIsFinal
=============================================================================
