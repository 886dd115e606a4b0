-------------------------- MODULE MemoryItemsProofs -------------------------
(***************************************************************************)
(* Theorems about MemoryItems, for any users, admins and requests.         *)
(***************************************************************************)
EXTENDS MemoryItemsProperties, TLAPS

\* What no step does to the manifest: remove a row, give it to another tier or
\* user, insert a row at the bare key or bring one back there.
Kept ==
  /\ \A k \in Keys : rows[k] # None =>
       /\ rows'[k] # None
       /\ rows'[k].tier = rows[k].tier /\ rows'[k].owner = rows[k].owner
  /\ rows'[Bare] # None => rows[Bare] # None /\ (rows'[Bare].live => rows[Bare].live)

USE DEF At, User

(* The initial state satisfies the invariant.                              *)
LEMMA InitInv == Init => Inv
<1> SUFFICES ASSUME Init PROVE Inv
  OBVIOUS
<1>. USE UsersAssumption, FaultsAssumption, NoneAssumption
<1>1. PICK bare \in {None} \cup {r \in Row : r.live /\ r.doc = Old} :
        /\ rows = [k \in Keys |-> IF k = Bare THEN bare ELSE None]
        /\ content = [u \in Users |->
             IF bare # None /\ bare.tier = "private" /\ bare.owner = u THEN Old ELSE None]
  BY DEF Init
<1>2. Idle \in ReqRecords
  BY DEF Idle, ReqRecords, Steps, Plan
<1>3. TypeOK
  <2>1. rows \in [Keys -> Row \cup {None}]
    BY <1>1
  <2>2. content \in [Users -> Contents \cup {None}]
    BY <1>1 DEF Contents
  <2> QED
    BY <1>2, <2>1, <2>2 DEF Init, TypeOK
<1>4. OneHome
  BY <1>1 DEF OneHome, Keys
<1>5. PlanHolds /\ CopyAnnounced /\ AuditInOrder /\ ConfirmedIsAudited
  BY DEF Init, Idle, PlanHolds, CopyAnnounced, AuditInOrder, ConfirmedIsAudited
<1>6. ContentStands
  <2>1. \A q \in Requests : At(q, "idle") /\ req[q].op = None
    BY DEF Init, Idle
  <2>2. \A u \in Users : rows[u] = None /\ (Left(u) => content[u] # None)
    BY <1>1 DEF Left, Keys, Contents
  <2> QED
    BY <2>1, <2>2 DEF ContentStands
<1> QED
  BY <1>3, <1>4, <1>5, <1>6 DEF Inv

(* A transaction that commits keeps the manifest in order.                 *)
LEMMA CommitKeeps ==
  ASSUME Inv, NEW q \in Requests, At(q, "commit"), ~Taken(q), rows' = Applied(q)
  PROVE  rows' \in [Keys -> Row \cup {None}] /\ Kept /\ OneHome'
<1>. USE UsersAssumption, NoneAssumption
<1> DEFINE u == req[q].user
           k == req[q].key
           do == req[q].do
<1>1. /\ rows \in [Keys -> Row \cup {None}] /\ u \in Users /\ k \in Keys
      /\ k = u \/ k = Bare
      /\ do \in {"stamp", "revive", "insert", "copy", "bury", "keep"}
  BY DEF Inv, TypeOK, PlanHolds, Plan, ReqRecords, Keys
<1>2. /\ do \notin {"insert", "copy"} => rows[k] \in Row
      /\ do \in {"insert", "copy"} => k = u /\ rows[k] = None
      /\ do = "insert" => ~(Left(u) /\ rows[Bare].live)
      /\ do = "copy" => Left(u) /\ rows[Bare] \in Row
      /\ do = "revive" => k = u
  BY <1>1 DEF Inv, PlanHolds, Taken, Left, Keys
<1>3. OwnRow(q) \in Row /\ OwnRow(q).owner = u
  BY <1>1 DEF OwnRow, Row, Contents
<1>4. OneHome
  BY DEF Inv
<1>5. CASE do = "stamp"
  <2>1. rows' = [rows EXCEPT ![k].doc = q]
    BY <1>5 DEF Applied
  <2>2. [rows[k] EXCEPT !.doc = q] \in Row
    BY <1>1, <1>2, <1>5 DEF Row, Contents
  <2>3. rows' \in [Keys -> Row \cup {None}]
    BY <1>1, <2>1, <2>2
  <2>4. \A j \in Keys : j # k => rows'[j] = rows[j]
    BY <1>1, <2>1
  <2>5. /\ rows'[k] = [rows[k] EXCEPT !.doc = q]
        /\ rows'[k].tier = rows[k].tier /\ rows'[k].owner = rows[k].owner
        /\ rows'[k].live = rows[k].live /\ rows[k] # None /\ rows'[k] # None
    BY <1>1, <1>2, <1>5, <2>1, <2>2 DEF Row
  <2>6. Kept
    BY <2>4, <2>5 DEF Kept, Keys
  <2>7. /\ \A v \in Users : rows'[v] # None => rows[v] # None
        /\ rows'[Bare] # None => rows[Bare] # None /\ rows'[Bare].live = rows[Bare].live
        /\ rows[Bare] # None => rows'[Bare].tier = rows[Bare].tier /\ rows'[Bare].owner = rows[Bare].owner
    BY <2>4, <2>5 DEF Keys
  <2>8. OneHome'
    BY <1>4, <2>7 DEF OneHome, Left
  <2> QED
    BY <2>3, <2>6, <2>8
<1>6. CASE do = "revive"
  <2>1. rows' = [rows EXCEPT ![k].doc = q, ![k].live = TRUE]
    BY <1>6 DEF Applied
  <2>2. [rows[k] EXCEPT !.doc = q, !.live = TRUE] \in Row
    BY <1>1, <1>2, <1>6 DEF Row, Contents
  <2>3. rows' = [rows EXCEPT ![k] = [rows[k] EXCEPT !.doc = q, !.live = TRUE]]
    BY <1>1, <2>1
  <2>4. rows' \in [Keys -> Row \cup {None}]
    BY <1>1, <2>2, <2>3
  <2>5. \A j \in Keys : j # k => rows'[j] = rows[j]
    BY <1>1, <2>3
  <2>6. /\ rows'[k].tier = rows[k].tier /\ rows'[k].owner = rows[k].owner
        /\ rows[k] # None /\ rows'[k] # None /\ k # Bare
    <3>1. rows[k] \in Row /\ rows'[k] = [rows[k] EXCEPT !.doc = q, !.live = TRUE]
      BY <1>1, <1>2, <1>6, <2>3
    <3>2. rows'[k].tier = rows[k].tier /\ rows'[k].owner = rows[k].owner
      BY <3>1 DEF Row
    <3> QED
      BY <1>1, <1>2, <1>6, <2>2, <3>1, <3>2
  <2>7. Kept
    BY <2>5, <2>6 DEF Kept, Keys
  <2>8. OneHome'
    BY <1>4, <2>5, <2>6 DEF OneHome, Left, Keys
  <2> QED
    BY <2>4, <2>7, <2>8
<1>7. CASE do = "insert"
  <2>1. rows' = [rows EXCEPT ![k] = OwnRow(q)]
    BY <1>7 DEF Applied
  <2>2. rows' \in [Keys -> Row \cup {None}]
    BY <1>1, <1>3, <2>1
  <2>3. \A j \in Keys : j # k => rows'[j] = rows[j]
    BY <1>1, <2>1
  <2>4. k = u /\ rows[k] = None /\ k # Bare /\ ~(Left(u) /\ rows[Bare].live)
    BY <1>1, <1>2, <1>7
  <2>5. Kept
    BY <2>3, <2>4 DEF Kept, Keys
  <2>6. OneHome'
    BY <1>4, <2>3, <2>4 DEF OneHome, Left, Keys
  <2> QED
    BY <2>2, <2>5, <2>6
<1>8. CASE do = "copy"
  <2>1. rows' = [rows EXCEPT ![k] = OwnRow(q), ![Bare].live = FALSE]
    BY <1>8 DEF Applied
  <2>2. k = u /\ rows[k] = None /\ k # Bare /\ rows[Bare] \in Row /\ Bare \in Keys
    BY <1>1, <1>2, <1>8 DEF Keys
  <2>3. rows' = [j \in Keys |-> IF j = k THEN OwnRow(q)
                                ELSE IF j = Bare THEN [rows[Bare] EXCEPT !.live = FALSE]
                                ELSE rows[j]]
    BY <1>1, <2>1, <2>2
  <2>4. [rows[Bare] EXCEPT !.live = FALSE] \in Row
    BY <2>2 DEF Row
  <2>5. rows' \in [Keys -> Row \cup {None}]
    BY <1>1, <1>3, <2>3, <2>4
  <2>6. /\ \A j \in Keys : j # k /\ j # Bare => rows'[j] = rows[j]
        /\ rows'[Bare].tier = rows[Bare].tier /\ rows'[Bare].owner = rows[Bare].owner
        /\ ~rows'[Bare].live /\ rows'[Bare] # None /\ rows[Bare] # None
    BY <2>2, <2>3, <2>4 DEF Row
  <2>7. Kept
    BY <2>2, <2>6 DEF Kept, Keys
  <2>8. OneHome'
    BY <2>6 DEF OneHome
  <2> QED
    BY <2>5, <2>7, <2>8
<1>9. CASE do = "bury"
  <2>1. rows' = [rows EXCEPT ![k].live = FALSE]
    BY <1>9 DEF Applied
  <2>2. [rows[k] EXCEPT !.live = FALSE] \in Row
    BY <1>2, <1>9 DEF Row
  <2>3. rows' \in [Keys -> Row \cup {None}]
    BY <1>1, <2>1, <2>2
  <2>4. \A j \in Keys : j # k => rows'[j] = rows[j]
    BY <1>1, <2>1
  <2>5. /\ rows'[k].tier = rows[k].tier /\ rows'[k].owner = rows[k].owner
        /\ ~rows'[k].live /\ rows[k] # None /\ rows'[k] # None
    BY <1>1, <1>2, <1>9, <2>1, <2>2 DEF Row
  <2>6. Kept
    BY <2>4, <2>5 DEF Kept, Keys
  <2>7. OneHome'
    BY <1>4, <2>4, <2>5 DEF OneHome, Left, Keys
  <2> QED
    BY <2>3, <2>6, <2>7
<1>10. CASE do = "keep"
  <2>1. rows' = rows
    BY <1>10 DEF Applied
  <2> QED
    BY <1>1, <1>4, <2>1 DEF Kept, OneHome, Left, Keys
<1> QED
  BY <1>1, <1>5, <1>6, <1>7, <1>8, <1>9, <1>10

(* Every step keeps the manifest in order.                                 *)
LEMMA RowsStep ==
  ASSUME Inv, [Next]_vars
  PROVE  rows' \in [Keys -> Row \cup {None}] /\ Kept /\ OneHome'
<1>1. CASE rows' = rows
  BY <1>1 DEF Inv, TypeOK, Kept, OneHome, Left
<1>2. ASSUME NEW q \in Requests, Commit(q)
      PROVE  rows' \in [Keys -> Row \cup {None}] /\ Kept /\ OneHome'
  BY <1>2, CommitKeeps DEF Commit
<1>3. ASSUME NEW q \in Requests, CommitFails(q)
      PROVE  rows' \in [Keys -> Row \cup {None}] /\ Kept /\ OneHome'
  <2>1. rows' = rows \/ (~Taken(q) /\ rows' = Applied(q))
    BY <1>3 DEF CommitFails
  <2> QED
    BY <1>1, <1>3, <2>1, CommitKeeps DEF CommitFails
<1> QED
  BY <1>1, <1>2, <1>3 DEF Next, vars, Begin, Authorize, Put, Source, ResolveCreate,
     ResolveUpdate, ResolveDelete, CommitConflicts, Purge, Audit, AuditCopy, AuditDelete, PutFails,
     PurgeFails, AuditFails, Cut

(* What a request's move leaves alone.                                     *)
LEMMA GoesTo ==
  ASSUME TypeOK, NEW q \in Requests, NEW step \in Steps, Goes(q, step)
  PROVE  /\ req' \in [Requests -> ReqRecords]
         /\ \A p \in Requests \ {q} : req'[p] = req[p]
         /\ req'[q].at = step
         /\ req'[q].user = req[q].user /\ req'[q].op = req[q].op /\ req'[q].do = req[q].do
         /\ req'[q].key = req[q].key /\ req'[q].copied = req[q].copied
<1>1. req' = [req EXCEPT ![q].at = step] /\ req \in [Requests -> ReqRecords]
  BY DEF Goes, TypeOK
<1>2. [req[q] EXCEPT !.at = step] \in ReqRecords
  BY <1>1 DEF ReqRecords, Plan
<1>3. req' = [req EXCEPT ![q] = [req[q] EXCEPT !.at = step]]
  BY <1>1
<1>4. req'[q] = [req[q] EXCEPT !.at = step] /\ req[q] \in ReqRecords
  BY <1>1, <1>3
<1>5. /\ req'[q].at = step
      /\ req'[q].user = req[q].user /\ req'[q].op = req[q].op /\ req'[q].do = req[q].do
      /\ req'[q].key = req[q].key /\ req'[q].copied = req[q].copied
  BY <1>4 DEF ReqRecords, Plan
<1> QED
  BY <1>1, <1>2, <1>3, <1>5

(* What a resolved request plans.                                          *)
LEMMA PlansTo ==
  ASSUME TypeOK, NEW q \in Requests, NEW do \in {"stamp", "revive", "insert", "copy", "bury", "keep"},
         NEW key \in Keys, Plans(q, do, key)
  PROVE  /\ req' \in [Requests -> ReqRecords]
         /\ \A p \in Requests \ {q} : req'[p] = req[p]
         /\ req'[q].at = "commit" /\ req'[q].do = do /\ req'[q].key = key
         /\ req'[q].user = req[q].user /\ req'[q].op = req[q].op
         /\ req'[q].copied = req[q].copied
<1> DEFINE r1 == [req[q] EXCEPT !.at = "commit"]
           r2 == [r1 EXCEPT !.do = do]
           r3 == [r2 EXCEPT !.key = key]
<1>1. req \in [Requests -> ReqRecords] /\ req[q] \in ReqRecords
  BY DEF TypeOK
<1>2. /\ r1 \in ReqRecords /\ r1.at = "commit"
      /\ r1.user = req[q].user /\ r1.op = req[q].op /\ r1.copied = req[q].copied
  BY <1>1 DEF ReqRecords, Plan, Steps
<1>3. req' = [req EXCEPT ![q] = r3]
  BY <1>1 DEF Plans
<1> HIDE DEF r1
<1>4. /\ r2 \in ReqRecords /\ r2.at = "commit" /\ r2.do = do
      /\ r2.user = req[q].user /\ r2.op = req[q].op /\ r2.copied = req[q].copied
  BY <1>2 DEF ReqRecords, Plan
<1> HIDE DEF r2
<1>5. /\ r3 \in ReqRecords /\ r3.at = "commit" /\ r3.do = do /\ r3.key = key
      /\ r3.user = req[q].user /\ r3.op = req[q].op /\ r3.copied = req[q].copied
  BY <1>4 DEF ReqRecords, Plan
<1> HIDE DEF r3
<1> QED
  BY <1>1, <1>3, <1>5

(* What a request begins as.                                               *)
LEMMA BeginsAs ==
  ASSUME TypeOK, NEW q \in Requests, NEW u \in Users, NEW op \in Ops, Begin(q, u, op)
  PROVE  /\ req' \in [Requests -> ReqRecords]
         /\ \A p \in Requests \ {q} : req'[p] = req[p]
         /\ req'[q].at = IF op = "upload" THEN "put" ELSE "authorize"
         /\ req'[q].user = u /\ req'[q].op = op /\ req'[q].do = None /\ ~req'[q].copied
<1> DEFINE step == IF op = "upload" THEN "put" ELSE "authorize"
           r1 == [Idle EXCEPT !.user = u]
           r2 == [r1 EXCEPT !.op = op]
           r3 == [r2 EXCEPT !.at = step]
<1>1. Idle \in ReqRecords /\ Idle.do = None /\ ~Idle.copied
  BY DEF Idle, ReqRecords, Steps
<1>2. req' = [req EXCEPT ![q] = r3]
  BY DEF Begin
<1>3. r1 \in ReqRecords /\ r1.user = u /\ r1.do = None /\ ~r1.copied
  BY <1>1 DEF ReqRecords, Plan
<1> HIDE DEF r1
<1>4. r2 \in ReqRecords /\ r2.user = u /\ r2.op = op /\ r2.do = None /\ ~r2.copied
  BY <1>3 DEF ReqRecords, Plan
<1> HIDE DEF r2
<1>5. step \in Steps
  BY DEF Steps
<1>6. /\ r3 \in ReqRecords /\ r3.at = step
      /\ r3.user = u /\ r3.op = op /\ r3.do = None /\ ~r3.copied
  BY <1>4, <1>5 DEF ReqRecords, Plan
<1> HIDE DEF r3
<1> QED
  BY <1>2, <1>6 DEF TypeOK

(* What a request that asked for its source knows.                         *)
LEMMA SourceKnows ==
  ASSUME TypeOK, NEW q \in Requests, Source(q)
  PROVE  /\ req' \in [Requests -> ReqRecords]
         /\ \A p \in Requests \ {q} : req'[p] = req[p]
         /\ req'[q].at = "resolve"
         /\ req'[q].user = req[q].user /\ req'[q].op = req[q].op /\ req'[q].do = req[q].do
         /\ req'[q].copied =
              (rows[User(q)] = None /\ LegacyOf(rows[Bare], User(q)) /\ rows[Bare].live)
<1> DEFINE c == rows[User(q)] = None /\ LegacyOf(rows[Bare], User(q)) /\ rows[Bare].live
           r1 == [req[q] EXCEPT !.at = "resolve"]
           r2 == [r1 EXCEPT !.copied = c]
<1>1. req \in [Requests -> ReqRecords] /\ req[q] \in ReqRecords
  BY DEF TypeOK
<1>2. rows[Bare] = None \/ rows[Bare] \in Row
  BY DEF TypeOK, Keys
<1>3. c \in BOOLEAN
  BY <1>2 DEF LegacyOf, Row
<1>4. req' = [req EXCEPT ![q] = r2]
  BY <1>1 DEF Source
<1> HIDE DEF c
<1>5. /\ r1 \in ReqRecords /\ r1.at = "resolve"
      /\ r1.user = req[q].user /\ r1.op = req[q].op /\ r1.do = req[q].do
  BY <1>1 DEF ReqRecords, Plan, Steps
<1> HIDE DEF r1
<1>6. /\ r2 \in ReqRecords /\ r2.at = "resolve" /\ r2.copied = c
      /\ r2.user = req[q].user /\ r2.op = req[q].op /\ r2.do = req[q].do
  BY <1>3, <1>5 DEF ReqRecords, Plan
<1> HIDE DEF r2
<1>7. /\ req' \in [Requests -> ReqRecords]
      /\ \A p \in Requests \ {q} : req'[p] = req[p]
      /\ req'[q] = r2
  BY <1>1, <1>4, <1>6
<1> QED
  BY <1>6, <1>7 DEF c

(* Types are kept.                                                         *)
LEMMA TypeStep == ASSUME Inv, [Next]_vars PROVE TypeOK'
<1>. USE FaultsAssumption
<1> DEFINE Rest == /\ content \in [Users -> Contents \cup {None}]
                   /\ req \in [Requests -> ReqRecords]
                   /\ audit \in [Requests -> SUBSET {"write", "delete"}]
                   /\ faults \in Nat
<1>1. TypeOK
  BY DEF Inv
<1>2. \A q \in Requests : req[q].at # "idle" => req[q].user \in Users
  BY DEF Inv, PlanHolds
<1>3. Fault => faults' \in Nat
  BY <1>1 DEF TypeOK, Fault
<1>4. ASSUME NEW q \in Requests, NEW step \in Steps, Goes(q, step)
      PROVE  req' \in [Requests -> ReqRecords]
  BY <1>1, <1>4, GoesTo
<1>5. ASSUME NEW q \in Requests, NEW do \in Plan, NEW key \in Keys, Plans(q, do, key)
      PROVE  req' \in [Requests -> ReqRecords]
  BY <1>1, <1>5, PlansTo DEF Plan
<1>6. \A q \in Requests : At(q, "resolve") => User(q) \in Keys
  BY <1>2 DEF Keys
<1>7. ASSUME NEW q \in Requests, At(q, "put") \/ At(q, "purge"),
             content' \in {content, [content EXCEPT ![User(q)] = q], [content EXCEPT ![User(q)] = None]}
      PROVE  content' \in [Users -> Contents \cup {None}]
  <2>1. content \in [Users -> Contents \cup {None}] /\ User(q) \in Users /\ q \in Contents
    BY <1>1, <1>2, <1>7 DEF TypeOK, Contents
  <2> QED
    BY <1>7, <2>1
<1>8. Rest'
  <2>1. CASE UNCHANGED vars
    BY <1>1, <2>1 DEF TypeOK, vars
  <2>2. ASSUME NEW q \in Requests, NEW u \in Users, NEW op \in Ops, Begin(q, u, op) PROVE Rest'
    BY <1>1, <2>2, BeginsAs DEF TypeOK, Begin
  <2>3. ASSUME NEW q \in Requests, Source(q) PROVE Rest'
    BY <1>1, <2>3, SourceKnows DEF TypeOK, Source
  <2>4. ASSUME NEW q \in Requests, Authorize(q) PROVE Rest'
    BY <1>1, <1>3, <1>4, <2>4 DEF TypeOK, Authorize, Steps, Replies
  <2>5. ASSUME NEW q \in Requests, Put(q) PROVE Rest'
    <3>1. content' \in [Users -> Contents \cup {None}]
      BY <1>7, <2>5 DEF Put
    <3>2. req' \in [Requests -> ReqRecords]
      BY <1>4, <2>5 DEF Put, Steps, Replies
    <3> QED
      BY <1>1, <1>3, <2>5, <3>1, <3>2 DEF TypeOK, Put
  <2>6. ASSUME NEW q \in Requests, Commit(q) PROVE Rest'
    BY <1>1, <1>3, <1>4, <2>6 DEF TypeOK, Commit, Steps, Replies
  <2>7. ASSUME NEW q \in Requests, CommitConflicts(q) PROVE Rest'
    BY <1>1, <1>3, <1>4, <2>7 DEF TypeOK, CommitConflicts, Steps, Replies
  <2>8. ASSUME NEW q \in Requests, Purge(q) PROVE Rest'
    <3>1. content' \in [Users -> Contents \cup {None}]
      BY <1>7, <2>8 DEF Purge
    <3>2. req' \in [Requests -> ReqRecords]
      BY <1>4, <2>8 DEF Purge, Steps, Replies
    <3> QED
      BY <1>1, <1>3, <2>8, <3>1, <3>2 DEF TypeOK, Purge
  <2>9. ASSUME NEW q \in Requests, Audit(q) PROVE Rest'
    BY <1>1, <1>3, <1>4, <2>9 DEF TypeOK, Audit, Steps, Replies
  <2>20. ASSUME NEW q \in Requests, AuditDelete(q) PROVE Rest'
    BY <1>1, <1>3, <1>4, <2>20 DEF TypeOK, AuditDelete, Steps, Replies
  <2>10. ASSUME NEW q \in Requests, AuditCopy(q) PROVE Rest'
    BY <1>1, <1>3, <1>4, <2>10 DEF TypeOK, AuditCopy, Steps, Replies
  <2>11. ASSUME NEW q \in Requests, PutFails(q) PROVE Rest'
    <3>1. content' \in [Users -> Contents \cup {None}]
      BY <1>7, <2>11 DEF PutFails
    <3>2. req' \in [Requests -> ReqRecords]
      BY <1>4, <2>11 DEF PutFails, Steps, Replies
    <3> QED
      BY <1>1, <1>3, <2>11, <3>1, <3>2 DEF TypeOK, PutFails
  <2>12. ASSUME NEW q \in Requests, CommitFails(q) PROVE Rest'
    BY <1>1, <1>3, <1>4, <2>12 DEF TypeOK, CommitFails, Steps, Replies
  <2>13. ASSUME NEW q \in Requests, PurgeFails(q) PROVE Rest'
    <3>1. content' \in [Users -> Contents \cup {None}]
      BY <1>7, <2>13 DEF PurgeFails
    <3>2. req' \in [Requests -> ReqRecords]
      BY <1>4, <2>13 DEF PurgeFails, Steps, Replies
    <3> QED
      BY <1>1, <1>3, <2>13, <3>1, <3>2 DEF TypeOK, PurgeFails
  <2>14. ASSUME NEW q \in Requests, AuditFails(q) PROVE Rest'
    BY <1>1, <1>3, <1>4, <2>14 DEF TypeOK, AuditFails, Steps, Replies
  <2>15. ASSUME NEW q \in Requests, Cut(q) PROVE Rest'
    BY <1>1, <1>3, <1>4, <2>15 DEF TypeOK, Cut, Steps, Replies
  <2>16. ASSUME NEW q \in Requests, ResolveCreate(q) PROVE Rest'
    BY <1>1, <1>4, <1>5, <1>6, <2>16 DEF TypeOK, ResolveCreate, Steps, Replies, Plan, Keys, ReadKey
  <2>17. ASSUME NEW q \in Requests, ResolveUpdate(q) PROVE Rest'
    BY <1>1, <1>4, <1>5, <1>6, <2>17 DEF TypeOK, ResolveUpdate, Steps, Replies, Plan, Keys, ReadKey
  <2>18. ASSUME NEW q \in Requests, ResolveDelete(q) PROVE Rest'
    BY <1>1, <1>4, <1>5, <1>6, <2>18 DEF TypeOK, ResolveDelete, Steps, Replies, Plan, Keys, ReadKey
  <2> QED
    BY <2>1, <2>2, <2>3, <2>4, <2>5, <2>6, <2>7, <2>8, <2>9, <2>10, <2>11, <2>12, <2>13, <2>14, <2>15, <2>16, <2>17, <2>18,
       <2>20 DEF Next
<1> QED
  BY <1>8, RowsStep DEF TypeOK

----------------------------------------------------------------------------
Writes(q) == req[q].op \in {"create", "update"}

\* A request that is under way goes on to a step other than its commit, and
\* has audited what it must.
OnwardTo(q, step) ==
  /\ ~At(q, "idle")
  /\ Goes(q, step)
  /\ step = "put" => Writes(q)
  /\ step = "source" => At(q, "put") /\ req[q].op # "upload" /\ content'[User(q)] # None
  /\ step = "resolve" => ~Writes(q)
  /\ step \in {"purge", "audit"} => req[q].at \in {"commit", "purge"}
  /\ step = "purge" => req[q].op = "purge"
  /\ step = "audit copy" => (Writes(q) => "write" \in audit'[q])
  /\ step = "ok" =>
       \/ req[q].op = "upload"
       \/ At(q, "audit") /\ ~req[q].copied /\ (IF Writes(q) THEN "write" ELSE "delete") \in audit'[q]
       \/ At(q, "audit copy") /\ "delete" \in audit'[q] /\ audit[q] \subseteq audit'[q]

Onward(q) == \E step \in Steps \ {"idle", "commit"} : OnwardTo(q, step)

\* Audit rows stay, and a step writes those of one request.
AuditGrows(q) ==
  /\ audit[q] \subseteq audit'[q]
  /\ \A p \in Requests \ {q} : audit'[p] = audit[p]

(* A step begins a request, finds its source, resolves it, or moves it on. *)
LEMMA StepKinds ==
  ASSUME Inv, Next
  PROVE  \E q \in Requests :
           \/ \E u \in Users, op \in Ops : Begin(q, u, op)
           \/ Source(q) \/ ResolveCreate(q) \/ ResolveUpdate(q) \/ ResolveDelete(q)
           \/ Onward(q) /\ AuditGrows(q)
<1>. USE DEF AuditGrows, Writes, Replies
<1>0. audit \in [Requests -> SUBSET {"write", "delete"}]
  BY DEF Inv, TypeOK
<1>1. ASSUME NEW q \in Requests, Authorize(q) PROVE Onward(q) /\ AuditGrows(q)
  <2>1. OnwardTo(q, "refused") \/ OnwardTo(q, "put") \/ OnwardTo(q, "resolve")
    BY <1>0, <1>1 DEF Authorize, OnwardTo
  <2>2. AuditGrows(q)
    BY <1>0, <1>1 DEF Authorize
  <2> QED
    BY <2>1, <2>2 DEF Onward, Steps
<1>2. ASSUME NEW q \in Requests, Put(q) PROVE Onward(q) /\ AuditGrows(q)
  <2>1. content'[User(q)] # None
    <3>1. User(q) \in Users /\ q \in Contents /\ content \in [Users -> Contents \cup {None}]
      BY <1>2 DEF Put, Inv, PlanHolds, TypeOK, Contents
    <3> QED
      BY <1>2, <3>1, NoneAssumption DEF Put
  <2>3. OnwardTo(q, "source") \/ OnwardTo(q, "ok")
    BY <1>0, <1>2, <2>1 DEF Put, OnwardTo
  <2>2. AuditGrows(q)
    BY <1>0, <1>2 DEF Put
  <2> QED
    BY <2>2, <2>3 DEF Onward, Steps
<1>3. ASSUME NEW q \in Requests, Commit(q) PROVE Onward(q) /\ AuditGrows(q)
  <2>1. OnwardTo(q, "purge") \/ OnwardTo(q, "audit")
    BY <1>0, <1>3 DEF Commit, OnwardTo
  <2>2. AuditGrows(q)
    BY <1>0, <1>3 DEF Commit
  <2> QED
    BY <2>1, <2>2 DEF Onward, Steps
<1>4. ASSUME NEW q \in Requests, CommitConflicts(q) PROVE Onward(q) /\ AuditGrows(q)
  <2>1. OnwardTo(q, "conflict")
    BY <1>0, <1>4 DEF CommitConflicts, OnwardTo
  <2>2. AuditGrows(q)
    BY <1>0, <1>4 DEF CommitConflicts
  <2> QED
    BY <2>1, <2>2 DEF Onward, Steps
<1>5. ASSUME NEW q \in Requests, Purge(q) PROVE Onward(q) /\ AuditGrows(q)
  <2>1. OnwardTo(q, "audit")
    BY <1>0, <1>5 DEF Purge, OnwardTo
  <2>2. AuditGrows(q)
    BY <1>0, <1>5 DEF Purge
  <2> QED
    BY <2>1, <2>2 DEF Onward, Steps
<1>6. ASSUME NEW q \in Requests, Audit(q) PROVE Onward(q) /\ AuditGrows(q)
  <2>1. OnwardTo(q, "audit copy") \/ OnwardTo(q, "ok")
    BY <1>0, <1>6 DEF Audit, OnwardTo
  <2>2. AuditGrows(q)
    BY <1>0, <1>6 DEF Audit
  <2> QED
    BY <2>1, <2>2 DEF Onward, Steps
<1>7. ASSUME NEW q \in Requests, AuditCopy(q) PROVE Onward(q) /\ AuditGrows(q)
  <2>1. OnwardTo(q, "ok")
    BY <1>0, <1>7 DEF AuditCopy, OnwardTo
  <2>2. AuditGrows(q)
    BY <1>0, <1>7 DEF AuditCopy
  <2> QED
    BY <2>1, <2>2 DEF Onward, Steps
<1>13. ASSUME NEW q \in Requests, AuditDelete(q) PROVE Onward(q) /\ AuditGrows(q)
  <2>1. OnwardTo(q, "ok")
    BY <1>0, <1>13 DEF AuditDelete, OnwardTo, Inv, AuditInOrder
  <2>2. AuditGrows(q)
    BY <1>0, <1>13 DEF AuditDelete
  <2> QED
    BY <2>1, <2>2 DEF Onward, Steps
<1>8. ASSUME NEW q \in Requests, PutFails(q) PROVE Onward(q) /\ AuditGrows(q)
  <2>1. OnwardTo(q, "failed")
    BY <1>0, <1>8 DEF PutFails, OnwardTo
  <2>2. AuditGrows(q)
    BY <1>0, <1>8 DEF PutFails
  <2> QED
    BY <2>1, <2>2 DEF Onward, Steps
<1>9. ASSUME NEW q \in Requests, CommitFails(q) PROVE Onward(q) /\ AuditGrows(q)
  <2>1. OnwardTo(q, "failed")
    BY <1>0, <1>9 DEF CommitFails, OnwardTo
  <2>2. AuditGrows(q)
    BY <1>0, <1>9 DEF CommitFails
  <2> QED
    BY <2>1, <2>2 DEF Onward, Steps
<1>10. ASSUME NEW q \in Requests, PurgeFails(q) PROVE Onward(q) /\ AuditGrows(q)
  <2>1. OnwardTo(q, "failed")
    BY <1>0, <1>10 DEF PurgeFails, OnwardTo
  <2>2. AuditGrows(q)
    BY <1>0, <1>10 DEF PurgeFails
  <2> QED
    BY <2>1, <2>2 DEF Onward, Steps
<1>11. ASSUME NEW q \in Requests, AuditFails(q) PROVE Onward(q) /\ AuditGrows(q)
  <2>1. OnwardTo(q, "failed")
    BY <1>0, <1>11 DEF AuditFails, OnwardTo
  <2>2. AuditGrows(q)
    BY <1>0, <1>11 DEF AuditFails
  <2> QED
    BY <2>1, <2>2 DEF Onward, Steps
<1>12. ASSUME NEW q \in Requests, Cut(q) PROVE Onward(q) /\ AuditGrows(q)
  <2>1. OnwardTo(q, "failed")
    BY <1>0, <1>12 DEF Cut, OnwardTo
  <2>2. AuditGrows(q)
    BY <1>0, <1>12 DEF Cut
  <2> QED
    BY <2>1, <2>2 DEF Onward, Steps
<1> QED
  BY <1>1, <1>2, <1>3, <1>4, <1>5, <1>6, <1>7, <1>8, <1>9, <1>10, <1>11, <1>12, <1>13
  DEF Next

(* What a request plans still holds when it commits.                       *)
LEMMA PlanStep == ASSUME Inv, [Next]_vars PROVE PlanHolds'
<1>. USE UsersAssumption, NoneAssumption
<1> DEFINE Holds(p) ==
      LET r == req[p]
      IN  /\ r.at # "idle" => r.user \in Users /\ r.op \in Ops
          /\ r.at = "commit" =>
               /\ r.do \in Plan /\ r.key \in {r.user, Bare}
               /\ r.do \notin {"insert", "copy"} => rows[r.key] # None
               /\ r.do \in {"insert", "copy"} => r.key = r.user /\ r.op \in {"create", "update"}
               /\ r.do = "insert" => r.op = "create" /\ ~(Left(r.user) /\ rows[Bare].live)
               /\ r.do = "copy" => Left(r.user)
               /\ r.do = "revive" => r.key = r.user /\ r.op = "create"
               /\ r.key = Bare => Left(r.user) \/ (Corpus(rows[Bare]) /\ r.user \in Admins)
<1>1. TypeOK /\ Kept /\ \A p \in Requests : Holds(p)
  BY RowsStep DEF Inv, PlanHolds
<1>2. ASSUME NEW p \in Requests, req'[p] = req[p] PROVE Holds(p)'
  <2>1. req[p].at = "commit" => req[p].key \in Keys
    BY <1>1 DEF Keys
  <2>2. /\ Left(req[p].user) => Left(req[p].user)'
        /\ Left(req[p].user)' /\ rows'[Bare].live => Left(req[p].user) /\ rows[Bare].live
        /\ Corpus(rows[Bare]) => Corpus(rows[Bare])'
    BY <1>1, <1>2 DEF Kept, Left, Corpus, Keys
  <2>3. req[p].at = "commit" /\ rows[req[p].key] # None => rows'[req[p].key] # None
    BY <1>1, <2>1 DEF Kept
  <2>4. Holds(p)
    BY <1>1
  <2> QED
    BY <1>2, <2>2, <2>3, <2>4
<1>3. ASSUME NEW q \in Requests,
             \/ \E u \in Users, op \in Ops : Begin(q, u, op)
             \/ Source(q) \/ ResolveCreate(q) \/ ResolveUpdate(q) \/ ResolveDelete(q)
             \/ Onward(q)
      PROVE  Holds(q)' /\ \A p \in Requests \ {q} : req'[p] = req[p]
  <2>1. Holds(q)
    BY <1>1
  <2>2. CASE \E u \in Users, op \in Ops : Begin(q, u, op)
    BY <1>1, <2>2, BeginsAs
  <2>3. CASE Source(q)
    BY <1>1, <2>1, <2>3, SourceKnows DEF Source
  <2>4. CASE Onward(q)
    BY <1>1, <2>1, <2>4, GoesTo DEF Onward, OnwardTo
  <2>5. CASE ResolveCreate(q)
    <3>1. rows' = rows /\ At(q, "resolve") /\ User(q) \in Users /\ req[q].op = "create"
      BY <2>1, <2>5 DEF ResolveCreate
    <3>2. CASE Goes(q, "refused")
      <4>1. /\ \A p \in Requests \ {q} : req'[p] = req[p]
            /\ req'[q].at = "refused"
            /\ req'[q].user = req[q].user /\ req'[q].op = req[q].op
        BY <1>1, <3>2, GoesTo DEF Steps, Replies
      <4> QED
        BY <2>1, <3>1, <4>1
    <3>3. CASE rows[User(q)] # None /\ Plans(q, IF rows[User(q)].live THEN "stamp" ELSE "revive", User(q))
      <4>1. PICK do \in {"stamp", "revive"} : Plans(q, do, User(q))
        BY <3>3
      <4>2. /\ \A p \in Requests \ {q} : req'[p] = req[p]
            /\ req'[q].at = "commit" /\ req'[q].do = do /\ req'[q].key = User(q)
            /\ req'[q].user = req[q].user /\ req'[q].op = req[q].op
        BY <1>1, <3>1, <3>3, <4>1, PlansTo DEF Keys
      <4> QED
        BY <1>1, <2>1, <3>1, <3>3, <4>2 DEF Plan, Denied, Left
    <3>4. CASE LegacyOf(rows[Bare], User(q)) /\ rows[Bare].live /\ Plans(q, "copy", User(q))
      <4>1. /\ \A p \in Requests \ {q} : req'[p] = req[p]
            /\ req'[q].at = "commit" /\ req'[q].do = "copy" /\ req'[q].key = User(q)
            /\ req'[q].user = req[q].user /\ req'[q].op = req[q].op
        BY <1>1, <3>1, <3>4, PlansTo DEF Keys
      <4> QED
        BY <1>1, <2>1, <3>1, <3>4, <4>1 DEF Plan, LegacyOf, Left
    <3>5. CASE ~(LegacyOf(rows[Bare], User(q)) /\ rows[Bare].live) /\ Plans(q, "insert", User(q))
      <4>1. /\ \A p \in Requests \ {q} : req'[p] = req[p]
            /\ req'[q].at = "commit" /\ req'[q].do = "insert" /\ req'[q].key = User(q)
            /\ req'[q].user = req[q].user /\ req'[q].op = req[q].op
        BY <1>1, <3>1, <3>5, PlansTo DEF Keys
      <4> QED
        BY <1>1, <2>1, <3>1, <3>5, <4>1 DEF Plan, LegacyOf, Left
    <3> QED
      BY <2>5, <3>2, <3>3, <3>4, <3>5 DEF ResolveCreate
  <2>6. CASE ResolveUpdate(q)
    <3> DEFINE k == ReadKey(User(q))
    <3>1. /\ rows' = rows /\ At(q, "resolve") /\ User(q) \in Users /\ req[q].op = "update"
          /\ k # None => /\ k \in {User(q), Bare} /\ rows[k] # None
                         /\ k = Bare => Left(User(q)) \/ Corpus(rows[Bare])
      BY <2>1, <2>6 DEF ResolveUpdate, ReadKey, LegacyOf, Corpus, Left
    <3> HIDE DEF k
    <3>2. CASE \E step \in Replies : Goes(q, step)
      BY <1>1, <2>1, <3>1, <3>2, GoesTo DEF Steps, Replies
    <3>3. CASE k = Bare /\ LegacyOf(rows[k], User(q)) /\ Plans(q, "copy", User(q))
      <4>1. /\ \A p \in Requests \ {q} : req'[p] = req[p]
            /\ req'[q].at = "commit" /\ req'[q].do = "copy" /\ req'[q].key = User(q)
            /\ req'[q].user = req[q].user /\ req'[q].op = req[q].op
        BY <1>1, <3>1, <3>3, PlansTo DEF Keys
      <4> QED
        BY <1>1, <2>1, <3>1, <3>3, <4>1 DEF Plan, LegacyOf, Left
    <3>4. CASE k # None /\ ~Denied(User(q), k) /\ Plans(q, "stamp", k)
      <4>1. /\ \A p \in Requests \ {q} : req'[p] = req[p]
            /\ req'[q].at = "commit" /\ req'[q].do = "stamp" /\ req'[q].key = k
            /\ req'[q].user = req[q].user /\ req'[q].op = req[q].op
        BY <1>1, <3>1, <3>4, PlansTo DEF Keys
      <4> QED
        BY <1>1, <2>1, <3>1, <3>4, <4>1 DEF Plan, Denied, Left
    <3> QED
      BY <2>6, <3>2, <3>3, <3>4 DEF ResolveUpdate, Replies, k
  <2>7. CASE ResolveDelete(q)
    <3> DEFINE k == ReadKey(User(q))
    <3>1. /\ rows' = rows /\ At(q, "resolve") /\ User(q) \in Users
          /\ k # None => /\ k \in {User(q), Bare} /\ rows[k] # None
                         /\ k = Bare => Left(User(q)) \/ Corpus(rows[Bare])
      BY <2>1, <2>7 DEF ResolveDelete, ReadKey, LegacyOf, Corpus, Left
    <3> HIDE DEF k
    <3>2. CASE \E step \in Replies : Goes(q, step)
      BY <1>1, <2>1, <3>1, <3>2, GoesTo DEF Steps, Replies
    <3>3. CASE k # None /\ ~Denied(User(q), k) /\ Plans(q, IF rows[k].live THEN "bury" ELSE "keep", k)
      <4>1. PICK do \in {"bury", "keep"} : Plans(q, do, k)
        BY <3>3
      <4>2. /\ \A p \in Requests \ {q} : req'[p] = req[p]
            /\ req'[q].at = "commit" /\ req'[q].do = do /\ req'[q].key = k
            /\ req'[q].user = req[q].user /\ req'[q].op = req[q].op
        BY <1>1, <3>1, <3>3, <4>1, PlansTo DEF Keys
      <4> QED
        BY <1>1, <2>1, <3>1, <3>3, <4>2 DEF Plan, Denied, Left
    <3> QED
      BY <2>7, <3>2, <3>3 DEF ResolveDelete, Replies, k
  <2> QED
    BY <1>3, <2>2, <2>3, <2>4, <2>5, <2>6, <2>7
<1>4. CASE UNCHANGED vars
  BY <1>2, <1>4 DEF PlanHolds, vars
<1>5. CASE Next
  <2>1. PICK q \in Requests :
             \/ \E u \in Users, op \in Ops : Begin(q, u, op)
             \/ Source(q) \/ ResolveCreate(q) \/ ResolveUpdate(q) \/ ResolveDelete(q)
             \/ Onward(q)
    BY <1>5, StepKinds
  <2>2. \A p \in Requests : Holds(p)'
    BY <1>2, <1>3, <2>1
  <2> QED
    BY <2>2 DEF PlanHolds
<1> QED
  BY <1>4, <1>5

(* What a request announced stays true until it is done.                   *)
LEMMA AnnounceStep == ASSUME Inv, [Next]_vars PROVE CopyAnnounced'
<1>. USE UsersAssumption, NoneAssumption
<1> DEFINE Holds(p) ==
      LET r == req[p]
      IN  /\ r.at = "resolve" /\ r.op \in {"create", "update"} /\ ~r.copied =>
               ~(rows[r.user] = None /\ Left(r.user) /\ rows[Bare].live)
          /\ r.at \in {"commit", "purge", "audit"} /\ r.do = "copy" => r.copied
<1>1. TypeOK /\ Kept /\ \A p \in Requests : Holds(p)
  BY RowsStep DEF Inv, CopyAnnounced
<1>2. \A q \in Requests : req[q].at # "idle" => req[q].user \in Users
  BY DEF Inv, PlanHolds
<1>3. ASSUME NEW p \in Requests, req'[p] = req[p] PROVE Holds(p)'
  <2>1. Left(req[p].user)' /\ rows'[Bare].live => Left(req[p].user) /\ rows[Bare].live
    BY <1>1, <1>3 DEF Kept, Left, Keys
  <2>2. req[p].at = "resolve" /\ rows'[req[p].user] = None => rows[req[p].user] = None
    BY <1>1, <1>2 DEF Kept, Keys
  <2>3. Holds(p)
    BY <1>1
  <2> QED
    BY <1>3, <2>1, <2>2, <2>3
<1>4. ASSUME NEW q \in Requests,
             \/ \E u \in Users, op \in Ops : Begin(q, u, op)
             \/ Source(q) \/ ResolveCreate(q) \/ ResolveUpdate(q) \/ ResolveDelete(q)
             \/ Onward(q)
      PROVE  Holds(q)' /\ \A p \in Requests \ {q} : req'[p] = req[p]
  <2>1. Holds(q)
    BY <1>1
  <2>2. CASE \E u \in Users, op \in Ops : Begin(q, u, op)
    BY <1>1, <2>2, BeginsAs
  <2>3. CASE Source(q)
    <3>1. /\ rows' = rows /\ req'[q].at = "resolve" /\ req'[q].user = req[q].user
          /\ req'[q].copied = (rows[User(q)] = None /\ LegacyOf(rows[Bare], User(q)) /\ rows[Bare].live)
          /\ \A p \in Requests \ {q} : req'[p] = req[p]
      BY <1>1, <2>3, SourceKnows DEF Source
    <3> QED
      BY <3>1 DEF LegacyOf, Left
  <2>4. CASE Onward(q)
    BY <1>1, <2>1, <2>4, GoesTo DEF Onward, OnwardTo, Writes
  <2>5. ASSUME At(q, "resolve"), NEW step \in Replies, Goes(q, step)
        PROVE  Holds(q)' /\ \A p \in Requests \ {q} : req'[p] = req[p]
    <3>1. /\ \A p \in Requests \ {q} : req'[p] = req[p]
          /\ req'[q].at \in Replies
      BY <1>1, <2>5, GoesTo DEF Steps
    <3> QED
      BY <3>1 DEF Replies
  <2>6. ASSUME At(q, "resolve"), NEW do \in Plan, NEW key \in Keys, Plans(q, do, key),
               do = "copy" => req[q].copied
        PROVE  Holds(q)' /\ \A p \in Requests \ {q} : req'[p] = req[p]
    BY <1>1, <2>6, PlansTo DEF Plan
  <2>7. CASE ResolveCreate(q)
    <3>1. LegacyOf(rows[Bare], User(q)) /\ rows[Bare].live /\ rows[User(q)] = None => req[q].copied
      BY <2>1, <2>7 DEF ResolveCreate, LegacyOf, Left
    <3> QED
      BY <1>2, <2>5, <2>6, <2>7, <3>1 DEF ResolveCreate, Replies, Plan, Keys
  <2>8. CASE ResolveUpdate(q)
    <3> DEFINE k == ReadKey(User(q))
    <3>1. /\ k # None => k \in Keys
          /\ k = Bare /\ LegacyOf(rows[k], User(q)) /\ rows[k].live => req[q].copied
      BY <1>2, <2>1, <2>8 DEF ResolveUpdate, ReadKey, LegacyOf, Left, Keys
    <3>2. \/ \E step \in Replies : Goes(q, step)
          \/ k = Bare /\ LegacyOf(rows[k], User(q)) /\ rows[k].live /\ Plans(q, "copy", User(q))
          \/ k # None /\ Plans(q, "stamp", k)
      BY <2>8 DEF ResolveUpdate, Replies
    <3>3. At(q, "resolve") /\ User(q) \in Keys
      BY <1>2, <2>8 DEF ResolveUpdate, Keys
    <3> QED
      BY <2>5, <2>6, <3>1, <3>2, <3>3 DEF Plan
  <2>9. CASE ResolveDelete(q)
    <3> DEFINE k == ReadKey(User(q))
    <3>1. At(q, "resolve") /\ (k # None => k \in Keys)
      BY <1>2, <2>9 DEF ResolveDelete, ReadKey, Keys
    <3>2. \/ \E step \in Replies : Goes(q, step)
          \/ k # None /\ \E do \in {"bury", "keep"} : Plans(q, do, k)
      BY <2>9 DEF ResolveDelete, Replies
    <3> QED
      BY <2>5, <2>6, <3>1, <3>2 DEF Plan
  <2> QED
    BY <1>4, <2>2, <2>3, <2>4, <2>7, <2>8, <2>9
<1>5. CASE UNCHANGED vars
  BY <1>3, <1>5 DEF CopyAnnounced, vars
<1>6. CASE Next
  <2>1. PICK q \in Requests :
             \/ \E u \in Users, op \in Ops : Begin(q, u, op)
             \/ Source(q) \/ ResolveCreate(q) \/ ResolveUpdate(q) \/ ResolveDelete(q)
             \/ Onward(q)
    BY <1>6, StepKinds
  <2>2. \A p \in Requests : Holds(p)'
    BY <1>3, <1>4, <2>1
  <2> QED
    BY <2>2 DEF CopyAnnounced
<1> QED
  BY <1>5, <1>6

(* The audit rows come in order, and an answer after all of them.          *)
LEMMA AuditStep == ASSUME Inv, [Next]_vars PROVE AuditInOrder' /\ ConfirmedIsAudited'
<1> DEFINE Holds(p) ==
      /\ At(p, "audit copy") /\ Writes(p) => "write" \in audit[p]
      /\ At(p, "put") => Writes(p) \/ req[p].op = "upload"
      /\ At(p, "source") \/ req[p].copied => Writes(p)
      /\ At(p, "ok") /\ req[p].op # "upload" =>
           /\ Writes(p) => "write" \in audit[p]
           /\ req[p].op \in {"delete", "purge"} \/ req[p].do = "copy" => "delete" \in audit[p]
<1>1. TypeOK /\ \A p \in Requests : Holds(p)
  BY DEF Inv, AuditInOrder, ConfirmedIsAudited, Writes
<1>2. ASSUME NEW p \in Requests, req'[p] = req[p], audit'[p] = audit[p] PROVE Holds(p)'
  BY <1>1, <1>2 DEF Writes
<1>3. ASSUME NEW q \in Requests,
             \/ \E u \in Users, op \in Ops : Begin(q, u, op)
             \/ Source(q) \/ ResolveCreate(q) \/ ResolveUpdate(q) \/ ResolveDelete(q)
             \/ Onward(q) /\ AuditGrows(q)
      PROVE  Holds(q)' /\ \A p \in Requests \ {q} : req'[p] = req[p] /\ audit'[p] = audit[p]
  <2>1. Holds(q) /\ req[q] \in ReqRecords
    BY <1>1 DEF TypeOK
  <2>2. CASE \E u \in Users, op \in Ops : Begin(q, u, op)
    <3>1. PICK u \in Users, op \in Ops : Begin(q, u, op)
      BY <2>2
    <3>2. /\ \A p \in Requests \ {q} : req'[p] = req[p]
          /\ req'[q].at = IF op = "upload" THEN "put" ELSE "authorize"
          /\ req'[q].op = op /\ ~req'[q].copied /\ audit' = audit
      BY <1>1, <3>1, BeginsAs DEF Begin
    <3> QED
      BY <3>2 DEF Writes
  <2>3. CASE Source(q)
    BY <1>1, <2>1, <2>3, SourceKnows DEF Source, Writes
  <2>4. CASE Onward(q) /\ AuditGrows(q)
    <3>1. At(q, "audit") /\ req[q].do = "copy" => req[q].copied
      BY DEF Inv, CopyAnnounced
    <3>2. PICK step \in Steps \ {"idle", "commit"} : OnwardTo(q, step)
      BY <2>4 DEF Onward
    <3>3. /\ \A p \in Requests \ {q} : req'[p] = req[p]
          /\ req'[q].at = step /\ req'[q].op = req[q].op /\ req'[q].do = req[q].do
          /\ req'[q].copied = req[q].copied
      BY <1>1, <3>2, GoesTo DEF OnwardTo
    <3> QED
      BY <2>1, <2>4, <3>1, <3>2, <3>3 DEF AuditGrows, OnwardTo, Writes
  <2>5. ASSUME At(q, "resolve"), audit' = audit, NEW step \in Replies \ {"ok"}, Goes(q, step)
        PROVE  Holds(q)' /\ \A p \in Requests \ {q} : req'[p] = req[p] /\ audit'[p] = audit[p]
    <3>1. /\ \A p \in Requests \ {q} : req'[p] = req[p]
          /\ req'[q].at \in Replies \ {"ok"}
          /\ req'[q].op = req[q].op /\ req'[q].copied = req[q].copied
      BY <1>1, <2>5, GoesTo DEF Steps
    <3> QED
      BY <2>1, <2>5, <3>1 DEF Replies, Writes
  <2>6. ASSUME At(q, "resolve"), audit' = audit, NEW do \in Plan, NEW key \in Keys, Plans(q, do, key)
        PROVE  Holds(q)' /\ \A p \in Requests \ {q} : req'[p] = req[p] /\ audit'[p] = audit[p]
    <3>1. /\ \A p \in Requests \ {q} : req'[p] = req[p]
          /\ req'[q].at = "commit" /\ req'[q].op = req[q].op /\ req'[q].copied = req[q].copied
      BY <1>1, <2>6, PlansTo DEF Plan
    <3> QED
      BY <2>1, <2>6, <3>1 DEF Writes
  <2>7. At(q, "resolve") => User(q) \in Keys
    BY DEF Inv, PlanHolds, Keys
  <2>8. CASE ResolveCreate(q)
    BY <2>5, <2>6, <2>7, <2>8 DEF ResolveCreate, Replies, Plan
  <2>9. CASE ResolveUpdate(q)
    BY <2>5, <2>6, <2>7, <2>9 DEF ResolveUpdate, Replies, Plan, ReadKey, Keys
  <2>10. CASE ResolveDelete(q)
    BY <2>5, <2>6, <2>7, <2>10 DEF ResolveDelete, Replies, Plan, ReadKey, Keys
  <2> QED
    BY <1>3, <2>2, <2>3, <2>4, <2>8, <2>9, <2>10
<1>4. \A p \in Requests : Holds(p)'
  <2>1. CASE UNCHANGED vars
    BY <1>2, <2>1 DEF vars
  <2>2. CASE Next
    BY <1>2, <1>3, <2>2, StepKinds
  <2> QED
    BY <2>1, <2>2
<1>5. AuditInOrder'
  BY <1>4 DEF AuditInOrder, Writes
<1>6. ConfirmedIsAudited'
  BY <1>4 DEF ConfirmedIsAudited, Writes
<1> QED
  BY <1>5, <1>6

----------------------------------------------------------------------------
(* A transaction that commits touches its user's own row, and the row at   *)
(* the bare key only if the user may; it brings a deleted row back only if *)
(* it read it deleted, and puts a row where none was only in a write.      *)
LEMMA CommitTouches ==
  ASSUME Inv, NEW q \in Requests, At(q, "commit"), ~Taken(q), rows' = Applied(q)
  PROVE  /\ \A v \in Users \ {User(q)} : rows'[v] = rows[v]
         /\ rows'[Bare] # rows[Bare] =>
              Left(User(q)) \/ (Corpus(rows[Bare]) /\ User(q) \in Admins)
         /\ \A k \in Keys :
              rows[k] # None /\ ~rows[k].live /\ rows'[k] # None /\ rows'[k].live =>
                req[q].op = "create" /\ req[q].do = "revive"
         /\ rows[User(q)] = None /\ rows'[User(q)] # None =>
              req[q].op = "create" \/ (req[q].op = "update" /\ req[q].do = "copy")
<1>. USE UsersAssumption, NoneAssumption
<1> DEFINE u == req[q].user
           k == req[q].key
           do == req[q].do
           Touches == /\ \A v \in Users \ {u} : rows'[v] = rows[v]
                      /\ rows'[Bare] # rows[Bare] => k = Bare \/ do = "copy"
                      /\ \A j \in Keys :
                           rows[j] # None /\ ~rows[j].live /\ rows'[j] # None /\ rows'[j].live =>
                             do = "revive"
                      /\ rows[u] = None /\ rows'[u] # None => do \in {"insert", "copy"}
<1>1. /\ rows \in [Keys -> Row \cup {None}] /\ u \in Users /\ k \in Keys
      /\ k = u \/ k = Bare
      /\ do \in {"stamp", "revive", "insert", "copy", "bury", "keep"}
  BY DEF Inv, TypeOK, PlanHolds, Plan, ReqRecords, Keys
<1>2. /\ do \notin {"insert", "copy"} => rows[k] \in Row
      /\ do \in {"insert", "copy"} => k = u /\ rows[k] = None /\ req[q].op \in {"create", "update"}
      /\ do = "copy" => Left(u) /\ rows[Bare] \in Row
      /\ do \in {"revive", "insert"} => req[q].op = "create"
      /\ k = Bare => Left(u) \/ (Corpus(rows[Bare]) /\ u \in Admins)
  BY <1>1 DEF Inv, PlanHolds, Taken, Left, Keys
<1>3. Bare \in Keys /\ \A v \in Users : v \in Keys /\ v # Bare
  BY DEF Keys
<1>4. ASSUME do = "stamp" PROVE Touches
  <2>1. rows' = [rows EXCEPT ![k] = [rows[k] EXCEPT !.doc = q]]
    BY <1>1, <1>4 DEF Applied
  <2>2. /\ \A j \in Keys : j # k => rows'[j] = rows[j]
        /\ rows'[k].live = rows[k].live
    BY <1>1, <1>2, <1>4, <2>1 DEF Row
  <2> QED
    BY <1>1, <1>2, <1>3, <1>4, <2>2
<1>5. ASSUME do = "revive" PROVE Touches
  <2>1. rows' = [rows EXCEPT ![k] = [rows[k] EXCEPT !.doc = q, !.live = TRUE]]
    BY <1>1, <1>5 DEF Applied
  <2>2. \A j \in Keys : j # k => rows'[j] = rows[j]
    BY <1>1, <2>1
  <2> QED
    BY <1>1, <1>2, <1>3, <1>5, <2>2
<1>6. ASSUME do = "insert" PROVE Touches
  <2>1. rows' = [rows EXCEPT ![k] = OwnRow(q)]
    BY <1>6 DEF Applied
  <2>2. \A j \in Keys : j # k => rows'[j] = rows[j]
    BY <1>1, <2>1
  <2> QED
    BY <1>1, <1>2, <1>3, <1>6, <2>2
<1>7. ASSUME do = "copy" PROVE Touches
  <2>1. rows' = [rows EXCEPT ![k] = OwnRow(q), ![Bare].live = FALSE]
    BY <1>7 DEF Applied
  <2>2. k = u /\ k # Bare /\ rows[Bare] \in Row /\ Bare \in Keys /\ rows[k] = None
    BY <1>1, <1>2, <1>7 DEF Keys
  <2>3. rows' = [j \in Keys |-> IF j = k THEN OwnRow(q)
                                ELSE IF j = Bare THEN [rows[Bare] EXCEPT !.live = FALSE]
                                ELSE rows[j]]
    BY <1>1, <2>1, <2>2
  <2>4. /\ \A j \in Keys : j # k /\ j # Bare => rows'[j] = rows[j]
        /\ ~rows'[Bare].live
    BY <2>2, <2>3 DEF Row
  <2> QED
    BY <1>2, <1>3, <1>7, <2>2, <2>4
<1>8. ASSUME do = "bury" PROVE Touches
  <2>1. rows' = [rows EXCEPT ![k] = [rows[k] EXCEPT !.live = FALSE]]
    BY <1>1, <1>8 DEF Applied
  <2>2. /\ \A j \in Keys : j # k => rows'[j] = rows[j]
        /\ ~rows'[k].live
    BY <1>1, <1>2, <1>8, <2>1 DEF Row
  <2> QED
    BY <1>1, <1>2, <1>3, <1>8, <2>2
<1>9. ASSUME do = "keep" PROVE Touches
  BY <1>9 DEF Applied
<1>10. Touches
  BY <1>1, <1>4, <1>5, <1>6, <1>7, <1>8, <1>9
<1> QED
  BY <1>2, <1>10

(* A step that changes the manifest is a transaction that commits.         *)
LEMMA RowsChange ==
  ASSUME Inv, Next, rows' # rows
  PROVE  \E q \in Requests :
           /\ At(q, "commit") /\ ~Taken(q) /\ rows' = Applied(q)
           /\ \E step \in Steps \ {"commit"} : Goes(q, step)
           /\ UNCHANGED content
<1>1. ASSUME NEW q \in Requests, Commit(q)
      PROVE  /\ At(q, "commit") /\ ~Taken(q) /\ rows' = Applied(q)
             /\ \E step \in Steps \ {"commit"} : Goes(q, step)
             /\ UNCHANGED content
  BY <1>1 DEF Commit, Steps
<1>2. ASSUME NEW q \in Requests, CommitFails(q)
      PROVE  /\ At(q, "commit") /\ ~Taken(q) /\ rows' = Applied(q)
             /\ \E step \in Steps \ {"commit"} : Goes(q, step)
             /\ UNCHANGED content
  BY <1>2 DEF CommitFails, Steps, Replies
<1> QED
  BY <1>1, <1>2 DEF Next, Begin, Authorize, Put, Source, ResolveCreate,
     ResolveUpdate, ResolveDelete, CommitConflicts, Purge, Audit, AuditCopy, AuditDelete, PutFails,
     PurgeFails, AuditFails, Cut

(* A step that changes the content of a user is that user's, and removes   *)
(* it only if the request is a purge.                                      *)
LEMMA ContentChange ==
  ASSUME Inv, Next, content' # content
  PROVE  \E q \in Requests :
           /\ User(q) \in Users
           /\ \A v \in Users \ {User(q)} : content'[v] = content[v]
           /\ content'[User(q)] = None => req[q].op = "purge" \/ content[User(q)] = None
           /\ \E step \in Steps : Goes(q, step)
           /\ UNCHANGED rows
<1>. USE NoneAssumption DEF Steps, Replies
<1>1. content \in [Users -> Contents \cup {None}] /\ Requests \subseteq Contents
  BY DEF Inv, TypeOK, Contents
<1>2. \A q \in Requests : /\ req[q].at # "idle" => User(q) \in Users
                         /\ At(q, "purge") => req[q].op = "purge"
  BY DEF Inv, PlanHolds, ContentStands
<1> DEFINE Moves(q) ==
      /\ User(q) \in Users
      /\ \A v \in Users \ {User(q)} : content'[v] = content[v]
      /\ content'[User(q)] = None => req[q].op = "purge" \/ content[User(q)] = None
      /\ \E step \in Steps : Goes(q, step)
      /\ UNCHANGED rows
<1>3. ASSUME NEW q \in Requests, Put(q) PROVE Moves(q)
  <2>1. User(q) \in Users /\ content'[User(q)] # None
    BY <1>1, <1>2, <1>3 DEF Put
  <2> QED
    BY <1>1, <1>3, <2>1 DEF Put
<1>4. ASSUME NEW q \in Requests, PutFails(q) PROVE Moves(q)
  <2>1. User(q) \in Users /\ (content'[User(q)] = None => content[User(q)] = None)
    BY <1>1, <1>2, <1>4 DEF PutFails
  <2> QED
    BY <1>1, <1>4, <2>1 DEF PutFails
<1>5. ASSUME NEW q \in Requests, Purge(q) PROVE Moves(q)
  BY <1>1, <1>2, <1>5 DEF Purge
<1>6. ASSUME NEW q \in Requests, PurgeFails(q) PROVE Moves(q)
  BY <1>1, <1>2, <1>6 DEF PurgeFails
<1> QED
  BY <1>3, <1>4, <1>5, <1>6 DEF Next, Begin, Authorize, Source, ResolveCreate,
     ResolveUpdate, ResolveDelete, Commit, CommitConflicts, Audit, AuditCopy, AuditDelete,
     CommitFails, AuditFails, Cut

(* Content stands while its user has not purged it.                        *)
LEMMA ContentStep == ASSUME Inv, [Next]_vars PROVE ContentStands'
<1>. USE NoneAssumption
<1> DEFINE Order(q) == /\ At(q, "idle") => req[q].op = None
                       /\ At(q, "purge") => req[q].op = "purge"
           Later(q) == Writes(q) /\ req[q].at \in {"source", "resolve", "commit"}
<1>1. TypeOK /\ Kept /\ ContentStands
  BY RowsStep DEF Inv
<1>2. CASE UNCHANGED vars
  BY <1>1, <1>2 DEF ContentStands, Purged, Left, vars
<1>3. CASE Next
  <2>1. PICK q \in Requests :
             \/ \E u \in Users, op \in Ops : Begin(q, u, op)
             \/ Source(q) \/ ResolveCreate(q) \/ ResolveUpdate(q) \/ ResolveDelete(q)
             \/ Onward(q) /\ AuditGrows(q)
    BY <1>3, StepKinds
  <2>2. /\ \A p \in Requests \ {q} : req'[p] = req[p]
        /\ Order(q)'
        /\ At(q, "idle") \/ (req'[q].user = req[q].user /\ req'[q].op = req[q].op)
        /\ Later(q)' => Later(q) \/ (Onward(q) /\ req'[q].at = "source")
    <3>1. CASE \E u \in Users, op \in Ops : Begin(q, u, op)
      BY <1>1, <3>1, BeginsAs DEF Begin
    <3>2. CASE Source(q)
      BY <1>1, <3>2, SourceKnows DEF Source, Writes
    <3>3. CASE Onward(q)
      BY <1>1, <3>3, GoesTo DEF Onward, OnwardTo, Writes, ContentStands
    <3>4. ASSUME At(q, "resolve"), NEW step \in Replies, Goes(q, step)
          PROVE  /\ \A p \in Requests \ {q} : req'[p] = req[p]
                 /\ Order(q)' /\ req'[q].user = req[q].user /\ req'[q].op = req[q].op
                 /\ Later(q)' => Later(q)
      BY <1>1, <3>4, GoesTo DEF Steps, Replies, Writes
    <3>5. ASSUME At(q, "resolve"), NEW do \in Plan, NEW key \in Keys, Plans(q, do, key)
          PROVE  /\ \A p \in Requests \ {q} : req'[p] = req[p]
                 /\ Order(q)' /\ req'[q].user = req[q].user /\ req'[q].op = req[q].op
                 /\ Later(q)' => Later(q)
      BY <1>1, <3>5, PlansTo DEF Plan, Writes
    <3>6. At(q, "resolve") => User(q) \in Keys
      BY DEF Inv, PlanHolds, Keys
    <3>7. CASE ResolveCreate(q)
      BY <3>4, <3>5, <3>6, <3>7 DEF ResolveCreate, Replies, Plan
    <3>8. CASE ResolveUpdate(q)
      BY <3>4, <3>5, <3>6, <3>8 DEF ResolveUpdate, Replies, Plan, ReadKey, Keys
    <3>9. CASE ResolveDelete(q)
      BY <3>4, <3>5, <3>6, <3>9 DEF ResolveDelete, Replies, Plan, ReadKey, Keys
    <3> QED
      BY <2>1, <3>1, <3>2, <3>3, <3>7, <3>8, <3>9
  <2>3. ASSUME NEW p \in Requests PROVE Order(p)'
    BY <1>1, <2>2 DEF ContentStands
  <2>4. ASSUME NEW u \in Users, ~Purged(u)'
        PROVE  /\ (rows[u] # None \/ Left(u) => content[u] # None)'
               /\ \A p \in Requests : User(p)' = u /\ Later(p)' => content'[u] # None
    <3>1. ~Purged(u)
      <4>1. At(q, "idle") => req[q].op # "purge"
        BY <1>1 DEF ContentStands, Ops
      <4>2. \A p \in Requests : req[p].op = "purge" /\ req[p].user = u =>
                               req'[p].op = "purge" /\ req'[p].user = u
        BY <2>2, <4>1
      <4> QED
        BY <2>4, <4>2 DEF Purged
    <3>2. content[u] # None => content'[u] # None
      BY <1>3, <3>1, ContentChange DEF Purged
    <3>3. Left(u)' => Left(u)
      BY <1>1 DEF Kept, Left, Keys
    <3>4. rows[u] = None /\ rows'[u] # None =>
            \E p \in Requests : User(p) = u /\ Later(p)
      <4>1. SUFFICES ASSUME rows[u] = None, rows'[u] # None
                     PROVE  \E p \in Requests : User(p) = u /\ Later(p)
        OBVIOUS
      <4>2. PICK p \in Requests : At(p, "commit") /\ ~Taken(p) /\ rows' = Applied(p)
        BY <1>3, <4>1, RowsChange
      <4>3. User(p) = u /\ Writes(p)
        BY <4>1, <4>2, CommitTouches DEF Writes
      <4> QED
        BY <4>2, <4>3
    <3>5. \A p \in Requests : User(p) = u /\ Later(p) => content[u] # None
      BY <1>1, <3>1 DEF ContentStands, Writes
    <3>6. (rows[u] # None \/ Left(u)) => content[u] # None
      BY <1>1, <3>1 DEF ContentStands
    <3>7. ASSUME NEW p \in Requests, User(p)' = u, Later(p)' PROVE content'[u] # None
      <4>1. CASE Later(p) /\ User(p) = u
        BY <3>2, <3>5, <4>1
      <4>2. CASE ~(Later(p) /\ User(p) = u)
        <5>1. p = q /\ Onward(q) /\ req'[q].at = "source"
          BY <2>2, <3>7, <4>2 DEF Writes
        <5>2. PICK step \in Steps \ {"idle", "commit"} : OnwardTo(q, step)
          BY <5>1 DEF Onward
        <5>3. step = "source" /\ content'[User(q)] # None /\ req'[q].user = req[q].user
          BY <1>1, <5>1, <5>2, GoesTo DEF OnwardTo
        <5> QED
          BY <3>7, <5>1, <5>3
      <4> QED
        BY <4>1, <4>2
    <3> QED
      BY <3>2, <3>3, <3>4, <3>5, <3>6, <3>7
  <2> QED
    BY <2>3, <2>4 DEF ContentStands, Writes
<1> QED
  BY <1>2, <1>3

----------------------------------------------------------------------------
LEMMA Inductive == Inv /\ [Next]_vars => Inv'
  BY TypeStep, RowsStep, PlanStep, AnnounceStep, AuditStep, ContentStep DEF Inv

LEMMA InvHolds == Spec => []Inv
<1>1. Init => Inv
  BY InitInv
<1>2. Inv /\ [Next]_vars => Inv'
  BY Inductive
<1> QED
  BY <1>1, <1>2, PTL DEF Spec

(* Every reachable state is of the declared types.                         *)
THEOREM TypesHold == Spec => []TypeOK
<1>1. Inv => TypeOK
  BY DEF Inv
<1> QED
  BY <1>1, InvHolds, PTL

(* A user never has two live rows for one file, however many requests      *)
(* copy the legacy row at the same time.                                   *)
THEOREM OneRowLives == Spec => []OneHome
<1>1. Inv => OneHome
  BY DEF Inv
<1> QED
  BY <1>1, InvHolds, PTL

(* A confirmed write or delete has its audit rows, those of the copy it    *)
(* made included.                                                          *)
THEOREM ConfirmedAreAudited == Spec => []ConfirmedIsAudited
<1>1. Inv => ConfirmedIsAudited
  BY DEF Inv
<1> QED
  BY <1>1, InvHolds, PTL
(* While its user has not purged it, a live row has its content, whichever *)
(* requests fail between their writes of the one and of the other.         *)
THEOREM LiveRowsHaveContent == Spec => []LiveHasContent
<1>1. Inv => LiveHasContent
  BY DEF Inv, ContentStands, LiveHasContent, Purged
<1> QED
  BY <1>1, InvHolds, PTL

(* No step touches another user's row or content, and only an admin's      *)
(* touches a corpus row.                                                   *)
THEOREM OthersUntouched == Spec => Isolation
<1> DEFINE A == \A q \in Requests : req'[q] # req[q] => OwnOnly(req'[q].user)
<1>1. ASSUME Inv, Next PROVE A
  <2>1. TypeOK
    BY <1>1 DEF Inv
  <2>2. CASE rows' = rows /\ content' = content
    BY <2>2 DEF OwnOnly
  <2>3. CASE rows' # rows
    <3>1. PICK q \in Requests :
             /\ At(q, "commit") /\ ~Taken(q) /\ rows' = Applied(q)
             /\ \E step \in Steps \ {"commit"} : Goes(q, step)
             /\ UNCHANGED content
      BY <1>1, <2>3, RowsChange
    <3>2. req'[q].user = User(q) /\ \A p \in Requests \ {q} : req'[p] = req[p]
      BY <2>1, <3>1, GoesTo
    <3>3. OwnOnly(User(q))
      BY <1>1, <3>1, CommitTouches DEF OwnOnly
    <3> QED
      BY <3>2, <3>3
  <2>4. CASE content' # content
    <3>1. PICK q \in Requests :
             /\ \A v \in Users \ {User(q)} : content'[v] = content[v]
             /\ \E step \in Steps : Goes(q, step)
             /\ UNCHANGED rows
      BY <1>1, <2>4, ContentChange
    <3>2. req'[q].user = User(q) /\ \A p \in Requests \ {q} : req'[p] = req[p]
      BY <2>1, <3>1, GoesTo
    <3>3. OwnOnly(User(q))
      BY <3>1 DEF OwnOnly
    <3> QED
      BY <3>2, <3>3
  <2> QED
    BY <2>2, <2>3, <2>4
<1>2. Inv /\ [Next]_vars => [A]_vars
  BY <1>1
<1>3. Spec => [][A]_vars
  BY <1>2, InvHolds, PTL DEF Spec
<1> QED
  BY <1>3 DEF Isolation

\* What a step may bring back.
ComesBack ==
  /\ \A k \in Keys :
       rows[k] # None /\ ~rows[k].live /\ rows'[k] # None /\ rows'[k].live =>
         \E q \in Requests : /\ req'[q] # req[q]
                             /\ req[q].op = "create" /\ req[q].do = "revive"
  /\ \A u \in Users :
       File(u) # None /\ ~File(u).live /\ File(u)' # None /\ File(u)'.live =>
         \E q \in Requests :
            /\ req'[q] # req[q] /\ req[q].user = u
            /\ \/ req[q].op = "create"
               \/ req[q].op = "update" /\ req[q].do = "copy" /\ rows[u] = None

(* Only a create that read the row deleted brings it back, and only a      *)
(* create, or an update that copies the legacy row it read live, brings    *)
(* back the file of a user.                                                *)
THEOREM RevivedOnPurpose == Spec => OnlyCreateRevives
<1> DEFINE Came(k) == rows[k] # None /\ ~rows[k].live /\ rows'[k] # None /\ rows'[k].live
           Back(u) == File(u) # None /\ ~File(u).live /\ File(u)' # None /\ File(u)'.live
           ByCreate == \E q \in Requests : /\ req'[q] # req[q]
                                          /\ req[q].op = "create" /\ req[q].do = "revive"
           ByOwner(u) == \E q \in Requests :
             /\ req'[q] # req[q] /\ req[q].user = u
             /\ \/ req[q].op = "create"
                \/ req[q].op = "update" /\ req[q].do = "copy" /\ rows[u] = None
<1>1. ASSUME Inv, Next PROVE ComesBack
  <2>1. TypeOK
    BY <1>1 DEF Inv
  <2>2. ASSUME rows' # rows
        PROVE  \E q \in Requests :
                  /\ At(q, "commit") /\ ~Taken(q) /\ rows' = Applied(q)
                  /\ req'[q] # req[q]
    <3>1. PICK q \in Requests :
               /\ At(q, "commit") /\ ~Taken(q) /\ rows' = Applied(q)
               /\ \E step \in Steps \ {"commit"} : Goes(q, step)
      BY <1>1, <2>2, RowsChange
    <3> QED
      BY <2>1, <3>1, GoesTo
  <2>3. ASSUME NEW k \in Keys, Came(k)
        PROVE  ByCreate
    <3>1. PICK q \in Requests :
               /\ At(q, "commit") /\ ~Taken(q) /\ rows' = Applied(q)
               /\ req'[q] # req[q]
      BY <2>2, <2>3
    <3>2. req[q].op = "create" /\ req[q].do = "revive"
      BY <1>1, <2>3, <3>1, CommitTouches
    <3> QED
      BY <3>1, <3>2
  <2>4. ASSUME NEW u \in Users, Back(u)
        PROVE  ByOwner(u)
    <3>1. rows' # rows
      BY <2>4 DEF File, Left
    <3>2. PICK q \in Requests :
               /\ At(q, "commit") /\ ~Taken(q) /\ rows' = Applied(q)
               /\ req'[q] # req[q]
      BY <2>2, <3>1
    <3>3. /\ \A v \in Users \ {User(q)} : rows'[v] = rows[v]
          /\ \A k \in Keys : Came(k) => req[q].op = "create" /\ req[q].do = "revive"
          /\ rows[User(q)] = None /\ rows'[User(q)] # None =>
               req[q].op = "create" \/ (req[q].op = "update" /\ req[q].do = "copy")
      BY <1>1, <3>2, CommitTouches
    <3>4. /\ u \in Keys /\ Bare \in Keys
          /\ Kept
      BY <1>1, RowsStep DEF Keys
    <3>5. CASE rows[u] # None
      <4>1. Came(u)
        BY <2>4, <3>4, <3>5 DEF File, Kept
      <4>2. User(q) = u
        BY <3>3, <4>1
      <4> QED
        BY <3>2, <3>3, <3>4, <4>1, <4>2 DEF User
    <3>6. CASE rows[u] = None /\ rows'[u] # None
      <4>1. User(q) = u
        BY <3>3, <3>6
      <4> QED
        BY <3>2, <3>3, <3>6, <4>1 DEF User
    <3>7. CASE rows[u] = None /\ rows'[u] = None
      <4>1. rows[Bare] # None /\ ~rows[Bare].live /\ rows'[Bare] # None /\ rows'[Bare].live
        BY <2>4, <3>7 DEF File, Left
      <4> QED
        BY <3>4, <4>1 DEF Kept
    <3> QED
      BY <3>5, <3>6, <3>7
  <2> QED
    BY <2>3, <2>4 DEF ComesBack
<1>2. Inv /\ [Next]_vars => [ComesBack]_vars
  BY <1>1
<1>3. Spec => [][ComesBack]_vars
  BY <1>2, InvHolds, PTL DEF Spec
<1> QED
  BY <1>3 DEF OnlyCreateRevives, ComesBack

=============================================================================
