-------------------------- MODULE ConsoleAclProofs --------------------------
(***************************************************************************)
(* Proofs about ConsoleAcl for any keys, bits, requests and programs, any  *)
(* number of operations and incidents, and any table to start from.        *)
(***************************************************************************)
EXTENDS ConsoleAclProperties, FiniteSetTheorems, TLAPS

-----------------------------------------------------------------------------
(* Data. *)

(* A finite set of numbers has a largest one: the sets of those not below  *)
(* a number are ordered by inclusion, and one of them is the smallest.     *)
LEMMA FiniteHasMax ==
    ASSUME NEW S, S \subseteq Nat, IsFiniteSet(S), S # {}
    PROVE  \E x \in S : \A y \in S : y <= x
<1> DEFINE Up(x) == {y \in S : x <= y}
           Ups == {Up(x) : x \in S}
<1>1. Ups \subseteq FiniteSubsetsOf(S) /\ Ups # {}
  <2>1. \A x \in S : Up(x) \in SUBSET S
    OBVIOUS
  <2>2. Ups \subseteq SUBSET S
    BY <2>1
  <2>3. FiniteSubsetsOf(S) = SUBSET S
    BY FS_FiniteSubsetsOfFinite
  <2>4. Ups # {}
    OBVIOUS
  <2> QED
    BY <2>2, <2>3, <2>4
<1>2. PICK U \in Ups : \A V \in Ups : <<V, U>> \notin StrictSubsetOrdering(S)
  <2>1. IsWellFoundedOn(StrictSubsetOrdering(S), FiniteSubsetsOf(S))
    BY FS_StrictSubsetOrderingWellFounded
  <2> HIDE DEF Ups
  <2> QED
    BY <1>1, <2>1, WFMin
<1>3. PICK x \in S : U = Up(x)
    BY <1>2
<1>4. ASSUME NEW y \in S, ~ (y <= x)
      PROVE  FALSE
  <2>1. /\ x \in Nat /\ y \in Nat
        /\ x < y
    BY <1>4
  <2>2. ASSUME NEW z \in Up(y)
        PROVE  z \in Up(x)
    <3>1. z \in S /\ z \in Nat /\ y <= z
      OBVIOUS
    <3> QED
      BY <2>1, <3>1
  <2>3. x \in Up(x) /\ x \notin Up(y)
    BY <2>1
  <2>4. <<Up(y), Up(x)>> \in StrictSubsetOrdering(S)
    BY <2>2, <2>3 DEF StrictSubsetOrdering
  <2> QED
    BY <2>4, <1>2, <1>3
<1> QED
    BY <1>4

LEMMA RowIdsFinite == IsFiniteSet(RowIds)
<1>1. IsFiniteSet(Requests \cup Earlier)
    BY RequestsAssumption, FS_Union
<1>2. IsFiniteSet(1..MaxItems)
    BY KeysAssumption, FS_Interval
<1> QED
    BY <1>1, <1>2, FS_Product DEF RowIds

(* What a program is made of. *)
LEMMA ProgramType ==
    ASSUME NEW g \in Programs
    PROVE  /\ g.op \in {"grant", "bulk", "expire", "modify"}
           /\ Len(g.items) \in 1..MaxItems
           /\ g.op \in {"grant", "modify"} => Len(g.items) = 1
           /\ \A i \in 1..Len(g.items) :
                /\ g.items[i] \in Items
                /\ g.op # "expire" => \E k \in Keys : g.items[i].keys = {k}
<1>1. /\ g.op \in {"grant", "bulk", "expire", "modify"}
      /\ g.items \in Seq(Items)
      /\ Len(g.items) \in 1..MaxItems
      /\ g.op # "expire" => \A i \in DOMAIN g.items : \E k \in Keys : g.items[i].keys = {k}
      /\ g.op \in {"grant", "modify"} => Len(g.items) = 1
    BY ProgramsAssumption
<1>2. DOMAIN g.items = 1..Len(g.items)
    BY <1>1
<1>3. \A i \in 1..Len(g.items) : g.items[i] \in Items
    BY <1>1
<1> QED
    BY <1>1, <1>2, <1>3

-----------------------------------------------------------------------------
(* What a transaction sees. *)

Versions(S) == \A m, n \in S : m.id = n.id => m = n

LEMMA TheVersion ==
    ASSUME NEW S, Versions(S), NEW m \in S
    PROVE  (CHOOSE n \in S : n.id = m.id) = m
    BY DEF Versions

(* Of a row it has written a transaction sees its own version, ...         *)
LEMMA ViewOf ==
    ASSUME NEW r, OneVersion(r)
    PROVE  /\ \A m \in req[r].mine : m.id \in Locked(r) /\ View(r, m.id) = m.row
           /\ \A id : id \notin Locked(r) => View(r, id) = rows[id]
           /\ \A id \in Locked(r) : \E m \in req[r].mine : m.id = id
<1>1. Versions(req[r].mine)
    BY DEF OneVersion, Versions
<1>2. \A m \in req[r].mine : (CHOOSE n \in req[r].mine : n.id = m.id) = m
    BY <1>1, TheVersion
<1> QED
    BY <1>2 DEF View, Locked

(* ... before and after a step.                                            *)
LEMMA ViewOfNext ==
    ASSUME NEW r, OneVersion(r)'
    PROVE  /\ \A m \in req'[r].mine : m.id \in Locked(r)' /\ View(r, m.id)' = m.row
           /\ \A id : id \notin Locked(r)' => View(r, id)' = rows'[id]
           /\ \A id \in Locked(r)' : \E m \in req'[r].mine : m.id = id
<1>1. Versions(req'[r].mine)
    BY DEF OneVersion, Versions
<1>2. \A m \in req'[r].mine : (CHOOSE n \in req'[r].mine : n.id = m.id) = m
    BY <1>1, TheVersion
<1> QED
    BY <1>2 DEF View, Locked

LEMMA ViewType ==
    ASSUME TypeOK, NEW r \in Requests, OneVersion(r), NEW id \in RowIds
    PROVE  View(r, id) \in Rows \cup {None}
<1>1. CASE id \in Locked(r)
  <2>1. PICK m \in req[r].mine : m.id = id
    BY <1>1, ViewOf
  <2>2. m.row \in Rows
    BY DEF TypeOK, RequestType, Written
  <2> QED
    BY <2>1, <2>2, ViewOf
<1>2. CASE id \notin Locked(r)
    BY <1>2, ViewOf DEF TypeOK
<1> QED
    BY <1>1, <1>2

(* The operation at hand. *)
LEMMA ItemType ==
    ASSUME TypeOK, NEW r \in Requests, Stage(r), Open(r)
    PROVE  /\ req[r].prog \in Programs
           /\ req[r].i \in 1..Len(req[r].prog.items)
           /\ Len(req[r].prog.items) \in 1..MaxItems
           /\ Item(r) \in Items
           /\ req[r].prog.op # "expire" => \E k \in Keys : Item(r).keys = {k}
<1>1. req[r].prog \in Programs /\ req[r].i <= Len(req[r].prog.items)
    BY DEF Stage, Open
<1>2. req[r].i \in 1..MaxItems
    BY DEF TypeOK, RequestType
<1>3. Len(req[r].prog.items) \in 1..MaxItems
    BY <1>1, ProgramType
<1>4. req[r].i \in 1..Len(req[r].prog.items)
    BY <1>1, <1>2, <1>3, KeysAssumption
<1> QED
    BY <1>1, <1>3, <1>4, ProgramType DEF Item

(* What a function collects from a finite set is finite.                   *)
LEMMA FiniteImage ==
    ASSUME NEW S, IsFiniteSet(S), NEW T, NEW f \in Surjection(S, T)
    PROVE  IsFiniteSet(T)
    BY FS_Surjection

(* The row an operation inserts is a row: modify has selected some, and    *)
(* only finitely many, so their latest expiry is one of theirs.            *)
LEMMA NewRowType ==
    ASSUME TypeOK, NEW r \in Requests, Stage(r), req[r].step = "insert"
    PROVE  NewRow(r) \in Rows
<1>1. Open(r)
    BY DEF Open
<1>2. Item(r) \in Items /\ \E k \in Keys : Item(r).keys = {k}
    BY <1>1, ItemType DEF Stage
<1>3. (CHOOSE k \in Keys : Item(r).keys = {k}) \in Keys
    BY <1>2
<1>4. SeenRows(r) \subseteq Rows
    BY DEF SeenRows, TypeOK, RequestType, Written
<1>5. CASE req[r].prog.op # "modify"
    BY <1>2, <1>3, <1>5 DEF NewRow, Rows, Items
<1>6. CASE req[r].prog.op = "modify"
  <2>1. SeenRows(r) # {}
    BY <1>6 DEF Stage, SeenRows
  <2>2. Inherited(r) \in Nat
    <3> DEFINE Exps == {x.exp : x \in SeenRows(r)}
    <3>1. Exps \subseteq Nat /\ Exps # {}
      BY <1>4, <2>1 DEF Rows
    <3>2. IsFiniteSet(Exps)
      <4> DEFINE f == [m \in req[r].seen |-> m.row.exp]
      <4>1. /\ f \in [req[r].seen -> Exps]
            /\ \A e \in Exps : \E m \in req[r].seen : f[m] = e
        BY DEF SeenRows
      <4>2. f \in Surjection(req[r].seen, Exps)
        BY <4>1 DEF Surjection
      <4>3. IsFiniteSet(req[r].seen)
        BY DEF Stage
      <4> HIDE DEF Exps, f
      <4> QED
        BY <4>2, <4>3, FiniteImage
    <3>3. PICK e \in Exps : \A f \in Exps : f <= e
      <4> HIDE DEF Exps
      <4> QED
        BY <3>1, <3>2, FiniteHasMax
    <3>4. \E x \in SeenRows(r) : \A y \in SeenRows(r) : y.exp <= x.exp
      BY <3>3
    <3>5. (CHOOSE x \in SeenRows(r) : \A y \in SeenRows(r) : y.exp <= x.exp) \in SeenRows(r)
      BY <3>4
    <3> QED
      BY <3>5, <1>4 DEF Inherited, NoExpiry, Rows
  <2>3. UNION {x.bits : x \in SeenRows(r)} \subseteq Bits
    BY <1>4 DEF Rows
  <2>4. ((UNION {x.bits : x \in SeenRows(r)}) \cup Item(r).bits) \ Item(r).minus \subseteq Bits
    BY <1>2, <2>3 DEF Items
  <2> QED
    BY <1>3, <1>6, <2>2, <2>4 DEF NewRow, Rows
<1> QED
    BY <1>5, <1>6

-----------------------------------------------------------------------------
(* Types. *)

Inv == TypeOK /\ Transactions /\ StoredIsRecorded

(* The request at hand, and all the others, after a step that changes it.  *)
LEMMA OneRequest ==
    ASSUME TypeOK, NEW r \in Requests, NEW y, req' = [req EXCEPT ![r] = y]
    PROVE  /\ req'[r] = y
           /\ \A q \in Requests : q # r => req'[q] = req[q]
           /\ y \in RequestType => req' \in [Requests -> RequestType]
    BY DEF TypeOK

LEMMA MatchingType == \A r : Matching(r) \subseteq RowIds
    BY DEF Matching

LEMMA ClosedType ==
    ASSUME TypeOK, NEW r \in Requests, \E step \in {"denial", "done"} : req' = Closed(r, step)
    PROVE  req' \in [Requests -> RequestType]
<1>1. PICK step \in {"denial", "done"} : req' = Closed(r, step)
    OBVIOUS
<1> DEFINE x == [req[r] EXCEPT !.step = step]
           y == [x EXCEPT !.mine = {}, !.found = {}]
<1>2. y \in RequestType
  <2>1. x \in RequestType
    BY DEF TypeOK, RequestType
  <2> HIDE DEF x
  <2> QED
    BY <2>1 DEF RequestType
<1>3. req' = [req EXCEPT ![r] = y]
    BY <1>1 DEF Closed, TypeOK
<1> QED
    BY <1>2, <1>3, OneRequest

LEMMA TypeStep == Inv /\ [Next]_vars => TypeOK'
<1> SUFFICES ASSUME Inv, [Next]_vars PROVE TypeOK'
    OBVIOUS
<1>0. TypeOK /\ \A r \in Requests : Stage(r) /\ OneVersion(r)
    BY DEF Inv, Transactions
<1> USE DEF Incident, Goes
<1>1. ASSUME Tick
      PROVE  TypeOK'
    BY <1>0, <1>1 DEF Tick, TypeOK
<1>2. ASSUME NEW x \in Resources, RemoveResource(x)
      PROVE  TypeOK'
    BY <1>0, <1>2 DEF RemoveResource, TypeOK
<1>3. ASSUME NEW r \in Requests, Begin(r)
      PROVE  TypeOK'
  <2>1. PICK g \in Programs :
            req' = [req EXCEPT ![r] = [NoRequest EXCEPT !.prog = g, !.now = clock,
                                       !.step = IF g.op = "modify" THEN "select" ELSE "scan"]]
    BY <1>3 DEF Begin
  <2>2. [NoRequest EXCEPT !.prog = g, !.now = clock,
                          !.step = IF g.op = "modify" THEN "select" ELSE "scan"] \in RequestType
    <3>1. NoRequest \in RequestType
      BY KeysAssumption DEF NoRequest, RequestType
    <3>2. clock \in Nat
      BY <1>0 DEF TypeOK
    <3> QED
      BY <3>1, <3>2 DEF RequestType
  <2>3. req' \in [Requests -> RequestType]
    BY <1>0, <2>1, <2>2, OneRequest
  <2> QED
    BY <1>0, <1>3, <2>3 DEF Begin, TypeOK
<1>4. ASSUME NEW r \in Requests, Select(r)
      PROVE  TypeOK'
  <2> DEFINE seen == {[id |-> id, row |-> rows[id]] : id \in Matching(r)}
             step == IF Matching(r) = {} THEN "commit" ELSE "scan"
             y    == [req[r] EXCEPT !.seen = seen, !.step = step]
  <2>1. seen \in SUBSET Written
    <3>1. ASSUME NEW id \in Matching(r)
          PROVE  id \in RowIds /\ rows[id] \in Rows
      <4>1. id \in RowIds /\ View(r, id) # None
        BY <3>1 DEF Matching, Active
      <4>2. req[r].mine = {}
        BY <1>0, <1>4 DEF Select, Stage
      <4>3. View(r, id) = rows[id]
        BY <4>2 DEF View, Locked
      <4> QED
        BY <1>0, <4>1, <4>3 DEF TypeOK
    <3> QED
      BY <3>1 DEF Written
  <2>2. y \in RequestType
    <3>1. step \in {"commit", "scan"} /\ req[r] \in RequestType
      BY <1>0 DEF TypeOK
    <3> HIDE DEF seen, step
    <3> QED
      BY <2>1, <3>1 DEF RequestType
  <2>3. req' = [req EXCEPT ![r] = y]
    BY <1>0, <1>4 DEF Select, TypeOK
  <2>4. req' \in [Requests -> RequestType]
    BY <1>0, <2>2, <2>3, OneRequest
  <2> QED
    BY <1>0, <1>4, <2>4 DEF Select, TypeOK
<1>5. ASSUME NEW r \in Requests, Scan(r)
      PROVE  TypeOK'
    BY <1>0, <1>5, MatchingType DEF Scan, TypeOK, RequestType
<1>6. ASSUME NEW r \in Requests, Apply(r)
      PROVE  TypeOK'
  <2>1. PICK id \in req[r].found :
            req' = [req EXCEPT ![r].found = @ \ {id},
                               ![r].mine = IF Hit(r, id)
                                           THEN {m \in req[r].mine : m.id # id}
                                                  \cup {[id |-> id, row |-> Ended(View(r, id), req[r].now)]}
                                           ELSE @]
    BY <1>6 DEF Apply
  <2> DEFINE ended == [id |-> id, row |-> Ended(View(r, id), req[r].now)]
             mine == IF Hit(r, id) THEN {m \in req[r].mine : m.id # id} \cup {ended}
                                   ELSE req[r].mine
             y == [req[r] EXCEPT !.found = req[r].found \ {id}, !.mine = mine]
  <2>2. mine \in SUBSET Written
    <3>1. ASSUME Hit(r, id)
          PROVE  ended \in Written
      <4>1. id \in RowIds /\ View(r, id) # None
        BY <1>0, <3>1 DEF Hit, Active, TypeOK, RequestType
      <4>2. View(r, id) \in Rows
        BY <1>0, <4>1, ViewType
      <4>3. req[r].now \in Nat
        BY <1>0 DEF TypeOK, RequestType
      <4> QED
        BY <4>1, <4>2, <4>3 DEF Ended, Written, Rows
    <3>2. req[r].mine \in SUBSET Written
      BY <1>0 DEF TypeOK, RequestType
    <3> QED
      BY <3>1, <3>2
  <2>3. req' = [req EXCEPT ![r] = y]
    BY <1>0, <2>1 DEF TypeOK
  <2>4. y \in RequestType
    <3>1. req[r] \in RequestType
      BY <1>0 DEF TypeOK
    <3>2. req[r].found \ {id} \in SUBSET RowIds
      BY <3>1 DEF RequestType
    <3> HIDE DEF mine
    <3> QED
      BY <2>2, <3>1, <3>2 DEF RequestType
  <2> HIDE DEF mine
  <2>5. req' \in [Requests -> RequestType]
    BY <1>0, <2>3, <2>4, OneRequest
  <2> QED
    BY <1>0, <1>6, <2>5 DEF Apply, TypeOK
<1>16. ASSUME NEW r \in Requests, EndUpdate(r)
       PROVE  TypeOK'
  <2>1. Open(r)
    BY <1>16 DEF EndUpdate, Open
  <2>2. /\ req[r].i \in 1..Len(req[r].prog.items)
        /\ Len(req[r].prog.items) \in 1..MaxItems
    BY <1>0, <2>1, ItemType
  <2>3. /\ AfterUpdate(r) \in {"scan", "commit", "insert"}
        /\ AfterUpdate(r) = "scan" => req[r].i + 1 \in 1..MaxItems
    BY <2>2, KeysAssumption DEF AfterUpdate, AfterItem
  <2> DEFINE step == AfterUpdate(r)
             i == IF step = "scan" THEN req[r].i + 1 ELSE req[r].i
             y == [req[r] EXCEPT !.step = step, !.i = i]
  <2>4. req' = [req EXCEPT ![r] = y]
    BY <1>0, <1>16 DEF EndUpdate, TypeOK
  <2>5. i \in 1..MaxItems
    BY <1>0, <2>3 DEF TypeOK, RequestType
  <2>6. step \in {"scan", "commit", "insert"}
    BY <2>3
  <2> HIDE DEF i, step
  <2>7. y \in RequestType
    BY <1>0, <2>5, <2>6 DEF TypeOK, RequestType
  <2>8. req' \in [Requests -> RequestType]
    BY <1>0, <2>4, <2>7, OneRequest
  <2> QED
    BY <1>0, <1>16, <2>8 DEF EndUpdate, TypeOK
<1>7. ASSUME NEW r \in Requests, Insert(r)
      PROVE  TypeOK'
  <2>1. Open(r)
    BY <1>7 DEF Insert, Open
  <2>2. /\ req[r].i \in 1..Len(req[r].prog.items)
        /\ Len(req[r].prog.items) \in 1..MaxItems
    BY <1>0, <2>1, ItemType
  <2>3. NewRow(r) \in Rows
    BY <1>0, <1>7, NewRowType DEF Insert
  <2>4. <<r, req[r].i>> \in RowIds
    BY <1>0 DEF TypeOK, RequestType, RowIds
  <2>5. [id |-> <<r, req[r].i>>, row |-> NewRow(r)] \in Written
    BY <2>3, <2>4 DEF Written
  <2>6. /\ AfterItem(r) \in {"scan", "commit"}
        /\ AfterItem(r) = "scan" => req[r].i + 1 \in 1..MaxItems
    BY <2>2, KeysAssumption DEF AfterItem
  <2>7. req' \in [Requests -> RequestType]
    BY <1>0, <1>7, <2>5, <2>6 DEF Insert, TypeOK, RequestType
  <2> QED
    BY <1>0, <1>7, <2>7 DEF Insert, TypeOK
<1>8. ASSUME NEW r \in Requests, Installed(r)
      PROVE  /\ rows' \in [RowIds -> Rows \cup {None}]
             /\ audit' \subseteq [req : Requests, outcome : {"success", "denied"}]
    BY <1>0, <1>8, ViewType DEF Installed, TypeOK
<1>10. ASSUME NEW r \in Requests, Commit(r)
       PROVE  TypeOK'
  <2>1. req' \in [Requests -> RequestType]
    BY <1>0, <1>10, ClosedType DEF Commit
  <2> QED
    BY <1>0, <1>8, <1>10, <2>1 DEF Commit, TypeOK
<1>11. ASSUME NEW r \in Requests, Refuse(r)
       PROVE  TypeOK'
  <2>1. req' \in [Requests -> RequestType]
    BY <1>0, <1>11, ClosedType DEF Refuse
  <2> QED
    BY <1>0, <1>11, <2>1 DEF Refuse, TypeOK
<1>12. ASSUME NEW r \in Requests, Fails(r)
       PROVE  TypeOK'
  <2>1. req' \in [Requests -> RequestType]
    BY <1>0, <1>12, ClosedType DEF Fails
  <2> QED
    BY <1>0, <1>8, <1>12, <2>1 DEF Fails, TypeOK
<1>13. ASSUME NEW r \in Requests, Denial(r)
       PROVE  TypeOK'
    BY <1>0, <1>13 DEF Denial, TypeOK, RequestType
<1>14. ASSUME NEW r \in Requests, Cut(r)
       PROVE  TypeOK'
  <2>1. req' \in [Requests -> RequestType]
    BY <1>0, <1>14, ClosedType DEF Cut
  <2> QED
    BY <1>0, <1>14, <2>1 DEF Cut, TypeOK
<1>15. CASE UNCHANGED vars
    BY <1>0, <1>15 DEF vars, TypeOK
<1> QED
    BY <1>1, <1>2, <1>3, <1>4, <1>5, <1>6, <1>7, <1>10, <1>11, <1>12, <1>13, <1>14, <1>15,
       <1>16
    DEF Next, Step

-----------------------------------------------------------------------------
(* Steps that leave the table alone. *)

Sound(r) == /\ Stage(r) /\ OneVersion(r) /\ Writes(r)
            /\ Progress(r) /\ Recorded(r) /\ Coverage(r)

(* A request that a step does not touch stays sound if the table does not  *)
(* change and nobody records its success.                                  *)
LEMMA Untouched ==
    ASSUME Inv, NEW q \in Requests, rows' = rows, req'[q] = req[q],
           Succeeded(q)' => Succeeded(q)
    PROVE  Sound(q)'
<1>1. Sound(q)
    BY DEF Inv, Transactions, Sound
<1>2. /\ Locked(q)' = Locked(q)
      /\ Open(q)' = Open(q)
      /\ \A id : View(q, id)' = View(q, id)
    BY DEF Locked, View, Open
<1>3. Inserted(q)' = Inserted(q)
    BY <1>2 DEF Inserted
<1>4. Stage(q)' /\ OneVersion(q)' /\ Writes(q)'
    BY <1>1, <1>2 DEF Sound, Stage, OneVersion, Writes, Open
<1>5. Progress(q)' /\ Recorded(q)' /\ Coverage(q)'
    BY <1>1, <1>2, <1>3 DEF Sound, Progress, Recorded, Coverage
<1> QED
    BY <1>4, <1>5 DEF Sound

(* So a step of r is sound if r is, and takes no row that another has      *)
(* written.                                                                *)
LEMMA QuietStep ==
    ASSUME Inv, NEW r \in Requests, rows' = rows,
           \A q \in Requests : Succeeded(q)' <=> Succeeded(q),
           \A q \in Requests : q # r => req'[q] = req[q],
           Sound(r)',
           \A q \in Requests : q # r => Locked(r)' \cap Locked(q) = {}
    PROVE  Transactions' /\ StoredIsRecorded'
<1>1. \A q \in Requests : Sound(q)'
    BY Untouched
<1>2. \A q \in Requests : q # r => Locked(q)' = Locked(q)
    BY DEF Locked
<1>3. ASSUME NEW p \in Requests, NEW q \in Requests \ {p}
      PROVE  Locked(p)' \cap Locked(q)' = {}
  <2>1. Locked(p) \cap Locked(q) = {}
    BY DEF Inv, Transactions, Apart
  <2> QED
    BY <1>2, <2>1
<1>4. \A p \in Requests : Apart(p)'
    BY <1>3 DEF Apart
<1>5. Transactions'
    BY <1>1, <1>4 DEF Transactions, Sound
<1>6. StoredIsRecorded'
    BY DEF Inv, StoredIsRecorded, Stored
<1> QED
    BY <1>5, <1>6

(* A request that is under way has not been recorded as done.              *)
LEMMA UnderWay ==
    ASSUME Inv, NEW r \in Requests, Open(r) \/ req[r].step = "idle"
    PROVE  ~ Succeeded(r) /\ \A i \in 1..MaxItems : rows[<<r, i>>] = None
<1>1. ~ Succeeded(r)
    BY DEF Inv, Transactions, Recorded, Open
<1> QED
    BY <1>1 DEF Inv, StoredIsRecorded, Stored

LEMMA BeginStep ==
    ASSUME Inv, TypeOK', NEW r \in Requests, Begin(r)
    PROVE  Transactions' /\ StoredIsRecorded'
<1>1. TypeOK /\ Sound(r)
    BY DEF Inv, Transactions, Sound
<1>2. PICK g \in Programs :
          req' = [req EXCEPT ![r] = [NoRequest EXCEPT !.prog = g, !.now = clock,
                                     !.step = IF g.op = "modify" THEN "select" ELSE "scan"]]
    BY DEF Begin
<1>3. /\ req'[r].step = IF g.op = "modify" THEN "select" ELSE "scan"
      /\ req'[r].prog = g /\ req'[r].now = clock /\ req'[r].i = 1
      /\ req'[r].found = {} /\ req'[r].seen = {}
      /\ req'[r].mine = {} /\ req'[r].covered = {}
    BY <1>1, <1>2 DEF TypeOK, NoRequest
<1>4. \A q \in Requests : q # r => req'[q] = req[q]
    BY <1>1, <1>2 DEF TypeOK
<1>5. rows' = rows /\ \A q \in Requests : Succeeded(q)' <=> Succeeded(q)
    BY DEF Begin, Succeeded
<1>6. ~ Succeeded(r)
    BY UnderWay DEF Begin
<1>7. Locked(r)' = {} /\ Inserted(r)' = {}
    BY <1>3 DEF Locked, Inserted
<1>8. Stage(r)'
  <2>1. g.op \in {"grant", "bulk", "expire", "modify"} /\ 1 <= Len(g.items)
    BY ProgramType, KeysAssumption
  <2>2. clock # 0
    BY <1>1 DEF TypeOK
  <2>3. IsFiniteSet({})
    BY FS_EmptySet
  <2> QED
    BY <1>3, <2>1, <2>2, <2>3 DEF Stage, Open
<1>9. OneVersion(r)' /\ Writes(r)' /\ Coverage(r)' /\ Recorded(r)'
    BY <1>3, <1>5, <1>6 DEF OneVersion, Writes, Coverage, Recorded
<1>10. Progress(r)'
  <2>1. req'[r].step # "commit" /\ req'[r].i - 1 = 0
    BY <1>3
  <2>2. 1..0 = {}
    OBVIOUS
  <2> QED
    BY <1>7, <2>1, <2>2 DEF Progress
<1> QED
    BY <1>4, <1>5, <1>6, <1>7, <1>8, <1>9, <1>10, QuietStep DEF Sound

LEMMA SelectStep ==
    ASSUME Inv, TypeOK', NEW r \in Requests, Select(r)
    PROVE  Transactions' /\ StoredIsRecorded'
<1>1. TypeOK /\ Sound(r)
    BY DEF Inv, Transactions, Sound
<1> DEFINE seen == {[id |-> id, row |-> rows[id]] : id \in Matching(r)}
           step == IF Matching(r) = {} THEN "commit" ELSE "scan"
<1>2. req[r].step = "select"
    BY DEF Select
<1>3. /\ req'[r].step = step /\ req'[r].seen = seen
      /\ req'[r].prog = req[r].prog /\ req'[r].now = req[r].now /\ req'[r].i = req[r].i
      /\ req'[r].found = req[r].found
      /\ req'[r].mine = req[r].mine /\ req'[r].covered = req[r].covered
      /\ \A q \in Requests : q # r => req'[q] = req[q]
  <2>1. req' = [req EXCEPT ![r].seen = seen, ![r].step = step]
    BY DEF Select
  <2> HIDE DEF seen, step
  <2> QED
    BY <1>1, <2>1 DEF TypeOK, RequestType
<1>4. rows' = rows /\ \A q \in Requests : Succeeded(q)' <=> Succeeded(q)
    BY DEF Select, Succeeded
<1>5. ~ Succeeded(r)
    BY <1>2, UnderWay DEF Open
<1>6. /\ req[r].prog.op = "modify" /\ req[r].mine = {} /\ req[r].covered = {}
      /\ req[r].found = {}
    BY <1>1, <1>2 DEF Sound, Stage
<1>7. Locked(r)' = {} /\ Inserted(r)' = {}
    BY <1>3, <1>6 DEF Locked, Inserted
<1>8. Stage(r)'
  <2>1. /\ req[r].prog \in Programs /\ req[r].now # 0
        /\ req[r].i <= Len(req[r].prog.items)
    BY <1>1, <1>2 DEF Sound, Stage, Open
  <2>2. IsFiniteSet(seen)
    <3> DEFINE f == [id \in Matching(r) |-> [id |-> id, row |-> rows[id]]]
    <3>1. /\ f \in [Matching(r) -> seen]
          /\ \A e \in seen : \E id \in Matching(r) : f[id] = e
      OBVIOUS
    <3>2. f \in Surjection(Matching(r), seen)
      BY <3>1 DEF Surjection
    <3>3. IsFiniteSet(Matching(r))
      BY MatchingType, RowIdsFinite, FS_Subset
    <3> HIDE DEF seen, f
    <3> QED
      BY <3>2, <3>3, FiniteImage
  <2>3. step = "scan" => seen # {}
    OBVIOUS
  <2>4. step \in {"commit", "scan"}
    OBVIOUS
  <2> HIDE DEF seen, step
  <2> QED
    BY <1>3, <1>6, <2>1, <2>2, <2>3, <2>4 DEF Stage, Open
<1>9. OneVersion(r)' /\ Writes(r)' /\ Coverage(r)' /\ Recorded(r)'
    BY <1>3, <1>4, <1>5, <1>6 DEF OneVersion, Writes, Coverage, Recorded
<1>10. Progress(r)'
  <2>1. /\ req[r].i \in 1..Len(req[r].prog.items)
        /\ Len(req[r].prog.items) = 1
    BY <1>1, <1>2, <1>6, ItemType, ProgramType DEF Sound, Open
  <2>2. req[r].i = Len(req[r].prog.items)
    BY <2>1
  <2> QED
    BY <1>3, <1>6, <1>7, <2>2 DEF Progress
<1> QED
    BY <1>3, <1>4, <1>5, <1>7, <1>8, <1>9, <1>10, QuietStep DEF Sound

LEMMA ScanStep ==
    ASSUME Inv, TypeOK', NEW r \in Requests, Scan(r)
    PROVE  Transactions' /\ StoredIsRecorded'
<1>1. TypeOK /\ Sound(r)
    BY DEF Inv, Transactions, Sound
<1>2. req[r].step = "scan"
    BY DEF Scan
<1>3. /\ req'[r].step = "apply" /\ req'[r].found = Matching(r)
      /\ req'[r].covered = req[r].covered \cup Matching(r)
      /\ req'[r].prog = req[r].prog /\ req'[r].now = req[r].now /\ req'[r].i = req[r].i
      /\ req'[r].mine = req[r].mine /\ req'[r].seen = req[r].seen
      /\ \A q \in Requests : q # r => req'[q] = req[q]
    BY <1>1 DEF Scan, TypeOK, RequestType
<1>4. rows' = rows /\ \A q \in Requests : Succeeded(q)' <=> Succeeded(q)
    BY DEF Scan, Succeeded
<1>5. ~ Succeeded(r) /\ Open(r) /\ Open(r)'
    BY <1>2, <1>3, UnderWay DEF Open
<1>6. /\ Locked(r)' = Locked(r) /\ Inserted(r)' = Inserted(r)
      /\ \A id : View(r, id)' = View(r, id)
    BY <1>3, <1>4 DEF Locked, Inserted, View
<1>7. Stage(r)'
    BY <1>1, <1>2, <1>3, <1>5 DEF Sound, Stage
<1>8. OneVersion(r)' /\ Writes(r)' /\ Recorded(r)'
    BY <1>1, <1>3, <1>4, <1>5 DEF Sound, OneVersion, Writes, Recorded
<1>9. Progress(r)'
    BY <1>1, <1>2, <1>3, <1>5, <1>6 DEF Sound, Progress
<1>10. Coverage(r)'
  <2>1. \A id \in Matching(r) : View(r, id) # None
    BY DEF Matching, Active
  <2>2. \A id \in req[r].covered : /\ View(r, id) # None
                                   /\ ~ Active(View(r, id), req[r].now)
    BY <1>1, <1>2, <1>5 DEF Sound, Coverage, Stage
  <2> QED
    BY <1>3, <1>4, <1>5, <1>6, <2>1, <2>2 DEF Coverage
<1>11. \A q \in Requests : q # r => Locked(r)' \cap Locked(q) = {}
    BY <1>6 DEF Inv, Transactions, Apart
<1> QED
    BY <1>3, <1>4, <1>5, <1>7, <1>8, <1>9, <1>10, <1>11, QuietStep DEF Sound

(* A row an UPDATE ends is locked by nobody else, and is either a          *)
(* committed one, as it was, or a row of the transaction itself.           *)
LEMMA ApplyStep ==
    ASSUME Inv, TypeOK', NEW r \in Requests, Apply(r)
    PROVE  Transactions' /\ StoredIsRecorded'
<1>1. TypeOK /\ Sound(r)
    BY DEF Inv, Transactions, Sound
<1>2. req[r].step = "apply" /\ Open(r) /\ ~ Succeeded(r)
    BY UnderWay DEF Apply, Open
<1>0. PICK it \in req[r].found :
          /\ ~ Taken(r, it)
          /\ req' = [req EXCEPT ![r].found = @ \ {it},
                                ![r].mine = IF Hit(r, it)
                                            THEN {m \in req[r].mine : m.id # it}
                                                   \cup {[id |-> it, row |-> Ended(View(r, it), req[r].now)]}
                                            ELSE @]
    BY DEF Apply
<1> DEFINE x == req[r]
           hits == IF Hit(r, it) THEN {it} ELSE {}
           kept == {m \in x.mine : m.id \notin hits}
           ends == {[id |-> id, row |-> Ended(View(r, id), x.now)] : id \in hits}
<1>3. /\ req'[r].mine = kept \cup ends /\ req'[r].found = x.found \ {it}
      /\ req'[r].step = x.step /\ req'[r].i = x.i
      /\ req'[r].prog = x.prog /\ req'[r].now = x.now
      /\ req'[r].seen = x.seen /\ req'[r].covered = x.covered
      /\ \A q \in Requests : q # r => req'[q] = req[q]
  <2> DEFINE mine == IF Hit(r, it)
                     THEN {m \in x.mine : m.id # it}
                            \cup {[id |-> it, row |-> Ended(View(r, it), x.now)]}
                     ELSE x.mine
  <2>1. mine = kept \cup ends
    <3>1. CASE Hit(r, it)
      BY <3>1
    <3>2. CASE ~ Hit(r, it)
      BY <3>2
    <3> QED
      BY <3>1, <3>2
  <2>2. req' = [req EXCEPT ![r].found = x.found \ {it}, ![r].mine = mine]
    BY <1>0, <1>1 DEF TypeOK
  <2> HIDE DEF kept, ends, mine
  <2> QED
    BY <1>1, <2>1, <2>2 DEF TypeOK, RequestType
<1>4. rows' = rows /\ \A q \in Requests : Succeeded(q)' <=> Succeeded(q)
    BY DEF Apply, Succeeded
<1>5. /\ hits \subseteq x.found /\ x.found \subseteq x.covered
      /\ \A id \in hits : /\ id \in RowIds
                          /\ Active(View(r, id), x.now)
                          /\ \A q \in Requests : q # r => id \notin Locked(q)
      /\ \A id \in x.found : id \in hits \/ id # it \/ ~ Active(View(r, id), x.now)
  <2>1. x.found \subseteq RowIds
    BY <1>1 DEF TypeOK, RequestType
  <2>2. x.found \subseteq x.covered
    BY <1>1 DEF Sound, Stage
  <2> QED
    BY <1>0, <2>1, <2>2 DEF Hit, Taken
<1>6. /\ x.prog \in Programs
      /\ x.i \in 1..Len(x.prog.items)
    BY <1>1, <1>2, ItemType DEF Sound
<1> HIDE DEF hits
<1>9. Open(r)'
    BY <1>2, <1>3 DEF Open
<1>10. /\ Locked(r)' = Locked(r) \cup hits
       /\ \A m \in kept \cup ends :
            \/ m \in x.mine /\ m.id \notin hits
            \/ m.id \in hits /\ m.row = Ended(View(r, m.id), x.now)
  <2>1. \A m \in ends : m.id \in hits /\ m.row = Ended(View(r, m.id), x.now)
    OBVIOUS
  <2>2. ASSUME NEW id \in hits
        PROVE  \E m \in ends : m.id = id
    <3> DEFINE w == [id |-> id, row |-> Ended(View(r, id), x.now)]
    <3>1. w \in ends /\ w.id = id
      OBVIOUS
    <3> QED
      BY <3>1
  <2>3. \A m \in kept : m \in x.mine /\ m.id \notin hits
    OBVIOUS
  <2>4. \A m \in x.mine : m.id \notin hits => m \in kept
    OBVIOUS
  <2> HIDE DEF kept, ends
  <2>5. \A id : /\ id \in Locked(r)' <=> \E m \in kept \cup ends : m.id = id
                /\ id \in Locked(r) <=> \E m \in x.mine : m.id = id
    BY <1>3 DEF Locked
  <2>6. \A id : id \in Locked(r)' <=> id \in Locked(r) \cup hits
    BY <2>1, <2>2, <2>3, <2>4, <2>5
  <2> QED
    BY <2>1, <2>3, <2>6
<1>11. OneVersion(r)'
  <2>1. \A m, n \in kept \cup ends : m.id = n.id => m = n
    <3> SUFFICES ASSUME NEW m \in kept \cup ends, NEW n \in kept \cup ends, m.id = n.id
                 PROVE  m = n
      OBVIOUS
    <3>1. m \in Written /\ n \in Written
      BY <1>1, <1>3 DEF TypeOK, RequestType
    <3>2. CASE m.id \in hits
      <4>1. m.row = n.row
        BY <3>2, <1>10
      <4> QED
        BY <3>1, <4>1 DEF Written
    <3>3. CASE m.id \notin hits
      BY <3>3, <1>1, <1>10 DEF Sound, OneVersion
    <3> QED
      BY <3>2, <3>3
  <2> QED
    BY <1>3, <2>1 DEF OneVersion
<1>12. Writes(r)'
  <2> SUFFICES ASSUME NEW m \in kept \cup ends
               PROVE  \/ rows[m.id] = None /\ m.id[1] = r
                      \/ /\ m.id \in x.covered /\ Active(rows[m.id], x.now)
                         /\ m.row = Ended(rows[m.id], x.now)
    BY <1>3, <1>4 DEF Writes
  <2>1. CASE m \in x.mine /\ m.id \notin hits
    BY <2>1, <1>1 DEF Sound, Writes
  <2>2. CASE m.id \in hits /\ m.row = Ended(View(r, m.id), x.now)
    <3>1. CASE m.id \notin Locked(r)
      BY <2>2, <3>1, <1>1, <1>5, ViewOf DEF Sound
    <3>2. CASE m.id \in Locked(r)
      <4>1. PICK n \in x.mine : n.id = m.id
        BY <3>2 DEF Locked
      <4>2. Active(n.row, x.now)
        BY <4>1, <2>2, <1>1, <1>5, ViewOf DEF Sound
      <4>3. ~ (Active(rows[n.id], x.now) /\ n.row = Ended(rows[n.id], x.now))
        <5> SUFFICES ASSUME Active(rows[n.id], x.now), n.row = Ended(rows[n.id], x.now)
                     PROVE  FALSE
          OBVIOUS
        <5>1. rows[n.id] \in Rows
          BY <1>1, <2>2, <4>1, <1>5 DEF TypeOK, Active
        <5>2. n.row.exp = x.now
          BY <5>1 DEF Ended, Rows
        <5>3. x.now \in Nat \ {0}
          BY <1>1, <1>2 DEF Sound, Stage, TypeOK, RequestType
        <5> QED
          BY <4>2, <5>2, <5>3 DEF Active, NoExpiry
      <4> QED
        BY <1>1, <4>1, <4>3 DEF Sound, Writes
    <3> QED
      BY <3>1, <3>2
  <2> QED
    BY <1>10, <2>1, <2>2
<1>13. Inserted(r)' = Inserted(r)
  <2>1. \A j \in 1..MaxItems : <<r, j>> \in hits => <<r, j>> \in Locked(r)
    <3> SUFFICES ASSUME NEW j \in 1..MaxItems, <<r, j>> \in hits, <<r, j>> \notin Locked(r)
                 PROVE  FALSE
      OBVIOUS
    <3>1. View(r, <<r, j>>) = rows[<<r, j>>]
      BY <1>1, ViewOf DEF Sound
    <3>2. rows[<<r, j>>] = None
      BY <1>2, UnderWay
    <3> QED
      BY <1>5, <3>1, <3>2 DEF Active
  <2> QED
    BY <1>10, <2>1 DEF Inserted
<1>14. Stage(r)'
  <2> HIDE DEF kept, ends
  <2> QED
    BY <1>1, <1>2, <1>3, <1>9 DEF Sound, Stage
<1>15. Progress(r)'
    BY <1>1, <1>2, <1>3, <1>13 DEF Sound, Progress
<1>16. Recorded(r)'
    BY <1>2, <1>4 DEF Recorded
<1>17. Coverage(r)'
  <2> SUFFICES ASSUME NEW id \in x.covered
               PROVE  /\ View(r, id)' # None
                      /\ id \in x.found \ {it} \/ ~ Active(View(r, id)', x.now)
    BY <1>2, <1>3, <1>4 DEF Coverage
  <2>0. id \in RowIds
    BY <1>1 DEF TypeOK, RequestType
  <2>1. View(r, id) # None /\ (id \in x.found \/ ~ Active(View(r, id), x.now))
    BY <1>1, <1>2 DEF Sound, Coverage
  <2>2. CASE id \in hits
    <3>1. PICK m \in req'[r].mine : m.id = id
      BY <1>10, <2>2 DEF Locked
    <3>2. View(r, id)' = Ended(View(r, id), x.now)
      BY <1>3, <1>10, <1>11, <2>2, <3>1, ViewOfNext
    <3>3. View(r, id) \in Rows
      BY <1>1, <2>0, <2>1, ViewType DEF Sound
    <3>4. x.now \in Nat \ {0}
      BY <1>1, <1>2 DEF Sound, Stage, TypeOK, RequestType
    <3>5. View(r, id)' \in Rows /\ View(r, id)'.exp = x.now
      BY <3>2, <3>3, <3>4 DEF Ended, Rows
    <3> QED
      BY <3>4, <3>5, RowsAssumption DEF Active, NoExpiry
  <2>3. CASE id \notin hits
    <3>1. View(r, id)' = View(r, id)
      <4>1. CASE id \in Locked(r)
        <5>1. PICK m \in x.mine : m.id = id
          BY <4>1 DEF Locked
        <5>2. m \in req'[r].mine
          BY <1>3, <2>3, <5>1
        <5> QED
          BY <5>1, <5>2, <1>1, <1>11, ViewOf, ViewOfNext DEF Sound
      <4>2. CASE id \notin Locked(r)
        <5>1. id \notin Locked(r)'
          BY <4>2, <2>3, <1>10
        <5> QED
          BY <4>2, <5>1, <1>1, <1>4, <1>11, ViewOf, ViewOfNext DEF Sound
      <4> QED
        BY <4>1, <4>2
    <3>2. id \in x.found \ {it} \/ ~ Active(View(r, id), x.now)
      BY <1>5, <2>1, <2>3
    <3> QED
      BY <2>1, <3>1, <3>2
  <2> QED
    BY <2>2, <2>3
<1>18. \A q \in Requests : q # r => Locked(r)' \cap Locked(q) = {}
  <2>1. \A q \in Requests : q # r => Locked(r) \cap Locked(q) = {}
    BY DEF Inv, Transactions, Apart
  <2> QED
    BY <1>5, <1>10, <2>1
<1> QED
    BY <1>2, <1>3, <1>4, <1>11, <1>12, <1>14, <1>15, <1>16, <1>17, <1>18, QuietStep DEF Sound

(* An UPDATE that has reached all its rows has ended them.                 *)
LEMMA EndUpdateStep ==
    ASSUME Inv, TypeOK', NEW r \in Requests, EndUpdate(r)
    PROVE  Transactions' /\ StoredIsRecorded'
<1>1. TypeOK /\ Sound(r)
    BY DEF Inv, Transactions, Sound
<1> DEFINE x == req[r]
           step == AfterUpdate(r)
           i == IF step = "scan" THEN x.i + 1 ELSE x.i
<1>2. x.step = "apply" /\ x.found = {} /\ Open(r) /\ ~ Succeeded(r)
    BY UnderWay DEF EndUpdate, Open
<1>3. /\ req'[r].step = step /\ req'[r].i = i
      /\ req'[r].mine = x.mine /\ req'[r].found = x.found
      /\ req'[r].prog = x.prog /\ req'[r].now = x.now
      /\ req'[r].seen = x.seen /\ req'[r].covered = x.covered
      /\ \A q \in Requests : q # r => req'[q] = req[q]
  <2>1. req' = [req EXCEPT ![r].step = step, ![r].i = IF step = "scan" THEN @ + 1 ELSE @]
    BY DEF EndUpdate
  <2> HIDE DEF step
  <2> QED
    BY <1>1, <2>1 DEF TypeOK, RequestType
<1>4. rows' = rows /\ \A q \in Requests : Succeeded(q)' <=> Succeeded(q)
    BY DEF EndUpdate, Succeeded
<1>5. /\ x.prog \in Programs
      /\ x.prog.op \in {"grant", "bulk", "expire", "modify"}
      /\ x.i \in 1..Len(x.prog.items)
      /\ Len(x.prog.items) \in 1..MaxItems /\ Len(x.prog.items) \in Nat
      /\ x.prog.op = "modify" => Len(x.prog.items) = 1
    BY <1>1, <1>2, ItemType, ProgramType, KeysAssumption DEF Sound
<1>15. x.i = Len(x.prog.items) \/ x.i < Len(x.prog.items)
  <2>1. \A n \in Nat : \A k \in 1..n : k = n \/ k < n
    OBVIOUS
  <2> QED
    BY <1>5, <2>1
<1>6. /\ step \in {"scan", "insert", "commit"}
      /\ step = "scan" => x.prog.op = "expire" /\ x.i < Len(x.prog.items)
      /\ step = "insert" => x.prog.op # "expire"
      /\ step = "commit" => /\ x.prog.op \in {"expire", "modify"}
                            /\ x.prog.op = "modify" => x.mine = {}
                            /\ x.i = Len(x.prog.items)
  <2>1. \/ AfterItem(r) = "scan" /\ x.i < Len(x.prog.items)
        \/ AfterItem(r) = "commit" /\ x.i = Len(x.prog.items)
    BY <1>5, <1>15 DEF AfterItem
  <2>2. CASE x.prog.op = "expire"
    <3>1. step = AfterItem(r)
      BY <2>2 DEF AfterUpdate
    <3> QED
      BY <2>1, <2>2, <3>1
  <2>3. CASE x.prog.op = "modify"
    <3>1. step = IF x.mine = {} THEN "commit" ELSE "insert"
      BY <2>3 DEF AfterUpdate
    <3>2. Len(x.prog.items) = 1
      BY <1>5, <2>3
    <3>3. x.i \in 1..1
      BY <1>5, <3>2
    <3>4. x.i = Len(x.prog.items)
      BY <3>2, <3>3
    <3> QED
      BY <2>3, <3>1, <3>4
  <2>4. CASE x.prog.op \in {"grant", "bulk"}
    <3>1. step = "insert"
      BY <2>4 DEF AfterUpdate
    <3> QED
      BY <2>4, <3>1
  <2> QED
    BY <1>5, <2>2, <2>3, <2>4
<1>7. /\ i \in 1..Len(x.prog.items)
      /\ step # "scan" => i = x.i
    BY <1>5, <1>6
<1> HIDE DEF step, i
<1>8. Open(r)'
    BY <1>3, <1>6 DEF Open
<1>9. /\ Locked(r)' = Locked(r) /\ Inserted(r)' = Inserted(r)
      /\ \A id : View(r, id)' = View(r, id)
    BY <1>3, <1>4 DEF Locked, Inserted, View
<1>10. Stage(r)'
  <2>1. /\ x.now # 0 /\ IsFiniteSet(x.seen)
        /\ x.prog.op = "modify" => x.seen # {}
    BY <1>1, <1>2 DEF Sound, Stage
  <2>2. i <= Len(x.prog.items)
    BY <1>5, <1>7
  <2> QED
    BY <1>2, <1>3, <1>5, <1>6, <1>8, <2>1, <2>2 DEF Stage
<1>11. OneVersion(r)' /\ Writes(r)' /\ Recorded(r)'
    BY <1>1, <1>2, <1>3, <1>4 DEF Sound, OneVersion, Writes, Recorded
<1>12. Progress(r)'
  <2>1. /\ \A j \in Inserted(r) : j < x.i
        /\ x.prog.op \in {"grant", "bulk"} => Inserted(r) = 1..(x.i - 1)
        /\ x.prog.op = "expire" => Inserted(r) = {}
    BY <1>1, <1>2 DEF Sound, Progress
  <2>2. \A j \in Inserted(r) : j < i
    BY <1>6, <1>7, <2>1
  <2>3. x.prog.op \in {"grant", "bulk"} => step # "commit" /\ i = x.i
    BY <1>6, <1>7
  <2>4. step = "commit" => i = Len(x.prog.items) /\ (x.prog.op = "modify" => x.mine = {})
    BY <1>6, <1>7
  <2> QED
    BY <1>3, <1>9, <2>1, <2>2, <2>3, <2>4 DEF Progress
<1>13. Coverage(r)'
    BY <1>1, <1>2, <1>3, <1>4, <1>8, <1>9 DEF Sound, Coverage
<1>14. \A q \in Requests : q # r => Locked(r)' \cap Locked(q) = {}
    BY <1>9 DEF Inv, Transactions, Apart
<1> QED
    BY <1>3, <1>4, <1>10, <1>11, <1>12, <1>13, <1>14, QuietStep DEF Sound

(* The row an operation inserts has a name nobody has written before.      *)
LEMMA InsertStep ==
    ASSUME Inv, TypeOK', NEW r \in Requests, Insert(r)
    PROVE  Transactions' /\ StoredIsRecorded'
<1>1. TypeOK /\ Sound(r)
    BY DEF Inv, Transactions, Sound
<1> DEFINE x == req[r]
           new == [id |-> <<r, x.i>>, row |-> NewRow(r)]
           step == AfterItem(r)
           i == IF step = "scan" THEN x.i + 1 ELSE x.i
<1>2. x.step = "insert" /\ Open(r) /\ ~ Succeeded(r)
    BY UnderWay DEF Insert, Open
<1>3. /\ req'[r].mine = x.mine \cup {new} /\ req'[r].step = step /\ req'[r].i = i
      /\ req'[r].found = x.found
      /\ req'[r].prog = x.prog /\ req'[r].now = x.now
      /\ req'[r].seen = x.seen /\ req'[r].covered = x.covered
      /\ \A q \in Requests : q # r => req'[q] = req[q]
  <2>1. req' = [req EXCEPT ![r].mine = @ \cup {new}, ![r].step = step,
                           ![r].i = IF step = "scan" THEN @ + 1 ELSE @]
    BY DEF Insert
  <2> HIDE DEF new, step
  <2> QED
    BY <1>1, <2>1 DEF TypeOK, RequestType
<1>4. rows' = rows /\ \A q \in Requests : Succeeded(q)' <=> Succeeded(q)
    BY DEF Insert, Succeeded
<1>5. /\ x.prog \in Programs
      /\ x.i \in 1..Len(x.prog.items)
      /\ Len(x.prog.items) \in 1..MaxItems /\ Len(x.prog.items) \in Nat
      /\ x.i \in 1..MaxItems
    BY <1>1, <1>2, ItemType, KeysAssumption DEF Sound, TypeOK, RequestType
<1>6. /\ step \in {"scan", "commit"}
      /\ step = "scan" => i = x.i + 1 /\ i <= Len(x.prog.items)
      /\ step = "commit" => i = x.i /\ x.i = Len(x.prog.items)
    BY <1>5 DEF AfterItem
<1>7. /\ new.id = <<r, x.i>> /\ <<r, x.i>> \in RowIds
      /\ rows[<<r, x.i>>] = None
    BY <1>2, <1>5, UnderWay DEF RowIds
<1> HIDE DEF step, i, new
<1>8. Open(r)'
    BY <1>3, <1>6 DEF Open
<1>9. <<r, x.i>> \notin Locked(r)
    BY <1>1, <1>2, <1>5 DEF Sound, Progress, Inserted
<1>10. \A q \in Requests : q # r => <<r, x.i>> \notin Locked(q)
  <2> SUFFICES ASSUME NEW q \in Requests, q # r, NEW m \in req[q].mine, m.id = <<r, x.i>>
               PROVE  FALSE
    BY DEF Locked
  <2>1. \/ rows[m.id] = None /\ m.id[1] = q
        \/ Active(rows[m.id], req[q].now)
    BY DEF Inv, Transactions, Writes
  <2> QED
    BY <1>7, <2>1 DEF Active
<1>11. Locked(r)' = Locked(r) \cup {<<r, x.i>>}
    BY <1>3, <1>7 DEF Locked
<1>12. OneVersion(r)'
  <2>1. \A m \in x.mine : m.id # <<r, x.i>>
    BY <1>9 DEF Locked
  <2> QED
    BY <1>1, <1>3, <1>7, <2>1 DEF Sound, OneVersion
<1>13. Writes(r)'
    BY <1>1, <1>3, <1>4, <1>7 DEF Sound, Writes
<1>14. Stage(r)'
  <2>1. /\ x.prog.op # "expire" /\ x.now # 0 /\ x.found = {} /\ IsFiniteSet(x.seen)
        /\ x.prog.op = "modify" => x.seen # {}
    BY <1>1, <1>2 DEF Sound, Stage
  <2>2. i <= Len(x.prog.items)
    BY <1>5, <1>6
  <2> QED
    BY <1>3, <1>5, <1>6, <1>8, <2>1, <2>2 DEF Stage
<1>15. Progress(r)'
  <2>1. /\ \A j \in Inserted(r) : j < x.i
        /\ x.prog.op \in {"grant", "bulk"} => Inserted(r) = 1..(x.i - 1)
    BY <1>1, <1>2 DEF Sound, Progress
  <2>2. Inserted(r)' = Inserted(r) \cup {x.i}
    <3>1. \A j \in 1..MaxItems : <<r, j>> = <<r, x.i>> <=> j = x.i
      OBVIOUS
    <3> QED
      BY <1>5, <1>11, <3>1 DEF Inserted
  <2>3. \A j \in Inserted(r)' : j < i \/ step = "commit"
    <3> SUFFICES ASSUME NEW j \in Inserted(r)', step = "scan"
                 PROVE  j < i
      BY <1>6
    <3>1. j \in 1..MaxItems /\ j <= x.i
      BY <1>5, <2>1, <2>2, KeysAssumption DEF Inserted
    <3> QED
      BY <1>5, <1>6, <3>1, KeysAssumption
  <2>4. ASSUME x.prog.op \in {"grant", "bulk"}
        PROVE  Inserted(r)' = 1..(IF step = "commit" THEN Len(x.prog.items) ELSE i - 1)
    <3>1. Inserted(r)' = (1..(x.i - 1)) \cup {x.i}
      BY <2>1, <2>2, <2>4
    <3>2. (1..(x.i - 1)) \cup {x.i} = 1..x.i
      BY <1>5
    <3>3. (IF step = "commit" THEN Len(x.prog.items) ELSE i - 1) = x.i
      BY <1>5, <1>6
    <3> QED
      BY <3>1, <3>2, <3>3
  <2>5. x.prog.op # "expire" /\ (step = "commit" => i = Len(x.prog.items))
    BY <1>1, <1>2, <1>6 DEF Sound, Stage
  <2>6. ASSUME x.prog.op = "modify"
        PROVE  Inserted(r)' = {1}
    <3>1. x.i = 1
      BY <1>5, <2>6, ProgramType
    <3>2. \A j \in Inserted(r) : j \in 1..MaxItems /\ j < 1
      BY <2>1, <3>1 DEF Inserted
    <3>3. Inserted(r) = {}
      BY <3>2, KeysAssumption
    <3> QED
      BY <2>2, <3>1, <3>3
  <2> QED
    BY <1>3, <2>3, <2>4, <2>5, <2>6 DEF Progress
<1>16. Recorded(r)'
    BY <1>2, <1>4 DEF Recorded
<1>17. Coverage(r)'
  <2> SUFFICES ASSUME NEW id \in x.covered
               PROVE  View(r, id)' # None /\ ~ Active(View(r, id)', x.now)
    BY <1>2, <1>3, <1>4 DEF Coverage
  <2>1. View(r, id) # None /\ ~ Active(View(r, id), x.now)
    BY <1>1, <1>2 DEF Sound, Coverage, Stage
  <2>2. View(r, id)' = View(r, id)
    <3>1. CASE id \in Locked(r)
      <4>1. PICK m \in x.mine : m.id = id
        BY <3>1 DEF Locked
      <4>2. m \in req'[r].mine
        BY <1>3, <4>1
      <4> QED
        BY <4>1, <4>2, <1>1, <1>12, ViewOf, ViewOfNext DEF Sound
    <3>2. CASE id \notin Locked(r)
      <4>1. View(r, id) = rows[id]
        BY <3>2, <1>1, ViewOf DEF Sound
      <4>2. id \notin Locked(r)'
        BY <1>7, <1>11, <2>1, <3>2, <4>1
      <4> QED
        BY <4>1, <4>2, <1>4, <1>12, ViewOfNext
    <3> QED
      BY <3>1, <3>2
  <2> QED
    BY <2>1, <2>2
<1>18. \A q \in Requests : q # r => Locked(r)' \cap Locked(q) = {}
  <2>1. \A q \in Requests : q # r => Locked(r) \cap Locked(q) = {}
    BY DEF Inv, Transactions, Apart
  <2> QED
    BY <1>10, <1>11, <2>1
<1> QED
    BY <1>2, <1>3, <1>4, <1>12, <1>13, <1>14, <1>15, <1>16, <1>17, <1>18, QuietStep DEF Sound

(* A transaction that is rolled back leaves nothing, not even its locks.   *)
LEMMA ClosingStep ==
    ASSUME Inv, TypeOK', NEW r \in Requests, Open(r) \/ req[r].step = "denial",
           rows' = rows, \A q \in Requests : Succeeded(q)' <=> Succeeded(q),
           \E step \in {"denial", "done"} : req' = Closed(r, step)
    PROVE  Transactions' /\ StoredIsRecorded'
<1>1. TypeOK /\ Sound(r)
    BY DEF Inv, Transactions, Sound
<1>2. PICK step \in {"denial", "done"} : req' = Closed(r, step)
    OBVIOUS
<1>3. /\ req'[r].step = step /\ req'[r].mine = {} /\ req'[r].found = {}
      /\ req'[r].prog = req[r].prog /\ req'[r].now = req[r].now
      /\ req'[r].seen = req[r].seen /\ req'[r].covered = req[r].covered
      /\ \A q \in Requests : q # r => req'[q] = req[q]
    BY <1>1, <1>2 DEF Closed, TypeOK, RequestType
<1>4. ~ Open(r)' /\ Locked(r)' = {}
    BY <1>3 DEF Open, Locked
<1>5. Stage(r)'
    BY <1>1, <1>3, <1>4 DEF Sound, Stage, Open
<1>6. OneVersion(r)' /\ Writes(r)' /\ Progress(r)' /\ Recorded(r)'
    BY <1>3, <1>4 DEF OneVersion, Writes, Progress, Recorded
<1>7. Coverage(r)'
    BY <1>1, <1>3, <1>4 DEF Sound, Coverage
<1> QED
    BY <1>3, <1>4, <1>5, <1>6, <1>7, QuietStep DEF Sound

LEMMA DenialStep ==
    ASSUME Inv, TypeOK', NEW r \in Requests, Denial(r)
    PROVE  Transactions' /\ StoredIsRecorded'
<1>1. TypeOK /\ Sound(r)
    BY DEF Inv, Transactions, Sound
<1>2. /\ req[r].step = "denial" /\ req'[r].step = "done"
      /\ req'[r].mine = req[r].mine /\ req'[r].found = req[r].found
      /\ req'[r].prog = req[r].prog /\ req'[r].now = req[r].now /\ req'[r].i = req[r].i
      /\ req'[r].seen = req[r].seen /\ req'[r].covered = req[r].covered
      /\ \A q \in Requests : q # r => req'[q] = req[q]
    BY <1>1 DEF Denial, Goes, TypeOK, RequestType
<1>3. rows' = rows /\ \A q \in Requests : Succeeded(q)' <=> Succeeded(q)
    BY DEF Denial, Succeeded
<1>4. ~ Open(r)' /\ ~ Open(r) /\ Locked(r)' = Locked(r)
    BY <1>2 DEF Open, Locked
<1>5. Stage(r)'
    BY <1>1, <1>2, <1>4 DEF Sound, Stage
<1>6. OneVersion(r)' /\ Writes(r)' /\ Progress(r)' /\ Recorded(r)' /\ Coverage(r)'
    BY <1>1, <1>2, <1>3, <1>4 DEF Sound, OneVersion, Writes, Progress, Recorded, Coverage
<1>7. \A q \in Requests : q # r => Locked(r)' \cap Locked(q) = {}
    BY <1>4 DEF Inv, Transactions, Apart
<1> QED
    BY <1>2, <1>3, <1>5, <1>6, <1>7, QuietStep DEF Sound

-----------------------------------------------------------------------------
(* The step that changes the table. *)

(* An expiry that is brought forward ends nothing later than it ended.     *)
LEMMA EndedIsEarlier ==
    ASSUME NEW row \in Rows, NEW n \in Nat \ {0}, Active(row, n)
    PROVE  /\ Ended(row, n) \in Rows
           /\ Ended(row, n).key = row.key /\ Ended(row, n).bits = row.bits
           /\ Ended(row, n).exp # NoExpiry /\ Active(row, Ended(row, n).exp)
           /\ \A m \in Nat : ~ Active(row, m) => ~ Active(Ended(row, n), m)
<1>1. /\ Ended(row, n) \in Rows /\ Ended(row, n).exp = n
      /\ Ended(row, n).key = row.key /\ Ended(row, n).bits = row.bits
    BY DEF Ended, Rows
<1>2. Ended(row, n) # None /\ row # None
    BY <1>1, RowsAssumption
<1>3. row.exp \in Nat
    BY DEF Rows
<1> QED
    BY <1>1, <1>2, <1>3 DEF Active, NoExpiry

(* A commit ends committed rows, and adds rows of its own.                 *)
LEMMA InstalledRows ==
    ASSUME Inv, NEW r \in Requests, Open(r), Installed(r), NEW id \in RowIds
    PROVE  /\ rows'[id] = View(r, id)
           /\ rows[id] # None =>
                /\ rows'[id] \in Rows
                /\ \/ rows'[id] = rows[id]
                   \/ /\ rows'[id].key = rows[id].key /\ rows'[id].bits = rows[id].bits
                      /\ rows'[id].exp # NoExpiry /\ Active(rows[id], rows'[id].exp)
                /\ \A m \in Nat : ~ Active(rows[id], m) => ~ Active(rows'[id], m)
           /\ id \notin Locked(r) => rows'[id] = rows[id]
           /\ id \in Locked(r) => rows'[id] \in Rows /\ (rows[id] # None \/ id[1] = r)
<1>1. TypeOK /\ Sound(r)
    BY DEF Inv, Transactions, Sound
<1>2. rows'[id] = View(r, id)
    BY DEF Installed
<1>3. CASE id \notin Locked(r)
  <2>1. rows'[id] = rows[id]
    BY <1>1, <1>2, <1>3, ViewOf DEF Sound
  <2> QED
    BY <1>1, <1>2, <1>3, <2>1 DEF TypeOK
<1>4. CASE id \in Locked(r)
  <2>1. PICK m \in req[r].mine : m.id = id
    BY <1>4 DEF Locked
  <2>2. rows'[id] = m.row /\ m.row \in Rows
    BY <1>1, <1>2, <2>1, ViewOf DEF Sound, TypeOK, RequestType, Written
  <2>3. \/ rows[id] = None /\ id[1] = r
        \/ Active(rows[id], req[r].now) /\ m.row = Ended(rows[id], req[r].now)
    BY <1>1, <2>1 DEF Sound, Writes
  <2>4. CASE rows[id] = None /\ id[1] = r
    BY <1>2, <1>4, <2>2, <2>4
  <2>5. CASE Active(rows[id], req[r].now) /\ m.row = Ended(rows[id], req[r].now)
    <3>1. rows[id] \in Rows
      BY <1>1, <2>5 DEF TypeOK, Active
    <3>2. req[r].now \in Nat \ {0}
      BY <1>1 DEF Sound, Stage, Open, TypeOK, RequestType
    <3> QED
      BY <1>2, <1>4, <2>2, <2>5, <3>1, <3>2, EndedIsEarlier, RowsAssumption
  <2> QED
    BY <2>3, <2>4, <2>5
<1> QED
    BY <1>3, <1>4

LEMMA InstallStep ==
    ASSUME Inv, TypeOK', NEW r \in Requests, req[r].step = "commit", Installed(r),
           \E step \in {"denial", "done"} : req' = Closed(r, step)
    PROVE  Transactions' /\ StoredIsRecorded'
<1>1. TypeOK /\ \A q \in Requests : Sound(q)
    BY DEF Inv, Transactions, Sound
<1>2. PICK step \in {"denial", "done"} : req' = Closed(r, step)
    OBVIOUS
<1>3. /\ req'[r].step = step /\ req'[r].mine = {} /\ req'[r].found = {}
      /\ req'[r].prog = req[r].prog /\ req'[r].now = req[r].now
      /\ req'[r].seen = req[r].seen /\ req'[r].covered = req[r].covered
      /\ \A q \in Requests : q # r => req'[q] = req[q]
    BY <1>1, <1>2 DEF Closed, TypeOK, RequestType
<1>4. ~ Open(r)' /\ Locked(r)' = {}
    BY <1>3 DEF Open, Locked
<1>5. Open(r) /\ ~ Succeeded(r) /\ \A i \in 1..MaxItems : rows[<<r, i>>] = None
    BY UnderWay DEF Open
<1>6. /\ Succeeded(r)'
      /\ \A q \in Requests : q # r => (Succeeded(q)' <=> Succeeded(q))
    BY DEF Installed, Succeeded
<1>7. \A q \in Requests : req[q].covered \subseteq RowIds /\ req[q].now \in Nat
    BY <1>1 DEF TypeOK, RequestType
<1>8. Sound(r)'
  <2>1. Stage(r)'
    BY <1>1, <1>3, <1>4, <1>5 DEF Sound, Stage, Open
  <2>2. OneVersion(r)' /\ Writes(r)' /\ Progress(r)' /\ Recorded(r)'
    BY <1>3, <1>4 DEF OneVersion, Writes, Progress, Recorded
  <2>3. \A id \in req[r].covered : View(r, id) # None /\ ~ Active(View(r, id), req[r].now)
    BY <1>1, <1>5 DEF Sound, Coverage, Stage
  <2>4. Coverage(r)'
    BY <1>3, <1>4, <1>5, <1>7, <2>3, InstalledRows DEF Coverage
  <2> QED
    BY <2>1, <2>2, <2>4 DEF Sound
<1>9. ASSUME NEW q \in Requests, q # r
      PROVE  Sound(q)'
  <2>1. req'[q] = req[q]
    BY <1>3, <1>9
  <2>2. Locked(q)' = Locked(q) /\ Inserted(q)' = Inserted(q) /\ Open(q)' = Open(q)
    BY <2>1 DEF Locked, Inserted, Open
  <2>3. Locked(r) \cap Locked(q) = {}
    BY <1>9 DEF Inv, Transactions, Apart
  <2>4. Stage(q)' /\ OneVersion(q)'
    BY <1>1, <2>1 DEF Sound, Stage, OneVersion, Open
  <2>5. Progress(q)' /\ Recorded(q)'
    BY <1>1, <1>6, <1>9, <2>1, <2>2 DEF Sound, Progress, Recorded
  <2>6. Writes(q)'
    <3>1. ASSUME NEW m \in req[q].mine
          PROVE  m.id \in RowIds /\ m.id \notin Locked(r)
      <4>1. m.id \in Locked(q)
        BY DEF Locked
      <4>2. m \in Written
        BY <1>1 DEF TypeOK, RequestType
      <4> QED
        BY <2>3, <4>1, <4>2 DEF Written
    <3>2. \A m \in req[q].mine : rows'[m.id] = rows[m.id]
      BY <1>5, <3>1, InstalledRows
    <3> QED
      BY <1>1, <2>1, <3>2 DEF Sound, Writes
  <2>7. Coverage(q)'
    <3>1. ASSUME Open(q), NEW id \in req[q].covered
          PROVE  /\ View(q, id)' # None
                 /\ id \in req[q].found \/ ~ Active(View(q, id)', req[q].now)
      <4>1. /\ View(q, id) # None
            /\ id \in req[q].found \/ ~ Active(View(q, id), req[q].now)
        BY <1>1, <3>1 DEF Sound, Coverage
      <4>2. CASE id \in Locked(q)
        <5>1. PICK m \in req[q].mine : m.id = id
          BY <4>2 DEF Locked
        <5>2. View(q, id) = m.row
          BY <1>1, <5>1, ViewOf DEF Sound
        <5>3. View(q, id)' = m.row
          BY <2>1, <2>4, <5>1, ViewOfNext
        <5> QED
          BY <4>1, <5>2, <5>3
      <4>3. CASE id \notin Locked(q)
        <5>1. View(q, id) = rows[id]
          BY <1>1, <4>3, ViewOf DEF Sound
        <5>2. View(q, id)' = rows'[id]
          BY <2>2, <2>4, <4>3, ViewOfNext
        <5>3. /\ rows'[id] \in Rows
              /\ ~ Active(rows[id], req[q].now) => ~ Active(rows'[id], req[q].now)
          BY <1>5, <1>7, <4>1, <5>1, InstalledRows
        <5> QED
          BY <4>1, <5>1, <5>2, <5>3, RowsAssumption
      <4> QED
        BY <4>2, <4>3
    <3>2. ASSUME Succeeded(q), NEW id \in req[q].covered
          PROVE  rows'[id] # None /\ ~ Active(rows'[id], req[q].now)
      <4>1. rows[id] # None /\ ~ Active(rows[id], req[q].now)
        BY <1>1, <3>2 DEF Sound, Coverage
      <4> QED
        BY <1>5, <1>7, <4>1, InstalledRows, RowsAssumption
    <3> QED
      BY <1>6, <1>9, <2>1, <2>2, <3>1, <3>2 DEF Coverage
  <2> QED
    BY <2>4, <2>5, <2>6, <2>7 DEF Sound
<1>10. ASSUME NEW p \in Requests, NEW q \in Requests \ {p}
       PROVE  Locked(p)' \cap Locked(q)' = {}
  <2>1. Locked(p) \cap Locked(q) = {}
    BY DEF Inv, Transactions, Apart
  <2>2. \A o \in Requests : o # r => Locked(o)' = Locked(o)
    BY <1>3 DEF Locked
  <2> QED
    BY <1>4, <2>1, <2>2
<1>11. Transactions'
    BY <1>8, <1>9, <1>10 DEF Transactions, Sound, Apart
<1>12. StoredIsRecorded'
  <2>1. \A q \in Requests, i \in 1..MaxItems : <<q, i>> \in RowIds
    BY DEF RowIds
  <2>2. ASSUME NEW q \in Requests, q # r, NEW i \in 1..MaxItems
        PROVE  rows'[<<q, i>>] # None => rows[<<q, i>>] # None
    <3>1. <<q, i>>[1] # r
      BY <2>2
    <3> QED
      BY <1>5, <2>1, <3>1, InstalledRows, RowsAssumption
  <2> QED
    BY <1>6, <2>2 DEF Inv, StoredIsRecorded, Stored
<1> QED
    BY <1>11, <1>12

-----------------------------------------------------------------------------
(* The theorems. *)

LEMMA InvInit == Init => Inv
<1> SUFFICES ASSUME Init PROVE Inv
    OBVIOUS
<1>1. NoRequest \in RequestType
    BY KeysAssumption DEF NoRequest, RequestType
<1>2. rows \in [RowIds -> Rows \cup {None}]
      /\ \A r \in Requests, i \in 1..MaxItems : rows[<<r, i>>] = None
    BY RowsAssumption DEF Init
<1>3. TypeOK
    BY <1>1, <1>2 DEF Init, TypeOK
<1>4. \A r \in Requests : req[r] = NoRequest /\ ~ Succeeded(r) /\ ~ Open(r)
    BY DEF Init, Succeeded, Open, NoRequest
<1>5. \A r \in Requests : Locked(r) = {}
    BY <1>4 DEF Locked, NoRequest
<1>6. IsFiniteSet({})
    BY FS_EmptySet
<1>7. ASSUME NEW r \in Requests
      PROVE  Stage(r)
  <2>1. /\ req[r] = NoRequest /\ req[r].step = "idle" /\ req[r].prog.op = "none"
        /\ req[r].mine = {} /\ req[r].found = {} /\ req[r].covered = {} /\ req[r].seen = {}
    BY <1>4 DEF NoRequest, NoProgram
  <2> QED
    BY <1>4, <1>6, <2>1 DEF Stage
<1>8. Transactions
    BY <1>4, <1>5, <1>7
    DEF Transactions, OneVersion, Writes, Apart, Progress, Recorded, Coverage, NoRequest
<1>9. StoredIsRecorded
    BY <1>2, <1>4 DEF StoredIsRecorded, Stored
<1> QED
    BY <1>3, <1>8, <1>9 DEF Inv

\* A step of the clock, of a resource, or none at all.
LEMMA ElsewhereStep ==
    ASSUME Inv, rows' = rows, audit' = audit, req' = req
    PROVE  Transactions' /\ StoredIsRecorded'
<1>1. \A q \in Requests : Sound(q)'
    BY Untouched DEF Succeeded
<1>2. \A q \in Requests : Apart(q)'
    BY DEF Inv, Transactions, Apart, Locked
<1>3. Transactions'
    BY <1>1, <1>2 DEF Transactions, Sound
<1>4. StoredIsRecorded'
    BY DEF Inv, StoredIsRecorded, Stored, Succeeded
<1> QED
    BY <1>3, <1>4

(* How a failed request ends: rolled back, or committed with the reply     *)
(* lost.                                                                   *)
LEMMA FailsCases ==
    ASSUME NEW r, Fails(r)
    PROVE  /\ Open(r) /\ \E step \in {"denial", "done"} : req' = Closed(r, step)
           /\ \/ rows' = rows /\ audit' = audit
              \/ req[r].step = "commit" /\ Installed(r)
    BY DEF Fails

LEMMA InvNext == Inv /\ [Next]_vars => Inv'
<1> SUFFICES ASSUME Inv, [Next]_vars PROVE Inv'
    OBVIOUS
<1>0. TypeOK'
    BY TypeStep
<1> SUFFICES Transactions' /\ StoredIsRecorded'
    BY <1>0 DEF Inv
<1>1. ASSUME Tick \/ \E x \in Resources : RemoveResource(x)
      PROVE  Transactions' /\ StoredIsRecorded'
  <2>1. rows' = rows /\ audit' = audit /\ req' = req
    BY <1>1 DEF Tick, RemoveResource
  <2> QED
    BY <2>1, ElsewhereStep
<1>2. ASSUME NEW r \in Requests, Begin(r)
      PROVE  Transactions' /\ StoredIsRecorded'
    BY <1>0, <1>2, BeginStep
<1>3. ASSUME NEW r \in Requests, Select(r)
      PROVE  Transactions' /\ StoredIsRecorded'
    BY <1>0, <1>3, SelectStep
<1>4. ASSUME NEW r \in Requests, Scan(r)
      PROVE  Transactions' /\ StoredIsRecorded'
    BY <1>0, <1>4, ScanStep
<1>5. ASSUME NEW r \in Requests, Apply(r)
      PROVE  Transactions' /\ StoredIsRecorded'
    BY <1>0, <1>5, ApplyStep
<1>13. ASSUME NEW r \in Requests, EndUpdate(r)
       PROVE  Transactions' /\ StoredIsRecorded'
    BY <1>0, <1>13, EndUpdateStep
<1>6. ASSUME NEW r \in Requests, Insert(r)
      PROVE  Transactions' /\ StoredIsRecorded'
    BY <1>0, <1>6, InsertStep
<1>7. ASSUME NEW r \in Requests, Commit(r)
      PROVE  Transactions' /\ StoredIsRecorded'
    BY <1>0, <1>7, InstallStep DEF Commit
<1>8. ASSUME NEW r \in Requests, Refuse(r)
      PROVE  Transactions' /\ StoredIsRecorded'
  <2>1. Open(r)
    BY <1>8 DEF Refuse, Refused, Deadlocked, Waits, WaitsForRow, WaitsForInsert, Open
  <2>2. \A q \in Requests : Succeeded(q)' <=> Succeeded(q)
    BY <1>8 DEF Refuse, Succeeded
  <2> QED
    BY <1>0, <1>8, <2>1, <2>2, ClosingStep DEF Refuse
<1>9. ASSUME NEW r \in Requests, Fails(r)
      PROVE  Transactions' /\ StoredIsRecorded'
  <2>1. CASE rows' = rows /\ audit' = audit
    <3>1. \A q \in Requests : Succeeded(q)' <=> Succeeded(q)
      BY <2>1 DEF Succeeded
    <3> QED
      BY <1>0, <1>9, <2>1, <3>1, FailsCases, ClosingStep
  <2>2. CASE req[r].step = "commit" /\ Installed(r)
    BY <1>0, <1>9, <2>2, FailsCases, InstallStep
  <2> QED
    BY <1>9, <2>1, <2>2, FailsCases
<1>10. ASSUME NEW r \in Requests, Denial(r)
       PROVE  Transactions' /\ StoredIsRecorded'
    BY <1>0, <1>10, DenialStep
<1>11. ASSUME NEW r \in Requests, Cut(r)
       PROVE  Transactions' /\ StoredIsRecorded'
  <2>1. \A q \in Requests : Succeeded(q)' <=> Succeeded(q)
    BY <1>11 DEF Cut, Succeeded
  <2> QED
    BY <1>0, <1>11, <2>1, ClosingStep DEF Cut
<1>12. CASE UNCHANGED vars
    BY <1>12, ElsewhereStep DEF vars
<1> QED
    BY <1>1, <1>2, <1>3, <1>4, <1>5, <1>6, <1>7, <1>8, <1>9, <1>10, <1>11, <1>12,
       <1>13
    DEF Next, Step

LEMMA Inductive == Spec => []Inv
    BY InvInit, InvNext, PTL DEF Spec

(* The table and the transactions keep their types; modify always has a    *)
(* latest expiry to pass on.                                               *)
THEOREM TypeCorrect == Spec => []TypeOK
<1>1. Inv => TypeOK
    BY DEF Inv
<1> QED
    BY <1>1, Inductive, PTL

(* Whatever requests meet, wait for each other, are refused or fail, what  *)
(* a recorded request has matched is inactive from its stamp on.           *)
THEOREM ExpiredForGood == Spec => []ExpiredStaysExpired
<1>1. Inv => ExpiredStaysExpired
    BY DEF Inv, Transactions, Coverage, ExpiredStaysExpired
<1> QED
    BY <1>1, Inductive, PTL

\* What a step may do to the table: nothing, or the whole of one request.
Wholly ==
    /\ \A r \in Requests : Records(r) => Whole(r)
    /\ \A id \in RowIds : rows'[id] # rows[id] =>
          \E r \in Requests : Records(r) /\ (id[1] = r \/ id \in req[r].covered)

(* A commit puts all of a request into the table: its program has come to  *)
(* its last operation, every insert is there, and every row matched is     *)
(* ended.                                                                  *)
LEMMA InstalledWhole ==
    ASSUME Inv, NEW r \in Requests, req[r].step = "commit", Installed(r)
    PROVE  Whole(r) /\ Records(r) /\ \A q \in Requests : Records(q) => q = r
<1>1. TypeOK /\ Sound(r) /\ Open(r)
    BY DEF Inv, Transactions, Sound, Open
<1>2. ~ Succeeded(r) /\ \A i \in 1..MaxItems : rows[<<r, i>>] = None
    BY <1>1, UnderWay
<1>3. Records(r) /\ \A q \in Requests : Records(q) => q = r
    BY <1>2 DEF Records, Installed, Succeeded
<1>4. /\ req[r].prog \in Programs
      /\ req[r].prog.op \in {"grant", "bulk", "expire", "modify"}
      /\ req[r].prog.op = "modify" => Len(req[r].prog.items) = 1
    BY <1>1, ItemType, ProgramType DEF Sound
<1>5. Stored(r)' = Inserted(r)
  <2>1. \A i \in 1..MaxItems : <<r, i>> \in RowIds
    BY DEF RowIds
  <2>2. \A i \in 1..MaxItems : rows'[<<r, i>>] # None <=> i \in Inserted(r)
    BY <1>1, <1>2, <2>1, InstalledRows, RowsAssumption DEF Inserted
  <2> QED
    BY <2>2 DEF Stored, Inserted
<1>6. /\ req[r].i = Len(req[r].prog.items)
      /\ req[r].prog.op \in {"grant", "bulk"} => Inserted(r) = 1..Len(req[r].prog.items)
      /\ req[r].prog.op = "expire" => Inserted(r) = {}
      /\ req[r].prog.op = "modify" => Inserted(r) = {1} \/ req[r].mine = {}
    BY <1>1 DEF Sound, Progress
<1>7. req[r].mine = {} => rows' = rows
  <2> SUFFICES ASSUME req[r].mine = {}
               PROVE  rows' = rows
    OBVIOUS
  <2>1. \A id \in RowIds : rows'[id] = rows[id]
    BY <1>1, InstalledRows DEF Locked
  <2>2. rows' = [id \in RowIds |-> View(r, id)]
    BY DEF Installed
  <2>3. rows \in [RowIds -> Rows \cup {None}]
    BY <1>1 DEF TypeOK
  <2> QED
    BY <2>1, <2>2, <2>3
<1>8. 1..1 = {1}
    OBVIOUS
<1>9. \A id \in req[r].covered : ~ Active(rows'[id], req[r].now)
  <2>1. req[r].covered \subseteq RowIds
    BY <1>1 DEF TypeOK, RequestType
  <2>2. \A id \in req[r].covered : ~ Active(View(r, id), req[r].now)
    BY <1>1 DEF Sound, Coverage, Stage
  <2> QED
    BY <1>1, <2>1, <2>2, InstalledRows
<1>10. Whole(r)
    BY <1>4, <1>5, <1>6, <1>7, <1>8, <1>9 DEF Whole
<1> QED
    BY <1>3, <1>10

LEMMA WhollyStep == Inv /\ [Next]_vars => Wholly
<1> SUFFICES ASSUME Inv, [Next]_vars
             PROVE  Wholly
    OBVIOUS
<1>1. CASE \E r \in Requests : req[r].step = "commit" /\ Installed(r)
  <2>1. PICK r \in Requests : req[r].step = "commit" /\ Installed(r)
    BY <1>1
  <2>2. Sound(r) /\ Open(r)
    BY <2>1 DEF Inv, Transactions, Sound, Open
  <2>3. ASSUME NEW id \in RowIds, rows'[id] # rows[id]
        PROVE  id[1] = r \/ id \in req[r].covered
    <3>1. id \in Locked(r)
      BY <2>1, <2>2, <2>3, InstalledRows
    <3> QED
      BY <2>2, <3>1 DEF Locked, Sound, Writes
  <2> QED
    BY <2>1, <2>3, InstalledWhole DEF Wholly
<1>2. CASE ~ \E r \in Requests : req[r].step = "commit" /\ Installed(r)
  <2>1. rows' = rows /\ \A r \in Requests : Succeeded(r)' => Succeeded(r)
    <3>1. ASSUME NEW r \in Requests, Fails(r)
          PROVE  rows' = rows /\ audit' = audit
      BY <1>2, <3>1, FailsCases
    <3>2. ASSUME NEW r \in Requests, Denial(r)
          PROVE  rows' = rows /\ \A q \in Requests : Succeeded(q)' => Succeeded(q)
      BY <3>2 DEF Denial, Succeeded
    <3>3. ASSUME NEW r \in Requests, Commit(r)
          PROVE  FALSE
      BY <1>2, <3>3 DEF Commit
    <3>4. ASSUME audit' = audit
          PROVE  \A r \in Requests : Succeeded(r)' => Succeeded(r)
      BY <3>4 DEF Succeeded
    <3> QED
      BY <3>1, <3>2, <3>3, <3>4
      DEF Next, Step, Tick, RemoveResource, Begin, Select, Scan, Apply, EndUpdate, Insert,
          Refuse, Cut, vars
  <2> QED
    BY <2>1 DEF Wholly, Records
<1> QED
    BY <1>1, <1>2

(* Each request enters the table with all its inserts, all its expiries    *)
(* and its audit row in one step, or not at all.                           *)
THEOREM Atomic == Spec => AllOrNothing
<1>1. Inv /\ [Next]_vars => [Wholly]_vars
    BY WhollyStep
<1>2. Spec => [][Wholly]_vars
    BY <1>1, Inductive, PTL DEF Spec
<1> QED
    BY <1>2 DEF AllOrNothing, Wholly

(* The transactions are as they should be, the locks among them: no two    *)
(* hold the same row.                                                      *)
THEOREM TransactionsSound == Spec => []Transactions
<1>1. Inv => Transactions
    BY DEF Inv
<1> QED
    BY <1>1, Inductive, PTL

\* What a step may do to a row.
Appends ==
    \A id \in RowIds : rows[id] # None =>
        /\ rows'[id] # None
        /\ rows'[id].key = rows[id].key /\ rows'[id].bits = rows[id].bits
        /\ \/ rows'[id].exp = rows[id].exp
           \/ rows'[id].exp # NoExpiry /\ Active(rows[id], rows'[id].exp)

LEMMA AppendsStep == Inv /\ [Next]_vars => Appends
<1> SUFFICES ASSUME Inv, [Next]_vars, rows' # rows
             PROVE  Appends
    BY DEF Appends
<1>1. PICK r \in Requests : Commit(r) \/ Fails(r)
    BY DEF Next, Step, Tick, RemoveResource, Begin, Select, Scan, Apply, EndUpdate, Insert, Refuse,
           Denial, Cut, vars
<1>2. Open(r) /\ Installed(r)
    BY <1>1, FailsCases DEF Commit, Open
<1> QED
    BY <1>2, InstalledRows, RowsAssumption DEF Appends

(* The table is append-only: no step takes a row away, changes what it     *)
(* grants, or puts its expiry off.                                         *)
THEOREM AppendOnly == Spec => ExpiryOnlyEarlier
<1>1. Inv /\ [Next]_vars => [Appends]_vars
    BY AppendsStep
<1>2. Spec => [][Appends]_vars
    BY <1>1, Inductive, PTL DEF Spec
<1> QED
    BY <1>2 DEF ExpiryOnlyEarlier, Appends
=============================================================================
