----------------------------- MODULE ConsoleAcl -----------------------------
(***************************************************************************)
(* The write path of the console ACL: grants of permission bits on the     *)
(* resources of one owner, appended to console_acl_entries and ended by    *)
(* setting an expiry, never changed in place and never deleted.            *)
(*                                                                         *)
(* Grant and bulk expire what is active at a key and insert; revoke and    *)
(* delete expire; modify selects, expires and inserts the recomputed bits. *)
(* Each request is one READ COMMITTED transaction that stamps everything   *)
(* with the time at which it began.  Row security lets only the owner of a *)
(* live resource write, so the requests that meet are the owner's own: two *)
(* windows, a retry, a script.                                             *)
(***************************************************************************)
EXTENDS Integers, Sequences, FiniteSets

CONSTANTS
    Keys,        \* (principal, resource, tenant): what a grant is about
    PublicKeys,  \* the keys of principal_type 'public'
    Resources, ResourceOf,  \* resources, and the one a key is about
    Bits,        \* the permission bits; perm_bits is a set of them
    Requests, Programs,  \* requests, and what they may ask for
    Earlier, Tables,     \* requests that ended before the start, and what they may have left
    None,        \* no row
    MaxItems,    \* bound of the operations of one request
    MaxClock,    \* bound of the clock
    MaxIncidents \* bound: database calls that raise, pods that die, resources deleted

NoExpiry == 0  \* expired_at_ms IS NULL

\* One operation of a request: a predicate is the set of keys it matches.
Items == [keys : SUBSET Keys, bits : SUBSET Bits, minus : SUBSET Bits, exp : Nat]

ASSUME KeysAssumption == /\ PublicKeys \subseteq Keys /\ ResourceOf \in [Keys -> Resources]
                         /\ MaxItems \in Nat \ {0}
\* Finitely many requests have run or run, so a table holds finitely many rows.
ASSUME RequestsAssumption == IsFiniteSet(Requests) /\ IsFiniteSet(Earlier)
ASSUME ProgramsAssumption ==
    \A g \in Programs :
        /\ g.op \in {"grant", "bulk", "expire", "modify"}
        /\ g.items \in Seq(Items) /\ Len(g.items) \in 1..MaxItems
        /\ g.op # "expire" => \A i \in DOMAIN g.items : \E k \in Keys : g.items[i].keys = {k}
        /\ g.op \in {"grant", "modify"} => Len(g.items) = 1

\* A row is named by the operation that inserts it.
RowIds == (Requests \cup Earlier) \X (1..MaxItems)
Rows   == [key : Keys, bits : SUBSET Bits, exp : Nat]
ASSUME RowsAssumption ==
    /\ None \notin Rows /\ Requests \cap Earlier = {}
    /\ \A t \in Tables : /\ t \in [RowIds -> Rows \cup {None}]
                        /\ \A r \in Requests, i \in 1..MaxItems : t[<<r, i>>] = None

VARIABLES
    clock,
    rows,     \* console_acl_entries: what is committed, by the insert it is from
    audit,    \* audit rows in interactions: the requests recorded, and how
    live,     \* the resources that are not deleted
    req,      \* the requests and their transactions
    incidents

vars == <<clock, rows, audit, live, req, incidents>>

-----------------------------------------------------------------------------
NoProgram == [op |-> "none", items |-> <<>>]

\* i: the operation at hand; found: matched rows its UPDATE has yet to reach; seen: what
\* modify has selected; mine: the rows the transaction has written, which are
\* locked; covered: history, every row an UPDATE of the request has matched.
NoRequest == [step |-> "idle", prog |-> NoProgram, now |-> 0, i |-> 1,
              found |-> {}, seen |-> {}, mine |-> {}, covered |-> {}]

Init ==
    /\ clock = 1
    /\ rows \in Tables
    /\ audit = {}
    /\ live = Resources
    /\ req = [r \in Requests |-> NoRequest]
    /\ incidents = 0

-----------------------------------------------------------------------------
(* What a transaction sees.                                                *)

Open(r) == req[r].step \in {"select", "scan", "apply", "insert", "commit"}
Item(r) == req[r].prog.items[req[r].i]

\* READ COMMITTED: the last committed version, or the transaction's own.
Locked(r)  == {m.id : m \in req[r].mine}
View(r, id) == IF id \in Locked(r) THEN (CHOOSE m \in req[r].mine : m.id = id).row
               ELSE rows[id]

Active(row, now) == row # None /\ (row.exp = NoExpiry \/ row.exp > now)

Matching(r) == {id \in RowIds : /\ Active(View(r, id), req[r].now)
                                /\ View(r, id).key \in Item(r).keys}

\* Two rows that a unique index keeps apart: one row without expiry of a key,
\* and one public row ever of a resource, whatever its tenant.
Clash(x, y) ==
    /\ x # None /\ y # None
    /\ \/ x.key = y.key /\ x.exp = NoExpiry /\ y.exp = NoExpiry
       \/ {x.key, y.key} \subseteq PublicKeys /\ ResourceOf[x.key] = ResourceOf[y.key]

-----------------------------------------------------------------------------
(* A request's steps.                                                      *)

Goes(r, step) == req' = [req EXCEPT ![r].step = step]

\* The service stamps the request; the revoking ones also count what they see.
Begin(r) ==
    /\ req[r].step = "idle"
    /\ \E g \in Programs :
          req' = [req EXCEPT ![r] =
                    [NoRequest EXCEPT !.prog = g, !.now = clock,
                                      !.step = IF g.op = "modify" THEN "select" ELSE "scan"]]
    /\ UNCHANGED <<clock, rows, audit, live, incidents>>

\* modify_permission_bits reads the active rows before it expires them.
Select(r) ==
    /\ req[r].step = "select"
    /\ req' = [req EXCEPT ![r].seen = {[id |-> id, row |-> rows[id]] : id \in Matching(r)},
                          ![r].step = IF Matching(r) = {} THEN "commit" ELSE "scan"]
    /\ UNCHANGED <<clock, rows, audit, live, incidents>>

PastExpiry(r) == /\ req[r].prog.op \in {"grant", "bulk"}
                 /\ Item(r).exp # NoExpiry /\ Item(r).exp <= req[r].now

\* The expiring UPDATE takes its snapshot ...
Scan(r) ==
    /\ req[r].step = "scan"
    /\ ~ PastExpiry(r)
    /\ req' = [req EXCEPT ![r].found = Matching(r), ![r].step = "apply",
                          ![r].covered = @ \cup Matching(r)]
    /\ UNCHANGED <<clock, rows, audit, live, incidents>>

\* ... and takes the rows it matched one by one: waits for the lock of each, and
\* looks at it again.
Taken(r, id) == \E q \in Requests \ {r} : id \in Locked(q)
\* It waits when whoever has the rows still to come has them all: while one is
\* free, it takes that one first, as it may in any order.
WaitsForRow(r, q) ==
    /\ req[r].step = "apply" /\ q # r
    /\ req[r].found \cap Locked(q) # {} /\ \A id \in req[r].found : Taken(r, id)

\* Mutant: the row is not looked at again.
HitUnchecked(r, id) == TRUE

Hit(r, id) == Active(View(r, id), req[r].now)

\* Mutant: expiring a row also takes its bits.
EndedAndCleared(row, now) == [row EXCEPT !.exp = now, !.bits = {}]
Ended(row, now) == [row EXCEPT !.exp = now]

\* Row security refuses an UPDATE of a row whose resource is gone.
Permitted(r, id) == ResourceOf[View(r, id).key] \in live

Apply(r) ==
    /\ req[r].step = "apply"
    /\ \E id \in req[r].found :
          /\ ~ Taken(r, id)
          /\ Hit(r, id) => Permitted(r, id)
          /\ LET ended == [id |-> id, row |-> Ended(View(r, id), req[r].now)]
                 mine  == {m \in req[r].mine : m.id # id} \cup {ended}
             IN  req' = [req EXCEPT ![r].found = @ \ {id},
                                    ![r].mine = IF Hit(r, id) THEN mine ELSE @]
    /\ UNCHANGED <<clock, rows, audit, live, incidents>>

\* What comes after an operation, and after its UPDATE: modify does nothing more
\* if that ended no row.
AfterItem(r)   == IF req[r].i < Len(req[r].prog.items) THEN "scan" ELSE "commit"
AfterUpdate(r) == CASE req[r].prog.op = "expire" -> AfterItem(r)
                    [] req[r].prog.op = "modify" /\ req[r].mine = {} -> "commit"
                    [] OTHER -> "insert"

EndUpdate(r) ==
    /\ req[r].step = "apply" /\ req[r].found = {}
    /\ req' = [req EXCEPT ![r].step = AfterUpdate(r),
                          ![r].i = IF AfterUpdate(r) = "scan" THEN @ + 1 ELSE @]
    /\ UNCHANGED <<clock, rows, audit, live, incidents>>

\* The row to insert.  modify computes it from what it selected: the union of
\* the bits, and the latest of the expiries.
SeenRows(r) == {m.row : m \in req[r].seen}
\* Mutant: NULL is passed on as -1.
InheritedMinusOne(r) ==
    IF \E x \in SeenRows(r) : x.exp = NoExpiry THEN -1
    ELSE (CHOOSE x \in SeenRows(r) : \A y \in SeenRows(r) : y.exp <= x.exp).exp
Inherited(r) ==
    IF \E x \in SeenRows(r) : x.exp = NoExpiry THEN NoExpiry
    ELSE (CHOOSE x \in SeenRows(r) : \A y \in SeenRows(r) : y.exp <= x.exp).exp

NewRow(r) ==
    LET key == CHOOSE k \in Keys : Item(r).keys = {k}
    IN  IF req[r].prog.op = "modify"
        THEN [key |-> key, exp |-> Inherited(r),
              bits |-> ((UNION {x.bits : x \in SeenRows(r)}) \cup Item(r).bits) \ Item(r).minus]
        ELSE [key |-> key, exp |-> Item(r).exp, bits |-> Item(r).bits]

\* A unique index makes the insert wait for whoever is inserting a row that
\* clashes, or ending one: it may yet be rolled back.
WaitsForInsert(r, q) ==
    /\ req[r].step = "insert" /\ q # r
    /\ \E m \in req[q].mine : Clash(NewRow(r), m.row) \/ Clash(NewRow(r), rows[m.id])
Violates(r) == \E id \in RowIds : Clash(NewRow(r), View(r, id))

Insert(r) ==
    /\ req[r].step = "insert"
    /\ \A q \in Requests : ~ WaitsForInsert(r, q)
    /\ ~ Violates(r) /\ ResourceOf[NewRow(r).key] \in live
    /\ LET step == AfterItem(r)
       IN  req' = [req EXCEPT ![r].mine = @ \cup {[id |-> <<r, req[r].i>>, row |-> NewRow(r)]},
                              ![r].step = step,
                              ![r].i = IF step = "scan" THEN @ + 1 ELSE @]
    /\ UNCHANGED <<clock, rows, audit, live, incidents>>

\* The audit rows are of the same transaction.
Installed(r) == /\ rows' = [id \in RowIds |-> View(r, id)]
                /\ audit' = audit \cup {[req |-> r, outcome |-> "success"]}

\* Mutant: the session is left open, and keeps its locks.
ClosedHoldingLocks(r, step) == [req EXCEPT ![r].step = step, ![r].found = {}]
Closed(r, step) == [req EXCEPT ![r].step = step, ![r].mine = {}, ![r].found = {}]

Commit(r) ==
    /\ req[r].step = "commit"
    /\ Installed(r)
    /\ req' = Closed(r, "done")
    /\ UNCHANGED <<clock, live, incidents>>

-----------------------------------------------------------------------------
(* Refusals and failures: the transaction is rolled back, and a denial is  *)
(* recorded in a transaction of its own.                                   *)

Waits(r, q) == WaitsForRow(r, q) \/ WaitsForInsert(r, q)

\* PostgreSQL ends a transaction of a cycle of waits.
Deadlocked(r) ==
    \E S \in SUBSET Requests : r \in S /\ \A q \in S : /\ \E s \in S : Waits(q, s)
                                                      /\ \E s \in S : Waits(s, q)

Refused(r) ==
    \/ req[r].step = "scan" /\ PastExpiry(r)
    \/ /\ req[r].step = "apply"
       /\ \E id \in req[r].found : ~ Taken(r, id) /\ Hit(r, id) /\ ~ Permitted(r, id)
    \/ /\ req[r].step = "insert" /\ \A q \in Requests : ~ WaitsForInsert(r, q)
       /\ Violates(r) \/ ResourceOf[NewRow(r).key] \notin live
    \/ Deadlocked(r)

\* Mutant: what was written before the refusal is committed.
RefuseCommitting(r) ==
    /\ Refused(r)
    /\ rows' = [id \in RowIds |-> View(r, id)]
    /\ req' = Closed(r, "denial")
    /\ UNCHANGED <<clock, audit, live, incidents>>

Refuse(r) ==
    /\ Refused(r)
    /\ req' = Closed(r, "denial")
    /\ UNCHANGED <<clock, rows, audit, live, incidents>>

Incident == incidents < MaxIncidents /\ incidents' = incidents + 1

\* A call raises.  modify's SELECT and bulk's commit are outside every handler.
Handled(r) == ~ (req[r].step = "select" \/ (req[r].prog.op = "bulk" /\ req[r].step = "commit"))

Fails(r) ==
    /\ Open(r)
    /\ Incident
    /\ \/ UNCHANGED <<rows, audit>>
       \/ req[r].step = "commit" /\ Installed(r)   \* only the reply is lost
    /\ req' = Closed(r, IF Handled(r) THEN "denial" ELSE "done")
    /\ UNCHANGED <<clock, live>>

Denial(r) ==
    /\ req[r].step = "denial"
    /\ audit' = audit \cup {[req |-> r, outcome |-> "denied"]}
    /\ Goes(r, "done")
    /\ UNCHANGED <<clock, rows, live, incidents>>

\* The pod dies, or the denial cannot be stored.
Cut(r) ==
    /\ Open(r) \/ req[r].step = "denial"
    /\ Incident
    /\ req' = Closed(r, "done")
    /\ UNCHANGED <<clock, rows, audit, live>>

-----------------------------------------------------------------------------
Tick ==
    /\ clock < MaxClock
    /\ clock' = clock + 1
    /\ UNCHANGED <<rows, audit, live, req, incidents>>

\* The owner deletes the agent or prompt group.
RemoveResource(x) ==
    /\ Incident
    /\ x \in live
    /\ live' = live \ {x}
    /\ UNCHANGED <<clock, rows, audit, req>>

Step(r) == \/ Select(r) \/ Scan(r) \/ Apply(r) \/ EndUpdate(r) \/ Insert(r)
           \/ Commit(r) \/ Refuse(r) \/ Denial(r)

Next ==
    \/ Tick
    \/ \E x \in Resources : RemoveResource(x)
    \/ \E r \in Requests : Begin(r) \/ Step(r) \/ Fails(r) \/ Cut(r)

Spec == Init /\ [][Next]_vars

\* A request that began is run to its end, and PostgreSQL lets the waiting on.
FairSpec == Spec /\ \A r \in Requests : WF_vars(Step(r))
=============================================================================
