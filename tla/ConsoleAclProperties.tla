------------------------ MODULE ConsoleAclProperties ------------------------
(***************************************************************************)
(* What ConsoleAcl is checked for.                                         *)
(***************************************************************************)
EXTENDS ConsoleAcl

Written == [id : RowIds, row : Rows]

RequestType ==
    [step : {"idle", "select", "scan", "apply", "insert", "commit", "denial", "done"},
     prog : Programs \cup {NoProgram}, now : Nat, i : 1..MaxItems,
     found : SUBSET RowIds, seen : SUBSET Written,
     mine : SUBSET Written, covered : SUBSET RowIds]

(* Type invariant of the table and the transactions.                       *)
TypeOK ==
    /\ clock \in Nat \ {0}
    /\ rows \in [RowIds -> Rows \cup {None}]
    /\ audit \subseteq [req : Requests, outcome : {"success", "denied"}]
    /\ live \subseteq Resources
    /\ req \in [Requests -> RequestType]
    /\ incidents \in Nat

Succeeded(r) == [req |-> r, outcome |-> "success"] \in audit

(* Once a request is recorded as done, no row that its expiring UPDATEs    *)
(* matched is active at its stamp or later: neither a later commit of an   *)
(* earlier stamp nor a rollback brings one back.                           *)
ExpiredStaysExpired ==
    \A r \in Requests : Succeeded(r) =>
        \A id \in req[r].covered : ~ Active(rows[id], req[r].now)

(* An expiry may be brought forward, never put off or cleared, and nothing *)
(* else of a row changes: the table is append-only.                        *)
ExpiryOnlyEarlier ==
    [][\A id \in RowIds : rows[id] # None =>
          /\ rows'[id] # None
          /\ rows'[id].key = rows[id].key /\ rows'[id].bits = rows[id].bits
          /\ \/ rows'[id].exp = rows[id].exp
             \/ rows'[id].exp # NoExpiry /\ Active(rows[id], rows'[id].exp)]_vars

(* Of every request either all its inserts and expiries enter the table,   *)
(* in one step with its audit row, or none: a bulk or a delete stopped     *)
(* half-way changes no row.  modify may find nothing left to do.           *)
Records(r) == Succeeded(r)' /\ ~ Succeeded(r)
Stored(r)  == {i \in 1..MaxItems : rows[<<r, i>>] # None}
Whole(r) ==
    LET x == req[r] IN
    /\ x.i = Len(x.prog.items)
    /\ \/ Stored(r)' = IF x.prog.op = "expire" THEN {} ELSE 1..Len(x.prog.items)
       \/ x.prog.op = "modify" /\ rows' = rows
    /\ \A id \in x.covered : ~ Active(rows'[id], x.now)

AllOrNothing ==
    [][/\ \A r \in Requests : Records(r) => Whole(r)
       /\ \A id \in RowIds : rows'[id] # rows[id] =>
             \E r \in Requests : Records(r) /\ (id[1] = r \/ id \in req[r].covered)]_vars

-----------------------------------------------------------------------------
(* What makes these inductive: the transactions that are under way.        *)

\* The operations of r whose row its transaction has inserted.
Inserted(r) == {i \in 1..MaxItems : <<r, i>> \in Locked(r)}

(* Where a request is in its program.                                      *)
Stage(r) ==
    LET x == req[r] IN
    /\ x.step = "idle" => x = NoRequest
    /\ x.step # "idle" => x.prog \in Programs /\ x.now # 0
    /\ Open(r) => x.i <= Len(x.prog.items)
    /\ Open(r) \/ x.mine = {}
    /\ x.step = "apply" \/ x.found = {}
    /\ x.found \subseteq x.covered
    /\ x.step = "select" => x.prog.op = "modify" /\ x.mine = {} /\ x.covered = {}
    /\ x.step = "insert" => x.prog.op # "expire"
    /\ x.prog.op = "modify" /\ x.step \in {"scan", "apply", "insert"} => x.seen # {}
    /\ IsFiniteSet(x.seen)

(* What a transaction has written: of a committed row that its UPDATEs     *)
(* matched, only that it is ended at the stamp, or else a row of its own;  *)
(* and no row twice.                                                       *)
OneVersion(r) == \A m, n \in req[r].mine : m.id = n.id => m = n

Writes(r) ==
    \A m \in req[r].mine :
        \/ rows[m.id] = None /\ m.id[1] = r
        \/ /\ m.id \in req[r].covered /\ Active(rows[m.id], req[r].now)
           /\ m.row = Ended(rows[m.id], req[r].now)

(* No two transactions have written the same row.                          *)
Apart(r) == \A q \in Requests \ {r} : Locked(r) \cap Locked(q) = {}

(* Which rows those are: operations that are through have theirs, and a    *)
(* transaction that is to commit has come to its last.                     *)
Progress(r) ==
    LET x == req[r] IN
    Open(r) =>
        /\ \A i \in Inserted(r) : i < x.i \/ x.step = "commit"
        /\ x.prog.op \in {"grant", "bulk"} =>
              Inserted(r) = 1..(IF x.step = "commit" THEN Len(x.prog.items) ELSE x.i - 1)
        /\ x.prog.op = "expire" => Inserted(r) = {}
        /\ x.step = "commit" =>
              /\ x.i = Len(x.prog.items)
              /\ x.prog.op = "modify" => Inserted(r) = {1} \/ x.mine = {}

(* The audit row of its success is the last thing of a transaction.        *)
Recorded(r) == Succeeded(r) => req[r].step \in {"denial", "done"}

(* A row the request's UPDATEs matched is one it is still to end, or that  *)
(* is ended as the transaction sees it; in the table once that succeeded.  *)
Coverage(r) ==
    /\ Open(r) =>
          \A id \in req[r].covered :
              /\ View(r, id) # None
              /\ id \in req[r].found \/ ~ Active(View(r, id), req[r].now)
    /\ Succeeded(r) =>
          \A id \in req[r].covered : rows[id] # None /\ ~ Active(rows[id], req[r].now)

(* Whose inserts are in the table is recorded as done.                     *)
StoredIsRecorded == \A r \in Requests : Stored(r) # {} => Succeeded(r)

Transactions ==
    \A r \in Requests : /\ Stage(r) /\ OneVersion(r) /\ Writes(r) /\ Apart(r)
                        /\ Progress(r) /\ Recorded(r) /\ Coverage(r)

-----------------------------------------------------------------------------
(* Every request ends, whatever locks the others hold and in whatever      *)
(* order they came to theirs.                                              *)
RequestEnds == \A r \in Requests : req[r].step # "idle" ~> req[r].step = "done"

(* "At most one ACTIVE grant per key" (migration 033, O-3).                *)
OneActiveGrant ==
    \A x, y \in RowIds :
        Active(rows[x], clock) /\ Active(rows[y], clock) /\ rows[x].key = rows[y].key => x = y

(* modify inserts nothing once the rows it selected were expired by        *)
(* another ("a concurrent expiry of the SAME key between the SELECT above  *)
(* and this UPDATE makes expired_ids == [] here", modify_permission_bits). *)
ModifyYields ==
    [][\A r \in Requests :
          req[r].prog.op = "modify" /\ rows[<<r, 1>>] = None /\ rows'[<<r, 1>>] # None =>
             \A m \in req[r].seen : rows[m.id] = m.row]_vars
=============================================================================
