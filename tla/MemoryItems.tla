----------------------------- MODULE MemoryItems ----------------------------
(***************************************************************************)
(* One file of the memory of the users, as the routes that create, update, *)
(* delete, purge, promote and upload it leave it (episodic and procedural: *)
(* the routes are the same code).  Each user has a private object with the *)
(* content; the manifest, a table with a unique key, has a row at the      *)
(* user's own key, or a row at the bare key that is either shared corpus   *)
(* or was some user's before keys had owners ("legacy").                   *)
(*                                                                         *)
(* A request authorises, writes the content, asks which legacy row it will *)
(* copy, reads and writes the manifest in one transaction, and audits what *)
(* it did.  Requests of one user and of several interleave between these   *)
(* calls; each call may fail, executed or not.                             *)
(***************************************************************************)
EXTENDS Naturals

CONSTANTS
  Users,     \* the users
  Admins,    \* those that may write the shared corpus
  Bare,      \* the key without an owner
  Requests,  \* the requests
  Old,       \* the content that was there before them
  None,      \* no row, no content
  MaxFaults  \* bound: failed calls and stopped pods

ASSUME UsersAssumption == Admins \subseteq Users /\ Bare \notin Users
ASSUME FaultsAssumption == MaxFaults \in Nat

Keys == Users \cup {Bare}
Contents == Requests \cup {Old}

\* doc: the write whose size and title the row has.
Row == [tier : {"private", "corpus"}, owner : Users, live : BOOLEAN, doc : Contents]

Ops == {"create", "update", "delete", "purge", "upload"}

ASSUME NoneAssumption == None \notin Row \cup Contents \cup Keys \cup Ops

VARIABLES
  rows,     \* the manifest: a row at each key, or None
  content,  \* the private objects: the content of each user, or None
  req,      \* the requests
  audit,    \* the audit rows each request has written
  faults    \* how many calls have failed and pods have stopped

vars == <<rows, content, req, audit, faults>>

Idle == [user |-> None, op |-> None, at |-> "idle", do |-> None, key |-> None,
         copied |-> FALSE]

\* Before the first request the bare key may hold a corpus row or a user's row.
Init ==
  /\ \E bare \in {None} \cup {r \in Row : r.live /\ r.doc = Old} :
       /\ rows = [k \in Keys |-> IF k = Bare THEN bare ELSE None]
       /\ content = [u \in Users |->
            IF bare # None /\ bare.tier = "private" /\ bare.owner = u THEN Old ELSE None]
  /\ req = [q \in Requests |-> Idle]
  /\ audit = [q \in Requests |-> {}]
  /\ faults = 0

----------------------------------------------------------------------------
At(q, step) == req[q].at = step
User(q) == req[q].user
Goes(q, step) == req' = [req EXCEPT ![q].at = step]

\* Mutant: whose row it is, is not looked at.
LegacyOfAnyone(r, u) == r # None /\ r.tier = "private"

\* The row at the bare key is u's own, from before keys had owners.
LegacyOf(r, u) == r # None /\ r.tier = "private" /\ r.owner = u

Corpus(r) == r # None /\ r.tier = "corpus"

\* The key a user's reading of the manifest ends at; None when it ends nowhere.
ReadKey(u) ==
  IF rows[u] # None THEN u
  ELSE IF LegacyOf(rows[Bare], u) \/ Corpus(rows[Bare]) THEN Bare
  ELSE None

\* The user may not write the row at the key.
Denied(u, k) == k = Bare /\ Corpus(rows[Bare]) /\ u \notin Admins

----------------------------------------------------------------------------
(* A request arrives; an upload has nothing to authorise.                  *)
Begin(q, u, op) ==
  /\ At(q, "idle")
  /\ op = "purge" => u \in Admins
  /\ req' = [req EXCEPT ![q] =
       [Idle EXCEPT !.user = u, !.op = op,
                    !.at = IF op = "upload" THEN "put" ELSE "authorize"]]
  /\ UNCHANGED <<rows, content, audit, faults>>

(* The check before any content is written.  Its second read, of the bare  *)
(* key, only looks for a corpus row, and no request makes or removes one.  *)
Authorize(q) ==
  /\ At(q, "authorize")
  /\ Goes(q, IF Corpus(rows[Bare]) /\ rows[User(q)] = None /\ User(q) \notin Admins
             THEN "refused"
             ELSE IF req[q].op \in {"create", "update"} THEN "put" ELSE "resolve")
  /\ UNCHANGED <<rows, content, audit, faults>>

Put(q) ==
  /\ At(q, "put")
  /\ content' = [content EXCEPT ![User(q)] = q]
  /\ Goes(q, IF req[q].op = "upload" THEN "ok" ELSE "source")
  /\ UNCHANGED <<rows, audit, faults>>

(* Which row the write will copy, for the audit.                           *)
Source(q) ==
  /\ At(q, "source")
  /\ req' = [req EXCEPT ![q].at = "resolve",
       ![q].copied = rows[User(q)] = None /\ LegacyOf(rows[Bare], User(q)) /\ rows[Bare].live]
  /\ UNCHANGED <<rows, content, audit, faults>>

\* The transaction will write the row at the key, in the way "do" says.
Plans(q, do, key) == req' = [req EXCEPT ![q].at = "commit", ![q].do = do, ![q].key = key]

(* The SELECT of record_create: the user's row, a legacy row to copy, or a *)
(* row of its own beside whatever the bare key holds.                      *)
ResolveCreate(q) ==
  LET u == User(q)
  IN  /\ At(q, "resolve") /\ req[q].op = "create"
      /\ IF rows[u] # None
         THEN Plans(q, IF rows[u].live THEN "stamp" ELSE "revive", u)
         ELSE IF LegacyOf(rows[Bare], u) /\ rows[Bare].live THEN Plans(q, "copy", u)
         ELSE IF Denied(u, Bare) THEN Goes(q, "refused")
         ELSE Plans(q, "insert", u)
      /\ UNCHANGED <<rows, content, audit, faults>>

(* The SELECT of record_update: the row must be there and live.            *)
ResolveUpdate(q) ==
  LET u == User(q)
      k == ReadKey(u)
  IN  /\ At(q, "resolve") /\ req[q].op = "update"
      /\ IF k = None THEN Goes(q, "missing")
         ELSE IF ~rows[k].live THEN Goes(q, "conflict")
         ELSE IF Denied(u, k) THEN Goes(q, "refused")
         ELSE IF k = Bare /\ LegacyOf(rows[k], u) THEN Plans(q, "copy", u)
         ELSE Plans(q, "stamp", k)
      /\ UNCHANGED <<rows, content, audit, faults>>

(* The SELECT of record_delete: a deleted row stays as it is.              *)
ResolveDelete(q) ==
  LET k == ReadKey(User(q))
  IN  /\ At(q, "resolve") /\ req[q].op \in {"delete", "purge"}
      /\ IF k = None THEN Goes(q, "missing")
         ELSE IF Denied(User(q), k) THEN Goes(q, "refused")
         ELSE Plans(q, IF rows[k].live THEN "bury" ELSE "keep", k)
      /\ UNCHANGED <<rows, content, audit, faults>>

----------------------------------------------------------------------------
\* Mutant: the size is that of the stored object, read back.
OwnRowMeasured(q) ==
  [tier |-> "private", owner |-> User(q), live |-> TRUE, doc |-> content[User(q)]]

\* A new private row.
OwnRow(q) == [tier |-> "private", owner |-> User(q), live |-> TRUE, doc |-> q]

\* Mutant: the UPDATE writes every column as it was read.
AppliedWhole(q) ==
  LET k == req[q].key
  IN  CASE req[q].do \in {"stamp", "revive"} ->
             [rows EXCEPT ![k].doc = q, ![k].live = TRUE]
        [] req[q].do = "insert" -> [rows EXCEPT ![k] = OwnRow(q)]
        [] req[q].do = "copy" -> [rows EXCEPT ![k] = OwnRow(q), ![Bare].live = FALSE]
        [] req[q].do = "bury" -> [rows EXCEPT ![k].live = FALSE]
        [] OTHER -> rows

\* Mutant: the copied row is left to a later clean-up.
AppliedBeside(q) ==
  LET k == req[q].key
  IN  CASE req[q].do = "stamp" -> [rows EXCEPT ![k].doc = q]
        [] req[q].do = "revive" -> [rows EXCEPT ![k].doc = q, ![k].live = TRUE]
        [] req[q].do \in {"insert", "copy"} -> [rows EXCEPT ![k] = OwnRow(q)]
        [] req[q].do = "bury" -> [rows EXCEPT ![k].live = FALSE]
        [] OTHER -> rows

\* The manifest after the transaction: the columns that differ from what was
\* read are written, to the rows as they are now.
Applied(q) ==
  LET k == req[q].key
  IN  CASE req[q].do = "stamp" -> [rows EXCEPT ![k].doc = q]
        [] req[q].do = "revive" -> [rows EXCEPT ![k].doc = q, ![k].live = TRUE]
        [] req[q].do = "insert" -> [rows EXCEPT ![k] = OwnRow(q)]
        [] req[q].do = "copy" -> [rows EXCEPT ![k] = OwnRow(q), ![Bare].live = FALSE]
        [] req[q].do = "bury" -> [rows EXCEPT ![k].live = FALSE]
        [] OTHER -> rows

\* Another request has inserted the row meanwhile.
Taken(q) == req[q].do \in {"insert", "copy"} /\ rows[req[q].key] # None

Commit(q) ==
  /\ At(q, "commit") /\ ~Taken(q)
  /\ rows' = Applied(q)
  /\ Goes(q, IF req[q].op = "purge" THEN "purge" ELSE "audit")
  /\ UNCHANGED <<content, audit, faults>>

CommitConflicts(q) ==
  /\ At(q, "commit") /\ Taken(q)
  /\ Goes(q, "conflict")
  /\ UNCHANGED <<rows, content, audit, faults>>

Purge(q) ==
  /\ At(q, "purge")
  /\ content' = [content EXCEPT ![User(q)] = None]
  /\ Goes(q, "audit")
  /\ UNCHANGED <<rows, audit, faults>>

Audit(q) ==
  /\ At(q, "audit") /\ req[q].op \in {"create", "update"}
  /\ audit' = [audit EXCEPT ![q] = @ \cup {"write"}]
  /\ Goes(q, IF req[q].copied THEN "audit copy" ELSE "ok")
  /\ UNCHANGED <<rows, content, faults>>

AuditCopy(q) ==
  /\ At(q, "audit copy")
  /\ audit' = [audit EXCEPT ![q] = @ \cup {"delete"}]
  /\ Goes(q, "ok")
  /\ UNCHANGED <<rows, content, faults>>

AuditDelete(q) ==
  /\ At(q, "audit") /\ req[q].op \in {"delete", "purge"}
  /\ audit' = [audit EXCEPT ![q] = @ \cup {"delete"}]
  /\ Goes(q, "ok")
  /\ UNCHANGED <<rows, content, faults>>

----------------------------------------------------------------------------
Replies == {"ok", "refused", "missing", "conflict", "failed"}

Fault == faults < MaxFaults /\ faults' = faults + 1

\* Mutant: the failed write is logged, and the request goes on.
PutFailsOpen(q) ==
  /\ At(q, "put") /\ Fault
  /\ Goes(q, "source")
  /\ UNCHANGED <<rows, content, audit>>

PutFails(q) ==
  /\ At(q, "put") /\ Fault
  /\ content' \in {content, [content EXCEPT ![User(q)] = q]}
  /\ Goes(q, "failed")
  /\ UNCHANGED <<rows, audit>>

CommitFails(q) ==
  /\ At(q, "commit") /\ Fault
  /\ rows' \in {rows} \cup {r \in {Applied(q)} : ~Taken(q)}
  /\ Goes(q, "failed")
  /\ UNCHANGED <<content, audit>>

PurgeFails(q) ==
  /\ At(q, "purge") /\ Fault
  /\ content' \in {content, [content EXCEPT ![User(q)] = None]}
  /\ Goes(q, "failed")
  /\ UNCHANGED <<rows, audit>>

\* Mutant: a failed audit row is logged, as a read's is.
AuditFailsOpen(q) ==
  /\ \/ At(q, "audit") /\ Goes(q, IF req[q].copied THEN "audit copy" ELSE "ok")
     \/ At(q, "audit copy") /\ Goes(q, "ok")
  /\ Fault
  /\ UNCHANGED <<rows, content, audit>>

AuditFails(q) ==
  /\ req[q].at \in {"audit", "audit copy"} /\ Fault
  /\ Goes(q, "failed")
  /\ UNCHANGED <<rows, content, audit>>

(* A read of the manifest fails, or the pod stops between two calls.       *)
Cut(q) ==
  /\ req[q].at \notin Replies \cup {"idle"} /\ Fault
  /\ Goes(q, "failed")
  /\ UNCHANGED <<rows, content, audit>>

Next ==
  \E q \in Requests :
    \/ \E u \in Users, op \in Ops : Begin(q, u, op)
    \/ Authorize(q) \/ Put(q) \/ Source(q)
    \/ ResolveCreate(q) \/ ResolveUpdate(q) \/ ResolveDelete(q)
    \/ Commit(q) \/ CommitConflicts(q) \/ Purge(q)
    \/ Audit(q) \/ AuditCopy(q) \/ AuditDelete(q)
    \/ PutFails(q) \/ CommitFails(q) \/ PurgeFails(q) \/ AuditFails(q) \/ Cut(q)

Spec == Init /\ [][Next]_vars
=============================================================================
