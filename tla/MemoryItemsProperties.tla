------------------------ MODULE MemoryItemsProperties -----------------------
(***************************************************************************)
(* What MemoryItems is checked for.                                        *)
(***************************************************************************)
EXTENDS MemoryItems

Steps == {"idle", "authorize", "put", "source", "resolve", "commit", "purge",
          "audit", "audit copy"} \cup Replies
Plan == {"stamp", "revive", "insert", "copy", "bury", "keep"}
ReqRecords ==
  [user : Users \cup {None}, op : Ops \cup {None}, at : Steps,
   do : Plan \cup {None},
   key : Keys \cup {None}, copied : BOOLEAN]

(* Type invariant of the manifest, the objects, the requests and the audit.*)
TypeOK ==
  /\ rows \in [Keys -> Row \cup {None}]
  /\ content \in [Users -> Contents \cup {None}]
  /\ req \in [Requests -> ReqRecords]
  /\ audit \in [Requests -> SUBSET {"write", "delete"}]
  /\ faults \in Nat

----------------------------------------------------------------------------
\* The row at the bare key is this user's.
Left(u) == rows[Bare] # None /\ rows[Bare].tier = "private" /\ rows[Bare].owner = u

(* A user has one live row for a file: once there is a row at the user's   *)
(* own key, the legacy row it was copied from is deleted.  Two requests    *)
(* that both read the legacy row, and one that dies while it copies, do    *)
(* not leave two (record_create, record_update).                           *)
OneHome ==
  \A u \in Users :
    rows[u] # None /\ Left(u) => ~rows[Bare].live

(* A live row has its content, as long as its user has not purged it: the  *)
(* content is stored first, and a request that fails in between leaves     *)
(* content without a row and not a row without content.                    *)
LiveHasContent ==
  \A u \in Users :
    /\ \A q \in Requests : req[q].op = "purge" => req[q].user # u
    /\ rows[u] # None /\ rows[u].live
    => content[u] # None

(* A request that answers 200 has audited what it did, the deletion of the *)
(* legacy row it copied included, although it asks what it will copy in an *)
(* earlier transaction than the one that copies (_emit_write_audits).  An  *)
(* upload, which has no audit row at all, is left out.                     *)
ConfirmedIsAudited ==
  \A q \in Requests :
    At(q, "ok") /\ req[q].op # "upload" =>
      /\ req[q].op \in {"create", "update"} => "write" \in audit[q]
      /\ req[q].op \in {"delete", "purge"} \/ req[q].do = "copy" => "delete" \in audit[q]

(* The rows and the content a user's request may change.                   *)
OwnOnly(u) ==
  /\ \A v \in Users \ {u} : rows'[v] = rows[v] /\ content'[v] = content[v]
  /\ rows'[Bare] # rows[Bare] =>
       \/ Left(u)
       \/ Corpus(rows[Bare]) /\ u \in Admins

(* No step of a request touches another user's row or content, whoever     *)
(* owns the bare key and whatever was read earlier, and only an admin's    *)
(* touches a corpus row (resolve_write, resolve_read, authorize_write).    *)
Isolation ==
  [][\A q \in Requests : req'[q] # req[q] => OwnOnly(req'[q].user)]_vars

\* The row that is a user's file: the user's own, or the legacy one.
File(u) == IF rows[u] # None THEN rows[u] ELSE IF Left(u) THEN rows[Bare] ELSE None

(* A deleted row comes back only by a create that read it deleted: neither *)
(* an update nor a create that read it live undoes the delete              *)
(* (record_update: "use record_create to revive").  The file of a user     *)
(* comes back so too, or by a create of the row it did not have; with one  *)
(* exception: an update that read a legacy row live copies it to the       *)
(* user's key even if it was deleted since, as the copy looks at it no     *)
(* more (memory_manifest.py, record_update).                               *)
OnlyCreateRevives ==
  [][/\ \A k \in Keys :
          rows[k] # None /\ ~rows[k].live /\ rows'[k] # None /\ rows'[k].live =>
            \E q \in Requests : /\ req'[q] # req[q]
                                /\ req[q].op = "create" /\ req[q].do = "revive"
     /\ \A u \in Users :
          File(u) # None /\ ~File(u).live /\ File(u)' # None /\ File(u)'.live =>
            \E q \in Requests :
               /\ req'[q] # req[q] /\ req[q].user = u
               /\ \/ req[q].op = "create"
                  \/ req[q].op = "update" /\ req[q].do = "copy" /\ rows[u] = None]_vars

----------------------------------------------------------------------------
(* What makes them inductive: what a transaction has read and plans to     *)
(* write still holds when it commits, ...                                  *)
PlanHolds ==
  \A q \in Requests :
    LET r == req[q]
    IN  /\ r.at # "idle" => r.user \in Users /\ r.op \in Ops
        /\ r.at = "commit" =>
             /\ r.do \in Plan /\ r.key \in {r.user, Bare}
             /\ r.do \notin {"insert", "copy"} => rows[r.key] # None
             /\ r.do \in {"insert", "copy"} => r.key = r.user /\ r.op \in {"create", "update"}
             /\ r.do = "insert" => r.op = "create" /\ ~(Left(r.user) /\ rows[Bare].live)
             /\ r.do = "copy" => Left(r.user)
             /\ r.do = "revive" => r.key = r.user /\ r.op = "create"
             /\ r.key = Bare => Left(r.user) \/ (Corpus(rows[Bare]) /\ r.user \in Admins)

(* ... a legacy row that is not announced is not copied, ...               *)
CopyAnnounced ==
  \A q \in Requests :
    LET r == req[q]
    IN  /\ r.at = "resolve" /\ r.op \in {"create", "update"} /\ ~r.copied =>
             ~(rows[r.user] = None /\ Left(r.user) /\ rows[Bare].live)
        /\ r.at \in {"commit", "purge", "audit"} /\ r.do = "copy" => r.copied

(* ... and the first of two audit rows is there before the second.         *)
AuditInOrder ==
  \A q \in Requests :
    LET writes == req[q].op \in {"create", "update"}
    IN  /\ At(q, "audit copy") /\ writes => "write" \in audit[q]
        /\ At(q, "put") => writes \/ req[q].op = "upload"
        /\ At(q, "source") \/ req[q].copied => writes

(* A user's content stands from before the first row of it is written: a   *)
(* write that has passed its Put, and a row of any state, has content.     *)
Purged(u) == \E q \in Requests : req[q].op = "purge" /\ req[q].user = u

ContentStands ==
  /\ \A q \in Requests : /\ At(q, "idle") => req[q].op = None
                         /\ At(q, "purge") => req[q].op = "purge"
  /\ \A u \in Users : ~Purged(u) =>
       /\ rows[u] # None \/ Left(u) => content[u] # None
       /\ \A q \in Requests :
            /\ req[q].user = u /\ req[q].op \in {"create", "update"}
            /\ req[q].at \in {"source", "resolve", "commit"}
            => content[u] # None

Inv ==
  /\ TypeOK /\ OneHome /\ PlanHolds /\ CopyAnnounced /\ AuditInOrder /\ ConfirmedIsAudited
  /\ ContentStands
=============================================================================
