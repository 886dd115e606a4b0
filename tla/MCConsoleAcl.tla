---------------------------- MODULE MCConsoleAcl ----------------------------
(* Instances of ConsoleAcl for TLC. *)
EXTENDS ConsoleAclProperties, TLC

CONSTANTS k1, k2, p1, p2, ra, rb, view, edit, r1, r2, e1

\* p1 and p2 are public, of one resource and two tenants; k1 is of that resource too.
Abouts == [k \in {k1, k2, p1, p2} |-> IF k = k2 THEN rb ELSE ra]
About1 == [k \in {k1} |-> ra]

It(keys, bits, minus, exp) == [keys |-> keys, bits |-> bits, minus |-> minus, exp |-> exp]
Prog(op, items) == [op |-> op, items |-> items]

Grant(k, exp)  == Prog("grant", <<It({k}, {view}, {}, exp)>>)
Revoke(k)      == Prog("expire", <<It({k}, {}, {}, NoExpiry)>>)
Modify(k)      == Prog("modify", <<It({k}, {edit}, {view}, NoExpiry)>>)
Bulk(a, b)     == Prog("bulk", <<It({a}, {view}, {}, NoExpiry), It({b}, {edit}, {}, NoExpiry)>>)
Delete(a, b)   == Prog("expire", <<It({a}, {}, {}, NoExpiry), It({b}, {}, {}, NoExpiry)>>)
Sweep(a, b)    == Prog("expire", <<It({a, b}, {}, {}, NoExpiry)>>)

\* Lasting and limited grants, a public one, batches that come to the rows of two
\* keys in opposite orders, and one UPDATE of the rows of both.
EveryOperation == {Grant(k1, NoExpiry), Grant(k1, 2), Grant(p2, NoExpiry), Revoke(k1), Modify(k1),
                   Bulk(k2, k1), Bulk(k1, p2), Delete(p1, k1), Sweep(k1, k2)}

Table(S) == [id \in RowIds |-> IF id[1] = e1 /\ id[2] \in DOMAIN S THEN S[id[2]] ELSE None]
Row(k, exp) == [key |-> k, bits |-> {view}, exp |-> exp]

\* A lasting grant of each key; or a limited one, and a public one.
SomeGrants == {Table(<<Row(k1, NoExpiry), Row(k2, NoExpiry)>>),
               Table(<<Row(k1, 2), Row(p1, NoExpiry)>>)}

\* What meets on one key.
OneKey  == {Revoke(k1), Modify(k1)}
Lasting == {Table(<<Row(k1, NoExpiry)>>)}
=============================================================================
