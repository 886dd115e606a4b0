----------------------------- MODULE LayerCache -----------------------------
(***************************************************************************)
(* The listings of one memory layer (episodic or procedural; the two       *)
(* services are the same code) and the Redis cache in front of them, which *)
(* every pod shares.  An object store holds the files of the corpus and of *)
(* each user's private tier.  A load reads the private listing and then    *)
(* the corpus listing through the cache; a write or a delete changes one   *)
(* private file and then drops the user's cached listing.  The corpus is   *)
(* changed by a script and its cached listing is dropped by the next       *)
(* /memory/index.                                                          *)
(*                                                                         *)
(* Every Redis call may fail and is then ignored, every call of the object *)
(* store may fail, and a pod may stop between two calls.  A file's content *)
(* is the tier and the file it was stored as and the change that did it.   *)
(***************************************************************************)
EXTENDS Naturals, FiniteSets

CONSTANTS
  Users,        \* the users, each with a private tier
  Corpus,       \* the tier every user reads
  Files,        \* file names, numbered in the order the store lists them
  Loads,        \* the loads that may run at the same time
  Writes,       \* the writes and deletes that may run at the same time
  Filled,       \* the tiers and files that are there at the start
  Nothing,      \* no file, no cached listing
  MaxChanges,   \* bound: changes of the object store
  MaxFaults     \* bound: failed calls and stopped pods

ASSUME TiersAssumption == Corpus \notin Users
ASSUME FilesAssumption == Files \subseteq Nat
ASSUME BoundsAssumption == MaxChanges \in Nat /\ MaxFaults \in Nat

Tiers == Users \cup {Corpus}

Contents == Tiers \X Files \X Nat

\* A listing: the content of each file, Nothing for a file it does not hold.
Listing == [Files -> Contents \cup {Nothing}]
Empty == [f \in Files |-> Nothing]

ASSUME NothingAssumption ==
  Nothing \notin Contents /\ Nothing \notin [rows : Listing, torn : BOOLEAN]

VARIABLES
  store,    \* the object store: a listing for each tier
  cache,    \* Redis: a cached listing for each key, or Nothing
  load,     \* the loads in progress
  write,    \* the writes and deletes in progress
  reindex,  \* the corpus has changed since the last /memory/index
  changes,  \* how often the object store has changed
  faults    \* how many calls have failed and pods have stopped

vars == <<store, cache, load, write, reindex, changes, faults>>

\* Mutant: the key leaves the user out.
KeyOfLayer(t) == Corpus

\* The cache keys: one of the corpus, one of each user.
Key(t) == t

\* torn: the tier changed, or a call failed, since the listing was taken.
IdleLoad ==
  [at |-> "idle", user |-> Corpus, tier |-> Corpus, left |-> {},
   rows |-> Empty, private |-> Empty, torn |-> FALSE, settled |-> FALSE]
IdleWrite == [at |-> "idle", user |-> Corpus, file |-> Nothing, delete |-> FALSE]

Init ==
  /\ store = [t \in Tiers |-> [f \in Files |->
                IF <<t, f>> \in Filled THEN <<t, f, 0>> ELSE Nothing]]
  /\ cache = [t \in Tiers |-> Nothing]
  /\ load = [r \in Loads |-> IdleLoad]
  /\ write = [w \in Writes |-> IdleWrite]
  /\ reindex = FALSE
  /\ changes = 0
  /\ faults = 0

----------------------------------------------------------------------------
(* A load, a worker thread of some pod.                                    *)

\* The private listing is read first.
StartLoad(r, u) ==
  /\ load[r].at = "idle"
  /\ load' = [load EXCEPT ![r] =
       [IdleLoad EXCEPT !.at = "get", !.user = u, !.tier = u,
          !.settled = \A w \in Writes : write[w].user # u]]
  /\ UNCHANGED <<store, cache, write, reindex, changes, faults>>

\* The listing of the load's tier is known: the corpus is next, or the rows
\* are merged and answered.
After(l, rows) ==
  IF l.tier = Corpus
  THEN [l EXCEPT !.at = "answer", !.rows = rows]
  ELSE [l EXCEPT !.at = "get", !.tier = Corpus, !.rows = Empty,
                 !.private = rows, !.torn = FALSE]

Hit(r) ==
  LET entry == cache[Key(load[r].tier)]
  IN /\ load[r].at = "get"
     /\ entry # Nothing
     /\ load' = [load EXCEPT ![r] = After(@, entry.rows)]
     /\ UNCHANGED <<store, cache, write, reindex, changes, faults>>

Miss(r) ==
  /\ load[r].at = "get"
  /\ cache[Key(load[r].tier)] = Nothing
  /\ load' = [load EXCEPT ![r].at = "list"]
  /\ UNCHANGED <<store, cache, write, reindex, changes, faults>>

\* A failed get is a miss.
GetFails(r) ==
  /\ load[r].at = "get"
  /\ faults < MaxFaults
  /\ load' = [load EXCEPT ![r].at = "list"]
  /\ faults' = faults + 1
  /\ UNCHANGED <<store, cache, write, reindex, changes>>

List(r) ==
  LET found == {f \in Files : store[load[r].tier][f] # Nothing}
  IN /\ load[r].at = "list"
     /\ load' = [load EXCEPT ![r] = [@ EXCEPT !.left = found, !.at = "fetch"]]
     /\ UNCHANGED <<store, cache, write, reindex, changes, faults>>

IsNext(l, f) == l.at = "fetch" /\ f \in l.left /\ \A g \in l.left : f <= g

Got(l, f, content) == [l EXCEPT !.left = @ \ {f}, !.rows[f] = content]

\* Mutant: the row holds the object's key in place of its content.
FetchKeys(r, f) ==
  LET content == store[load[r].tier][f]
  IN /\ IsNext(load[r], f)
     /\ content # Nothing
     /\ load' = [load EXCEPT ![r] = Got(@, f, <<@.tier, f>>)]
     /\ UNCHANGED <<store, cache, write, reindex, changes, faults>>

\* One object after the other, in the order of the listing.
Fetch(r, f) ==
  LET content == store[load[r].tier][f]
  IN /\ IsNext(load[r], f)
     /\ content # Nothing
     /\ load' = [load EXCEPT ![r] = Got(@, f, content)]
     /\ UNCHANGED <<store, cache, write, reindex, changes, faults>>

\* An object deleted since it was listed ends the reading: the exception is
\* swallowed and the rows read so far are the listing.
FetchGone(r, f) ==
  /\ IsNext(load[r], f)
  /\ store[load[r].tier][f] = Nothing
  /\ load' = [load EXCEPT ![r].left = {}]
  /\ UNCHANGED <<store, cache, write, reindex, changes, faults>>

\* So does any other failure, of the listing or of an object.
ReadFails(r) ==
  /\ load[r].at \in {"list", "fetch"}
  /\ faults < MaxFaults
  /\ load' = [load EXCEPT ![r].at = "fetch", ![r].left = {}, ![r].torn = TRUE]
  /\ faults' = faults + 1
  /\ UNCHANGED <<store, cache, write, reindex, changes>>

\* The rows are cached, complete or not.
Fill(r) ==
  LET l == load[r]
  IN /\ l.at = "fetch"
     /\ l.left = {}
     /\ cache' = [cache EXCEPT ![Key(l.tier)] = [rows |-> l.rows, torn |-> l.torn]]
     /\ load' = [load EXCEPT ![r] = After(l, l.rows)]
     /\ UNCHANGED <<store, write, reindex, changes, faults>>

FillFails(r) ==
  /\ load[r].at = "fetch"
  /\ load[r].left = {}
  /\ faults < MaxFaults
  /\ load' = [load EXCEPT ![r] = After(@, @.rows)]
  /\ faults' = faults + 1
  /\ UNCHANGED <<store, cache, write, reindex, changes>>

\* A private row wins over a corpus row of the same name.
Merged(l) == [f \in Files |-> IF l.private[f] # Nothing THEN l.private[f] ELSE l.rows[f]]

Answer(r) ==
  /\ load[r].at = "answer"
  /\ load' = [load EXCEPT ![r] = IdleLoad]
  /\ UNCHANGED <<store, cache, write, reindex, changes, faults>>

\* The pod stops under the load.
Cut(r) ==
  /\ load[r].at # "idle"
  /\ faults < MaxFaults
  /\ load' = [load EXCEPT ![r] = IdleLoad]
  /\ faults' = faults + 1
  /\ UNCHANGED <<store, cache, write, reindex, changes>>

----------------------------------------------------------------------------
(* A write or a delete of one private file, a request to some pod.         *)

\* The bound: every write in progress still changes the store.
Room == changes + Cardinality({w \in Writes : write[w].at # "idle"}) < MaxChanges

StartWrite(w, u, f, delete) ==
  /\ write[w].at = "idle"
  /\ Room
  /\ write' = [write EXCEPT ![w] =
       [at |-> IF delete THEN "stat" ELSE "put", user |-> u, file |-> f, delete |-> delete]]
  /\ load' = [r \in Loads |->
       [load[r] EXCEPT !.settled = @ /\ load[r].user # u]]
  /\ UNCHANGED <<store, cache, reindex, changes, faults>>

\* A delete of a file that is not there answers so and drops nothing.
StatMisses(w) ==
  /\ write[w].at = "stat"
  /\ store[write[w].user][write[w].file] = Nothing
  /\ write' = [write EXCEPT ![w] = IdleWrite]
  /\ UNCHANGED <<store, cache, load, reindex, changes, faults>>

StatFinds(w) ==
  /\ write[w].at = "stat"
  /\ store[write[w].user][write[w].file] # Nothing
  /\ write' = [write EXCEPT ![w].at = "remove"]
  /\ UNCHANGED <<store, cache, load, reindex, changes, faults>>

\* Any other answer, and the removal is tried anyway.
StatFails(w) ==
  /\ write[w].at = "stat"
  /\ faults < MaxFaults
  /\ write' = [write EXCEPT ![w].at = "remove"]
  /\ faults' = faults + 1
  /\ UNCHANGED <<store, cache, load, reindex, changes>>

\* A file of tier t is stored or removed.
Change(t, f, removed) ==
  /\ changes' = changes + 1
  /\ store' = [store EXCEPT ![t][f] = IF removed THEN Nothing ELSE <<t, f, changes'>>]
  /\ load' = [r \in Loads |->
       [load[r] EXCEPT !.torn = @ \/ (load[r].at = "fetch" /\ load[r].tier = t)]]

Store(w) ==
  /\ write[w].at \in {"put", "remove"}
  /\ Change(write[w].user, write[w].file, write[w].delete)
  /\ write' = [write EXCEPT ![w].at = "invalidate"]
  /\ UNCHANGED <<cache, reindex, faults>>

\* The call of the store raises.  It may have been carried out all the same;
\* the request fails and the cached listing stays.
Excused(t) ==
  IF cache[t] = Nothing THEN cache ELSE [cache EXCEPT ![t].torn = TRUE]

StoreFails(w, landed) ==
  /\ write[w].at \in {"put", "remove"}
  /\ faults < MaxFaults
  /\ faults' = faults + 1
  /\ \/ /\ landed
        /\ Change(write[w].user, write[w].file, write[w].delete)
        /\ cache' = Excused(write[w].user)
     \/ ~landed /\ UNCHANGED <<store, cache, load, changes>>
  /\ write' = [write EXCEPT ![w] = IdleWrite]
  /\ UNCHANGED reindex

\* Mutant: invalidate_cache, the hook for the corpus, instead of _invalidate_private.
InvalidateCorpus(w) ==
  /\ write[w].at = "invalidate"
  /\ cache' = [cache EXCEPT ![Key(Corpus)] = Nothing]
  /\ write' = [write EXCEPT ![w] = IdleWrite]
  /\ UNCHANGED <<store, load, reindex, changes, faults>>

Invalidate(w) ==
  /\ write[w].at = "invalidate"
  /\ cache' = [cache EXCEPT ![Key(write[w].user)] = Nothing]
  /\ write' = [write EXCEPT ![w] = IdleWrite]
  /\ UNCHANGED <<store, load, reindex, changes, faults>>

\* Redis does not answer, or the pod stops: the listing stays.
InvalidateFails(w) ==
  /\ write[w].at = "invalidate"
  /\ faults < MaxFaults
  /\ cache' = Excused(write[w].user)
  /\ write' = [write EXCEPT ![w] = IdleWrite]
  /\ faults' = faults + 1
  /\ UNCHANGED <<store, load, reindex, changes>>

----------------------------------------------------------------------------
(* The corpus.                                                             *)

\* scripts/seed-memory.py and the operators' tools change it directly.
ChangeCorpus(f, removed) ==
  /\ Room
  /\ removed => store[Corpus][f] # Nothing
  /\ Change(Corpus, f, removed)
  /\ reindex' = TRUE
  /\ UNCHANGED <<cache, write, faults>>

\* /memory/index, once it has indexed, drops the listing of the corpus.
Reindex ==
  /\ reindex
  /\ reindex' = FALSE
  /\ cache' = [cache EXCEPT ![Key(Corpus)] = Nothing]
  /\ UNCHANGED <<store, load, write, changes, faults>>

ReindexFails ==
  /\ reindex
  /\ faults < MaxFaults
  /\ reindex' = FALSE
  /\ cache' = Excused(Corpus)
  /\ faults' = faults + 1
  /\ UNCHANGED <<store, load, write, changes>>

----------------------------------------------------------------------------
\* Mutant: the listing of the corpus is stored without a time to live.
ExpirePrivate(t) ==
  /\ t # Corpus
  /\ cache[t] # Nothing
  /\ cache' = [cache EXCEPT ![t] = Nothing]
  /\ UNCHANGED <<store, load, write, reindex, changes, faults>>

\* The time to live of an entry is over.
Expire(t) ==
  /\ cache[t] # Nothing
  /\ cache' = [cache EXCEPT ![t] = Nothing]
  /\ UNCHANGED <<store, load, write, reindex, changes, faults>>

LoadStep(r) ==
  \/ Hit(r) \/ Miss(r) \/ GetFails(r)
  \/ List(r) \/ (\E f \in Files : Fetch(r, f) \/ FetchGone(r, f)) \/ ReadFails(r)
  \/ Fill(r) \/ FillFails(r) \/ Answer(r) \/ Cut(r)

WriteStep(w) ==
  \/ StatMisses(w) \/ StatFinds(w) \/ StatFails(w)
  \/ Store(w) \/ (\E landed \in BOOLEAN : StoreFails(w, landed))
  \/ Invalidate(w) \/ InvalidateFails(w)

Next ==
  \/ \E r \in Loads, u \in Users : StartLoad(r, u)
  \/ \E r \in Loads : LoadStep(r)
  \/ \E w \in Writes, u \in Users, f \in Files, delete \in BOOLEAN :
       StartWrite(w, u, f, delete)
  \/ \E w \in Writes : WriteStep(w)
  \/ \E f \in Files, removed \in BOOLEAN : ChangeCorpus(f, removed)
  \/ Reindex \/ ReindexFails
  \/ \E t \in Tiers : Expire(t)

Spec == Init /\ [][Next]_vars

=============================================================================
