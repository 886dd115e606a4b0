------------------------ MODULE LayerCacheProperties ------------------------
(***************************************************************************)
(* What LayerCache is checked for.                                         *)
(***************************************************************************)
EXTENDS LayerCache

Entries == [rows : Listing, torn : BOOLEAN]
LoadRecords ==
  [at : {"idle", "get", "list", "fetch", "answer"},
   user : Tiers, tier : Tiers, left : SUBSET Files,
   rows : Listing, private : Listing, torn : BOOLEAN, settled : BOOLEAN]
WriteRecords ==
  [at : {"idle", "put", "stat", "remove", "invalidate"},
   user : Tiers, file : Files \cup {Nothing}, delete : BOOLEAN]

(* Type invariant of the stores, the requests and the counts.              *)
TypeOK ==
  /\ store \in [Tiers -> Listing]
  /\ cache \in [Tiers -> Entries \cup {Nothing}]
  /\ load \in [Loads -> LoadRecords]
  /\ write \in [Writes -> WriteRecords]
  /\ \A w \in Writes : write[w].at # "idle" => write[w].user \in Users /\ write[w].file \in Files
  /\ reindex \in BOOLEAN
  /\ changes \in Nat
  /\ faults \in Nat

----------------------------------------------------------------------------
(* A dropped listing is on its way.                                        *)
Pending(t) ==
  IF t = Corpus
  THEN reindex
  ELSE \E w \in Writes : write[w].at = "invalidate" /\ write[w].user = t

(* A cached listing that is not what the object store holds has one of the *)
(* three causes the design leaves to the time to live: a write has not     *)
(* dropped it yet, a call that had to drop it or to read for it failed, or *)
(* it was read while the tier changed.  A write that answered does not     *)
(* leave an older listing behind in any other way.                         *)
StaleHasCause ==
  \A t \in Tiers :
    cache[t] # Nothing /\ cache[t].rows # store[t] => cache[t].torn \/ Pending(t)

(* What makes it inductive: the rows a load has read are the store's, as   *)
(* long as nothing tore them, and the others are still there; and it reads *)
(* its user's tier or the corpus.                                          *)
ReadIsCurrent ==
  \A r \in Loads :
    LET l == load[r]
    IN /\ l.tier \in {l.user, Corpus}
       /\ l.at \in {"get", "list"} => l.rows = Empty
       /\ l.at = "fetch" /\ ~l.torn =>
         \A f \in Files :
           IF f \in l.left
           THEN l.rows[f] = Nothing /\ store[l.tier][f] # Nothing
           ELSE l.rows[f] = store[l.tier][f]

----------------------------------------------------------------------------
(* The rows are of tier t.                                                 *)
Of(rows, t) == \A f \in Files : rows[f] # Nothing => rows[f][1] = t /\ rows[f][2] = f

(* The cache never mixes tiers: what is cached for a user, and what a load *)
(* of hers is about to answer, is her own or of the corpus, although every *)
(* user's entry is in one Redis and a failing cache answers nothing.       *)
RowsAreOwn ==
  /\ \A t \in Tiers : cache[t] # Nothing => Of(cache[t].rows, t)
  /\ \A r \in Loads :
       /\ Of(load[r].rows, load[r].tier)
       /\ Of(load[r].private, load[r].user)

StoredInPlace == \A t \in Tiers : Of(store[t], t)

----------------------------------------------------------------------------
(* Redis expires entries; no request has to go on.                         *)
FairSpec == Spec /\ \A t \in Tiers : WF_vars(Expire(t))

(* layer_cache.py:23-25: a missed invalidation cannot pin staleness        *)
(* forever.  Whatever was missed and however the reads and writes met, once*)
(* the store stays as it is the cache comes to agree with it.              *)
SelfHeals == <>[](\A t \in Tiers : cache[t] # Nothing => cache[t].rows = store[t])

----------------------------------------------------------------------------
(* episodic.py:97-99: a write invalidates the caller's entry so that       *)
(* subsequent loads see the new content.  A load that starts when no write *)
(* of the user is in progress, and meets none, answers what is stored, if  *)
(* no call fails.                                                          *)
LoadSeesWrites ==
  \A r \in Loads :
    load[r].at = "answer" /\ load[r].settled /\ faults = 0 =>
      \A f \in Files : LET own == store[load[r].user][f]
                       IN own # Nothing => Merged(load[r])[f] = own

=============================================================================
