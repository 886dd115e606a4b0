-------------------------- MODULE LayerCacheProofs --------------------------
(***************************************************************************)
(* Proofs about LayerCache for any users and files, any number of loads    *)
(* and writes at a time, and any bounds of changes and faults.             *)
(***************************************************************************)
EXTENDS LayerCacheProperties, TLAPS

(* The invariant: what is cached is own and stale only with a cause,       *)
(* because what the loads hold and what the store holds is own, and what a *)
(* load has read is current unless torn.                                   *)
Inv == TypeOK /\ ReadIsCurrent /\ StaleHasCause /\ RowsAreOwn /\ StoredInPlace

(* The part of it that is about one load.                                  *)
Good(l) ==
  /\ l \in LoadRecords
  /\ l.tier \in {l.user, Corpus}
  /\ l.at \in {"get", "list"} => l.rows = Empty
  /\ l.at = "fetch" /\ ~l.torn =>
       \A f \in Files :
         IF f \in l.left
         THEN l.rows[f] = Nothing /\ store[l.tier][f] # Nothing
         ELSE l.rows[f] = store[l.tier][f]
  /\ Of(l.rows, l.tier)
  /\ Of(l.private, l.user)

LEMMA GoodLoads ==
  ASSUME Inv, NEW r \in Loads
  PROVE  Good(load[r])
  BY DEF Inv, TypeOK, ReadIsCurrent, RowsAreOwn, Good

LEMMA EmptyIsOwn ==
  /\ Empty \in Listing
  /\ \A t : Of(Empty, t)
  /\ Good(IdleLoad)
<1>1. Empty \in Listing /\ \A t : Of(Empty, t)
  BY DEF Empty, Listing, Of
<1> QED
  BY <1>1 DEF Good, IdleLoad, LoadRecords, Tiers

(* A step that only takes one load on keeps the invariant if the load is   *)
(* good afterwards.                                                        *)
LEMMA LoadMoves ==
  ASSUME Inv, NEW r \in Loads, NEW l, Good(l),
         load' = [load EXCEPT ![r] = l], faults' \in Nat,
         UNCHANGED <<store, cache, write, reindex, changes>>
  PROVE  Inv'
<1>1. TypeOK'
  BY DEF Inv, TypeOK, Good
<1>2. load'[r] = l /\ \A q \in Loads : q # r => load'[q] = load[q]
  BY DEF Inv, TypeOK
<1>3. ReadIsCurrent'
  BY <1>2 DEF Inv, ReadIsCurrent, Good
<1>4. StaleHasCause' /\ StoredInPlace'
  BY DEF Inv, StaleHasCause, StoredInPlace, Pending
<1>5. RowsAreOwn'
  BY <1>2 DEF Inv, RowsAreOwn, Good
<1> QED
  BY <1>1, <1>3, <1>4, <1>5 DEF Inv

(* A step after which every tier is cached as before, or not at all, or    *)
(* torn, keeps the invariant if it changes no store and no load and        *)
(* excuses every entry whose pending drop it ends.                         *)
LEMMA CacheMoves ==
  ASSUME Inv, TypeOK', UNCHANGED <<store, load>>,
         \A t \in Tiers :
           \/ cache'[t] = Nothing
           \/ /\ cache[t] # Nothing
              /\ cache'[t].rows = cache[t].rows
              /\ cache'[t].torn \/ (cache'[t].torn = cache[t].torn /\ (Pending(t) => Pending(t)'))
  PROVE  Inv'
<1>1. ReadIsCurrent' /\ StoredInPlace'
  BY DEF Inv, ReadIsCurrent, StoredInPlace
<1>2. StaleHasCause'
  BY DEF Inv, StaleHasCause
<1>3. RowsAreOwn'
  BY DEF Inv, RowsAreOwn
<1> QED
  BY <1>1, <1>2, <1>3 DEF Inv

(* The rows of a hit or of a finished reading are good for the next step.  *)
LEMMA AfterIsGood ==
  ASSUME NEW l, Good(l), NEW rows \in Listing, Of(rows, l.tier)
  PROVE  Good(After(l, rows))
<1>1. CASE l.tier = Corpus
  BY <1>1 DEF Good, After, LoadRecords
<1>2. CASE l.tier # Corpus
  <2>1. Corpus \in Tiers /\ l.tier = l.user
    BY <1>2 DEF Tiers, Good
  <2> QED
    BY <1>2, <2>1, EmptyIsOwn DEF Good, After, LoadRecords
<1> QED
  BY <1>1, <1>2

LEMMA LoadSteps ==
  ASSUME Inv, NEW r \in Loads,
         (\E u \in Users : StartLoad(r, u)) \/ LoadStep(r)
  PROVE  Inv'
<1> DEFINE l == load[r]
<1>1. Good(l) /\ faults \in Nat /\ faults + 1 \in Nat
  BY GoodLoads DEF Inv, TypeOK
<1>2. ASSUME NEW u \in Users, StartLoad(r, u)
      PROVE  Inv'
  <2> DEFINE b == \A w \in Writes : write[w].user # u
  <2>1. b \in BOOLEAN
    OBVIOUS
  <2> HIDE DEF b
  <2>2. Good([IdleLoad EXCEPT !.at = "get", !.user = u, !.tier = u, !.settled = b])
    BY <2>1, EmptyIsOwn DEF Good, LoadRecords, IdleLoad, Tiers
  <2> USE DEF b
  <2> QED
    BY <1>1, <1>2, <2>2, LoadMoves DEF StartLoad
<1>3. CASE Hit(r)
  <2>1. l.tier \in Tiers /\ cache[l.tier] \in Entries /\ Of(cache[l.tier].rows, l.tier)
    BY <1>1, <1>3 DEF Hit, Key, Good, LoadRecords, Inv, TypeOK, RowsAreOwn
  <2>2. Good(After(l, cache[l.tier].rows))
    BY <1>1, <2>1, AfterIsGood DEF Entries
  <2> QED
    BY <1>1, <1>3, <2>2, LoadMoves DEF Hit, Key
<1>4. CASE Miss(r) \/ GetFails(r)
  <2>1. Good([l EXCEPT !.at = "list"])
    BY <1>1, <1>4 DEF Miss, GetFails, Good, LoadRecords
  <2> QED
    BY <1>1, <1>4, <2>1, LoadMoves DEF Miss, GetFails
<1>5. CASE List(r)
  <2> DEFINE found == {f \in Files : store[l.tier][f] # Nothing}
             n == [l EXCEPT !.left = found, !.at = "fetch"]
  <2>1. l.rows = Empty /\ l \in LoadRecords
    BY <1>1, <1>5 DEF List, Good
  <2>2. /\ n.at = "fetch" /\ n.user = l.user /\ n.tier = l.tier /\ n.left = found
        /\ n.rows = l.rows /\ n.private = l.private /\ n.torn = l.torn
        /\ n \in LoadRecords
    BY <2>1 DEF LoadRecords
  <2>3. load' = [load EXCEPT ![r] = n]
    BY <1>5 DEF List
  <2> HIDE DEF n
  <2>4. Good(n)
    BY <1>1, <2>1, <2>2 DEF Good, Empty
  <2> QED
    BY <1>1, <1>5, <2>3, <2>4, LoadMoves DEF List
<1>6. ASSUME NEW f \in Files, Fetch(r, f)
      PROVE  Inv'
  <2> DEFINE content == store[l.tier][f]
             n == Got(l, f, content)
  <2>1. l \in LoadRecords /\ l.at = "fetch" /\ f \in l.left /\ content # Nothing
    BY <1>1, <1>6 DEF Fetch, IsNext, Good
  <2>2. content \in Contents /\ content[1] = l.tier /\ content[2] = f
    BY <2>1 DEF Inv, TypeOK, StoredInPlace, Of, Listing, LoadRecords
  <2>3. /\ n.at = "fetch" /\ n.user = l.user /\ n.tier = l.tier /\ n.left = l.left \ {f}
        /\ n.rows = [l.rows EXCEPT ![f] = content] /\ n.private = l.private
        /\ n.torn = l.torn /\ n.settled = l.settled /\ n \in LoadRecords
    BY <2>1, <2>2 DEF Got, LoadRecords, Listing
  <2>7. load' = [load EXCEPT ![r] = n]
    BY <1>6 DEF Fetch
  <2> HIDE DEF n
  <2>4. \A g \in Files : n.rows[g] = IF g = f THEN content ELSE l.rows[g]
    BY <2>1, <2>3 DEF LoadRecords, Listing
  <2>5. Of(n.rows, n.tier)
    BY <1>1, <2>2, <2>3, <2>4 DEF Of, Good
  <2>6. Good(n)
    BY <1>1, <2>1, <2>3, <2>4, <2>5 DEF Good
  <2> QED
    BY <1>1, <1>6, <2>6, <2>7, LoadMoves DEF Fetch
<1>7. ASSUME NEW f \in Files, FetchGone(r, f)
      PROVE  Inv'
  <2>1. l.torn /\ l.at = "fetch"
    BY <1>1, <1>7 DEF FetchGone, IsNext, Good, LoadRecords
  <2>2. Good([l EXCEPT !.left = {}])
    BY <1>1, <2>1 DEF Good, LoadRecords
  <2> QED
    BY <1>1, <1>7, <2>2, LoadMoves DEF FetchGone
<1>8. CASE ReadFails(r)
  <2>1. Good([l EXCEPT !.at = "fetch", !.left = {}, !.torn = TRUE])
    BY <1>1 DEF Good, LoadRecords
  <2> QED
    BY <1>1, <1>8, <2>1, LoadMoves DEF ReadFails
<1>9. ASSUME Of(l.rows, l.tier)
      PROVE  Good(After(l, l.rows))
  BY <1>1, <1>9, AfterIsGood DEF Good, LoadRecords
<1>10. CASE FillFails(r)
  BY <1>1, <1>9, <1>10, LoadMoves DEF FillFails, Good
<1>11. CASE Answer(r) \/ Cut(r)
  BY <1>1, <1>11, EmptyIsOwn, LoadMoves DEF Answer, Cut
<1>12. CASE Fill(r)
  <2> DEFINE e == [rows |-> l.rows, torn |-> l.torn]
             n == After(l, l.rows)
  <2>1. l.tier \in Tiers /\ e \in Entries /\ Good(n) /\ Of(e.rows, l.tier)
    BY <1>1, <1>9 DEF Good, LoadRecords, Entries
  <2>2. /\ cache' = [cache EXCEPT ![l.tier] = e] /\ load' = [load EXCEPT ![r] = n]
        /\ UNCHANGED <<store, write, reindex, changes, faults>>
    BY <1>12 DEF Fill, Key
  <2>3. TypeOK'
    BY <2>1, <2>2 DEF Inv, TypeOK, Good
  <2>4. load'[r] = n /\ \A q \in Loads : q # r => load'[q] = load[q]
    BY <2>2 DEF Inv, TypeOK
  <2>5. cache'[l.tier] = e /\ \A t \in Tiers : t # l.tier => cache'[t] = cache[t]
    BY <2>1, <2>2 DEF Inv, TypeOK
  <2>6. ReadIsCurrent'
    BY <2>1, <2>2, <2>4 DEF Inv, ReadIsCurrent, Good
  <2>7. RowsAreOwn'
    BY <2>1, <2>2, <2>4, <2>5 DEF Inv, RowsAreOwn, Good
  <2>8. ~l.torn => l.rows = store[l.tier]
    <3> SUFFICES ASSUME ~l.torn
                 PROVE  l.rows = store[l.tier]
      OBVIOUS
    <3>1. \A f \in Files : l.rows[f] = store[l.tier][f]
      BY <1>1, <1>12 DEF Good, Fill
    <3>2. l.rows \in Listing /\ store[l.tier] \in Listing
      BY <1>1, <2>1 DEF Good, LoadRecords, Inv, TypeOK
    <3> QED
      BY <3>1, <3>2 DEF Listing
  <2>9. StaleHasCause'
    BY <2>2, <2>5, <2>8 DEF Inv, StaleHasCause, Pending
  <2>10. StoredInPlace'
    BY <2>2 DEF Inv, StoredInPlace
  <2> QED
    BY <2>3, <2>6, <2>7, <2>9, <2>10 DEF Inv
<1> QED
  BY <1>2, <1>3, <1>4, <1>5, <1>6, <1>7, <1>8, <1>10, <1>11, <1>12 DEF LoadStep

(* A change of tier t keeps the stores own and the loads good: the loads   *)
(* that read the tier are torn.                                            *)
LEMMA ChangeSteps ==
  ASSUME Inv, NEW t \in Tiers, NEW f \in Files, NEW removed \in BOOLEAN,
         Change(t, f, removed)
  PROVE  /\ changes' \in Nat
         /\ store' \in [Tiers -> Listing]
         /\ load' \in [Loads -> LoadRecords]
         /\ \A q \in Tiers : q # t => store'[q] = store[q]
         /\ StoredInPlace'
         /\ ReadIsCurrent'
         /\ \A r \in Loads : /\ Of(load'[r].rows, load'[r].tier)
                             /\ Of(load'[r].private, load'[r].user)
<1> DEFINE new == IF removed THEN Nothing ELSE <<t, f, changes'>>
<1>1. changes' \in Nat
  BY DEF Change, Inv, TypeOK
<1>2. new \in Contents \cup {Nothing} /\ (new # Nothing => new[1] = t /\ new[2] = f)
  BY <1>1 DEF Contents
<1>3. store' = [store EXCEPT ![t][f] = new]
  BY DEF Change
<1> HIDE DEF new
<1>4. store' \in [Tiers -> Listing]
  BY <1>2, <1>3 DEF Inv, TypeOK, Listing
<1>5. \A q \in Tiers, g \in Files :
        store'[q][g] = IF q = t /\ g = f THEN new ELSE store[q][g]
  BY <1>3 DEF Inv, TypeOK, Listing
<1>6. \A q \in Tiers : q # t => store'[q] = store[q]
  BY <1>3 DEF Inv, TypeOK
<1>7. StoredInPlace'
  BY <1>2, <1>5 DEF Inv, StoredInPlace, Of
<1>8. ASSUME NEW r \in Loads
      PROVE  /\ load'[r] \in LoadRecords
             /\ load'[r].at = load[r].at /\ load'[r].user = load[r].user
             /\ load'[r].tier = load[r].tier /\ load'[r].left = load[r].left
             /\ load'[r].rows = load[r].rows /\ load'[r].private = load[r].private
             /\ ~load'[r].torn => ~load[r].torn /\ (load[r].at = "fetch" => load[r].tier # t)
  <2> DEFINE b == load[r].torn \/ (load[r].at = "fetch" /\ load[r].tier = t)
  <2>1. load'[r] = [load[r] EXCEPT !.torn = b]
    BY DEF Change
  <2>2. load[r] \in LoadRecords /\ b \in BOOLEAN
    BY DEF Inv, TypeOK, LoadRecords
  <2>3. ~b => ~load[r].torn /\ (load[r].at = "fetch" => load[r].tier # t)
    OBVIOUS
  <2> HIDE DEF b
  <2> QED
    BY <2>1, <2>2, <2>3 DEF LoadRecords
<1>9. load' \in [Loads -> LoadRecords]
  <2>1. load' = [r \in Loads |-> load'[r]]
    BY DEF Change
  <2> QED
    BY <1>8, <2>1
<1>10. ReadIsCurrent'
  <2> SUFFICES ASSUME NEW r \in Loads
               PROVE  /\ load'[r].tier \in {load'[r].user, Corpus}
                      /\ load'[r].at \in {"get", "list"} => load'[r].rows = Empty
                      /\ load'[r].at = "fetch" /\ ~load'[r].torn =>
                           \A g \in Files :
                             IF g \in load'[r].left
                             THEN load'[r].rows[g] = Nothing /\ store'[load'[r].tier][g] # Nothing
                             ELSE load'[r].rows[g] = store'[load'[r].tier][g]
    BY DEF ReadIsCurrent
  <2>1. load[r].tier \in Tiers
    BY DEF Inv, TypeOK, LoadRecords
  <2> QED
    BY <1>6, <1>8, <2>1 DEF Inv, ReadIsCurrent
<1>11. \A r \in Loads : /\ Of(load'[r].rows, load'[r].tier)
                        /\ Of(load'[r].private, load'[r].user)
  BY <1>8 DEF Inv, RowsAreOwn
<1> QED
  BY <1>1, <1>4, <1>6, <1>7, <1>9, <1>10, <1>11

(* What excuses an entry keeps it.                                         *)
LEMMA ExcusedEntries ==
  ASSUME Inv, NEW t \in Tiers, cache' = Excused(t)
  PROVE  /\ cache' \in [Tiers -> Entries \cup {Nothing}]
         /\ \A q \in Tiers :
              IF cache[q] = Nothing
              THEN cache'[q] = Nothing
              ELSE /\ cache'[q] # Nothing
                   /\ cache'[q].rows = cache[q].rows
                   /\ cache'[q].torn = (IF q = t THEN TRUE ELSE cache[q].torn)
<1> USE NothingAssumption DEF Inv, TypeOK, Entries, Excused
<1>1. CASE cache[t] = Nothing
  BY <1>1
<1>2. CASE cache[t] # Nothing
  <2>1. cache' = [cache EXCEPT ![t].torn = TRUE] /\ cache[t] \in Entries
    BY <1>2
  <2>2. cache'[t] \in Entries /\ cache'[t].rows = cache[t].rows /\ cache'[t].torn = TRUE
    BY <2>1
  <2>3. \A q \in Tiers : q # t => cache'[q] = cache[q]
    BY <2>1
  <2>4. \A q \in Tiers : cache[q] # Nothing => cache[q] \in Entries
    OBVIOUS
  <2> QED
    BY <1>2, <2>1, <2>2, <2>3, <2>4
<1> QED
  BY <1>1, <1>2

(* Only what a write has still to drop is pending.                         *)
LEMMA PendingAfter ==
  ASSUME Inv, NEW w \in Writes, NEW v, write' = [write EXCEPT ![w] = v], UNCHANGED reindex,
         NEW t \in Tiers, Pending(t), write[w].at = "invalidate" => write[w].user # t
  PROVE  Pending(t)'
<1>1. \A x \in Writes : x # w => write'[x] = write[x]
  OBVIOUS
<1>2. CASE t = Corpus
  BY <1>2 DEF Pending
<1>3. CASE t # Corpus
  <2>1. PICK x \in Writes : write[x].at = "invalidate" /\ write[x].user = t
    BY <1>3 DEF Pending
  <2> QED
    BY <1>1, <1>3, <2>1 DEF Pending
<1> QED
  BY <1>2, <1>3

(* A write record in progress names a user and a file.                     *)
LEMMA WriteMoves ==
  ASSUME Inv, NEW w \in Writes, NEW v \in WriteRecords,
         v.at # "idle" => v.user \in Users /\ v.file \in Files,
         write' = [write EXCEPT ![w] = v]
  PROVE  /\ write' \in [Writes -> WriteRecords]
         /\ \A x \in Writes : write'[x].at # "idle" =>
              write'[x].user \in Users /\ write'[x].file \in Files
         /\ write'[w] = v
  BY DEF Inv, TypeOK

LEMMA IdleWriteOK == IdleWrite \in WriteRecords /\ IdleWrite.at = "idle"
  BY DEF IdleWrite, WriteRecords, Tiers

LEMMA WriteSteps ==
  ASSUME Inv, NEW w \in Writes, WriteStep(w)
  PROVE  Inv'
<1> DEFINE v == write[w]
<1>1. /\ v \in WriteRecords /\ faults \in Nat /\ faults + 1 \in Nat
      /\ v.at # "idle" => v.user \in Users /\ v.user \in Tiers /\ v.user # Corpus /\ v.file \in Files
  BY TiersAssumption DEF Inv, TypeOK, Tiers
<1>2. CASE StatMisses(w) \/ StatFinds(w) \/ StatFails(w)
  <2>1. v.at = "stat" /\ UNCHANGED <<store, cache, load, reindex, changes>> /\ faults' \in Nat
    BY <1>1, <1>2 DEF StatMisses, StatFinds, StatFails
  <2>2. PICK n \in WriteRecords : /\ write' = [write EXCEPT ![w] = n]
                                  /\ n.at # "idle" => n.user \in Users /\ n.file \in Files
    <3>1. [v EXCEPT !.at = "remove"] \in WriteRecords
      BY <1>1 DEF WriteRecords
    <3>2. [v EXCEPT !.at = "remove"].user = v.user /\ [v EXCEPT !.at = "remove"].file = v.file
      BY <1>1 DEF WriteRecords
    <3> QED
      BY <1>1, <1>2, <2>1, <3>1, <3>2, IdleWriteOK DEF StatMisses, StatFinds, StatFails
  <2>3. TypeOK'
    BY <2>1, <2>2, WriteMoves DEF Inv, TypeOK
  <2>4. \A t \in Tiers : Pending(t) => Pending(t)'
    BY <2>1, <2>2, PendingAfter
  <2> QED
    BY <2>1, <2>3, <2>4, CacheMoves
<1>3. ASSUME v.at \in {"put", "remove"}, Change(v.user, v.file, v.delete), faults' \in Nat,
             UNCHANGED reindex,
             NEW n \in WriteRecords, n.at # "idle" => n.user = v.user /\ n.file = v.file,
             write' = [write EXCEPT ![w] = n],
             \/ cache' = cache /\ n.at = "invalidate"
             \/ cache' = Excused(v.user)
      PROVE  Inv'
  <2>1. v.delete \in BOOLEAN /\ v.user \in Tiers /\ v.file \in Files /\ v.user # Corpus /\ v.user \in Users
    BY <1>1, <1>3 DEF WriteRecords
  <2>2. /\ changes' \in Nat /\ store' \in [Tiers -> Listing] /\ load' \in [Loads -> LoadRecords]
        /\ \A q \in Tiers : q # v.user => store'[q] = store[q]
        /\ StoredInPlace' /\ ReadIsCurrent'
        /\ \A r \in Loads : Of(load'[r].rows, load'[r].tier) /\ Of(load'[r].private, load'[r].user)
    BY <1>3, <2>1, ChangeSteps
  <2>3. /\ cache' \in [Tiers -> Entries \cup {Nothing}]
        /\ \A q \in Tiers :
             IF cache[q] = Nothing
             THEN cache'[q] = Nothing
             ELSE /\ cache'[q] # Nothing
                  /\ cache'[q].rows = cache[q].rows
                  /\ cache'[q].torn = cache[q].torn \/ (q = v.user /\ cache'[q].torn)
    BY <1>3, <2>1, ExcusedEntries DEF Inv, TypeOK
  <2>4. TypeOK'
    BY <1>1, <1>3, <2>1, <2>2, <2>3, WriteMoves DEF Inv, TypeOK
  <2>5. RowsAreOwn'
    BY <2>2, <2>3 DEF Inv, RowsAreOwn
  <2>6. StaleHasCause'
    <3> SUFFICES ASSUME NEW t \in Tiers, cache'[t] # Nothing, cache'[t].rows # store'[t], ~cache'[t].torn
                 PROVE  Pending(t)'
      BY DEF StaleHasCause
    <3>1. CASE t = v.user
      <4>1. cache' = cache /\ n.at = "invalidate"
        BY <1>3, <2>1, <3>1, ExcusedEntries
      <4>2. write'[w] = n
        BY <1>3 DEF Inv, TypeOK
      <4> QED
        BY <1>3, <2>1, <3>1, <4>1, <4>2 DEF Pending
    <3>2. CASE t # v.user
      <4>1. cache[t] # Nothing /\ cache'[t].rows = cache[t].rows /\ cache'[t].torn = cache[t].torn
        BY <2>3, <3>2
      <4>2. Pending(t)
        BY <2>2, <3>2, <4>1 DEF Inv, StaleHasCause
      <4> QED
        BY <1>3, <4>2, PendingAfter
    <3> QED
      BY <3>1, <3>2
  <2> QED
    BY <2>2, <2>4, <2>5, <2>6 DEF Inv
<1>4. CASE Store(w)
  <2>1. [v EXCEPT !.at = "invalidate"] \in WriteRecords
    BY <1>1 DEF WriteRecords
  <2>2. /\ [v EXCEPT !.at = "invalidate"].user = v.user
        /\ [v EXCEPT !.at = "invalidate"].file = v.file
        /\ [v EXCEPT !.at = "invalidate"].at = "invalidate"
    BY <1>1 DEF WriteRecords
  <2>3. write' = [write EXCEPT ![w] = [v EXCEPT !.at = "invalidate"]]
    BY <1>4 DEF Store
  <2> QED
    BY <1>1, <1>3, <1>4, <2>1, <2>2, <2>3 DEF Store
<1>5. ASSUME NEW landed \in BOOLEAN, StoreFails(w, landed)
      PROVE  Inv'
  <2>1. CASE landed /\ Change(v.user, v.file, v.delete) /\ cache' = Excused(v.user)
    BY <1>1, <1>3, <1>5, <2>1, IdleWriteOK DEF StoreFails
  <2>2. CASE UNCHANGED <<store, cache, load, changes>>
    <3>1. v.at # "invalidate" /\ write' = [write EXCEPT ![w] = IdleWrite] /\ UNCHANGED reindex
          /\ faults' \in Nat
      BY <1>1, <1>5 DEF StoreFails
    <3>2. TypeOK'
      BY <2>2, <3>1, WriteMoves, IdleWriteOK DEF Inv, TypeOK
    <3>3. \A t \in Tiers : Pending(t) => Pending(t)'
      BY <3>1, PendingAfter
    <3> QED
      BY <2>2, <3>2, <3>3, CacheMoves
  <2> QED
    BY <1>5, <2>1, <2>2 DEF StoreFails
<1>6. CASE Invalidate(w) \/ InvalidateFails(w)
  <2>1. /\ v.at = "invalidate" /\ write' = [write EXCEPT ![w] = IdleWrite]
        /\ UNCHANGED <<store, load, reindex, changes>> /\ faults' \in Nat
        /\ cache' = [cache EXCEPT ![v.user] = Nothing] \/ cache' = Excused(v.user)
    BY <1>1, <1>6 DEF Invalidate, InvalidateFails, Key
  <2>2. v.user \in Tiers
    BY <1>1, <2>1
  <2>3. /\ cache' \in [Tiers -> Entries \cup {Nothing}]
        /\ \A t \in Tiers :
             \/ cache'[t] = Nothing
             \/ /\ cache[t] # Nothing /\ cache'[t].rows = cache[t].rows
                /\ cache'[t].torn \/ (t # v.user /\ cache'[t].torn = cache[t].torn)
    BY <2>1, <2>2, ExcusedEntries DEF Inv, TypeOK
  <2>4. TypeOK'
    BY <2>1, <2>3, WriteMoves, IdleWriteOK DEF Inv, TypeOK
  <2>5. \A t \in Tiers : t # v.user /\ Pending(t) => Pending(t)'
    BY <2>1, PendingAfter
  <2> QED
    BY <2>1, <2>3, <2>4, <2>5, CacheMoves
<1> QED
  BY <1>2, <1>4, <1>5, <1>6 DEF WriteStep

LEMMA StartWriteStep ==
  ASSUME Inv, NEW w \in Writes, NEW u \in Users, NEW f \in Files, NEW delete \in BOOLEAN,
         StartWrite(w, u, f, delete)
  PROVE  Inv'
<1> DEFINE v == [at |-> IF delete THEN "stat" ELSE "put", user |-> u, file |-> f,
                 delete |-> delete]
<1>1. v \in WriteRecords /\ v.user \in Users /\ v.file \in Files
  BY DEF WriteRecords, Tiers
<1>2. /\ write[w].at = "idle" /\ write' = [write EXCEPT ![w] = v]
      /\ UNCHANGED <<store, cache, reindex, changes, faults>>
  BY DEF StartWrite
<1>3. ASSUME NEW r \in Loads
      PROVE  /\ load'[r] \in LoadRecords
             /\ load'[r].at = load[r].at /\ load'[r].user = load[r].user
             /\ load'[r].tier = load[r].tier /\ load'[r].left = load[r].left
             /\ load'[r].rows = load[r].rows /\ load'[r].private = load[r].private
             /\ load'[r].torn = load[r].torn
  <2> DEFINE b == load[r].settled /\ load[r].user # u
  <2>1. load'[r] = [load[r] EXCEPT !.settled = b]
    BY DEF StartWrite
  <2>2. load[r] \in LoadRecords /\ b \in BOOLEAN
    BY DEF Inv, TypeOK, LoadRecords
  <2> HIDE DEF b
  <2> QED
    BY <2>1, <2>2 DEF LoadRecords
<1>4. load' \in [Loads -> LoadRecords]
  <2>1. load' = [r \in Loads |-> load'[r]]
    BY DEF StartWrite
  <2> QED
    BY <1>3, <2>1
<1> HIDE DEF v
<1>5. TypeOK'
  BY <1>1, <1>2, <1>4, WriteMoves DEF Inv, TypeOK
<1>6. \A t \in Tiers : Pending(t) => Pending(t)'
  BY <1>2, PendingAfter
<1>7. StaleHasCause' /\ StoredInPlace'
  BY <1>2, <1>6 DEF Inv, StaleHasCause, StoredInPlace
<1>8. ReadIsCurrent' /\ RowsAreOwn'
  BY <1>2, <1>3 DEF Inv, ReadIsCurrent, RowsAreOwn
<1> QED
  BY <1>5, <1>7, <1>8 DEF Inv

LEMMA CorpusSteps ==
  ASSUME Inv,
         \/ \E f \in Files, removed \in BOOLEAN : ChangeCorpus(f, removed)
         \/ Reindex \/ ReindexFails
         \/ \E t \in Tiers : Expire(t)
  PROVE  Inv'
<1>1. Corpus \in Tiers /\ faults \in Nat /\ faults + 1 \in Nat
  BY DEF Tiers, Inv, TypeOK
<1>2. ASSUME NEW f \in Files, NEW removed \in BOOLEAN, ChangeCorpus(f, removed)
      PROVE  Inv'
  <2>1. Change(Corpus, f, removed) /\ reindex' = TRUE /\ UNCHANGED <<cache, write, faults>>
    BY <1>2 DEF ChangeCorpus
  <2>2. /\ changes' \in Nat /\ store' \in [Tiers -> Listing] /\ load' \in [Loads -> LoadRecords]
        /\ \A q \in Tiers : q # Corpus => store'[q] = store[q]
        /\ StoredInPlace' /\ ReadIsCurrent'
        /\ \A r \in Loads : Of(load'[r].rows, load'[r].tier) /\ Of(load'[r].private, load'[r].user)
    BY <1>1, <2>1, ChangeSteps
  <2>3. TypeOK' /\ RowsAreOwn'
    BY <2>1, <2>2 DEF Inv, TypeOK, RowsAreOwn
  <2>4. StaleHasCause'
    BY <2>1, <2>2 DEF Inv, StaleHasCause, Pending
  <2> QED
    BY <2>2, <2>3, <2>4 DEF Inv
<1>3. CASE Reindex \/ ReindexFails
  <2>1. /\ reindex' = FALSE /\ UNCHANGED <<store, load, write, changes>> /\ faults' \in Nat
        /\ cache' = [cache EXCEPT ![Corpus] = Nothing] \/ cache' = Excused(Corpus)
    BY <1>1, <1>3 DEF Reindex, ReindexFails, Key
  <2>2. /\ cache' \in [Tiers -> Entries \cup {Nothing}]
        /\ \A t \in Tiers :
             \/ cache'[t] = Nothing
             \/ /\ cache[t] # Nothing /\ cache'[t].rows = cache[t].rows
                /\ cache'[t].torn \/ (t # Corpus /\ cache'[t].torn = cache[t].torn)
    BY <1>1, <2>1, ExcusedEntries DEF Inv, TypeOK
  <2>3. TypeOK'
    BY <2>1, <2>2 DEF Inv, TypeOK
  <2>4. \A t \in Tiers : t # Corpus /\ Pending(t) => Pending(t)'
    BY <2>1 DEF Pending
  <2> QED
    BY <2>1, <2>2, <2>3, <2>4, CacheMoves
<1>4. ASSUME NEW t \in Tiers, Expire(t)
      PROVE  Inv'
  <2>1. cache' = [cache EXCEPT ![t] = Nothing] /\ UNCHANGED <<store, load, write, reindex, changes, faults>>
    BY <1>4 DEF Expire
  <2>2. TypeOK' /\ \A q \in Tiers : cache'[q] = Nothing \/ cache'[q] = cache[q]
    BY <2>1 DEF Inv, TypeOK
  <2>3. \A q \in Tiers : Pending(q) => Pending(q)'
    BY <2>1 DEF Pending
  <2> QED
    BY <2>1, <2>2, <2>3, CacheMoves DEF Inv, TypeOK, Entries
<1> QED
  BY <1>2, <1>3, <1>4

LEMMA InitHolds == Init => Inv
<1> SUFFICES ASSUME Init
             PROVE  Inv
  OBVIOUS
<1> USE DEF Init
<1>1. \A t \in Tiers : store[t] \in Listing /\ Of(store[t], t)
  BY DEF Listing, Contents, Of
<1>2. TypeOK
  BY <1>1, IdleWriteOK, EmptyIsOwn DEF TypeOK, Good
<1>3. ReadIsCurrent /\ RowsAreOwn
  BY EmptyIsOwn DEF ReadIsCurrent, RowsAreOwn, Good
<1>4. StaleHasCause /\ StoredInPlace
  BY <1>1 DEF StaleHasCause, StoredInPlace
<1> QED
  BY <1>2, <1>3, <1>4 DEF Inv

LEMMA NextHolds == Inv /\ [Next]_vars => Inv'
<1> SUFFICES ASSUME Inv, [Next]_vars
             PROVE  Inv'
  OBVIOUS
<1>1. CASE UNCHANGED vars
  BY <1>1 DEF vars, Inv, TypeOK, ReadIsCurrent, StaleHasCause, Pending, RowsAreOwn, StoredInPlace
<1>2. CASE Next
  BY <1>2, LoadSteps, WriteSteps, StartWriteStep, CorpusSteps DEF Next
<1> QED
  BY <1>1, <1>2

LEMMA Invariance == Spec => []Inv
  BY InitHolds, NextHolds, PTL DEF Spec

(* The types of stores, cache and requests hold in every state.            *)
THEOREM TypesHold == Spec => []TypeOK
<1>1. Inv => TypeOK
  BY DEF Inv
<1> QED
  BY <1>1, Invariance, PTL

(* Of any number of loads, writes, crashes and failed calls: a cached      *)
(* listing that is not the store's is torn or about to be dropped.         *)
THEOREM StalenessHasCause == Spec => []StaleHasCause
<1>1. Inv => StaleHasCause
  BY DEF Inv
<1> QED
  BY <1>1, Invariance, PTL

(* No load is ever answered with rows of another user's tier.              *)
THEOREM AnswersAreOwn == Spec => []RowsAreOwn
<1>1. Inv => RowsAreOwn
  BY DEF Inv
<1> QED
  BY <1>1, Invariance, PTL
=============================================================================
