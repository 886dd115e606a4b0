------------------------- MODULE AsyncPersistProofs -------------------------
(***************************************************************************)
(* Proofs about AsyncPersist for any number of interactions and pods, any  *)
(* batch size and delivery limit, and any budget of faults, crashes and    *)
(* replays.                                                                *)
(***************************************************************************)
EXTENDS AsyncPersistProperties, FiniteSetTheorems, TLAPS

(* A delivery keeps the types of the stream, whichever entries it is of. *)
LEMMA DeliverType ==
    ASSUME TypeOK, NEW B, Deliver(B)
    PROVE  /\ entry' \in [Records -> {"absent", "queued", "pending", "acked"}]
           /\ deliveries' \in [Records -> Nat]
           /\ idle' \in [Records -> BOOLEAN]
    BY DEF TypeOK, Deliver

(* Every step keeps the types. *)
LEMMA TypeStep == TypeOK /\ InHand /\ [Next]_vars => TypeOK'
<1> SUFFICES ASSUME TypeOK, InHand, [Next]_vars PROVE TypeOK'
    OBVIOUS
<1> USE RecordsAssumption DEF TypeOK, InHand, NoItem, Holding, Fault, streamVars,
        tableVars, consumerVars, budgetVars
<1>1. ASSUME NEW r \in Records, Enqueue(r)
      PROVE  TypeOK'
    BY <1>1 DEF Enqueue
<1>2. ASSUME NEW r \in Records, EnqueueFails(r)
      PROVE  TypeOK'
    BY <1>2 DEF EnqueueFails
<1>29. ASSUME NEW r \in Records, StoreInRequest(r)
      PROVE  TypeOK'
    BY <1>29 DEF StoreInRequest
<1>3. ASSUME NEW r \in Records, SyncPersist(r)
      PROVE  TypeOK'
    BY <1>3 DEF SyncPersist
<1>4. ASSUME NEW r \in Records, SyncFlush(r)
      PROVE  TypeOK'
    BY <1>4 DEF SyncFlush
<1>5. ASSUME NEW r \in Records, SyncFails(r)
      PROVE  TypeOK'
    BY <1>5 DEF SyncFails, MaybeOneMore
<1>6. ASSUME NEW r \in Records, RequestCut(r)
      PROVE  TypeOK'
    BY <1>6 DEF RequestCut
<1>7. ASSUME NEW p \in Pods, Start(p)
      PROVE  TypeOK'
    BY <1>7 DEF Start
<1>8. ASSUME NEW p \in Pods, StartFails(p)
      PROVE  TypeOK'
    BY <1>8 DEF StartFails
<1>9. ASSUME NEW p \in Pods, Look(p)
      PROVE  TypeOK'
    BY <1>9 DEF Look, BatchOf, IdlePending, Free
<1>10. ASSUME NEW p \in Pods, Claim(p)
      PROVE  TypeOK'
    BY <1>10 DEF Claim, Deliver
<1>11. ASSUME NEW p \in Pods, Read(p)
      PROVE  TypeOK'
    BY <1>11 DEF Read, Deliver, BatchOf, Unread, Free
<1>12. ASSUME NEW p \in Pods, FetchFails(p)
      PROVE  TypeOK'
  <2>1. /\ entry' \in [Records -> {"absent", "queued", "pending", "acked"}]
        /\ deliveries' \in [Records -> Nat]
        /\ idle' \in [Records -> BOOLEAN]
    <3>1. CASE UNCHANGED <<entry, deliveries, idle>>
      BY <3>1
    <3>2. CASE ~UNCHANGED <<entry, deliveries, idle>>
      <4>1. \E B : Deliver(B)
        BY <1>12, <3>2 DEF FetchFails
      <4> QED
        BY <4>1, DeliverType
    <3> QED
      BY <3>1, <3>2
  <2> QED
    BY <1>12, <2>1 DEF FetchFails
<1>13. ASSUME NEW p \in Pods, NEW r \in Records, ParseFails(p, r)
      PROVE  TypeOK'
    BY <1>13 DEF ParseFails, Picks
<1>14. ASSUME NEW p \in Pods, NEW r \in Records, Check(p, r)
      PROVE  TypeOK'
    BY <1>14 DEF Check, Picks, DeliveryCount
<1>15. ASSUME NEW p \in Pods, NEW r \in Records, CheckFails(p, r)
      PROVE  TypeOK'
    BY <1>15 DEF CheckFails, Picks
<1>16. ASSUME NEW p \in Pods, Persist(p)
      PROVE  TypeOK'
    BY <1>16 DEF Persist
<1>17. ASSUME NEW p \in Pods, PersistFails(p)
      PROVE  TypeOK'
  <2>1. item[p].rec \in Records
    BY <1>17 DEF PersistFails
  <2>2. rows' \in [Records -> Nat]
    BY <1>17, <2>1 DEF PersistFails, MaybeOneMore
  <2> QED
    BY <1>17, <2>1, <2>2 DEF PersistFails
<1>18. ASSUME NEW p \in Pods, FieldsRaise(p)
      PROVE  TypeOK'
    BY <1>18 DEF FieldsRaise
<1>19. ASSUME NEW p \in Pods, Flush(p)
      PROVE  TypeOK'
    BY <1>19 DEF Flush
<1>20. ASSUME NEW p \in Pods, FlushFails(p)
      PROVE  TypeOK'
  <2>1. item[p].rec \in Records
    BY <1>20 DEF FlushFails
  <2>2. tools' \in [Records -> Nat]
    BY <1>20, <2>1 DEF FlushFails, MaybeOneMore
  <2> QED
    BY <1>20, <2>1, <2>2 DEF FlushFails
<1>21. ASSUME NEW p \in Pods, DeadLetter(p)
      PROVE  TypeOK'
    BY <1>21 DEF DeadLetter
<1>22. ASSUME NEW p \in Pods, DeadLetterFails(p)
      PROVE  TypeOK'
    BY <1>22 DEF DeadLetterFails
<1>23. ASSUME NEW p \in Pods, Ack(p)
      PROVE  TypeOK'
    BY <1>23 DEF Ack
<1>24. ASSUME NEW p \in Pods, AckFails(p)
      PROVE  TypeOK'
    BY <1>24 DEF AckFails
<1>25. ASSUME NEW p \in Pods, Crash(p)
      PROVE  TypeOK'
    BY <1>25 DEF Crash
<1>26. ASSUME NEW r \in Records, GoesIdle(r)
      PROVE  TypeOK'
    BY <1>26 DEF GoesIdle
<1>27. ASSUME NEW r \in Records, Replay(r)
      PROVE  TypeOK'
    BY <1>27 DEF Replay
<1>28. CASE UNCHANGED vars
    BY <1>28 DEF vars
<1> QED
    BY <1>1, <1>2, <1>3, <1>4, <1>5, <1>6, <1>7, <1>8, <1>9, <1>10,
       <1>11, <1>12, <1>13, <1>14, <1>15, <1>16, <1>17, <1>18, <1>19,
       <1>20, <1>21, <1>22, <1>23, <1>24, <1>25, <1>26, <1>27, <1>28, <1>29
    DEF Next, RequestNext, LoopNext, HandleNext

(* No step takes an account away, nor lets a consumer hold an entry it     *)
(* knows less of than InHand says: tables, logs and delivery counts only   *)
(* grow, and a replay moves an entry from one account to another.          *)
LEMMA InHandStep == TypeOK /\ InHand /\ [Next]_vars => InHand'
<1> SUFFICES ASSUME TypeOK, InHand, [Next]_vars PROVE InHand'
    OBVIOUS
<1> USE RecordsAssumption, LimitsAssumption DEF TypeOK, InHand, Accounted, NoItem, Holding,
        Fault, streamVars, tableVars, consumerVars, budgetVars
<1>1. ASSUME NEW r \in Records, Enqueue(r)
      PROVE  InHand'
    BY <1>1 DEF Enqueue
<1>2. ASSUME NEW r \in Records, EnqueueFails(r)
      PROVE  InHand'
    BY <1>2 DEF EnqueueFails
<1>29. ASSUME NEW r \in Records, StoreInRequest(r)
      PROVE  InHand'
    BY <1>29 DEF StoreInRequest
<1>3. ASSUME NEW r \in Records, SyncPersist(r)
      PROVE  InHand'
    BY <1>3 DEF SyncPersist
<1>4. ASSUME NEW r \in Records, SyncFlush(r)
      PROVE  InHand'
    BY <1>4 DEF SyncFlush
<1>5. ASSUME NEW r \in Records, SyncFails(r)
      PROVE  InHand'
    BY <1>5 DEF SyncFails, MaybeOneMore
<1>6. ASSUME NEW r \in Records, RequestCut(r)
      PROVE  InHand'
    BY <1>6 DEF RequestCut
<1>7. ASSUME NEW p \in Pods, Start(p)
      PROVE  InHand'
    BY <1>7 DEF Start
<1>8. ASSUME NEW p \in Pods, StartFails(p)
      PROVE  InHand'
    BY <1>8 DEF StartFails
<1>9. ASSUME NEW p \in Pods, Look(p)
      PROVE  InHand'
    BY <1>9 DEF Look, BatchOf, IdlePending, Free
<1>10. ASSUME NEW p \in Pods, Claim(p)
      PROVE  InHand'
    BY <1>10 DEF Claim, Deliver
<1>11. ASSUME NEW p \in Pods, Read(p)
      PROVE  InHand'
    BY <1>11 DEF Read, Deliver, BatchOf, Unread, Free
<1>12. ASSUME NEW p \in Pods, FetchFails(p)
      PROVE  InHand'
    BY <1>12 DEF FetchFails, Deliver
<1>13. ASSUME NEW p \in Pods, NEW r \in Records, ParseFails(p, r)
      PROVE  InHand'
    BY <1>13 DEF ParseFails, Picks
<1>14. ASSUME NEW p \in Pods, NEW r \in Records, Check(p, r)
      PROVE  InHand'
  <2>1. item'[p].rec = r /\ item'[p].step \in {"persist", "dead_letter"}
    BY <1>14 DEF Check
  <2>2. \A q \in Pods : q # p => item'[q] = item[q]
    BY <1>14 DEF Check
  <2>3. /\ rows' = rows /\ deliveries' = deliveries /\ dlq' = dlq
        /\ logged' = logged /\ replayed' = replayed
    BY <1>14 DEF Check
  <2>4. item'[p].step = "dead_letter" => deliveries[r] > MaxDeliveries
    <3>1. item'[p].step = "dead_letter" => DeliveryCount(r) > MaxDeliveries
      BY <1>14 DEF Check
    <3>2. DeliveryCount(r) > MaxDeliveries => deliveries[r] > MaxDeliveries
      BY DEF DeliveryCount
    <3> QED
      BY <3>1, <3>2
  <2> QED
    BY <2>1, <2>2, <2>3, <2>4
<1>15. ASSUME NEW p \in Pods, NEW r \in Records, CheckFails(p, r)
      PROVE  InHand'
    BY <1>15 DEF CheckFails, Picks
<1>16. ASSUME NEW p \in Pods, Persist(p)
      PROVE  InHand'
    BY <1>16 DEF Persist
<1>17. ASSUME NEW p \in Pods, PersistFails(p)
      PROVE  InHand'
    BY <1>17 DEF PersistFails, MaybeOneMore
<1>18. ASSUME NEW p \in Pods, FieldsRaise(p)
      PROVE  InHand'
    BY <1>18 DEF FieldsRaise
<1>19. ASSUME NEW p \in Pods, Flush(p)
      PROVE  InHand'
    BY <1>19 DEF Flush
<1>20. ASSUME NEW p \in Pods, FlushFails(p)
      PROVE  InHand'
    BY <1>20 DEF FlushFails, MaybeOneMore
<1>21. ASSUME NEW p \in Pods, DeadLetter(p)
      PROVE  InHand'
    BY <1>21 DEF DeadLetter
<1>22. ASSUME NEW p \in Pods, DeadLetterFails(p)
      PROVE  InHand'
    BY <1>22 DEF DeadLetterFails
<1>23. ASSUME NEW p \in Pods, Ack(p)
      PROVE  InHand'
    BY <1>23 DEF Ack
<1>24. ASSUME NEW p \in Pods, AckFails(p)
      PROVE  InHand'
    BY <1>24 DEF AckFails
<1>25. ASSUME NEW p \in Pods, Crash(p)
      PROVE  InHand'
    BY <1>25 DEF Crash
<1>26. ASSUME NEW r \in Records, GoesIdle(r)
      PROVE  InHand'
    BY <1>26 DEF GoesIdle
<1>27. ASSUME NEW r \in Records, Replay(r)
      PROVE  InHand'
    BY <1>27 DEF Replay
<1>28. CASE UNCHANGED vars
    BY <1>28 DEF vars
<1> QED
    BY <1>1, <1>2, <1>3, <1>4, <1>5, <1>6, <1>7, <1>8, <1>9, <1>10,
       <1>11, <1>12, <1>13, <1>14, <1>15, <1>16, <1>17, <1>18, <1>19,
       <1>20, <1>21, <1>22, <1>23, <1>24, <1>25, <1>26, <1>27, <1>28, <1>29
    DEF Next, RequestNext, LoopNext, HandleNext

(* Only an acknowledgement takes an entry off the stream, and only of an   *)
(* entry that is accounted for.                                            *)
LEMMA NoSilentLossStep ==
    TypeOK /\ InHand /\ NoSilentLoss /\ [Next]_vars => NoSilentLoss'
<1> SUFFICES ASSUME TypeOK, InHand, NoSilentLoss, [Next]_vars PROVE NoSilentLoss'
    OBVIOUS
<1> USE RecordsAssumption DEF TypeOK, InHand, NoSilentLoss, Accounted, NoItem, Holding,
        Fault, streamVars, tableVars, consumerVars, budgetVars
<1>1. ASSUME NEW r \in Records, Enqueue(r)
      PROVE  NoSilentLoss'
    BY <1>1 DEF Enqueue
<1>2. ASSUME NEW r \in Records, EnqueueFails(r)
      PROVE  NoSilentLoss'
    BY <1>2 DEF EnqueueFails
<1>29. ASSUME NEW r \in Records, StoreInRequest(r)
      PROVE  NoSilentLoss'
    BY <1>29 DEF StoreInRequest
<1>3. ASSUME NEW r \in Records, SyncPersist(r)
      PROVE  NoSilentLoss'
    BY <1>3 DEF SyncPersist
<1>4. ASSUME NEW r \in Records, SyncFlush(r)
      PROVE  NoSilentLoss'
    BY <1>4 DEF SyncFlush
<1>5. ASSUME NEW r \in Records, SyncFails(r)
      PROVE  NoSilentLoss'
    BY <1>5 DEF SyncFails, MaybeOneMore
<1>6. ASSUME NEW r \in Records, RequestCut(r)
      PROVE  NoSilentLoss'
    BY <1>6 DEF RequestCut
<1>7. ASSUME NEW p \in Pods, Start(p)
      PROVE  NoSilentLoss'
    BY <1>7 DEF Start
<1>8. ASSUME NEW p \in Pods, StartFails(p)
      PROVE  NoSilentLoss'
    BY <1>8 DEF StartFails
<1>9. ASSUME NEW p \in Pods, Look(p)
      PROVE  NoSilentLoss'
    BY <1>9 DEF Look, BatchOf, IdlePending, Free
<1>10. ASSUME NEW p \in Pods, Claim(p)
      PROVE  NoSilentLoss'
    BY <1>10 DEF Claim, Deliver
<1>11. ASSUME NEW p \in Pods, Read(p)
      PROVE  NoSilentLoss'
    BY <1>11 DEF Read, Deliver, BatchOf, Unread, Free
<1>12. ASSUME NEW p \in Pods, FetchFails(p)
      PROVE  NoSilentLoss'
    BY <1>12 DEF FetchFails, Deliver
<1>13. ASSUME NEW p \in Pods, NEW r \in Records, ParseFails(p, r)
      PROVE  NoSilentLoss'
    BY <1>13 DEF ParseFails, Picks
<1>14. ASSUME NEW p \in Pods, NEW r \in Records, Check(p, r)
      PROVE  NoSilentLoss'
    BY <1>14 DEF Check, Picks, DeliveryCount
<1>15. ASSUME NEW p \in Pods, NEW r \in Records, CheckFails(p, r)
      PROVE  NoSilentLoss'
    BY <1>15 DEF CheckFails, Picks
<1>16. ASSUME NEW p \in Pods, Persist(p)
      PROVE  NoSilentLoss'
    BY <1>16 DEF Persist
<1>17. ASSUME NEW p \in Pods, PersistFails(p)
      PROVE  NoSilentLoss'
    BY <1>17 DEF PersistFails, MaybeOneMore
<1>18. ASSUME NEW p \in Pods, FieldsRaise(p)
      PROVE  NoSilentLoss'
    BY <1>18 DEF FieldsRaise
<1>19. ASSUME NEW p \in Pods, Flush(p)
      PROVE  NoSilentLoss'
    BY <1>19 DEF Flush
<1>20. ASSUME NEW p \in Pods, FlushFails(p)
      PROVE  NoSilentLoss'
    BY <1>20 DEF FlushFails, MaybeOneMore
<1>21. ASSUME NEW p \in Pods, DeadLetter(p)
      PROVE  NoSilentLoss'
    BY <1>21 DEF DeadLetter
<1>22. ASSUME NEW p \in Pods, DeadLetterFails(p)
      PROVE  NoSilentLoss'
    BY <1>22 DEF DeadLetterFails
<1>23. ASSUME NEW p \in Pods, Ack(p)
      PROVE  NoSilentLoss'
    BY <1>23 DEF Ack
<1>24. ASSUME NEW p \in Pods, AckFails(p)
      PROVE  NoSilentLoss'
    BY <1>24 DEF AckFails
<1>25. ASSUME NEW p \in Pods, Crash(p)
      PROVE  NoSilentLoss'
    BY <1>25 DEF Crash
<1>26. ASSUME NEW r \in Records, GoesIdle(r)
      PROVE  NoSilentLoss'
    BY <1>26 DEF GoesIdle
<1>27. ASSUME NEW r \in Records, Replay(r)
      PROVE  NoSilentLoss'
    BY <1>27 DEF Replay
<1>28. CASE UNCHANGED vars
    BY <1>28 DEF vars
<1> QED
    BY <1>1, <1>2, <1>3, <1>4, <1>5, <1>6, <1>7, <1>8, <1>9, <1>10,
       <1>11, <1>12, <1>13, <1>14, <1>15, <1>16, <1>17, <1>18, <1>19,
       <1>20, <1>21, <1>22, <1>23, <1>24, <1>25, <1>26, <1>27, <1>28, <1>29
    DEF Next, RequestNext, LoopNext, HandleNext

(* Only a consumer whose check found the count above the limit, or the     *)
(* fields broken, moves an entry to the dead-letter stream.                *)
LEMMA DeadLetterEarnedStep ==
    TypeOK /\ InHand /\ DeadLetterEarned /\ [Next]_vars => DeadLetterEarned'
<1> SUFFICES ASSUME TypeOK, InHand, DeadLetterEarned, [Next]_vars PROVE DeadLetterEarned'
    OBVIOUS
<1> USE RecordsAssumption, LimitsAssumption DEF TypeOK, InHand, DeadLetterEarned, NoItem, Holding,
        Fault, streamVars, tableVars, consumerVars, budgetVars
<1>1. ASSUME NEW r \in Records, Enqueue(r)
      PROVE  DeadLetterEarned'
    BY <1>1 DEF Enqueue
<1>2. ASSUME NEW r \in Records, EnqueueFails(r)
      PROVE  DeadLetterEarned'
    BY <1>2 DEF EnqueueFails
<1>29. ASSUME NEW r \in Records, StoreInRequest(r)
      PROVE  DeadLetterEarned'
    BY <1>29 DEF StoreInRequest
<1>3. ASSUME NEW r \in Records, SyncPersist(r)
      PROVE  DeadLetterEarned'
    BY <1>3 DEF SyncPersist
<1>4. ASSUME NEW r \in Records, SyncFlush(r)
      PROVE  DeadLetterEarned'
    BY <1>4 DEF SyncFlush
<1>5. ASSUME NEW r \in Records, SyncFails(r)
      PROVE  DeadLetterEarned'
    BY <1>5 DEF SyncFails, MaybeOneMore
<1>6. ASSUME NEW r \in Records, RequestCut(r)
      PROVE  DeadLetterEarned'
    BY <1>6 DEF RequestCut
<1>7. ASSUME NEW p \in Pods, Start(p)
      PROVE  DeadLetterEarned'
    BY <1>7 DEF Start
<1>8. ASSUME NEW p \in Pods, StartFails(p)
      PROVE  DeadLetterEarned'
    BY <1>8 DEF StartFails
<1>9. ASSUME NEW p \in Pods, Look(p)
      PROVE  DeadLetterEarned'
    BY <1>9 DEF Look, BatchOf, IdlePending, Free
<1>10. ASSUME NEW p \in Pods, Claim(p)
      PROVE  DeadLetterEarned'
    BY <1>10 DEF Claim, Deliver
<1>11. ASSUME NEW p \in Pods, Read(p)
      PROVE  DeadLetterEarned'
    BY <1>11 DEF Read, Deliver, BatchOf, Unread, Free
<1>12. ASSUME NEW p \in Pods, FetchFails(p)
      PROVE  DeadLetterEarned'
    BY <1>12 DEF FetchFails, Deliver
<1>13. ASSUME NEW p \in Pods, NEW r \in Records, ParseFails(p, r)
      PROVE  DeadLetterEarned'
    BY <1>13 DEF ParseFails, Picks
<1>14. ASSUME NEW p \in Pods, NEW r \in Records, Check(p, r)
      PROVE  DeadLetterEarned'
    BY <1>14 DEF Check, Picks, DeliveryCount
<1>15. ASSUME NEW p \in Pods, NEW r \in Records, CheckFails(p, r)
      PROVE  DeadLetterEarned'
    BY <1>15 DEF CheckFails, Picks
<1>16. ASSUME NEW p \in Pods, Persist(p)
      PROVE  DeadLetterEarned'
    BY <1>16 DEF Persist
<1>17. ASSUME NEW p \in Pods, PersistFails(p)
      PROVE  DeadLetterEarned'
    BY <1>17 DEF PersistFails, MaybeOneMore
<1>18. ASSUME NEW p \in Pods, FieldsRaise(p)
      PROVE  DeadLetterEarned'
    BY <1>18 DEF FieldsRaise
<1>19. ASSUME NEW p \in Pods, Flush(p)
      PROVE  DeadLetterEarned'
    BY <1>19 DEF Flush
<1>20. ASSUME NEW p \in Pods, FlushFails(p)
      PROVE  DeadLetterEarned'
    BY <1>20 DEF FlushFails, MaybeOneMore
<1>21. ASSUME NEW p \in Pods, DeadLetter(p)
      PROVE  DeadLetterEarned'
    BY <1>21 DEF DeadLetter
<1>22. ASSUME NEW p \in Pods, DeadLetterFails(p)
      PROVE  DeadLetterEarned'
    BY <1>22 DEF DeadLetterFails
<1>23. ASSUME NEW p \in Pods, Ack(p)
      PROVE  DeadLetterEarned'
    BY <1>23 DEF Ack
<1>24. ASSUME NEW p \in Pods, AckFails(p)
      PROVE  DeadLetterEarned'
    BY <1>24 DEF AckFails
<1>25. ASSUME NEW p \in Pods, Crash(p)
      PROVE  DeadLetterEarned'
    BY <1>25 DEF Crash
<1>26. ASSUME NEW r \in Records, GoesIdle(r)
      PROVE  DeadLetterEarned'
    BY <1>26 DEF GoesIdle
<1>27. ASSUME NEW r \in Records, Replay(r)
      PROVE  DeadLetterEarned'
    BY <1>27 DEF Replay
<1>28. CASE UNCHANGED vars
    BY <1>28 DEF vars
<1> QED
    BY <1>1, <1>2, <1>3, <1>4, <1>5, <1>6, <1>7, <1>8, <1>9, <1>10,
       <1>11, <1>12, <1>13, <1>14, <1>15, <1>16, <1>17, <1>18, <1>19,
       <1>20, <1>21, <1>22, <1>23, <1>24, <1>25, <1>26, <1>27, <1>28, <1>29
    DEF Next, RequestNext, LoopNext, HandleNext

-----------------------------------------------------------------------------
(* Counting pods. *)

Count(b) == IF b THEN 1 ELSE 0

(* A set of pods that gains at most p from another has at most one more.   *)
LEMMA OneChanges ==
    ASSUME NEW p \in Pods, NEW S \in SUBSET Pods, NEW T \in SUBSET Pods, T \ {p} \subseteq S
    PROVE  /\ Cardinality(S) \in Nat
           /\ Cardinality(T) \in Nat
           /\ Cardinality(T) + Count(p \in S) <= Cardinality(S) + Count(p \in T)
<1>1. /\ IsFiniteSet(S) /\ IsFiniteSet(T)
      /\ IsFiniteSet(S \ {p}) /\ IsFiniteSet(T \ {p})
    BY PodsAssumption, FS_Subset
<1>2. /\ Cardinality(S) \in Nat /\ Cardinality(T) \in Nat
      /\ Cardinality(S \ {p}) \in Nat /\ Cardinality(T \ {p}) \in Nat
    BY <1>1, FS_CardinalityType
<1>3. Cardinality(T \ {p}) <= Cardinality(S \ {p})
  <2>1. T \ {p} \subseteq S \ {p}
    OBVIOUS
  <2> QED
    BY <1>1, <2>1, FS_Subset
<1>4. Cardinality(S \ {p}) = Cardinality(S) - Count(p \in S)
  <2>1. Cardinality(S \ {p}) = IF p \in S THEN Cardinality(S) - 1 ELSE Cardinality(S)
    BY <1>1, FS_RemoveElement
  <2> QED
    BY <2>1, <1>2 DEF Count
<1>5. Cardinality(T \ {p}) = Cardinality(T) - Count(p \in T)
  <2>1. Cardinality(T \ {p}) = IF p \in T THEN Cardinality(T) - 1 ELSE Cardinality(T)
    BY <1>1, FS_RemoveElement
  <2> QED
    BY <2>1, <1>2 DEF Count
<1>6. Count(p \in S) \in {0, 1} /\ Count(p \in T) \in {0, 1}
    BY DEF Count
<1> QED
    BY <1>2, <1>3, <1>4, <1>5, <1>6

PodNext(p) == LoopNext(p) \/ HandleNext(p) \/ Crash(p)

(* A consumer's step leaves the requests and the other consumers alone.    *)
LEMMA OthersKeep ==
    ASSUME TypeOK, NEW p \in Pods, PodNext(p)
    PROVE  /\ request' = request
           /\ \A o \in Pods \ {p} : /\ item'[o] = item[o]
                                    /\ loop'[o] = loop[o]
                                    /\ batch'[o] = batch[o]
<1> USE DEF TypeOK, Fault, streamVars, tableVars, consumerVars, budgetVars
<1>1. ASSUME Start(p)
      PROVE  /\ request' = request
             /\ \A o \in Pods \ {p} : /\ item'[o] = item[o]
                                      /\ loop'[o] = loop[o]
                                      /\ batch'[o] = batch[o]
    BY <1>1 DEF Start
<1>2. ASSUME StartFails(p)
      PROVE  /\ request' = request
             /\ \A o \in Pods \ {p} : /\ item'[o] = item[o]
                                      /\ loop'[o] = loop[o]
                                      /\ batch'[o] = batch[o]
    BY <1>2 DEF StartFails
<1>3. ASSUME Look(p)
      PROVE  /\ request' = request
             /\ \A o \in Pods \ {p} : /\ item'[o] = item[o]
                                      /\ loop'[o] = loop[o]
                                      /\ batch'[o] = batch[o]
    BY <1>3 DEF Look
<1>4. ASSUME Claim(p)
      PROVE  /\ request' = request
             /\ \A o \in Pods \ {p} : /\ item'[o] = item[o]
                                      /\ loop'[o] = loop[o]
                                      /\ batch'[o] = batch[o]
    BY <1>4 DEF Claim
<1>5. ASSUME Read(p)
      PROVE  /\ request' = request
             /\ \A o \in Pods \ {p} : /\ item'[o] = item[o]
                                      /\ loop'[o] = loop[o]
                                      /\ batch'[o] = batch[o]
    BY <1>5 DEF Read
<1>6. ASSUME FetchFails(p)
      PROVE  /\ request' = request
             /\ \A o \in Pods \ {p} : /\ item'[o] = item[o]
                                      /\ loop'[o] = loop[o]
                                      /\ batch'[o] = batch[o]
    BY <1>6 DEF FetchFails
<1>7. ASSUME NEW r \in Records, ParseFails(p, r)
      PROVE  /\ request' = request
             /\ \A o \in Pods \ {p} : /\ item'[o] = item[o]
                                      /\ loop'[o] = loop[o]
                                      /\ batch'[o] = batch[o]
    BY <1>7 DEF ParseFails
<1>8. ASSUME NEW r \in Records, Check(p, r)
      PROVE  /\ request' = request
             /\ \A o \in Pods \ {p} : /\ item'[o] = item[o]
                                      /\ loop'[o] = loop[o]
                                      /\ batch'[o] = batch[o]
    BY <1>8 DEF Check
<1>9. ASSUME NEW r \in Records, CheckFails(p, r)
      PROVE  /\ request' = request
             /\ \A o \in Pods \ {p} : /\ item'[o] = item[o]
                                      /\ loop'[o] = loop[o]
                                      /\ batch'[o] = batch[o]
    BY <1>9 DEF CheckFails
<1>10. ASSUME Persist(p)
      PROVE  /\ request' = request
             /\ \A o \in Pods \ {p} : /\ item'[o] = item[o]
                                      /\ loop'[o] = loop[o]
                                      /\ batch'[o] = batch[o]
    BY <1>10 DEF Persist
<1>11. ASSUME PersistFails(p)
      PROVE  /\ request' = request
             /\ \A o \in Pods \ {p} : /\ item'[o] = item[o]
                                      /\ loop'[o] = loop[o]
                                      /\ batch'[o] = batch[o]
    BY <1>11 DEF PersistFails
<1>12. ASSUME FieldsRaise(p)
      PROVE  /\ request' = request
             /\ \A o \in Pods \ {p} : /\ item'[o] = item[o]
                                      /\ loop'[o] = loop[o]
                                      /\ batch'[o] = batch[o]
    BY <1>12 DEF FieldsRaise
<1>13. ASSUME Flush(p)
      PROVE  /\ request' = request
             /\ \A o \in Pods \ {p} : /\ item'[o] = item[o]
                                      /\ loop'[o] = loop[o]
                                      /\ batch'[o] = batch[o]
    BY <1>13 DEF Flush
<1>14. ASSUME FlushFails(p)
      PROVE  /\ request' = request
             /\ \A o \in Pods \ {p} : /\ item'[o] = item[o]
                                      /\ loop'[o] = loop[o]
                                      /\ batch'[o] = batch[o]
    BY <1>14 DEF FlushFails
<1>15. ASSUME DeadLetter(p)
      PROVE  /\ request' = request
             /\ \A o \in Pods \ {p} : /\ item'[o] = item[o]
                                      /\ loop'[o] = loop[o]
                                      /\ batch'[o] = batch[o]
    BY <1>15 DEF DeadLetter
<1>16. ASSUME DeadLetterFails(p)
      PROVE  /\ request' = request
             /\ \A o \in Pods \ {p} : /\ item'[o] = item[o]
                                      /\ loop'[o] = loop[o]
                                      /\ batch'[o] = batch[o]
    BY <1>16 DEF DeadLetterFails
<1>17. ASSUME Ack(p)
      PROVE  /\ request' = request
             /\ \A o \in Pods \ {p} : /\ item'[o] = item[o]
                                      /\ loop'[o] = loop[o]
                                      /\ batch'[o] = batch[o]
    BY <1>17 DEF Ack
<1>18. ASSUME AckFails(p)
      PROVE  /\ request' = request
             /\ \A o \in Pods \ {p} : /\ item'[o] = item[o]
                                      /\ loop'[o] = loop[o]
                                      /\ batch'[o] = batch[o]
    BY <1>18 DEF AckFails
<1>19. ASSUME Crash(p)
      PROVE  /\ request' = request
             /\ \A o \in Pods \ {p} : /\ item'[o] = item[o]
                                      /\ loop'[o] = loop[o]
                                      /\ batch'[o] = batch[o]
    BY <1>19 DEF Crash
<1> QED
    BY <1>1, <1>2, <1>3, <1>4, <1>5, <1>6, <1>7, <1>8, <1>9, <1>10, <1>11,
       <1>12, <1>13, <1>14, <1>15, <1>16, <1>17, <1>18, <1>19
    DEF PodNext, LoopNext, HandleNext


(* A consumer takes an entry out of its batch as it takes it in hand.      *)
LEMMA OneAtATimeStep == TypeOK /\ InHand /\ OneAtATime /\ [Next]_vars => OneAtATime'
<1> SUFFICES ASSUME TypeOK, InHand, OneAtATime, [Next]_vars PROVE OneAtATime'
    OBVIOUS
<1> USE RecordsAssumption DEF TypeOK, OneAtATime, NoItem, Holding, Fault, streamVars,
        tableVars, consumerVars, budgetVars
<1>1. ASSUME NEW p \in Pods, PodNext(p),
             /\ item'[p].rec \notin batch'[p]
             /\ loop'[p] = "claim" => item'[p] = NoItem
      PROVE  OneAtATime'
    BY <1>1, OthersKeep
<1>2. ASSUME NEW p \in Pods, Start(p)
      PROVE  OneAtATime'
  <2>1. PodNext(p)
    BY <1>2 DEF PodNext, LoopNext, HandleNext
  <2>2. /\ item'[p].rec \notin batch'[p]
        /\ loop'[p] = "claim" => item'[p] = NoItem
    BY <1>2 DEF Start
  <2> QED
    BY <2>1, <2>2, <1>1
<1>3. ASSUME NEW p \in Pods, StartFails(p)
      PROVE  OneAtATime'
  <2>1. PodNext(p)
    BY <1>3 DEF PodNext, LoopNext, HandleNext
  <2>2. /\ item'[p].rec \notin batch'[p]
        /\ loop'[p] = "claim" => item'[p] = NoItem
    BY <1>3 DEF StartFails
  <2> QED
    BY <2>1, <2>2, <1>1
<1>4. ASSUME NEW p \in Pods, Look(p)
      PROVE  OneAtATime'
  <2>1. PodNext(p)
    BY <1>4 DEF PodNext, LoopNext, HandleNext
  <2>2. /\ item'[p].rec \notin batch'[p]
        /\ loop'[p] = "claim" => item'[p] = NoItem
    BY <1>4 DEF Look, BatchOf, IdlePending, Free
  <2> QED
    BY <2>1, <2>2, <1>1
<1>5. ASSUME NEW p \in Pods, Claim(p)
      PROVE  OneAtATime'
  <2>1. PodNext(p)
    BY <1>5 DEF PodNext, LoopNext, HandleNext
  <2>2. /\ item'[p].rec \notin batch'[p]
        /\ loop'[p] = "claim" => item'[p] = NoItem
    BY <1>5 DEF Claim, Deliver
  <2> QED
    BY <2>1, <2>2, <1>1
<1>6. ASSUME NEW p \in Pods, Read(p)
      PROVE  OneAtATime'
  <2>1. PodNext(p)
    BY <1>6 DEF PodNext, LoopNext, HandleNext
  <2>2. /\ item'[p].rec \notin batch'[p]
        /\ loop'[p] = "claim" => item'[p] = NoItem
    BY <1>6 DEF Read, Deliver, BatchOf, Unread, Free
  <2> QED
    BY <2>1, <2>2, <1>1
<1>7. ASSUME NEW p \in Pods, FetchFails(p)
      PROVE  OneAtATime'
  <2>1. PodNext(p)
    BY <1>7 DEF PodNext, LoopNext, HandleNext
  <2>2. /\ item'[p].rec \notin batch'[p]
        /\ loop'[p] = "claim" => item'[p] = NoItem
    BY <1>7 DEF FetchFails, Deliver, Free, BatchOf
  <2> QED
    BY <2>1, <2>2, <1>1
<1>8. ASSUME NEW p \in Pods, NEW r \in Records, ParseFails(p, r)
      PROVE  OneAtATime'
  <2>1. PodNext(p)
    BY <1>8 DEF PodNext, LoopNext, HandleNext
  <2>2. /\ item'[p].rec \notin batch'[p]
        /\ loop'[p] = "claim" => item'[p] = NoItem
    BY <1>8 DEF ParseFails, Picks
  <2> QED
    BY <2>1, <2>2, <1>1
<1>9. ASSUME NEW p \in Pods, NEW r \in Records, Check(p, r)
      PROVE  OneAtATime'
  <2>1. PodNext(p)
    BY <1>9 DEF PodNext, LoopNext, HandleNext
  <2>2. /\ item'[p].rec \notin batch'[p]
        /\ loop'[p] = "claim" => item'[p] = NoItem
    BY <1>9 DEF Check, Picks, DeliveryCount
  <2> QED
    BY <2>1, <2>2, <1>1
<1>10. ASSUME NEW p \in Pods, NEW r \in Records, CheckFails(p, r)
      PROVE  OneAtATime'
  <2>1. PodNext(p)
    BY <1>10 DEF PodNext, LoopNext, HandleNext
  <2>2. /\ item'[p].rec \notin batch'[p]
        /\ loop'[p] = "claim" => item'[p] = NoItem
    BY <1>10 DEF CheckFails, Picks
  <2> QED
    BY <2>1, <2>2, <1>1
<1>11. ASSUME NEW p \in Pods, Persist(p)
      PROVE  OneAtATime'
  <2>1. PodNext(p)
    BY <1>11 DEF PodNext, LoopNext, HandleNext
  <2>2. /\ item'[p].rec \notin batch'[p]
        /\ loop'[p] = "claim" => item'[p] = NoItem
    BY <1>11 DEF Persist
  <2> QED
    BY <2>1, <2>2, <1>1
<1>12. ASSUME NEW p \in Pods, PersistFails(p)
      PROVE  OneAtATime'
  <2>1. PodNext(p)
    BY <1>12 DEF PodNext, LoopNext, HandleNext
  <2>2. /\ item'[p].rec \notin batch'[p]
        /\ loop'[p] = "claim" => item'[p] = NoItem
    BY <1>12 DEF PersistFails, MaybeOneMore
  <2> QED
    BY <2>1, <2>2, <1>1
<1>13. ASSUME NEW p \in Pods, FieldsRaise(p)
      PROVE  OneAtATime'
  <2>1. PodNext(p)
    BY <1>13 DEF PodNext, LoopNext, HandleNext
  <2>2. /\ item'[p].rec \notin batch'[p]
        /\ loop'[p] = "claim" => item'[p] = NoItem
    BY <1>13 DEF FieldsRaise
  <2> QED
    BY <2>1, <2>2, <1>1
<1>14. ASSUME NEW p \in Pods, Flush(p)
      PROVE  OneAtATime'
  <2>1. PodNext(p)
    BY <1>14 DEF PodNext, LoopNext, HandleNext
  <2>2. /\ item'[p].rec \notin batch'[p]
        /\ loop'[p] = "claim" => item'[p] = NoItem
    BY <1>14 DEF Flush
  <2> QED
    BY <2>1, <2>2, <1>1
<1>15. ASSUME NEW p \in Pods, FlushFails(p)
      PROVE  OneAtATime'
  <2>1. PodNext(p)
    BY <1>15 DEF PodNext, LoopNext, HandleNext
  <2>2. /\ item'[p].rec \notin batch'[p]
        /\ loop'[p] = "claim" => item'[p] = NoItem
    BY <1>15 DEF FlushFails, MaybeOneMore
  <2> QED
    BY <2>1, <2>2, <1>1
<1>16. ASSUME NEW p \in Pods, DeadLetter(p)
      PROVE  OneAtATime'
  <2>1. PodNext(p)
    BY <1>16 DEF PodNext, LoopNext, HandleNext
  <2>2. /\ item'[p].rec \notin batch'[p]
        /\ loop'[p] = "claim" => item'[p] = NoItem
    BY <1>16 DEF DeadLetter
  <2> QED
    BY <2>1, <2>2, <1>1
<1>17. ASSUME NEW p \in Pods, DeadLetterFails(p)
      PROVE  OneAtATime'
  <2>1. PodNext(p)
    BY <1>17 DEF PodNext, LoopNext, HandleNext
  <2>2. /\ item'[p].rec \notin batch'[p]
        /\ loop'[p] = "claim" => item'[p] = NoItem
    BY <1>17 DEF DeadLetterFails
  <2> QED
    BY <2>1, <2>2, <1>1
<1>18. ASSUME NEW p \in Pods, Ack(p)
      PROVE  OneAtATime'
  <2>1. PodNext(p)
    BY <1>18 DEF PodNext, LoopNext, HandleNext
  <2>2. /\ item'[p].rec \notin batch'[p]
        /\ loop'[p] = "claim" => item'[p] = NoItem
    BY <1>18 DEF Ack
  <2> QED
    BY <2>1, <2>2, <1>1
<1>19. ASSUME NEW p \in Pods, AckFails(p)
      PROVE  OneAtATime'
  <2>1. PodNext(p)
    BY <1>19 DEF PodNext, LoopNext, HandleNext
  <2>2. /\ item'[p].rec \notin batch'[p]
        /\ loop'[p] = "claim" => item'[p] = NoItem
    BY <1>19 DEF AckFails
  <2> QED
    BY <2>1, <2>2, <1>1
<1>20. ASSUME NEW p \in Pods, Crash(p)
      PROVE  OneAtATime'
  <2>1. PodNext(p)
    BY <1>20 DEF PodNext, LoopNext, HandleNext
  <2>2. /\ item'[p].rec \notin batch'[p]
        /\ loop'[p] = "claim" => item'[p] = NoItem
    BY <1>20 DEF Crash
  <2> QED
    BY <2>1, <2>2, <1>1
<1>21. ASSUME NEW r \in Records, RequestNext(r) \/ GoesIdle(r) \/ Replay(r)
      PROVE  OneAtATime'
    BY <1>21 DEF RequestNext, Enqueue, EnqueueFails, StoreInRequest, SyncPersist, SyncFlush,
        SyncFails, RequestCut, GoesIdle, Replay
<1>22. CASE UNCHANGED vars
    BY <1>22 DEF vars
<1> QED
    BY <1>2, <1>3, <1>4, <1>5, <1>6, <1>7, <1>8, <1>9, <1>10, <1>11,
       <1>12, <1>13, <1>14, <1>15, <1>16, <1>17, <1>18, <1>19, <1>20,
       <1>21, <1>22
    DEF Next, LoopNext, HandleNext


(* A consumer's step keeps the books of tool calls where it adds to them  *)
(* no more than to the rows, counting what the consumer is to flush.      *)
LEMMA ToolsOwedPod ==
    ASSUME TypeOK, TypeOK', ToolsOwed, NEW p \in Pods, PodNext(p),
           \A r \in Records :
               tools'[r] + rows[r] + Count(p \in Flushers(r)')
                   <= tools[r] + rows'[r] + Count(p \in Flushers(r))
    PROVE  ToolsOwed'
<1>1. request' = request
    BY OthersKeep
<1> SUFFICES ASSUME NEW r \in Records
             PROVE  ToolsBalance(r)'
    BY DEF ToolsOwed
<1>2. Flushers(r)' \ {p} \subseteq Flushers(r)
    BY OthersKeep DEF Flushers, Holding
<1>3. /\ Cardinality(Flushers(r)) \in Nat
      /\ Cardinality(Flushers(r)') \in Nat
      /\ Cardinality(Flushers(r)') + Count(p \in Flushers(r))
            <= Cardinality(Flushers(r)) + Count(p \in Flushers(r)')
  <2>1. Flushers(r) \in SUBSET Pods /\ Flushers(r)' \in SUBSET Pods
    BY DEF Flushers
  <2> QED
    BY <1>2, <2>1, OneChanges
<1>4. Count(p \in Flushers(r)) \in {0, 1} /\ Count(p \in Flushers(r)') \in {0, 1}
    BY DEF Count
<1>5. tools'[r] + rows[r] + Count(p \in Flushers(r)')
        <= tools[r] + rows'[r] + Count(p \in Flushers(r))
    OBVIOUS
<1>6. /\ tools[r] \in Nat /\ tools'[r] \in Nat
      /\ rows[r] \in Nat /\ rows'[r] \in Nat
    BY DEF TypeOK
<1> QED
    BY <1>1, <1>3, <1>4, <1>5, <1>6 DEF ToolsOwed, ToolsBalance


(* A consumer's step keeps the books of copies where it adds to the rows  *)
(* no more than to the deliveries, counting what it holds.                *)
LEMMA CopiesOwedPod ==
    ASSUME TypeOK, TypeOK', CopiesOwed, NEW p \in Pods, PodNext(p),
           \A r \in Records :
               rows'[r] + deliveries[r] + Count(p \in Holders(r)')
                   <= rows[r] + deliveries'[r] + Count(p \in Holders(r))
    PROVE  CopiesOwed'
<1>1. request' = request
    BY OthersKeep
<1> SUFFICES ASSUME NEW r \in Records
             PROVE  CopiesBalance(r)'
    BY DEF CopiesOwed
<1>2. Holders(r)' \ {p} \subseteq Holders(r)
    BY OthersKeep DEF Holders, Holding
<1>3. /\ Cardinality(Holders(r)) \in Nat
      /\ Cardinality(Holders(r)') \in Nat
      /\ Cardinality(Holders(r)') + Count(p \in Holders(r))
            <= Cardinality(Holders(r)) + Count(p \in Holders(r)')
  <2>1. Holders(r) \in SUBSET Pods /\ Holders(r)' \in SUBSET Pods
    BY DEF Holders
  <2> QED
    BY <1>2, <2>1, OneChanges
<1>4. Count(p \in Holders(r)) \in {0, 1} /\ Count(p \in Holders(r)') \in {0, 1}
    BY DEF Count
<1>5. rows'[r] + deliveries[r] + Count(p \in Holders(r)')
        <= rows[r] + deliveries'[r] + Count(p \in Holders(r))
    OBVIOUS
<1>6. /\ rows[r] \in Nat /\ rows'[r] \in Nat
      /\ deliveries[r] \in Nat /\ deliveries'[r] \in Nat
    BY DEF TypeOK
<1> QED
    BY <1>1, <1>3, <1>4, <1>5, <1>6 DEF CopiesOwed, CopiesBalance


LEMMA FlushersCounted == \A r \in Records : Cardinality(Flushers(r)) \in Nat
<1>1. \A r \in Records : Flushers(r) \subseteq Pods
    BY DEF Flushers
<1> QED
    BY <1>1, PodsAssumption, FS_Subset, FS_CardinalityType

LEMMA HoldersCounted == \A r \in Records : Cardinality(Holders(r)) \in Nat
<1>1. \A r \in Records : Holders(r) \subseteq Pods
    BY DEF Holders
<1> QED
    BY <1>1, PodsAssumption, FS_Subset, FS_CardinalityType

(* A row brings the flush of its tool calls with it, and the flush spends  *)
(* itself on them: the books of tool calls balance across every step.      *)
LEMMA ToolsOwedStep ==
    TypeOK /\ TypeOK' /\ InHand /\ OneAtATime /\ ToolsOwed /\ [Next]_vars => ToolsOwed'
<1> SUFFICES ASSUME TypeOK, TypeOK', InHand, OneAtATime, ToolsOwed, [Next]_vars PROVE ToolsOwed'
    OBVIOUS
<1> USE RecordsAssumption DEF Holding, NoItem, Fault, streamVars, tableVars,
        consumerVars, budgetVars
<1>1. ASSUME NEW p \in Pods, Start(p)
      PROVE  ToolsOwed'
  <2>1. PodNext(p)
    BY <1>1 DEF PodNext, LoopNext, HandleNext
  <2>2. \A q \in Records :
            tools'[q] + rows[q] + Count(p \in Flushers(q)')
                <= tools[q] + rows'[q] + Count(p \in Flushers(q))
    BY <1>1 DEF Start, TypeOK, InHand, OneAtATime,
       Flushers, Count
  <2> QED
    BY <2>1, <2>2, ToolsOwedPod
<1>2. ASSUME NEW p \in Pods, StartFails(p)
      PROVE  ToolsOwed'
  <2>1. PodNext(p)
    BY <1>2 DEF PodNext, LoopNext, HandleNext
  <2>2. \A q \in Records :
            tools'[q] + rows[q] + Count(p \in Flushers(q)')
                <= tools[q] + rows'[q] + Count(p \in Flushers(q))
    BY <1>2 DEF StartFails, TypeOK, InHand, OneAtATime,
       Flushers, Count
  <2> QED
    BY <2>1, <2>2, ToolsOwedPod
<1>3. ASSUME NEW p \in Pods, Look(p)
      PROVE  ToolsOwed'
  <2>1. PodNext(p)
    BY <1>3 DEF PodNext, LoopNext, HandleNext
  <2>2. \A q \in Records :
            tools'[q] + rows[q] + Count(p \in Flushers(q)')
                <= tools[q] + rows'[q] + Count(p \in Flushers(q))
    BY <1>3 DEF Look, BatchOf, IdlePending, Free, TypeOK, InHand, OneAtATime,
       Flushers, Count
  <2> QED
    BY <2>1, <2>2, ToolsOwedPod
<1>4. ASSUME NEW p \in Pods, Claim(p)
      PROVE  ToolsOwed'
  <2>1. PodNext(p)
    BY <1>4 DEF PodNext, LoopNext, HandleNext
  <2>2. \A q \in Records :
            tools'[q] + rows[q] + Count(p \in Flushers(q)')
                <= tools[q] + rows'[q] + Count(p \in Flushers(q))
    BY <1>4 DEF Claim, Deliver, TypeOK, InHand, OneAtATime,
       Flushers, Count
  <2> QED
    BY <2>1, <2>2, ToolsOwedPod
<1>5. ASSUME NEW p \in Pods, Read(p)
      PROVE  ToolsOwed'
  <2>1. PodNext(p)
    BY <1>5 DEF PodNext, LoopNext, HandleNext
  <2>2. \A q \in Records :
            tools'[q] + rows[q] + Count(p \in Flushers(q)')
                <= tools[q] + rows'[q] + Count(p \in Flushers(q))
    BY <1>5 DEF Read, Deliver, BatchOf, Unread, Free, TypeOK, InHand, OneAtATime,
       Flushers, Count
  <2> QED
    BY <2>1, <2>2, ToolsOwedPod
<1>6. ASSUME NEW p \in Pods, FetchFails(p)
      PROVE  ToolsOwed'
  <2>1. PodNext(p)
    BY <1>6 DEF PodNext, LoopNext, HandleNext
  <2>2. \A q \in Records :
            tools'[q] + rows[q] + Count(p \in Flushers(q)')
                <= tools[q] + rows'[q] + Count(p \in Flushers(q))
    BY <1>6 DEF FetchFails, Deliver, Free, BatchOf, TypeOK, InHand, OneAtATime,
       Flushers, Count
  <2> QED
    BY <2>1, <2>2, ToolsOwedPod
<1>7. ASSUME NEW p \in Pods, NEW r \in Records, ParseFails(p, r)
      PROVE  ToolsOwed'
  <2>1. PodNext(p)
    BY <1>7 DEF PodNext, LoopNext, HandleNext
  <2>2. \A q \in Records :
            tools'[q] + rows[q] + Count(p \in Flushers(q)')
                <= tools[q] + rows'[q] + Count(p \in Flushers(q))
    BY <1>7 DEF ParseFails, Picks, TypeOK, InHand, OneAtATime,
       Flushers, Count
  <2> QED
    BY <2>1, <2>2, ToolsOwedPod
<1>8. ASSUME NEW p \in Pods, NEW r \in Records, Check(p, r)
      PROVE  ToolsOwed'
  <2>1. PodNext(p)
    BY <1>8 DEF PodNext, LoopNext, HandleNext
  <2>2. \A q \in Records :
            tools'[q] + rows[q] + Count(p \in Flushers(q)')
                <= tools[q] + rows'[q] + Count(p \in Flushers(q))
    BY <1>8 DEF Check, Picks, DeliveryCount, TypeOK, InHand, OneAtATime,
       Flushers, Count
  <2> QED
    BY <2>1, <2>2, ToolsOwedPod
<1>9. ASSUME NEW p \in Pods, NEW r \in Records, CheckFails(p, r)
      PROVE  ToolsOwed'
  <2>1. PodNext(p)
    BY <1>9 DEF PodNext, LoopNext, HandleNext
  <2>2. \A q \in Records :
            tools'[q] + rows[q] + Count(p \in Flushers(q)')
                <= tools[q] + rows'[q] + Count(p \in Flushers(q))
    BY <1>9 DEF CheckFails, Picks, TypeOK, InHand, OneAtATime,
       Flushers, Count
  <2> QED
    BY <2>1, <2>2, ToolsOwedPod
<1>10. ASSUME NEW p \in Pods, Persist(p)
      PROVE  ToolsOwed'
  <2>1. PodNext(p)
    BY <1>10 DEF PodNext, LoopNext, HandleNext
  <2>2. \A q \in Records :
            tools'[q] + rows[q] + Count(p \in Flushers(q)')
                <= tools[q] + rows'[q] + Count(p \in Flushers(q))
    BY <1>10 DEF Persist, TypeOK, InHand, OneAtATime,
       Flushers, Count
  <2> QED
    BY <2>1, <2>2, ToolsOwedPod
<1>11. ASSUME NEW p \in Pods, PersistFails(p)
      PROVE  ToolsOwed'
  <2>1. PodNext(p)
    BY <1>11 DEF PodNext, LoopNext, HandleNext
  <2>2. \A q \in Records :
            tools'[q] + rows[q] + Count(p \in Flushers(q)')
                <= tools[q] + rows'[q] + Count(p \in Flushers(q))
    BY <1>11 DEF PersistFails, MaybeOneMore, TypeOK, InHand, OneAtATime,
       Flushers, Count
  <2> QED
    BY <2>1, <2>2, ToolsOwedPod
<1>12. ASSUME NEW p \in Pods, FieldsRaise(p)
      PROVE  ToolsOwed'
  <2>1. PodNext(p)
    BY <1>12 DEF PodNext, LoopNext, HandleNext
  <2>2. \A q \in Records :
            tools'[q] + rows[q] + Count(p \in Flushers(q)')
                <= tools[q] + rows'[q] + Count(p \in Flushers(q))
    BY <1>12 DEF FieldsRaise, TypeOK, InHand, OneAtATime,
       Flushers, Count
  <2> QED
    BY <2>1, <2>2, ToolsOwedPod
<1>13. ASSUME NEW p \in Pods, Flush(p)
      PROVE  ToolsOwed'
  <2>1. PodNext(p)
    BY <1>13 DEF PodNext, LoopNext, HandleNext
  <2>2. \A q \in Records :
            tools'[q] + rows[q] + Count(p \in Flushers(q)')
                <= tools[q] + rows'[q] + Count(p \in Flushers(q))
    BY <1>13 DEF Flush, TypeOK, InHand, OneAtATime,
       Flushers, Count
  <2> QED
    BY <2>1, <2>2, ToolsOwedPod
<1>14. ASSUME NEW p \in Pods, FlushFails(p)
      PROVE  ToolsOwed'
  <2>1. PodNext(p)
    BY <1>14 DEF PodNext, LoopNext, HandleNext
  <2>2. \A q \in Records :
            tools'[q] + rows[q] + Count(p \in Flushers(q)')
                <= tools[q] + rows'[q] + Count(p \in Flushers(q))
    BY <1>14 DEF FlushFails, MaybeOneMore, TypeOK, InHand, OneAtATime,
       Flushers, Count
  <2> QED
    BY <2>1, <2>2, ToolsOwedPod
<1>15. ASSUME NEW p \in Pods, DeadLetter(p)
      PROVE  ToolsOwed'
  <2>1. PodNext(p)
    BY <1>15 DEF PodNext, LoopNext, HandleNext
  <2>2. \A q \in Records :
            tools'[q] + rows[q] + Count(p \in Flushers(q)')
                <= tools[q] + rows'[q] + Count(p \in Flushers(q))
    BY <1>15 DEF DeadLetter, TypeOK, InHand, OneAtATime,
       Flushers, Count
  <2> QED
    BY <2>1, <2>2, ToolsOwedPod
<1>16. ASSUME NEW p \in Pods, DeadLetterFails(p)
      PROVE  ToolsOwed'
  <2>1. PodNext(p)
    BY <1>16 DEF PodNext, LoopNext, HandleNext
  <2>2. \A q \in Records :
            tools'[q] + rows[q] + Count(p \in Flushers(q)')
                <= tools[q] + rows'[q] + Count(p \in Flushers(q))
    BY <1>16 DEF DeadLetterFails, TypeOK, InHand, OneAtATime,
       Flushers, Count
  <2> QED
    BY <2>1, <2>2, ToolsOwedPod
<1>17. ASSUME NEW p \in Pods, Ack(p)
      PROVE  ToolsOwed'
  <2>1. PodNext(p)
    BY <1>17 DEF PodNext, LoopNext, HandleNext
  <2>2. \A q \in Records :
            tools'[q] + rows[q] + Count(p \in Flushers(q)')
                <= tools[q] + rows'[q] + Count(p \in Flushers(q))
    BY <1>17 DEF Ack, TypeOK, InHand, OneAtATime,
       Flushers, Count
  <2> QED
    BY <2>1, <2>2, ToolsOwedPod
<1>18. ASSUME NEW p \in Pods, AckFails(p)
      PROVE  ToolsOwed'
  <2>1. PodNext(p)
    BY <1>18 DEF PodNext, LoopNext, HandleNext
  <2>2. \A q \in Records :
            tools'[q] + rows[q] + Count(p \in Flushers(q)')
                <= tools[q] + rows'[q] + Count(p \in Flushers(q))
    BY <1>18 DEF AckFails, TypeOK, InHand, OneAtATime,
       Flushers, Count
  <2> QED
    BY <2>1, <2>2, ToolsOwedPod
<1>19. ASSUME NEW p \in Pods, Crash(p)
      PROVE  ToolsOwed'
  <2>1. PodNext(p)
    BY <1>19 DEF PodNext, LoopNext, HandleNext
  <2>2. \A q \in Records :
            tools'[q] + rows[q] + Count(p \in Flushers(q)')
                <= tools[q] + rows'[q] + Count(p \in Flushers(q))
    BY <1>19 DEF Crash, TypeOK, InHand, OneAtATime,
       Flushers, Count
  <2> QED
    BY <2>1, <2>2, ToolsOwedPod
<1>20. ASSUME NEW r \in Records, Enqueue(r)
      PROVE  ToolsOwed'
  <2>1. \A q \in Records : Flushers(q)' = Flushers(q)
    BY <1>20 DEF Enqueue, Flushers
  <2>2. \A q \in Records : Cardinality(Flushers(q)) \in Nat
    BY FlushersCounted
  <2> QED
    BY <1>20, <2>1, <2>2 DEF Enqueue, TypeOK, ToolsOwed, ToolsBalance
<1>21. ASSUME NEW r \in Records, EnqueueFails(r)
      PROVE  ToolsOwed'
  <2>1. \A q \in Records : Flushers(q)' = Flushers(q)
    BY <1>21 DEF EnqueueFails, Flushers
  <2>2. \A q \in Records : Cardinality(Flushers(q)) \in Nat
    BY FlushersCounted
  <2> QED
    BY <1>21, <2>1, <2>2 DEF EnqueueFails, TypeOK, ToolsOwed, ToolsBalance
<1>22. ASSUME NEW r \in Records, StoreInRequest(r)
      PROVE  ToolsOwed'
  <2>1. \A q \in Records : Flushers(q)' = Flushers(q)
    BY <1>22 DEF StoreInRequest, Flushers
  <2>2. \A q \in Records : Cardinality(Flushers(q)) \in Nat
    BY FlushersCounted
  <2> QED
    BY <1>22, <2>1, <2>2 DEF StoreInRequest, TypeOK, ToolsOwed, ToolsBalance
<1>23. ASSUME NEW r \in Records, SyncPersist(r)
      PROVE  ToolsOwed'
  <2>1. \A q \in Records : Flushers(q)' = Flushers(q)
    BY <1>23 DEF SyncPersist, Flushers
  <2>2. \A q \in Records : Cardinality(Flushers(q)) \in Nat
    BY FlushersCounted
  <2> QED
    BY <1>23, <2>1, <2>2 DEF SyncPersist, TypeOK, ToolsOwed, ToolsBalance
<1>24. ASSUME NEW r \in Records, SyncFlush(r)
      PROVE  ToolsOwed'
  <2>1. \A q \in Records : Flushers(q)' = Flushers(q)
    BY <1>24 DEF SyncFlush, Flushers
  <2>2. \A q \in Records : Cardinality(Flushers(q)) \in Nat
    BY FlushersCounted
  <2> QED
    BY <1>24, <2>1, <2>2 DEF SyncFlush, TypeOK, ToolsOwed, ToolsBalance
<1>25. ASSUME NEW r \in Records, SyncFails(r)
      PROVE  ToolsOwed'
  <2>1. \A q \in Records : Flushers(q)' = Flushers(q)
    BY <1>25 DEF SyncFails, Flushers
  <2>2. \A q \in Records : Cardinality(Flushers(q)) \in Nat
    BY FlushersCounted
  <2> QED
    BY <1>25, <2>1, <2>2 DEF SyncFails, MaybeOneMore, TypeOK, ToolsOwed, ToolsBalance
<1>26. ASSUME NEW r \in Records, RequestCut(r)
      PROVE  ToolsOwed'
  <2>1. \A q \in Records : Flushers(q)' = Flushers(q)
    BY <1>26 DEF RequestCut, Flushers
  <2>2. \A q \in Records : Cardinality(Flushers(q)) \in Nat
    BY FlushersCounted
  <2> QED
    BY <1>26, <2>1, <2>2 DEF RequestCut, TypeOK, ToolsOwed, ToolsBalance
<1>27. ASSUME NEW r \in Records, GoesIdle(r)
      PROVE  ToolsOwed'
  <2>1. \A q \in Records : Flushers(q)' = Flushers(q)
    BY <1>27 DEF GoesIdle, Flushers
  <2>2. \A q \in Records : Cardinality(Flushers(q)) \in Nat
    BY FlushersCounted
  <2> QED
    BY <1>27, <2>1, <2>2 DEF GoesIdle, TypeOK, ToolsOwed, ToolsBalance
<1>28. ASSUME NEW r \in Records, Replay(r)
      PROVE  ToolsOwed'
  <2>1. \A q \in Records : Flushers(q)' = Flushers(q)
    BY <1>28 DEF Replay, Flushers
  <2>2. \A q \in Records : Cardinality(Flushers(q)) \in Nat
    BY FlushersCounted
  <2> QED
    BY <1>28, <2>1, <2>2 DEF Replay, TypeOK, ToolsOwed, ToolsBalance
<1>29. CASE UNCHANGED vars
  <2>1. \A q \in Records : Flushers(q)' = Flushers(q)
    BY <1>29 DEF vars, Flushers
  <2> QED
    BY <1>29, <2>1 DEF vars, ToolsOwed, ToolsBalance
<1> QED
    BY <1>1, <1>2, <1>3, <1>4, <1>5, <1>6, <1>7, <1>8, <1>9, <1>10, <1>11,
       <1>12, <1>13, <1>14, <1>15, <1>16, <1>17, <1>18, <1>19, <1>20,
       <1>21, <1>22, <1>23, <1>24, <1>25, <1>26, <1>27, <1>28, <1>29
    DEF Next, LoopNext, HandleNext, RequestNext

(* A delivery puts its entry into one more consumer's hands and a row      *)
(* takes it from there: the books of copies balance across every step.     *)
LEMMA CopiesOwedStep ==
    TypeOK /\ TypeOK' /\ InHand /\ OneAtATime /\ CopiesOwed /\ [Next]_vars => CopiesOwed'
<1> SUFFICES ASSUME TypeOK, TypeOK', InHand, OneAtATime, CopiesOwed, [Next]_vars PROVE CopiesOwed'
    OBVIOUS
<1> USE RecordsAssumption DEF Holding, NoItem, Fault, streamVars, tableVars,
        consumerVars, budgetVars
<1>1. ASSUME NEW p \in Pods, Start(p)
      PROVE  CopiesOwed'
  <2>1. PodNext(p)
    BY <1>1 DEF PodNext, LoopNext, HandleNext
  <2>2. \A q \in Records :
            rows'[q] + deliveries[q] + Count(p \in Holders(q)')
                <= rows[q] + deliveries'[q] + Count(p \in Holders(q))
    BY <1>1 DEF Start, TypeOK, InHand, OneAtATime,
       Holders, Count
  <2> QED
    BY <2>1, <2>2, CopiesOwedPod
<1>2. ASSUME NEW p \in Pods, StartFails(p)
      PROVE  CopiesOwed'
  <2>1. PodNext(p)
    BY <1>2 DEF PodNext, LoopNext, HandleNext
  <2>2. \A q \in Records :
            rows'[q] + deliveries[q] + Count(p \in Holders(q)')
                <= rows[q] + deliveries'[q] + Count(p \in Holders(q))
    BY <1>2 DEF StartFails, TypeOK, InHand, OneAtATime,
       Holders, Count
  <2> QED
    BY <2>1, <2>2, CopiesOwedPod
<1>3. ASSUME NEW p \in Pods, Look(p)
      PROVE  CopiesOwed'
  <2>1. PodNext(p)
    BY <1>3 DEF PodNext, LoopNext, HandleNext
  <2>2. \A q \in Records :
            rows'[q] + deliveries[q] + Count(p \in Holders(q)')
                <= rows[q] + deliveries'[q] + Count(p \in Holders(q))
    BY <1>3 DEF Look, BatchOf, IdlePending, Free, TypeOK, InHand, OneAtATime,
       Holders, Count
  <2> QED
    BY <2>1, <2>2, CopiesOwedPod
<1>4. ASSUME NEW p \in Pods, Claim(p)
      PROVE  CopiesOwed'
  <2>1. PodNext(p)
    BY <1>4 DEF PodNext, LoopNext, HandleNext
  <2>2. \A q \in Records :
            rows'[q] + deliveries[q] + Count(p \in Holders(q)')
                <= rows[q] + deliveries'[q] + Count(p \in Holders(q))
    BY <1>4 DEF Claim, Deliver, TypeOK, InHand, OneAtATime,
       Holders, Count
  <2> QED
    BY <2>1, <2>2, CopiesOwedPod
<1>5. ASSUME NEW p \in Pods, Read(p)
      PROVE  CopiesOwed'
  <2>1. PodNext(p)
    BY <1>5 DEF PodNext, LoopNext, HandleNext
  <2>2. \A q \in Records :
            rows'[q] + deliveries[q] + Count(p \in Holders(q)')
                <= rows[q] + deliveries'[q] + Count(p \in Holders(q))
    BY <1>5 DEF Read, Deliver, BatchOf, Unread, Free, TypeOK, InHand, OneAtATime,
       Holders, Count
  <2> QED
    BY <2>1, <2>2, CopiesOwedPod
<1>6. ASSUME NEW p \in Pods, FetchFails(p)
      PROVE  CopiesOwed'
  <2>1. PodNext(p)
    BY <1>6 DEF PodNext, LoopNext, HandleNext
  <2>2. \A q \in Records :
            rows'[q] + deliveries[q] + Count(p \in Holders(q)')
                <= rows[q] + deliveries'[q] + Count(p \in Holders(q))
    BY <1>6 DEF FetchFails, Deliver, Free, BatchOf, TypeOK, InHand, OneAtATime,
       Holders, Count
  <2> QED
    BY <2>1, <2>2, CopiesOwedPod
<1>7. ASSUME NEW p \in Pods, NEW r \in Records, ParseFails(p, r)
      PROVE  CopiesOwed'
  <2>1. PodNext(p)
    BY <1>7 DEF PodNext, LoopNext, HandleNext
  <2>2. \A q \in Records :
            rows'[q] + deliveries[q] + Count(p \in Holders(q)')
                <= rows[q] + deliveries'[q] + Count(p \in Holders(q))
    BY <1>7 DEF ParseFails, Picks, TypeOK, InHand, OneAtATime,
       Holders, Count
  <2> QED
    BY <2>1, <2>2, CopiesOwedPod
<1>8. ASSUME NEW p \in Pods, NEW r \in Records, Check(p, r)
      PROVE  CopiesOwed'
  <2>1. PodNext(p)
    BY <1>8 DEF PodNext, LoopNext, HandleNext
  <2>2. \A q \in Records :
            rows'[q] + deliveries[q] + Count(p \in Holders(q)')
                <= rows[q] + deliveries'[q] + Count(p \in Holders(q))
    BY <1>8 DEF Check, Picks, DeliveryCount, TypeOK, InHand, OneAtATime,
       Holders, Count
  <2> QED
    BY <2>1, <2>2, CopiesOwedPod
<1>9. ASSUME NEW p \in Pods, NEW r \in Records, CheckFails(p, r)
      PROVE  CopiesOwed'
  <2>1. PodNext(p)
    BY <1>9 DEF PodNext, LoopNext, HandleNext
  <2>2. \A q \in Records :
            rows'[q] + deliveries[q] + Count(p \in Holders(q)')
                <= rows[q] + deliveries'[q] + Count(p \in Holders(q))
    BY <1>9 DEF CheckFails, Picks, TypeOK, InHand, OneAtATime,
       Holders, Count
  <2> QED
    BY <2>1, <2>2, CopiesOwedPod
<1>10. ASSUME NEW p \in Pods, Persist(p)
      PROVE  CopiesOwed'
  <2>1. PodNext(p)
    BY <1>10 DEF PodNext, LoopNext, HandleNext
  <2>2. \A q \in Records :
            rows'[q] + deliveries[q] + Count(p \in Holders(q)')
                <= rows[q] + deliveries'[q] + Count(p \in Holders(q))
    BY <1>10 DEF Persist, TypeOK, InHand, OneAtATime,
       Holders, Count
  <2> QED
    BY <2>1, <2>2, CopiesOwedPod
<1>11. ASSUME NEW p \in Pods, PersistFails(p)
      PROVE  CopiesOwed'
  <2>1. PodNext(p)
    BY <1>11 DEF PodNext, LoopNext, HandleNext
  <2>2. \A q \in Records :
            rows'[q] + deliveries[q] + Count(p \in Holders(q)')
                <= rows[q] + deliveries'[q] + Count(p \in Holders(q))
    BY <1>11 DEF PersistFails, MaybeOneMore, TypeOK, InHand, OneAtATime,
       Holders, Count
  <2> QED
    BY <2>1, <2>2, CopiesOwedPod
<1>12. ASSUME NEW p \in Pods, FieldsRaise(p)
      PROVE  CopiesOwed'
  <2>1. PodNext(p)
    BY <1>12 DEF PodNext, LoopNext, HandleNext
  <2>2. \A q \in Records :
            rows'[q] + deliveries[q] + Count(p \in Holders(q)')
                <= rows[q] + deliveries'[q] + Count(p \in Holders(q))
    BY <1>12 DEF FieldsRaise, TypeOK, InHand, OneAtATime,
       Holders, Count
  <2> QED
    BY <2>1, <2>2, CopiesOwedPod
<1>13. ASSUME NEW p \in Pods, Flush(p)
      PROVE  CopiesOwed'
  <2>1. PodNext(p)
    BY <1>13 DEF PodNext, LoopNext, HandleNext
  <2>2. \A q \in Records :
            rows'[q] + deliveries[q] + Count(p \in Holders(q)')
                <= rows[q] + deliveries'[q] + Count(p \in Holders(q))
    BY <1>13 DEF Flush, TypeOK, InHand, OneAtATime,
       Holders, Count
  <2> QED
    BY <2>1, <2>2, CopiesOwedPod
<1>14. ASSUME NEW p \in Pods, FlushFails(p)
      PROVE  CopiesOwed'
  <2>1. PodNext(p)
    BY <1>14 DEF PodNext, LoopNext, HandleNext
  <2>2. \A q \in Records :
            rows'[q] + deliveries[q] + Count(p \in Holders(q)')
                <= rows[q] + deliveries'[q] + Count(p \in Holders(q))
    BY <1>14 DEF FlushFails, MaybeOneMore, TypeOK, InHand, OneAtATime,
       Holders, Count
  <2> QED
    BY <2>1, <2>2, CopiesOwedPod
<1>15. ASSUME NEW p \in Pods, DeadLetter(p)
      PROVE  CopiesOwed'
  <2>1. PodNext(p)
    BY <1>15 DEF PodNext, LoopNext, HandleNext
  <2>2. \A q \in Records :
            rows'[q] + deliveries[q] + Count(p \in Holders(q)')
                <= rows[q] + deliveries'[q] + Count(p \in Holders(q))
    BY <1>15 DEF DeadLetter, TypeOK, InHand, OneAtATime,
       Holders, Count
  <2> QED
    BY <2>1, <2>2, CopiesOwedPod
<1>16. ASSUME NEW p \in Pods, DeadLetterFails(p)
      PROVE  CopiesOwed'
  <2>1. PodNext(p)
    BY <1>16 DEF PodNext, LoopNext, HandleNext
  <2>2. \A q \in Records :
            rows'[q] + deliveries[q] + Count(p \in Holders(q)')
                <= rows[q] + deliveries'[q] + Count(p \in Holders(q))
    BY <1>16 DEF DeadLetterFails, TypeOK, InHand, OneAtATime,
       Holders, Count
  <2> QED
    BY <2>1, <2>2, CopiesOwedPod
<1>17. ASSUME NEW p \in Pods, Ack(p)
      PROVE  CopiesOwed'
  <2>1. PodNext(p)
    BY <1>17 DEF PodNext, LoopNext, HandleNext
  <2>2. \A q \in Records :
            rows'[q] + deliveries[q] + Count(p \in Holders(q)')
                <= rows[q] + deliveries'[q] + Count(p \in Holders(q))
    BY <1>17 DEF Ack, TypeOK, InHand, OneAtATime,
       Holders, Count
  <2> QED
    BY <2>1, <2>2, CopiesOwedPod
<1>18. ASSUME NEW p \in Pods, AckFails(p)
      PROVE  CopiesOwed'
  <2>1. PodNext(p)
    BY <1>18 DEF PodNext, LoopNext, HandleNext
  <2>2. \A q \in Records :
            rows'[q] + deliveries[q] + Count(p \in Holders(q)')
                <= rows[q] + deliveries'[q] + Count(p \in Holders(q))
    BY <1>18 DEF AckFails, TypeOK, InHand, OneAtATime,
       Holders, Count
  <2> QED
    BY <2>1, <2>2, CopiesOwedPod
<1>19. ASSUME NEW p \in Pods, Crash(p)
      PROVE  CopiesOwed'
  <2>1. PodNext(p)
    BY <1>19 DEF PodNext, LoopNext, HandleNext
  <2>2. \A q \in Records :
            rows'[q] + deliveries[q] + Count(p \in Holders(q)')
                <= rows[q] + deliveries'[q] + Count(p \in Holders(q))
    BY <1>19 DEF Crash, TypeOK, InHand, OneAtATime,
       Holders, Count
  <2> QED
    BY <2>1, <2>2, CopiesOwedPod
<1>20. ASSUME NEW r \in Records, Enqueue(r)
      PROVE  CopiesOwed'
  <2>1. \A q \in Records : Holders(q)' = Holders(q)
    BY <1>20 DEF Enqueue, Holders
  <2>2. \A q \in Records : Cardinality(Holders(q)) \in Nat
    BY HoldersCounted
  <2> QED
    BY <1>20, <2>1, <2>2 DEF Enqueue, TypeOK, CopiesOwed, CopiesBalance
<1>21. ASSUME NEW r \in Records, EnqueueFails(r)
      PROVE  CopiesOwed'
  <2>1. \A q \in Records : Holders(q)' = Holders(q)
    BY <1>21 DEF EnqueueFails, Holders
  <2>2. \A q \in Records : Cardinality(Holders(q)) \in Nat
    BY HoldersCounted
  <2> QED
    BY <1>21, <2>1, <2>2 DEF EnqueueFails, TypeOK, CopiesOwed, CopiesBalance
<1>22. ASSUME NEW r \in Records, StoreInRequest(r)
      PROVE  CopiesOwed'
  <2>1. \A q \in Records : Holders(q)' = Holders(q)
    BY <1>22 DEF StoreInRequest, Holders
  <2>2. \A q \in Records : Cardinality(Holders(q)) \in Nat
    BY HoldersCounted
  <2> QED
    BY <1>22, <2>1, <2>2 DEF StoreInRequest, TypeOK, CopiesOwed, CopiesBalance
<1>23. ASSUME NEW r \in Records, SyncPersist(r)
      PROVE  CopiesOwed'
  <2>1. \A q \in Records : Holders(q)' = Holders(q)
    BY <1>23 DEF SyncPersist, Holders
  <2>2. \A q \in Records : Cardinality(Holders(q)) \in Nat
    BY HoldersCounted
  <2> QED
    BY <1>23, <2>1, <2>2 DEF SyncPersist, TypeOK, CopiesOwed, CopiesBalance
<1>24. ASSUME NEW r \in Records, SyncFlush(r)
      PROVE  CopiesOwed'
  <2>1. \A q \in Records : Holders(q)' = Holders(q)
    BY <1>24 DEF SyncFlush, Holders
  <2>2. \A q \in Records : Cardinality(Holders(q)) \in Nat
    BY HoldersCounted
  <2> QED
    BY <1>24, <2>1, <2>2 DEF SyncFlush, TypeOK, CopiesOwed, CopiesBalance
<1>25. ASSUME NEW r \in Records, SyncFails(r)
      PROVE  CopiesOwed'
  <2>1. \A q \in Records : Holders(q)' = Holders(q)
    BY <1>25 DEF SyncFails, Holders
  <2>2. \A q \in Records : Cardinality(Holders(q)) \in Nat
    BY HoldersCounted
  <2> QED
    BY <1>25, <2>1, <2>2 DEF SyncFails, MaybeOneMore, TypeOK, CopiesOwed, CopiesBalance
<1>26. ASSUME NEW r \in Records, RequestCut(r)
      PROVE  CopiesOwed'
  <2>1. \A q \in Records : Holders(q)' = Holders(q)
    BY <1>26 DEF RequestCut, Holders
  <2>2. \A q \in Records : Cardinality(Holders(q)) \in Nat
    BY HoldersCounted
  <2> QED
    BY <1>26, <2>1, <2>2 DEF RequestCut, TypeOK, CopiesOwed, CopiesBalance
<1>27. ASSUME NEW r \in Records, GoesIdle(r)
      PROVE  CopiesOwed'
  <2>1. \A q \in Records : Holders(q)' = Holders(q)
    BY <1>27 DEF GoesIdle, Holders
  <2>2. \A q \in Records : Cardinality(Holders(q)) \in Nat
    BY HoldersCounted
  <2> QED
    BY <1>27, <2>1, <2>2 DEF GoesIdle, TypeOK, CopiesOwed, CopiesBalance
<1>28. ASSUME NEW r \in Records, Replay(r)
      PROVE  CopiesOwed'
  <2>1. \A q \in Records : Holders(q)' = Holders(q)
    BY <1>28 DEF Replay, Holders
  <2>2. \A q \in Records : Cardinality(Holders(q)) \in Nat
    BY HoldersCounted
  <2> QED
    BY <1>28, <2>1, <2>2 DEF Replay, TypeOK, CopiesOwed, CopiesBalance
<1>29. CASE UNCHANGED vars
  <2>1. \A q \in Records : Holders(q)' = Holders(q)
    BY <1>29 DEF vars, Holders
  <2> QED
    BY <1>29, <2>1 DEF vars, CopiesOwed, CopiesBalance
<1> QED
    BY <1>1, <1>2, <1>3, <1>4, <1>5, <1>6, <1>7, <1>8, <1>9, <1>10, <1>11,
       <1>12, <1>13, <1>14, <1>15, <1>16, <1>17, <1>18, <1>19, <1>20,
       <1>21, <1>22, <1>23, <1>24, <1>25, <1>26, <1>27, <1>28, <1>29
    DEF Next, LoopNext, HandleNext, RequestNext

-----------------------------------------------------------------------------
(* Consumers hold entries of the stream, and an entry never leaves it       *)
(* altogether.                                                             *)
LEMMA InStreamStep == TypeOK /\ InHand /\ InStream /\ [Next]_vars => InStream'
<1> SUFFICES ASSUME TypeOK, InHand, InStream, [Next]_vars PROVE InStream'
    OBVIOUS
<1> USE RecordsAssumption DEF TypeOK, InHand, InStream, NoItem, Holding,
        Fault, streamVars, tableVars, consumerVars, budgetVars
<1>1. ASSUME NEW r \in Records, Enqueue(r)
      PROVE  InStream'
    BY <1>1 DEF Enqueue
<1>2. ASSUME NEW r \in Records, EnqueueFails(r)
      PROVE  InStream'
    BY <1>2 DEF EnqueueFails
<1>3. ASSUME NEW r \in Records, StoreInRequest(r)
      PROVE  InStream'
    BY <1>3 DEF StoreInRequest
<1>4. ASSUME NEW r \in Records, SyncPersist(r)
      PROVE  InStream'
    BY <1>4 DEF SyncPersist
<1>5. ASSUME NEW r \in Records, SyncFlush(r)
      PROVE  InStream'
    BY <1>5 DEF SyncFlush
<1>6. ASSUME NEW r \in Records, SyncFails(r)
      PROVE  InStream'
    BY <1>6 DEF SyncFails, MaybeOneMore
<1>7. ASSUME NEW r \in Records, RequestCut(r)
      PROVE  InStream'
    BY <1>7 DEF RequestCut
<1>8. ASSUME NEW p \in Pods, Start(p)
      PROVE  InStream'
    BY <1>8 DEF Start
<1>9. ASSUME NEW p \in Pods, StartFails(p)
      PROVE  InStream'
    BY <1>9 DEF StartFails
<1>10. ASSUME NEW p \in Pods, Look(p)
      PROVE  InStream'
    BY <1>10 DEF Look, BatchOf, IdlePending, Free
<1>11. ASSUME NEW p \in Pods, Claim(p)
      PROVE  InStream'
    BY <1>11 DEF Claim, Deliver, IdlePending
<1>12. ASSUME NEW p \in Pods, Read(p)
      PROVE  InStream'
    BY <1>12 DEF Read, Deliver, BatchOf, Unread, Free
<1>13. ASSUME NEW p \in Pods, FetchFails(p)
      PROVE  InStream'
  <2>1. /\ request' = request /\ item' = item
        /\ batch' = [batch EXCEPT ![p] = {}]
    BY <1>13 DEF FetchFails
  <2>2. \A r \in Records : entry'[r] = entry[r] \/ entry'[r] = "pending"
    BY <1>13 DEF FetchFails, Deliver
  <2>3. \A r \in Records : request[r] = "open" => entry'[r] = "absent"
    <3>1. \A r \in Unread \cup IdlePending : entry[r] # "absent"
      BY DEF Unread, IdlePending
    <3>2. \A r \in Records : entry[r] = "absent" => entry'[r] = "absent"
      BY <1>13, <3>1 DEF FetchFails, Deliver, BatchOf
    <3> QED
      BY <3>2
  <2> QED
    BY <2>1, <2>2, <2>3
<1>14. ASSUME NEW p \in Pods, NEW r \in Records, ParseFails(p, r)
      PROVE  InStream'
    BY <1>14 DEF ParseFails, Picks
<1>15. ASSUME NEW p \in Pods, NEW r \in Records, Check(p, r)
      PROVE  InStream'
    BY <1>15 DEF Check, Picks
<1>16. ASSUME NEW p \in Pods, NEW r \in Records, CheckFails(p, r)
      PROVE  InStream'
    BY <1>16 DEF CheckFails, Picks
<1>17. ASSUME NEW p \in Pods, Persist(p)
      PROVE  InStream'
    BY <1>17 DEF Persist
<1>18. ASSUME NEW p \in Pods, PersistFails(p)
      PROVE  InStream'
    BY <1>18 DEF PersistFails, MaybeOneMore
<1>19. ASSUME NEW p \in Pods, FieldsRaise(p)
      PROVE  InStream'
    BY <1>19 DEF FieldsRaise
<1>20. ASSUME NEW p \in Pods, Flush(p)
      PROVE  InStream'
    BY <1>20 DEF Flush
<1>21. ASSUME NEW p \in Pods, FlushFails(p)
      PROVE  InStream'
    BY <1>21 DEF FlushFails, MaybeOneMore
<1>22. ASSUME NEW p \in Pods, DeadLetter(p)
      PROVE  InStream'
    BY <1>22 DEF DeadLetter
<1>23. ASSUME NEW p \in Pods, DeadLetterFails(p)
      PROVE  InStream'
    BY <1>23 DEF DeadLetterFails
<1>24. ASSUME NEW p \in Pods, Ack(p)
      PROVE  InStream'
    BY <1>24 DEF Ack
<1>25. ASSUME NEW p \in Pods, AckFails(p)
      PROVE  InStream'
    BY <1>25 DEF AckFails
<1>26. ASSUME NEW p \in Pods, Crash(p)
      PROVE  InStream'
    BY <1>26 DEF Crash
<1>27. ASSUME NEW r \in Records, GoesIdle(r)
      PROVE  InStream'
    BY <1>27 DEF GoesIdle
<1>28. ASSUME NEW r \in Records, Replay(r)
      PROVE  InStream'
    BY <1>28 DEF Replay
<1>29. CASE UNCHANGED vars
    BY <1>29 DEF vars
<1> QED
    BY <1>1, <1>2, <1>3, <1>4, <1>5, <1>6, <1>7, <1>8, <1>9, <1>10,
       <1>11, <1>12, <1>13, <1>14, <1>15, <1>16, <1>17, <1>18, <1>19, <1>20,
       <1>21, <1>22, <1>23, <1>24, <1>25, <1>26, <1>27, <1>28, <1>29
    DEF Next, RequestNext, LoopNext, HandleNext

-----------------------------------------------------------------------------
(* The inductive invariant. *)
Inv == /\ TypeOK
       /\ InHand
       /\ NoSilentLoss
       /\ DeadLetterEarned
       /\ InStream
       /\ OneAtATime
       /\ ToolsOwed
       /\ CopiesOwed

LEMMA InvInit == Init => Inv
<1> SUFFICES ASSUME Init PROVE Inv
    OBVIOUS
<1>1. TypeOK /\ InHand /\ NoSilentLoss /\ DeadLetterEarned /\ InStream /\ OneAtATime
    BY RecordsAssumption
    DEF Init, TypeOK, InHand, NoSilentLoss, DeadLetterEarned, InStream, OneAtATime, NoItem
<1>2. \A r \in Records : Flushers(r) = {} /\ Holders(r) = {}
    BY DEF Init, Flushers, Holders, NoItem, Holding
<1>3. Cardinality({}) = 0
    BY FS_EmptySet
<1>4. \A r \in Records : ToolsBalance(r) /\ CopiesBalance(r)
    BY <1>2, <1>3 DEF Init, ToolsBalance, CopiesBalance
<1> QED
    BY <1>1, <1>4 DEF Inv, ToolsOwed, CopiesOwed

LEMMA InvNext == Inv /\ [Next]_vars => Inv'
    BY TypeStep, InHandStep, NoSilentLossStep, DeadLetterEarnedStep, InStreamStep,
       OneAtATimeStep, ToolsOwedStep, CopiesOwedStep
    DEF Inv

LEMMA Inductive == Spec => []Inv
    BY InvInit, InvNext, PTL DEF Spec

(* Stream, tables and consumers keep their types in every deployment. *)
THEOREM TypeCorrect == Spec => []TypeOK
<1>1. Inv => TypeOK
    BY DEF Inv
<1> QED
    BY <1>1, Inductive, PTL

(* No interaction is acknowledged off the stream without a row, a dead     *)
(* letter, a log line or a replay that reports it.                         *)
THEOREM NothingLostSilently == Spec => []NoSilentLoss
<1>1. Inv => NoSilentLoss
    BY DEF Inv
<1> QED
    BY <1>1, Inductive, PTL

(* A dead-lettered entry was delivered more often than the limit, or does  *)
(* not parse.                                                              *)
THEOREM DeadLetterAboveLimit == Spec => []DeadLetterEarned
<1>1. Inv => DeadLetterEarned
    BY DEF Inv
<1> QED
    BY <1>1, Inductive, PTL

(* There are never more sets of tool calls than rows they refer to,        *)
(* whichever consumers and requests store them at the same time.           *)
THEOREM ToolsBehindRows == Spec => []ToolsHaveRow
<1>1. Inv => ToolsHaveRow
    BY FlushersCounted DEF Inv, TypeOK, ToolsOwed, ToolsBalance, ToolsHaveRow
<1> QED
    BY <1>1, Inductive, PTL

(* Every row but the request's own was paid for by a delivery: a consumer  *)
(* that lost its entry to another cannot store it twice on one delivery.   *)
THEOREM CopiesPaidByDeliveries == Spec => []CopiesAreDeliveries
<1>1. Inv => CopiesAreDeliveries
    BY HoldersCounted DEF Inv, TypeOK, CopiesOwed, CopiesBalance, CopiesAreDeliveries
<1> QED
    BY <1>1, Inductive, PTL

-----------------------------------------------------------------------------
(* The stream and the route implement the custody.  Most steps do not      *)
(* change what it sees of an interaction.                                  *)
Same(r) ==
    /\ ChatOf(r)' = ChatOf(r)
    /\ StreamOf(r)' = StreamOf(r)
    /\ Accounted(r)' <=> Accounted(r)

LEMMA CareStutters ==
    ASSUME \A r \in Records : Same(r)
    PROVE  UNCHANGED Care!vars
<1>1. [r \in Records |-> ChatOf(r)]' = [r \in Records |-> ChatOf(r)]
    BY DEF Same
<1>2. [r \in Records |-> StreamOf(r)]' = [r \in Records |-> StreamOf(r)]
    BY DEF Same
<1>3. {r \in Records : Accounted(r)}' = {r \in Records : Accounted(r)}
    BY DEF Same
<1> QED
    BY <1>1, <1>2, <1>3 DEF Care!vars

(* What one interaction may do in one step of the custody.                 *)
LEMMA CareMoves ==
    ASSUME NEW r \in Records,
           \A q \in Records \ {r} : Same(q),
           \/ /\ ChatOf(r) = "open" /\ StreamOf(r) = "none"
              /\ StreamOf(r)' = "held" /\ ChatOf(r)' \in {"answered", "storing", "cut"}
              /\ Accounted(r)' <=> Accounted(r)
           \/ /\ ChatOf(r) = "open" /\ ChatOf(r)' = "storing"
              /\ StreamOf(r)' = StreamOf(r) /\ (Accounted(r)' <=> Accounted(r))
           \/ /\ StreamOf(r) = "held" /\ Accounted(r)'
              /\ ChatOf(r)' = ChatOf(r) /\ StreamOf(r)' = StreamOf(r)
           \/ /\ ChatOf(r) = "storing" /\ Accounted(r)'
              /\ ChatOf(r)' \in {"storing", "answered"} /\ StreamOf(r)' = StreamOf(r)
           \/ /\ StreamOf(r) = "held" /\ StreamOf(r)' = "released"
              /\ Accounted(r) /\ Accounted(r)' /\ ChatOf(r)' = ChatOf(r)
           \/ /\ ChatOf(r) \in {"open", "storing"} /\ ChatOf(r)' = "cut"
              /\ StreamOf(r)' = StreamOf(r) /\ (Accounted(r)' <=> Accounted(r))
    PROVE  Care!Next
<1> DEFINE C == [q \in Records |-> ChatOf(q)]
           S == [q \in Records |-> StreamOf(q)]
           A == {q \in Records : Accounted(q)}
<1>1. C' = [C EXCEPT ![r] = ChatOf(r)'] /\ C[r] = ChatOf(r)
  <2>1. \A q \in Records \ {r} : C'[q] = C[q]
    BY DEF Same
  <2> QED
    BY <2>1
<1>2. S' = [S EXCEPT ![r] = StreamOf(r)'] /\ S[r] = StreamOf(r)
  <2>1. \A q \in Records \ {r} : S'[q] = S[q]
    BY DEF Same
  <2> QED
    BY <2>1
<1>3. ChatOf(r)' = ChatOf(r) => C' = C
    BY DEF Same
<1>4. StreamOf(r)' = StreamOf(r) => S' = S
    BY DEF Same
<1>5. (Accounted(r)' <=> Accounted(r)) => A' = A
    BY DEF Same
<1>6. Accounted(r)' => A' = A \cup {r}
    BY DEF Same
<1>7. r \in A <=> Accounted(r)
    OBVIOUS
<1> HIDE DEF C, S, A
<1>8. CASE /\ ChatOf(r) = "open" /\ StreamOf(r) = "none"
           /\ StreamOf(r)' = "held" /\ ChatOf(r)' \in {"answered", "storing", "cut"}
           /\ Accounted(r)' <=> Accounted(r)
  <2>1. Care!Keep(r)
    BY <1>1, <1>2, <1>5, <1>8 DEF Care!Keep, Care!Becomes, C, S, A
  <2> QED
    BY <2>1 DEF Care!Next
<1>9. CASE /\ ChatOf(r) = "open" /\ ChatOf(r)' = "storing"
           /\ StreamOf(r)' = StreamOf(r) /\ (Accounted(r)' <=> Accounted(r))
  <2>1. Care!Store(r)
    BY <1>1, <1>4, <1>5, <1>9 DEF Care!Store, Care!Becomes, C, S, A
  <2> QED
    BY <2>1 DEF Care!Next
<1>10. CASE /\ StreamOf(r) = "held" /\ Accounted(r)'
            /\ ChatOf(r)' = ChatOf(r) /\ StreamOf(r)' = StreamOf(r)
  <2>1. Care!Account(r)
    BY <1>2, <1>3, <1>4, <1>6, <1>10 DEF Care!Account, C, S, A
  <2> QED
    BY <2>1 DEF Care!Next
<1>11. CASE /\ ChatOf(r) = "storing" /\ Accounted(r)'
            /\ ChatOf(r)' \in {"storing", "answered"} /\ StreamOf(r)' = StreamOf(r)
  <2>1. Care!Account(r)
    BY <1>1, <1>3, <1>4, <1>6, <1>11 DEF Care!Account, Care!Becomes, C, S, A
  <2> QED
    BY <2>1 DEF Care!Next
<1>12. CASE /\ StreamOf(r) = "held" /\ StreamOf(r)' = "released"
            /\ Accounted(r) /\ Accounted(r)' /\ ChatOf(r)' = ChatOf(r)
  <2>1. Care!Release(r)
    BY <1>2, <1>3, <1>5, <1>7, <1>12 DEF Care!Release, C, S, A
  <2> QED
    BY <2>1 DEF Care!Next
<1>13. CASE /\ ChatOf(r) \in {"open", "storing"} /\ ChatOf(r)' = "cut"
            /\ StreamOf(r)' = StreamOf(r) /\ (Accounted(r)' <=> Accounted(r))
  <2>1. Care!Cut(r)
    BY <1>1, <1>4, <1>5, <1>13 DEF Care!Cut, Care!Becomes, C, S, A
  <2> QED
    BY <2>1 DEF Care!Next
<1> QED
    BY <1>8, <1>9, <1>10, <1>11, <1>12, <1>13

\* A step that leaves the tables and the dead letters alone.
SameTables == rows' = rows /\ dlq' = dlq /\ logged' = logged /\ replayed' = replayed

(* A delivery, and the steps between the calls, are not seen.              *)
LEMMA CareDelivers ==
    ASSUME TypeOK, request' = request, SameTables,
           \A r \in Records : \/ entry'[r] = entry[r]
                              \/ entry[r] \in {"queued", "pending"} /\ entry'[r] = "pending"
    PROVE  UNCHANGED Care!vars
<1>1. ASSUME NEW r \in Records PROVE Same(r)
    BY DEF Same, ChatOf, StreamOf, Accounted, SameTables
<1> QED
    BY <1>1, CareStutters

(* A consumer that stores, logs or dead-letters an entry of the stream     *)
(* accounts for it, or had nothing to add: an entry that is released       *)
(* already is accounted for already.                                       *)
LEMMA CareAccounts ==
    ASSUME TypeOK, InStream, NoSilentLoss,
           NEW p \in Pods, NEW r \in Records, item[p].rec = r, item[p].step # "none",
           request' = request, entry' = entry,
           \A q \in Records \ {r} : Accounted(q)' <=> Accounted(q),
           Accounted(r) => Accounted(r)'
    PROVE  Care!Next \/ UNCHANGED Care!vars
<1>1. entry[r] # "absent"
    BY DEF InStream
<1>2. \A q \in Records : ChatOf(q)' = ChatOf(q) /\ StreamOf(q)' = StreamOf(q)
    BY DEF ChatOf, StreamOf
<1>3. \A q \in Records \ {r} : Same(q)
    BY <1>2 DEF Same
<1>4. CASE Accounted(r)' <=> Accounted(r)
  <2>1. \A q \in Records : Same(q)
    BY <1>2, <1>3, <1>4 DEF Same
  <2> QED
    BY <2>1, CareStutters
<1>5. CASE Accounted(r)' /\ ~Accounted(r)
  <2>1. entry[r] # "acked"
    BY <1>1, <1>5 DEF NoSilentLoss
  <2>2. StreamOf(r) = "held"
    BY <1>1, <2>1 DEF StreamOf
  <2>3. Care!Next
    BY <1>1, <1>2, <1>3, <1>5, <2>2, CareMoves
  <2> QED
    BY <2>3
<1> QED
    BY <1>4, <1>5

(* An acknowledgement releases what is accounted for, or was released.     *)
LEMMA CareReleases ==
    ASSUME TypeOK, InStream, InHand,
           NEW p \in Pods, NEW r \in Records, item[p].rec = r, item[p].step = "ack",
           request' = request, SameTables,
           entry' \in {entry, [entry EXCEPT ![r] = "acked"]}
    PROVE  Care!Next \/ UNCHANGED Care!vars
<1>1. entry[r] \in {"queued", "pending", "acked"} /\ Accounted(r)
    BY DEF InStream, InHand, TypeOK
<1>2. entry \in [Records -> {"absent", "queued", "pending", "acked"}]
    BY DEF TypeOK
<1>3. \A q \in Records : ChatOf(q)' = ChatOf(q) /\ (Accounted(q)' <=> Accounted(q))
    BY DEF ChatOf, Accounted, SameTables
<1>4. \A q \in Records \ {r} : entry'[q] = entry[q]
    BY <1>1, <1>2
<1>5. \A q \in Records \ {r} : Same(q)
    BY <1>3, <1>4 DEF Same, StreamOf
<1>6. CASE entry'[r] = entry[r]
  <2>1. \A q \in Records : Same(q)
    BY <1>3, <1>4, <1>6 DEF Same, StreamOf
  <2> QED
    BY <2>1, CareStutters
<1>7. CASE entry'[r] = "acked" /\ entry[r] # "acked"
  <2>1. StreamOf(r) = "held" /\ StreamOf(r)' = "released"
    BY <1>1, <1>7 DEF StreamOf
  <2>2. Care!Next
    BY <1>1, <1>3, <1>5, <2>1, CareMoves
  <2> QED
    BY <2>2
<1> QED
    BY <1>1, <1>2, <1>6, <1>7

(* A request changes what the custody sees of its own interaction.         *)
LEMMA CareRequests ==
    ASSUME TypeOK, InStream, ToolsOwed, NEW r \in Records, RequestNext(r)
    PROVE  Care!Next \/ UNCHANGED Care!vars
<1> USE DEF TypeOK, Fault, streamVars, tableVars
<1>1. \A q \in Records \ {r} : Same(q)
  <2>1. /\ \A q \in Records \ {r} : /\ request'[q] = request[q] /\ entry'[q] = entry[q]
                                    /\ rows'[q] = rows[q] /\ (q \in logged' <=> q \in logged)
        /\ dlq' = dlq /\ replayed' = replayed
    BY DEF RequestNext, Enqueue, EnqueueFails, StoreInRequest, SyncPersist, SyncFlush,
           SyncFails, RequestCut, MaybeOneMore
  <2> QED
    BY <2>1 DEF Same, ChatOf, StreamOf, Accounted
<1>2. request[r] = "open" => entry[r] = "absent"
    BY DEF InStream
<1>3. request[r] = "flushing" => rows[r] > 0
  <2>1. /\ ToolsBalance(r) /\ tools[r] \in Nat /\ rows[r] \in Nat
        /\ Cardinality(Flushers(r)) \in Nat
    BY FlushersCounted DEF ToolsOwed
  <2> HIDE DEF TypeOK
  <2> QED
    BY <2>1 DEF ToolsBalance
<1>4. ASSUME Enqueue(r) PROVE Care!Next
  <2>1. /\ request[r] = "open" /\ entry[r] = "absent"
        /\ request'[r] = "enqueued" /\ entry'[r] = "queued"
        /\ Accounted(r)' <=> Accounted(r)
    BY <1>2, <1>4 DEF Enqueue, Accounted
  <2>2. /\ ChatOf(r) = "open" /\ StreamOf(r) = "none"
        /\ ChatOf(r)' = "answered" /\ StreamOf(r)' = "held"
    BY <2>1 DEF ChatOf, StreamOf
  <2> QED
    BY <1>1, <2>1, <2>2, CareMoves
<1>5. ASSUME EnqueueFails(r) PROVE Care!Next
  <2>1. /\ request[r] = "open" /\ entry[r] = "absent"
        /\ request'[r] = "storing" /\ entry'[r] \in {"absent", "queued"}
        /\ Accounted(r)' <=> Accounted(r)
    BY <1>2, <1>5 DEF EnqueueFails, Accounted
  <2>2. /\ ChatOf(r) = "open" /\ StreamOf(r) = "none"
        /\ ChatOf(r)' = "storing" /\ StreamOf(r)' \in {"none", "held"}
    BY <2>1 DEF ChatOf, StreamOf
  <2> QED
    BY <1>1, <2>1, <2>2, CareMoves
<1>6. ASSUME StoreInRequest(r) PROVE Care!Next
  <2>1. /\ request[r] = "open" /\ request'[r] = "storing" /\ entry' = entry
        /\ Accounted(r)' <=> Accounted(r)
    BY <1>6 DEF StoreInRequest, Accounted
  <2>2. ChatOf(r) = "open" /\ ChatOf(r)' = "storing" /\ StreamOf(r)' = StreamOf(r)
    BY <2>1 DEF ChatOf, StreamOf
  <2> QED
    BY <1>1, <2>1, <2>2, CareMoves
<1>7. ASSUME SyncPersist(r) \/ SyncFlush(r) \/ SyncFails(r) PROVE Care!Next
  <2>1. /\ request[r] \in {"storing", "flushing"} /\ request'[r] \in {"flushing", "answered"}
        /\ entry' = entry
    BY <1>7 DEF SyncPersist, SyncFlush, SyncFails
  <2>2. Accounted(r)'
    <3>1. CASE SyncPersist(r)
      <4>1. rows[r] \in Nat /\ rows'[r] = rows[r] + 1
        BY <3>1 DEF SyncPersist
      <4> QED
        BY <4>1 DEF Accounted
    <3>2. CASE SyncFlush(r)
      BY <1>3, <3>2 DEF SyncFlush, Accounted
    <3>3. CASE SyncFails(r)
      BY <3>3 DEF SyncFails, Accounted
    <3> QED
      BY <1>7, <3>1, <3>2, <3>3
  <2>3. /\ ChatOf(r) = "storing" /\ ChatOf(r)' \in {"storing", "answered"}
        /\ StreamOf(r)' = StreamOf(r)
    BY <2>1 DEF ChatOf, StreamOf
  <2> QED
    BY <1>1, <2>2, <2>3, CareMoves
<1>8. ASSUME RequestCut(r) PROVE Care!Next
  <2>1. /\ request[r] \in {"open", "storing", "flushing"} /\ request'[r] = "cut"
        /\ entry'[r] = entry[r] \/ (request[r] = "open" /\ entry'[r] = "queued")
        /\ Accounted(r)' <=> Accounted(r)
    BY <1>8 DEF RequestCut, Accounted
  <2>2. /\ ChatOf(r) \in {"open", "storing"} /\ ChatOf(r)' = "cut"
        /\ \/ StreamOf(r)' = StreamOf(r)
           \/ ChatOf(r) = "open" /\ StreamOf(r) = "none" /\ StreamOf(r)' = "held"
    BY <1>2, <2>1 DEF ChatOf, StreamOf
  <2> QED
    BY <1>1, <2>1, <2>2, CareMoves
<1> QED
    BY <1>4, <1>5, <1>6, <1>7, <1>8 DEF RequestNext

(* A consumer's step is a delivery, an account or a release.               *)
LEMMA CarePods ==
    ASSUME TypeOK, InStream, InHand, NoSilentLoss, NEW p \in Pods, PodNext(p)
    PROVE  Care!Next \/ UNCHANGED Care!vars
<1> USE DEF streamVars, tableVars, consumerVars, SameTables
<1>1. ASSUME \/ Start(p) \/ StartFails(p) \/ Look(p) \/ FieldsRaise(p) \/ Flush(p) \/ Crash(p)
             \/ \E r \in Records : ParseFails(p, r) \/ Check(p, r) \/ CheckFails(p, r)
      PROVE  UNCHANGED Care!vars
  <2>1. request' = request /\ entry' = entry /\ SameTables
    BY <1>1 DEF Start, StartFails, Look, FieldsRaise, Flush, Crash, ParseFails, Check, CheckFails
  <2> QED
    BY <2>1, CareDelivers
<1>2. ASSUME Claim(p) \/ Read(p) \/ FetchFails(p)
      PROVE  UNCHANGED Care!vars
  <2>1. request' = request /\ SameTables
    BY <1>2 DEF Claim, Read, FetchFails
  <2>2. ASSUME NEW B, Deliver(B), NEW r \in Records
        PROVE  entry'[r] = IF r \in B THEN "pending" ELSE entry[r]
    BY <2>2 DEF Deliver
  <2>3. /\ \A r \in Unread : entry[r] \in {"queued", "pending"}
        /\ \A r \in IdlePending : entry[r] \in {"queued", "pending"}
    BY DEF Unread, IdlePending
  <2>4. \/ entry' = entry
        \/ \E B : Deliver(B) /\ (B \subseteq Unread \/ B \subseteq IdlePending)
    BY <1>2 DEF Claim, Read, FetchFails, BatchOf
  <2>5. \A r \in Records : \/ entry'[r] = entry[r]
                           \/ entry[r] \in {"queued", "pending"} /\ entry'[r] = "pending"
    BY <2>2, <2>3, <2>4
  <2> QED
    BY <2>1, <2>5, CareDelivers
<1>3. ASSUME \/ Persist(p) \/ PersistFails(p) \/ FlushFails(p) \/ DeadLetter(p) \/ DeadLetterFails(p)
      PROVE  Care!Next \/ UNCHANGED Care!vars
  <2>1. item[p].step # "none" /\ item[p].rec \in Records
    BY <1>3 DEF InHand, Persist, PersistFails, FlushFails, DeadLetter, DeadLetterFails
  <2>2. PICK r \in Records : item[p].rec = r
    BY <2>1
  <2>3. rows \in [Records -> Nat]
    BY DEF TypeOK
  <2>4. request' = request /\ entry' = entry /\ replayed' = replayed
    BY <1>3 DEF Persist, PersistFails, FlushFails, DeadLetter, DeadLetterFails
  <2>5. /\ rows' \in {rows, [rows EXCEPT ![r] = @ + 1]}
        /\ logged' \in {logged, logged \cup {r}} /\ dlq' \in {dlq, dlq \cup {r}}
    BY <1>3, <2>2 DEF Persist, PersistFails, FlushFails, DeadLetter, DeadLetterFails, MaybeOneMore
  <2>6. \A q \in Records \ {r} : rows'[q] = rows[q]
    BY <2>3, <2>5
  <2>7. \A q \in Records \ {r} : Accounted(q)' <=> Accounted(q)
    BY <2>4, <2>5, <2>6 DEF Accounted
  <2>8. rows[r] > 0 => rows'[r] > 0
    BY <2>3, <2>5
  <2>9. Accounted(r) => Accounted(r)'
    BY <2>4, <2>5, <2>8 DEF Accounted
  <2> QED
    BY <2>1, <2>2, <2>4, <2>7, <2>9, CareAccounts
<1>4. ASSUME Ack(p) \/ AckFails(p)
      PROVE  Care!Next \/ UNCHANGED Care!vars
  <2>1. item[p].step = "ack" /\ item[p].rec \in Records
    BY <1>4 DEF InHand, Ack, AckFails
  <2>2. PICK r \in Records : item[p].rec = r
    BY <2>1
  <2>3. /\ request' = request /\ SameTables
        /\ entry' \in {entry, [entry EXCEPT ![r] = "acked"]}
    BY <1>4, <2>2 DEF Ack, AckFails
  <2> QED
    BY <2>1, <2>2, <2>3, CareReleases
<1> QED
    BY <1>1, <1>2, <1>3, <1>4 DEF PodNext, LoopNext, HandleNext

LEMMA CareStep == Inv /\ [Next]_vars => [Care!Next]_(Care!vars)
<1> SUFFICES ASSUME Inv, [Next]_vars PROVE Care!Next \/ UNCHANGED Care!vars
    OBVIOUS
<1> USE DEF Inv
<1>1. ASSUME NEW p \in Pods, PodNext(p) PROVE Care!Next \/ UNCHANGED Care!vars
    BY <1>1, CarePods
<1>2. ASSUME NEW r \in Records, RequestNext(r) PROVE Care!Next \/ UNCHANGED Care!vars
    BY <1>2, CareRequests
<1>3. ASSUME NEW r \in Records, GoesIdle(r) PROVE UNCHANGED Care!vars
  <2>1. request' = request /\ entry' = entry /\ SameTables
    BY <1>3 DEF GoesIdle, SameTables, tableVars
  <2> QED
    BY <2>1, CareDelivers
<1>4. ASSUME NEW r \in Records, Replay(r) PROVE UNCHANGED Care!vars
  <2>1. ASSUME NEW q \in Records PROVE Same(q)
    BY <1>4 DEF Replay, Same, ChatOf, StreamOf, Accounted
  <2> QED
    BY <2>1, CareStutters
<1>5. CASE UNCHANGED vars
  <2>1. request' = request /\ entry' = entry /\ SameTables
    BY <1>5 DEF vars, streamVars, tableVars, SameTables
  <2> QED
    BY <2>1, CareDelivers
<1> QED
    BY <1>1, <1>2, <1>3, <1>4, <1>5 DEF Next, PodNext

(* Nothing that was answered is dropped, and nothing that was settled is   *)
(* unsettled: the stream, its consumers and the route implement Custody.   *)
THEOREM PersistenceIsCustody == Spec => CustodySpec
<1>1. Init => Care!Init
    BY DEF Init, Care!Init, ChatOf, StreamOf, Accounted
<1> QED
    BY <1>1, Inductive, CareStep, PTL DEF Spec, CustodySpec, Care!Spec
=============================================================================
