---------------------- MODULE GamePersistence_proofs -----------------------
(* Proofs about the dirty-save queue, for any keys, callers and limit, and  *)
(* then about the persistence facade over it. The invariant of the queue    *)
(* alone is kept by every step of the running game: by the steps the queue  *)
(* module has, and by the three it has not.                                 *)
EXTENDS GamePersistence, InsertionMap_proofs

-----------------------------------------------------------------------------
(* The inductive invariant. *)

QueueInv == OrderIsPending /\ ChainOK /\ BatchOK /\ NewerThanStore /\ StoreMarked

LEMMA InitTypeOK == Init => TypeOK
  BY DEF Init, TypeOK, Phase, Entry

LEMMA InitQueueInv == Init => QueueInv
  BY DEF Init, QueueInv, OrderIsPending, ChainOK, BatchOK, NewerThanStore,
         StoreMarked, Distinct, Occurs, Has, MayStart

\* Every step keeps the types.
LEMMA NextTypeOK == TypeOK /\ QueueInv /\ [Next]_vars => TypeOK'
<1> SUFFICES ASSUME TypeOK, OrderIsPending, ChainOK, [Next]_vars PROVE TypeOK'
  BY DEF QueueInv
<1> USE DEF TypeOK, Phase, queueVars, drainVars
<1>d. Distinct(order)
  BY DEF OrderIsPending
<1>1. ASSUME NEW k \in Keys, MarkDirty(k) PROVE TypeOK'
  <2>1. Set(order, k) \in Seq(Keys)
    BY <1>d, SetFacts, Zenon
  <2> QED
    BY <1>1, <2>1 DEF MarkDirty
<1>2. CASE Clear
  BY <1>2 DEF Clear
<1>3. ASSUME NEW c \in Callers, DrainReport(c) PROVE TypeOK'
  BY <1>3 DEF DrainReport
<1>4. ASSUME NEW c \in Callers, StartDrain(c) PROVE TypeOK'
  <2>1. FirstEntries \in Seq(Entry)
    <3> DEFINE n == IF Limit < Len(order) THEN Limit ELSE Len(order)
    <3>1. n \in Nat /\ \A i \in 1 .. n : i \in 1 .. Len(order)
      BY LimitAssumption
    <3>2. ASSUME NEW i \in 1 .. n
          PROVE  [key |-> order[i], epoch |-> snap[order[i]]] \in Entry
      <4>1. order[i] \in Keys
        BY <3>1
      <4>2. snap[order[i]] \in Nat
        BY <4>1
      <4> QED
        BY <4>1, <4>2 DEF Entry
    <3> HIDE DEF n
    <3>3. [i \in 1 .. n |-> [key |-> order[i], epoch |-> snap[order[i]]]] \in Seq(Entry)
      BY <3>1, <3>2
    <3> QED
      BY <3>3 DEF FirstEntries, n
  <2> QED
    BY <1>4, <2>1 DEF StartDrain
<1>5. ASSUME NEW c \in Callers, Visiting(c), NEW e, e = Head(batch[c]), RemoveUpFront(e.key)
      PROVE  /\ e \in Entry /\ Tail(batch[c]) \in Seq(Entry)
             /\ order' \in Seq(Keys) /\ snap' \in [Keys -> Nat]
  <2>1. batch[c] \in Seq(Entry) /\ batch[c] # <<>>
    BY <1>5 DEF Visiting
  <2>2. e \in Entry /\ Tail(batch[c]) \in Seq(Entry)
    BY <2>1, <1>5
  <2>3. Delete(order, e.key) \in Seq(Keys)
    BY <1>d, DeleteFacts, Zenon
  <2> QED
    BY <1>5, <2>2, <2>3 DEF RemoveUpFront
<1>6. ASSUME NEW c \in Callers, SkipSuperseded(c) PROVE TypeOK'
  BY <1>5, <1>6 DEF SkipSuperseded
<1>7. ASSUME NEW c \in Callers, StartWrite(c) PROVE TypeOK'
  BY <1>5, <1>7 DEF StartWrite
<1>8. ASSUME NEW c \in Callers, WriteOk(c) PROVE TypeOK'
  <2>1. writing[c].key \in Keys /\ writing[c].epoch \in Nat
    BY <1>8 DEF WriteOk, Entry
  <2>2. durable' \in [Keys -> Nat] /\ report' \in [Callers -> SUBSET Keys]
    BY <1>8, <2>1 DEF WriteOk, Note
  <2>3. written' \in [Callers -> Nat] /\ writing' \in [Callers -> Entry \cup {None}]
    BY <1>8 DEF WriteOk
  <2> QED
    BY <1>8, <2>2, <2>3 DEF WriteOk
<1>9. ASSUME NEW c \in Callers, WriteFail(c) PROVE TypeOK'
  <2>1. writing[c] \in Entry
    BY <1>9 DEF WriteFail
  <2>2. Set(order, writing[c].key) \in Seq(Keys)
    BY <1>d, <2>1, SetFacts DEF Entry
  <2> QED
    BY <1>9, <2>1, <2>2 DEF WriteFail, Requeue, Entry
<1>10. ASSUME NEW c \in Callers, EndDrain(c) PROVE TypeOK'
  <2>1. tail # <<>>
    BY <1>10 DEF EndDrain, ChainOK, MayStart
  <2>2. tail' \in Seq(Callers)
    BY <1>10, <2>1 DEF EndDrain
  <2>3. phase' \in [Callers -> Phase]
    BY <1>10 DEF EndDrain
  <2> QED
    BY <1>10, <2>2, <2>3 DEF EndDrain
<1>11. ASSUME NEW c \in Callers, Return(c) PROVE TypeOK'
  BY <1>11 DEF Return
<1>12. CASE UNCHANGED vars
  BY <1>12 DEF vars
<1> QED
  BY <1>1, <1>2, <1>3, <1>4, <1>6, <1>7, <1>8, <1>9, <1>10, <1>11, <1>12
     DEF Next, Drain, Body

-----------------------------------------------------------------------------
(* The Map keeps exactly the pending keys. *)

LEMMA NextOrder == TypeOK /\ QueueInv /\ [Next]_vars => OrderIsPending'
<1> SUFFICES ASSUME TypeOK, OrderIsPending, BatchOK, NewerThanStore, [Next]_vars
             PROVE  OrderIsPending'
  BY DEF QueueInv
<1> USE DEF TypeOK, queueVars, drainVars
<1>d. Distinct(order) /\ \A k \in Keys : Has(k) <=> Occurs(order, k)
  BY DEF OrderIsPending
<1>s. ASSUME NEW k \in Keys, order' = Set(order, k), NEW n \in Nat \ {0},
             snap' = [snap EXCEPT ![k] = n]
      PROVE  OrderIsPending'
  <2>1. /\ Distinct(Set(order, k))
        /\ \A x : Occurs(Set(order, k), x) <=> x = k \/ Occurs(order, x)
    BY <1>d, SetFacts, Zenon
  <2>2. \A x \in Keys : Has(x)' <=> x = k \/ Has(x)
    BY <1>s DEF Has
  <2>3. \A x \in Keys : Has(x)' <=> Occurs(order', x)
    BY <1>d, <1>s, <2>1, <2>2
  <2>4. Distinct(order')
    BY <1>s, <2>1
  <2> QED
    BY <2>3, <2>4 DEF OrderIsPending, Distinct, Occurs
<1>r. ASSUME NEW k \in Keys, RemoveUpFront(k) PROVE OrderIsPending'
  <2>1. /\ Distinct(Delete(order, k))
        /\ \A x : Occurs(Delete(order, k), x) <=> x # k /\ Occurs(order, x)
    BY <1>d, DeleteFacts, Zenon
  <2>2. \A x \in Keys : Has(x)' <=> x # k /\ Has(x)
    BY <1>r DEF Has, RemoveUpFront
  <2>3. \A x \in Keys : Has(x)' <=> Occurs(order', x)
    BY <1>d, <1>r, <2>1, <2>2 DEF RemoveUpFront
  <2>4. Distinct(order')
    BY <1>r, <2>1 DEF RemoveUpFront
  <2> QED
    BY <2>3, <2>4 DEF OrderIsPending, Distinct, Occurs
<1>u. ASSUME UNCHANGED <<order, snap>> PROVE OrderIsPending'
  BY <1>u DEF OrderIsPending, Distinct, Occurs, Has
<1>1. ASSUME NEW k \in Keys, MarkDirty(k) PROVE OrderIsPending'
  <2>1. epochs[k] + 1 \in Nat \ {0}
    OBVIOUS
  <2> QED
    BY <1>1, <1>s, <2>1 DEF MarkDirty
<1>2. CASE Clear
  BY <1>2 DEF Clear, OrderIsPending, Distinct, Occurs, Has
<1>3. ASSUME NEW c \in Callers, Visiting(c) PROVE Head(batch[c]).key \in Keys
  <2>1. batch[c] \in Seq(Entry) /\ batch[c] # <<>>
    BY <1>3 DEF Visiting
  <2>2. Head(batch[c]) \in Entry
    BY <2>1
  <2> QED
    BY <2>2 DEF Entry
<1>4. ASSUME NEW c \in Callers, SkipSuperseded(c) PROVE OrderIsPending'
  BY <1>3, <1>4, <1>r DEF SkipSuperseded
<1>5. ASSUME NEW c \in Callers, StartWrite(c) PROVE OrderIsPending'
  BY <1>3, <1>5, <1>r DEF StartWrite
<1>6. ASSUME NEW c \in Callers, WriteFail(c) PROVE OrderIsPending'
  <2> DEFINE e == writing[c]
  <2>1. e \in Entry /\ e # None
    BY <1>6 DEF WriteFail
  <2>2. e.key \in Keys /\ e.epoch \in Nat \ {0}
    <3>1. durable[e.key] < e.epoch /\ e.key \in Keys /\ e.epoch \in Nat
      BY <2>1 DEF NewerThanStore, Entry
    <3> QED
      BY <3>1
  <2> HIDE DEF e
  <2>3. CASE Has(e.key)
    BY <1>6, <1>u, <2>3 DEF WriteFail, Requeue, e
  <2>4. CASE ~ Has(e.key)
    BY <1>6, <1>s, <2>2, <2>4 DEF WriteFail, Requeue, e
  <2> QED
    BY <2>3, <2>4
<1>7. ASSUME NEW c \in Callers,
             DrainReport(c) \/ StartDrain(c) \/ WriteOk(c) \/ EndDrain(c) \/ Return(c)
      PROVE  OrderIsPending'
  BY <1>7, <1>u DEF DrainReport, StartDrain, WriteOk, EndDrain, Return
<1>8. CASE UNCHANGED vars
  BY <1>8, <1>u DEF vars
<1> QED
  BY <1>1, <1>2, <1>4, <1>5, <1>6, <1>7, <1>8 DEF Next, Drain, Body

-----------------------------------------------------------------------------
(* The promise chain serializes the calls. *)

LEMMA NextChain == TypeOK /\ QueueInv /\ [Next]_vars => ChainOK'
<1> SUFFICES ASSUME TypeOK, ChainOK, [Next]_vars PROVE ChainOK'
  BY DEF QueueInv
<1>t. /\ tail \in Seq(Callers) /\ phase \in [Callers -> Phase]
      /\ batch \in [Callers -> Seq(Entry)] /\ writing \in [Callers -> Entry \cup {None}]
  BY DEF TypeOK
<1> USE <1>t DEF queueVars, drainVars, ChainOK, Distinct, Occurs, MayStart
<1>u. ASSUME UNCHANGED <<tail, phase, batch, writing>> PROVE ChainOK'
  BY <1>u
<1>1. ASSUME NEW k \in Keys, MarkDirty(k) PROVE ChainOK'
  BY <1>1, <1>u DEF MarkDirty
<1>2. CASE Clear
  BY <1>2, <1>u DEF Clear
<1>3. ASSUME NEW c \in Callers, DrainReport(c) PROVE ChainOK'
  <2>1. /\ tail' = Append(tail, c) /\ Len(tail') = Len(tail) + 1
        /\ tail'[Len(tail) + 1] = c /\ Len(tail) \in Nat
        /\ \A i \in 1 .. Len(tail) : tail'[i] = tail[i]
    BY <1>3 DEF DrainReport
  <2>2. \A i \in 1 .. Len(tail) : tail[i] # c
    BY <1>3 DEF DrainReport
  <2>3. Distinct(tail)'
    BY <2>1, <2>2
  <2>4. \A d \in Callers :
          (\E i \in 1 .. Len(tail') : tail'[i] = d)
          <=> d = c \/ \E i \in 1 .. Len(tail) : tail[i] = d
    BY <2>1
  <2>5. tail # <<>> => tail' # <<>> /\ Head(tail') = Head(tail)
    BY <2>1, AppendFacts
  <2>6. ASSUME NEW d \in Callers
        PROVE  /\ phase'[d] = IF d = c THEN "waiting" ELSE phase[d]
               /\ writing'[d] = writing[d] /\ batch'[d] = batch[d]
    BY <1>3 DEF DrainReport, Phase
  <2>7. phase[c] = "idle"
    BY <1>3 DEF DrainReport
  <2>8. ASSUME NEW d \in Callers, d = c
        PROVE  /\ phase'[d] \in {"waiting", "running"} /\ phase'[d] # "running"
               /\ \E i \in 1 .. Len(tail') : tail'[i] = d
               /\ writing'[d] = None /\ batch'[d] = <<>>
    <3>1. writing[d] = None /\ batch[d] = <<>>
      BY <2>7, <2>8
    <3> QED
      BY <2>4, <2>6, <2>8, <3>1
  <2>9. ASSUME NEW d \in Callers, d # c
        PROVE  /\ phase'[d] \in {"waiting", "running"}
                  <=> \E i \in 1 .. Len(tail') : tail'[i] = d
               /\ phase'[d] = "running" => tail' # <<>> /\ Head(tail') = d
               /\ phase'[d] # "running" => writing'[d] = None /\ batch'[d] = <<>>
    <3>1. /\ phase'[d] = phase[d] /\ writing'[d] = writing[d] /\ batch'[d] = batch[d]
      BY <2>6, <2>9
    <3>2. (\E i \in 1 .. Len(tail') : tail'[i] = d) <=> \E i \in 1 .. Len(tail) : tail[i] = d
      BY <2>4, <2>9
    <3> QED
      BY <2>5, <3>1, <3>2
  <2> QED
    BY <2>3, <2>8, <2>9
<1>4. ASSUME NEW c \in Callers, StartDrain(c) PROVE ChainOK'
  BY <1>4 DEF StartDrain, Phase
<1>5. ASSUME NEW c \in Callers, SkipSuperseded(c) PROVE ChainOK'
  BY <1>5 DEF SkipSuperseded, Visiting
<1>6. ASSUME NEW c \in Callers, StartWrite(c) PROVE ChainOK'
  BY <1>6 DEF StartWrite, Visiting
<1>7. ASSUME NEW c \in Callers, WriteOk(c) \/ WriteFail(c) PROVE ChainOK'
  BY <1>7 DEF WriteOk, WriteFail
<1>8. ASSUME NEW c \in Callers, EndDrain(c) PROVE ChainOK'
  <2>1. tail # <<>> /\ Head(tail) = c /\ tail[1] = c
    BY <1>8 DEF EndDrain, Done
  <2>2. /\ tail' = Tail(tail) /\ Len(tail') = Len(tail) - 1
        /\ Len(tail) \in Nat /\ Len(tail) >= 1
        /\ \A i \in 1 .. Len(tail) - 1 : tail'[i] = tail[i + 1]
    BY <1>8, <2>1, TailFacts DEF EndDrain, Done
  <2>3. Distinct(tail)'
    <3> SUFFICES ASSUME NEW i \in 1 .. Len(tail'), NEW j \in 1 .. Len(tail'),
                        tail'[i] = tail'[j]
                 PROVE  i = j
      OBVIOUS
    <3>1. i + 1 \in 1 .. Len(tail) /\ j + 1 \in 1 .. Len(tail)
          /\ tail[i + 1] = tail[j + 1]
      BY <2>2
    <3>2. i + 1 = j + 1
      BY <3>1
    <3> QED
      BY <3>2, <2>2
  <2>4. ASSUME NEW d \in Callers
        PROVE  (\E i \in 1 .. Len(tail') : tail'[i] = d)
               <=> d # c /\ \E i \in 1 .. Len(tail) : tail[i] = d
    <3>1. ASSUME NEW i \in 1 .. Len(tail'), tail'[i] = d
          PROVE  d # c /\ \E j \in 1 .. Len(tail) : tail[j] = d
      <4>1. i + 1 \in 1 .. Len(tail) /\ tail[i + 1] = d /\ i + 1 # 1
        BY <3>1, <2>2
      <4> QED
        BY <4>1, <2>1, <2>2
    <3>2. ASSUME NEW i \in 1 .. Len(tail), tail[i] = d, d # c
          PROVE  \E j \in 1 .. Len(tail') : tail'[j] = d
      <4>1. i # 1
        BY <3>2, <2>1
      <4>2. i - 1 \in 1 .. Len(tail') /\ tail'[i - 1] = tail[i]
        BY <4>1, <2>2
      <4> QED
        BY <4>2, <3>2
    <3> QED
      BY <3>1, <3>2
  <2>5. \A d \in Callers : phase[d] = "running" => d = c
    BY <2>1
  <2>6. ASSUME NEW d \in Callers
        PROVE  /\ phase'[d] = IF d = c THEN "settled" ELSE phase[d]
               /\ writing'[d] = writing[d] /\ batch'[d] = batch[d]
    BY <1>8 DEF EndDrain, Done
  <2>7. writing[c] = None /\ batch[c] = <<>>
    BY <1>8 DEF EndDrain, Done
  <2>8. ASSUME NEW d \in Callers
        PROVE  /\ phase'[d] # "running"
               /\ phase'[d] = "waiting" <=> phase[d] \in {"waiting", "running"} /\ d # c
               /\ writing'[d] = None /\ batch'[d] = <<>>
    <3>1. CASE d = c
      BY <2>6, <2>7, <3>1
    <3>2. CASE d # c
      BY <2>5, <2>6, <3>2
    <3> QED
      BY <3>1, <3>2
  <2> QED
    BY <2>3, <2>4, <2>8
<1>9. ASSUME NEW c \in Callers, Return(c) PROVE ChainOK'
  BY <1>9 DEF Return, Phase
<1>10. CASE UNCHANGED vars
  BY <1>10, <1>u DEF vars
<1> QED
  BY <1>1, <1>2, <1>3, <1>4, <1>5, <1>6, <1>7, <1>8, <1>9, <1>10
     DEF Next, Drain, Body

-----------------------------------------------------------------------------
(* Epochs only move forward. *)

EntryInv == BatchOK /\ NewerThanStore /\ StoreMarked

LEMMA NextEntries == TypeOK /\ QueueInv /\ [Next]_vars => EntryInv'
<1> SUFFICES ASSUME TypeOK, OrderIsPending, ChainOK, BatchOK, NewerThanStore,
                    StoreMarked, [Next]_vars
             PROVE  EntryInv'
  BY DEF QueueInv
<1>t. /\ epochs \in [Keys -> Nat] /\ order \in Seq(Keys) /\ snap \in [Keys -> Nat]
      /\ batch \in [Callers -> Seq(Entry)]
      /\ writing \in [Callers -> Entry \cup {None}] /\ durable \in [Keys -> Nat]
  BY DEF TypeOK
<1> USE <1>t DEF Has
\* Only the head of the chain holds entries.
<1>a. ASSUME NEW c \in Callers, NEW d \in Callers, phase[c] = "running", c # d
      PROVE  batch[d] = <<>> /\ writing[d] = None
  BY <1>a DEF ChainOK, MayStart
<1>b. ASSUME NEW c \in Callers, writing[c] # None
      PROVE  phase[c] = "running" /\ writing[c] \in Entry
  BY <1>b DEF ChainOK
<1>c. ASSUME NEW c \in Callers, NEW i \in 1 .. Len(batch[c])
      PROVE  batch[c][i] \in Entry
  OBVIOUS
<1>e. \A e \in Entry : e.key \in Keys /\ e.epoch \in Nat
  BY DEF Entry
\* The entry a visit takes from the batch, and what is left of the batch.
<1>v. ASSUME NEW c \in Callers, Visiting(c), NEW e, e = Head(batch[c])
      PROVE  /\ e \in Entry /\ phase[c] = "running" /\ writing[c] = None
             /\ durable[e.key] < e.epoch /\ e.epoch <= epochs[e.key]
             /\ \A i \in 1 .. Len(Tail(batch[c])) :
                  /\ i + 1 \in 1 .. Len(batch[c])
                  /\ Tail(batch[c])[i] = batch[c][i + 1]
                  /\ batch[c][i + 1].key # e.key
             /\ \A i, j \in 1 .. Len(Tail(batch[c])) :
                  Tail(batch[c])[i].key = Tail(batch[c])[j].key => i = j
  <2> DEFINE b == batch[c]
  <2>1. b \in Seq(Entry) /\ b # <<>>
    BY <1>v DEF Visiting
  <2>2. /\ Head(b) \in Entry /\ Head(b) = b[1]
        /\ Len(Tail(b)) = Len(b) - 1 /\ Len(b) \in Nat /\ Len(b) >= 1
        /\ \A j \in 1 .. Len(b) - 1 : Tail(b)[j] = b[j + 1]
    BY <2>1, TailFacts
  <2>3. /\ \A i, j \in 1 .. Len(b) : b[i].key = b[j].key => i = j
        /\ durable[b[1].key] < b[1].epoch /\ b[1].epoch <= epochs[b[1].key]
    BY <2>2 DEF BatchOK
  <2> HIDE DEF b
  <2>4. ASSUME NEW i \in 1 .. Len(Tail(b))
        PROVE  i + 1 \in 1 .. Len(b) /\ Tail(b)[i] = b[i + 1] /\ b[i + 1].key # b[1].key
    <3>1. i + 1 \in 1 .. Len(b) /\ Tail(b)[i] = b[i + 1] /\ 1 \in 1 .. Len(b) /\ i + 1 # 1
      BY <2>2
    <3> QED
      BY <3>1, <2>3
  <2>5. ASSUME NEW i \in 1 .. Len(Tail(b)), NEW j \in 1 .. Len(Tail(b)),
               Tail(b)[i].key = Tail(b)[j].key
        PROVE  i = j
    <3>1. i + 1 = j + 1
      BY <2>3, <2>4, <2>5
    <3> QED
      BY <3>1, <2>2
  <2> QED
    BY <1>v, <2>2, <2>3, <2>4, <2>5 DEF b, Visiting
<1>1. ASSUME NEW k \in Keys, MarkDirty(k) PROVE EntryInv'
  <2>1. /\ epochs' = [epochs EXCEPT ![k] = epochs[k] + 1]
        /\ snap' = [snap EXCEPT ![k] = epochs[k] + 1]
        /\ UNCHANGED <<batch, writing, durable>>
    BY <1>1 DEF MarkDirty, drainVars
  <2>2. \A x \in Keys : epochs[x] <= epochs'[x] /\ epochs'[x] \in Nat
    BY <2>1
  <2>3. BatchOK'
    <3>1. ASSUME NEW c \in Callers, NEW i \in 1 .. Len(batch[c])
          PROVE  batch[c][i].epoch <= epochs'[batch[c][i].key]
      BY <2>2, <1>c, <1>e DEF BatchOK
    <3>2. ASSUME NEW c \in Callers, writing[c] # None
          PROVE  writing[c].epoch <= epochs'[writing[c].key]
      BY <2>2, <3>2, <1>b, <1>e DEF BatchOK
    <3> QED
      BY <2>1, <3>1, <3>2 DEF BatchOK
  <2>4. NewerThanStore'
    <3>1. ASSUME NEW x \in Keys, snap'[x] # 0
          PROVE  durable[x] < snap'[x] /\ snap'[x] <= epochs'[x]
      BY <2>1, <3>1 DEF NewerThanStore, StoreMarked
    <3>2. ASSUME NEW c \in Callers, writing[c] # None
          PROVE  /\ durable[writing[c].key] < writing[c].epoch
                 /\ snap'[writing[c].key] # 0 => writing[c].epoch < snap'[writing[c].key]
      BY <2>1, <3>2, <1>b, <1>e DEF NewerThanStore, BatchOK
    <3> QED
      BY <2>1, <3>1, <3>2 DEF NewerThanStore
  <2>5. StoreMarked'
    BY <2>1, <2>2 DEF StoreMarked
  <2> QED
    BY <2>3, <2>4, <2>5 DEF EntryInv
<1>2. CASE Clear
  <2>1. snap' = [k \in Keys |-> 0] /\ UNCHANGED <<epochs, batch, writing, durable>>
    BY <1>2 DEF Clear, drainVars
  <2>2. NewerThanStore'
    BY <2>1, <1>b, <1>e DEF NewerThanStore
  <2> QED
    BY <2>1, <2>2 DEF EntryInv, BatchOK, StoreMarked
<1>3. ASSUME NEW c \in Callers, DrainReport(c) \/ EndDrain(c) \/ Return(c) PROVE EntryInv'
  <2>1. UNCHANGED <<epochs, snap, batch, writing, durable>>
    BY <1>3 DEF DrainReport, EndDrain, Return, queueVars
  <2> QED
    BY <2>1 DEF EntryInv, BatchOK, NewerThanStore, StoreMarked
<1>4. ASSUME NEW c \in Callers, StartDrain(c) PROVE EntryInv'
  <2>1. /\ batch' = [batch EXCEPT ![c] = FirstEntries]
        /\ writing[c] = None
        /\ UNCHANGED <<epochs, order, snap, writing, durable>>
    BY <1>4 DEF StartDrain, ChainOK, queueVars
  <2>2. /\ \A i \in 1 .. Len(FirstEntries) :
             /\ i \in 1 .. Len(order)
             /\ FirstEntries[i] = [key |-> order[i], epoch |-> snap[order[i]]]
    BY LimitAssumption DEF FirstEntries
  <2>3. ASSUME NEW i \in 1 .. Len(FirstEntries), NEW e, e = FirstEntries[i]
        PROVE  durable[e.key] < e.epoch /\ e.epoch <= epochs[e.key]
    <3>1. i \in 1 .. Len(order) /\ e = [key |-> order[i], epoch |-> snap[order[i]]]
      BY <2>2, <2>3
    <3>2. order[i] \in Keys /\ Occurs(order, order[i])
      BY <3>1 DEF Occurs
    <3>3. snap[order[i]] # 0
      BY <3>2 DEF OrderIsPending
    <3> QED
      BY <3>1, <3>2, <3>3 DEF NewerThanStore
  <2>4. ASSUME NEW i \in 1 .. Len(FirstEntries), NEW j \in 1 .. Len(FirstEntries),
               FirstEntries[i].key = FirstEntries[j].key
        PROVE  i = j
    <3>1. ASSUME NEW m \in 1 .. Len(FirstEntries)
          PROVE  m \in 1 .. Len(order) /\ FirstEntries[m].key = order[m]
      <4> DEFINE e == FirstEntries[m]
      <4>1. m \in 1 .. Len(order) /\ e = [key |-> order[m], epoch |-> snap[order[m]]]
        BY <2>2
      <4> HIDE DEF e
      <4>2. e.key = order[m]
        BY <4>1
      <4> QED
        BY <4>1, <4>2 DEF e
    <3>2. order[i] = order[j]
      BY <2>4, <3>1, Zenon
    <3> QED
      BY <3>1, <3>2 DEF OrderIsPending, Distinct
  <2>5. BatchOK'
    <3>1. batch'[c] = FirstEntries /\ \A d \in Callers : d # c => batch'[d] = batch[d]
      BY <2>1
    <3> HIDE DEF FirstEntries
    <3>2. ASSUME NEW i \in 1 .. Len(FirstEntries)
          PROVE  /\ durable[FirstEntries[i].key] < FirstEntries[i].epoch
                 /\ FirstEntries[i].epoch <= epochs[FirstEntries[i].key]
      BY <2>3
    <3>3. /\ writing' = writing /\ durable' = durable /\ epochs' = epochs
          /\ writing[c] = None
      BY <2>1
    <3> DEFINE Ahead(b, w) ==
            /\ \A i, j \in 1 .. Len(b) : b[i].key = b[j].key => i = j
            /\ \A i \in 1 .. Len(b) :
                  LET e == b[i]
                  IN  /\ durable[e.key] < e.epoch /\ e.epoch <= epochs[e.key]
                      /\ w # None => w.key # e.key
            /\ w # None => w.epoch <= epochs[w.key]
    <3>4. \A d \in Callers : Ahead(batch[d], writing[d])
      BY DEF BatchOK
    <3>5. Ahead(batch'[c], writing[c])
      BY <2>4, <3>1, <3>2, <3>3
    <3> HIDE DEF Ahead
    <3>6. \A d \in Callers : Ahead(batch'[d], writing[d])
      BY <3>1, <3>4, <3>5
    <3> QED
      BY <3>3, <3>6 DEF BatchOK, Ahead
  <2>6. NewerThanStore' /\ StoreMarked'
    BY <2>1 DEF NewerThanStore, StoreMarked
  <2> QED
    BY <2>5, <2>6 DEF EntryInv
<1>5. ASSUME NEW c \in Callers, SkipSuperseded(c) PROVE EntryInv'
  <2> DEFINE e == Head(batch[c])
  <2>1. /\ Visiting(c) /\ snap' = [snap EXCEPT ![e.key] = 0]
        /\ batch' = [batch EXCEPT ![c] = Tail(@)]
        /\ UNCHANGED <<epochs, writing, durable>>
    BY <1>5 DEF SkipSuperseded, RemoveUpFront
  <2>2. BatchOK'
    BY <2>1, <1>v DEF BatchOK
  <2>3. NewerThanStore' /\ StoreMarked'
    BY <2>1, <1>b, <1>e, <1>v DEF NewerThanStore, StoreMarked
  <2> QED
    BY <2>2, <2>3 DEF EntryInv
<1>6. ASSUME NEW c \in Callers, StartWrite(c) PROVE EntryInv'
  <2> DEFINE e == Head(batch[c])
  <2>1. /\ Visiting(c) /\ snap' = [snap EXCEPT ![e.key] = 0]
        /\ batch' = [batch EXCEPT ![c] = Tail(@)]
        /\ writing' = [writing EXCEPT ![c] = e]
        /\ UNCHANGED <<epochs, durable>>
    BY <1>6 DEF StartWrite, RemoveUpFront
  <2>2. BatchOK'
    BY <2>1, <1>v DEF BatchOK
  <2>3. NewerThanStore'
    <3>0. e.key \in Keys /\ durable[e.key] < e.epoch
      BY <2>1, <1>v, <1>e
    <3> HIDE DEF e
    <3>1. ASSUME NEW k \in Keys, snap'[k] # 0
          PROVE  durable[k] < snap'[k] /\ snap'[k] <= epochs[k] /\ snap'[k] = snap[k]
      <4>1. snap'[k] = snap[k]
        BY <2>1, <3>0, <3>1
      <4> QED
        BY <3>1, <4>1 DEF NewerThanStore
    <3>2. snap'[e.key] = 0
      BY <2>1, <3>0
    <3>3. ASSUME NEW d \in Callers, writing'[d] # None
          PROVE  /\ durable[writing'[d].key] < writing'[d].epoch
                 /\ snap'[writing'[d].key] # 0 => writing'[d].epoch < snap'[writing'[d].key]
      <4>1. CASE d = c
        BY <2>1, <3>0, <3>2, <4>1
      <4>2. CASE d # c
        <5>1. writing'[d] = writing[d] /\ writing[d] # None /\ writing[d].key \in Keys
          <6>1. writing'[d] = writing[d] /\ writing[d] # None
            BY <2>1, <3>3, <4>2
          <6> QED
            BY <6>1, <1>b, <1>e
        <5> QED
          BY <5>1, <3>1 DEF NewerThanStore
      <4> QED
        BY <4>1, <4>2
    <3> QED
      BY <2>1, <3>1, <3>3 DEF NewerThanStore
  <2>4. StoreMarked'
    BY <2>1 DEF StoreMarked
  <2> QED
    BY <2>2, <2>3, <2>4 DEF EntryInv
<1>7. ASSUME NEW c \in Callers, WriteOk(c) PROVE EntryInv'
  <2> DEFINE e == writing[c]
  <2>1. /\ e # None /\ durable' = [durable EXCEPT ![e.key] = e.epoch]
        /\ writing' = [writing EXCEPT ![c] = None]
        /\ UNCHANGED <<epochs, snap, batch>>
    BY <1>7 DEF WriteOk, queueVars
  <2>2. e \in Entry /\ e.key \in Keys /\ e.epoch \in Nat /\ phase[c] = "running"
    BY <2>1, <1>b, <1>e
  <2>3. \A d \in Callers : d # c => batch[d] = <<>> /\ writing[d] = None
    BY <2>2, <1>a
  <2>4. BatchOK'
    BY <2>1, <2>2, <2>3, <1>c, <1>e DEF BatchOK
  <2>5. NewerThanStore'
    BY <2>1, <2>2, <2>3 DEF NewerThanStore
  <2>6. StoreMarked'
    BY <2>1, <2>2 DEF StoreMarked, BatchOK
  <2> QED
    BY <2>4, <2>5, <2>6 DEF EntryInv
<1>8. ASSUME NEW c \in Callers, WriteFail(c) PROVE EntryInv'
  <2> DEFINE e == writing[c]
  <2>1. /\ e # None /\ writing' = [writing EXCEPT ![c] = None]
        /\ snap' = snap \/ snap' = [snap EXCEPT ![e.key] = e.epoch]
        /\ UNCHANGED <<epochs, durable, batch>>
    BY <1>8 DEF WriteFail, Requeue
  <2>2. e \in Entry /\ e.key \in Keys /\ e.epoch \in Nat /\ phase[c] = "running"
    BY <2>1, <1>b, <1>e
  <2>3. \A d \in Callers : d # c => batch[d] = <<>> /\ writing[d] = None
    BY <2>2, <1>a
  <2>4. BatchOK'
    BY <2>1, <2>3 DEF BatchOK
  <2>5. NewerThanStore'
    BY <2>1, <2>2, <2>3 DEF NewerThanStore, BatchOK
  <2>6. StoreMarked'
    BY <2>1 DEF StoreMarked
  <2> QED
    BY <2>4, <2>5, <2>6 DEF EntryInv
<1>9. CASE UNCHANGED vars
  BY <1>9 DEF vars, EntryInv, BatchOK, NewerThanStore, StoreMarked
<1> QED
  BY <1>1, <1>2, <1>3, <1>4, <1>5, <1>6, <1>7, <1>8, <1>9 DEF Next, Drain, Body

-----------------------------------------------------------------------------
(* The theorems. *)

IInv == TypeOK /\ QueueInv

LEMMA NextIInv == IInv /\ [Next]_vars => IInv'
  BY NextTypeOK, NextOrder, NextChain, NextEntries DEF IInv, QueueInv, EntryInv

LEMMA SpecIInv == Spec => []IInv
<1>1. Init => IInv
  BY InitTypeOK, InitQueueInv DEF IInv
<1> QED
  BY <1>1, NextIInv, PTL DEF Spec

\* Type correctness of the queue.
THEOREM TypeCorrect == Spec => []TypeOK
<1>1. IInv => TypeOK
  BY DEF IInv
<1> QED
  BY <1>1, SpecIInv, PTL

\* The insertion order of the Map names each pending key once and no other.
THEOREM OrderCorrect == Spec => []OrderIsPending
<1>1. IInv => OrderIsPending
  BY DEF IInv, QueueInv
<1> QED
  BY <1>1, SpecIInv, PTL

\* However many callers drain at once, one write is in flight at a time.
THEOREM MutexCorrect == Spec => []SingleFlight
<1>1. IInv => SingleFlight
  BY DEF IInv, QueueInv, ChainOK, MayStart, SingleFlight
<1> QED
  BY <1>1, SpecIInv, PTL

\* A snapshot that waits or is being written is newer than the stored one.
THEOREM NewerCorrect == Spec => []NewerThanStore
<1>1. IInv => NewerThanStore
  BY DEF IInv, QueueInv
<1> QED
  BY <1>1, SpecIInv, PTL

\* Which steps touch the marks and the store.
LEMMA StoreSteps ==
    ASSUME [Next]_vars
    PROVE  \/ UNCHANGED <<epochs, durable>>
           \/ \E k \in Keys : MarkDirty(k)
           \/ \E c \in Callers : WriteOk(c)
  BY DEF Next, Drain, Body, vars, queueVars, drainVars, Clear, DrainReport,
         StartDrain, SkipSuperseded, StartWrite, WriteFail, EndDrain, Return

\* An accepted write puts a newer marked payload into the store.
LEMMA WriteAdvances ==
    ASSUME IInv, NEW c \in Callers, WriteOk(c)
    PROVE  \E k \in Keys :
             /\ \E n \in durable[k] + 1 .. epochs[k] : durable' = [durable EXCEPT ![k] = n]
             /\ epochs' = epochs
<1> DEFINE e == writing[c]
<1>1. /\ e # None /\ durable' = [durable EXCEPT ![e.key] = e.epoch]
      /\ epochs' = epochs
  BY DEF WriteOk, queueVars
<1>2. /\ e.key \in Keys /\ e.epoch \in Nat /\ durable[e.key] < e.epoch
      /\ e.epoch <= epochs[e.key]
      /\ durable[e.key] \in Nat /\ epochs[e.key] \in Nat
  BY <1>1 DEF IInv, QueueInv, NewerThanStore, BatchOK, TypeOK, Entry
<1> HIDE DEF e
<1>3. e.epoch \in durable[e.key] + 1 .. epochs[e.key]
  BY <1>2
<1> QED
  BY <1>1, <1>2, <1>3

\* The queue with its store implements the write-behind store: every step of
\* it marks a key, persists a newer payload, or changes neither.
THEOREM RefinesStore == Spec => ImplementsStore
<1>1. Init => Store!Init
  BY DEF Init, Store!Init
<1>2. IInv /\ [Next]_vars => [Store!Next]_(Store!vars)
  <2> SUFFICES ASSUME IInv, [Next]_vars PROVE [Store!Next]_(Store!vars)
    OBVIOUS
  <2> USE DEF Store!Next, Store!vars, Store!Mark, Store!Persist
  <2>1. CASE UNCHANGED <<epochs, durable>>
    BY <2>1
  <2>2. ASSUME NEW k \in Keys, MarkDirty(k) PROVE Store!Next
    BY <2>2 DEF MarkDirty
  <2>3. ASSUME NEW c \in Callers, WriteOk(c) PROVE Store!Next
    BY <2>3, WriteAdvances
  <2> QED
    BY <2>1, <2>2, <2>3, StoreSteps
<1> QED
  BY <1>1, <1>2, SpecIInv, PTL DEF Spec, ImplementsStore, Store!Spec

-----------------------------------------------------------------------------
(* Where a mark can be lost. *)

\* What is known of the latest mark of a key that nothing has lost, and of the
\* entry a drain is about to write.
LEMMA Reading ==
    ASSUME IInv, NEW k \in Keys
    PROVE  /\ epochs[k] \in Nat /\ durable[k] \in Nat /\ snap[k] \in Nat /\ discarded[k] \in Nat
           /\ durable[k] <= epochs[k]
           /\ \A c \in Callers : writing[c] # None /\ writing[c].key = k =>
                /\ writing[c].epoch \in Nat
                /\ durable[k] < writing[c].epoch /\ writing[c].epoch <= epochs[k]
                /\ snap[k] # 0 => writing[c].epoch < snap[k] /\ snap[k] <= epochs[k]
<1>1. TypeOK /\ BatchOK /\ NewerThanStore /\ StoreMarked
  BY DEF IInv, QueueInv
<1>2. /\ epochs[k] \in Nat /\ durable[k] \in Nat /\ snap[k] \in Nat /\ discarded[k] \in Nat
      /\ durable[k] <= epochs[k]
  BY <1>1 DEF TypeOK, StoreMarked
<1>3. ASSUME NEW c \in Callers, writing[c] # None, writing[c].key = k
      PROVE  /\ writing[c].epoch \in Nat
             /\ durable[k] < writing[c].epoch /\ writing[c].epoch <= epochs[k]
             /\ snap[k] # 0 => writing[c].epoch < snap[k] /\ snap[k] <= epochs[k]
  <2>1. writing[c] \in Entry
    BY <1>1, <1>3 DEF TypeOK
  <2>2. writing[c].epoch \in Nat
    BY <2>1 DEF Entry
  <2> QED
    BY <1>1, <1>3, <2>2 DEF BatchOK, NewerThanStore, Has
<1> QED
  BY <1>2, <1>3

\* A step that leaves alone what is known of k loses no mark of it.
LEMMA SameIsNotLost ==
    ASSUME NEW k \in Keys, ~ Lost(k),
           epochs'[k] = epochs[k], snap'[k] = snap[k], durable'[k] = durable[k],
           discarded'[k] = discarded[k],
           \A c \in Callers : writing[c] # None /\ writing[c].key = k => writing'[c] = writing[c]
    PROVE  ~ Lost(k)'
  BY DEF Lost, Held

\* A key of the queue whose latest mark is marked, moved or written stays held.
LEMMA StepLosesNothing ==
    ASSUME IInv, [Next]_vars, NEW k \in Keys, ~ Lost(k), ~ LostBySkip(k)
    PROVE  ~ Lost(k)'
<1>t. /\ epochs \in [Keys -> Nat] /\ snap \in [Keys -> Nat] /\ durable \in [Keys -> Nat]
      /\ discarded \in [Keys -> Nat] /\ batch \in [Callers -> Seq(Entry)]
      /\ writing \in [Callers -> Entry \cup {None}]
  BY DEF IInv, TypeOK
<1>h. /\ epochs[k] \in Nat /\ durable[k] \in Nat /\ snap[k] \in Nat
      /\ durable[k] <= epochs[k]
  BY Reading
<1>1. ASSUME NEW j \in Keys, MarkDirty(j) PROVE ~ Lost(k)'
  <2>1. /\ epochs' = [epochs EXCEPT ![j] = @ + 1] /\ snap' = [snap EXCEPT ![j] = epochs[j] + 1]
        /\ UNCHANGED <<writing, durable, discarded>>
    BY <1>1 DEF MarkDirty, drainVars
  <2>2. CASE j = k
    <3>1. snap'[k] = epochs'[k]
      BY <1>t, <2>1, <2>2
    <3> QED
      BY <3>1 DEF Lost, Held
  <2>3. CASE j # k
    <3>1. epochs'[k] = epochs[k] /\ snap'[k] = snap[k]
      BY <1>t, <2>1, <2>3
    <3> QED
      BY <2>1, <3>1, SameIsNotLost
  <2> QED
    BY <2>2, <2>3
<1>2. CASE Clear
  <2>1. /\ snap' = [x \in Keys |-> 0] /\ UNCHANGED <<epochs, writing, durable>>
        /\ discarded' = [x \in Keys |-> IF Has(x) THEN epochs[x] ELSE discarded[x]]
    BY <1>2 DEF Clear, drainVars
  <2>2. CASE Has(k)
    <3>1. discarded'[k] = epochs'[k]
      BY <2>1, <2>2
    <3>2. ~ (discarded'[k] < epochs'[k])
      BY <1>h, <2>1, <3>1
    <3> QED
      BY <3>2 DEF Lost
  <2>3. CASE ~ Has(k)
    <3>1. snap'[k] = snap[k] /\ discarded'[k] = discarded[k]
      BY <2>1, <2>3 DEF Has
    <3> QED
      BY <2>1, <3>1, SameIsNotLost
  <2> QED
    BY <2>2, <2>3
<1>3. ASSUME NEW c \in Callers, DrainReport(c) \/ StartDrain(c) \/ EndDrain(c) \/ Return(c)
      PROVE  ~ Lost(k)'
  <2>1. UNCHANGED <<epochs, snap, writing, durable, discarded>>
    BY <1>3 DEF DrainReport, StartDrain, EndDrain, Return, queueVars
  <2> QED
    BY <2>1, SameIsNotLost
<1>4. ASSUME NEW c \in Callers, SkipSuperseded(c) PROVE ~ Lost(k)'
  <2>1. Head(batch[c]).key # k
    BY <1>4 DEF LostBySkip
  <2>2. /\ snap' = [snap EXCEPT ![Head(batch[c]).key] = 0]
        /\ UNCHANGED <<epochs, writing, durable, discarded>>
    BY <1>4 DEF SkipSuperseded, RemoveUpFront
  <2>3. snap'[k] = snap[k]
    BY <1>t, <2>1, <2>2
  <2> QED
    BY <2>2, <2>3, SameIsNotLost
<1>5. ASSUME NEW c \in Callers, StartWrite(c) PROVE ~ Lost(k)'
  <2> DEFINE e == Head(batch[c])
  <2>1. /\ writing[c] = None /\ batch[c] # <<>> /\ epochs[e.key] = e.epoch
        /\ snap' = [snap EXCEPT ![e.key] = 0] /\ writing' = [writing EXCEPT ![c] = e]
        /\ UNCHANGED <<epochs, durable, discarded>>
    BY <1>5 DEF StartWrite, Visiting, Superseded, RemoveUpFront
  <2>2. e \in Entry
    BY <1>t, <2>1
  <2> HIDE DEF e
  <2>3. e # None
    BY <2>2, NoneAssumption DEF Entry
  <2>4. CASE e.key = k
    <3>1. /\ writing'[c] # None /\ writing'[c].key = k /\ writing'[c].epoch = epochs'[k]
      BY <1>t, <2>1, <2>3, <2>4
    <3> QED
      BY <3>1 DEF Lost, Held
  <2>5. CASE e.key # k
    <3>1. snap'[k] = snap[k]
      BY <1>t, <2>1, <2>5
    <3>2. \A d \in Callers : writing[d] # None => writing'[d] = writing[d]
      BY <1>t, <2>1
    <3> QED
      BY <2>1, <3>1, <3>2, SameIsNotLost
  <2> QED
    BY <2>4, <2>5
<1>6. ASSUME NEW c \in Callers, WriteOk(c) \/ WriteFail(c) PROVE ~ Lost(k)'
  <2> DEFINE e == writing[c]
  <2>1. /\ e # None /\ writing' = [writing EXCEPT ![c] = None]
        /\ UNCHANGED <<epochs, discarded>>
    BY <1>6 DEF WriteOk, WriteFail, queueVars
  <2>2. \A d \in Callers : d # c => writing'[d] = writing[d]
    BY <1>t, <2>1
  <2>3. /\ WriteOk(c) => durable' = [durable EXCEPT ![e.key] = e.epoch] /\ snap' = snap
        /\ WriteFail(c) => durable' = durable /\ Requeue(e)
    BY DEF WriteOk, WriteFail, queueVars
  <2>4. e.key = k => /\ e.epoch \in Nat /\ durable[k] < e.epoch /\ e.epoch <= epochs[k]
                     /\ snap[k] # 0 => e.epoch < snap[k] /\ snap[k] <= epochs[k]
    BY <2>1, Reading
  <2> HIDE DEF e
  <2>5. CASE e.key # k
    <3>1. durable'[k] = durable[k] /\ snap'[k] = snap[k]
      BY <1>6, <1>t, <2>3, <2>5 DEF Requeue
    <3>2. \A d \in Callers : writing[d] # None /\ writing[d].key = k => writing'[d] = writing[d]
      BY <2>2, <2>5 DEF e
    <3> QED
      BY <2>1, <3>1, <3>2, SameIsNotLost
  <2>6. CASE e.key = k /\ e.epoch = epochs[k]
    <3>1. snap[k] = 0
      BY <1>h, <2>4, <2>6
    <3>2. CASE WriteOk(c)
      <4>1. durable'[k] = epochs'[k]
        BY <1>t, <2>1, <2>3, <2>6, <3>2
      <4>2. ~ (durable'[k] < epochs'[k])
        BY <1>h, <2>1, <4>1
      <4> QED
        BY <4>2 DEF Lost
    <3>3. CASE WriteFail(c)
      <4>1. snap' = [snap EXCEPT ![k] = e.epoch]
        BY <2>3, <2>6, <3>1, <3>3 DEF Requeue, Has
      <4>2. snap'[k] = epochs'[k]
        BY <1>t, <2>1, <2>6, <4>1
      <4> QED
        BY <4>2 DEF Lost, Held
    <3> QED
      BY <1>6, <3>2, <3>3
  <2>7. CASE e.key = k /\ e.epoch # epochs[k]
    <3>1. epochs[k] # 0
      BY <1>h, <2>4, <2>7
    <3>2. \A d \in Callers : writing[d] # None /\ writing[d].key = k /\ writing[d].epoch = epochs[k]
            => writing'[d] = writing[d]
      BY <2>2, <2>7 DEF e
    <3>3. snap[k] = epochs[k] => snap'[k] = snap[k]
      BY <1>6, <2>3, <2>7, <3>1 DEF Requeue, Has
    <3>4. Held(k) => Held(k)'
      BY <2>1, <3>2, <3>3 DEF Held
    <3>5. durable'[k] = durable[k] \/ durable'[k] = e.epoch
      BY <1>6, <1>t, <2>3, <2>7
    <3>6. durable'[k] < epochs'[k] => durable[k] < epochs[k]
      BY <1>h, <2>1, <2>4, <2>7
    <3> QED
      BY <2>1, <3>4, <3>6 DEF Lost
  <2> QED
    BY <2>5, <2>6, <2>7
<1>7. CASE UNCHANGED vars
  BY <1>7, SameIsNotLost DEF vars
<1> QED
  BY <1>1, <1>2, <1>3, <1>4, <1>5, <1>6, <1>7 DEF Next, Drain, Body

\* For every number of callers and every limit a drain is called with, a mark
\* is lost in one way only: its superseded entry is visited and deleted by key.
\* Marks during a write, refused writes, re-queues and clears lose none.
THEOREM MarksAreLostBySkipOnly == Spec => MarksStay
<1> DEFINE Stay == \A k \in Keys : ~ Lost(k) /\ Lost(k)' => LostBySkip(k)
<1>1. IInv /\ [Next]_vars => [Stay]_vars
  BY StepLosesNothing
<1>2. MarksStay <=> [][Stay]_vars
  BY DEF MarksStay
<1> QED
  BY <1>1, <1>2, SpecIInv, PTL DEF Spec

-----------------------------------------------------------------------------
(* What a step of the game does to the queue. *)

\* A step of the game is a step of the queue without its clear, a gated write,
\* a flush that drains again, or belongs to a reset.
LEMMA QueueStep ==
    ASSUME [GameNext]_allVars
    PROVE  \/ [KeepNext]_vars
           \/ \E c \in Callers : GatedWrite(c) \/ FlushAgain(c)
           \/ ResetWorld \/ ResetSteps
<1>1. CASE Captures
  <2>1. \E k \in Keys : MarkDirty(k)
    BY <1>1, EditKeysAssumption DEF Captures, CaptureChunkEdits, SaveSnapshot, Capture
  <2> QED
    BY <2>1 DEF KeepNext
<1>2. ASSUME NEW c \in Callers, Calls(c) PROVE [KeepNext]_vars
  <2>1. DrainReport(c)
    BY <1>2 DEF Calls, AutoTick, TickCall, PageHide, FlushCall
  <2> QED
    BY <2>1 DEF KeepNext, Drain
<1>3. ASSUME NEW c \in Callers, Drains(c) PROVE [KeepNext]_vars \/ GatedWrite(c)
  <2>1. Body(c) \/ GatedWrite(c) \/ WriteOk(c) \/ WriteFail(c)
    BY <1>3 DEF Drains, DrainStep, Body, SinkSettles, SinkAccepts, SinkRejects
  <2> QED
    BY <2>1 DEF KeepNext, Drain
<1>4. ASSUME NEW c \in Callers, Returns(c) PROVE [KeepNext]_vars \/ FlushAgain(c)
  <2>1. Return(c) \/ FlushAgain(c)
    BY <1>4 DEF Returns, CallReturns, TickReturn, FlushReturn, NextRound
  <2> QED
    BY <2>1 DEF KeepNext, Drain
<1>5. CASE Probes \/ RecoveryFires \/ ReadFails \/ FlushNothing \/ FlushSettles \/ FlushProbed
           \/ StorageFails \/ StorageRecovers \/ UNCHANGED allVars
  <2>1. UNCHANGED vars
    BY <1>5 DEF Probes, Probe, RecoveryFires, ReadFails, FlushNothing, FlushSettles, FlushProbed,
                StorageFails, StorageRecovers, allVars, autosaveVars
  <2> QED
    BY <2>1
<1>6. CASE FlushFacade \/ FlushDrained
  <2>1. Facade \in Callers /\ (DrainReport(Facade) \/ Return(Facade))
    BY <1>6, CallsAssumption DEF FlushFacade, FlushCall, FlushDrained, FlushReturn, Round
  <2> QED
    BY <2>1 DEF KeepNext, Drain
<1>7. CASE Dispose \/ Disposed
  <2>1. \/ UNCHANGED vars
        \/ Closer \in Callers /\ (DrainReport(Closer) \/ Return(Closer))
    BY <1>7, CallsAssumption DEF Dispose, Disposed, FlushReturn, Round
  <2> QED
    BY <2>1 DEF KeepNext, Drain
<1>8. CASE ResetWorld
  BY <1>8 DEF ResetWorld, Next
<1> QED
  BY <1>1, <1>2, <1>3, <1>4, <1>5, <1>6, <1>7 DEF GameNext, FlushSteps

\* A reset takes records out of the store and changes nothing of the queue.
Lowered ==
    /\ UNCHANGED <<queueVars, drainVars, discarded>>
    /\ durable' \in [Keys -> Nat]
    /\ \A k \in Keys : durable'[k] <= durable[k]

LEMMA LoweredKeeps == ASSUME IInv, Lowered PROVE IInv'
<1>1. /\ TypeOK /\ OrderIsPending /\ ChainOK /\ BatchOK /\ NewerThanStore /\ StoreMarked
  BY DEF IInv, QueueInv
<1>2. /\ UNCHANGED <<epochs, order, snap, tail, phase, batch, writing, written, report, discarded>>
      /\ durable' \in [Keys -> Nat] /\ durable \in [Keys -> Nat]
      /\ \A k \in Keys : durable'[k] <= durable[k]
  BY <1>1 DEF Lowered, queueVars, drainVars, TypeOK
<1>3. /\ epochs \in [Keys -> Nat] /\ snap \in [Keys -> Nat]
      /\ batch \in [Callers -> Seq(Entry)] /\ writing \in [Callers -> Entry \cup {None}]
  BY <1>1 DEF TypeOK
<1>4. TypeOK'
  BY <1>1, <1>2 DEF TypeOK
<1>5. OrderIsPending' /\ ChainOK'
  BY <1>1, <1>2 DEF OrderIsPending, ChainOK, Distinct, Occurs, Has, MayStart
<1>6. BatchOK'
  <2> SUFFICES ASSUME NEW c \in Callers
               PROVE  /\ \A i, j \in 1 .. Len(batch[c]) : batch[c][i].key = batch[c][j].key => i = j
                      /\ \A i \in 1 .. Len(batch[c]) :
                           /\ durable'[batch[c][i].key] < batch[c][i].epoch
                           /\ batch[c][i].epoch <= epochs[batch[c][i].key]
                           /\ writing[c] # None => writing[c].key # batch[c][i].key
                      /\ writing[c] # None => writing[c].epoch <= epochs[writing[c].key]
    BY <1>2 DEF BatchOK
  <2>1. ASSUME NEW i \in 1 .. Len(batch[c])
        PROVE  durable'[batch[c][i].key] < batch[c][i].epoch
    <3>1. batch[c][i] \in Entry
      BY <1>3
    <3>2. batch[c][i].key \in Keys /\ batch[c][i].epoch \in Nat
      BY <3>1 DEF Entry
    <3>3. durable[batch[c][i].key] < batch[c][i].epoch
      BY <1>1 DEF BatchOK
    <3>4. /\ durable'[batch[c][i].key] <= durable[batch[c][i].key]
          /\ durable'[batch[c][i].key] \in Nat /\ durable[batch[c][i].key] \in Nat
      BY <1>2, <3>2
    <3> QED
      BY <3>2, <3>3, <3>4
  <2> QED
    BY <1>1, <2>1 DEF BatchOK
<1>7. NewerThanStore'
  <2>1. ASSUME NEW k \in Keys, Has(k) PROVE durable'[k] < snap[k] /\ snap[k] <= epochs[k]
    <3>1. durable[k] < snap[k] /\ snap[k] <= epochs[k]
      BY <1>1, <2>1 DEF NewerThanStore
    <3>2. durable'[k] <= durable[k] /\ durable'[k] \in Nat /\ durable[k] \in Nat /\ snap[k] \in Nat
      BY <1>2, <1>3
    <3> QED
      BY <3>1, <3>2
  <2>2. ASSUME NEW c \in Callers, writing[c] # None
        PROVE  /\ durable'[writing[c].key] < writing[c].epoch
               /\ Has(writing[c].key) => writing[c].epoch < snap[writing[c].key]
    <3> DEFINE e == writing[c]
    <3>1. e.key \in Keys /\ e.epoch \in Nat
      <4>1. e \in Entry
        BY <1>3, <2>2
      <4> QED
        BY <4>1 DEF Entry
    <3>2. durable[e.key] < e.epoch /\ (Has(e.key) => e.epoch < snap[e.key])
      BY <1>1, <2>2 DEF NewerThanStore
    <3>3. durable'[e.key] <= durable[e.key] /\ durable'[e.key] \in Nat /\ durable[e.key] \in Nat
      BY <1>2, <3>1
    <3> HIDE DEF e
    <3>4. durable'[e.key] < e.epoch
      BY <3>1, <3>2, <3>3
    <3> QED
      BY <3>2, <3>4 DEF e
  <2>3. \A k \in Keys : Has(k)' <=> Has(k)
    BY <1>2 DEF Has
  <2>4. \A c \in Callers : writing[c] # None => (Has(writing[c].key)' <=> Has(writing[c].key))
    BY <1>2 DEF Has
  <2> QED
    BY <1>2, <2>1, <2>2, <2>3, <2>4 DEF NewerThanStore
<1>8. StoreMarked'
  <2> SUFFICES ASSUME NEW k \in Keys PROVE durable'[k] <= epochs[k]
    BY <1>2 DEF StoreMarked
  <2>1. durable'[k] <= durable[k] /\ durable[k] <= epochs[k]
        /\ durable'[k] \in Nat /\ durable[k] \in Nat /\ epochs[k] \in Nat
    BY <1>1, <1>2, <1>3 DEF StoreMarked
  <2> QED
    BY <2>1
<1> QED
  BY <1>4, <1>5, <1>6, <1>7, <1>8 DEF IInv, QueueInv

\* A gated write moves its unit to the end of the queue, pending again.
LEMMA GatedKeeps == ASSUME IInv, NEW c \in Callers, GatedWrite(c) PROVE IInv'
<1> DEFINE e == Head(batch[c])
<1>1. /\ TypeOK /\ OrderIsPending /\ ChainOK /\ BatchOK /\ NewerThanStore /\ StoreMarked
  BY DEF IInv, QueueInv
<1>2. /\ Visiting(c) /\ epochs[e.key] = e.epoch
      /\ order' = Set(Delete(order, e.key), e.key)
      /\ snap' = [snap EXCEPT ![e.key] = e.epoch]
      /\ batch' = [batch EXCEPT ![c] = Tail(@)]
      /\ UNCHANGED <<epochs, tail, phase, writing, written, report, durable, discarded>>
  BY DEF GatedWrite, Superseded
<1>3. /\ epochs \in [Keys -> Nat] /\ snap \in [Keys -> Nat] /\ durable \in [Keys -> Nat]
      /\ order \in Seq(Keys) /\ batch \in [Callers -> Seq(Entry)]
  BY <1>1 DEF TypeOK
<1> DEFINE b == batch[c]
<1>4. b \in Seq(Entry) /\ b # <<>> /\ phase[c] = "running" /\ writing[c] = None
  BY <1>2, <1>3 DEF Visiting
<1>5. /\ e \in Entry /\ e = b[1] /\ Tail(b) \in Seq(Entry)
      /\ Len(Tail(b)) = Len(b) - 1 /\ Len(b) \in Nat /\ Len(b) >= 1
      /\ \A j \in 1 .. Len(b) - 1 : Tail(b)[j] = b[j + 1]
  BY <1>4, TailFacts
<1>6. e.key \in Keys /\ e.epoch \in Nat
  BY <1>5 DEF Entry
<1>7. durable[e.key] < e.epoch /\ e.epoch <= epochs[e.key]
  <2>1. 1 \in 1 .. Len(b)
    BY <1>5
  <2> QED
    BY <1>1, <1>5, <2>1 DEF BatchOK
<1>8. \A d \in Callers : writing[d] = None /\ (d # c => batch[d] = <<>>)
  BY <1>1, <1>4 DEF ChainOK, MayStart
<1>9. e.epoch \in Nat \ {0}
  <2>1. durable[e.key] \in Nat
    BY <1>3, <1>6
  <2> HIDE DEF e
  <2> QED
    BY <1>6, <1>7, <2>1
<1> HIDE DEF e
<1>10. batch' \in [Callers -> Seq(Entry)] /\ snap' \in [Keys -> Nat]
  BY <1>2, <1>3, <1>5, <1>6 DEF b
<1>11. /\ order' \in Seq(Keys) /\ Distinct(order')
       /\ \A x : Occurs(order', x) <=> x = e.key \/ Occurs(order, x)
  <2> DEFINE r == Delete(order, e.key)
  <2>1. Distinct(order)
    BY <1>1 DEF OrderIsPending
  <2>2. r \in Seq(Keys) /\ Distinct(r) /\ \A x : Occurs(r, x) <=> x # e.key /\ Occurs(order, x)
    BY <1>3, <2>1, DeleteFacts
  <2> HIDE DEF r
  <2>3. /\ Set(r, e.key) \in Seq(Keys) /\ Distinct(Set(r, e.key))
        /\ \A x : Occurs(Set(r, e.key), x) <=> x = e.key \/ Occurs(r, x)
    BY <1>6, <2>2, SetFacts, Zenon
  <2>4. order' = Set(r, e.key)
    BY <1>2 DEF r
  <2> QED
    BY <2>2, <2>3, <2>4
<1>12. TypeOK'
  BY <1>1, <1>2, <1>10, <1>11 DEF TypeOK
<1>13. \A k \in Keys : snap'[k] = IF k = e.key THEN e.epoch ELSE snap[k]
  BY <1>2, <1>3
<1>14. OrderIsPending'
  <2>1. \A k \in Keys : Has(k)' <=> k = e.key \/ Has(k)
    BY <1>9, <1>13 DEF Has
  <2>2. \A k \in Keys : Occurs(order, k) <=> Has(k)
    BY <1>1 DEF OrderIsPending
  <2>3. \A k \in Keys : Has(k)' <=> Occurs(order', k)
    BY <1>11, <2>1, <2>2
  <2>4. \A k \in Keys : Occurs(order, k)' <=> Occurs(order', k)
    BY DEF Occurs
  <2> QED
    BY <1>11, <2>3, <2>4 DEF OrderIsPending, Distinct
<1>15. ChainOK'
  <2>1. \A d \in Callers : batch'[d] = <<>> \/ d = c
    BY <1>2, <1>3, <1>8
  <2> QED
    BY <1>1, <1>2, <1>4, <2>1 DEF ChainOK, Distinct, Occurs, MayStart
<1>16. BatchOK'
  <2>1. \A d \in Callers : batch'[d] = IF d = c THEN Tail(b) ELSE <<>>
    BY <1>2, <1>3, <1>8 DEF b
  <2>2. /\ \A i, j \in 1 .. Len(b) : b[i].key = b[j].key => i = j
        /\ \A i \in 1 .. Len(b) : durable[b[i].key] < b[i].epoch /\ b[i].epoch <= epochs[b[i].key]
    BY <1>1 DEF BatchOK, b
  <2> DEFINE u == Tail(b)
  <2> HIDE DEF b
  <2>3. \A i \in 1 .. Len(u) : i + 1 \in 1 .. Len(b) /\ u[i] = b[i + 1]
    BY <1>5
  <2>4. ASSUME NEW i \in 1 .. Len(u), NEW j \in 1 .. Len(u), u[i].key = u[j].key
        PROVE  i = j
    <3>1. i + 1 = j + 1
      BY <2>2, <2>3, <2>4
    <3> QED
      BY <3>1, <1>5
  <2>5. \A i \in 1 .. Len(u) : durable[u[i].key] < u[i].epoch /\ u[i].epoch <= epochs[u[i].key]
    BY <2>2, <2>3
  <2> HIDE DEF u
  <2>6. ASSUME NEW d \in Callers
        PROVE  /\ \A i, j \in 1 .. Len(batch'[d]) : batch'[d][i].key = batch'[d][j].key => i = j
               /\ \A i \in 1 .. Len(batch'[d]) :
                    /\ durable[batch'[d][i].key] < batch'[d][i].epoch
                    /\ batch'[d][i].epoch <= epochs[batch'[d][i].key]
    <3>1. CASE d = c
      <4>1. batch'[d] = u
        BY <2>1, <3>1 DEF u
      <4> QED
        BY <2>4, <2>5, <4>1
    <3>2. CASE d # c
      <4>1. batch'[d] = <<>>
        BY <2>1, <3>2
      <4> QED
        BY <4>1
    <3> QED
      BY <3>1, <3>2
  <2> QED
    BY <1>2, <1>8, <2>6 DEF BatchOK
<1>17. NewerThanStore'
  <2>1. ASSUME NEW k \in Keys, snap'[k] # 0
        PROVE  durable[k] < snap'[k] /\ snap'[k] <= epochs[k]
    <3>1. CASE k = e.key
      BY <1>7, <1>13, <3>1
    <3>2. CASE k # e.key
      BY <1>1, <1>13, <2>1, <3>2 DEF NewerThanStore, Has
    <3> QED
      BY <3>1, <3>2
  <2> QED
    BY <1>2, <1>8, <2>1 DEF NewerThanStore, Has
<1>18. StoreMarked'
  BY <1>1, <1>2 DEF StoreMarked
<1> QED
  BY <1>12, <1>14, <1>15, <1>16, <1>17, <1>18 DEF IInv, QueueInv

\* A flush that drains again joins the promise chain like a new call.
LEMMA FlushAgainKeeps == ASSUME IInv, NEW c \in Callers, FlushAgain(c) PROVE IInv'
<1>1. /\ TypeOK /\ OrderIsPending /\ ChainOK /\ BatchOK /\ NewerThanStore /\ StoreMarked
  BY DEF IInv, QueueInv
<1>2. /\ phase[c] = "settled"
      /\ phase' = [phase EXCEPT ![c] = "waiting"] /\ tail' = Append(tail, c)
      /\ UNCHANGED <<epochs, order, snap, batch, writing, written, report, durable, discarded>>
  BY DEF FlushAgain, Round, queueVars
<1>t. /\ tail \in Seq(Callers) /\ phase \in [Callers -> Phase]
  BY <1>1 DEF TypeOK
<1>3. TypeOK'
  <2>1. tail' \in Seq(Callers) /\ phase' \in [Callers -> Phase]
    BY <1>2, <1>t DEF Phase
  <2> QED
    BY <1>1, <1>2, <2>1 DEF TypeOK
<1>4. OrderIsPending' /\ BatchOK' /\ NewerThanStore' /\ StoreMarked'
  BY <1>1, <1>2 DEF OrderIsPending, Distinct, Occurs, Has, BatchOK, NewerThanStore, StoreMarked
<1>5. ChainOK'
  <2> USE DEF ChainOK, Distinct, Occurs, MayStart
  <2>1. /\ tail' = Append(tail, c) /\ Len(tail') = Len(tail) + 1
        /\ tail'[Len(tail) + 1] = c /\ Len(tail) \in Nat
        /\ \A i \in 1 .. Len(tail) : tail'[i] = tail[i]
    BY <1>2, <1>t
  <2>2. \A i \in 1 .. Len(tail) : tail[i] # c
    BY <1>1, <1>2
  <2>3. Distinct(tail)'
    BY <1>1, <2>1, <2>2
  <2>4. \A d \in Callers :
          (\E i \in 1 .. Len(tail') : tail'[i] = d)
          <=> d = c \/ \E i \in 1 .. Len(tail) : tail[i] = d
    BY <2>1
  <2>5. tail # <<>> => tail' # <<>> /\ Head(tail') = Head(tail)
    BY <1>t, <2>1, AppendFacts
  <2>6. \A d \in Callers : /\ phase'[d] = IF d = c THEN "waiting" ELSE phase[d]
                           /\ writing'[d] = writing[d] /\ batch'[d] = batch[d]
    BY <1>2, <1>t
  <2>7. ASSUME NEW d \in Callers, d = c
        PROVE  /\ phase'[d] \in {"waiting", "running"} /\ phase'[d] # "running"
               /\ \E i \in 1 .. Len(tail') : tail'[i] = d
               /\ writing'[d] = None /\ batch'[d] = <<>>
    <3>1. writing[d] = None /\ batch[d] = <<>>
      BY <1>1, <1>2, <2>7
    <3> QED
      BY <2>4, <2>6, <2>7, <3>1
  <2>8. ASSUME NEW d \in Callers, d # c
        PROVE  /\ phase'[d] \in {"waiting", "running"}
                  <=> \E i \in 1 .. Len(tail') : tail'[i] = d
               /\ phase'[d] = "running" => tail' # <<>> /\ Head(tail') = d
               /\ phase'[d] # "running" => writing'[d] = None /\ batch'[d] = <<>>
    <3>1. phase'[d] = phase[d] /\ writing'[d] = writing[d] /\ batch'[d] = batch[d]
      BY <2>6, <2>8
    <3>2. (\E i \in 1 .. Len(tail') : tail'[i] = d) <=> \E i \in 1 .. Len(tail) : tail[i] = d
      BY <2>4, <2>8
    <3> QED
      BY <1>1, <2>5, <3>1, <3>2
  <2> QED
    BY <2>3, <2>7, <2>8
<1> QED
  BY <1>3, <1>4, <1>5 DEF IInv, QueueInv

-----------------------------------------------------------------------------
(* The queue of the running game. *)

\* The store only moves forward under the queue.
LEMMA DurableGrows ==
    ASSUME IInv, [Next]_vars
    PROVE  \A k \in Keys : durable'[k] >= durable[k]
<1>1. durable \in [Keys -> Nat]
  BY DEF IInv, TypeOK
<1>2. CASE UNCHANGED <<epochs, durable>>
  BY <1>1, <1>2
<1>3. CASE \E k \in Keys : MarkDirty(k)
  BY <1>1, <1>3 DEF MarkDirty
<1>4. CASE \E c \in Callers : WriteOk(c)
  <2>1. PICK k \in Keys : \E n \in durable[k] + 1 .. epochs[k] :
                            durable' = [durable EXCEPT ![k] = n]
    BY <1>4, WriteAdvances
  <2>2. PICK n \in durable[k] + 1 .. epochs[k] : durable' = [durable EXCEPT ![k] = n]
    BY <2>1
  <2>3. durable[k] \in Nat /\ n > durable[k]
    BY <1>1, <2>2
  <2>4. \A x \in Keys : durable'[x] = IF x = k THEN n ELSE durable[x]
    BY <1>1, <2>2
  <2> QED
    BY <1>1, <2>3, <2>4
<1> QED
  BY <1>2, <1>3, <1>4, StoreSteps

\* Only the reset changes the records it has read.
LEMMA ResetFrame ==
    ASSUME [GameNext]_allVars
    PROVE  ResetWorld \/ ResetSteps \/ UNCHANGED <<reset, saved>>
<1> USE DEF resetVars
<1>1. CASE Captures
  BY <1>1 DEF Captures, CaptureChunkEdits, SaveSnapshot
<1>2. ASSUME NEW c \in Callers, Calls(c) \/ Drains(c) \/ Returns(c)
      PROVE  UNCHANGED <<reset, saved>>
  BY <1>2 DEF Calls, AutoTick, PageHide, Drains, DrainStep, GatedWrite, SinkSettles,
              SinkAccepts, SinkRejects, Unmoved, Returns, CallReturns, NextRound
<1>3. CASE Probes \/ RecoveryFires \/ ReadFails \/ FlushNothing \/ FlushFacade \/ FlushSteps
  BY <1>3 DEF Probes, Probe, RecoveryFires, ReadFails, FlushNothing, FlushFacade, FlushSteps,
              FlushDrained, FlushSettles, FlushProbed
<1>4. CASE Dispose \/ Disposed \/ StorageFails \/ StorageRecovers \/ UNCHANGED allVars
  BY <1>4 DEF Dispose, Disposed, StorageFails, StorageRecovers, allVars
<1> QED
  BY <1>1, <1>2, <1>3, <1>4 DEF GameNext

\* What a reset that is under way has read is still in the store.
SavedInv ==
    /\ saved \in [Keys -> Nat]
    /\ reset \in {"reading", "deleting", "restoring", "failed"} =>
         \A k \in Keys : durable[k] >= saved[k]

\* A step of the reset lowers the store at most, and never below what it read.
LEMMA ResetStepFacts ==
    ASSUME IInv, SavedInv, ResetSteps
    PROVE  Lowered /\ SavedInv'
<1>1. durable \in [Keys -> Nat] /\ saved \in [Keys -> Nat]
  BY DEF IInv, TypeOK, SavedInv
<1>2. UNCHANGED <<queueVars, drainVars, discarded>>
  BY DEF ResetSteps, ResetStep, ReadSnapshot, DeleteRecords, TransactionAborts, RestoreRecords
<1>3. CASE ReadSnapshot
  <2>1. /\ durable' = durable
        /\ saved' = durable \/ (reset = "reading" /\ saved' = saved)
    BY <1>3 DEF ReadSnapshot
  <2> QED
    BY <1>1, <1>2, <2>1 DEF Lowered, SavedInv
<1>4. CASE DeleteRecords
  <2>1. durable' = Erase(durable) /\ reset' = "completed" /\ saved' = saved
    BY <1>4 DEF DeleteRecords
  <2>2. /\ durable' \in [Keys -> Nat]
        /\ \A k \in Keys : durable'[k] <= durable[k]
    BY <1>1, <2>1 DEF Erase
  <2> QED
    BY <1>1, <1>2, <2>1, <2>2 DEF Lowered, SavedInv
<1>5. CASE TransactionAborts
  <2>1. durable' = durable /\ reset = "deleting" /\ saved' = saved
    BY <1>5 DEF TransactionAborts, Aborted
  <2> QED
    BY <1>1, <1>2, <2>1 DEF Lowered, SavedInv
<1>6. CASE RestoreRecords
  <2>1. /\ reset = "restoring" /\ saved' = saved
        /\ \/ durable' = durable
           \/ durable' = [k \in Keys |-> IF saved[k] # 0 THEN saved[k] ELSE durable[k]]
    BY <1>6 DEF RestoreRecords
  <2>2. \A k \in Keys : durable[k] >= saved[k] /\ durable[k] \in Nat /\ saved[k] \in Nat
    BY <1>1, <2>1 DEF SavedInv
  <2>3. /\ durable' \in [Keys -> Nat]
        /\ \A k \in Keys : durable'[k] <= durable[k] /\ durable'[k] >= saved[k]
    BY <1>1, <2>1, <2>2
  <2> QED
    BY <1>1, <1>2, <2>1, <2>3 DEF Lowered, SavedInv
<1> QED
  BY <1>3, <1>4, <1>5, <1>6 DEF ResetSteps

StoreInv == IInv /\ SavedInv

LEMMA NextStoreInv == StoreInv /\ [GameNext]_allVars => StoreInv'
<1> SUFFICES ASSUME IInv, SavedInv, [GameNext]_allVars PROVE IInv' /\ SavedInv'
  BY DEF StoreInv
<1>1. CASE ResetSteps
  BY <1>1, ResetStepFacts, LoweredKeeps
<1>2. CASE ResetWorld
  <2>1. /\ [Next]_vars
        /\ saved' = [k \in Keys |-> 0] /\ durable' = durable
    BY <1>2 DEF ResetWorld, Next, Clear
  <2>2. IInv'
    BY <2>1, NextIInv
  <2> QED
    BY <2>1, <2>2 DEF SavedInv, IInv, TypeOK
<1>3. CASE UNCHANGED <<reset, saved>> /\ ~ ResetSteps /\ ~ ResetWorld
  <2>1. CASE [Next]_vars
    <3>1. IInv'
      BY <2>1, NextIInv
    <3>2. \A k \in Keys : durable'[k] >= durable[k]
      BY <2>1, DurableGrows
    <3>3. \A k \in Keys : durable[k] \in Nat /\ durable'[k] \in Nat
      BY <3>1 DEF IInv, TypeOK
    <3> QED
      BY <1>3, <3>1, <3>2, <3>3 DEF SavedInv
  <2>2. ASSUME NEW c \in Callers, GatedWrite(c) \/ FlushAgain(c) PROVE IInv' /\ SavedInv'
    <3>1. IInv'
      BY <2>2, GatedKeeps, FlushAgainKeeps
    <3>2. durable' = durable
      BY <2>2 DEF GatedWrite, FlushAgain
    <3> QED
      BY <1>3, <3>1, <3>2 DEF SavedInv
  <2>3. [KeepNext]_vars => [Next]_vars
    BY DEF KeepNext, Next
  <2> QED
    BY <1>3, <2>1, <2>2, <2>3, QueueStep
<1> QED
  BY <1>1, <1>2, <1>3, ResetFrame

LEMMA GameStoreInv == GameSpec => []StoreInv
<1>1. GameInit => StoreInv
  <2> SUFFICES ASSUME GameInit PROVE StoreInv
    OBVIOUS
  <2>1. Init /\ reset = "none" /\ saved = [k \in Keys |-> 0]
    BY DEF GameInit
  <2> QED
    BY <2>1, InitTypeOK, InitQueueInv DEF StoreInv, IInv, SavedInv
<1> QED
  BY <1>1, NextStoreInv, PTL DEF GameSpec

\* Under the health gate, the flushes that drain again and the resets that
\* take records out of the store, one write is in flight at a time.
THEOREM GameMutex == GameSpec => []SingleFlight
<1>1. StoreInv => SingleFlight
  BY DEF StoreInv, IInv, QueueInv, ChainOK, MayStart, SingleFlight
<1> QED
  BY <1>1, GameStoreInv, PTL

\* The last accepted write of a key is never a superseded payload: what waits
\* or is being written is newer than the store, gated, reset or not.
THEOREM GameNewer == GameSpec => []NewerThanStore
<1>1. StoreInv => NewerThanStore
  BY DEF StoreInv, IInv, QueueInv
<1> QED
  BY <1>1, GameStoreInv, PTL

\* A reset that fails, whether its read fails or its transaction aborts and
\* the restore works or not, leaves every record it had read or a newer one.
THEOREM FailedResetsKeep == GameSpec => []FailedResetKeeps
<1>1. StoreInv => FailedResetKeeps
  BY DEF StoreInv, SavedInv, FailedResetKeeps
<1> QED
  BY <1>1, GameStoreInv, PTL

-----------------------------------------------------------------------------
(* The recovery probe. *)

\* From the first failed check until the storage is healthy again, a session
\* that is open and not reset has its recovery interval registered.
THEOREM RecoveryStaysArmed == GameSpec => []RecoveryArmed
<1>1. GameInit => RecoveryArmed
  BY DEF GameInit, Health!HealthInit, RecoveryArmed
<1>2. RecoveryArmed /\ [GameNext]_allVars => RecoveryArmed'
  <2> SUFFICES ASSUME RecoveryArmed, [GameNext]_allVars PROVE RecoveryArmed'
    OBVIOUS
  <2> USE DEF RecoveryArmed
  <2>u. CASE UNCHANGED <<status, recovering, lifecycle, reset>>
    BY <2>u
  <2>1. CASE Captures
    BY <2>1, <2>u DEF Captures, CaptureChunkEdits, SaveSnapshot, monitorVars, resetVars
  <2>2. ASSUME NEW c \in Callers, Calls(c) \/ Drains(c) \/ Returns(c)
        PROVE  UNCHANGED <<status, recovering, lifecycle, reset>>
    BY <2>2 DEF Calls, AutoTick, PageHide, Drains, DrainStep, GatedWrite, SinkSettles,
                SinkAccepts, SinkRejects, Unmoved, Returns, CallReturns, NextRound,
                monitorVars, resetVars
  <2>3. CASE Probes
    <3>1. PICK s \in Sources : Probe(s)
      BY <2>3 DEF Probes
    <3>2. RecoveryTimer /\ UNCHANGED <<lifecycle, reset>>
      BY <3>1 DEF Probe, resetVars
    <3>3. CASE status' = status
      BY <3>2, <3>3, Zenon DEF RecoveryTimer
    <3>4. CASE status' # status
      <4>1. recovering' = (status' # "ok" /\ (recovering \/ lifecycle = "open"))
        BY <3>2, <3>4 DEF RecoveryTimer
      <4>2. lifecycle' = lifecycle
        BY <3>2
      <4> QED
        BY <4>1, <4>2, Zenon
    <3> QED
      BY <3>3, <3>4
  <2>4. CASE RecoveryFires \/ ReadFails \/ FlushNothing \/ FlushFacade \/ FlushSteps
    BY <2>4, <2>u DEF RecoveryFires, ReadFails, FlushNothing, FlushFacade, FlushSteps,
                FlushDrained, FlushSettles, FlushProbed, monitorVars, resetVars
  <2>5. CASE Dispose
    <3>1. lifecycle' # "open"
      BY <2>5 DEF Dispose
    <3> QED
      BY <3>1
  <2>6. CASE Disposed
    <3>1. lifecycle' # "open"
      BY <2>6 DEF Disposed
    <3> QED
      BY <3>1
  <2>7. CASE ResetWorld
    <3>1. reset' # "none"
      BY <2>7 DEF ResetWorld
    <3> QED
      BY <3>1
  <2>8. CASE ResetSteps
    <3>1. reset' # "none"
      BY <2>8 DEF ResetSteps, ReadSnapshot, DeleteRecords, TransactionAborts, RestoreRecords
    <3> QED
      BY <3>1
  <2>9. CASE StorageFails \/ StorageRecovers \/ UNCHANGED allVars
    BY <2>9, <2>u DEF StorageFails, StorageRecovers, allVars, monitorVars, resetVars
  <2> QED
    BY <2>u, <2>1, <2>2, <2>3, <2>4, <2>5, <2>6, <2>7, <2>8, <2>9 DEF GameNext
<1> QED
  BY <1>1, <1>2, PTL DEF GameSpec

-----------------------------------------------------------------------------
(* Where a mark can be lost in the whole facade. *)

LEMMA GameStepLosesNothing ==
    ASSUME IInv, [GameNext]_allVars, NEW k \in Keys, ~ Lost(k), ~ LostBySkip(k),
           ~ DeleteRecords, ~ RestoreRecords
    PROVE  ~ Lost(k)'
<1>1. CASE [Next]_vars
  BY <1>1, StepLosesNothing
<1>2. ASSUME NEW c \in Callers, GatedWrite(c) PROVE ~ Lost(k)'
  <2> DEFINE e == Head(batch[c])
  <2>1. /\ epochs[e.key] = e.epoch /\ snap' = [snap EXCEPT ![e.key] = e.epoch]
        /\ UNCHANGED <<epochs, writing, durable, discarded>>
    BY <1>2 DEF GatedWrite, Superseded
  <2>2. snap \in [Keys -> Nat]
    BY DEF IInv, TypeOK
  <2> HIDE DEF e
  <2>3. CASE e.key = k
    <3>1. snap'[k] = epochs'[k]
      BY <2>1, <2>2, <2>3
    <3> QED
      BY <3>1 DEF Lost, Held
  <2>4. CASE e.key # k
    <3>1. snap'[k] = snap[k]
      BY <2>1, <2>2, <2>4
    <3> QED
      BY <2>1, <3>1, SameIsNotLost
  <2> QED
    BY <2>3, <2>4
<1>3. ASSUME NEW c \in Callers, FlushAgain(c) PROVE ~ Lost(k)'
  <2>1. UNCHANGED <<epochs, snap, writing, durable, discarded>>
    BY <1>3 DEF FlushAgain, queueVars
  <2> QED
    BY <2>1, SameIsNotLost
<1>4. CASE ResetWorld
  <2>1. [Next]_vars
    BY <1>4 DEF ResetWorld, Next
  <2> QED
    BY <1>1, <2>1
<1>5. CASE ResetSteps
  <2>1. ReadSnapshot \/ TransactionAborts
    BY <1>5 DEF ResetSteps
  <2>2. UNCHANGED <<epochs, snap, writing, durable, discarded>>
    BY <2>1 DEF ReadSnapshot, TransactionAborts, Aborted, ResetStep, queueVars, drainVars
  <2> QED
    BY <2>2, SameIsNotLost
<1>6. [KeepNext]_vars => [Next]_vars
  BY DEF KeepNext, Next
<1> QED
  BY <1>1, <1>2, <1>3, <1>4, <1>5, <1>6, QueueStep

\* The gate, refused writes, outages, flushes that drain again and any number
\* of callers lose no mark: only the skip of a superseded entry does, and a
\* reset whose delete or restore takes the stored payload away.
THEOREM GameMarksAreLostBySkipOnly == GameSpec => GameMarksStay
<1> DEFINE Stay == \A k \in Keys :
              ~ Lost(k) /\ Lost(k)' => LostBySkip(k) \/ DeleteRecords \/ RestoreRecords
<1>1. StoreInv /\ [GameNext]_allVars => [Stay]_allVars
  BY GameStepLosesNothing DEF StoreInv
<1>2. GameMarksStay <=> [][Stay]_allVars
  BY DEF GameMarksStay
<1> QED
  BY <1>1, <1>2, GameStoreInv, PTL DEF GameSpec

-----------------------------------------------------------------------------
(* The overlay of pending edits. *)

\* The overlay holds marks, and before a reset no clear() has dropped any.
CopiesInv ==
    /\ overlay \in [EditKeys -> Nat]
    /\ reset = "none" => \A k \in Keys : discarded[k] = 0

\* What a step that is no capture, no report and no part of a reset does.
Aside ==
    /\ UNCHANGED <<overlay, reset, epochs, discarded>>
    /\ \A k \in Keys : durable'[k] >= durable[k]

LEMMA CopySteps ==
    ASSUME IInv, IInv', [GameNext]_allVars
    PROVE  Captures \/ Reported \/ ResetWorld \/ ResetSteps \/ Aside
<1>t. durable \in [Keys -> Nat]
  BY DEF IInv, TypeOK
<1>u. ASSUME UNCHANGED <<overlay, reset, epochs, discarded, durable>> PROVE Aside
  BY <1>t, <1>u DEF Aside
<1>1. ASSUME NEW c \in Callers, Calls(c) PROVE Aside
  BY <1>u, <1>1 DEF Calls, AutoTick, PageHide, TickCall, FlushCall, DrainReport, queueVars, resetVars
<1>2. ASSUME NEW c \in Callers, Drains(c) PROVE Aside
  <2>1. UNCHANGED <<overlay, reset, epochs, discarded>>
    BY <1>2 DEF Drains, DrainStep, GatedWrite, SinkSettles, SinkAccepts, SinkRejects,
                StartDrain, SkipSuperseded, StartWrite, EndDrain, WriteOk, WriteFail,
                Unmoved, queueVars, resetVars
  <2>2. UNCHANGED durable \/ WriteOk(c)
    BY <1>2 DEF Drains, DrainStep, GatedWrite, SinkSettles, SinkAccepts, SinkRejects,
                StartDrain, SkipSuperseded, StartWrite, EndDrain, WriteFail
  <2>3. ASSUME WriteOk(c) PROVE \A k \in Keys : durable'[k] >= durable[k]
    <3>1. [Next]_vars
      BY <2>3 DEF Next, Drain
    <3> QED
      BY <3>1, DurableGrows
  <2> QED
    BY <1>u, <2>1, <2>2, <2>3 DEF Aside
<1>3. ASSUME NEW c \in Callers, Returns(c) PROVE Reported
  BY <1>3 DEF Returns, Reported
<1>4. CASE FlushFacade \/ Dispose
  BY <1>u, <1>4 DEF FlushFacade, FlushCall, Dispose, DrainReport, queueVars, resetVars, vars
<1>5. CASE FlushNothing \/ FlushDrained \/ Disposed
  BY <1>5 DEF Reported
<1>6. CASE \/ Probes \/ RecoveryFires \/ ReadFails \/ FlushSettles \/ FlushProbed
           \/ StorageFails \/ StorageRecovers \/ UNCHANGED allVars
  <2>1. UNCHANGED <<overlay, reset, vars>>
    BY <1>6 DEF Probes, Probe, RecoveryFires, ReadFails, FlushSettles, FlushProbed,
                StorageFails, StorageRecovers, allVars, autosaveVars, resetVars
  <2> QED
    BY <1>u, <2>1 DEF vars
<1> QED
  BY <1>1, <1>2, <1>3, <1>4, <1>5, <1>6 DEF GameNext, FlushSteps

\* A report keeps a copy, or drops it when its unit has left the queue.
LEMMA ReportDrops ==
    ASSUME Reported, CopiesInv
    PROVE  /\ UNCHANGED <<reset, epochs, snap, durable, discarded>>
           /\ overlay' \in [EditKeys -> Nat]
           /\ \A k \in EditKeys : overlay'[k] = overlay[k] \/ ~ Has(k)
<1>1. CASE \E c \in Callers : CallReturns(c) \/ NextRound(c)
  <2>1. PICK c \in Callers : CallReturns(c) \/ NextRound(c)
    BY <1>1
  <2>2. overlay' = Release(Committed(c)) /\ UNCHANGED <<reset, epochs, snap, durable, discarded>>
    BY <2>1 DEF CallReturns, NextRound, TickReturn, FlushReturn, FlushAgain, Return,
                queueVars, resetVars
  <2> QED
    BY <2>2 DEF Release, CopiesInv
<1>2. CASE Disposed
  <2>1. /\ overlay' = Release(Committed(Closer))
        /\ UNCHANGED <<reset, epochs, snap, durable, discarded>>
    BY <1>2 DEF Disposed, FlushReturn, Return, queueVars, resetVars
  <2> QED
    BY <2>1 DEF Release, CopiesInv
<1>3. CASE FlushNothing \/ FlushDrained
  <2>1. overlay' = Prune /\ UNCHANGED <<reset, epochs, snap, durable, discarded>>
    BY <1>3 DEF FlushNothing, FlushDrained, Report, FlushReturn, Return,
                autosaveVars, vars, queueVars, resetVars
  <2> QED
    BY <2>1 DEF Prune, CopiesInv
<1> QED
  BY <1>1, <1>2, <1>3 DEF Reported

LEMMA CopiesKept == IInv /\ IInv' /\ CopiesInv /\ [GameNext]_allVars => CopiesInv'
<1> SUFFICES ASSUME IInv, IInv', CopiesInv, [GameNext]_allVars PROVE CopiesInv'
  OBVIOUS
<1>1. ASSUME NEW k \in EditKeys, CaptureChunkEdits(k) PROVE CopiesInv'
  <2>1. /\ overlay' = [overlay EXCEPT ![k] = epochs'[k]]
        /\ UNCHANGED <<reset, discarded>>
    BY <1>1 DEF CaptureChunkEdits, Capture, MarkDirty, resetVars
  <2>2. epochs'[k] \in Nat
    BY EditKeysAssumption DEF IInv, TypeOK
  <2> QED
    BY <2>1, <2>2 DEF CopiesInv
<1>2. ASSUME NEW k \in Keys \ EditKeys, SaveSnapshot(k) PROVE CopiesInv'
  BY <1>2 DEF SaveSnapshot, Capture, MarkDirty, resetVars, CopiesInv
<1>3. CASE Reported
  BY <1>3, ReportDrops DEF CopiesInv
<1>4. CASE ResetWorld
  BY <1>4 DEF ResetWorld, CopiesInv
<1>5. CASE ResetSteps
  BY <1>5 DEF ResetSteps, ResetStep, ReadSnapshot, DeleteRecords, TransactionAborts,
              RestoreRecords, CopiesInv
<1>6. CASE Aside
  BY <1>6 DEF Aside, CopiesInv
<1> QED
  BY <1>1, <1>2, <1>3, <1>4, <1>5, <1>6, CopySteps DEF Captures

\* With any number of ticks, pagehides, flushes of the facade and dispose at
\* once: an unsaved edit stays readable through its copy, unless a call
\* reports while the write of that edit is in flight, or after it was lost.
THEOREM CopiesGoByReportOnly == GameSpec => CopiesStay
<1> DEFINE Early(k) == Reported /\ ((Held(k) /\ ~ Has(k)) \/ Lost(k))
           Stay == \A k \in EditKeys :
                     reset' = "none" /\ Covered(k) /\ ~ Covered(k)' => Early(k)
<1>1. GameInit => CopiesInv
  BY EditKeysAssumption DEF GameInit, Init, CopiesInv
<1>2. StoreInv /\ StoreInv' /\ CopiesInv /\ [GameNext]_allVars => CopiesInv'
  BY CopiesKept DEF StoreInv
<1>3. StoreInv /\ StoreInv' /\ CopiesInv /\ [GameNext]_allVars => [Stay]_allVars
  <2> SUFFICES ASSUME IInv, IInv', CopiesInv, [GameNext]_allVars,
                      NEW k \in EditKeys, reset' = "none", Covered(k), ~ Covered(k)'
               PROVE  Early(k)
    BY DEF StoreInv
  <2>t. /\ k \in Keys /\ epochs \in [Keys -> Nat] /\ overlay \in [EditKeys -> Nat]
        /\ epochs[k] \in Nat /\ durable[k] \in Nat /\ durable'[k] \in Nat
    BY EditKeysAssumption DEF IInv, TypeOK, CopiesInv
  <2>1. ASSUME NEW j \in EditKeys, CaptureChunkEdits(j) PROVE Covered(k)'
    <3>1. /\ epochs' = [epochs EXCEPT ![j] = @ + 1] /\ durable' = durable
          /\ overlay' = [overlay EXCEPT ![j] = epochs'[j]]
      BY <2>1 DEF CaptureChunkEdits, Capture, MarkDirty
    <3>2. k = j => overlay'[k] = epochs'[k]
      BY <2>t, <3>1
    <3>3. k # j => overlay'[k] = overlay[k] /\ epochs'[k] = epochs[k]
      BY <2>t, <3>1
    <3> QED
      BY <3>1, <3>2, <3>3 DEF Covered
  <2>2. ASSUME NEW j \in Keys \ EditKeys, SaveSnapshot(j) PROVE Covered(k)'
    <3>1. /\ epochs' = [epochs EXCEPT ![j] = @ + 1] /\ durable' = durable /\ overlay' = overlay
      BY <2>2 DEF SaveSnapshot, Capture, MarkDirty
    <3>2. epochs'[k] = epochs[k]
      BY <2>t, <3>1
    <3> QED
      BY <3>1, <3>2 DEF Covered
  <2>3. ~ ResetWorld /\ ~ ResetSteps
    BY DEF ResetWorld, ResetSteps, ReadSnapshot, DeleteRecords, TransactionAborts, RestoreRecords
  <2>4. ASSUME Aside PROVE Covered(k)'
    BY <2>t, <2>4 DEF Aside, Covered
  <2>5. ASSUME Reported PROVE Early(k)
    <3>1. /\ UNCHANGED <<reset, epochs, snap, durable, discarded>>
          /\ overlay'[k] = overlay[k] \/ ~ Has(k)
      BY <2>5, ReportDrops
    <3>2. durable[k] < epochs[k] /\ ~ Has(k)
      BY <3>1 DEF Covered
    <3>3. discarded[k] < epochs[k]
      BY <2>t, <3>1, <3>2 DEF CopiesInv
    <3> QED
      BY <2>5, <3>2, <3>3 DEF Lost
  <2> QED
    BY <2>1, <2>2, <2>3, <2>4, <2>5, CopySteps DEF Captures
<1>4. CopiesStay <=> [][Stay]_allVars
  BY DEF CopiesStay
<1> QED
  BY <1>1, <1>2, <1>3, <1>4, GameStoreInv, PTL DEF GameSpec
=============================================================================
