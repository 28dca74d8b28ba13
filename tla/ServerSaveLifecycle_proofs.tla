--------------------- MODULE ServerSaveLifecycle_proofs ---------------------
(***************************************************************************)
(* The safety of the server's save lifecycle, for every number of keys,    *)
(* autosave slots and callers, every drain limit and every interleaving.   *)
(***************************************************************************)
EXTENDS ServerSaveLifecycle, InsertionMap_proofs

Unit == [key : Keys, epoch : Nat]

ServerTypeOK ==
    /\ state \in {"unloaded", "loading", "running", "flushing", "closed"}
    /\ epochs \in [Keys -> Nat]
    /\ order \in Seq(Keys)
    /\ snap \in [Keys -> Nat]
    /\ chain \in SUBSET Autos
    /\ ahead \in [Actors -> SUBSET Autos]
    /\ phase \in [Actors -> {"idle", "waiting", "running", "returned"}]
    /\ zero \in [Actors -> Nat]
    /\ batch \in [Actors -> Seq(Unit)]
    /\ writing \in [Actors -> Unit \cup {None}]
    /\ written \in [Actors -> Nat]
    /\ durable \in [Keys -> Nat]
    /\ discarded \in [Keys -> Nat]

\* The Map keeps one position for each pending key and none for the others.
PendingOrder ==
    /\ Distinct(order)
    /\ \A k \in Keys : Has(k) <=> Occurs(order, k)

\* The promise chain: the unsettled autosave drains wait for each other, and a
\* flush for all of them; what runs waits for nobody.
ChainInv ==
    /\ chain = {c \in Autos : phase[c] # "idle"}
    /\ \A c \in Actors :
        /\ ahead[c] \subseteq chain
        /\ phase[c] \in {"running", "returned"} => ahead[c] = {}
    /\ \A c \in Autos : phase[c] # "returned"
    /\ \A c, d \in chain : c = d \/ c \in ahead[d] \/ d \in ahead[c]
    /\ \A c \in Flushers :
        phase[c] # "idle" => chain \subseteq ahead[c] /\ state \in {"flushing", "closed"}

\* A unit that a drain of c has still to store: no older than the stored one
\* and, if a newer one was marked since, followed by it in the pending Map.
\* While a flush runs nothing is marked.
UnitOK(c, u) ==
    /\ 1 <= u.epoch /\ u.epoch <= epochs[u.key]
    /\ durable[u.key] <= u.epoch
    /\ c \in Flushers => u.epoch = epochs[u.key]
    /\ u.epoch < epochs[u.key] => snap[u.key] = epochs[u.key]

\* The units s of a drain are units it may store, one for each key.
BatchOK(c, s) ==
    \A i \in 1 .. Len(s) :
        /\ UnitOK(c, s[i])
        /\ \A j \in 1 .. Len(s) : s[i].key = s[j].key => i = j

UnitsOf(c) ==
    /\ phase[c] # "running" => batch[c] = <<>> /\ writing[c] = None
    /\ writing[c] # None => UnitOK(c, writing[c])
    /\ BatchOK(c, batch[c])
    /\ writing[c] # None => \A i \in 1 .. Len(batch[c]) : batch[c][i].key # writing[c].key

UnitsInv == \A c \in Actors : UnitsOf(c)

\* What is pending is the latest mark; nothing is newer than it.
LatestInv ==
    \A k \in Keys :
        /\ Has(k) => snap[k] = epochs[k]
        /\ durable[k] <= epochs[k]
        /\ discarded[k] <= epochs[k]

ServerInv ==
    /\ ServerTypeOK /\ PendingOrder /\ ChainInv /\ UnitsInv /\ LatestInv
    /\ PendingUntilSaved /\ ClosedIsSaved

-----------------------------------------------------------------------------
LEMMA ServerInitInv == ASSUME ServerInit PROVE ServerInv
<1>1. ServerTypeOK
  BY DEF ServerInit, ServerTypeOK
<1>2. PendingOrder
  BY DEF ServerInit, PendingOrder, Distinct, Occurs, Has
<1>3. ChainInv
  BY DEF ServerInit, ChainInv, Actors
<1>4. UnitsInv
  BY DEF ServerInit, UnitsInv, UnitsOf, BatchOK
<1>5. LatestInv /\ PendingUntilSaved /\ ClosedIsSaved
  BY DEF ServerInit, LatestInv, Has, PendingUntilSaved, ClosedIsSaved
<1> QED
  BY <1>1, <1>2, <1>3, <1>4, <1>5 DEF ServerInv

\* Only flushes run at the same time.
LEMMA OnlyFlushersMeet ==
    ASSUME ChainInv, NEW c \in Actors, NEW d \in Actors, c # d,
           phase[c] = "running", phase[d] = "running"
    PROVE  c \in Flushers /\ d \in Flushers
  BY DEF ChainInv, Actors

\* Load and its answer change the state only, and not to closed.
LEMMA LoadInv == ASSUME ServerInv, Load \/ Loaded PROVE ServerInv'
<1>1. /\ UNCHANGED <<pendingVars, callVars, drainVars, worldVars>>
      /\ state \in {"unloaded", "loading"}
      /\ state' \in {"unloaded", "loading", "running"}
  BY DEF Load, Loaded
<1>2. ServerTypeOK'
  BY <1>1 DEF ServerInv, ServerTypeOK, pendingVars, callVars, drainVars, worldVars
<1>3. PendingOrder' /\ LatestInv' /\ PendingUntilSaved' /\ ClosedIsSaved'
  BY <1>1 DEF ServerInv, PendingOrder, LatestInv, PendingUntilSaved, ClosedIsSaved, Has,
              pendingVars, worldVars
<1>4. ChainInv'
  BY <1>1 DEF ServerInv, ChainInv, callVars
<1>5. UnitsInv'
  BY <1>1 DEF ServerInv, UnitsInv, UnitsOf, BatchOK, UnitOK, pendingVars, callVars, drainVars, worldVars
<1> QED
  BY <1>2, <1>3, <1>4, <1>5 DEF ServerInv

\* Nothing is marked while a flush runs; a unit that waits in a drain gets a
\* pending successor.
LEMMA MarkDirtyInv == ASSUME ServerInv, NEW k \in Keys, MarkDirty(k) PROVE ServerInv'
<1>0. /\ state = "running"
      /\ epochs' = [epochs EXCEPT ![k] = @ + 1]
      /\ order' = Set(order, k)
      /\ snap' = [snap EXCEPT ![k] = epochs[k] + 1]
      /\ UNCHANGED <<state, callVars, drainVars, durable, discarded>>
  BY DEF MarkDirty
<1>s. order \in Seq(Keys) /\ Distinct(order)
  BY DEF ServerInv, ServerTypeOK, PendingOrder
<1>1. order' \in Seq(Keys) /\ Distinct(order')
      /\ \A x : Occurs(order', x) <=> x = k \/ Occurs(order, x)
  BY <1>0, <1>s, SetFacts, Zenon
<1>2. ServerTypeOK'
  <2>1. epochs' \in [Keys -> Nat] /\ snap' \in [Keys -> Nat]
    BY <1>0 DEF ServerInv, ServerTypeOK
  <2> QED
    BY <1>0, <1>1, <2>1 DEF ServerInv, ServerTypeOK, callVars, drainVars
<1>3. PendingOrder'
  BY <1>0, <1>1 DEF ServerInv, ServerTypeOK, PendingOrder, Has
<1>4. ChainInv'
  BY <1>0 DEF ServerInv, ChainInv, callVars
<1>5. UnitsInv'
  <2>1. \A c \in Flushers : phase[c] = "idle"
    BY <1>0 DEF ServerInv, ChainInv
  <2>2. \A c \in Actors, u \in Unit : UnitOK(c, u) /\ phase[c] = "running" => UnitOK(c, u)'
    BY <1>0, <2>1 DEF UnitOK, ServerInv, ServerTypeOK, LatestInv, Unit
  <2>3. \A c \in Actors : \A i \in 1 .. Len(batch[c]) : batch[c][i] \in Unit
    BY DEF ServerInv, ServerTypeOK
  <2>4. \A c \in Actors : writing[c] # None => writing[c] \in Unit
    BY DEF ServerInv, ServerTypeOK
  <2>5. UNCHANGED <<phase, batch, writing>>
    BY <1>0 DEF callVars, drainVars
  <2>6. \A c \in Actors : phase[c] # "running" => Len(batch[c]) = 0
    BY DEF ServerInv, UnitsInv, UnitsOf
  <2> QED
    BY <2>2, <2>3, <2>4, <2>5, <2>6 DEF ServerInv, UnitsInv, UnitsOf, BatchOK
<1>6. LatestInv' /\ PendingUntilSaved' /\ ClosedIsSaved'
  BY <1>0 DEF ServerInv, ServerTypeOK, LatestInv, Has, PendingUntilSaved, ClosedIsSaved
<1> QED
  BY <1>2, <1>3, <1>4, <1>5, <1>6 DEF ServerInv

\* A new drain waits for the drains scheduled before.
LEMMA CallInv ==
    ASSUME ServerInv, NEW c \in Actors, (c \in Autos /\ Tick(c)) \/ (c \in Flushers /\ Flush(c))
    PROVE  ServerInv'
<1>0. /\ phase[c] = "idle" /\ phase' = [phase EXCEPT ![c] = "waiting"]
      /\ ahead' = [ahead EXCEPT ![c] = chain]
      /\ state \in {"running", "flushing"} /\ state' \in {"running", "flushing"}
      /\ UNCHANGED <<pendingVars, zero, drainVars, worldVars>>
  BY DEF Tick, Flush, ScheduledAhead
<1>1. \/ c \in Autos /\ c \notin Flushers /\ state = "running" /\ state' = state
         /\ chain' = chain \cup {c}
      \/ c \in Flushers /\ c \notin Autos /\ state' = "flushing" /\ chain' = chain
  BY ActorsAssumption DEF Tick, Flush
<1>2. ServerTypeOK'
  BY <1>0, <1>1 DEF ServerInv, ServerTypeOK, pendingVars, drainVars, worldVars
<1>3. PendingOrder' /\ LatestInv' /\ PendingUntilSaved' /\ ClosedIsSaved'
  BY <1>0 DEF ServerInv, PendingOrder, LatestInv, PendingUntilSaved, ClosedIsSaved, Has,
              pendingVars, worldVars
<1>4. ChainInv'
  BY <1>0, <1>1 DEF ServerInv, ServerTypeOK, ChainInv, Actors
<1>5. UnitsInv'
  BY <1>0 DEF ServerInv, ServerTypeOK, UnitsInv, UnitsOf, BatchOK, UnitOK, pendingVars, drainVars, worldVars
<1> QED
  BY <1>2, <1>3, <1>4, <1>5 DEF ServerInv

LEMMA ResetInv == ASSUME ServerInv, Reset PROVE ServerInv'
<1>0. /\ \A c \in Actors : phase[c] = "idle"
      /\ state' = "unloaded" /\ order' = <<>> /\ snap' = [k \in Keys |-> 0] /\ chain' = {}
      /\ discarded' = [k \in Keys |-> IF Has(k) THEN epochs[k] ELSE discarded[k]]
      /\ UNCHANGED <<ahead, phase, zero, batch, writing, written, epochs, durable>>
  BY DEF Reset, drainVars
<1>2. ServerTypeOK'
  BY <1>0 DEF ServerInv, ServerTypeOK
<1>3. PendingOrder' /\ ClosedIsSaved'
  BY <1>0 DEF PendingOrder, ClosedIsSaved, Has, Distinct, Occurs
<1>4. LatestInv' /\ PendingUntilSaved'
  BY <1>0 DEF ServerInv, ServerTypeOK, LatestInv, PendingUntilSaved, Has
<1>5. ChainInv'
  BY <1>0 DEF ServerInv, ServerTypeOK, ChainInv, Actors
<1>6. UnitsInv'
  BY <1>0 DEF ServerInv, UnitsInv, UnitsOf, BatchOK
<1> QED
  BY <1>2, <1>3, <1>4, <1>5, <1>6 DEF ServerInv

-----------------------------------------------------------------------------
(* Drains. *)

\* The units a drain starts with are the latest ones, one for each key.
LEMMA FirstUnitsFacts ==
    ASSUME ServerInv, NEW c \in Actors, NEW units \in {FirstUnits, <<>>}
    PROVE  /\ units \in Seq(Unit)
           /\ BatchOK(c, units)
<1>1. CASE units = <<>>
  BY <1>1 DEF BatchOK
<1>2. CASE units = FirstUnits
  <2> DEFINE n == IF Limit < Len(order) THEN Limit ELSE Len(order)
  <2>1. order \in Seq(Keys) /\ Len(order) \in Nat /\ Limit \in Nat
    BY LimitsAssumption DEF ServerInv, ServerTypeOK
  <2>2. n \in Nat /\ \A i \in 1 .. n : i \in 1 .. Len(order) /\ order[i] \in Keys
    BY <2>1
  <2>3. units = [i \in 1 .. n |-> [key |-> order[i], epoch |-> snap[order[i]]]]
    BY <1>2 DEF FirstUnits
  <2> HIDE DEF n
  <2>4. \A k \in Keys : snap[k] \in Nat /\ epochs[k] \in Nat /\ durable[k] \in Nat
    BY DEF ServerInv, ServerTypeOK
  <2>5. units \in Seq(Unit) /\ Len(units) = n
    BY <2>2, <2>3, <2>4 DEF Unit
  <2>6. \A i \in 1 .. n : Has(order[i])
    BY <2>2 DEF ServerInv, PendingOrder, Occurs
  <2>7. ASSUME NEW i \in 1 .. n PROVE UnitOK(c, units[i])
    BY <2>2, <2>3, <2>4, <2>6 DEF UnitOK, ServerInv, LatestInv, Has
  <2>8. \A i, j \in 1 .. n : units[i].key = units[j].key => i = j
    BY <2>2, <2>3 DEF ServerInv, PendingOrder, Distinct
  <2> QED
    BY <2>5, <2>7, <2>8 DEF BatchOK
<1> QED
  BY <1>1, <1>2

\* A drain begins: by itself, or the next one of a flush.
LEMMA BeginDrainInv ==
    ASSUME ServerInv, NEW c \in Actors, StartDrain(c) \/ FlushAgain(c)
    PROVE  ServerInv'
<1>0. PICK units \in {FirstUnits, <<>>} :
         /\ batch' = [batch EXCEPT ![c] = units]
         /\ phase[c] \in {"waiting", "returned"} /\ ahead[c] = {}
         /\ phase' = [phase EXCEPT ![c] = "running"]
         /\ written' = [written EXCEPT ![c] = 0]
         /\ zero' = zero \/ zero' = [zero EXCEPT ![c] = ZeroRuns(c)]
         /\ UNCHANGED <<state, pendingVars, chain, ahead, writing, worldVars>>
  BY DEF StartDrain, FlushAgain, BeginDrain, ServerInv, ChainInv
<1>1. units \in Seq(Unit) /\ BatchOK(c, units)
  BY FirstUnitsFacts
<1>2. ServerTypeOK'
  <2>1. ZeroRuns(c) \in Nat
    BY DEF ZeroRuns, ServerInv, ServerTypeOK
  <2> QED
    BY <1>0, <1>1, <2>1 DEF ServerInv, ServerTypeOK, pendingVars, worldVars
<1>3. PendingOrder' /\ LatestInv' /\ PendingUntilSaved' /\ ClosedIsSaved'
  BY <1>0 DEF ServerInv, PendingOrder, LatestInv, PendingUntilSaved, ClosedIsSaved, Has,
              pendingVars, worldVars
<1>4. ChainInv'
  BY <1>0 DEF ServerInv, ServerTypeOK, ChainInv, Actors
<1>5. UnitsInv'
  <2>1. \A d \in Actors : \A u : UnitOK(d, u)' <=> UnitOK(d, u)
    BY <1>0 DEF UnitOK, pendingVars, worldVars
  <2>2. writing[c] = None
    BY <1>0 DEF ServerInv, UnitsInv, UnitsOf
  <2>3. batch'[c] = units /\ phase'[c] = "running" /\ writing' = writing
    BY <1>0 DEF ServerInv, ServerTypeOK
  <2>4. \A d \in Actors \ {c} : batch'[d] = batch[d] /\ phase'[d] = phase[d]
    BY <1>0 DEF ServerInv, ServerTypeOK
  <2> QED
    <3>1. ASSUME NEW d \in Actors, d # c PROVE UnitsOf(d)'
      BY <3>1, <2>1, <2>3, <2>4 DEF ServerInv, UnitsInv, UnitsOf, BatchOK
    <3>2. UnitsOf(c)'
      BY <1>1, <2>1, <2>2, <2>3 DEF ServerInv, UnitsInv, UnitsOf, BatchOK
    <3> QED
      BY <3>1, <3>2 DEF UnitsInv
<1> QED
  BY <1>2, <1>3, <1>4, <1>5 DEF ServerInv

\* What a drain visits next.
LEMMA VisitFacts ==
    ASSUME ServerInv, NEW c \in Actors, batch[c] # <<>>
    PROVE  /\ phase[c] = "running"
           /\ Head(batch[c]) \in Unit /\ UnitOK(c, Head(batch[c]))
           /\ Tail(batch[c]) \in Seq(Unit)
           /\ BatchOK(c, Tail(batch[c]))
           /\ \A i \in 1 .. Len(Tail(batch[c])) : Tail(batch[c])[i].key # Head(batch[c]).key
<1> DEFINE s == batch[c]
<1>1. phase[c] = "running"
  BY DEF ServerInv, UnitsInv, UnitsOf
<1>2. s \in Seq(Unit)
  BY DEF ServerInv, ServerTypeOK
<1>3. /\ Head(s) \in Unit /\ Head(s) = s[1]
      /\ Tail(s) \in Seq(Unit) /\ Len(Tail(s)) = Len(s) - 1
      /\ Len(s) \in Nat /\ Len(s) >= 1
      /\ \A j \in 1 .. Len(s) - 1 : Tail(s)[j] = s[j + 1]
  BY <1>2, TailFacts
<1>4. \A i \in 1 .. Len(s) :
        /\ UnitOK(c, s[i])
        /\ \A j \in 1 .. Len(s) : s[i].key = s[j].key => i = j
  BY DEF ServerInv, UnitsInv, UnitsOf, BatchOK
<1> HIDE DEF s
<1>5. UnitOK(c, Head(s))
  BY <1>3, <1>4
<1>6. ASSUME NEW i \in 1 .. Len(Tail(s))
      PROVE  /\ UnitOK(c, Tail(s)[i])
             /\ Tail(s)[i].key # Head(s).key
             /\ \A j \in 1 .. Len(Tail(s)) : Tail(s)[i].key = Tail(s)[j].key => i = j
  <2>1. i + 1 \in 1 .. Len(s) /\ 1 \in 1 .. Len(s) /\ Tail(s)[i] = s[i + 1] /\ i + 1 # 1
    BY <1>3
  <2>2. \A j \in 1 .. Len(Tail(s)) : j + 1 \in 1 .. Len(s) /\ Tail(s)[j] = s[j + 1]
    BY <1>3
  <2>3. UnitOK(c, Tail(s)[i])
    BY <1>4, <2>1
  <2>4. Tail(s)[i].key # Head(s).key
    BY <1>3, <1>4, <2>1
  <2>5. ASSUME NEW j \in 1 .. Len(Tail(s)), Tail(s)[i].key = Tail(s)[j].key PROVE i = j
    <3>1. i + 1 = j + 1
      BY <1>4, <2>1, <2>2, <2>5
    <3> QED
      BY <1>3, <3>1
  <2> QED
    BY <2>3, <2>4, <2>5
<1> QED
  BY <1>1, <1>3, <1>5, <1>6 DEF s, BatchOK

LEMMA StartWriteInv == ASSUME ServerInv, NEW c \in Actors, StartWrite(c) PROVE ServerInv'
<1>0. /\ batch[c] # <<>> /\ writing[c] = None
      /\ writing' = [writing EXCEPT ![c] = Head(batch[c])]
      /\ batch' = [batch EXCEPT ![c] = Tail(batch[c])]
      /\ UNCHANGED <<state, pendingVars, chain, ahead, phase, zero, written, worldVars>>
  BY DEF StartWrite, Visiting, callVars
<1>1. /\ phase[c] = "running"
      /\ Head(batch[c]) \in Unit /\ UnitOK(c, Head(batch[c]))
      /\ Tail(batch[c]) \in Seq(Unit)
      /\ BatchOK(c, Tail(batch[c]))
      /\ \A i \in 1 .. Len(Tail(batch[c])) : Tail(batch[c])[i].key # Head(batch[c]).key
  BY <1>0, VisitFacts
<1>2. ServerTypeOK'
  BY <1>0, <1>1 DEF ServerInv, ServerTypeOK, pendingVars, worldVars
<1>3. PendingOrder' /\ LatestInv' /\ PendingUntilSaved' /\ ClosedIsSaved'
  BY <1>0 DEF ServerInv, PendingOrder, LatestInv, PendingUntilSaved, ClosedIsSaved, Has,
              pendingVars, worldVars
<1>4. ChainInv'
  BY <1>0 DEF ServerInv, ChainInv
<1>5. UnitsInv'
  <2>1. \A d \in Actors : \A u : UnitOK(d, u)' <=> UnitOK(d, u)
    BY <1>0 DEF UnitOK, pendingVars, worldVars
  <2>2. batch'[c] = Tail(batch[c]) /\ writing'[c] = Head(batch[c]) /\ phase' = phase
    BY <1>0 DEF ServerInv, ServerTypeOK
  <2>3. \A d \in Actors \ {c} : batch'[d] = batch[d] /\ writing'[d] = writing[d]
    BY <1>0 DEF ServerInv, ServerTypeOK
  <2> QED
    <3>1. ASSUME NEW d \in Actors, d # c PROVE UnitsOf(d)'
      BY <3>1, <2>1, <2>2, <2>3 DEF ServerInv, UnitsInv, UnitsOf, BatchOK
    <3>2. UnitsOf(c)'
      BY <1>1, <2>1, <2>2 DEF ServerInv, UnitsInv, UnitsOf, BatchOK
    <3> QED
      BY <3>1, <3>2 DEF UnitsInv
<1> QED
  BY <1>2, <1>3, <1>4, <1>5 DEF ServerInv

\* A unit put back makes the latest one of its key pending.
LEMMA RequeueInv ==
    ASSUME ServerInv, NEW c \in Actors, NEW u \in Unit, UnitOK(c, u), Requeue(u),
           UNCHANGED <<state, worldVars>>
    PROVE  /\ order' \in Seq(Keys) /\ snap' \in [Keys -> Nat]
           /\ PendingOrder' /\ LatestInv' /\ PendingUntilSaved' /\ ClosedIsSaved'
           /\ \A d \in Actors, x \in Unit : UnitOK(d, x) => UnitOK(d, x)'
<1>0. u.key \in Keys /\ u.epoch \in Nat
  BY DEF Unit
<1>1. order \in Seq(Keys) /\ Distinct(order) /\ snap \in [Keys -> Nat] /\ epochs \in [Keys -> Nat]
  BY DEF ServerInv, ServerTypeOK, PendingOrder
<1>2. UNCHANGED <<epochs, durable, discarded, state>>
  BY DEF worldVars
<1>3. CASE snap[u.key] \in {0, u.epoch}
  <2>1. /\ order' = Append(Delete(order, u.key), u.key)
        /\ snap' = [snap EXCEPT ![u.key] = u.epoch]
    BY <1>3 DEF Requeue
  <2>2. /\ order' \in Seq(Keys) /\ Distinct(order')
        /\ \A x : Occurs(order', x) <=> x = u.key \/ Occurs(order, x)
    BY <1>0, <1>1, <2>1, RequeueFacts, Zenon
  <2>3. u.epoch = epochs[u.key] /\ u.epoch # 0
    BY <1>0, <1>1, <1>3 DEF UnitOK, ServerInv, LatestInv, Has
  <2>4. snap' \in [Keys -> Nat] /\ snap'[u.key] = epochs[u.key]
        /\ \A k \in Keys : k # u.key => snap'[k] = snap[k]
    BY <1>0, <1>1, <2>1, <2>3
  <2>5. \A k \in Keys : snap'[k] # 0 <=> (k = u.key \/ snap[k] # 0)
    BY <2>3, <2>4
  <2>6. PendingOrder'
    BY <2>2, <2>5 DEF PendingOrder, ServerInv, Has
  <2>7. LatestInv' /\ PendingUntilSaved' /\ ClosedIsSaved'
    BY <1>2, <2>4 DEF ServerInv, LatestInv, Has, PendingUntilSaved, ClosedIsSaved
  <2>8. \A d \in Actors, x \in Unit : UnitOK(d, x) => UnitOK(d, x)'
    BY <1>2, <2>4 DEF UnitOK, Unit
  <2> QED
    BY <2>2, <2>4, <2>6, <2>7, <2>8
<1>4. CASE snap[u.key] \notin {0, u.epoch}
  <2>1. UNCHANGED <<order, snap>>
    BY <1>4 DEF Requeue, pendingVars
  <2> QED
    BY <1>1, <1>2, <2>1 DEF ServerInv, PendingOrder, LatestInv, Has, PendingUntilSaved,
                            ClosedIsSaved, UnitOK
<1> QED
  BY <1>3, <1>4

LEMMA EncodeFailsInv == ASSUME ServerInv, NEW c \in Actors, EncodeFails(c) PROVE ServerInv'
<1>0. /\ batch[c] # <<>> /\ writing[c] = None
      /\ Requeue(Head(batch[c]))
      /\ batch' = [batch EXCEPT ![c] = Tail(batch[c])]
      /\ UNCHANGED <<state, chain, ahead, phase, zero, writing, written, worldVars>>
  BY DEF EncodeFails, Visiting, callVars
<1>1. /\ phase[c] = "running"
      /\ Head(batch[c]) \in Unit /\ UnitOK(c, Head(batch[c]))
      /\ Tail(batch[c]) \in Seq(Unit)
      /\ BatchOK(c, Tail(batch[c]))
  BY <1>0, VisitFacts
<1>2. /\ order' \in Seq(Keys) /\ snap' \in [Keys -> Nat]
      /\ PendingOrder' /\ LatestInv' /\ PendingUntilSaved' /\ ClosedIsSaved'
      /\ \A d \in Actors, x \in Unit : UnitOK(d, x) => UnitOK(d, x)'
  BY <1>0, <1>1, RequeueInv
<1>3. ServerTypeOK'
  BY <1>0, <1>1, <1>2 DEF ServerInv, ServerTypeOK, worldVars
<1>4. ChainInv'
  BY <1>0 DEF ServerInv, ChainInv
<1>5. UnitsInv'
  <2>1. batch'[c] = Tail(batch[c]) /\ UNCHANGED <<writing, phase>>
    BY <1>0 DEF ServerInv, ServerTypeOK
  <2>2. \A d \in Actors \ {c} : batch'[d] = batch[d]
    BY <1>0 DEF ServerInv, ServerTypeOK
  <2>3. \A d \in Actors : writing[d] # None => writing[d] \in Unit
    BY DEF ServerInv, ServerTypeOK
  <2>4. \A d \in Actors : \A i \in 1 .. Len(batch[d]) : batch[d][i] \in Unit
    BY DEF ServerInv, ServerTypeOK
  <2>5. \A i \in 1 .. Len(batch'[c]) : batch'[c][i] \in Unit
    BY <1>1, <2>1
  <2> QED
    <3>1. ASSUME NEW d \in Actors, d # c PROVE UnitsOf(d)'
      BY <3>1, <1>2, <2>1, <2>2, <2>3, <2>4, <2>5 DEF ServerInv, UnitsInv, UnitsOf, BatchOK
    <3>2. UnitsOf(c)'
      BY <1>0, <1>1, <1>2, <2>1, <2>3, <2>4, <2>5 DEF ServerInv, UnitsInv, UnitsOf, BatchOK
    <3> QED
      BY <3>1, <3>2 DEF UnitsInv
<1> QED
  BY <1>2, <1>3, <1>4, <1>5 DEF ServerInv

LEMMA WriteFailsInv == ASSUME ServerInv, NEW c \in Actors, WriteFails(c) PROVE ServerInv'
<1>0. /\ writing[c] # None
      /\ Requeue(writing[c])
      /\ writing' = [writing EXCEPT ![c] = None]
      /\ UNCHANGED <<state, chain, ahead, phase, zero, batch, written, worldVars>>
  BY DEF WriteFails, callVars
<1>1. writing[c] \in Unit /\ UnitOK(c, writing[c])
  BY <1>0 DEF ServerInv, ServerTypeOK, UnitsInv, UnitsOf
<1>2. /\ order' \in Seq(Keys) /\ snap' \in [Keys -> Nat]
      /\ PendingOrder' /\ LatestInv' /\ PendingUntilSaved' /\ ClosedIsSaved'
      /\ \A d \in Actors, x \in Unit : UnitOK(d, x) => UnitOK(d, x)'
  BY <1>0, <1>1, RequeueInv
<1>3. ServerTypeOK'
  BY <1>0, <1>2 DEF ServerInv, ServerTypeOK, worldVars
<1>4. ChainInv'
  BY <1>0 DEF ServerInv, ChainInv
<1>5. UnitsInv'
  <2>1. writing'[c] = None /\ UNCHANGED <<batch, phase>>
    BY <1>0 DEF ServerInv, ServerTypeOK
  <2>2. \A d \in Actors \ {c} : writing'[d] = writing[d]
    BY <1>0 DEF ServerInv, ServerTypeOK
  <2>3. \A d \in Actors : writing[d] # None => writing[d] \in Unit
    BY DEF ServerInv, ServerTypeOK
  <2>4. \A d \in Actors : \A i \in 1 .. Len(batch[d]) : batch[d][i] \in Unit
    BY DEF ServerInv, ServerTypeOK
  <2> QED
    <3>1. ASSUME NEW d \in Actors, d # c PROVE UnitsOf(d)'
      BY <3>1, <1>2, <2>1, <2>2, <2>3, <2>4 DEF ServerInv, UnitsInv, UnitsOf, BatchOK
    <3>2. UnitsOf(c)'
      BY <1>2, <2>1, <2>3, <2>4 DEF ServerInv, UnitsInv, UnitsOf, BatchOK
    <3> QED
      BY <3>1, <3>2 DEF UnitsInv
<1> QED
  BY <1>2, <1>3, <1>4, <1>5 DEF ServerInv

\* An accepted write stores the latest unit, or an older one than is pending;
\* the drains of other flushes hold only units like it.
LEMMA WriteOkInv == ASSUME ServerInv, NEW c \in Actors, WriteOk(c) PROVE ServerInv'
<1> DEFINE u == writing[c]
<1>0. /\ u # None
      /\ Remove(u)
      /\ durable' = [durable EXCEPT ![u.key] = u.epoch]
      /\ written' = [written EXCEPT ![c] = @ + 1]
      /\ writing' = [writing EXCEPT ![c] = None]
      /\ UNCHANGED <<state, chain, ahead, phase, zero, batch, epochs, discarded>>
  BY DEF WriteOk, callVars
<1>1. u \in Unit /\ UnitOK(c, u) /\ phase[c] = "running"
  BY <1>0 DEF ServerInv, ServerTypeOK, UnitsInv, UnitsOf
<1>2. u.key \in Keys /\ u.epoch \in Nat
  BY <1>1 DEF Unit
<1> HIDE DEF u
<1>3. /\ order \in Seq(Keys) /\ Distinct(order) /\ snap \in [Keys -> Nat]
      /\ epochs \in [Keys -> Nat] /\ durable \in [Keys -> Nat] /\ discarded \in [Keys -> Nat]
  BY DEF ServerInv, ServerTypeOK, PendingOrder
<1>4. /\ durable' \in [Keys -> Nat] /\ durable'[u.key] = u.epoch
      /\ \A k \in Keys : k # u.key => durable'[k] = durable[k]
  BY <1>0, <1>2, <1>3
<1>5. /\ order' \in Seq(Keys) /\ snap' \in [Keys -> Nat] /\ PendingOrder'
      /\ \A k \in Keys : k # u.key => snap'[k] = snap[k]
      /\ \/ snap[u.key] = u.epoch /\ u.epoch = epochs[u.key] /\ snap'[u.key] = 0
         \/ snap[u.key] # u.epoch /\ snap'[u.key] = snap[u.key]
  <2>1. CASE snap[u.key] = u.epoch
    <3>1. order' = Delete(order, u.key) /\ snap' = [snap EXCEPT ![u.key] = 0]
      BY <1>0, <2>1 DEF Remove
    <3>2. /\ order' \in Seq(Keys) /\ Distinct(order')
          /\ \A x : Occurs(order', x) <=> x # u.key /\ Occurs(order, x)
      BY <1>3, <3>1, DeleteFacts, Zenon
    <3>3. snap' \in [Keys -> Nat] /\ snap'[u.key] = 0
          /\ \A k \in Keys : k # u.key => snap'[k] = snap[k]
      BY <1>2, <1>3, <3>1
    <3>4. u.epoch = epochs[u.key]
      BY <1>1, <1>2, <1>3, <2>1 DEF UnitOK, ServerInv, LatestInv, Has
    <3>5. PendingOrder'
      BY <3>2, <3>3 DEF PendingOrder, ServerInv, Has
    <3> QED
      BY <2>1, <3>2, <3>3, <3>4, <3>5
  <2>2. CASE snap[u.key] # u.epoch
    <3>1. UNCHANGED <<order, snap>>
      BY <1>0, <2>2 DEF Remove, pendingVars
    <3> QED
      BY <1>3, <2>2, <3>1 DEF ServerInv, PendingOrder, Has
  <2> QED
    BY <2>1, <2>2
<1>6. ServerTypeOK'
  <2>1. written' \in [Actors -> Nat] /\ writing' \in [Actors -> Unit \cup {None}]
    BY <1>0 DEF ServerInv, ServerTypeOK
  <2> QED
    BY <1>0, <1>4, <1>5, <2>1 DEF ServerInv, ServerTypeOK
<1>7. ChainInv'
  BY <1>0 DEF ServerInv, ChainInv
<1>8. LatestInv'
  BY <1>0, <1>1, <1>3, <1>4, <1>5 DEF UnitOK, ServerInv, LatestInv, Has
<1>9. PendingUntilSaved'
  BY <1>0, <1>1, <1>2, <1>3, <1>4, <1>5 DEF UnitOK, ServerInv, PendingUntilSaved
<1>10. ClosedIsSaved'
  BY <1>0, <1>1, <1>2, <1>3, <1>4 DEF UnitOK, ServerInv, ClosedIsSaved
<1>11. UnitsInv'
  <2>1. writing'[c] = None /\ UNCHANGED <<batch, phase>>
    BY <1>0 DEF ServerInv, ServerTypeOK
  <2>2. \A d \in Actors \ {c} : writing'[d] = writing[d]
    BY <1>0 DEF ServerInv, ServerTypeOK
  <2>3. \A d \in Actors : writing[d] # None => writing[d] \in Unit
    BY DEF ServerInv, ServerTypeOK
  <2>4. \A d \in Actors : \A i \in 1 .. Len(batch[d]) : batch[d][i] \in Unit
    BY DEF ServerInv, ServerTypeOK
  <2>5. ASSUME NEW d \in Actors, NEW x \in Unit, UnitOK(d, x), x.key # u.key
        PROVE  UnitOK(d, x)'
    BY <1>0, <1>4, <1>5, <2>5 DEF UnitOK, Unit
  <2>6. ASSUME NEW d \in Actors, d # c, phase[d] = "running", NEW x \in Unit, UnitOK(d, x)
        PROVE  UnitOK(d, x)'
    <3>1. c \in Flushers /\ d \in Flushers
      BY <1>1, <2>6, OnlyFlushersMeet DEF ServerInv
    <3>2. u.epoch = epochs[u.key] /\ x.epoch = epochs[x.key]
      BY <1>1, <2>6, <3>1 DEF UnitOK
    <3>3. CASE x.key = u.key
      BY <1>0, <1>2, <1>3, <1>4, <2>6, <3>2, <3>3 DEF UnitOK, Unit
    <3> QED
      BY <2>5, <2>6, <3>3
  <2>7. ASSUME NEW d \in Actors, d # c PROVE UnitsOf(d)'
    <3>1. UnitsOf(d)
      BY DEF ServerInv, UnitsInv
    <3>2. CASE phase[d] = "running"
      BY <2>1, <2>2, <2>3, <2>4, <2>6, <2>7, <3>1, <3>2 DEF UnitsOf, BatchOK
    <3>3. CASE phase[d] # "running"
      BY <2>1, <2>2, <2>7, <3>1, <3>3 DEF UnitsOf, BatchOK
    <3> QED
      BY <3>2, <3>3
  <2>8. UnitsOf(c)'
    <3>1. UnitsOf(c)
      BY DEF ServerInv, UnitsInv
    <3>2. \A i \in 1 .. Len(batch[c]) : batch[c][i].key # u.key
      BY <1>0, <3>1 DEF UnitsOf, u
    <3>3. \A i \in 1 .. Len(batch[c]) : UnitOK(c, batch[c][i])'
      BY <2>1, <2>4, <2>5, <3>1, <3>2 DEF UnitsOf, BatchOK
    <3> QED
      BY <1>1, <2>1, <3>1, <3>3 DEF UnitsOf, BatchOK
  <2> QED
    BY <2>7, <2>8 DEF UnitsInv
<1> QED
  BY <1>5, <1>6, <1>7, <1>8, <1>9, <1>10, <1>11 DEF ServerInv

\* A drain ends with nothing left to visit.
LEMMA DrainEndsInv ==
    ASSUME ServerInv, NEW c \in Actors, AutosaveEnds(c) \/ DrainReturns(c)
    PROVE  ServerInv'
<1>0. /\ phase[c] = "running" /\ writing[c] = None /\ batch[c] = <<>>
      /\ UNCHANGED <<state, pendingVars, zero, batch, writing, worldVars>>
      /\ written' = [written EXCEPT ![c] = 0] \/ written' = written
      /\ \/ /\ c \in Autos /\ phase' = [phase EXCEPT ![c] = "idle"]
            /\ chain' = chain \ {c} /\ ahead' = [d \in Actors |-> ahead[d] \ {c}]
         \/ /\ c \in Flushers /\ phase' = [phase EXCEPT ![c] = "returned"]
            /\ UNCHANGED <<chain, ahead>>
  BY DEF AutosaveEnds, DrainReturns, Drained, drainVars
<1>2. ServerTypeOK'
  <2>1. /\ phase' \in [Actors -> {"idle", "waiting", "running", "returned"}]
        /\ written' \in [Actors -> Nat]
    <3>1. /\ written \in [Actors -> Nat] /\ phase \in [Actors -> {"idle", "waiting", "running", "returned"}]
          /\ c \in Actors
      BY DEF ServerInv, ServerTypeOK
    <3>2. phase' = [phase EXCEPT ![c] = "idle"] \/ phase' = [phase EXCEPT ![c] = "returned"]
      BY <1>0
    <3> QED
      BY <1>0, <3>1, <3>2
  <2>2. chain' \in SUBSET Autos /\ ahead' \in [Actors -> SUBSET Autos]
    BY <1>0 DEF ServerInv, ServerTypeOK
  <2> QED
    BY <1>0, <2>1, <2>2 DEF ServerInv, ServerTypeOK, pendingVars, worldVars
<1>3. PendingOrder' /\ LatestInv' /\ PendingUntilSaved' /\ ClosedIsSaved'
  BY <1>0 DEF ServerInv, PendingOrder, LatestInv, PendingUntilSaved, ClosedIsSaved, Has,
              pendingVars, worldVars
<1>4. ChainInv'
  BY <1>0, ActorsAssumption DEF ServerInv, ServerTypeOK, ChainInv, Actors
<1>5. UnitsInv'
  BY <1>0 DEF ServerInv, ServerTypeOK, UnitsInv, UnitsOf, BatchOK, UnitOK, pendingVars, worldVars
<1> QED
  BY <1>2, <1>3, <1>4, <1>5 DEF ServerInv

\* saveAndClose closes only when nothing is pending.
LEMMA FlushReturnsInv ==
    ASSUME ServerInv, NEW c \in Actors, FlushReturns(c) PROVE ServerInv'
<1>0. /\ c \in Flushers /\ phase[c] \in {"waiting", "returned"}
      /\ state' = IF MayClose(c) THEN "closed" ELSE state
      /\ phase' = [phase EXCEPT ![c] = "idle"]
      /\ written' = [written EXCEPT ![c] = 0]
      /\ zero' = [zero EXCEPT ![c] = 0]
      /\ UNCHANGED <<pendingVars, chain, ahead, batch, writing, worldVars>>
  BY DEF FlushReturns
<1>1. \/ state' = state
      \/ state' = "closed" /\ order = <<>>
  BY <1>0 DEF MayClose
<1>2. ServerTypeOK'
  BY <1>0, <1>1 DEF ServerInv, ServerTypeOK, pendingVars, worldVars
<1>3. PendingOrder' /\ LatestInv' /\ PendingUntilSaved'
  BY <1>0 DEF ServerInv, PendingOrder, LatestInv, PendingUntilSaved, Has, pendingVars, worldVars
<1>4. ClosedIsSaved'
  <2>1. CASE state' = state
    BY <1>0, <2>1 DEF ServerInv, ClosedIsSaved, worldVars
  <2>2. CASE order = <<>>
    <3>1. \A k \in Keys : ~ Has(k)
      BY <2>2 DEF ServerInv, PendingOrder, Occurs
    <3>2. ASSUME NEW k \in Keys PROVE durable[k] = epochs[k] \/ discarded[k] = epochs[k]
      <4>1. /\ durable[k] \in Nat /\ epochs[k] \in Nat /\ discarded[k] \in Nat
            /\ durable[k] <= epochs[k] /\ discarded[k] <= epochs[k]
        BY DEF ServerInv, ServerTypeOK, LatestInv
      <4>2. snap[k] = 0 /\ (durable[k] < epochs[k] /\ discarded[k] < epochs[k] => snap[k] = epochs[k])
        BY <3>1 DEF ServerInv, PendingUntilSaved, Has
      <4> QED
        BY <4>1, <4>2
    <3> QED
      BY <1>0, <3>2 DEF ClosedIsSaved, worldVars
  <2> QED
    BY <1>1, <2>1, <2>2
<1>5. ChainInv'
  BY <1>0, <1>1, ActorsAssumption DEF ServerInv, ServerTypeOK, ChainInv, Actors
<1>6. UnitsInv'
  BY <1>0 DEF ServerInv, ServerTypeOK, UnitsInv, UnitsOf, BatchOK, UnitOK, pendingVars, worldVars
<1> QED
  BY <1>2, <1>3, <1>4, <1>5, <1>6 DEF ServerInv

LEMMA ServerStutterInv == ASSUME ServerInv, UNCHANGED serverVars PROVE ServerInv'
<1>0. UNCHANGED <<state, order, snap, chain, ahead, phase, zero, batch, writing, written,
                  epochs, durable, discarded>>
  BY DEF serverVars, pendingVars, callVars, drainVars, worldVars
<1>1. ServerTypeOK' /\ PendingOrder' /\ LatestInv' /\ PendingUntilSaved' /\ ClosedIsSaved'
  BY <1>0 DEF ServerInv, ServerTypeOK, PendingOrder, LatestInv, PendingUntilSaved,
              ClosedIsSaved, Has
<1>2. ChainInv'
  BY <1>0 DEF ServerInv, ChainInv
<1>3. UnitsInv'
  BY <1>0 DEF ServerInv, UnitsInv, UnitsOf, BatchOK, UnitOK
<1> QED
  BY <1>1, <1>2, <1>3 DEF ServerInv

LEMMA ServerNextInv == ServerInv /\ [ServerNext]_serverVars => ServerInv'
<1> SUFFICES ASSUME ServerInv, [ServerNext]_serverVars PROVE ServerInv'
  OBVIOUS
<1>1. CASE Load \/ Loaded
  BY <1>1, LoadInv
<1>2. CASE Reset
  BY <1>2, ResetInv
<1>3. CASE \E k \in Keys : MarkDirty(k)
  BY <1>3, MarkDirtyInv
<1>4. CASE (\E c \in Autos : Tick(c)) \/ (\E c \in Flushers : Flush(c))
  BY <1>4, CallInv DEF Actors
<1>5. ASSUME NEW c \in Actors, Step(c) PROVE ServerInv'
  BY <1>5, BeginDrainInv, StartWriteInv, EncodeFailsInv, DrainEndsInv, FlushReturnsInv DEF Step
<1>6. ASSUME NEW c \in Actors, Settles(c) PROVE ServerInv'
  BY <1>6, WriteOkInv, WriteFailsInv DEF Settles
<1>7. CASE UNCHANGED serverVars
  BY <1>7, ServerStutterInv
<1> QED
  BY <1>1, <1>2, <1>3, <1>4, <1>5, <1>6, <1>7 DEF ServerNext

-----------------------------------------------------------------------------
(* Theorems. *)

\* The inductive invariant of the lifecycle: the pending Map, the promise
\* chain, the units every drain holds and what the store has fit together,
\* whatever the number of drains, callers and keys.
THEOREM LifecycleCorrect == ServerSpec => []ServerInv
<1>1. ServerInit => ServerInv
  BY ServerInitInv
<1>2. ServerInv /\ [ServerNext]_serverVars => ServerInv'
  BY ServerNextInv
<1> QED
  BY <1>1, <1>2, PTL DEF ServerSpec

\* "No silent loss": a unit is pending until the store has it, whichever drains
\* of the autosave chain and of flush calls visit, write or fail to write it.
THEOREM NoSilentLoss == ServerSpec => []PendingUntilSaved
<1>1. ServerInv => PendingUntilSaved
  BY DEF ServerInv
<1> QED
  BY <1>1, LifecycleCorrect, PTL

\* saveAndClose reports a closed world only with every unit in the store.
THEOREM CloseIsSafe == ServerSpec => []ClosedIsSaved
<1>1. ServerInv => ClosedIsSaved
  BY DEF ServerInv
<1> QED
  BY <1>1, LifecycleCorrect, PTL

\* An accepted write never takes the store back; it may bring again what the
\* store already has.
LEMMA WriteAdvances ==
    ASSUME ServerInv, NEW c \in Actors, WriteOk(c)
    PROVE  (\E k \in Keys : ServerStore!Persist(k)) \/ UNCHANGED <<epochs, durable>>
<1> DEFINE u == writing[c]
<1>0. /\ durable' = [durable EXCEPT ![u.key] = u.epoch] /\ UNCHANGED epochs /\ u # None
  BY DEF WriteOk
<1>1. u \in Unit /\ UnitOK(c, u)
  BY <1>0 DEF ServerInv, ServerTypeOK, UnitsInv, UnitsOf
<1> HIDE DEF u
<1>2. u.key \in Keys /\ u.epoch \in Nat /\ durable \in [Keys -> Nat] /\ epochs[u.key] \in Nat
  BY <1>1 DEF Unit, ServerInv, ServerTypeOK
<1>3. durable[u.key] <= u.epoch /\ u.epoch <= epochs[u.key]
  BY <1>1 DEF UnitOK
<1>4. CASE durable[u.key] = u.epoch
  BY <1>0, <1>2, <1>4
<1>5. CASE durable[u.key] < u.epoch
  <2>1. u.epoch \in durable[u.key] + 1 .. epochs[u.key]
    BY <1>2, <1>3, <1>5
  <2>2. ServerStore!Persist(u.key)
    BY <1>0, <2>1 DEF ServerStore!Persist
  <2> QED
    BY <1>2, <2>2
<1> QED
  BY <1>2, <1>3, <1>4, <1>5

\* The lifecycle with its store implements the write-behind store: every step
\* marks a key, persists a newer payload of one, or changes neither.
THEOREM LifecycleRefinesStore == ServerSpec => ServerImplementsStore
<1>1. ServerInit => ServerStore!Init
  BY DEF ServerInit, ServerStore!Init
<1>2. ServerInv /\ [ServerNext]_serverVars => [ServerStore!Next]_(ServerStore!vars)
  <2> SUFFICES ASSUME ServerInv, [ServerNext]_serverVars
               PROVE  [ServerStore!Next]_(ServerStore!vars)
    OBVIOUS
  <2> USE DEF ServerStore!Next, ServerStore!vars
  <2>1. CASE UNCHANGED <<epochs, durable>>
    BY <2>1
  <2>2. ASSUME NEW k \in Keys, MarkDirty(k) PROVE ServerStore!Next
    BY <2>2 DEF MarkDirty, ServerStore!Mark
  <2>3. ASSUME NEW c \in Actors, WriteOk(c)
        PROVE  ServerStore!Next \/ UNCHANGED <<epochs, durable>>
    BY <2>3, WriteAdvances
  <2>4. CASE Load \/ Loaded \/ Reset \/ UNCHANGED serverVars
    BY <2>1, <2>4 DEF Load, Loaded, Reset, serverVars, worldVars
  <2>5. CASE (\E c \in Autos : Tick(c)) \/ (\E c \in Flushers : Flush(c))
    BY <2>1, <2>5 DEF Tick, Flush, worldVars
  <2>6. ASSUME NEW c \in Actors, Step(c) PROVE UNCHANGED <<epochs, durable>>
    BY <2>6 DEF Step, StartDrain, StartWrite, EncodeFails, AutosaveEnds, DrainReturns,
                FlushAgain, FlushReturns, worldVars
  <2>7. ASSUME NEW c \in Actors, WriteFails(c) PROVE UNCHANGED <<epochs, durable>>
    BY <2>7 DEF WriteFails, worldVars
  <2> QED
    BY <2>1, <2>2, <2>3, <2>4, <2>5, <2>6, <2>7 DEF ServerNext, Settles
<1> QED
  BY <1>1, <1>2, LifecycleCorrect, PTL DEF ServerSpec, ServerImplementsStore, ServerStore!Spec
=============================================================================
