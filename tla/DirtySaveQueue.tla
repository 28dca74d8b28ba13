--------------------------- MODULE DirtySaveQueue ---------------------------
(***************************************************************************)
(* The bounded dirty-save queue of src/storage/DirtySaveQueue.ts.  Units   *)
(* are identified by their key; a payload is identified with the epoch     *)
(* that markDirty gave it, so durable[k] is the epoch of the payload the   *)
(* store holds for k.                                                      *)
(*                                                                         *)
(* JavaScript runs a macrotask and the microtasks it leaves to completion: *)
(* a drain body gives up control only while it awaits sink.write.  The     *)
(* actions are the steps of the body between two awaits, and the entry     *)
(* points that only a macrotask can reach are guarded by AtAwait.          *)
(***************************************************************************)
EXTENDS InsertionMap

CONSTANTS Keys,      \* unit keys, for instance chunk-edits|w|0|0|0
          Callers,   \* concurrent callers of drainReport (ticks and flushes)
          None,      \* no write in flight
          Poisoned,  \* keys whose write the sink rejects every time
          Limit,     \* the limit a drain is called with
          MaxEpoch   \* bound: how often a key is marked dirty

ASSUME PoisonedAssumption == Poisoned \subseteq Keys
ASSUME LimitAssumption == Limit \in Nat
ASSUME MaxEpochAssumption == MaxEpoch \in Nat
ASSUME NoneAssumption == None \notin [key : Keys, epoch : Nat]

VARIABLES
    epochs,     \* epochs[k]: generation of the latest mark of k, 0 if never
    order,      \* keys of the pending Map in insertion order
    snap,       \* snap[k]: epoch of the pending entry of k, 0 if not pending
    tail,       \* the promise chain drainTail: calls in order, the head runs
    phase,      \* phase[c]: where the drain called by c stands
    batch,      \* batch[c]: entries the drain of c has still to visit
    writing,    \* writing[c]: the entry whose sink.write c awaits, or None
    written,    \* written[c]: how many writes of the drain of c were accepted
    report,     \* report[c]: the keys the drain of c has committed
    durable,    \* durable[k]: epoch of the payload in the store, 0 if none
    discarded   \* history: the latest epoch of k a clear() threw away

queueVars == <<epochs, order, snap>>
drainVars == <<tail, phase, batch, writing, written, report>>
vars == <<epochs, order, snap, tail, phase, batch, writing, written, report,
          durable, discarded>>

Entry == [key : Keys, epoch : Nat]
Phase == {"idle", "waiting", "running", "settled"}

-----------------------------------------------------------------------------
(* The pending Map. *)

Has(k) == snap[k] # 0

\* [...pending.entries()].slice(0, limit)
FirstEntries ==
    [i \in 1 .. (IF Limit < Len(order) THEN Limit ELSE Len(order)) |->
        [key |-> order[i], epoch |-> snap[order[i]]]]

-----------------------------------------------------------------------------
Init ==
    /\ epochs = [k \in Keys |-> 0]
    /\ order = <<>>
    /\ snap = [k \in Keys |-> 0]
    /\ tail = <<>>
    /\ phase = [c \in Callers |-> "idle"]
    /\ batch = [c \in Callers |-> <<>>]
    /\ writing = [c \in Callers |-> None]
    /\ written = [c \in Callers |-> 0]
    /\ report = [c \in Callers |-> {}]
    /\ durable = [k \in Keys |-> 0]
    /\ discarded = [k \in Keys |-> 0]

\* Seeded bug: no promise chain, every body starts at once.
MayStartUnchained(c) == TRUE

\* The body of a call starts when every earlier drain has settled.
MayStart(c) == tail # <<>> /\ Head(tail) = c

\* No step of a body is due: each started one is awaiting its write.
AtAwait ==
    \A c \in Callers : /\ phase[c] = "running" => writing[c] # None
                       /\ phase[c] = "waiting" => ~ MayStart(c)

MarkDirty(k) ==
    /\ AtAwait
    /\ epochs[k] < MaxEpoch
    /\ epochs' = [epochs EXCEPT ![k] = @ + 1]
    /\ order' = Set(order, k)
    /\ snap' = [snap EXCEPT ![k] = epochs[k] + 1]
    /\ UNCHANGED <<drainVars, durable, discarded>>

Clear ==
    /\ AtAwait
    /\ order' = <<>>
    /\ snap' = [k \in Keys |-> 0]
    /\ discarded' = [k \in Keys |-> IF Has(k) THEN epochs[k] ELSE discarded[k]]
    /\ UNCHANGED <<epochs, drainVars, durable>>

\* drainReport: chain the body behind the drains already called.
DrainReport(c) ==
    /\ AtAwait
    /\ phase[c] = "idle"
    /\ phase' = [phase EXCEPT ![c] = "waiting"]
    /\ tail' = Append(tail, c)
    /\ UNCHANGED <<queueVars, batch, writing, written, report, durable, discarded>>

StartDrain(c) ==
    /\ phase[c] = "waiting"
    /\ MayStart(c)
    /\ phase' = [phase EXCEPT ![c] = "running"]
    /\ batch' = [batch EXCEPT ![c] = FirstEntries]
    /\ written' = [written EXCEPT ![c] = 0]
    /\ report' = [report EXCEPT ![c] = {}]
    /\ UNCHANGED <<queueVars, tail, writing, durable, discarded>>

Visiting(c) == phase[c] = "running" /\ writing[c] = None /\ batch[c] # <<>>

Superseded(e) == epochs[e.key] # e.epoch

\* Seeded bug: the entry stays pending until its write is accepted.
RemoveNever(k) == UNCHANGED <<order, snap>>

\* pending.delete(key), the first statement of every iteration.
RemoveUpFront(k) ==
    /\ order' = Delete(order, k)
    /\ snap' = [snap EXCEPT ![k] = 0]

SkipSuperseded(c) ==
    /\ Visiting(c)
    /\ LET e == Head(batch[c]) IN
        /\ Superseded(e)
        /\ RemoveUpFront(e.key)
    /\ batch' = [batch EXCEPT ![c] = Tail(@)]
    /\ UNCHANGED <<epochs, tail, phase, writing, written, report, durable,
                   discarded>>

StartWrite(c) ==
    /\ Visiting(c)
    /\ LET e == Head(batch[c]) IN
        /\ ~ Superseded(e)
        /\ RemoveUpFront(e.key)
        /\ writing' = [writing EXCEPT ![c] = e]
    /\ batch' = [batch EXCEPT ![c] = Tail(@)]
    /\ UNCHANGED <<epochs, tail, phase, written, report, durable, discarded>>

\* committedKeys after the write of e: a superseded key is not committed.
Note(e, keys) == IF Superseded(e) THEN keys ELSE keys \cup {e.key}

\* The sink accepted the write.
WriteOk(c) ==
    /\ AtAwait
    /\ writing[c] # None
    /\ LET e == writing[c] IN
        /\ e.key \notin Poisoned
        /\ durable' = [durable EXCEPT ![e.key] = e.epoch]
        /\ report' = [report EXCEPT ![c] = Note(e, @)]
    /\ written' = [written EXCEPT ![c] = @ + 1]
    /\ writing' = [writing EXCEPT ![c] = None]
    /\ UNCHANGED <<queueVars, tail, phase, batch, discarded>>

\* Seeded bug: a rejected unit is not tried again.
RequeueNever(e) == UNCHANGED <<order, snap>>

\* Seeded bug: the rejected unit goes to the front and is tried first again.
RequeueFirst(e) ==
    IF Has(e.key)
    THEN UNCHANGED <<order, snap>>
    ELSE /\ order' = <<e.key>> \o order
         /\ snap' = [snap EXCEPT ![e.key] = e.epoch]

\* The sink rejected: re-queue at the end unless a newer mark is pending.
Requeue(e) ==
    IF Has(e.key)
    THEN UNCHANGED <<order, snap>>
    ELSE /\ order' = Set(order, e.key)
         /\ snap' = [snap EXCEPT ![e.key] = e.epoch]

WriteFail(c) ==
    /\ AtAwait
    /\ writing[c] # None
    /\ Requeue(writing[c])
    /\ writing' = [writing EXCEPT ![c] = None]
    /\ UNCHANGED <<epochs, tail, phase, batch, written, report, durable,
                   discarded>>

\* Seeded bug: a drain that wrote nothing never resolves.
DoneIfWritten(c) == batch[c] = <<>> /\ written[c] > 0

\* The for loop of the body is over.
Done(c) == batch[c] = <<>>

EndDrain(c) ==
    /\ phase[c] = "running"
    /\ writing[c] = None
    /\ Done(c)
    /\ phase' = [phase EXCEPT ![c] = "settled"]
    /\ tail' = Tail(tail)
    /\ UNCHANGED <<queueVars, batch, writing, written, report, durable, discarded>>

\* The caller takes the report, which ends with the call; it may call again.
Return(c) ==
    /\ AtAwait
    /\ phase[c] = "settled"
    /\ phase' = [phase EXCEPT ![c] = "idle"]
    /\ written' = [written EXCEPT ![c] = 0]
    /\ report' = [report EXCEPT ![c] = {}]
    /\ UNCHANGED <<queueVars, tail, batch, writing, durable, discarded>>

\* The steps of a drain that run without giving up control.
Body(c) == StartDrain(c) \/ SkipSuperseded(c) \/ StartWrite(c) \/ EndDrain(c)

Drain(c) == DrainReport(c) \/ Body(c) \/ WriteOk(c) \/ WriteFail(c) \/ Return(c)

Next == (\E k \in Keys : MarkDirty(k)) \/ Clear \/ (\E c \in Callers : Drain(c))

Spec == Init /\ [][Next]_vars

-----------------------------------------------------------------------------
(* Fairness.  Promise reactions run, an IndexedDB request settles, the      *)
(* autosave interval keeps calling, and a unit the store does not refuse    *)
(* for ever is accepted in the end.                                         *)

Accept(k) == \E c \in Callers : writing[c] # None /\ writing[c].key = k /\ WriteOk(c)

Fairness ==
    /\ \A c \in Callers : /\ WF_vars(Body(c))
                          /\ WF_vars(WriteOk(c) \/ WriteFail(c))
                          /\ WF_vars(Return(c))
                          /\ WF_vars(DrainReport(c))
    /\ \A k \in Keys \ Poisoned : SF_vars(Accept(k))

\* Nobody discards the pending units: no clear().
KeepNext == (\E k \in Keys : MarkDirty(k)) \/ (\E c \in Callers : Drain(c))
KeepSpec == Init /\ [][KeepNext]_vars /\ Fairness

-----------------------------------------------------------------------------
(* Properties. *)

TypeOK ==
    /\ epochs \in [Keys -> Nat]
    /\ order \in Seq(Keys)
    /\ snap \in [Keys -> Nat]
    /\ tail \in Seq(Callers)
    /\ phase \in [Callers -> Phase]
    /\ batch \in [Callers -> Seq(Entry)]
    /\ writing \in [Callers -> Entry \cup {None}]
    /\ written \in [Callers -> Nat]
    /\ report \in [Callers -> SUBSET Keys]
    /\ durable \in [Keys -> Nat]
    /\ discarded \in [Keys -> Nat]

\* The Map keeps one position for each pending key and none for the others,
\* through re-marks during a write, up-front removals, re-queues and clears.
OrderIsPending ==
    /\ Distinct(order)
    /\ \A k \in Keys : Has(k) <=> Occurs(order, k)

\* drainTail is a mutex: of all the concurrent callers of drainReport at most
\* one has a write in flight.
SingleFlight ==
    \A c, d \in Callers : writing[c] # None /\ writing[d] # None => c = d

\* Whatever is pending or in flight is newer than what the store holds, and
\* what is pending behind a write of its own key is newer than that write: no
\* snapshot is written twice and the last write of a key is never a superseded
\* payload.
NewerThanStore ==
    /\ \A k \in Keys : Has(k) => durable[k] < snap[k] /\ snap[k] <= epochs[k]
    /\ \A c \in Callers :
        LET e == writing[c] IN
        e # None => /\ durable[e.key] < e.epoch
                    /\ Has(e.key) => e.epoch < snap[e.key]

\* The chain of calls: each unsettled call is in it once, only its head runs,
\* and only a running body holds a batch or a write.
ChainOK ==
    /\ Distinct(tail)
    /\ \A c \in Callers :
        /\ phase[c] \in {"waiting", "running"} <=> Occurs(tail, c)
        /\ phase[c] = "running" => MayStart(c)
        /\ phase[c] # "running" => writing[c] = None /\ batch[c] = <<>>

\* What a running drain has still to write is newer than the store, each key
\* once, and not the key whose write it awaits.
BatchOK ==
    \A c \in Callers :
        /\ \A i, j \in 1 .. Len(batch[c]) : batch[c][i].key = batch[c][j].key => i = j
        /\ \A i \in 1 .. Len(batch[c]) :
            LET e == batch[c][i] IN
            /\ durable[e.key] < e.epoch
            /\ e.epoch <= epochs[e.key]
            /\ writing[c] # None => writing[c].key # e.key
        /\ writing[c] # None => writing[c].epoch <= epochs[writing[c].key]

\* The store holds nothing that was never marked.
StoreMarked == \A k \in Keys : durable[k] <= epochs[k]

\* The queue and its store are a write-behind store (abstract specification).
Store == INSTANCE WriteBehindStore WITH latest <- epochs, stored <- durable
ImplementsStore == Store!Spec

\* The latest mark of k is pending or on its way to the store.
Held(k) ==
    \/ snap[k] = epochs[k]
    \/ \E c \in Callers : /\ writing[c] # None
                          /\ writing[c].key = k /\ writing[c].epoch = epochs[k]

\* Nobody will ever write the latest mark of k, and no clear() dropped it.
Lost(k) == durable[k] < epochs[k] /\ discarded[k] < epochs[k] /\ ~ Held(k)

\* "no silent loss": the latest mark of every key is in the store, pending, in
\* flight, or was thrown away by a clear().
NothingLost == \A k \in Keys : ~ Lost(k)

\* A running drain visits k with an entry that a newer mark has superseded.
LostBySkip(k) == \E c \in Callers : SkipSuperseded(c) /\ Head(batch[c]).key = k

\* The deletion of a superseded entry (l.113) is the only leak of the queue:
\* marks while writes are in flight, refused writes, drains of any length and
\* any number of callers lose nothing.
MarksStay == [][\A k \in Keys : ~ Lost(k) /\ Lost(k)' => LostBySkip(k)]_vars

\* The mutex cannot be held for ever: every call of drainReport settles.
CallSettles == \A c \in Callers : phase[c] = "waiting" ~> phase[c] = "settled"

\* A drain that runs has still to visit k.
InBatch(k) == \E c \in Callers : \E i \in 1 .. Len(batch[c]) : batch[c][i].key = k

\* A pending unit is stored in the end, if it is not marked again, whatever
\* other units the store refuses for ever: a rejected unit goes to the
\* end of the queue and cannot starve the ones behind it.  (A unit that a
\* running drain has still to visit may be lost, see NothingLost.)
EventuallyDurable ==
    \A k \in Keys \ Poisoned : \A n \in 1 .. MaxEpoch :
        snap[k] = n /\ ~ InBatch(k) ~> durable[k] >= n \/ epochs[k] > n
=============================================================================
