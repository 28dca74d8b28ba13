------------------------- MODULE ServerSaveLifecycle -------------------------
(***************************************************************************)
(* The server's save lifecycle of src/simulation/ServerSaveLifecycle.ts:   *)
(* load, dirty units, autosave drains in a promise chain, flush and        *)
(* saveAndClose, reset.                                                    *)
(*                                                                         *)
(* A unit object is identified with the epoch of the mark that brought it, *)
(* so every mark passes a new object.  An actor is one scheduled autosave  *)
(* drain or one call of flush or saveAndClose.  Unlike the client's queue, *)
(* a unit stays pending until its write is accepted, and the drains of a   *)
(* flush are not part of the chain.                                        *)
(***************************************************************************)
EXTENDS InsertionMap

CONSTANTS Keys,
          Autos,      \* slots of autosave drains
          Flushers,   \* slots of calls of flush, by itself or in saveAndClose
          Closers,    \* those of saveAndClose
          None,       \* no write in flight
          Limit,      \* limitPerDrain
          ZeroLimit,  \* flushZeroProgressLimit
          MaxEpoch    \* bound: how often a key is marked dirty

ASSUME ActorsAssumption == Autos \cap Flushers = {} /\ Closers \subseteq Flushers
ASSUME LimitsAssumption == Limit \in Nat \ {0} /\ ZeroLimit \in Nat \ {0}
ASSUME MarksAssumption == MaxEpoch \in Nat
ASSUME NoneAssumption == None \notin [key : Keys, epoch : Nat]

Actors == Autos \cup Flushers

VARIABLES
    state,      \* currentState: unloaded, loading, running, flushing or closed
    epochs,     \* epochs[k]: how often k was marked
    order,      \* keys of the pending Map in insertion order
    snap,       \* snap[k]: epoch of the pending unit of k, 0 if none
    chain,      \* autosave drains of drainChain that have not settled
    ahead,      \* ahead[c]: drains c waits for before its own first one
    phase,      \* phase[c]: idle, waiting, running, or returned from a drain
    batch,      \* batch[c]: units the drain of c has still to visit
    writing,    \* writing[c]: the unit whose write c awaits, or None
    written,    \* written[c]: how many writes of its drain were accepted
    zero,       \* zero[c]: zero-progress drains of the flush c in a row
    durable,    \* durable[k]: epoch of the payload in the store
    discarded   \* history: the latest epoch of k a reset threw away

pendingVars == <<order, snap>>
callVars == <<chain, ahead, phase, zero>>
drainVars == <<batch, writing, written>>
worldVars == <<epochs, durable, discarded>>
serverVars == <<state, pendingVars, callVars, drainVars, worldVars>>

ServerInit ==
    /\ state = "unloaded"
    /\ order = <<>>
    /\ snap = [k \in Keys |-> 0]
    /\ chain = {}
    /\ ahead = [c \in Actors |-> {}]
    /\ phase = [c \in Actors |-> "idle"]
    /\ zero = [c \in Actors |-> 0]
    /\ batch = [c \in Actors |-> <<>>]
    /\ writing = [c \in Actors |-> None]
    /\ written = [c \in Actors |-> 0]
    /\ epochs = [k \in Keys |-> 0]
    /\ durable = [k \in Keys |-> 0]
    /\ discarded = [k \in Keys |-> 0]

-----------------------------------------------------------------------------
(* Calls.  A call comes as a macrotask: no drain has a step to take. *)

AtAwait ==
    \A c \in Actors : /\ phase[c] # "returned"
                      /\ phase[c] = "running" => writing[c] # None
                      /\ phase[c] = "waiting" => ahead[c] # {}

Has(k) == snap[k] # 0

Load ==
    /\ AtAwait
    /\ state = "unloaded"
    /\ state' = "loading"
    /\ UNCHANGED <<pendingVars, callVars, drainVars, worldVars>>

\* readWorld answered and every record was decoded, or some was not.
Loaded ==
    /\ AtAwait
    /\ state = "loading"
    /\ state' \in {"running", "unloaded"}
    /\ UNCHANGED <<pendingVars, callVars, drainVars, worldVars>>

MarkDirty(k) ==
    /\ AtAwait
    /\ state = "running"
    /\ epochs[k] < MaxEpoch
    /\ epochs' = [epochs EXCEPT ![k] = @ + 1]
    /\ order' = Set(order, k)
    /\ snap' = [snap EXCEPT ![k] = epochs[k] + 1]
    /\ UNCHANGED <<state, callVars, drainVars, durable, discarded>>

\* tick, when the tick number is a multiple of autosaveEveryTicks.
Tick(c) ==
    /\ AtAwait
    /\ state = "running"
    /\ phase[c] = "idle"
    /\ phase' = [phase EXCEPT ![c] = "waiting"]
    /\ ahead' = [ahead EXCEPT ![c] = chain]
    /\ chain' = chain \cup {c}
    /\ UNCHANGED <<state, pendingVars, zero, drainVars, worldVars>>

\* Seeded bug: a flush does not wait for the drains scheduled before.
NothingAhead == {}

\* await this.drainChain
ScheduledAhead == chain

Flush(c) ==
    /\ AtAwait
    /\ state \in {"running", "flushing"}
    /\ phase[c] = "idle"
    /\ state' = "flushing"
    /\ phase' = [phase EXCEPT ![c] = "waiting"]
    /\ ahead' = [ahead EXCEPT ![c] = ScheduledAhead]
    /\ UNCHANGED <<pendingVars, chain, zero, drainVars, worldVars>>

\* Callers settle what they called before they reset.
Reset ==
    /\ \A c \in Actors : phase[c] = "idle"
    /\ state # "loading"
    /\ state' = "unloaded"
    /\ order' = <<>>
    /\ snap' = [k \in Keys |-> 0]
    /\ chain' = {}
    /\ discarded' = [k \in Keys |-> IF Has(k) THEN epochs[k] ELSE discarded[k]]
    /\ UNCHANGED <<ahead, phase, zero, drainVars, epochs, durable>>

-----------------------------------------------------------------------------
(* runDrain. *)

\* [...pending.entries()].slice(0, limit)
FirstUnits ==
    [i \in 1 .. (IF Limit < Len(order) THEN Limit ELSE Len(order)) |->
        [key |-> order[i], epoch |-> snap[order[i]]]]

\* runDrain up to its loop: a closed storage gate leaves nothing to do.
BeginDrain(c) ==
    /\ phase' = [phase EXCEPT ![c] = "running"]
    /\ \E units \in {FirstUnits, <<>>} : batch' = [batch EXCEPT ![c] = units]
    /\ written' = [written EXCEPT ![c] = 0]

\* The drains before it have settled.  A flush leaves at once when nothing is
\* pending; so does an autosave drain, after a drain of nothing.
StartDrain(c) ==
    /\ phase[c] = "waiting"
    /\ ahead[c] = {}
    /\ order # <<>> \/ c \in Autos
    /\ BeginDrain(c)
    /\ UNCHANGED <<state, pendingVars, chain, ahead, zero, writing, worldVars>>

Visiting(c) == phase[c] = "running" /\ writing[c] = None /\ batch[c] # <<>>

StartWrite(c) ==
    /\ Visiting(c)
    /\ writing' = [writing EXCEPT ![c] = Head(batch[c])]
    /\ batch' = [batch EXCEPT ![c] = Tail(@)]
    /\ UNCHANGED <<state, pendingVars, callVars, written, worldVars>>

\* Seeded bug: the unit is put back over a newer one.
RequeueStale(u) ==
    /\ order' = Append(Delete(order, u.key), u.key)
    /\ snap' = [snap EXCEPT ![u.key] = u.epoch]

\* requeueUnit: to the end, unless a newer unit of the key is pending.
Requeue(u) ==
    IF snap[u.key] \in {0, u.epoch}
    THEN /\ order' = Append(Delete(order, u.key), u.key)
         /\ snap' = [snap EXCEPT ![u.key] = u.epoch]
    ELSE UNCHANGED pendingVars

EncodeFails(c) ==
    /\ Visiting(c)
    /\ Requeue(Head(batch[c]))
    /\ batch' = [batch EXCEPT ![c] = Tail(@)]
    /\ UNCHANGED <<state, callVars, writing, written, worldVars>>

\* Seeded bug: the key leaves the pending set whatever unit it has by now.
RemoveKey(u) ==
    /\ order' = Delete(order, u.key)
    /\ snap' = [snap EXCEPT ![u.key] = 0]

\* if (pending.get(key) === unit) pending.delete(key)
Remove(u) ==
    IF snap[u.key] = u.epoch
    THEN /\ order' = Delete(order, u.key)
         /\ snap' = [snap EXCEPT ![u.key] = 0]
    ELSE UNCHANGED pendingVars

WriteOk(c) ==
    /\ AtAwait
    /\ writing[c] # None
    /\ Remove(writing[c])
    /\ durable' = [durable EXCEPT ![writing[c].key] = writing[c].epoch]
    /\ written' = [written EXCEPT ![c] = @ + 1]
    /\ writing' = [writing EXCEPT ![c] = None]
    /\ UNCHANGED <<state, callVars, batch, epochs, discarded>>

WriteFails(c) ==
    /\ AtAwait
    /\ writing[c] # None
    /\ Requeue(writing[c])
    /\ writing' = [writing EXCEPT ![c] = None]
    /\ UNCHANGED <<state, callVars, batch, written, worldVars>>

-----------------------------------------------------------------------------
(* The ends of drains and calls; their locals end with them. *)

Drained(c) == phase[c] = "running" /\ writing[c] = None /\ batch[c] = <<>>

AutosaveEnds(c) ==
    /\ c \in Autos
    /\ Drained(c)
    /\ phase' = [phase EXCEPT ![c] = "idle"]
    /\ written' = [written EXCEPT ![c] = 0]
    /\ chain' = chain \ {c}
    /\ ahead' = [d \in Actors |-> ahead[d] \ {c}]
    /\ UNCHANGED <<state, pendingVars, zero, batch, writing, worldVars>>

\* flush awaits runDrain: others' reactions may run before it goes on.
DrainReturns(c) ==
    /\ c \in Flushers
    /\ Drained(c)
    /\ phase' = [phase EXCEPT ![c] = "returned"]
    /\ UNCHANGED <<state, pendingVars, chain, ahead, zero, drainVars, worldVars>>

\* Seeded bug: the zero-progress guard is missing.
ZeroNever(c) == 0

\* zeroProgressRuns after the drain of c.
ZeroRuns(c) == IF written[c] = 0 THEN zero[c] + 1 ELSE 0

GivesUp(c) == ZeroRuns(c) >= ZeroLimit

FlushAgain(c) ==
    /\ phase[c] = "returned"
    /\ order # <<>>
    /\ ~ GivesUp(c)
    /\ zero' = [zero EXCEPT ![c] = ZeroRuns(c)]
    /\ BeginDrain(c)
    /\ UNCHANGED <<state, pendingVars, chain, ahead, writing, worldVars>>

\* Seeded bug: saveAndClose closes whatever flush has left.
CloseAnyway(c) == c \in Closers

\* saveAndClose throws and stays flushing while units are pending.
MayClose(c) == c \in Closers /\ order = <<>>

FlushReturns(c) ==
    /\ c \in Flushers
    /\ \/ phase[c] = "waiting" /\ ahead[c] = {} /\ order = <<>>
       \/ phase[c] = "returned" /\ (order = <<>> \/ GivesUp(c))
    /\ state' = IF MayClose(c) THEN "closed" ELSE state
    /\ phase' = [phase EXCEPT ![c] = "idle"]
    /\ written' = [written EXCEPT ![c] = 0]
    /\ zero' = [zero EXCEPT ![c] = 0]
    /\ UNCHANGED <<pendingVars, chain, ahead, batch, writing, worldVars>>

-----------------------------------------------------------------------------
\* What a drain does without giving up control.
Step(c) ==
    \/ StartDrain(c) \/ StartWrite(c) \/ EncodeFails(c)
    \/ AutosaveEnds(c) \/ DrainReturns(c) \/ FlushAgain(c) \/ FlushReturns(c)

Settles(c) == WriteOk(c) \/ WriteFails(c)

ServerNext ==
    \/ Load \/ Loaded \/ Reset
    \/ \E k \in Keys : MarkDirty(k)
    \/ \E c \in Autos : Tick(c)
    \/ \E c \in Flushers : Flush(c)
    \/ \E c \in Actors : Step(c) \/ Settles(c)

\* Promise reactions run.  A write settles, once no reaction is due: that turn
\* comes again and again, so its fairness is strong.  Calls are up to the server.
ServerSpec ==
    /\ ServerInit /\ [][ServerNext]_serverVars
    /\ WF_serverVars(\E c \in Actors : Step(c))
    /\ \A c \in Actors : SF_serverVars(Settles(c))

-----------------------------------------------------------------------------
(* Properties. *)

\* "no silent loss": a unit is pending until it is in the store, whichever
\* drains visit it, write it or fail to at the same time.
PendingUntilSaved ==
    \A k \in Keys :
        durable[k] < epochs[k] /\ discarded[k] < epochs[k] => snap[k] = epochs[k]

\* A world is closed only with everything in the store.
ClosedIsSaved ==
    state = "closed" =>
        \A k \in Keys : durable[k] = epochs[k] \/ discarded[k] = epochs[k]

\* The lifecycle and its store are a write-behind store too: no drain ever
\* puts an older unit over a newer one.
ServerStore == INSTANCE WriteBehindStore WITH latest <- epochs, stored <- durable
ServerImplementsStore == ServerStore!Spec

\* Once units are no longer refused (the storage gate may stay closed), every
\* flush and saveAndClose comes back.
Refusals == \E c \in Actors : EncodeFails(c) \/ WriteFails(c)
FlushEnds ==
    <>[][~ Refusals]_serverVars =>
        \A c \in Flushers : phase[c] # "idle" ~> phase[c] = "idle"
=============================================================================
