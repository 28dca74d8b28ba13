----------------------------- MODULE WorkerPool -----------------------------
(***************************************************************************)
(* The worker pool of src/engine/WorkerPool.ts: a bounded priority queue,  *)
(* worker slots with a bounded number of jobs in flight, cancellation, and *)
(* the recovery that replaces the worker of a slot after an error.         *)
(*                                                                         *)
(* A worker is a slot and a generation: recoverSlot spawns the next        *)
(* generation but neither terminates the old worker nor detaches its       *)
(* handlers, so a worker that raised an error may still answer.  Handlers  *)
(* run to completion: while busy is not "idle" only the rest of the        *)
(* running handler takes steps.  Callbacks do not call the pool back.      *)
(***************************************************************************)
EXTENDS Naturals, FiniteSets

CONSTANTS Jobs,         \* the jobs callers may submit, each once
          Slots,        \* slot indices
          None,         \* no slot
          MaxPending,   \* capacity of the pending queue
          MaxInFlight,  \* jobs in flight per worker
          Urgent,       \* jobs of the higher priority
          Transferred,  \* jobs whose buffers moved to the worker
          Stamped,      \* jobs that carry the token cancelByToken is called with
          Throwing,     \* jobs whose onFailure callback throws
          Survives,     \* whether a worker that raised an error goes on
          MaxErrors     \* bound: worker errors

ASSUME SlotsAssumption ==
    Slots # {} /\ Slots \subseteq Nat /\ IsFiniteSet(Slots) /\ None \notin Slots
ASSUME CapsAssumption == MaxPending \in Nat /\ MaxInFlight \in Nat \ {0}
ASSUME JobSetsAssumption == /\ IsFiniteSet(Jobs)
                            /\ Urgent \subseteq Jobs /\ Transferred \subseteq Jobs
                            /\ Stamped \subseteq Jobs /\ Throwing \subseteq Jobs
ASSUME ErrorsAssumption == MaxErrors \in Nat /\ Survives \in BOOLEAN

VARIABLES
    pending,     \* the queued jobs
    seq,         \* seq[j]: the number submit gave j, 0 before
    record,      \* record[j]: slotIndex of the inFlight entry of j, or None
    marks,       \* marks[s]: the inFlight set of the slot object at index s
    gen,         \* gen[s]: generation of the worker of slot s
    posted,      \* requests a worker has not answered
    busy,        \* the running handler: idle, recover or dispatch
    left,        \* jobs of the broken slot recoverSlot has still to visit
    fired,       \* fired[j]: how often a callback of j was called
    cancelled,   \* jobs that were cancelled
    disposed, errors

poolVars == <<pending, seq, record, marks, gen, posted, busy, left, fired,
              cancelled, disposed, errors>>

Request == [job : Jobs, slot : Slots, gen : Nat]

PoolInit ==
    /\ pending = {}
    /\ seq = [j \in Jobs |-> 0]
    /\ record = [j \in Jobs |-> None]
    /\ marks = [s \in Slots |-> {}]
    /\ gen = [s \in Slots |-> 0]
    /\ posted = {}
    /\ busy = "idle"
    /\ left = {}
    /\ fired = [j \in Jobs |-> 0]
    /\ cancelled = {}
    /\ disposed = FALSE
    /\ errors = 0

-----------------------------------------------------------------------------
(* The queue and the slots. *)

\* Seeded bug: the queue accepts one entry too many.
IsOverfull == Cardinality(pending) > MaxPending

IsFull == Cardinality(pending) >= MaxPending

\* Higher priority first, then the order of submission.
Before(i, j) ==
    \/ i \in Urgent /\ j \notin Urgent
    \/ (i \in Urgent <=> j \in Urgent) /\ seq[i] < seq[j]

IsTop(j) == j \in pending /\ \A i \in pending \ {j} : Before(j, i)

Load(s) == Cardinality(marks[s])

\* pickSlot: the least loaded slot below the cap, the first of them.
Picked(s) ==
    /\ Load(s) < MaxInFlight
    /\ \A r \in Slots : Load(s) < Load(r) \/ (Load(s) = Load(r) /\ s <= r)

Saturated == \A s \in Slots : Load(s) >= MaxInFlight

Fire(js) == fired' = [j \in Jobs |-> IF j \in js THEN fired[j] + 1 ELSE fired[j]]

Outstanding == pending \cup {j \in Jobs : record[j] # None}

-----------------------------------------------------------------------------
(* Entry points. *)

\* A full queue or a disposed pool throws and changes nothing.
Submit(j) ==
    /\ busy = "idle"
    /\ ~ disposed
    /\ ~ IsFull
    /\ seq[j] = 0
    /\ seq' = [seq EXCEPT ![j] = 1 + Cardinality({i \in Jobs : seq[i] # 0})]
    /\ pending' = pending \cup {j}
    /\ busy' = "dispatch"
    /\ UNCHANGED <<record, marks, gen, posted, left, fired, cancelled, disposed, errors>>

\* slot.worker.postMessage(request)
RequestFor(j, s) == [job |-> j, slot |-> s, gen |-> gen[s]]

\* dispatch: one turn of its loop, and its end.
Dispatch(j, s) ==
    /\ busy = "dispatch"
    /\ IsTop(j)
    /\ Picked(s)
    /\ pending' = pending \ {j}
    /\ marks' = [marks EXCEPT ![s] = @ \cup {j}]
    /\ record' = [record EXCEPT ![j] = s]
    /\ posted' = posted \cup {RequestFor(j, s)}
    /\ UNCHANGED <<seq, gen, busy, left, fired, cancelled, disposed, errors>>

DispatchEnds ==
    /\ busy = "dispatch"
    /\ pending = {} \/ Saturated
    /\ busy' = "idle"
    /\ UNCHANGED <<pending, seq, record, marks, gen, posted, left, fired, cancelled,
                   disposed, errors>>

\* Seeded bug: a cancelled job keeps its slot's marker.
ForgetHalf(js) ==
    /\ pending' = pending \ js
    /\ record' = [j \in Jobs |-> IF j \in js THEN None ELSE record[j]]
    /\ UNCHANGED marks
    /\ cancelled' = cancelled \cup js

\* Drop the jobs js wherever they are, with the markers of their own slots.
Forget(js) ==
    /\ pending' = pending \ js
    /\ record' = [j \in Jobs |-> IF j \in js THEN None ELSE record[j]]
    /\ marks' = [s \in Slots |-> {j \in marks[s] : ~ (j \in js /\ record[j] = s)}]
    /\ cancelled' = cancelled \cup js

\* Seeded bug: nobody uses the capacity a cancellation freed.
AfterCancelIdle(j) == "idle"

\* Only the cancellation of a job in flight frees capacity.
AfterCancel(j) == IF record[j] # None THEN "dispatch" ELSE "idle"

Cancel(j) ==
    /\ busy = "idle"
    /\ ~ disposed
    /\ j \in Outstanding
    /\ Forget({j})
    /\ busy' = AfterCancel(j)
    /\ UNCHANGED <<seq, gen, posted, left, fired, disposed, errors>>

CancelByToken ==
    /\ busy = "idle"
    /\ ~ disposed
    /\ Stamped \cap Outstanding # {}
    /\ Forget(Stamped \cap Outstanding)
    /\ busy' = "dispatch"
    /\ UNCHANGED <<seq, gen, posted, left, fired, disposed, errors>>

\* Seeded bug: dispose tells the callers and keeps the jobs in flight.
KeepRecords == UNCHANGED record

\* inFlight.delete, for every job that dispose has told.
DropRecords == record' = [j \in Jobs |-> None]

\* Every outstanding job fails, unless a callback throws on the way; then the
\* workers stay and so do the jobs in flight that were not reached.
Dispose ==
    /\ busy = "idle"
    /\ ~ disposed
    /\ disposed' = TRUE
    /\ IF Outstanding \cap Throwing = {}
       THEN /\ Fire(Outstanding)
            /\ DropRecords
            /\ marks' = [s \in Slots |-> {}]
            /\ posted' = {p \in posted : p.gen # gen[p.slot]}
       ELSE /\ \E js \in SUBSET Outstanding, t \in Throwing :
                /\ js \cap Throwing = {t}
                /\ IF t \in pending THEN js \subseteq pending ELSE pending \subseteq js
                /\ Fire(js)
                /\ record' = [j \in Jobs |-> IF j \in js \ Throwing THEN None ELSE record[j]]
            /\ UNCHANGED <<marks, posted>>
    /\ pending' = {}
    /\ UNCHANGED <<seq, gen, busy, left, cancelled, errors>>

-----------------------------------------------------------------------------
(* Messages and errors of the workers. *)

\* A failure callback that throws leaves handleMessage before dispatch.
AfterFailure(j) == IF j \in Throwing THEN "idle" ELSE "dispatch"

\* Seeded bug: the job stays in flight after its answer.
ResolveTwice(j) == UNCHANGED record

\* inFlight.delete(jobId), before the callback.
Resolve(j) == record' = [record EXCEPT ![j] = None]

\* handleMessage: the worker p.slot, p.gen answers with a result, a failure or
\* a result of another generation token.
Answer(p, kind) ==
    /\ busy = "idle"
    /\ p \in posted
    /\ posted' = posted \ {p}
    /\ IF record[p.job] = None
       THEN UNCHANGED <<record, marks, fired, busy>>
       ELSE /\ Resolve(p.job)
            /\ marks' = [marks EXCEPT ![p.slot] = @ \ {p.job}]
            /\ Fire({p.job})
            /\ busy' = IF disposed THEN "idle"
                       ELSE IF kind = "failed" THEN AfterFailure(p.job) ELSE "dispatch"
    /\ UNCHANGED <<pending, seq, gen, left, cancelled, disposed, errors>>

\* Seeded bug: jobs that cannot be requeued are not visited.
RequeueableOf(s) == marks[s] \ Transferred

\* The jobs recoverSlot visits: the inFlight set of the slot it replaces.
JobsOf(s) == marks[s]

\* onerror, onmessageerror or close of the worker that was computing p; the
\* handler knows its slot, whatever generation holds it by now.
WorkerBreaks(p) ==
    /\ busy = "idle"
    /\ ~ disposed
    /\ errors < MaxErrors
    /\ p \in posted
    /\ errors' = errors + 1
    /\ posted' = IF Survives THEN posted \ {p}
                 ELSE {q \in posted : q.slot # p.slot \/ q.gen # p.gen}
    /\ gen' = [gen EXCEPT ![p.slot] = @ + 1]
    /\ left' = JobsOf(p.slot)
    /\ marks' = [marks EXCEPT ![p.slot] = {}]
    /\ busy' = "recover"
    /\ UNCHANGED <<pending, seq, record, fired, cancelled, disposed>>

Recovering(j) == busy = "recover" /\ j \in left

\* The set still names a job that was answered or cancelled.
RecoverNothing(j) ==
    /\ Recovering(j)
    /\ record[j] = None
    /\ left' = left \ {j}
    /\ UNCHANGED <<pending, record, fired, busy>>

RecoverRequeue(j) ==
    /\ Recovering(j)
    /\ record[j] # None
    /\ j \notin Transferred
    /\ ~ IsFull
    /\ pending' = pending \cup {j}
    /\ record' = [record EXCEPT ![j] = None]
    /\ left' = left \ {j}
    /\ UNCHANGED <<fired, busy>>

\* A callback that throws leaves recoverSlot with the rest unvisited.
RecoverFail(j) ==
    /\ Recovering(j)
    /\ record[j] # None
    /\ j \in Transferred \/ IsFull
    /\ record' = [record EXCEPT ![j] = None]
    /\ Fire({j})
    /\ IF j \in Throwing
       THEN left' = {} /\ busy' = "idle"
       ELSE left' = left \ {j} /\ UNCHANGED busy
    /\ UNCHANGED pending

RecoverJob(j) ==
    /\ RecoverNothing(j) \/ RecoverRequeue(j) \/ RecoverFail(j)
    /\ UNCHANGED <<seq, marks, gen, posted, cancelled, disposed, errors>>

\* Seeded bug: recoverSlot does not dispatch what it requeued.
RecoverStops ==
    /\ busy = "recover"
    /\ left = {}
    /\ busy' = "idle"
    /\ UNCHANGED <<pending, seq, record, marks, gen, posted, left, fired, cancelled,
                   disposed, errors>>

RecoverEnds ==
    /\ busy = "recover"
    /\ left = {}
    /\ busy' = "dispatch"
    /\ UNCHANGED <<pending, seq, record, marks, gen, posted, left, fired, cancelled,
                   disposed, errors>>

-----------------------------------------------------------------------------
Kinds == {"ok", "failed", "stale"}

Handler ==
    \/ \E j \in Jobs, s \in Slots : Dispatch(j, s)
    \/ DispatchEnds
    \/ \E j \in Jobs : RecoverJob(j)
    \/ RecoverEnds

Calls == (\E j \in Jobs : Submit(j) \/ Cancel(j)) \/ CancelByToken \/ Dispose

PoolNext ==
    \/ Calls
    \/ Handler
    \/ \E p \in posted : WorkerBreaks(p) \/ (\E kind \in Kinds : Answer(p, kind))

PoolSpec == PoolInit /\ [][PoolNext]_poolVars

\* A handler that runs goes on, and workers answer what they were sent.
AnswerJob(j) == \E p \in posted : p.job = j /\ \E kind \in Kinds : Answer(p, kind)

PoolFair ==
    /\ WF_poolVars(Handler)
    /\ \A j \in Jobs : SF_poolVars(AnswerJob(j))

PoolFairSpec == PoolSpec /\ PoolFair

-----------------------------------------------------------------------------
(* Properties. *)

PoolTypeOK ==
    /\ pending \subseteq Jobs
    /\ seq \in [Jobs -> Nat]
    /\ record \in [Jobs -> Slots \cup {None}]
    /\ marks \in [Slots -> SUBSET Jobs]
    /\ gen \in [Slots -> Nat]
    /\ posted \subseteq Request
    /\ busy \in {"idle", "recover", "dispatch"}
    /\ left \subseteq Jobs
    /\ fired \in [Jobs -> Nat]
    /\ cancelled \subseteq Jobs
    /\ disposed \in BOOLEAN
    /\ errors \in Nat

\* However often a job is sent, requeued and answered by workers old and new,
\* its caller hears of it at most once, and never after cancelling it.
OneOutcome == \A j \in Jobs : fired[j] <= (IF j \in cancelled THEN 0 ELSE 1)

\* The queue and the slots keep their bounds through requeues and respawns.
WithinCaps ==
    /\ Cardinality(pending) <= MaxPending
    /\ \A s \in Slots : Cardinality(marks[s]) <= MaxInFlight

\* The slot that computes a job knows it, so that its recovery requeues it.
RecordMarked ==
    \A j \in Jobs : record[j] # None => j \in marks[record[j]] \cup left

Leaked(j, s) == j \in marks[s] /\ record[j] # s

\* A worker that was replaced answers the job j that slot s has by now.
LateAnswer(j, s) ==
    \E p \in posted, kind \in Kinds :
        /\ p.job = j /\ p.gen # gen[p.slot] /\ p.slot # s
        /\ Answer(p, kind)

\* A slot stays charged for a job it does not compute in one way only: the late
\* answer of a replaced worker frees its own slot (l.454, 471) and not the slot
\* that has the job.  Cancellation, dispose, errors and recovery leak nothing.
MarkersLeakLate ==
    [][\A j \in Jobs, s \in Slots : ~ Leaked(j, s) /\ Leaked(j, s)' => LateAnswer(j, s)]_poolVars

\* Capacity is used: when jobs wait, each slot is full, with jobs it computes
\* or with markers of jobs a late answer has settled for it.
CapacityUsed ==
    busy = "idle" /\ ~ disposed /\ pending # {} =>
        \A s \in Slots : /\ Load(s) >= MaxInFlight
                         /\ \A j \in marks[s] : record[j] = s \/ fired[j] = 1

\* While jobs wait, some job is in flight whose answer will drain the queue:
\* an idle pool with a queue would wait for ever.
NoStall ==
    busy = "idle" /\ ~ disposed /\ pending # {} => \E j \in Jobs : record[j] # None

\* Nobody hears from a pool that was disposed of.
SilentAfterDispose == [][disposed => fired' = fired]_poolVars

\* A job is not forgotten: its caller hears of it or has cancelled it.
JobSettles == \A j \in Jobs : seq[j] # 0 ~> fired[j] > 0 \/ j \in cancelled
=============================================================================
