--------------------------- MODULE GamePersistence ---------------------------
(***************************************************************************)
(* The persistence facade of src/storage/GamePersistence.ts: the autosave  *)
(* coordinator with the monitored sink, the overlay of pending chunk edits *)
(* that World reads back, the recovery probe, the truthful flush, dispose  *)
(* and the world-scoped reset.                                             *)
(***************************************************************************)
EXTENDS AutosaveCoordinator

CONSTANTS EditKeys,    \* the keys of chunk-edits units; the others have no overlay
          Facade,      \* the FlushCalls slot of GamePersistence.flush
          Closer,      \* the FlushCalls slot of the flush dispose awaits
          Resets,      \* whether a user resets the world
          MaxOutages   \* bound: how often the storage becomes unavailable

ASSUME EditKeysAssumption == EditKeys \subseteq Keys
ASSUME MaxOutagesAssumption == MaxOutages \in Nat
ASSUME ResetsAssumption == Resets \in BOOLEAN

VARIABLES
    overlay,     \* overlay[k]: epoch of the pending edit copy of k, 0 if none
    status, streak, checks,   \* the health monitor
    recovering,  \* the recovery probe interval is registered
    sinkFailed,  \* the sink remembers a failure no later write has cleared
    probed,      \* a sink check was scheduled since the facade flush began
    flushing,    \* what the facade flush awaits: none, drain, sink or probe
    lifecycle,   \* open, disposing or closed
    reset,       \* the last resetCurrentWorld: none, reading, deleting, ...
    saved,       \* the records the reset has read, by epoch
    up, outages  \* environment: the storage works; how often it went down

Sources == {"sink", "timer", "flush", "read"}

Health == INSTANCE StorageHealth

facadeVars == <<flushing, probed>>
resetVars == <<reset, saved>>
monitorVars == <<status, streak, checks, recovering, sinkFailed>>
envVars == <<up, outages>>
allVars == <<autosaveVars, overlay, monitorVars, facadeVars, lifecycle, resetVars, envVars>>

\* open() has finished: it starts the coordinator last.
GameInit ==
    /\ Init /\ CallsInit
    /\ started = TRUE
    /\ overlay = [k \in EditKeys |-> 0]
    /\ Health!HealthInit
    /\ recovering = FALSE /\ sinkFailed = FALSE
    /\ flushing = "none" /\ probed = FALSE
    /\ lifecycle = "open"
    /\ reset = "none" /\ saved = [k \in Keys |-> 0]
    /\ up = TRUE /\ outages = 0

-----------------------------------------------------------------------------
(* Captures. *)

\* captureChunkEdits and retainEvictedChunkEdits: mark, then keep the copy.
CaptureChunkEdits(k) ==
    /\ lifecycle = "open"
    /\ reset # "completed"
    /\ Capture(k)
    /\ overlay' = [overlay EXCEPT ![k] = epochs'[k]]
    /\ UNCHANGED <<monitorVars, facadeVars, lifecycle, resetVars, envVars>>

\* saveBlockEntities and saveChunkColumn look at disposed only.
SaveSnapshot(k) ==
    /\ lifecycle = "open"
    /\ Capture(k)
    /\ UNCHANGED <<overlay, monitorVars, facadeVars, lifecycle, resetVars, envVars>>

-----------------------------------------------------------------------------
(* The monitored sink under the drains. *)

ScheduleCheck ==
    /\ Health!StartCheck("sink")
    /\ probed' = (flushing # "none")

Unmoved == UNCHANGED <<started, calling, flushVars, overlay, recovering, status,
                       streak, lifecycle, resetVars, envVars>>

\* The synchronous steps of a body; a write starts only while the gate is open.
DrainStep(c) ==
    /\ StartDrain(c) \/ SkipSuperseded(c) \/ EndDrain(c) \/ (Health!CanWrite /\ StartWrite(c))
    /\ Unmoved
    /\ UNCHANGED <<sinkFailed, checks, facadeVars>>

\* A gated write rejects at once: the unit goes to the end of the queue, also
\* one that a reset has cleared since the batch was taken.
GatedWrite(c) ==
    /\ ~ Health!CanWrite
    /\ Visiting(c)
    /\ LET e == Head(batch[c]) IN
        /\ ~ Superseded(e)
        /\ order' = Set(Delete(order, e.key), e.key)
        /\ snap' = [snap EXCEPT ![e.key] = e.epoch]
    /\ batch' = [batch EXCEPT ![c] = Tail(@)]
    /\ UNCHANGED <<epochs, tail, phase, writing, written, report, durable,
                   discarded, sinkFailed, checks, facadeVars>>
    /\ Unmoved

SinkAccepts(c) ==
    /\ up
    /\ Quiet
    /\ WriteOk(c)
    /\ sinkFailed' = FALSE
    /\ IF sinkFailed THEN ScheduleCheck ELSE UNCHANGED <<checks, probed>>
    /\ Unmoved
    /\ UNCHANGED flushing

SinkRejects(c) ==
    /\ ~ up \/ (writing[c] # None /\ writing[c].key \in Poisoned)
    /\ Quiet
    /\ WriteFail(c)
    /\ sinkFailed' = TRUE
    /\ ScheduleCheck
    /\ Unmoved
    /\ UNCHANGED flushing

-----------------------------------------------------------------------------
(* Health checks and the recovery probe. *)

\* Seeded bug: the timer waits for the status failed.
TimerWhenFailed ==
    recovering' = IF status' = status THEN recovering
                  ELSE status' = "failed" /\ (recovering \/ lifecycle = "open")

\* Seeded bug: nobody arms the timer.
TimerNever == UNCHANGED recovering

\* The listener of the constructor, on a change of status.
RecoveryTimer ==
    recovering' = IF status' = status THEN recovering
                  ELSE status' # "ok" /\ (recovering \/ lifecycle = "open")

Probe(s) ==
    /\ Quiet
    /\ IF up THEN Health!ProbeOk(s) ELSE Health!ProbeFail(s)
    /\ RecoveryTimer
    /\ UNCHANGED <<autosaveVars, overlay, sinkFailed, facadeVars, lifecycle, resetVars,
                   envVars>>

RecoveryFires ==
    /\ Quiet
    /\ recovering
    /\ Health!StartCheck("timer")
    /\ UNCHANGED <<autosaveVars, overlay, status, streak, recovering, sinkFailed,
                   facadeVars, lifecycle, resetVars, envVars>>

\* loadCommittedChunkEdits and the like: a failed read starts a check.
ReadFails ==
    /\ Quiet
    /\ ~ up
    /\ Health!StartCheck("read")
    /\ UNCHANGED <<autosaveVars, overlay, status, streak, recovering, sinkFailed,
                   facadeVars, lifecycle, resetVars, envVars>>

-----------------------------------------------------------------------------
(* Calls and their returns. *)

\* Seeded bug: a committed key is released although a newer mark is pending.
ReleaseAll(keys) == [k \in EditKeys |-> IF k \in keys THEN 0 ELSE overlay[k]]

\* releaseCommittedPendingEdits, told the committed keys of a drain.
Release(keys) == [k \in EditKeys |-> IF k \in keys /\ ~ Has(k) THEN 0 ELSE overlay[k]]

\* prunePendingEdits: drop every copy whose unit has left the queue.
Prune == [k \in EditKeys |-> IF Has(k) THEN overlay[k] ELSE 0]

AutoTick(c) ==
    /\ TickCall(c)
    /\ UNCHANGED <<overlay, monitorVars, facadeVars, lifecycle, resetVars, envVars>>

\* The pagehide listener; it is registered while the coordinator is started.
PageHide(c) ==
    /\ started
    /\ c \notin {Facade, Closer}
    /\ FlushCall(c)
    /\ UNCHANGED <<overlay, monitorVars, facadeVars, lifecycle, resetVars, envVars>>

CallReturns(c) ==
    /\ c # Facade /\ c # Closer
    /\ TickReturn(c) \/ FlushReturn(c)
    /\ overlay' = Release(Committed(c))
    /\ UNCHANGED <<monitorVars, facadeVars, lifecycle, resetVars, envVars>>

NextRound(c) ==
    /\ FlushAgain(c)
    /\ overlay' = Release(Committed(c))
    /\ UNCHANGED <<monitorVars, facadeVars, lifecycle, resetVars, envVars>>

-----------------------------------------------------------------------------
(* GamePersistence.flush. *)

\* The caller is told queue.size, after a check when something is not right.
Report(wroteAny) ==
    /\ overlay' = Prune
    /\ flushing' = IF order # <<>> \/ (wroteAny /\ status # "ok") THEN "sink" ELSE "none"

FlushFacade ==
    /\ Facade \in FlushCalls
    /\ flushing = "none"
    /\ probed' = FALSE
    /\ FlushCall(Facade)
    /\ flushing' = "drain"
    /\ UNCHANGED <<overlay, monitorVars, lifecycle, resetVars, envVars>>

\* With an empty queue the coordinator returns zero at once.
FlushNothing ==
    /\ Quiet
    /\ Facade \in FlushCalls
    /\ flushing = "none"
    /\ order = <<>>
    /\ probed' = FALSE
    /\ Report(FALSE)
    /\ UNCHANGED <<autosaveVars, monitorVars, lifecycle, resetVars, envVars>>

FlushDrained ==
    /\ flushing = "drain"
    /\ FlushReturn(Facade)
    /\ Report(wrote'[Facade])
    /\ UNCHANGED <<monitorVars, probed, lifecycle, resetVars, envVars>>

\* settleChecks: wait for the sink's checks, and probe if it started none.
FlushSettles ==
    /\ Quiet
    /\ flushing = "sink"
    /\ "sink" \notin checks
    /\ IF probed
       THEN flushing' = "none" /\ UNCHANGED checks
       ELSE flushing' = "probe" /\ Health!StartCheck("flush")
    /\ UNCHANGED <<autosaveVars, overlay, status, streak, recovering, sinkFailed,
                   probed, lifecycle, resetVars, envVars>>

FlushProbed ==
    /\ Quiet
    /\ flushing = "probe"
    /\ "flush" \notin checks
    /\ flushing' = "none"
    /\ UNCHANGED <<autosaveVars, overlay, monitorVars, probed,
                   lifecycle, resetVars, envVars>>

-----------------------------------------------------------------------------
(* dispose and resetCurrentWorld. *)

Dispose ==
    /\ Closer \in FlushCalls
    /\ lifecycle = "open"
    /\ Quiet
    /\ recovering' = FALSE
    /\ Stop
    /\ IF order # <<>>
       THEN /\ lifecycle' = "disposing"
            /\ DrainReport(Closer)
            /\ calling' = [calling EXCEPT ![Closer] = TRUE]
       ELSE lifecycle' = "closed" /\ UNCHANGED <<vars, calling>>
    /\ UNCHANGED <<flushVars, overlay, status, streak, checks, sinkFailed, facadeVars,
                   resetVars, envVars>>

Disposed ==
    /\ FlushReturn(Closer)
    /\ overlay' = Release(Committed(Closer))
    /\ lifecycle' = "closed"
    /\ UNCHANGED <<monitorVars, facadeVars, resetVars, envVars>>

\* Stop the timers, drop what is pending, then read every record.
ResetWorld ==
    /\ Resets
    /\ lifecycle = "open"
    /\ reset \in {"none", "failed"}
    /\ Quiet
    /\ Clear
    /\ recovering' = FALSE
    /\ Stop
    /\ overlay' = [k \in EditKeys |-> 0]
    /\ reset' = "reading"
    /\ saved' = [k \in Keys |-> 0]
    /\ UNCHANGED <<calling, flushVars, status, streak, checks, sinkFailed, facadeVars,
                   lifecycle, envVars>>

ResetStep == Quiet /\ UNCHANGED <<queueVars, drainVars, discarded, started, calling,
                                  flushVars, overlay, monitorVars, facadeVars,
                                  lifecycle, envVars>>

ReadSnapshot ==
    /\ reset = "reading"
    /\ IF up THEN reset' = "deleting" /\ saved' = durable
       ELSE reset' = "failed" /\ UNCHANGED saved
    /\ UNCHANGED durable
    /\ ResetStep

\* One transaction over the stores deletes the records that were read.
Erase(store) == [k \in Keys |-> IF saved[k] # 0 THEN 0 ELSE store[k]]

DeleteRecords ==
    /\ reset = "deleting"
    /\ up
    /\ reset' = "completed"
    /\ durable' = Erase(durable)
    /\ UNCHANGED saved
    /\ ResetStep

\* Seeded bug: the deletes are separate requests and some have happened.
AbortedLate(store) == Erase(store)

\* An IndexedDB transaction that aborts leaves the store as it was.
Aborted(store) == store

TransactionAborts ==
    /\ reset = "deleting"
    /\ reset' = "restoring"
    /\ durable' = Aborted(durable)
    /\ UNCHANGED saved
    /\ ResetStep

\* The defensive restore writes the records that were read back.
RestoreRecords ==
    /\ reset = "restoring"
    /\ reset' = "failed"
    /\ durable' = IF up THEN [k \in Keys |-> IF saved[k] # 0 THEN saved[k] ELSE durable[k]]
                  ELSE durable
    /\ UNCHANGED saved
    /\ ResetStep

-----------------------------------------------------------------------------
(* The environment. *)

StorageFails ==
    /\ Quiet
    /\ up /\ outages < MaxOutages
    /\ up' = FALSE
    /\ outages' = outages + 1
    /\ UNCHANGED <<autosaveVars, overlay, monitorVars, facadeVars, lifecycle, resetVars>>

StorageRecovers ==
    /\ Quiet
    /\ ~ up
    /\ up' = TRUE
    /\ UNCHANGED <<autosaveVars, overlay, monitorVars, facadeVars, lifecycle, resetVars,
                   outages>>

-----------------------------------------------------------------------------
Captures == (\E k \in EditKeys : CaptureChunkEdits(k)) \/ (\E k \in Keys \ EditKeys : SaveSnapshot(k))
SinkSettles(c) == SinkAccepts(c) \/ SinkRejects(c)
Drains(c) == DrainStep(c) \/ GatedWrite(c) \/ SinkSettles(c)
Calls(c) == AutoTick(c) \/ PageHide(c)
Returns(c) == CallReturns(c) \/ NextRound(c)
FlushSteps == FlushDrained \/ FlushSettles \/ FlushProbed
ResetSteps == ReadSnapshot \/ DeleteRecords \/ TransactionAborts \/ RestoreRecords
Probes == \E s \in Sources : Probe(s)

GameNext ==
    \/ Captures
    \/ \E c \in Callers : Calls(c) \/ Drains(c) \/ Returns(c)
    \/ Probes \/ RecoveryFires \/ ReadFails
    \/ FlushFacade \/ FlushNothing \/ FlushSteps
    \/ Dispose \/ Disposed
    \/ ResetWorld \/ ResetSteps
    \/ StorageFails \/ StorageRecovers

GameSpec == GameInit /\ [][GameNext]_allVars

\* Timers fire while they are registered, promises are answered, and an outage
\* of the storage ends.  What comes from outside waits for a Quiet state, which
\* the microtasks keep interrupting: its fairness is strong.
GameFair ==
    /\ \A c \in Callers : /\ WF_allVars(DrainStep(c) \/ GatedWrite(c))
                          /\ WF_allVars(SinkSettles(c))
                          /\ WF_allVars(Returns(c))
    /\ \A c \in TickCalls : SF_allVars(AutoTick(c))
    /\ \A s \in Sources : SF_allVars(Probe(s))
    /\ SF_allVars(RecoveryFires)
    /\ WF_allVars(FlushSteps) /\ WF_allVars(Disposed)
    /\ SF_allVars(ResetSteps)
    /\ SF_allVars(StorageRecovers)

GameFairSpec == GameSpec /\ GameFair

-----------------------------------------------------------------------------
(* Properties. *)

\* An edit that is not in the store yet is readable through the pending
\* overlay (restorePendingChunkEdits), so an evicted chunk can be rebuilt.
OverlayCovers ==
    \A k \in EditKeys :
        reset = "none" /\ durable[k] < epochs[k] => overlay[k] = epochs[k]

Covered(k) == durable[k] < epochs[k] => overlay[k] = epochs[k]

\* A drain, a flush or dispose comes back to its caller.
Reported == \/ \E c \in Callers : CallReturns(c) \/ NextRound(c)
            \/ FlushNothing \/ FlushDrained \/ Disposed

\* With several callers, a flush of the facade among them, the copy of an
\* unsaved edit can go too early in one way only: another call reports while
\* the write of that edit is in flight, or after its mark was lost.
CopiesStay ==
    [][\A k \in EditKeys :
         reset' = "none" /\ Covered(k) /\ ~ Covered(k)' =>
           Reported /\ ((Held(k) /\ ~ Has(k)) \/ Lost(k))]_allVars

\* In the whole facade too, gated and refused writes, outages and flushes that
\* drain again lose no mark: it leaks when its superseded entry is skipped, or
\* goes with the records a reset deletes or writes back.
GameMarksStay ==
    [][\A k \in Keys :
         ~ Lost(k) /\ Lost(k)' => LostBySkip(k) \/ DeleteRecords \/ RestoreRecords]_allVars

\* While storage is unhealthy the recovery probe keeps looking.
RecoveryArmed ==
    lifecycle = "open" /\ reset = "none" /\ status # "ok" => recovering

\* When the storage works again, the monitor notices and the queue empties.
SavesResume == <>[](lifecycle # "open" \/ (status = "ok" /\ order = <<>>))

\* dispose() and the facade flush always come back, whatever the store refuses.
FacadeReturns ==
    /\ lifecycle = "disposing" ~> lifecycle = "closed"
    /\ flushing # "none" ~> flushing = "none"

\* A reset that failed kept every record it had read, or a newer one.
FailedResetKeeps ==
    reset = "failed" => \A k \in Keys : durable[k] >= saved[k]
=============================================================================
