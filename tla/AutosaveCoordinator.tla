------------------------- MODULE AutosaveCoordinator -------------------------
(***************************************************************************)
(* The autosave policy of src/storage/AutosaveCoordinator.ts over the      *)
(* dirty-save queue.  A caller is one asynchronous call of tick() or       *)
(* flush(): ticks come from the interval, flushes from pagehide and from   *)
(* the owner of the coordinator, and each awaits drainReport in turn.      *)
(***************************************************************************)
EXTENDS DirtySaveQueue

CONSTANTS TickCalls,   \* call slots of tick()
          FlushCalls,  \* call slots of flush()
          ZeroLimit,   \* FLUSH_ZERO_PROGRESS_LIMIT
          MaxRounds    \* FLUSH_MAX_ROUNDS

ASSUME CallsAssumption == Callers = TickCalls \cup FlushCalls
ASSUME ZeroLimitAssumption == ZeroLimit \in Nat \ {0}
ASSUME MaxRoundsAssumption == MaxRounds \in Nat \ {0}

VARIABLES
    started,   \* the interval and the pagehide listeners are registered
    calling,   \* calling[c]: the call of c has not returned
    rounds,    \* rounds[c]: drains the flush of c has finished
    stalled,   \* stalled[c]: its zero-progress drains in a row
    wrote      \* wrote[c]: its total is above zero

flushVars == <<rounds, stalled, wrote>>
autosaveVars == <<vars, started, calling, flushVars>>

\* No microtask is due: bodies await their writes and callers were answered.
Quiet == AtAwait /\ \A c \in Callers : phase[c] # "settled"

CallsInit ==
    /\ calling = [c \in Callers |-> FALSE]
    /\ rounds = [c \in Callers |-> 0]
    /\ stalled = [c \in Callers |-> 0]
    /\ wrote = [c \in Callers |-> FALSE]

\* stop(): clear the interval and remove the listeners.
Stop == started' = FALSE

\* if (!this.started) this.start(), in markDirty.
Rearm == started' = TRUE

\* markDirty enqueues and re-arms a stopped coordinator.
Capture(k) ==
    /\ Quiet
    /\ MarkDirty(k)
    /\ Rearm
    /\ UNCHANGED <<calling, flushVars>>

\* An interval fire on an empty queue does nothing.
TickCall(c) ==
    /\ Quiet
    /\ started
    /\ c \in TickCalls
    /\ ~ calling[c]
    /\ order # <<>>
    /\ DrainReport(c)
    /\ calling' = [calling EXCEPT ![c] = TRUE]
    /\ UNCHANGED <<started, flushVars>>

\* Seeded bug: a flush drains as long as anything is pending.
DrainUntilEmpty(r, s) == order # <<>>

\* The while condition of flush(), over the counters of the call.
MayDrain(r, s) == order # <<>> /\ s < ZeroLimit /\ r < MaxRounds

\* flush() up to its first await; on an empty queue it has already returned.
FlushCall(c) ==
    /\ Quiet
    /\ c \in FlushCalls
    /\ ~ calling[c]
    /\ rounds' = [rounds EXCEPT ![c] = 0]
    /\ stalled' = [stalled EXCEPT ![c] = 0]
    /\ wrote' = [wrote EXCEPT ![c] = FALSE]
    /\ MayDrain(0, 0)
    /\ DrainReport(c)
    /\ calling' = [calling EXCEPT ![c] = TRUE]
    /\ UNCHANGED started

\* What onUnitsCommitted is told when the drain of c settles.
Committed(c) == IF written[c] > 0 THEN report[c] ELSE {}

TickReturn(c) ==
    /\ c \in TickCalls
    /\ Return(c)
    /\ calling' = [calling EXCEPT ![c] = FALSE]
    /\ UNCHANGED <<started, flushVars>>

\* The counters after a drain settled; they stop one past their limits, which
\* a flush that respects the limits never reaches.
Round(c) ==
    /\ c \in FlushCalls
    /\ AtAwait
    /\ phase[c] = "settled"
    /\ rounds' = [rounds EXCEPT ![c] = IF @ <= MaxRounds THEN @ + 1 ELSE @]
    /\ stalled' = [stalled EXCEPT
                     ![c] = IF written[c] > 0 THEN 0
                            ELSE IF @ <= ZeroLimit THEN @ + 1 ELSE @]
    /\ wrote' = [wrote EXCEPT ![c] = @ \/ written[c] > 0]
    /\ UNCHANGED started

\* flush() drains again: its call chains a new body at once.
FlushAgain(c) ==
    /\ Round(c)
    /\ MayDrain(rounds'[c], stalled'[c])
    /\ phase' = [phase EXCEPT ![c] = "waiting"]
    /\ tail' = Append(tail, c)
    /\ UNCHANGED <<queueVars, batch, writing, written, report, durable,
                   discarded, calling>>

FlushReturn(c) ==
    /\ Round(c)
    /\ ~ MayDrain(rounds'[c], stalled'[c])
    /\ Return(c)
    /\ calling' = [calling EXCEPT ![c] = FALSE]

=============================================================================
