-------------------------- MODULE WorkerPool_proofs --------------------------
(***************************************************************************)
(* The safety of the worker pool for every number of jobs, slots and worker *)
(* errors, when no failure callback throws.                                *)
(***************************************************************************)
EXTENDS WorkerPool, FiniteSetTheorems, TLAPS

Live(j) == j \in pending \/ record[j] # None

\* A job that is not submitted has left no trace; one that is live was neither
\* reported nor cancelled, and is in the queue or in flight, not both.
JobInv ==
    \A j \in Jobs :
        /\ seq[j] = 0 => ~ Live(j) /\ fired[j] = 0 /\ j \notin cancelled
        /\ Live(j) => fired[j] = 0 /\ j \notin cancelled
        /\ ~ (j \in pending /\ record[j] # None)

\* recoverSlot owns left while it runs; a disposed pool holds no job.
ControlInv ==
    /\ busy # "recover" => left = {}
    /\ disposed => busy = "idle" /\ \A j \in Jobs : ~ Live(j)

PoolInv == PoolTypeOK /\ JobInv /\ ControlInv /\ OneOutcome /\ RecordMarked

-----------------------------------------------------------------------------
LEMMA PoolInitInv == ASSUME PoolInit PROVE PoolInv
<1>1. PoolTypeOK
  BY DEF PoolInit, PoolTypeOK
<1>2. JobInv
  BY DEF PoolInit, JobInv, Live
<1>3. ControlInv
  BY DEF PoolInit, ControlInv
<1>4. OneOutcome /\ RecordMarked
  BY DEF PoolInit, OneOutcome, RecordMarked
<1>. QED BY <1>1, <1>2, <1>3, <1>4 DEF PoolInv

\* submit numbers a job above zero.
LEMMA SubmitNumber ==
  ASSUME seq \in [Jobs -> Nat]
  PROVE 1 + Cardinality({i \in Jobs : seq[i] # 0}) \in Nat \ {0}
<1>1. {i \in Jobs : seq[i] # 0} \subseteq Jobs
  OBVIOUS
<1>2. IsFiniteSet({i \in Jobs : seq[i] # 0})
  BY <1>1, JobSetsAssumption, FS_Subset
<1>. QED BY <1>2, FS_CardinalityType

LEMMA SubmitInv == ASSUME PoolInv, NEW j \in Jobs, Submit(j) PROVE PoolInv'
<1>1. seq' \in [Jobs -> Nat] /\ seq'[j] # 0 /\ \A i \in Jobs \ {j} : seq'[i] = seq[i]
  BY SubmitNumber DEF Submit, PoolInv, PoolTypeOK
<1>2. PoolTypeOK'
  BY <1>1 DEF Submit, PoolInv, PoolTypeOK, Request
<1>3. JobInv'
  BY <1>1 DEF Submit, PoolInv, JobInv, Live
<1>4. ControlInv'
  BY DEF Submit, PoolInv, ControlInv
<1>5. OneOutcome' /\ RecordMarked'
  BY DEF Submit, PoolInv, OneOutcome, RecordMarked
<1>. QED BY <1>2, <1>3, <1>4, <1>5 DEF PoolInv

LEMMA DispatchInv ==
  ASSUME PoolInv, NEW j \in Jobs, NEW s \in Slots, Dispatch(j, s)
  PROVE PoolInv'
<1>0. PoolTypeOK /\ j \in pending /\ busy = "dispatch" /\ s # None
  BY SlotsAssumption DEF Dispatch, IsTop, PoolInv
<1>1. RequestFor(j, s) \in Request
  BY <1>0 DEF RequestFor, Request, PoolTypeOK
<1>2. PoolTypeOK'
  <2>1. record' \in [Jobs -> Slots \cup {None}] /\ marks' \in [Slots -> SUBSET Jobs]
    BY <1>0 DEF Dispatch, PoolTypeOK
  <2>2. pending' \subseteq Jobs /\ posted' \subseteq Request
    BY <1>0, <1>1 DEF Dispatch, PoolTypeOK
  <2>. QED BY <1>0, <2>1, <2>2 DEF Dispatch, PoolTypeOK
<1>3. JobInv'
  BY <1>0 DEF Dispatch, PoolInv, JobInv, Live, PoolTypeOK
<1>4. ControlInv'
  BY <1>0 DEF Dispatch, PoolInv, ControlInv
<1>5. OneOutcome'
  BY DEF Dispatch, PoolInv, OneOutcome
<1>6. RecordMarked'
  BY <1>0 DEF Dispatch, PoolInv, PoolTypeOK, RecordMarked
<1>. QED BY <1>2, <1>3, <1>4, <1>5, <1>6 DEF PoolInv

\* Cancelling live jobs, whichever and however many.
LEMMA ForgetInv ==
  ASSUME PoolInv, ~ disposed, busy = "idle", NEW js \in SUBSET Outstanding, Forget(js),
         busy' \in {"idle", "dispatch"},
         UNCHANGED <<seq, gen, posted, left, fired, disposed, errors>>
  PROVE PoolInv'
<1>1. js \subseteq Jobs /\ \A j \in js : Live(j)
  BY DEF Outstanding, Live, PoolInv, PoolTypeOK
<1>2. PoolTypeOK'
  <2>1. record' \in [Jobs -> Slots \cup {None}] /\ marks' \in [Slots -> SUBSET Jobs]
    BY DEF Forget, PoolInv, PoolTypeOK
  <2>2. pending' \subseteq Jobs /\ cancelled' \subseteq Jobs
    BY <1>1 DEF Forget, PoolInv, PoolTypeOK
  <2>. QED BY <2>1, <2>2 DEF PoolInv, PoolTypeOK
<1>3. JobInv'
  BY <1>1 DEF Forget, PoolInv, JobInv, Live
<1>4. ControlInv'
  BY DEF PoolInv, ControlInv
<1>5. OneOutcome'
  BY <1>1 DEF Forget, PoolInv, OneOutcome, JobInv
<1>6. RecordMarked'
  BY DEF Forget, PoolInv, RecordMarked, PoolTypeOK
<1>. QED BY <1>2, <1>3, <1>4, <1>5, <1>6 DEF PoolInv

LEMMA DisposeInv ==
  ASSUME Throwing = {}, PoolInv, Dispose
  PROVE PoolInv'
<1>0. /\ Fire(Outstanding) /\ DropRecords
      /\ marks' = [s \in Slots |-> {}] /\ posted' \subseteq posted
      /\ pending' = {} /\ busy = "idle" /\ disposed' = TRUE
      /\ UNCHANGED <<seq, gen, busy, left, cancelled, errors>>
  BY DEF Dispose
<1>1. /\ fired' \in [Jobs -> Nat]
      /\ \A j \in Jobs : fired'[j] = IF Live(j) THEN fired[j] + 1 ELSE fired[j]
  BY <1>0 DEF Fire, Outstanding, Live, PoolInv, PoolTypeOK
<1>2. PoolTypeOK'
  BY <1>0, <1>1 DEF DropRecords, PoolInv, PoolTypeOK
<1>3. JobInv'
  BY <1>0, <1>1 DEF DropRecords, PoolInv, JobInv, Live
<1>4. ControlInv'
  BY <1>0 DEF DropRecords, PoolInv, ControlInv, Live
<1>5. OneOutcome'
  BY <1>0, <1>1 DEF PoolInv, OneOutcome, JobInv, PoolTypeOK
<1>6. RecordMarked'
  BY <1>0 DEF DropRecords, RecordMarked
<1>. QED BY <1>2, <1>3, <1>4, <1>5, <1>6 DEF PoolInv

LEMMA AnswerInv ==
  ASSUME Throwing = {}, PoolInv, NEW p \in posted, NEW kind \in Kinds, Answer(p, kind)
  PROVE PoolInv'
<1>0. p \in Request /\ p.job \in Jobs /\ p.slot \in Slots
  BY DEF PoolInv, PoolTypeOK, Request
<1>1. CASE record[p.job] = None
  BY <1>0, <1>1 DEF Answer, PoolInv, PoolTypeOK, JobInv, Live, ControlInv, OneOutcome,
                    RecordMarked
<1>2. CASE record[p.job] # None
  <2>0. ~ disposed /\ busy = "idle" /\ fired[p.job] = 0 /\ p.job \notin cancelled
        /\ p.job \notin pending /\ seq[p.job] # 0
    BY <1>0, <1>2 DEF Answer, PoolInv, ControlInv, JobInv, Live
  <2>1. /\ fired' \in [Jobs -> Nat]
        /\ \A j \in Jobs : fired'[j] = IF j = p.job THEN 1 ELSE fired[j]
    BY <1>0, <1>2, <2>0 DEF Answer, Fire, PoolInv, PoolTypeOK
  <2>2. /\ record' = [record EXCEPT ![p.job] = None]
        /\ marks' = [marks EXCEPT ![p.slot] = @ \ {p.job}]
        /\ busy' \in {"idle", "dispatch"} /\ posted' \subseteq posted
        /\ UNCHANGED <<pending, seq, gen, left, cancelled, disposed, errors>>
    BY <1>2 DEF Answer, Resolve, AfterFailure
  <2>3. PoolTypeOK'
    <3>1. record' \in [Jobs -> Slots \cup {None}] /\ marks' \in [Slots -> SUBSET Jobs]
      BY <1>0, <2>2 DEF PoolInv, PoolTypeOK
    <3>. QED BY <2>1, <2>2, <3>1 DEF PoolInv, PoolTypeOK
  <2>4. JobInv'
    BY <1>0, <2>0, <2>1, <2>2 DEF PoolInv, PoolTypeOK, JobInv, Live
  <2>5. ControlInv'
    BY <2>0, <2>2 DEF PoolInv, ControlInv
  <2>6. OneOutcome'
    BY <2>0, <2>1, <2>2 DEF PoolInv, OneOutcome
  <2>7. RecordMarked'
    BY <1>0, <2>2 DEF PoolInv, PoolTypeOK, RecordMarked
  <2>. QED BY <2>3, <2>4, <2>5, <2>6, <2>7 DEF PoolInv
<1>. QED BY <1>1, <1>2

LEMMA BreaksInv ==
  ASSUME PoolInv, NEW p \in posted, WorkerBreaks(p)
  PROVE PoolInv'
<1>0. p.slot \in Slots /\ posted' \subseteq posted /\ left = {} /\ busy = "idle" /\ ~ disposed
  BY DEF WorkerBreaks, PoolInv, PoolTypeOK, Request, ControlInv
<1>1. marks' \in [Slots -> SUBSET Jobs] /\ gen' \in [Slots -> Nat] /\ left' \subseteq Jobs
  BY <1>0 DEF WorkerBreaks, JobsOf, PoolInv, PoolTypeOK
<1>2. PoolTypeOK'
  BY <1>0, <1>1, ErrorsAssumption DEF WorkerBreaks, PoolInv, PoolTypeOK
<1>3. JobInv' /\ OneOutcome' /\ ControlInv'
  BY <1>0 DEF WorkerBreaks, PoolInv, JobInv, Live, OneOutcome, ControlInv
<1>4. RecordMarked'
  BY <1>0 DEF WorkerBreaks, JobsOf, PoolInv, PoolTypeOK, RecordMarked
<1>. QED BY <1>2, <1>3, <1>4 DEF PoolInv

LEMMA RecoverInv ==
  ASSUME Throwing = {}, PoolInv, NEW j \in Jobs, RecoverJob(j)
  PROVE PoolInv'
<1>0. /\ j \in left /\ left' = left \ {j} /\ busy = "recover" /\ busy' = "recover"
      /\ ~ disposed
      /\ UNCHANGED <<seq, marks, gen, posted, cancelled, disposed, errors>>
  BY DEF RecoverJob, RecoverNothing, RecoverRequeue, RecoverFail, Recovering, PoolInv,
         ControlInv
<1>1. CASE RecoverNothing(j)
  BY <1>0, <1>1 DEF RecoverNothing, PoolInv, PoolTypeOK, JobInv, Live, ControlInv,
                    OneOutcome, RecordMarked
<1>2. CASE RecoverRequeue(j)
  <2>1. PoolTypeOK'
    BY <1>0, <1>2 DEF RecoverRequeue, PoolInv, PoolTypeOK
  <2>2. JobInv'
    BY <1>0, <1>2 DEF RecoverRequeue, PoolInv, PoolTypeOK, JobInv, Live
  <2>3. ControlInv' /\ OneOutcome'
    BY <1>0, <1>2 DEF RecoverRequeue, PoolInv, ControlInv, OneOutcome
  <2>4. RecordMarked'
    BY <1>0, <1>2 DEF RecoverRequeue, PoolInv, PoolTypeOK, RecordMarked
  <2>. QED BY <2>1, <2>2, <2>3, <2>4 DEF PoolInv
<1>3. CASE RecoverFail(j)
  <2>0. record[j] # None /\ fired[j] = 0 /\ j \notin cancelled /\ j \notin pending
        /\ seq[j] # 0
    BY <1>3 DEF RecoverFail, PoolInv, JobInv, Live
  <2>1. /\ fired' \in [Jobs -> Nat]
        /\ \A i \in Jobs : fired'[i] = IF i = j THEN 1 ELSE fired[i]
    BY <1>3, <2>0 DEF RecoverFail, Fire, PoolInv, PoolTypeOK
  <2>2. record' = [record EXCEPT ![j] = None] /\ pending' = pending
    BY <1>3 DEF RecoverFail
  <2>3. PoolTypeOK'
    BY <1>0, <2>1, <2>2 DEF PoolInv, PoolTypeOK
  <2>4. JobInv'
    BY <1>0, <2>0, <2>1, <2>2 DEF PoolInv, PoolTypeOK, JobInv, Live
  <2>5. ControlInv' /\ OneOutcome'
    BY <1>0, <2>0, <2>1, <2>2 DEF PoolInv, ControlInv, OneOutcome
  <2>6. RecordMarked'
    BY <1>0, <2>2 DEF PoolInv, PoolTypeOK, RecordMarked
  <2>. QED BY <2>3, <2>4, <2>5, <2>6 DEF PoolInv
<1>. QED BY <1>1, <1>2, <1>3 DEF RecoverJob

LEMMA PoolNextInv ==
  ASSUME Throwing = {}, PoolInv, [PoolNext]_poolVars
  PROVE PoolInv'
<1>1. ASSUME NEW j \in Jobs, Cancel(j) PROVE PoolInv'
  <2>1. {j} \in SUBSET Outstanding /\ AfterCancel(j) \in {"idle", "dispatch"}
    BY <1>1 DEF Cancel, AfterCancel
  <2>. QED BY <1>1, <2>1, ForgetInv DEF Cancel
<1>2. CASE CancelByToken
  BY <1>2, ForgetInv DEF CancelByToken
<1>3. CASE Calls
  BY <1>1, <1>2, <1>3, SubmitInv, DisposeInv DEF Calls
<1>4. CASE DispatchEnds \/ RecoverEnds
  BY <1>4 DEF DispatchEnds, RecoverEnds, PoolInv, PoolTypeOK, JobInv, Live, ControlInv,
              OneOutcome, RecordMarked
<1>5. CASE Handler
  BY <1>4, <1>5, DispatchInv, RecoverInv DEF Handler
<1>6. CASE UNCHANGED poolVars
  BY <1>6 DEF poolVars, PoolInv, PoolTypeOK, JobInv, Live, ControlInv, OneOutcome,
              RecordMarked
<1>. QED BY <1>3, <1>5, <1>6, AnswerInv, BreaksInv DEF PoolNext

LEMMA SpecPoolInv == ASSUME Throwing = {} PROVE PoolSpec => []PoolInv
<1>1. PoolInv /\ [PoolNext]_poolVars => PoolInv'
  BY PoolNextInv
<1>. QED BY PoolInitInv, <1>1, PTL DEF PoolSpec

-----------------------------------------------------------------------------
\* Every variable of the pool keeps its type.
THEOREM PoolTypeCorrect == ASSUME Throwing = {} PROVE PoolSpec => []PoolTypeOK
<1>1. PoolInv => PoolTypeOK
  BY DEF PoolInv
<1>. QED BY SpecPoolInv, <1>1, PTL

\* The promise of submit: whatever workers break, answer late or answer twice,
\* a job reaches its caller at most once, and not at all when it was cancelled.
THEOREM AtMostOnce == ASSUME Throwing = {} PROVE PoolSpec => []OneOutcome
<1>1. PoolInv => OneOutcome
  BY DEF PoolInv
<1>. QED BY SpecPoolInv, <1>1, PTL

\* recoverSlot sees every job the broken worker had: none is stranded.
THEOREM NobodyStranded == ASSUME Throwing = {} PROVE PoolSpec => []RecordMarked
<1>1. PoolInv => RecordMarked
  BY DEF PoolInv
<1>. QED BY SpecPoolInv, <1>1, PTL

\* After dispose no callback runs, late answers of old workers included.
THEOREM DisposedIsSilent == ASSUME Throwing = {} PROVE PoolSpec => SilentAfterDispose
<1>1. ASSUME PoolInv, [PoolNext]_poolVars, disposed PROVE fired' = fired
  <2>0. \A j \in Jobs : record[j] = None
    BY <1>1 DEF PoolInv, ControlInv, Live
  <2>1. busy = "idle"
    BY <1>1 DEF PoolInv, ControlInv
  <2>2. ASSUME NEW p \in posted, NEW kind \in Kinds, Answer(p, kind) PROVE fired' = fired
    <3>1. p.job \in Jobs
      BY <1>1 DEF PoolInv, PoolTypeOK, Request
    <3>. QED BY <2>0, <2>2, <3>1 DEF Answer
  <2>3. ASSUME NEW p \in posted, WorkerBreaks(p) PROVE FALSE
    BY <1>1, <2>3 DEF WorkerBreaks
  <2>4. CASE Calls
    BY <1>1, <2>4 DEF Calls, Submit, Cancel, CancelByToken, Dispose
  <2>5. CASE Handler
    BY <2>1, <2>5 DEF Handler, Dispatch, DispatchEnds, RecoverJob, RecoverNothing,
                      RecoverRequeue, RecoverFail, Recovering, RecoverEnds
  <2>. QED BY <1>1, <2>2, <2>3, <2>4, <2>5 DEF PoolNext, poolVars
<1>2. PoolInv /\ [PoolNext]_poolVars => [disposed => fired' = fired]_poolVars
  BY <1>1
<1>. QED BY SpecPoolInv, <1>2, PTL DEF PoolSpec, SilentAfterDispose

-----------------------------------------------------------------------------
(* The bounds of the queue and of the slots. *)

LEMMA Smaller ==
  ASSUME NEW S \in SUBSET Jobs, NEW T \in SUBSET S, NEW n \in Nat, Cardinality(S) <= n
  PROVE  Cardinality(T) <= n
<1>1. IsFiniteSet(S) /\ IsFiniteSet(T) /\ Cardinality(T) <= Cardinality(S)
  BY JobSetsAssumption, FS_Subset
<1>. QED BY <1>1, FS_CardinalityType

LEMMA OneMore ==
  ASSUME NEW S \in SUBSET Jobs, NEW j \in Jobs, NEW n \in Nat, ~ Cardinality(S) >= n
  PROVE  Cardinality(S \cup {j}) <= n
<1>1. IsFiniteSet(S) /\ Cardinality(S) \in Nat
  BY JobSetsAssumption, FS_Subset, FS_CardinalityType
<1>2. Cardinality(S \cup {j}) \in {Cardinality(S), Cardinality(S) + 1}
  BY <1>1, FS_AddElement
<1>. QED BY <1>1, <1>2

LEMMA NextWithinCaps ==
  ASSUME PoolTypeOK, WithinCaps, [PoolNext]_poolVars
  PROVE WithinCaps'
<1>t. /\ pending \in SUBSET Jobs /\ \A s \in Slots : marks[s] \in SUBSET Jobs
      /\ marks \in [Slots -> SUBSET Jobs]
  BY DEF PoolTypeOK
<1>. DEFINE NoMore == /\ pending' \in SUBSET pending
                      /\ \A s \in Slots : marks'[s] \in SUBSET marks[s]
<1>1. NoMore => WithinCaps'
  BY <1>t, Smaller, CapsAssumption DEF WithinCaps
<1>2. ASSUME NEW j \in Jobs, Submit(j) PROVE WithinCaps'
  <2>1. Cardinality(pending \cup {j}) <= MaxPending
    BY <1>2, <1>t, OneMore, CapsAssumption DEF Submit, IsFull
  <2>. QED BY <1>2, <2>1 DEF Submit, WithinCaps
<1>3. ASSUME NEW j \in Jobs, RecoverJob(j) PROVE WithinCaps'
  <2>1. CASE RecoverRequeue(j)
    <3>1. Cardinality(pending \cup {j}) <= MaxPending
      BY <2>1, <1>t, OneMore, CapsAssumption DEF RecoverRequeue, IsFull
    <3>. QED BY <1>3, <2>1, <3>1 DEF RecoverRequeue, RecoverJob, WithinCaps
  <2>2. CASE ~ RecoverRequeue(j)
    BY <1>3, <2>2 DEF RecoverJob, RecoverNothing, RecoverFail, WithinCaps
  <2>. QED BY <2>1, <2>2
<1>4. ASSUME NEW j \in Jobs, NEW s \in Slots, Dispatch(j, s) PROVE WithinCaps'
  <2>1. Cardinality(marks[s]) < MaxInFlight
    BY <1>4 DEF Dispatch, Picked, Load
  <2>2. IsFiniteSet(marks[s]) /\ Cardinality(marks[s]) \in Nat
    BY <1>t, JobSetsAssumption, FS_Subset, FS_CardinalityType
  <2>3. Cardinality(marks[s] \cup {j}) <= MaxInFlight
    BY <1>t, <2>1, <2>2, OneMore, CapsAssumption
  <2>4. marks' = [marks EXCEPT ![s] = @ \cup {j}] /\ pending' \in SUBSET pending
    BY <1>4 DEF Dispatch
  <2>5. Cardinality(pending') <= MaxPending
    BY <1>t, <2>4, Smaller, CapsAssumption DEF WithinCaps
  <2>. QED BY <1>t, <2>3, <2>4, <2>5 DEF WithinCaps
<1>5. ASSUME NEW p \in posted, NEW kind \in Kinds, Answer(p, kind) PROVE NoMore
  BY <1>5, <1>t DEF Answer
<1>6. ASSUME NEW p \in posted, WorkerBreaks(p) PROVE NoMore
  BY <1>6, <1>t DEF WorkerBreaks
<1>7. ASSUME NEW js, Forget(js) PROVE NoMore
  BY <1>7, <1>t DEF Forget
<1>8. ASSUME Dispose PROVE NoMore
  <2>1. pending' = {} /\ (marks' = marks \/ marks' = [s \in Slots |-> {}])
    BY <1>8 DEF Dispose
  <2>. QED BY <2>1, <1>t
<1>9. CASE DispatchEnds \/ RecoverEnds \/ UNCHANGED poolVars
  BY <1>9 DEF DispatchEnds, RecoverEnds, poolVars, WithinCaps
<1>10. CASE Calls
  BY <1>1, <1>2, <1>7, <1>8, <1>10 DEF Calls, Cancel, CancelByToken
<1>11. CASE Handler
  BY <1>3, <1>4, <1>9, <1>11 DEF Handler
<1>. QED BY <1>1, <1>5, <1>6, <1>9, <1>10, <1>11 DEF PoolNext

\* The pending queue and every slot keep the capacity the pool was made with,
\* whatever is requeued after an error.
THEOREM CapsHold == ASSUME Throwing = {} PROVE PoolSpec => []WithinCaps
<1>1. PoolInit => WithinCaps
  BY FS_EmptySet, CapsAssumption DEF PoolInit, WithinCaps
<1>2. PoolTypeOK /\ WithinCaps /\ [PoolNext]_poolVars => WithinCaps'
  BY NextWithinCaps
<1>. QED BY PoolTypeCorrect, <1>1, <1>2, PTL DEF PoolSpec

-----------------------------------------------------------------------------
(* Which capacity is lost, whether or not a broken worker goes on.          *)

\* A request at the present worker of a slot is for a job in flight there, or
\* for one that is in flight nowhere.
PostedInv ==
    \A p \in posted :
        /\ p.gen <= gen[p.slot] /\ seq[p.job] # 0
        /\ p.gen = gen[p.slot] => /\ p.job \notin pending
                                  /\ record[p.job] \in {None, p.slot}
                                  /\ p.job \in left => record[p.job] = None

\* A slot is charged for jobs it computes and for jobs a worker has answered.
ChargeInv == \A s \in Slots : \A j \in marks[s] : record[j] = s \/ fired[j] = 1

\* The jobs recoverSlot visits are charged to no slot any more.
LeftInv == \A s \in Slots : \A j \in marks[s] \cap left : record[j] = None

LeakInv == PostedInv /\ ChargeInv /\ LeftInv

\* What PoolInv says of a job that was reported: it is over.
LEMMA Reported ==
    ASSUME PoolInv, NEW j \in Jobs, fired[j] = 1
    PROVE  j \notin pending /\ record[j] = None /\ seq[j] # 0
  BY DEF PoolInv, JobInv, Live

LEMMA LeakTypes ==
    ASSUME PoolInv
    PROVE  /\ record \in [Jobs -> Slots \cup {None}] /\ marks \in [Slots -> SUBSET Jobs]
           /\ gen \in [Slots -> Nat] /\ fired \in [Jobs -> Nat] /\ seq \in [Jobs -> Nat]
           /\ \A p \in posted : p.job \in Jobs /\ p.slot \in Slots /\ p.gen \in Nat
           /\ \A s \in Slots : s # None
  BY SlotsAssumption DEF PoolInv, PoolTypeOK, Request

LEMMA LeakInit == ASSUME PoolInit PROVE LeakInv
  BY DEF PoolInit, LeakInv, PostedInv, ChargeInv, LeftInv

\* No step of a handler or of a caller leaks: the markers of j stay as they are.
NoNewLeak == \A j \in Jobs, s \in Slots : ~ Leaked(j, s) => ~ Leaked(j, s)'

LEMMA SubmitLeak ==
    ASSUME PoolInv, LeakInv, NEW j \in Jobs, Submit(j)
    PROVE  LeakInv' /\ NoNewLeak
<1>1. /\ seq' \in [Jobs -> Nat] /\ seq'[j] # 0 /\ \A i \in Jobs \ {j} : seq'[i] = seq[i]
      /\ pending' = pending \cup {j} /\ seq[j] = 0
      /\ UNCHANGED <<record, marks, gen, posted, left, fired>>
  BY SubmitNumber DEF Submit, PoolInv, PoolTypeOK
<1>2. PostedInv'
  BY <1>1, LeakTypes DEF LeakInv, PostedInv
<1>. QED BY <1>1, <1>2 DEF LeakInv, ChargeInv, LeftInv, NoNewLeak, Leaked

\* The job that goes to slot s was charged to none and is posted to none that
\* could still be believed.
LEMMA DispatchLeak ==
    ASSUME PoolInv, LeakInv, NEW j \in Jobs, NEW s \in Slots, Dispatch(j, s)
    PROVE  LeakInv' /\ NoNewLeak
<1>0. /\ j \in pending /\ left = {} /\ record[j] = None /\ seq[j] # 0 /\ fired[j] = 0
  BY DEF Dispatch, IsTop, PoolInv, ControlInv, JobInv, Live
<1>1. /\ pending' = pending \ {j} /\ posted' = posted \cup {RequestFor(j, s)}
      /\ marks' = [marks EXCEPT ![s] = @ \cup {j}] /\ record' = [record EXCEPT ![j] = s]
      /\ UNCHANGED <<seq, gen, left, fired>>
  BY DEF Dispatch
<1>2. \A r \in Slots : j \notin marks[r]
  <2>1. ASSUME NEW r \in Slots, j \in marks[r] PROVE FALSE
    BY <1>0, <2>1, LeakTypes DEF LeakInv, ChargeInv
  <2>. QED BY <2>1
<1>3. PostedInv'
  <2>1. ASSUME NEW p \in posted
        PROVE  /\ p.gen <= gen'[p.slot] /\ seq'[p.job] # 0
               /\ p.gen = gen'[p.slot] => /\ p.job \notin pending'
                                          /\ record'[p.job] \in {None, p.slot}
                                          /\ p.job \in left' => record'[p.job] = None
    BY <1>0, <1>1, LeakTypes DEF LeakInv, PostedInv
  <2>2. LET p == RequestFor(j, s)
        IN  /\ p.gen <= gen'[p.slot] /\ seq'[p.job] # 0
            /\ p.job \notin pending' /\ record'[p.job] \in {None, p.slot}
            /\ p.job \notin left'
    BY <1>0, <1>1, LeakTypes DEF RequestFor
  <2>. QED BY <1>1, <2>1, <2>2 DEF PostedInv
<1>4. ASSUME NEW r \in Slots, NEW i \in marks'[r]
      PROVE  \/ i = j /\ r = s /\ record'[i] = r
             \/ i # j /\ i \in marks[r] /\ i \in Jobs /\ record'[i] = record[i]
  BY <1>1, <1>2, <1>4, LeakTypes
<1>5. ChargeInv' /\ LeftInv'
  BY <1>0, <1>1, <1>4 DEF LeakInv, ChargeInv, LeftInv
<1>6. NoNewLeak
  BY <1>4 DEF NoNewLeak, Leaked
<1>. QED BY <1>3, <1>5, <1>6 DEF LeakInv

LEMMA ForgetLeak ==
    ASSUME PoolInv, LeakInv, NEW js, Forget(js), UNCHANGED <<seq, gen, posted, left, fired>>
    PROVE  LeakInv' /\ NoNewLeak
<1>1. /\ pending' = pending \ js
      /\ record' = [j \in Jobs |-> IF j \in js THEN None ELSE record[j]]
      /\ marks' = [s \in Slots |-> {j \in marks[s] : ~ (j \in js /\ record[j] = s)}]
  BY DEF Forget
<1>2. ASSUME NEW s \in Slots, NEW j \in marks'[s]
      PROVE  /\ j \in marks[s] /\ j \in Jobs
             /\ record'[j] = record[j] \/ (record[j] # s /\ record'[j] = None)
  BY <1>1, <1>2, LeakTypes
<1>3. PostedInv'
  BY <1>1, LeakTypes DEF LeakInv, PostedInv
<1>4. ChargeInv' /\ LeftInv'
  BY <1>2 DEF LeakInv, ChargeInv, LeftInv
<1>5. NoNewLeak
  BY <1>2 DEF NoNewLeak, Leaked
<1>. QED BY <1>3, <1>4, <1>5 DEF LeakInv

LEMMA DisposeLeak ==
    ASSUME Throwing = {}, PoolInv, LeakInv, Dispose
    PROVE  LeakInv' /\ NoNewLeak
<1>1. /\ record' = [j \in Jobs |-> None] /\ marks' = [s \in Slots |-> {}]
      /\ posted' \subseteq posted /\ pending' = {} /\ UNCHANGED <<seq, gen, left>>
  BY DEF Dispose, DropRecords
<1>2. PostedInv'
  BY <1>1, LeakTypes DEF LeakInv, PostedInv
<1>. QED BY <1>1, <1>2 DEF LeakInv, ChargeInv, LeftInv, NoNewLeak, Leaked

\* The slot that answers is the one that was charged, unless its worker was
\* replaced before: then the marker of the slot that has the job stays.
LEMMA AnswerLeak ==
    ASSUME PoolInv, LeakInv, NEW p \in posted, NEW kind \in Kinds, Answer(p, kind)
    PROVE  /\ LeakInv'
           /\ \A j \in Jobs, s \in Slots :
                ~ Leaked(j, s) /\ Leaked(j, s)' => LateAnswer(j, s)
<1>0. p.job \in Jobs /\ p.slot \in Slots
  BY LeakTypes
<1>1. posted' \subseteq posted /\ UNCHANGED <<seq, gen, left, pending>>
  BY DEF Answer
<1>2. CASE record[p.job] = None
  <2>1. UNCHANGED <<record, marks, fired>>
    BY <1>2 DEF Answer
  <2>. QED BY <1>1, <2>1 DEF LeakInv, PostedInv, ChargeInv, LeftInv, Leaked
<1>3. CASE record[p.job] # None
  <2>1. /\ record' = [record EXCEPT ![p.job] = None]
        /\ marks' = [marks EXCEPT ![p.slot] = @ \ {p.job}]
        /\ fired' = [j \in Jobs |-> IF j \in {p.job} THEN fired[j] + 1 ELSE fired[j]]
    BY <1>3 DEF Answer, Resolve, Fire
  <2>2. fired[p.job] = 0
    BY <1>0, <1>3 DEF PoolInv, JobInv, Live
  <2>3. PostedInv'
    BY <1>0, <1>1, <2>1, LeakTypes DEF LeakInv, PostedInv
  <2>4. ASSUME NEW s \in Slots, NEW j \in marks'[s]
        PROVE  /\ j \in marks[s] /\ j \in Jobs
               /\ j = p.job => s # p.slot /\ fired'[j] = 1 /\ record'[j] = None
               /\ j # p.job => fired'[j] = fired[j] /\ record'[j] = record[j]
    <3>1. j \in marks[s] /\ j \in Jobs
      BY <1>0, <2>1, <2>4, LeakTypes
    <3>2. j = p.job => s # p.slot
      BY <1>0, <2>1, <2>4, LeakTypes
    <3>3. j = p.job => fired'[j] = 1 /\ record'[j] = None
      BY <1>0, <2>1, <2>2, LeakTypes
    <3>4. j # p.job => fired'[j] = fired[j] /\ record'[j] = record[j]
      BY <1>0, <2>1, <3>1, LeakTypes
    <3>. QED BY <3>1, <3>2, <3>3, <3>4
  <2>5. ChargeInv' /\ LeftInv'
    BY <1>1, <2>4 DEF LeakInv, ChargeInv, LeftInv
  <2>6. ASSUME NEW j \in Jobs, NEW s \in Slots, ~ Leaked(j, s), Leaked(j, s)'
        PROVE  LateAnswer(j, s)
    <3>1. j \in marks[s] /\ record[j] = s /\ j = p.job /\ s # p.slot
      BY <2>4, <2>6 DEF Leaked
    <3>2. p.gen # gen[p.slot]
      BY <3>1, LeakTypes DEF LeakInv, PostedInv
    <3>. QED BY <3>1, <3>2 DEF LateAnswer
  <2>. QED BY <2>3, <2>5, <2>6 DEF LeakInv
<1>. QED BY <1>2, <1>3

\* The requests of the broken worker are now those of a replaced one.
LEMMA BreaksLeak ==
    ASSUME PoolInv, LeakInv, NEW p \in posted, WorkerBreaks(p)
    PROVE  LeakInv' /\ NoNewLeak
<1>0. p.slot \in Slots /\ left = {}
  BY LeakTypes DEF WorkerBreaks, PoolInv, ControlInv
<1>1. /\ posted' \subseteq posted
      /\ gen' = [gen EXCEPT ![p.slot] = @ + 1] /\ left' = marks[p.slot]
      /\ marks' = [marks EXCEPT ![p.slot] = {}] /\ UNCHANGED <<seq, record, pending, fired>>
  BY DEF WorkerBreaks, JobsOf
<1>2. ASSUME NEW q \in posted
      PROVE  /\ q.gen <= gen'[q.slot]
             /\ q.gen = gen'[q.slot] => q.gen = gen[q.slot]
  <2>1. /\ q.slot \in Slots /\ q.gen \in Nat /\ gen[q.slot] \in Nat
        /\ gen'[q.slot] = IF q.slot = p.slot THEN gen[q.slot] + 1 ELSE gen[q.slot]
    BY <1>0, <1>1, LeakTypes
  <2>2. q.gen <= gen[q.slot]
    BY DEF LeakInv, PostedInv
  <2>. QED BY <2>1, <2>2
<1>l. ASSUME NEW q \in posted, q.gen = gen'[q.slot], q.job \in left' PROVE record[q.job] = None
  <2>1. q.slot \in Slots /\ q.slot # p.slot
    <3>1. q.gen <= gen[q.slot] /\ q.gen \in Nat /\ q.slot \in Slots /\ gen[q.slot] \in Nat
      BY LeakTypes DEF LeakInv, PostedInv
    <3>2. q.slot = p.slot => gen'[q.slot] = gen[q.slot] + 1
      BY <1>0, <1>1, LeakTypes
    <3>. QED BY <1>l, <3>1, <3>2
  <2>2. q.job \in Jobs /\ record[q.job] \in {None, q.slot}
    BY <1>2, <1>l, LeakTypes DEF LeakInv, PostedInv
  <2>3. record[q.job] = p.slot \/ fired[q.job] = 1
    BY <1>0, <1>1, <1>l DEF LeakInv, ChargeInv
  <2>. QED BY <1>0, <2>1, <2>2, <2>3, Reported, LeakTypes
<1>3. PostedInv'
  BY <1>1, <1>2, <1>l DEF LeakInv, PostedInv
<1>4. ASSUME NEW s \in Slots, NEW j \in marks'[s] PROVE s # p.slot /\ j \in marks[s] /\ j \in Jobs
  BY <1>0, <1>1, <1>4, LeakTypes
<1>5. ChargeInv'
  BY <1>1, <1>4 DEF LeakInv, ChargeInv
<1>6. LeftInv'
  <2>1. ASSUME NEW s \in Slots, NEW j \in marks'[s] \cap left' PROVE record[j] = None
    <3>1. /\ s # p.slot /\ j \in marks[s] /\ j \in marks[p.slot] /\ j \in Jobs
      BY <1>1, <1>4, <2>1
    <3>2. fired[j] = 1
      BY <1>0, <3>1 DEF LeakInv, ChargeInv
    <3>. QED BY <3>1, <3>2, Reported
  <2>. QED BY <1>1, <2>1 DEF LeftInv
<1>7. NoNewLeak
  BY <1>1, <1>4 DEF NoNewLeak, Leaked
<1>. QED BY <1>3, <1>5, <1>6, <1>7 DEF LeakInv

\* recoverSlot touches jobs that no slot is charged for.
LEMMA RecoverLeak ==
    ASSUME PoolInv, LeakInv, NEW j \in Jobs, RecoverJob(j)
    PROVE  LeakInv' /\ NoNewLeak
<1>1. /\ j \in left /\ left' \subseteq left /\ UNCHANGED <<seq, marks, gen, posted>>
  BY DEF RecoverJob, RecoverNothing, RecoverRequeue, RecoverFail, Recovering
<1>2. CASE record[j] = None
  <2>1. UNCHANGED <<record, pending, fired>>
    BY <1>2 DEF RecoverJob, RecoverNothing, RecoverRequeue, RecoverFail
  <2>. QED BY <1>1, <2>1 DEF LeakInv, PostedInv, ChargeInv, LeftInv, NoNewLeak, Leaked
<1>3. CASE record[j] # None
  <2>1. /\ record' = [record EXCEPT ![j] = None]
        /\ pending' \subseteq pending \cup {j}
        /\ \A i \in Jobs \ {j} : fired'[i] = fired[i]
    BY <1>3 DEF RecoverJob, RecoverNothing, RecoverRequeue, RecoverFail, Fire
  <2>2. \A s \in Slots : j \notin marks[s]
    BY <1>1, <1>3 DEF LeakInv, LeftInv
  <2>3. ASSUME NEW s \in Slots, NEW i \in marks[s]
        PROVE  i \in Jobs /\ record'[i] = record[i] /\ fired'[i] = fired[i]
    BY <2>1, <2>2, <2>3, LeakTypes
  <2>4. \A p \in posted : p.gen = gen[p.slot] => p.job # j
    BY <1>1, <1>3 DEF LeakInv, PostedInv
  <2>5. PostedInv'
    BY <1>1, <2>1, <2>4, LeakTypes DEF LeakInv, PostedInv
  <2>6. ChargeInv' /\ LeftInv'
    BY <1>1, <2>3 DEF LeakInv, ChargeInv, LeftInv
  <2>7. NoNewLeak
    BY <1>1, <2>3 DEF NoNewLeak, Leaked
  <2>. QED BY <2>5, <2>6, <2>7 DEF LeakInv
<1>. QED BY <1>2, <1>3

\* Seen by the whole pool: the invariant is kept, and what leaks leaks late.
LeaksLate == \A j \in Jobs, s \in Slots : ~ Leaked(j, s) /\ Leaked(j, s)' => LateAnswer(j, s)

LEMMA NextLeak ==
    ASSUME Throwing = {}, PoolInv, LeakInv, [PoolNext]_poolVars
    PROVE  LeakInv' /\ LeaksLate
<1>0. NoNewLeak => LeaksLate
  BY DEF NoNewLeak, LeaksLate
<1>1. ASSUME NEW j \in Jobs, Cancel(j) PROVE LeakInv' /\ NoNewLeak
  <2>1. Forget({j}) /\ UNCHANGED <<seq, gen, posted, left, fired>>
    BY <1>1 DEF Cancel
  <2>. QED BY <2>1, ForgetLeak
<1>2. ASSUME CancelByToken PROVE LeakInv' /\ NoNewLeak
  <2>1. Forget(Stamped \cap Outstanding) /\ UNCHANGED <<seq, gen, posted, left, fired>>
    BY <1>2 DEF CancelByToken
  <2>. QED BY <2>1, ForgetLeak
<1>3. CASE Calls
  BY <1>0, <1>1, <1>2, <1>3, SubmitLeak, DisposeLeak DEF Calls
<1>4. CASE DispatchEnds \/ RecoverEnds \/ UNCHANGED poolVars
  BY <1>4 DEF DispatchEnds, RecoverEnds, poolVars, LeakInv, PostedInv, ChargeInv, LeftInv,
              LeaksLate, Leaked
<1>5. CASE Handler
  BY <1>0, <1>4, <1>5, DispatchLeak, RecoverLeak DEF Handler
<1>6. ASSUME NEW p \in posted, NEW kind \in Kinds, Answer(p, kind) PROVE LeakInv' /\ LeaksLate
  BY <1>6, AnswerLeak DEF LeaksLate
<1>. QED BY <1>0, <1>3, <1>4, <1>5, <1>6, BreaksLeak DEF PoolNext

LEMMA SpecLeakInv ==
    ASSUME Throwing = {} PROVE PoolSpec => [](PoolInv /\ LeakInv)
<1>1. PoolInit => PoolInv /\ LeakInv
  BY PoolInitInv, LeakInit
<1>2. PoolInv /\ LeakInv /\ [PoolNext]_poolVars => (PoolInv /\ LeakInv)'
  BY PoolNextInv, NextLeak
<1>. QED BY <1>1, <1>2, PTL DEF PoolSpec

\* A replaced worker that still answers is the only leak: no submission,
\* dispatch, cancellation, error, recovery, dispose or timely answer leaves a
\* slot charged for a job it does not compute.
THEOREM CapacityLeaksByLateAnswers ==
    ASSUME Throwing = {} PROVE PoolSpec => MarkersLeakLate
<1>1. PoolInv /\ LeakInv /\ [PoolNext]_poolVars => [LeaksLate]_poolVars
  BY NextLeak
<1>2. MarkersLeakLate <=> [][LeaksLate]_poolVars
  BY DEF MarkersLeakLate, LeaksLate
<1>. QED BY <1>1, <1>2, SpecLeakInv, PTL DEF PoolSpec

\* An idle pool leaves no job waiting while a slot has room.
FullInv == busy = "idle" /\ ~ disposed /\ pending # {} => Saturated

LEMMA NextFull ==
    ASSUME Throwing = {}, PoolInv, FullInv, [PoolNext]_poolVars
    PROVE  FullInv'
<1>u. ASSUME busy = "idle", ~ disposed, pending' \subseteq pending, marks' = marks PROVE FullInv'
  BY <1>u DEF FullInv, Saturated, Load
<1>1. ASSUME NEW j \in Jobs, Submit(j) PROVE FullInv'
  BY <1>1 DEF Submit, FullInv
<1>2. ASSUME NEW j \in Jobs, Cancel(j) PROVE FullInv'
  <2>1. CASE record[j] # None
    BY <1>2, <2>1 DEF Cancel, AfterCancel, FullInv
  <2>2. CASE record[j] = None
    <3>1. /\ busy = "idle" /\ ~ disposed /\ pending' \subseteq pending
          /\ marks' = [s \in Slots |-> {i \in marks[s] : ~ (i \in {j} /\ record[i] = s)}]
      BY <1>2 DEF Cancel, Forget
    <3>2. \A s \in Slots : marks'[s] = marks[s]
      <4>1. ASSUME NEW s \in Slots PROVE marks'[s] = marks[s]
        <5>1. s # None /\ marks[s] \subseteq Jobs
          BY LeakTypes
        <5>. QED BY <2>2, <3>1, <5>1
      <4>. QED BY <4>1
    <3>3. marks' = marks
      BY <3>1, <3>2, LeakTypes
    <3>. QED BY <1>u, <3>1, <3>3
  <2>. QED BY <2>1, <2>2
<1>3. CASE CancelByToken \/ Dispose
  BY <1>3 DEF CancelByToken, Dispose, FullInv
<1>4. CASE Handler
  <2>1. ASSUME NEW j \in Jobs, NEW s \in Slots, Dispatch(j, s) PROVE FullInv'
    BY <2>1 DEF Dispatch, FullInv
  <2>2. ASSUME NEW j \in Jobs, RecoverJob(j) PROVE FullInv'
    BY <2>2 DEF RecoverJob, RecoverNothing, RecoverRequeue, RecoverFail, Recovering, FullInv
  <2>3. CASE RecoverEnds
    BY <2>3 DEF RecoverEnds, FullInv
  <2>4. CASE DispatchEnds
    BY <2>4 DEF DispatchEnds, FullInv, Saturated, Load
  <2>. QED BY <1>4, <2>1, <2>2, <2>3, <2>4 DEF Handler
<1>5. ASSUME NEW p \in posted, NEW kind \in Kinds, Answer(p, kind) PROVE FullInv'
  <2>1. CASE record[p.job] = None
    BY <1>5, <2>1 DEF Answer, FullInv, Saturated, Load
  <2>2. CASE record[p.job] # None
    BY <1>5, <2>2 DEF Answer, AfterFailure, FullInv
  <2>. QED BY <2>1, <2>2
<1>6. ASSUME NEW p \in posted, WorkerBreaks(p) PROVE FullInv'
  BY <1>6 DEF WorkerBreaks, FullInv
<1>7. CASE UNCHANGED poolVars
  BY <1>7 DEF poolVars, FullInv, Saturated, Load
<1>8. CASE Calls
  BY <1>1, <1>2, <1>3, <1>8 DEF Calls
<1>. QED BY <1>4, <1>5, <1>6, <1>7, <1>8 DEF PoolNext

\* Whether or not broken workers go on: an idle pool with a queue has every
\* slot full, with jobs in flight there or with markers of answered jobs.  So
\* it stalls only when late answers have taken the capacity of all its slots.
THEOREM CapacityIsUsed == ASSUME Throwing = {} PROVE PoolSpec => []CapacityUsed
<1>1. PoolInit => FullInv
  BY DEF PoolInit, FullInv
<1>2. PoolInv /\ LeakInv /\ FullInv /\ [PoolNext]_poolVars => FullInv'
  BY NextFull
<1>3. PoolInv /\ LeakInv /\ FullInv => CapacityUsed
  BY DEF LeakInv, ChargeInv, FullInv, Saturated, CapacityUsed
<1>. QED BY <1>1, <1>2, <1>3, SpecLeakInv, PTL DEF PoolSpec
=============================================================================
