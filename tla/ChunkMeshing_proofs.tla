----------------------- MODULE ChunkMeshing_proofs -----------------------
(***************************************************************************)
(* The streaming of meshes for every line of chunks, every radius, every   *)
(* capacity of the queues and every budget of a frame: what is shown as    *)
(* clean shows its edits, no request is stranded, and every stage in       *)
(* flight has its batch.                                                   *)
(*                                                                         *)
(* WorkInv relates the chunks, the queues and the parked retries and holds *)
(* at every point of a frame, between two calls of it too.  The work of a  *)
(* frame is made of mesh requests, and Continues says what any number of   *)
(* them keeps; the folds of the model are followed by induction over the   *)
(* sets they have consumed.                                                *)
(***************************************************************************)
EXTENDS ChunkMeshing, InsertionMap_proofs, FiniteSetTheorems, WellFoundedInduction

-----------------------------------------------------------------------------
(* Finite sets: induction, folds, extremes *)

\* Induction over the natural numbers, with a set for the property.
LEMMA SetInduction ==
    ASSUME NEW S, 0 \in S, \A n \in Nat : n \in S => n + 1 \in S
    PROVE  \A n \in Nat : n \in S
<1> DEFINE R == {ss \in Nat \X Nat : ss[1] < ss[2]}
<1> DEFINE T == {n \in Nat : n \notin S}
<1>1. SUFFICES ASSUME T # {} PROVE FALSE
  OBVIOUS
<1>2. IsWellFoundedOn(R, Nat)
  BY NatLessThanWellFounded DEF OpToRel
<1>3. \A x, y \in Nat : y < x => <<y, x>> \in R
  OBVIOUS
<1> HIDE DEF R
<1>4. PICK x \in T : \A y \in T : ~ (<<y, x>> \in R)
  <2> T \subseteq Nat
    OBVIOUS
  <2> HIDE DEF T
  <2> QED BY <1>1, <1>2, WFMin, Zenon
<1>5. x # 0 /\ x - 1 \in Nat /\ x - 1 < x
  OBVIOUS
<1>6. x - 1 \notin T
  BY <1>3, <1>4, <1>5
<1> QED BY <1>5, <1>6

\* pick names a member of every non-empty part of S.
Picks(pick, S) == \A s \in SUBSET S : s # {} => pick[s] \in s

\* Induction over the parts of a finite set, one picked member at a time.
LEMMA PickInduction ==
    ASSUME NEW S, IsFiniteSet(S), NEW pick, Picks(pick, S), NEW P, {} \in P,
           \A s \in SUBSET S : s # {} /\ s \ {pick[s]} \in P => s \in P
    PROVE  S \in P
<1> DEFINE K == {n \in Nat : \A s \in SUBSET S : Cardinality(s) = n => s \in P}
<1>0. \A s \in SUBSET S : IsFiniteSet(s) /\ Cardinality(s) \in Nat
  BY FS_Subset, FS_CardinalityType
<1>1. 0 \in K
  BY <1>0, FS_EmptySet
<1>2. ASSUME NEW n \in Nat, n \in K PROVE n + 1 \in K
  <2> SUFFICES ASSUME NEW s \in SUBSET S, Cardinality(s) = n + 1 PROVE s \in P
    OBVIOUS
  <2>1. s # {}
    BY FS_EmptySet
  <2>2. pick[s] \in s
    BY <2>1 DEF Picks
  <2>3. IsFiniteSet(s) /\ Cardinality(s \ {pick[s]}) = Cardinality(s) - 1
    BY <1>0, <2>2, FS_RemoveElement
  <2>4. Cardinality(s \ {pick[s]}) = n
    BY <2>3
  <2>5. s \ {pick[s]} \in P
    BY <1>2, <2>4
  <2> QED
    BY <2>1, <2>5
<1>3. Cardinality(S) \in K
  <2> HIDE DEF K
  <2> QED
    BY <1>0, <1>1, <1>2, SetInduction
<1> QED
  BY <1>3

\* A fold of step over the parts of S whose size is at most n.
FoldOf(f, S, n, pick, m, step) ==
    \A s \in SUBSET S : Cardinality(s) <= n =>
        f[s] = IF s = {} THEN m ELSE step[<<pick[s], f[s \ {pick[s]}]>>]

\* f is a fold of step over the parts of S.
IsFold(f, S, pick, m, step) ==
    \A s \in SUBSET S : f[s] = IF s = {} THEN m ELSE step[<<pick[s], f[s \ {pick[s]}]>>]

\* There is a fold over a finite set.
LEMMA FoldExists ==
    ASSUME NEW S, IsFiniteSet(S), NEW pick, Picks(pick, S),
           NEW M, NEW m \in M, NEW step \in [S \X M -> M]
    PROVE  \E f \in [SUBSET S -> M] : IsFold(f, S, pick, m, step)
<1> DEFINE K == {n \in Nat : \E f \in [SUBSET S -> M] : FoldOf(f, S, n, pick, m, step)}
<1>0. \A s \in SUBSET S : IsFiniteSet(s) /\ Cardinality(s) \in Nat /\ Cardinality(s) <= Cardinality(S)
  BY FS_Subset, FS_CardinalityType
<1>1. 0 \in K
  <2> DEFINE f == [s \in SUBSET S |-> m]
  <2>1. \A s \in SUBSET S : Cardinality(s) <= 0 => s = {}
    BY <1>0, FS_EmptySet
  <2>2. f \in [SUBSET S -> M] /\ \A s \in SUBSET S : f[s] = m
    OBVIOUS
  <2> HIDE DEF f
  <2>3. FoldOf(f, S, 0, pick, m, step)
    BY <2>1, <2>2 DEF FoldOf
  <2> QED
    BY <2>2, <2>3
<1>2. ASSUME NEW n \in Nat, n \in K PROVE n + 1 \in K
  <2>1. PICK g \in [SUBSET S -> M] : FoldOf(g, S, n, pick, m, step)
    BY <1>2
  <2> DEFINE f == [s \in SUBSET S |-> IF Cardinality(s) <= n THEN g[s]
                                      ELSE IF s = {} THEN m
                                      ELSE step[<<pick[s], g[s \ {pick[s]}]>>]]
  <2>2. \A s \in SUBSET S : s # {} => pick[s] \in S /\ pick[s] \in s /\ s \ {pick[s]} \in SUBSET S
    BY DEF Picks
  <2>3. f \in [SUBSET S -> M]
    <3> SUFFICES ASSUME NEW s \in SUBSET S, ~(Cardinality(s) <= n), s # {}
                 PROVE  step[<<pick[s], g[s \ {pick[s]}]>>] \in M
      OBVIOUS
    <3>1. pick[s] \in S /\ g[s \ {pick[s]}] \in M
      BY <2>2
    <3> QED
      BY <3>1
  <2>4. ASSUME NEW s \in SUBSET S, s # {}, Cardinality(s) <= n + 1
        PROVE  f[s \ {pick[s]}] = g[s \ {pick[s]}]
    <3>1. Cardinality(s \ {pick[s]}) = Cardinality(s) - 1
      BY <1>0, <2>2, <2>4, FS_RemoveElement
    <3>2. Cardinality(s \ {pick[s]}) <= n
      BY <1>0, <2>4, <3>1
    <3> QED
      BY <2>2, <3>2
  <2>5. \A s \in SUBSET S : Cardinality(s) <= n => f[s] = g[s]
    OBVIOUS
  <2>6. \A s \in SUBSET S : ~(Cardinality(s) <= n) /\ s # {} =>
           f[s] = step[<<pick[s], g[s \ {pick[s]}]>>]
    OBVIOUS
  <2>7. \A s \in SUBSET S : ~(Cardinality(s) <= n) => s # {}
    <3>1. Cardinality({}) <= n
      BY FS_EmptySet
    <3> QED
      BY <3>1
  <2> HIDE DEF f
  <2>8. FoldOf(f, S, n + 1, pick, m, step)
    <3> SUFFICES ASSUME NEW s \in SUBSET S, Cardinality(s) <= n + 1
                 PROVE  f[s] = IF s = {} THEN m ELSE step[<<pick[s], f[s \ {pick[s]}]>>]
      BY DEF FoldOf
    <3>1. CASE Cardinality(s) <= n
      <4>1. f[s] = IF s = {} THEN m ELSE step[<<pick[s], g[s \ {pick[s]}]>>]
        BY <2>1, <2>5, <3>1 DEF FoldOf
      <4> QED
        BY <2>4, <4>1
    <3>2. CASE ~(Cardinality(s) <= n)
      BY <2>4, <2>6, <2>7, <3>2
    <3> QED
      BY <3>1, <3>2
  <2> QED
    BY <2>3, <2>8
<1>3. Cardinality(S) \in K
  <2> HIDE DEF K
  <2> QED
    BY <1>0, <1>1, <1>2, SetInduction
<1>4. PICK f \in [SUBSET S -> M] : FoldOf(f, S, Cardinality(S), pick, m, step)
  BY <1>3
<1> QED
  BY <1>0, <1>4 DEF FoldOf, IsFold

\* R orders S totally.
Orders(R, S) ==
    /\ \A x, y \in S : x # y => <<x, y>> \in R \/ <<y, x>> \in R
    /\ \A x, y, z \in S : <<x, y>> \in R /\ <<y, z>> \in R => <<x, z>> \in R

Topped(R, S) == \E x \in S : \A y \in S \ {x} : <<x, y>> \in R

\* A finite set that R orders totally has a greatest member.
LEMMA GreatestExists ==
    ASSUME NEW S, IsFiniteSet(S), S # {}, NEW R, Orders(R, S)
    PROVE  Topped(R, S)
<1>0. /\ \A x, y \in S : x # y => <<x, y>> \in R \/ <<y, x>> \in R
      /\ \A x, y, z \in S : <<x, y>> \in R /\ <<y, z>> \in R => <<x, z>> \in R
  BY DEF Orders
<1> DEFINE pick == [s \in SUBSET S |-> CHOOSE x \in s : TRUE]
           Top(s) == \E x \in s : \A y \in s \ {x} : <<x, y>> \in R
           P == {s \in SUBSET S : s # {} => Top(s)}
<1>1. Picks(pick, S)
  BY DEF Picks
<1> HIDE DEF pick
<1>2. {} \in P
  OBVIOUS
<1>3. ASSUME NEW s \in SUBSET S, s # {}, s \ {pick[s]} \in P PROVE s \in P
  <2> DEFINE a == pick[s]
  <2>1. a \in s
    BY <1>1, <1>3 DEF Picks
  <2> HIDE DEF a
  <2>2. CASE s \ {a} = {}
    BY <2>1, <2>2
  <2>3. CASE s \ {a} # {}
    <3>1. PICK x \in s \ {a} : \A y \in (s \ {a}) \ {x} : <<x, y>> \in R
      BY <1>3, <2>3 DEF a
    <3>2. CASE <<x, a>> \in R
      <4>1. \A y \in s \ {x} : <<x, y>> \in R
        BY <1>0, <3>1, <3>2
      <4> QED
        BY <4>1
    <3>3. CASE <<a, x>> \in R
      <4>1. \A y \in s \ {a} : <<a, y>> \in R
        BY <1>0, <2>1, <3>1, <3>3
      <4> QED
        BY <2>1, <4>1
    <3> QED
      BY <1>0, <2>1, <3>2, <3>3
  <2> QED
    BY <2>2, <2>3
<1> HIDE DEF P
<1>4. S \in P
  BY <1>1, <1>2, <1>3, PickInduction
<1> QED
  BY <1>4 DEF P, Topped

-----------------------------------------------------------------------------
(* The invariant of the chunks and their queues *)

Works == [chunk : [Chunks -> ChunkRecords], jobs : SUBSET JobRecords,
          retry : Seq(Chunks), displaced : BOOLEAN]

\* The flags of one chunk agree: a batch in flight is that of the mesh stage and
\* of the current generation, and when its payload is out of date its snapshot
\* shows it; a chunk with no dirty section shows its edits.
ChunkOK(r) ==
    /\ r.generated <=> r.status \notin {"Absent", "Allocated"}
    /\ r.state = "Visible" => r.generated
    /\ r.batch # NoBatch => /\ r.generated /\ r.status = "MeshQueued"
                            /\ r.batch.generation
                            /\ r.batch.truthful \/ ~r.batch.snapshot
    /\ r.generated /\ ~r.sections => r.shown

\* The chunks whose status is not Absent.
Present(w, k) == w.chunk[k].status # "Absent"

\* A job may stand in its queue.
JobOK(w, j) ==
    /\ j.fresh /\ Present(w, j.chunk)
    /\ j.stage = "generate" => ~w.chunk[j.chunk].generated
    /\ j.stage = "mesh" => w.chunk[j.chunk].status # "ActiveGpu"

JobsOK(w) ==
    /\ IsFiniteSet(w.jobs)
    /\ \A i, j \in w.jobs : i.stage = j.stage /\ i.chunk = j.chunk => i = j
    /\ \A stage \in {"generate", "mesh"} : Cardinality(Queued(w, stage)) <= QueueCap[stage]
    /\ \A j \in w.jobs : JobOK(w, j)

RetryOK(w) == Distinct(w.retry) /\ \A k \in Chunks : Occurs(w.retry, k) => Present(w, k)

WorkInv(w) ==
    /\ w \in Works
    /\ \A k \in Chunks : ChunkOK(w.chunk[k])
    /\ JobsOK(w)
    /\ RetryOK(w)

\* A chunk that counts as meshed shows its edits.
ShownOK(r) == r.state = "Visible" /\ ~r.dirty => r.shown

\* Every mesh stage in flight has its batch.
Beside(w) == \A k \in Chunks : InFlight(w, k) => w.chunk[k].batch # NoBatch

\* No mesh job waits for a chunk that is in flight.
Tidy(w) == \A j \in w.jobs : j.stage = "mesh" => ~InFlight(w, j.chunk)

HasJob(w, stage, k) == \E j \in w.jobs : j.stage = stage /\ j.chunk = k

\* Somebody will see to the chunk, or it needs nothing.
Covered(w, k) ==
    IF ~w.chunk[k].generated THEN HasJob(w, "generate", k)
    ELSE \/ w.chunk[k].state = "Visible" /\ ~w.chunk[k].dirty
         \/ HasJob(w, "mesh", k)
         \/ Occurs(w.retry, k)
         \/ w.chunk[k].batch # NoBatch

-----------------------------------------------------------------------------
(* The queues *)

LEMMA DistanceNat == ASSUME NEW k \in Int, NEW c \in Int PROVE Distance(k, c) \in Nat
  BY DEF Distance

\* The constants as the proofs use them.
LEMMA Constants ==
    /\ Chunks \subseteq Int /\ Centers \subseteq Int /\ IsFiniteSet(Chunks)
    /\ \A stage \in {"generate", "mesh"} : QueueCap[stage] \in Nat /\ QueueCap[stage] >= 1
    /\ \A stage : stage \in {"generate", "mesh"} => stage \in DOMAIN QueueCap
    /\ Parts \in Nat /\ Parts >= 1 /\ MaxEvents \in Nat
    /\ GenerateQuota \in Nat /\ MeshQuota \in Nat
  BY MeshingConstants DEF QueueCap

\* What the invariant says of a job.
LEMMA JobTypes ==
    ASSUME NEW w, WorkInv(w), NEW j \in w.jobs
    PROVE  /\ j \in JobRecords /\ j.stage \in {"generate", "mesh"} /\ j.chunk \in Chunks
           /\ j.chunk \in Int /\ j.rank \in Nat /\ j.fresh
           /\ j.stage = "generate" => ~w.chunk[j.chunk].generated
<1>1. j \in JobRecords
  BY DEF WorkInv, Works
<1> QED
  BY <1>1, Constants DEF WorkInv, JobsOK, JobOK, JobRecords

\* A queue that is not empty has a least and a most urgent job.
LEMMA QueueEnds ==
    ASSUME NEW w, WorkInv(w), NEW stage, NEW queue \in SUBSET Queued(w, stage), queue # {}
    PROVE  LeastUrgent(queue) \in queue /\ MostUrgent(queue) \in queue
<1>1. IsFiniteSet(queue)
  BY FS_Subset DEF WorkInv, JobsOK, Queued
<1>2. \A j \in queue : j \in w.jobs /\ j.stage = stage
  BY DEF Queued
<1>3. \A j \in queue : j.rank \in Nat /\ j.chunk \in Int
  BY <1>2, JobTypes
<1>4. \A i, j \in queue : i # j => i.chunk # j.chunk
  BY <1>2 DEF WorkInv, JobsOK
<1> DEFINE Up == {p \in queue \X queue : MoreUrgent(p[1], p[2])}
           Down == {p \in queue \X queue : MoreUrgent(p[2], p[1])}
<1>5. /\ \A x, y \in queue : <<x, y>> \in Up <=> MoreUrgent(x, y)
      /\ \A x, y \in queue : <<x, y>> \in Down <=> MoreUrgent(y, x)
  OBVIOUS
<1>6. \A x, y \in queue : x # y => MoreUrgent(x, y) \/ MoreUrgent(y, x)
  BY <1>3, <1>4 DEF MoreUrgent
<1>7. \A x, y, z \in queue : MoreUrgent(x, y) /\ MoreUrgent(y, z) => MoreUrgent(x, z)
  BY <1>3 DEF MoreUrgent
<1> HIDE DEF Up, Down
<1>8. \E x \in queue : \A y \in queue \ {x} : <<x, y>> \in Up
  <2>1. \A x, y \in queue : x # y => <<x, y>> \in Up \/ <<y, x>> \in Up
    BY <1>5, <1>6
  <2>2. \A x, y, z \in queue : <<x, y>> \in Up /\ <<y, z>> \in Up => <<x, z>> \in Up
    BY <1>5, <1>7
  <2> QED
    BY <1>1, <2>1, <2>2, GreatestExists DEF Orders, Topped
<1>9. \E x \in queue : \A y \in queue \ {x} : <<x, y>> \in Down
  <2>1. \A x, y \in queue : x # y => <<x, y>> \in Down \/ <<y, x>> \in Down
    BY <1>5, <1>6
  <2>2. \A x, y, z \in queue : <<x, y>> \in Down /\ <<y, z>> \in Down => <<x, z>> \in Down
    BY <1>5, <1>7
  <2> QED
    BY <1>1, <2>1, <2>2, GreatestExists DEF Orders, Topped
<1>10. \E x \in queue : \A y \in queue \ {x} : MoreUrgent(x, y)
  BY <1>5, <1>8
<1>11. \E x \in queue : \A y \in queue \ {x} : MoreUrgent(y, x)
  BY <1>5, <1>9
<1> QED
  BY <1>10, <1>11 DEF LeastUrgent, MostUrgent

\* Any part of the jobs may be dropped.
LEMMA FewerJobs ==
    ASSUME NEW w, WorkInv(w), NEW J \in SUBSET w.jobs
    PROVE  LET v == [w EXCEPT !.jobs = J]
           IN  /\ WorkInv(v)
               /\ v.jobs = J /\ v.chunk = w.chunk /\ v.retry = w.retry /\ v.displaced = w.displaced
<1> DEFINE v == [w EXCEPT !.jobs = J]
<1>1. /\ v \in Works /\ v.jobs = J /\ v.chunk = w.chunk /\ v.retry = w.retry
      /\ v.displaced = w.displaced
  BY DEF WorkInv, Works
<1> HIDE DEF v
<1>2. IsFiniteSet(J)
  BY FS_Subset DEF WorkInv, JobsOK
<1>3. ASSUME NEW stage \in {"generate", "mesh"}
      PROVE  Cardinality(Queued(v, stage)) <= QueueCap[stage]
  <2>1. Queued(v, stage) \in SUBSET Queued(w, stage)
    BY <1>1 DEF Queued
  <2>2. IsFiniteSet(Queued(w, stage))
    BY FS_Subset DEF WorkInv, JobsOK, Queued
  <2>3. /\ Cardinality(Queued(v, stage)) <= Cardinality(Queued(w, stage))
        /\ Cardinality(Queued(v, stage)) \in Nat /\ Cardinality(Queued(w, stage)) \in Nat
    BY <2>1, <2>2, FS_Subset, FS_CardinalityType
  <2>4. Cardinality(Queued(w, stage)) <= QueueCap[stage]
    BY DEF WorkInv, JobsOK
  <2> QED
    BY <2>3, <2>4, Constants
<1>4. JobsOK(v)
  BY <1>1, <1>2, <1>3 DEF WorkInv, JobsOK, JobOK, Present
<1>5. RetryOK(v)
  BY <1>1 DEF WorkInv, RetryOK, Present
<1> QED
  BY <1>1, <1>4, <1>5 DEF WorkInv, v

\* A job for the chunk k may be put in place of the jobs outside of J.
LEMMA OneMoreJob ==
    ASSUME NEW w, WorkInv(w), NEW stage \in {"generate", "mesh"}, NEW k \in Chunks,
           NEW job \in JobRecords, job.stage = stage, job.chunk = k, JobOK(w, job),
           ~HasJob(w, stage, k), NEW J \in SUBSET w.jobs, NEW d \in BOOLEAN,
           Cardinality({j \in J : j.stage = stage}) < QueueCap[stage]
    PROVE  WorkInv([w EXCEPT !.jobs = J \cup {job}, !.displaced = d])
<1> DEFINE u == [w EXCEPT !.jobs = J]
           v == [w EXCEPT !.jobs = J \cup {job}, !.displaced = d]
<1>1. WorkInv(u) /\ u.jobs = J
  BY FewerJobs
<1>2. /\ v \in Works /\ v.jobs = J \cup {job} /\ v.chunk = w.chunk /\ v.retry = w.retry
  BY DEF WorkInv, Works
<1> HIDE DEF u, v
<1>3. IsFiniteSet(J) /\ IsFiniteSet(v.jobs)
  BY <1>1, <1>2, FS_AddElement DEF WorkInv, JobsOK
<1>4. ASSUME NEW other \in {"generate", "mesh"}
      PROVE  Cardinality(Queued(v, other)) <= QueueCap[other]
  <2>1. CASE other = stage
    <3>1. Queued(v, other) = {j \in J : j.stage = stage} \cup {job}
      BY <1>2, <2>1 DEF Queued
    <3>2. IsFiniteSet({j \in J : j.stage = stage})
      BY <1>3, FS_Subset
    <3>3. Cardinality({j \in J : j.stage = stage}) \in Nat
      BY <3>2, FS_CardinalityType
    <3>4. \/ Cardinality(Queued(v, other)) = Cardinality({j \in J : j.stage = stage})
          \/ Cardinality(Queued(v, other)) = Cardinality({j \in J : j.stage = stage}) + 1
      BY <3>1, <3>2, FS_AddElement
    <3> QED
      BY <2>1, <3>3, <3>4, Constants
  <2>2. CASE other # stage
    <3>1. Queued(v, other) = Queued(u, other)
      BY <1>1, <1>2, <2>2 DEF Queued
    <3> QED
      BY <1>1, <3>1 DEF WorkInv, JobsOK
  <2> QED
    BY <2>1, <2>2
<1>5. ASSUME NEW i \in v.jobs, NEW j \in v.jobs, i.stage = j.stage, i.chunk = j.chunk
      PROVE  i = j
  <2>1. CASE i \in w.jobs /\ j \in w.jobs
    BY <1>5, <2>1 DEF WorkInv, JobsOK
  <2>2. CASE i = job \/ j = job
    BY <1>2, <1>5, <2>2 DEF HasJob
  <2> QED
    BY <1>2, <2>1, <2>2
<1>6. \A j \in v.jobs : JobOK(v, j)
  BY <1>2 DEF WorkInv, JobsOK, JobOK, Present
<1>7. JobsOK(v)
  BY <1>3, <1>4, <1>5, <1>6 DEF JobsOK
<1>8. RetryOK(v)
  BY <1>2 DEF WorkInv, RetryOK, Present
<1> QED
  BY <1>2, <1>7, <1>8 DEF WorkInv, v

\* What one enqueue may do: it admits the chunk, or drops another job and says
\* so, or refuses and changes nothing.
LEMMA EnqueueFacts ==
    ASSUME NEW w, WorkInv(w), NEW stage \in {"generate", "mesh"}, NEW k \in Chunks,
           NEW c \in Int, Present(w, k), stage = "generate" => ~w.chunk[k].generated,
           stage = "mesh" => w.chunk[k].status # "ActiveGpu"
    PROVE  LET r == Enqueue(w, stage, k, c)
           IN  /\ WorkInv(r.work) /\ r.ok \in BOOLEAN
               /\ r.work.chunk = w.chunk /\ r.work.retry = w.retry
               /\ w.displaced => r.work.displaced
               /\ r.work.displaced \/ w.jobs \subseteq r.work.jobs
               /\ r.ok => HasJob(r.work, stage, k)
               /\ ~r.ok => r.work = w
               /\ \A j \in r.work.jobs : j \in w.jobs \/ (j.stage = stage /\ j.chunk = k)
<1> DEFINE job == [stage |-> stage, chunk |-> k, rank |-> Distance(k, c), fresh |-> TRUE]
           queue == Queued(w, stage)
           worst == LeastUrgent(queue)
           r == Enqueue(w, stage, k, c)
<1>0. w \in Works
  BY DEF WorkInv
<1>1. job \in JobRecords /\ job.stage = stage /\ job.chunk = k /\ JobOK(w, job)
  BY DistanceNat, Constants DEF JobRecords, JobOK
<1>2. r = IF \E j \in queue : j.chunk = k THEN [ok |-> TRUE, work |-> w]
          ELSE IF Cardinality(queue) < QueueCap[stage]
          THEN [ok |-> TRUE, work |-> [w EXCEPT !.jobs = @ \cup {job}]]
          ELSE IF job.rank < worst.rank
          THEN [ok |-> TRUE, work |-> [w EXCEPT !.jobs = (@ \ {worst}) \cup {job},
                                                !.displaced = TRUE]]
          ELSE [ok |-> FALSE, work |-> w]
  BY DEF Enqueue
<1>3. (\E j \in queue : j.chunk = k) <=> HasJob(w, stage, k)
  BY DEF Queued, HasJob
<1>4. IsFiniteSet(queue) /\ Cardinality(queue) \in Nat /\ Cardinality(queue) <= QueueCap[stage]
      /\ QueueCap[stage] \in Nat /\ QueueCap[stage] >= 1
  <2>1. IsFiniteSet(queue)
    BY FS_Subset DEF WorkInv, JobsOK, Queued
  <2> QED
    BY <2>1, FS_CardinalityType, Constants DEF WorkInv, JobsOK
<1> HIDE DEF job, r
<1>5. CASE HasJob(w, stage, k)
  <2>1. r.ok = TRUE /\ r.work = w
    BY <1>2, <1>3, <1>5
  <2> QED
    BY <1>5, <2>1 DEF r
<1>6. CASE ~HasJob(w, stage, k) /\ Cardinality(queue) < QueueCap[stage]
  <2> DEFINE v == [w EXCEPT !.jobs = w.jobs \cup {job}, !.displaced = w.displaced]
  <2>1. v = [w EXCEPT !.jobs = @ \cup {job}]
    BY <1>0 DEF Works
  <2>2. w.displaced \in BOOLEAN /\ queue = {j \in w.jobs : j.stage = stage}
    BY <1>0 DEF Works, Queued
  <2>3. WorkInv(v)
    BY <1>1, <1>6, <2>2, OneMoreJob
  <2>4. /\ v.chunk = w.chunk /\ v.retry = w.retry /\ v.jobs = w.jobs \cup {job}
        /\ v.displaced = w.displaced
    BY <1>0 DEF Works
  <2>5. r.ok = TRUE /\ r.work = v
    BY <1>2, <1>3, <1>6, <2>1
  <2> HIDE DEF v
  <2>6. HasJob(v, stage, k)
    BY <1>1, <2>4 DEF HasJob
  <2>7. \A j \in v.jobs : j \in w.jobs \/ (j.stage = stage /\ j.chunk = k)
    BY <1>1, <2>4
  <2> QED
    BY <2>3, <2>4, <2>5, <2>6, <2>7 DEF r
<1>7. CASE ~HasJob(w, stage, k) /\ ~(Cardinality(queue) < QueueCap[stage]) /\ job.rank < worst.rank
  <2> DEFINE v == [w EXCEPT !.jobs = (w.jobs \ {worst}) \cup {job}, !.displaced = TRUE]
  <2>1. queue # {}
    <3>1. Cardinality(queue) # 0
      BY <1>4, <1>7
    <3> QED
      BY <3>1, FS_EmptySet
  <2>2. worst \in queue
    BY <2>1, QueueEnds
  <2>3. {j \in w.jobs \ {worst} : j.stage = stage} = queue \ {worst}
    BY DEF Queued
  <2> HIDE DEF queue, worst
  <2>4. Cardinality(queue \ {worst}) = Cardinality(queue) - 1
    BY <1>4, <2>2, FS_RemoveElement
  <2>5. Cardinality({j \in w.jobs \ {worst} : j.stage = stage}) < QueueCap[stage]
    <3>1. Cardinality(queue \ {worst}) < QueueCap[stage]
      BY <1>4, <2>4
    <3> QED
      BY <2>3, <3>1, Zenon
  <2>6. WorkInv(v)
    BY <1>1, <1>7, <2>5, OneMoreJob
  <2>7. /\ v.chunk = w.chunk /\ v.retry = w.retry /\ v.jobs = (w.jobs \ {worst}) \cup {job}
        /\ v.displaced = TRUE
    BY <1>0 DEF Works
  <2>8. r.ok = TRUE /\ r.work = v
    BY <1>2, <1>3, <1>7
  <2> HIDE DEF v
  <2>9. HasJob(v, stage, k)
    BY <1>1, <2>7 DEF HasJob
  <2>10. \A j \in v.jobs : j \in w.jobs \/ (j.stage = stage /\ j.chunk = k)
    BY <1>1, <2>7
  <2> QED
    BY <2>6, <2>7, <2>8, <2>9, <2>10 DEF r
<1>8. CASE ~HasJob(w, stage, k) /\ ~(Cardinality(queue) < QueueCap[stage]) /\ ~(job.rank < worst.rank)
  <2>1. r.ok = FALSE /\ r.work = w
    BY <1>2, <1>3, <1>8
  <2> QED
    BY <2>1 DEF r
<1> QED
  BY <1>5, <1>6, <1>7, <1>8

-----------------------------------------------------------------------------
(* One mesh request *)

\* The chunks may change their flags, if they still agree with the jobs.
LEMMA NewFlags ==
    ASSUME NEW w, WorkInv(w), NEW f \in [Chunks -> ChunkRecords],
           \A k \in Chunks : ChunkOK(f[k]) /\ (Present(w, k) => f[k].status # "Absent"),
           \A j \in w.jobs : /\ j.stage = "generate" => ~f[j.chunk].generated
                             /\ j.stage = "mesh" => f[j.chunk].status # "ActiveGpu"
    PROVE  LET v == [w EXCEPT !.chunk = f]
           IN  /\ WorkInv(v)
               /\ v.chunk = f /\ v.jobs = w.jobs /\ v.retry = w.retry /\ v.displaced = w.displaced
<1> DEFINE v == [w EXCEPT !.chunk = f]
<1>1. /\ v \in Works /\ v.chunk = f /\ v.jobs = w.jobs /\ v.retry = w.retry
      /\ v.displaced = w.displaced
  BY DEF WorkInv, Works
<1> HIDE DEF v
<1>2. \A j \in w.jobs : JobOK(v, j)
  <2> TAKE j \in w.jobs
  <2>1. JobOK(w, j) /\ j.chunk \in Chunks
    BY JobTypes DEF WorkInv, JobsOK
  <2> QED
    BY <1>1, <2>1 DEF JobOK, Present
<1>3. \A stage : Queued(v, stage) = Queued(w, stage)
  BY <1>1 DEF Queued
<1>4. JobsOK(v)
  BY <1>1, <1>2, <1>3 DEF WorkInv, JobsOK
<1>5. RetryOK(v)
  BY <1>1 DEF WorkInv, RetryOK, Present
<1> QED
  BY <1>1, <1>4, <1>5 DEF WorkInv, v

\* The parked retries may change, if they stay without repetitions.
LEMMA NewRetry ==
    ASSUME NEW w, WorkInv(w), NEW s \in Seq(Chunks), Distinct(s),
           \A k \in Chunks : Occurs(s, k) => Present(w, k)
    PROVE  LET v == [w EXCEPT !.retry = s]
           IN  /\ WorkInv(v)
               /\ v.chunk = w.chunk /\ v.jobs = w.jobs /\ v.retry = s /\ v.displaced = w.displaced
<1> DEFINE v == [w EXCEPT !.retry = s]
<1>1. /\ v \in Works /\ v.chunk = w.chunk /\ v.jobs = w.jobs /\ v.retry = s
      /\ v.displaced = w.displaced
  BY DEF WorkInv, Works
<1> HIDE DEF v
<1>2. \A stage : Queued(v, stage) = Queued(w, stage)
  BY <1>1 DEF Queued
<1>3. JobsOK(v)
  BY <1>1, <1>2 DEF WorkInv, JobsOK, JobOK, Present
<1>4. RetryOK(v)
  BY <1>1 DEF RetryOK, Present
<1> QED
  BY <1>1, <1>3, <1>4 DEF WorkInv, v

\* The reset of a record before a mesh request.
LEMMA EnsureFacts ==
    ASSUME NEW w, WorkInv(w), NEW k \in Chunks
    PROVE  LET u == EnsureMeshableRecord(w, k)
               a == w.chunk[k]
               b == u.chunk[k]
           IN  /\ WorkInv(u) /\ u.displaced = w.displaced /\ u.retry = w.retry
               /\ \A n \in Chunks \ {k} : u.chunk[n] = w.chunk[n]
               /\ b.state = a.state /\ b.generated = a.generated /\ b.dirty = a.dirty
               /\ b.sections = a.sections /\ b.shown = a.shown
               /\ b.status # "ActiveGpu" /\ (Present(u, k) <=> Present(w, k))
               /\ (b.batch = a.batch /\ b.status = a.status)
                     \/ (b.batch = NoBatch /\ b.status = "Lighted")
               /\ InFlight(u, k) => InFlight(w, k) /\ b.batch = a.batch /\ Current(a.batch)
               /\ u.jobs \subseteq w.jobs
               /\ \A j \in w.jobs : j \in u.jobs \/ (j.chunk = k /\ a.generated /\ j.stage = "mesh")
<1> DEFINE u == EnsureMeshableRecord(w, k)
           a == w.chunk[k]
<1>0. a \in ChunkRecords /\ ChunkOK(a) /\ w \in Works
  BY DEF WorkInv, Works
<1>1. CASE ~(a.status \in {"MeshQueued", "ActiveGpu"} /\ ~Current(a.batch))
  <2>1. u = w
    BY <1>1 DEF EnsureMeshableRecord
  <2>2. a.status # "ActiveGpu"
    BY <1>0, <1>1 DEF ChunkOK, Current
  <2>3. InFlight(w, k) => Current(a.batch)
    BY <1>1 DEF InFlight
  <2> HIDE DEF u
  <2> QED
    BY <2>1, <2>2, <2>3 DEF u
<1>2. CASE a.status \in {"MeshQueued", "ActiveGpu"} /\ ~Current(a.batch)
  <2> DEFINE J == {j \in w.jobs : j.chunk \notin {k}}
             x == [w EXCEPT !.jobs = J]
             b == [a EXCEPT !.batch = NoBatch, !.status = "Lighted"]
             f == [w.chunk EXCEPT ![k] = b]
             y == [x EXCEPT !.chunk = f]
  <2>1. u = [Without(CancelBatches(w, {k}), {k}) EXCEPT !.chunk[k].status = "Lighted"]
    BY <1>2 DEF EnsureMeshableRecord
  <2>2. /\ WorkInv(x) /\ x.jobs = J /\ x.chunk = w.chunk /\ x.retry = w.retry
        /\ x.displaced = w.displaced
    BY FewerJobs
  <2>3. NoBatch \in Batches
    BY DEF Batches
  <2>4. /\ b \in ChunkRecords /\ b.batch = NoBatch /\ b.status = "Lighted"
        /\ b.state = a.state /\ b.generated = a.generated /\ b.dirty = a.dirty
        /\ b.sections = a.sections /\ b.shown = a.shown
    BY <1>0, <2>3 DEF ChunkRecords
  <2>5. a.generated
    BY <1>0, <1>2 DEF ChunkOK
  <2>6. f \in [Chunks -> ChunkRecords] /\ f[k] = b /\ \A n \in Chunks \ {k} : f[n] = w.chunk[n]
    BY <1>0, <2>4 DEF Works
  <2>7. ChunkOK(b)
    BY <1>0, <2>4, <2>5 DEF ChunkOK
  <2>8. y = u
    <3> DEFINE g == [n \in Chunks |-> IF n \in {k} THEN [w.chunk[n] EXCEPT !.batch = NoBatch]
                                      ELSE w.chunk[n]]
               z == CancelBatches(w, {k})
    <3>1. z = [w EXCEPT !.chunk = g]
      BY DEF CancelBatches
    <3>2. Without(z, {k}) = [z EXCEPT !.jobs = J]
      BY <1>0, <3>1 DEF Without, Works
    <3>3. f = [g EXCEPT ![k].status = "Lighted"]
      BY <1>0, <2>6 DEF Works, ChunkRecords
    <3> HIDE DEF g, f, J
    <3>4. u = [[[w EXCEPT !.chunk = g] EXCEPT !.jobs = J] EXCEPT !.chunk[k].status = "Lighted"]
      BY <2>1, <3>1, <3>2
    <3>5. y = [[w EXCEPT !.jobs = J] EXCEPT !.chunk = f]
      OBVIOUS
    <3> QED
      BY <1>0, <3>3, <3>4, <3>5 DEF Works
  <2> HIDE DEF x, b, f, y, u
  <2>9. \A j \in x.jobs : /\ j.stage = "generate" => ~f[j.chunk].generated
                          /\ j.stage = "mesh" => f[j.chunk].status # "ActiveGpu"
    <3> TAKE j \in x.jobs
    <3>1. j \in w.jobs /\ j.chunk # k
      BY <2>2
    <3>2. JobOK(w, j) /\ j.chunk \in Chunks
      BY <3>1, JobTypes DEF WorkInv, JobsOK
    <3> QED
      BY <2>6, <3>1, <3>2 DEF JobOK
  <2>10. \A n \in Chunks : ChunkOK(f[n]) /\ (Present(x, n) => f[n].status # "Absent")
    BY <2>2, <2>4, <2>6, <2>7 DEF WorkInv, Present
  <2>11. /\ WorkInv(y) /\ y.chunk = f /\ y.jobs = x.jobs /\ y.retry = x.retry
         /\ y.displaced = x.displaced
    BY <2>2, <2>6, <2>9, <2>10, NewFlags DEF y
  <2>12. Present(y, k) /\ Present(w, k) /\ ~InFlight(y, k)
    BY <1>2, <2>4, <2>6, <2>11 DEF Present, InFlight
  <2>13. \A j \in w.jobs : j \in y.jobs \/ (j.chunk = k /\ a.generated /\ j.stage = "mesh")
    BY <2>2, <2>5, <2>11, JobTypes
  <2>14. y.jobs \subseteq w.jobs
    BY <2>2, <2>11
  <2> QED
    BY <2>2, <2>4, <2>6, <2>8, <2>11, <2>12, <2>13, <2>14 DEF u
<1> QED
  BY <1>1, <1>2

\* What v keeps of w, chunk by chunk, when it comes from w by mesh requests, by
\* the end of a mesh pass or by the rejection of batches.
Kept(w, v, k) ==
    /\ v.chunk[k].generated = w.chunk[k].generated
    /\ Present(v, k) <=> Present(w, k)
    /\ ShownOK(w.chunk[k]) => ShownOK(v.chunk[k])
    /\ InFlight(v, k) => /\ InFlight(w, k)
                         /\ w.chunk[k].batch # NoBatch => v.chunk[k].batch # NoBatch
    /\ Current(v.chunk[k].batch) => Current(w.chunk[k].batch)
    /\ v.displaced \/ (Covered(w, k) => Covered(v, k))

Continues(w, v) ==
    /\ WorkInv(v)
    /\ w.displaced => v.displaced
    /\ \A k \in Chunks : Kept(w, v, k)

LEMMA ContinuesReflexive == ASSUME NEW w, WorkInv(w) PROVE Continues(w, w)
  BY DEF Continues, Kept

LEMMA ContinuesTransitive ==
    ASSUME NEW u, NEW v, NEW w, Continues(u, v), Continues(v, w) PROVE Continues(u, w)
<1>1. ASSUME NEW k \in Chunks PROVE Kept(u, w, k)
  <2>1. Kept(u, v, k) /\ Kept(v, w, k) /\ (v.displaced => w.displaced)
    BY DEF Continues
  <2> QED
    BY <2>1 DEF Kept
<1> QED
  BY <1>1 DEF Continues

\* The invariant as a set of facts about one chunk and the retries.
LEMMA WorkFacts ==
    ASSUME NEW w, WorkInv(w)
    PROVE  /\ w \in Works /\ Distinct(w.retry) /\ w.retry \in Seq(Chunks)
           /\ w.chunk \in [Chunks -> ChunkRecords] /\ w.displaced \in BOOLEAN
           /\ \A k \in Chunks : w.chunk[k] \in ChunkRecords /\ ChunkOK(w.chunk[k])
           /\ \A k \in Chunks : Occurs(w.retry, k) => Present(w, k)
           /\ \A j \in w.jobs : JobOK(w, j)
  BY DEF WorkInv, Works, RetryOK, JobsOK

\* A request that was admitted: the state is Meshing and no retry is parked.
LEMMA Admitted ==
    ASSUME NEW w, WorkInv(w), NEW k \in Chunks, Present(w, k), HasJob(w, "mesh", k)
    PROVE  LET v == [w EXCEPT !.chunk[k].state = "Meshing", !.retry = Delete(@, k)]
           IN  /\ Continues(w, v) /\ (w.chunk[k].generated => Covered(v, k))
               /\ v.jobs = w.jobs /\ \A n \in Chunks : InFlight(v, n) <=> InFlight(w, n)
<1> DEFINE a == w.chunk[k]
           b == [a EXCEPT !.state = "Meshing"]
           f == [w.chunk EXCEPT ![k] = b]
           s == Delete(w.retry, k)
           x == [w EXCEPT !.chunk = f]
           v == [x EXCEPT !.retry = s]
<1>1. w \in Works /\ w.chunk \in [Chunks -> ChunkRecords] /\ a \in ChunkRecords /\ ChunkOK(a)
  BY WorkFacts
<1>2. v = [w EXCEPT !.chunk[k].state = "Meshing", !.retry = Delete(@, k)]
  BY <1>1 DEF Works
<1>3. /\ b \in ChunkRecords /\ b.state = "Meshing" /\ b.generated = a.generated
      /\ b.dirty = a.dirty /\ b.status = a.status /\ b.batch = a.batch
      /\ b.sections = a.sections /\ b.shown = a.shown
  BY <1>1 DEF ChunkRecords
<1>4. f \in [Chunks -> ChunkRecords] /\ f[k] = b /\ \A n \in Chunks \ {k} : f[n] = w.chunk[n]
  BY <1>1, <1>3
<1>5. ChunkOK(b) /\ ShownOK(b)
  BY <1>1, <1>3 DEF ChunkOK, ShownOK
<1> HIDE DEF b, f, x, v
<1>6. \A n \in Chunks : ChunkOK(f[n]) /\ (Present(w, n) => f[n].status # "Absent")
  BY <1>3, <1>4, <1>5, WorkFacts DEF Present
<1>7. \A j \in w.jobs : /\ j.stage = "generate" => ~f[j.chunk].generated
                        /\ j.stage = "mesh" => f[j.chunk].status # "ActiveGpu"
  <2> TAKE j \in w.jobs
  <2>1. JobOK(w, j) /\ j.chunk \in Chunks
    BY WorkFacts, JobTypes
  <2> QED
    BY <1>3, <1>4, <2>1 DEF JobOK
<1>8. WorkInv(x) /\ x.chunk = f /\ x.jobs = w.jobs /\ x.retry = w.retry /\ x.displaced = w.displaced
  BY <1>4, <1>6, <1>7, NewFlags DEF x
<1>9. s \in Seq(Chunks) /\ Distinct(s) /\ \A n : Occurs(s, n) <=> n # k /\ Occurs(w.retry, n)
  BY WorkFacts, DeleteFacts
<1>10. \A n \in Chunks : Present(x, n) <=> Present(w, n)
  BY <1>3, <1>4, <1>8 DEF Present
<1>11. \A n \in Chunks : Occurs(s, n) => Present(x, n)
  BY <1>9, <1>10, WorkFacts
<1> HIDE DEF s
<1>12. WorkInv(v) /\ v.chunk = f /\ v.jobs = w.jobs /\ v.retry = s /\ v.displaced = w.displaced
  BY <1>8, <1>9, <1>11, NewRetry DEF v
<1>13. \A stage, n : HasJob(v, stage, n) <=> HasJob(w, stage, n)
  BY <1>12 DEF HasJob
<1>14. a.generated => Covered(v, k)
  BY <1>3, <1>4, <1>12, <1>13 DEF Covered
<1>15. ASSUME NEW n \in Chunks PROVE Kept(w, v, n) /\ (InFlight(v, n) <=> InFlight(w, n))
  <2>1. CASE n = k
    <3>1. v.chunk[n] = b /\ w.chunk[n] = a
      BY <1>4, <1>12, <2>1
    <3>2. Covered(w, n) => Covered(v, n)
      BY <1>3, <1>13, <1>14, <2>1, <3>1 DEF Covered
    <3> QED
      BY <1>3, <1>5, <3>1, <3>2 DEF Kept, Present, InFlight
  <2>2. CASE n # k
    <3>1. v.chunk[n] = w.chunk[n]
      BY <1>4, <1>12, <2>2
    <3>2. Occurs(w.retry, n) => Occurs(v.retry, n)
      BY <1>9, <1>12, <2>2
    <3>3. Covered(w, n) => Covered(v, n)
      BY <1>13, <3>1, <3>2 DEF Covered
    <3> QED
      BY <3>1, <3>3 DEF Kept, Present, InFlight
  <2> QED
    BY <2>1, <2>2
<1> QED
  BY <1>2, <1>12, <1>14, <1>15 DEF Continues

\* A request that was refused: it is parked.
LEMMA Parked ==
    ASSUME NEW w, WorkInv(w), NEW k \in Chunks, Present(w, k)
    PROVE  LET v == [w EXCEPT !.retry = Set(@, k)]
           IN  /\ Continues(w, v) /\ (w.chunk[k].generated => Covered(v, k))
               /\ v.jobs = w.jobs /\ \A n \in Chunks : InFlight(v, n) <=> InFlight(w, n)
<1> DEFINE s == Set(w.retry, k)
           v == [w EXCEPT !.retry = s]
<1>1. s \in Seq(Chunks) /\ Distinct(s) /\ \A n : Occurs(s, n) <=> n = k \/ Occurs(w.retry, n)
  BY WorkFacts, SetFacts
<1>2. v = [w EXCEPT !.retry = Set(@, k)]
  OBVIOUS
<1> HIDE DEF s, v
<1>3. \A n \in Chunks : Occurs(s, n) => Present(w, n)
  BY <1>1, WorkFacts
<1>4. WorkInv(v) /\ v.chunk = w.chunk /\ v.jobs = w.jobs /\ v.retry = s /\ v.displaced = w.displaced
  BY <1>1, <1>3, NewRetry DEF v
<1>5. \A n \in Chunks : Kept(w, v, n) /\ (InFlight(v, n) <=> InFlight(w, n))
  BY <1>1, <1>4 DEF Kept, Present, InFlight, Covered, HasJob
<1>6. w.chunk[k].generated => Covered(v, k)
  BY <1>1, <1>4 DEF Covered
<1> QED
  BY <1>2, <1>4, <1>5, <1>6 DEF Continues

\* One mesh request keeps everything, and sees to its chunk.
LEMMA RequestFacts ==
    ASSUME NEW w, WorkInv(w), NEW k \in Chunks, Present(w, k), NEW c \in Int
    PROVE  LET v == EnqueueMeshWithRetry(w, k, c)
           IN  /\ Continues(w, v)
               /\ w.chunk[k].generated => Covered(v, k)
               /\ ~Current(w.chunk[k].batch) =>
                     ~InFlight(v, k) /\ (Tidy(w) => Tidy(v))
<1> DEFINE v == EnqueueMeshWithRetry(w, k, c)
           u == EnsureMeshableRecord(w, k)
           r == Enqueue(u, "mesh", k, c)
           a == w.chunk[k]
           b == u.chunk[k]
<1>1. /\ WorkInv(u) /\ u.displaced = w.displaced /\ u.retry = w.retry
      /\ \A n \in Chunks \ {k} : u.chunk[n] = w.chunk[n]
      /\ b.state = a.state /\ b.generated = a.generated /\ b.dirty = a.dirty
      /\ b.sections = a.sections /\ b.shown = a.shown
      /\ b.status # "ActiveGpu" /\ (Present(u, k) <=> Present(w, k))
      /\ (b.batch = a.batch /\ b.status = a.status)
            \/ (b.batch = NoBatch /\ b.status = "Lighted")
      /\ InFlight(u, k) => InFlight(w, k) /\ b.batch = a.batch /\ Current(a.batch)
      /\ u.jobs \subseteq w.jobs
      /\ \A j \in w.jobs : j \in u.jobs \/ (j.chunk = k /\ a.generated /\ j.stage = "mesh")
  BY EnsureFacts
<1> HIDE DEF u
<1>2. /\ WorkInv(r.work) /\ r.ok \in BOOLEAN
      /\ r.work.chunk = u.chunk /\ r.work.retry = u.retry
      /\ u.displaced => r.work.displaced
      /\ r.work.displaced \/ u.jobs \subseteq r.work.jobs
      /\ r.ok => HasJob(r.work, "mesh", k)
      /\ ~r.ok => r.work = u
      /\ \A j \in r.work.jobs : j \in u.jobs \/ (j.stage = "mesh" /\ j.chunk = k)
  BY <1>1, EnqueueFacts
<1>3. v = IF r.ok THEN [r.work EXCEPT !.chunk[k].state = "Meshing", !.retry = Delete(@, k)]
          ELSE [r.work EXCEPT !.retry = Set(@, k)]
  BY DEF EnqueueMeshWithRetry, u
<1> DEFINE x == r.work
<1> HIDE DEF r, v
<1>4. Present(x, k)
  BY <1>1, <1>2 DEF Present
<1>5. /\ Continues(x, v) /\ (x.chunk[k].generated => Covered(v, k))
      /\ v.jobs = x.jobs /\ \A n \in Chunks : InFlight(v, n) <=> InFlight(x, n)
  <2>1. CASE r.ok
    <3>1. v = [x EXCEPT !.chunk[k].state = "Meshing", !.retry = Delete(@, k)]
      BY <1>3, <2>1
    <3>2. WorkInv(x) /\ HasJob(x, "mesh", k)
      BY <1>2, <2>1
    <3> HIDE DEF x
    <3> QED
      BY <1>4, <3>1, <3>2, Admitted
  <2>2. CASE ~r.ok
    <3>1. v = [x EXCEPT !.retry = Set(@, k)]
      BY <1>3, <2>2
    <3>2. WorkInv(x)
      BY <1>2
    <3> HIDE DEF x
    <3> QED
      BY <1>4, <3>1, <3>2, Parked
  <2> QED
    BY <2>1, <2>2
<1>6. x.chunk = u.chunk /\ x.retry = w.retry /\ (w.displaced => x.displaced)
  BY <1>1, <1>2
<1>7. a.generated => Covered(v, k)
  BY <1>1, <1>5, <1>6
<1>8. \A j \in w.jobs : x.displaced \/ j \in x.jobs \/ (j.chunk = k /\ a.generated /\ j.stage = "mesh")
  BY <1>1, <1>2
<1>9. ASSUME NEW n \in Chunks PROVE Kept(w, v, n)
  <2>1. CASE n = k
    <3>1. Kept(x, v, k) /\ (x.displaced => v.displaced)
      BY <1>5 DEF Continues
    <3>2. x.chunk[k] = b
      BY <1>6
    <3>3. v.displaced \/ (Covered(w, k) => Covered(v, k))
      <4>1. CASE a.generated
        BY <1>7, <4>1
      <4>2. CASE ~a.generated
        <5>1. Covered(w, k) => x.displaced \/ Covered(x, k)
          BY <1>1, <1>8, <3>2, <4>2 DEF Covered, HasJob
        <5> QED
          BY <3>1, <5>1 DEF Kept
      <4> QED
        BY <4>1, <4>2
    <3>4. ShownOK(a) => ShownOK(b)
      BY <1>1 DEF ShownOK
    <3>5. Current(b.batch) => Current(a.batch)
      BY <1>1 DEF Current
    <3>6. InFlight(x, k) => InFlight(w, k) /\ b.batch = a.batch
      BY <1>1, <3>2 DEF InFlight
    <3>7. Present(x, k) <=> Present(w, k)
      BY <1>1, <3>2 DEF Present
    <3> QED
      BY <1>1, <2>1, <3>1, <3>2, <3>3, <3>4, <3>5, <3>6, <3>7 DEF Kept
  <2>2. CASE n # k
    <3>1. x.chunk[n] = w.chunk[n]
      BY <1>1, <1>6, <2>2
    <3>2. x.displaced \/ (Covered(w, n) => Covered(x, n))
      BY <1>6, <1>8, <2>2, <3>1 DEF Covered, HasJob
    <3>3. Kept(x, v, n) /\ (x.displaced => v.displaced)
      BY <1>5 DEF Continues
    <3> QED
      BY <3>1, <3>2, <3>3 DEF Kept, Present, InFlight
  <2> QED
    BY <2>1, <2>2
<1>10. Continues(w, v)
  BY <1>5, <1>6, <1>9 DEF Continues
<1>11. ASSUME ~Current(a.batch) PROVE ~InFlight(v, k) /\ (Tidy(w) => Tidy(v))
  <2>1. ~InFlight(x, k)
    BY <1>1, <1>6, <1>11 DEF InFlight
  <2>2. ~InFlight(v, k)
    BY <1>5, <2>1
  <2>3. ASSUME Tidy(w), NEW j \in v.jobs, j.stage = "mesh" PROVE ~InFlight(v, j.chunk)
    <3>1. CASE j.chunk = k
      BY <2>2, <3>1
    <3>2. CASE j.chunk # k
      <4>1. j \in w.jobs
        BY <1>1, <1>2, <1>5, <3>2
      <4>2. ~InFlight(w, j.chunk) /\ j.chunk \in Chunks
        BY <2>3, <4>1, JobTypes DEF Tidy
      <4> QED
        BY <1>9, <4>2 DEF Kept
    <3> QED
      BY <3>1, <3>2
  <2> QED
    BY <2>2, <2>3 DEF Tidy
<1> QED
  BY <1>7, <1>10, <1>11 DEF v

-----------------------------------------------------------------------------
(* Many mesh requests *)

\* markDirty on several chunks.
LEMMA MarkDirtyFacts ==
    ASSUME NEW w, WorkInv(w), NEW S \in SUBSET Chunks
    PROVE  LET u == MarkDirty(w, S)
           IN  /\ WorkInv(u)
               /\ u.jobs = w.jobs /\ u.retry = w.retry /\ u.displaced = w.displaced
               /\ \A k \in Chunks :
                     /\ u.chunk[k].generated = w.chunk[k].generated
                     /\ u.chunk[k].status = w.chunk[k].status
                     /\ u.chunk[k].state = w.chunk[k].state
                     /\ k \notin S => u.chunk[k] = w.chunk[k]
                     /\ k \in S => u.chunk[k].dirty /\ ~Current(u.chunk[k].batch)
                     /\ u.chunk[k].batch # NoBatch <=> w.chunk[k].batch # NoBatch
<1> DEFINE New(a) == IF a.batch = NoBatch THEN [a EXCEPT !.dirty = TRUE]
                     ELSE [a EXCEPT !.dirty = TRUE, !.batch.version = FALSE]
           f == [k \in Chunks |-> IF k \notin S THEN w.chunk[k] ELSE New(w.chunk[k])]
           u == [w EXCEPT !.chunk = f]
<1>1. u = MarkDirty(w, S)
  BY DEF MarkDirty
<1>2. ASSUME NEW a \in ChunkRecords
      PROVE  /\ New(a) \in ChunkRecords
             /\ New(a).generated = a.generated /\ New(a).status = a.status
             /\ New(a).state = a.state /\ New(a).dirty = TRUE /\ New(a).shown = a.shown
             /\ New(a).sections = a.sections
             /\ New(a).batch # NoBatch <=> a.batch # NoBatch
             /\ ~Current(New(a).batch)
             /\ a.batch # NoBatch => /\ New(a).batch.generation = a.batch.generation
                                     /\ New(a).batch.truthful = a.batch.truthful
                                     /\ New(a).batch.snapshot = a.batch.snapshot
  <2>1. CASE a.batch = NoBatch
    <3>1. New(a) = [a EXCEPT !.dirty = TRUE]
      BY <2>1
    <3> HIDE DEF New
    <3> QED
      BY <2>1, <3>1 DEF ChunkRecords, Current
  <2>2. CASE a.batch # NoBatch
    <3> DEFINE b == [a.batch EXCEPT !.version = FALSE]
    <3>1. New(a) = [a EXCEPT !.dirty = TRUE, !.batch = b]
      BY <2>2
    <3>2. a.batch \in [left : 1 .. Parts, generation : BOOLEAN, version : BOOLEAN,
                       snapshot : BOOLEAN, truthful : BOOLEAN]
      BY <2>2 DEF ChunkRecords, Batches
    <3>3. /\ b \in [left : 1 .. Parts, generation : BOOLEAN, version : BOOLEAN,
                    snapshot : BOOLEAN, truthful : BOOLEAN]
          /\ b.version = FALSE /\ b.generation = a.batch.generation
          /\ b.truthful = a.batch.truthful /\ b.snapshot = a.batch.snapshot
      BY <3>2
    <3>4. b # NoBatch
      BY <3>3 DEF NoBatch
    <3>5. b \in Batches
      BY <3>3 DEF Batches
    <3> HIDE DEF New, b
    <3> QED
      BY <2>2, <3>1, <3>3, <3>4, <3>5 DEF ChunkRecords, Current
  <2> QED
    BY <2>1, <2>2
<1> HIDE DEF New
<1>3. ASSUME NEW a \in ChunkRecords, ChunkOK(a) PROVE ChunkOK(New(a))
  BY <1>2, <1>3 DEF ChunkOK
<1>4. \A k \in Chunks : f[k] = IF k \notin S THEN w.chunk[k] ELSE New(w.chunk[k])
  OBVIOUS
<1>5. f \in [Chunks -> ChunkRecords]
  BY <1>2, WorkFacts
<1> HIDE DEF f
<1>6. ASSUME NEW k \in Chunks
      PROVE  /\ f[k].generated = w.chunk[k].generated
             /\ f[k].status = w.chunk[k].status
             /\ f[k].state = w.chunk[k].state
             /\ k \notin S => f[k] = w.chunk[k]
             /\ k \in S => f[k].dirty /\ ~Current(f[k].batch)
             /\ f[k].batch # NoBatch <=> w.chunk[k].batch # NoBatch
             /\ ChunkOK(f[k])
  <2>1. w.chunk[k] \in ChunkRecords /\ ChunkOK(w.chunk[k])
    BY WorkFacts
  <2>2. CASE k \in S
    <3> DEFINE a == w.chunk[k]
    <3>1. f[k] = New(a) /\ a \in ChunkRecords /\ ChunkOK(a)
      BY <1>4, <2>1, <2>2
    <3> HIDE DEF a
    <3>2. /\ New(a).generated = a.generated /\ New(a).status = a.status
          /\ New(a).state = a.state /\ New(a).dirty = TRUE
          /\ New(a).batch # NoBatch <=> a.batch # NoBatch
          /\ ~Current(New(a).batch)
      BY <1>2, <3>1
    <3>3. ChunkOK(New(a))
      BY <1>3, <3>1
    <3> QED
      BY <2>2, <3>1, <3>2, <3>3 DEF a
  <2>3. CASE k \notin S
    BY <1>4, <2>1, <2>3
  <2> QED
    BY <2>2, <2>3
<1>7. \A j \in w.jobs : /\ j.stage = "generate" => ~f[j.chunk].generated
                        /\ j.stage = "mesh" => f[j.chunk].status # "ActiveGpu"
  <2> TAKE j \in w.jobs
  <2>1. JobOK(w, j) /\ j.chunk \in Chunks
    BY WorkFacts, JobTypes
  <2> QED
    BY <1>6, <2>1 DEF JobOK
<1>8. WorkInv(u) /\ u.chunk = f /\ u.jobs = w.jobs /\ u.retry = w.retry /\ u.displaced = w.displaced
  <2>1. \A k \in Chunks : ChunkOK(f[k]) /\ (Present(w, k) => f[k].status # "Absent")
    BY <1>6 DEF Present
  <2> QED
    BY <1>5, <1>7, <2>1, NewFlags
<1> HIDE DEF u
<1>9. ASSUME NEW k \in Chunks
      PROVE  /\ u.chunk[k].generated = w.chunk[k].generated
             /\ u.chunk[k].status = w.chunk[k].status
             /\ u.chunk[k].state = w.chunk[k].state
             /\ k \notin S => u.chunk[k] = w.chunk[k]
             /\ k \in S => u.chunk[k].dirty /\ ~Current(u.chunk[k].batch)
             /\ u.chunk[k].batch # NoBatch <=> w.chunk[k].batch # NoBatch
  BY <1>6, <1>8
<1> QED
  BY <1>1, <1>8, <1>9

\* The chunks of s have been asked for.
Asked(v, s) == \A k \in s : (v.displaced \/ Covered(v, k)) /\ ~InFlight(v, k)

\* The requests for a set of dirty chunks, one after the other.
LEMMA RequestsFacts ==
    ASSUME NEW u, WorkInv(u), NEW T \in SUBSET Chunks, NEW c \in Int,
           \A k \in T : u.chunk[k].generated /\ ~Current(u.chunk[k].batch)
    PROVE  LET v == FoldSet(LAMBDA k, x : EnqueueMeshWithRetry(x, k, c), u, T)
           IN  Continues(u, v) /\ Asked(v, T) /\ (Tidy(u) => Tidy(v))
<1> DEFINE M == {v \in Works : Continues(u, v)}
           pick == [s \in SUBSET T |-> CHOOSE x \in s : TRUE]
           step == [p \in T \X M |-> EnqueueMeshWithRetry(p[2], p[1], c)]
           Eq(f) == f = [s \in SUBSET T |->
                            IF s = {} THEN u
                            ELSE EnqueueMeshWithRetry(f[s \ {CHOOSE x \in s : TRUE}],
                                                      CHOOSE x \in s : TRUE, c)]
           Q(v, s) == Continues(u, v) /\ Asked(v, s) /\ (Tidy(u) => Tidy(v))
<1>1. IsFiniteSet(T)
  BY Constants, FS_Subset
<1>p. Picks(pick, T)
  BY DEF Picks
<1>2. \A s \in SUBSET T : pick[s] = CHOOSE x \in s : TRUE
  OBVIOUS
<1>3. u \in M
  BY ContinuesReflexive, WorkFacts
<1>4. ASSUME NEW v, Continues(u, v), NEW k \in T
      PROVE  LET x == EnqueueMeshWithRetry(v, k, c)
             IN  /\ x \in M /\ Continues(v, x)
                 /\ Covered(x, k) /\ ~InFlight(x, k) /\ (Tidy(v) => Tidy(x))
  <2>1. /\ WorkInv(v) /\ Kept(u, v, k)
    BY <1>4 DEF Continues
  <2>2. Present(u, k)
    BY WorkFacts DEF ChunkOK, Present
  <2>3. Present(v, k) /\ v.chunk[k].generated /\ ~Current(v.chunk[k].batch)
    BY <2>1, <2>2 DEF Kept
  <2> DEFINE x == EnqueueMeshWithRetry(v, k, c)
  <2>4. Continues(v, x) /\ Covered(x, k) /\ ~InFlight(x, k) /\ (Tidy(v) => Tidy(x))
    BY <2>1, <2>3, RequestFacts
  <2> HIDE DEF x
  <2>5. Continues(u, x)
    BY <1>4, <2>4, ContinuesTransitive
  <2>6. x \in Works
    BY <2>4, WorkFacts DEF Continues
  <2> QED
    BY <2>4, <2>5, <2>6 DEF x
<1>s. step \in [T \X M -> M]
  BY <1>4
<1>5. \A k \in T, v \in M : step[<<k, v>>] = EnqueueMeshWithRetry(v, k, c)
  OBVIOUS
<1> HIDE DEF step, pick, M
<1>6. \E f : Eq(f)
  <2>1. PICK f \in [SUBSET T -> M] : IsFold(f, T, pick, u, step)
    BY <1>1, <1>p, <1>3, <1>s, FoldExists
  <2>2. ASSUME NEW s \in SUBSET T, s # {}
        PROVE  f[s] = EnqueueMeshWithRetry(f[s \ {CHOOSE x \in s : TRUE}],
                                           CHOOSE x \in s : TRUE, c)
    <3>1. pick[s] \in T /\ s \ {pick[s]} \in SUBSET T
      BY <1>p, <1>2, <2>2 DEF Picks
    <3>2. f[s] = EnqueueMeshWithRetry(f[s \ {pick[s]}], pick[s], c)
      BY <1>5, <2>1, <2>2, <3>1 DEF IsFold
    <3>3. pick[s] = CHOOSE x \in s : TRUE
      BY <1>2
    <3> QED
      BY <3>2, <3>3
  <2>3. Eq(f)
    BY <2>1, <2>2 DEF IsFold
  <2> QED
    BY <2>3
<1>7. ASSUME NEW f, Eq(f) PROVE Q(f[T], T)
  <2> DEFINE P == {s \in SUBSET T : Q(f[s], s)}
  <2>1. {} \in P
    <3>1. f[{}] = u
      BY <1>7
    <3> QED
      BY <3>1, ContinuesReflexive DEF Asked
  <2>2. ASSUME NEW s \in SUBSET T, s # {}, s \ {pick[s]} \in P PROVE s \in P
    <3> DEFINE k == pick[s]
               v == f[s \ {k}]
               x == EnqueueMeshWithRetry(v, k, c)
    <3>1. k \in s /\ k \in T /\ k = CHOOSE z \in s : TRUE
      BY <1>p, <1>2, <2>2 DEF Picks
    <3>2. Continues(u, v) /\ Asked(v, s \ {k}) /\ (Tidy(u) => Tidy(v))
      BY <2>2
    <3>3. f[s] = x
      BY <1>7, <2>2, <3>1
    <3> HIDE DEF k, v
    <3>4. /\ x \in M /\ Continues(v, x)
          /\ Covered(x, k) /\ ~InFlight(x, k) /\ (Tidy(v) => Tidy(x))
      BY <1>4, <3>1, <3>2
    <3> HIDE DEF x
    <3>5. Continues(u, x)
      BY <3>2, <3>4, ContinuesTransitive
    <3>6. ASSUME NEW n \in s PROVE (x.displaced \/ Covered(x, n)) /\ ~InFlight(x, n)
      <4>1. CASE n = k
        BY <3>4, <4>1
      <4>2. CASE n # k
        <5>1. Kept(v, x, n) /\ (v.displaced => x.displaced)
          BY <3>4 DEF Continues
        <5>2. (v.displaced \/ Covered(v, n)) /\ ~InFlight(v, n)
          BY <3>2, <4>2 DEF Asked
        <5> QED
          BY <5>1, <5>2 DEF Kept
      <4> QED
        BY <4>1, <4>2
    <3>7. Q(x, s)
      BY <3>2, <3>4, <3>5, <3>6 DEF Asked
    <3> QED
      BY <3>3, <3>7
  <2> HIDE DEF P
  <2>3. T \in P
    BY <1>1, <1>p, <2>1, <2>2, PickInduction
  <2> QED
    BY <2>3 DEF P
<1>8. Q((CHOOSE f : Eq(f))[T], T)
  <2> HIDE DEF Eq, Q
  <2> QED
    BY <1>6, <1>7
<1> QED
  BY <1>8 DEF FoldSet, MapThenFoldSet

\* markDirty and a request, for the generated chunks of a set.
LEMMA RemeshFacts ==
    ASSUME NEW w, WorkInv(w), NEW S \in SUBSET Chunks, NEW c \in Int
    PROVE  LET v == Remesh(w, S, c)
           IN  /\ Continues(w, v) /\ (Tidy(w) => Tidy(v))
               /\ Asked(v, {k \in S : w.chunk[k].generated})
               /\ \A k \in S : ShownOK(v.chunk[k])
<1> DEFINE T == {k \in S : w.chunk[k].generated}
           u == MarkDirty(w, T)
           v == Remesh(w, S, c)
<1>1. T \in SUBSET Chunks
  OBVIOUS
<1>2. /\ WorkInv(u)
      /\ u.jobs = w.jobs /\ u.retry = w.retry /\ u.displaced = w.displaced
      /\ \A k \in Chunks :
            /\ u.chunk[k].generated = w.chunk[k].generated
            /\ u.chunk[k].status = w.chunk[k].status
            /\ u.chunk[k].state = w.chunk[k].state
            /\ k \notin T => u.chunk[k] = w.chunk[k]
            /\ k \in T => u.chunk[k].dirty /\ ~Current(u.chunk[k].batch)
            /\ u.chunk[k].batch # NoBatch <=> w.chunk[k].batch # NoBatch
  BY <1>1, MarkDirtyFacts
<1>3. v = FoldSet(LAMBDA k, x : EnqueueMeshWithRetry(x, k, c), u, T)
  BY DEF Remesh
<1> HIDE DEF u, v
<1>4. \A k \in T : u.chunk[k].generated /\ ~Current(u.chunk[k].batch)
  BY <1>2
<1>5. Continues(u, v) /\ Asked(v, T) /\ (Tidy(u) => Tidy(v))
  <2> HIDE DEF T
  <2> QED
    BY <1>1, <1>2, <1>3, <1>4, RequestsFacts
<1>6. Tidy(w) => Tidy(u)
  BY <1>2, JobTypes DEF Tidy, InFlight
<1>7. ASSUME NEW k \in Chunks PROVE Kept(w, v, k)
  <2>1. Kept(u, v, k) /\ (u.displaced => v.displaced)
    BY <1>5 DEF Continues
  <2>2. CASE k \in T
    <3>1. ~Current(v.chunk[k].batch)
      BY <1>2, <2>1, <2>2 DEF Kept
    <3>2. ShownOK(v.chunk[k])
      BY <1>2, <2>1, <2>2 DEF Kept, ShownOK
    <3>3. v.displaced \/ Covered(v, k)
      BY <1>5, <2>2 DEF Asked
    <3>4. ~InFlight(v, k)
      BY <1>5, <2>2 DEF Asked
    <3> QED
      BY <1>2, <2>1, <3>1, <3>2, <3>3, <3>4 DEF Kept, Present
  <2>3. CASE k \notin T
    <3>1. u.chunk[k] = w.chunk[k]
      BY <1>2, <2>3
    <3>2. Covered(u, k) <=> Covered(w, k)
      BY <1>2, <3>1 DEF Covered, HasJob
    <3> QED
      BY <2>1, <3>1, <3>2 DEF Kept, Present, InFlight
  <2> QED
    BY <2>2, <2>3
<1>8. Continues(w, v)
  BY <1>2, <1>5, <1>7 DEF Continues
<1>9. ASSUME NEW k \in S PROVE ShownOK(v.chunk[k])
  <2>1. Kept(u, v, k) /\ Kept(w, v, k) /\ WorkInv(v)
    BY <1>5, <1>7 DEF Continues
  <2>2. CASE k \in T
    BY <1>2, <2>1, <2>2 DEF Kept, ShownOK
  <2>3. CASE k \notin T
    <3>1. ~v.chunk[k].generated
      BY <2>1, <2>3 DEF Kept
    <3>2. ChunkOK(v.chunk[k])
      BY <2>1, WorkFacts
    <3> QED
      BY <3>1, <3>2 DEF ChunkOK, ShownOK
  <2> QED
    BY <2>2, <2>3
<1> QED
  BY <1>5, <1>6, <1>8, <1>9 DEF v

-----------------------------------------------------------------------------
(* Versions that move on, batches that end *)

\* A chunk changes what it shows, its dirty sections or what its batch captured.
Quiet(a, b) ==
    /\ b \in ChunkRecords /\ ChunkOK(b)
    /\ b.state = a.state /\ b.generated = a.generated /\ b.dirty = a.dirty
    /\ b.status = a.status
    /\ b.batch # NoBatch <=> a.batch # NoBatch
    /\ Current(b.batch) => Current(a.batch)

LEMMA Quietly ==
    ASSUME NEW w, WorkInv(w), NEW f, f = [k \in Chunks |-> f[k]],
           \A k \in Chunks : Quiet(w.chunk[k], f[k])
    PROVE  LET v == [w EXCEPT !.chunk = f]
           IN  /\ WorkInv(v) /\ v.chunk = f /\ v.jobs = w.jobs /\ v.displaced = w.displaced
               /\ (\A k \in Chunks : ShownOK(w.chunk[k]) => ShownOK(f[k])) => Continues(w, v)
               /\ Tidy(w) => Tidy(v)
               /\ \A k \in Chunks : Covered(w, k) => Covered(v, k)
<1> DEFINE v == [w EXCEPT !.chunk = f]
<1>1. f \in [Chunks -> ChunkRecords]
  BY DEF Quiet
<1>2. \A k \in Chunks : ChunkOK(f[k]) /\ (Present(w, k) => f[k].status # "Absent")
  BY DEF Quiet, Present
<1>3. \A j \in w.jobs : /\ j.stage = "generate" => ~f[j.chunk].generated
                        /\ j.stage = "mesh" => f[j.chunk].status # "ActiveGpu"
  <2> TAKE j \in w.jobs
  <2>1. JobOK(w, j) /\ j.chunk \in Chunks
    BY WorkFacts, JobTypes
  <2> QED
    BY <2>1 DEF JobOK, Quiet
<1>4. WorkInv(v) /\ v.chunk = f /\ v.jobs = w.jobs /\ v.retry = w.retry /\ v.displaced = w.displaced
  BY <1>1, <1>2, <1>3, NewFlags
<1> HIDE DEF v
<1>5. ASSUME NEW k \in Chunks PROVE Covered(w, k) => Covered(v, k)
  BY <1>4 DEF Covered, HasJob, Quiet
<1>6. ASSUME NEW k \in Chunks, ShownOK(w.chunk[k]) => ShownOK(f[k]) PROVE Kept(w, v, k)
  BY <1>4, <1>5, <1>6 DEF Kept, Present, InFlight, Quiet
<1>7. ASSUME Tidy(w) PROVE Tidy(v)
  <2> SUFFICES ASSUME NEW j \in v.jobs, j.stage = "mesh" PROVE ~InFlight(v, j.chunk)
    BY DEF Tidy
  <2>1. j \in w.jobs /\ j.chunk \in Chunks
    BY <1>4, JobTypes
  <2> QED
    BY <1>4, <1>7, <2>1 DEF Tidy, InFlight, Quiet
<1> QED
  BY <1>4, <1>5, <1>6, <1>7 DEF Continues, v

\* A batch of the mesh stage.
RealBatches == [left : 1 .. Parts, generation : BOOLEAN, version : BOOLEAN,
                snapshot : BOOLEAN, truthful : BOOLEAN]

LEMMA BatchKinds ==
    /\ NoBatch \in Batches /\ RealBatches \subseteq Batches
    /\ \A b \in RealBatches : b # NoBatch
    /\ \A b \in Batches : b = NoBatch \/ b \in RealBatches
  BY DEF NoBatch, Batches, RealBatches

LEMMA SectionsMoveFacts ==
    ASSUME NEW w, WorkInv(w), NEW S
    PROVE  LET v == SectionsMove(w, S)
           IN  Continues(w, v) /\ (Tidy(w) => Tidy(v)) /\ v.jobs = w.jobs
               /\ (\A k \in Chunks : Covered(w, k) => Covered(v, k)) /\ v.displaced = w.displaced
<1> DEFINE Moves(k) == (Neighbours(k) \cup {k}) \cap S # {}
           f == [k \in Chunks |-> IF w.chunk[k].batch # NoBatch /\ Moves(k)
                                  THEN [w.chunk[k] EXCEPT !.batch.snapshot = FALSE] ELSE w.chunk[k]]
<1>1. SectionsMove(w, S) = [w EXCEPT !.chunk = f]
  BY DEF SectionsMove
<1>2. ASSUME NEW k \in Chunks
      PROVE  Quiet(w.chunk[k], f[k]) /\ (ShownOK(w.chunk[k]) => ShownOK(f[k]))
  <2> DEFINE a == w.chunk[k]
             b == [a.batch EXCEPT !.snapshot = FALSE]
             z == [a EXCEPT !.batch = b]
  <2>1. a \in ChunkRecords /\ ChunkOK(a) /\ a.batch \in Batches
    BY WorkFacts DEF ChunkRecords
  <2>2. CASE f[k] = a
    BY <2>1, <2>2 DEF Quiet
  <2>3. CASE f[k] # a
    <3>1. a.batch # NoBatch /\ f[k] = z
      BY <2>3
    <3>2. a.batch \in RealBatches
      BY <2>1, <3>1, BatchKinds
    <3>3. /\ b \in RealBatches /\ b.snapshot = FALSE /\ b.generation = a.batch.generation
          /\ b.version = a.batch.version /\ b.truthful = a.batch.truthful
      BY <3>2 DEF RealBatches
    <3>4. b # NoBatch /\ b \in Batches
      BY <3>3, BatchKinds
    <3> HIDE DEF b, f
    <3>5. /\ z \in ChunkRecords /\ z.batch = b /\ z.state = a.state /\ z.generated = a.generated
          /\ z.dirty = a.dirty /\ z.status = a.status /\ z.shown = a.shown
          /\ z.sections = a.sections
      BY <2>1, <3>4 DEF ChunkRecords
    <3> HIDE DEF z, a
    <3>6. ChunkOK(z)
      BY <2>1, <3>1, <3>3, <3>5 DEF ChunkOK
    <3>7. ~Current(b)
      BY <3>3 DEF Current
    <3>8. Quiet(a, z) /\ (ShownOK(a) => ShownOK(z))
      BY <3>1, <3>4, <3>5, <3>6, <3>7 DEF Quiet, ShownOK
    <3> QED
      BY <3>1, <3>8 DEF a
  <2> QED
    BY <2>2, <2>3
<1>3. f = [k \in Chunks |-> f[k]]
  OBVIOUS
<1> HIDE DEF f
<1> QED
  BY <1>1, <1>2, <1>3, Quietly

\* The sections of S become dirty.
LEMMA SectionsDirtyFacts ==
    ASSUME NEW w, WorkInv(w), NEW S
    PROVE  LET v == SectionsDirty(w, S)
           IN  Continues(w, v) /\ (Tidy(w) => Tidy(v))
<1> DEFINE f == [k \in Chunks |-> IF k \in S THEN [w.chunk[k] EXCEPT !.sections = TRUE]
                                  ELSE w.chunk[k]]
<1>1. SectionsDirty(w, S) = [w EXCEPT !.chunk = f]
  BY DEF SectionsDirty
<1>2. ASSUME NEW k \in Chunks
      PROVE  Quiet(w.chunk[k], f[k]) /\ (ShownOK(w.chunk[k]) => ShownOK(f[k]))
  <2> DEFINE a == w.chunk[k]
             z == [a EXCEPT !.sections = TRUE]
  <2>1. a \in ChunkRecords /\ ChunkOK(a)
    BY WorkFacts
  <2>2. /\ z \in ChunkRecords /\ z.batch = a.batch /\ z.state = a.state
        /\ z.generated = a.generated /\ z.dirty = a.dirty /\ z.status = a.status
        /\ z.shown = a.shown /\ z.sections = TRUE
    BY <2>1 DEF ChunkRecords
  <2>3. f[k] = a \/ f[k] = z
    OBVIOUS
  <2> HIDE DEF a, z, f
  <2>4. Quiet(a, z) /\ (ShownOK(a) => ShownOK(z)) /\ Quiet(a, a)
    BY <2>1, <2>2 DEF Quiet, ShownOK, ChunkOK
  <2> QED
    BY <2>3, <2>4 DEF a
<1>3. f = [k \in Chunks |-> f[k]]
  OBVIOUS
<1> HIDE DEF f
<1> QED
  BY <1>1, <1>2, <1>3, Quietly

\* An edit outdates what is shown and what was submitted, and moves the versions
\* by which the submitted payloads are recognised.
LEMMA OutdateFacts ==
    ASSUME NEW w, WorkInv(w), NEW S \in SUBSET Chunks
    PROVE  LET v == SectionsMove(Outdate(w, S), S)
           IN  /\ WorkInv(v) /\ v.displaced = w.displaced /\ (Tidy(w) => Tidy(v))
               /\ \A k \in Chunks : /\ Quiet(w.chunk[k], v.chunk[k])
                                    /\ Covered(w, k) => Covered(v, k)
                                    /\ k \notin S /\ ShownOK(w.chunk[k]) => ShownOK(v.chunk[k])
<1> DEFINE u == Outdate(w, S)
           g == [k \in Chunks |->
                   IF k \notin S THEN w.chunk[k]
                   ELSE IF w.chunk[k].batch = NoBatch
                        THEN [w.chunk[k] EXCEPT !.shown = FALSE, !.sections = TRUE]
                   ELSE [w.chunk[k] EXCEPT !.shown = FALSE, !.sections = TRUE,
                                           !.batch.truthful = FALSE]]
           Moves(k) == (Neighbours(k) \cup {k}) \cap S # {}
           f == [k \in Chunks |-> IF g[k].batch # NoBatch /\ Moves(k)
                                  THEN [g[k] EXCEPT !.batch.snapshot = FALSE] ELSE g[k]]
<1>1. u = [w EXCEPT !.chunk = g] /\ w \in Works
  BY WorkFacts DEF Outdate
<1>2. u.chunk = g /\ [u EXCEPT !.chunk = f] = [w EXCEPT !.chunk = f]
  BY <1>1 DEF Works
<1>3. SectionsMove(u, S) = [w EXCEPT !.chunk = f]
  <2> HIDE DEF u, g
  <2>1. SectionsMove(u, S) = [u EXCEPT !.chunk = f]
    BY <1>2 DEF SectionsMove
  <2> QED
    BY <1>2, <2>1
<1>4. ASSUME NEW k \in Chunks
      PROVE  /\ Quiet(w.chunk[k], f[k])
             /\ k \notin S /\ ShownOK(w.chunk[k]) => ShownOK(f[k])
  <2> DEFINE a == w.chunk[k]
             Cut1(b) == [b EXCEPT !.snapshot = FALSE]
             Cut2(b) == [b EXCEPT !.truthful = FALSE]
  <2>1. a \in ChunkRecords /\ ChunkOK(a) /\ a.batch \in Batches
    BY WorkFacts DEF ChunkRecords
  <2>2. k \in S => Moves(k)
    OBVIOUS
  <2>3. f[k] = IF g[k].batch # NoBatch /\ Moves(k)
               THEN [g[k] EXCEPT !.batch.snapshot = FALSE] ELSE g[k]
    OBVIOUS
  <2>4. g[k] = IF k \notin S THEN a
               ELSE IF a.batch = NoBatch THEN [a EXCEPT !.shown = FALSE, !.sections = TRUE]
               ELSE [a EXCEPT !.shown = FALSE, !.sections = TRUE, !.batch.truthful = FALSE]
    OBVIOUS
  <2> HIDE DEF f, g, Moves, a
  <2>5. CASE a.batch = NoBatch
    <3>1. CASE k \notin S
      <4>1. f[k] = a
        BY <2>3, <2>4, <2>5, <3>1
      <4> QED
        BY <2>1, <3>1, <4>1 DEF Quiet, a
    <3>2. CASE k \in S
      <4> DEFINE z == [a EXCEPT !.shown = FALSE, !.sections = TRUE]
      <4>1. /\ z \in ChunkRecords /\ z.batch = a.batch /\ z.state = a.state
            /\ z.generated = a.generated /\ z.dirty = a.dirty /\ z.status = a.status
            /\ z.sections = TRUE
        BY <2>1 DEF ChunkRecords
      <4>2. g[k] = z
        BY <2>4, <2>5, <3>2
      <4> HIDE DEF z
      <4>3. f[k] = z
        BY <2>3, <2>5, <4>1, <4>2
      <4>4. Quiet(a, z)
        BY <2>1, <2>5, <4>1 DEF Quiet, ChunkOK
      <4> QED
        BY <3>2, <4>3, <4>4 DEF a
    <3> QED
      BY <3>1, <3>2
  <2>6. CASE a.batch # NoBatch
    <3>0. a.batch \in RealBatches
      BY <2>1, <2>6, BatchKinds
    <3>1. CASE k \notin S
      <4> DEFINE b == [a.batch EXCEPT !.snapshot = FALSE]
                 z == [a EXCEPT !.batch = b]
      <4>1. /\ b \in RealBatches /\ b.snapshot = FALSE /\ b.generation = a.batch.generation
        BY <3>0 DEF RealBatches
      <4>2. b # NoBatch /\ b \in Batches
        BY <4>1, BatchKinds
      <4>3. f[k] = a \/ f[k] = z
        BY <2>3, <2>4, <3>1
      <4> HIDE DEF b
      <4>4. /\ z \in ChunkRecords /\ z.batch = b /\ z.state = a.state /\ z.generated = a.generated
            /\ z.dirty = a.dirty /\ z.status = a.status /\ z.shown = a.shown
            /\ z.sections = a.sections
        BY <2>1, <4>2 DEF ChunkRecords
      <4> HIDE DEF z
      <4>5. Quiet(a, z) /\ (ShownOK(a) => ShownOK(z))
        BY <2>1, <2>6, <4>1, <4>2, <4>4 DEF Quiet, ShownOK, ChunkOK, Current
      <4>6. Quiet(a, a)
        BY <2>1 DEF Quiet
      <4> QED
        BY <4>3, <4>5, <4>6 DEF a
    <3>2. CASE k \in S
      <4> DEFINE b1 == [a.batch EXCEPT !.truthful = FALSE]
                 y == [a EXCEPT !.shown = FALSE, !.sections = TRUE, !.batch = b1]
                 b == [b1 EXCEPT !.snapshot = FALSE]
                 z == [y EXCEPT !.batch = b]
      <4>1. b1 \in RealBatches /\ b1.generation = a.batch.generation
        BY <3>0 DEF RealBatches
      <4>2. b \in RealBatches /\ b.snapshot = FALSE /\ b.generation = a.batch.generation
        BY <4>1 DEF RealBatches
      <4>3. b1 # NoBatch /\ b1 \in Batches /\ b # NoBatch /\ b \in Batches
        BY <4>1, <4>2, BatchKinds
      <4>4. g[k] = y
        BY <2>4, <2>6, <3>2
      <4> HIDE DEF b1
      <4>5. /\ y \in ChunkRecords /\ y.batch = b1 /\ y.state = a.state
            /\ y.generated = a.generated /\ y.dirty = a.dirty /\ y.status = a.status
            /\ y.sections = TRUE
        BY <2>1, <4>3 DEF ChunkRecords
      <4> HIDE DEF y
      <4>6. f[k] = z
        BY <2>2, <2>3, <3>2, <4>3, <4>4, <4>5
      <4> HIDE DEF b
      <4>7. /\ z \in ChunkRecords /\ z.batch = b /\ z.state = a.state
            /\ z.generated = a.generated /\ z.dirty = a.dirty /\ z.status = a.status
            /\ z.sections = TRUE
        BY <4>3, <4>5 DEF ChunkRecords
      <4> HIDE DEF z
      <4>8. Quiet(a, z)
        BY <2>1, <2>6, <4>2, <4>3, <4>7 DEF Quiet, ChunkOK, Current
      <4> QED
        BY <3>2, <4>6, <4>8 DEF a
    <3> QED
      BY <3>1, <3>2
  <2> QED
    BY <2>5, <2>6
<1>5. f = [k \in Chunks |-> f[k]]
  OBVIOUS
<1> DEFINE v == [w EXCEPT !.chunk = f]
<1> HIDE DEF f, u
<1>6. /\ WorkInv(v) /\ v.chunk = f /\ v.displaced = w.displaced /\ (Tidy(w) => Tidy(v))
      /\ \A k \in Chunks : Covered(w, k) => Covered(v, k)
  BY <1>4, <1>5, Quietly
<1> HIDE DEF v
<1>7. SectionsMove(Outdate(w, S), S) = v
  BY <1>3 DEF u, v
<1> QED
  BY <1>4, <1>6, <1>7

-----------------------------------------------------------------------------
(* Chunks that leave, batches that end *)

\* The parked retries of T are dropped, one after the other.
LEMMA DroppedRetries ==
    ASSUME NEW m \in Seq(Chunks), Distinct(m), NEW T \in SUBSET Chunks
    PROVE  LET r == FoldSet(LAMBDA k, s : Delete(s, k), m, T)
           IN  r \in Seq(Chunks) /\ Distinct(r) /\ \A n : Occurs(r, n) <=> n \notin T /\ Occurs(m, n)
<1> DEFINE M == {r \in Seq(Chunks) : Distinct(r)}
           pick == [s \in SUBSET T |-> CHOOSE x \in s : TRUE]
           step == [p \in T \X M |-> Delete(p[2], p[1])]
           Eq(f) == f = [s \in SUBSET T |->
                            IF s = {} THEN m
                            ELSE Delete(f[s \ {CHOOSE x \in s : TRUE}], CHOOSE x \in s : TRUE)]
           Q(r, s) == r \in M /\ \A n : Occurs(r, n) <=> n \notin s /\ Occurs(m, n)
<1>1. IsFiniteSet(T)
  BY Constants, FS_Subset
<1>p. Picks(pick, T)
  BY DEF Picks
<1>2. \A s \in SUBSET T : pick[s] = CHOOSE x \in s : TRUE
  OBVIOUS
<1>3. m \in M
  OBVIOUS
<1>4. ASSUME NEW r \in M, NEW k
      PROVE  Delete(r, k) \in M /\ \A n : Occurs(Delete(r, k), n) <=> n # k /\ Occurs(r, n)
  BY DeleteFacts
<1>s. step \in [T \X M -> M]
  BY <1>4
<1>5. \A k \in T, r \in M : step[<<k, r>>] = Delete(r, k)
  OBVIOUS
<1> HIDE DEF step, pick, M
<1>6. \E f : Eq(f)
  <2>1. PICK f \in [SUBSET T -> M] : IsFold(f, T, pick, m, step)
    BY <1>1, <1>p, <1>3, <1>s, FoldExists
  <2>2. ASSUME NEW s \in SUBSET T, s # {}
        PROVE  f[s] = Delete(f[s \ {CHOOSE x \in s : TRUE}], CHOOSE x \in s : TRUE)
    <3>1. pick[s] \in T /\ s \ {pick[s]} \in SUBSET T
      BY <1>p, <1>2, <2>2 DEF Picks
    <3>2. f[s] = Delete(f[s \ {pick[s]}], pick[s])
      BY <1>5, <2>1, <2>2, <3>1 DEF IsFold
    <3>3. pick[s] = CHOOSE x \in s : TRUE
      BY <1>2
    <3> QED
      BY <3>2, <3>3
  <2>3. Eq(f)
    BY <2>1, <2>2 DEF IsFold
  <2> QED
    BY <2>3
<1>7. ASSUME NEW f, Eq(f) PROVE Q(f[T], T)
  <2> DEFINE P == {s \in SUBSET T : Q(f[s], s)}
  <2>1. {} \in P
    <3>1. f[{}] = m
      BY <1>7
    <3> QED
      BY <1>3, <3>1
  <2>2. ASSUME NEW s \in SUBSET T, s # {}, s \ {pick[s]} \in P PROVE s \in P
    <3> DEFINE k == pick[s]
               v == f[s \ {k}]
    <3>1. k \in s /\ k \in T /\ k = CHOOSE z \in s : TRUE
      BY <1>p, <1>2, <2>2 DEF Picks
    <3>2. v \in M /\ \A n : Occurs(v, n) <=> n \notin s \ {k} /\ Occurs(m, n)
      BY <2>2
    <3>3. f[s] = Delete(v, k)
      BY <1>7, <2>2, <3>1
    <3> HIDE DEF k, v
    <3>4. Delete(v, k) \in M /\ \A n : Occurs(Delete(v, k), n) <=> n # k /\ Occurs(v, n)
      BY <1>4, <3>2
    <3>5. Q(f[s], s)
      BY <3>1, <3>2, <3>3, <3>4
    <3> QED
      BY <3>5
  <2> HIDE DEF P
  <2>3. T \in P
    BY <1>1, <1>p, <2>1, <2>2, PickInduction
  <2> QED
    BY <2>3 DEF P
<1>8. Q((CHOOSE f : Eq(f))[T], T)
  <2> HIDE DEF Eq, Q
  <2> QED
    BY <1>6, <1>7
<1> QED
  BY <1>8 DEF FoldSet, MapThenFoldSet, M

LEMMA UnparkedFacts ==
    ASSUME NEW w, WorkInv(w), NEW S \in SUBSET Chunks
    PROVE  LET v == Unparked(w, S)
           IN  /\ WorkInv(v)
               /\ v.chunk = w.chunk /\ v.jobs = w.jobs /\ v.displaced = w.displaced
               /\ \A n : Occurs(v.retry, n) <=> n \notin S /\ Occurs(w.retry, n)
<1> DEFINE r == FoldSet(LAMBDA k, s : Delete(s, k), w.retry, S)
           v == [w EXCEPT !.retry = r]
<1>1. Unparked(w, S) = v
  BY DEF Unparked
<1>2. r \in Seq(Chunks) /\ Distinct(r) /\ \A n : Occurs(r, n) <=> n \notin S /\ Occurs(w.retry, n)
  BY WorkFacts, DroppedRetries
<1> HIDE DEF r
<1>3. \A k \in Chunks : Occurs(r, k) => Present(w, k)
  BY <1>2, WorkFacts
<1>4. /\ WorkInv(v) /\ v.chunk = w.chunk /\ v.jobs = w.jobs /\ v.retry = r
      /\ v.displaced = w.displaced
  BY <1>2, <1>3, NewRetry
<1> HIDE DEF v
<1> QED
  BY <1>1, <1>2, <1>4

\* The batches of S end: their stages are rolled back and their chunks asked for.
LEMMA RejectFacts ==
    ASSUME NEW w, WorkInv(w), Tidy(w), NEW S \in SUBSET Chunks, NEW c \in Int,
           \A k \in S : w.chunk[k].batch # NoBatch
    PROVE  LET v == RejectBatches(w, S, c) IN Continues(w, v) /\ Tidy(v)
<1> DEFINE owned == {k \in S : w.chunk[k].batch.generation}
           u == CancelBatches(w, S)
           failed == {k \in owned : InFlight(u, k)}
           x == FailMesh(u, owned)
           Gone(a) == [a EXCEPT !.batch = NoBatch]
           Back(a) == [Gone(a) EXCEPT !.status = "Lighted"]
           g == [k \in Chunks |-> IF k \in S THEN Gone(w.chunk[k]) ELSE w.chunk[k]]
           f == [k \in Chunks |-> IF k \in S THEN Back(w.chunk[k]) ELSE w.chunk[k]]
           y == [w EXCEPT !.chunk = f]
<1>0. w \in Works /\ w.chunk \in [Chunks -> ChunkRecords]
  BY WorkFacts
<1>1. ASSUME NEW k \in S
      PROVE  LET a == w.chunk[k]
             IN  /\ a \in ChunkRecords /\ ChunkOK(a) /\ a.generated /\ a.status = "MeshQueued"
                 /\ a.batch.generation
                 /\ Gone(a) \in ChunkRecords /\ Gone(a).status = "MeshQueued"
                 /\ Back(a) \in ChunkRecords /\ Back(a).status = "Lighted"
                 /\ Back(a).batch = NoBatch /\ Back(a).generated
                 /\ Back(a).state = a.state /\ Back(a).dirty = a.dirty
                 /\ Back(a).sections = a.sections /\ Back(a).shown = a.shown
  <2> DEFINE a == w.chunk[k]
  <2>1. a \in ChunkRecords /\ ChunkOK(a) /\ a.batch # NoBatch
    BY WorkFacts
  <2> HIDE DEF a
  <2>2. a.generated /\ a.status = "MeshQueued" /\ a.batch.generation
    BY <2>1 DEF ChunkOK
  <2>3. NoBatch \in Batches
    BY BatchKinds
  <2>4. Gone(a) \in ChunkRecords /\ Gone(a).status = "MeshQueued"
    BY <2>1, <2>2, <2>3 DEF ChunkRecords
  <2>5. /\ Back(a) \in ChunkRecords /\ Back(a).status = "Lighted"
        /\ Back(a).batch = NoBatch /\ Back(a).generated
        /\ Back(a).state = a.state /\ Back(a).dirty = a.dirty
        /\ Back(a).sections = a.sections /\ Back(a).shown = a.shown
    BY <2>1, <2>2, <2>3 DEF ChunkRecords
  <2> QED
    BY <2>1, <2>2, <2>4, <2>5 DEF a
<1>2. owned = S
  BY <1>1
<1>3. u = [w EXCEPT !.chunk = g]
  BY DEF CancelBatches
<1>4. u.chunk = g /\ u.jobs = w.jobs
  BY <1>0, <1>3 DEF Works
<1>5. failed = S
  <2>1. \A k \in S : g[k] = Gone(w.chunk[k])
    OBVIOUS
  <2> HIDE DEF g, u, owned, Gone
  <2>2. \A k \in S : u.chunk[k].status = "MeshQueued"
    BY <1>1, <1>4, <2>1
  <2> QED
    BY <1>2, <2>2 DEF InFlight
<1>6. \A j \in w.jobs : j.chunk \notin S \/ j.stage = "generate"
  <2> SUFFICES ASSUME NEW j \in w.jobs, j.chunk \in S, j.stage = "mesh" PROVE FALSE
    BY JobTypes
  <2> QED
    BY <1>1 DEF Tidy, InFlight
<1>7. \A j \in w.jobs : j.chunk \notin S
  BY <1>1, <1>6, JobTypes
<1> HIDE DEF owned, u, failed, x, Gone, Back
<1>8. {IF j.chunk \in failed THEN [j EXCEPT !.fresh = FALSE] ELSE j : j \in u.jobs} = w.jobs
  BY <1>4, <1>5, <1>7
<1>9. [k \in Chunks |-> IF k \in failed THEN [u.chunk[k] EXCEPT !.status = "Lighted"]
                        ELSE u.chunk[k]] = f
  BY <1>4, <1>5 DEF Back
<1>10. x = y
  <2>1. x = [u EXCEPT !.jobs = {IF j.chunk \in failed THEN [j EXCEPT !.fresh = FALSE] ELSE j :
                                j \in u.jobs},
                      !.chunk = [k \in Chunks |->
                         IF k \in failed THEN [u.chunk[k] EXCEPT !.status = "Lighted"]
                         ELSE u.chunk[k]]]
    BY DEF x, FailMesh, failed
  <2> HIDE DEF f
  <2>2. x = [u EXCEPT !.jobs = w.jobs, !.chunk = f]
    BY <1>8, <1>9, <2>1
  <2> HIDE DEF g
  <2> QED
    BY <1>0, <1>3, <2>2 DEF Works
<1>11. f \in [Chunks -> ChunkRecords]
  BY <1>0, <1>1
<1>12. \A k \in Chunks : f[k] = IF k \in S THEN Back(w.chunk[k]) ELSE w.chunk[k]
  OBVIOUS
<1> HIDE DEF f, y
<1>13. \A k \in Chunks : ChunkOK(f[k]) /\ (Present(w, k) => f[k].status # "Absent")
  <2> TAKE k \in Chunks
  <2>1. CASE k \in S
    <3> DEFINE a == w.chunk[k]
               b == Back(a)
    <3>1. /\ ChunkOK(a) /\ a.generated /\ b.status = "Lighted"
          /\ b.batch = NoBatch /\ b.generated /\ b.state = a.state
          /\ b.sections = a.sections /\ b.shown = a.shown
      BY <1>1, <2>1
    <3>2. f[k] = b
      BY <1>12, <2>1
    <3> HIDE DEF a, b
    <3> QED
      BY <3>1, <3>2 DEF ChunkOK
  <2>2. CASE k \notin S
    BY <1>12, <2>2, WorkFacts DEF Present
  <2> QED
    BY <2>1, <2>2
<1>14. \A j \in w.jobs : /\ j.stage = "generate" => ~f[j.chunk].generated
                         /\ j.stage = "mesh" => f[j.chunk].status # "ActiveGpu"
  <2> TAKE j \in w.jobs
  <2>1. JobOK(w, j) /\ j.chunk \in Chunks /\ j.chunk \notin S
    BY <1>7, WorkFacts, JobTypes
  <2> QED
    BY <1>12, <2>1 DEF JobOK
<1>15. WorkInv(y) /\ y.chunk = f /\ y.jobs = w.jobs /\ y.retry = w.retry /\ y.displaced = w.displaced
  BY <1>11, <1>13, <1>14, NewFlags DEF y
<1>16. Tidy(y)
  BY <1>7, <1>12, <1>15, JobTypes DEF Tidy, InFlight
<1> DEFINE v == Remesh(y, S, c)
<1>17. v = RejectBatches(w, S, c)
  BY <1>2, <1>10 DEF RejectBatches, x, u, owned
<1>18. Continues(y, v) /\ (Tidy(y) => Tidy(v)) /\ Asked(v, {k \in S : y.chunk[k].generated})
  BY <1>15, RemeshFacts
<1> HIDE DEF v
<1>19. ASSUME NEW k \in Chunks PROVE Kept(w, v, k)
  <2>1. Kept(y, v, k)
    BY <1>18 DEF Continues
  <2>2. CASE k \in S
    <3> DEFINE a == w.chunk[k]
               b == f[k]
    <3>1. /\ ChunkOK(a) /\ a.generated /\ a.status = "MeshQueued" /\ b.status = "Lighted"
          /\ b.batch = NoBatch /\ b.generated /\ b.state = a.state /\ b.dirty = a.dirty
          /\ b.shown = a.shown
      BY <1>1, <1>12, <2>2
    <3>2. y.chunk[k] = b
      BY <1>15
    <3>3. v.displaced \/ Covered(v, k)
      BY <1>18, <2>2, <3>1, <3>2 DEF Asked
    <3>4. (ShownOK(a) => ShownOK(b)) /\ ~Current(b.batch)
      BY <3>1 DEF ShownOK, Current
    <3>5. ~InFlight(y, k) /\ Present(w, k) /\ Present(y, k)
      BY <3>1, <3>2 DEF InFlight, Present
    <3> HIDE DEF b
    <3> QED
      BY <2>1, <3>1, <3>2, <3>3, <3>4, <3>5 DEF Kept
  <2>3. CASE k \notin S
    <3>1. y.chunk[k] = w.chunk[k]
      BY <1>12, <1>15, <2>3
    <3>2. Covered(y, k) <=> Covered(w, k)
      BY <1>15, <3>1 DEF Covered, HasJob
    <3> QED
      BY <2>1, <3>1, <3>2 DEF Kept, Present, InFlight
  <2> QED
    BY <2>2, <2>3
<1>20. Continues(w, v)
  BY <1>15, <1>18, <1>19 DEF Continues
<1> QED
  BY <1>16, <1>17, <1>18, <1>20

-----------------------------------------------------------------------------
(* One mesh job *)

\* The end of a mesh pass.
LEMMA CompleteFacts ==
    ASSUME NEW w, WorkInv(w), NEW k \in Chunks, w.chunk[k].generated, ~HasJob(w, "mesh", k)
    PROVE  LET v == Complete(w, k, TRUE)
           IN  Continues(w, v) /\ (Tidy(w) => Tidy(v)) /\ Covered(v, k)
<1> DEFINE a == w.chunk[k]
           b == [a EXCEPT !.shown = TRUE, !.sections = FALSE, !.batch = NoBatch, !.dirty = FALSE,
                          !.state = "Visible", !.status = "ActiveGpu"]
           f == [w.chunk EXCEPT ![k] = b]
           v == [w EXCEPT !.chunk = f]
<1>1. w \in Works /\ w.chunk \in [Chunks -> ChunkRecords] /\ a \in ChunkRecords /\ ChunkOK(a)
  BY WorkFacts
<1>2. v = Complete(w, k, TRUE)
  BY <1>1 DEF Complete, Works
<1>3. NoBatch \in Batches
  BY BatchKinds
<1>4. /\ b \in ChunkRecords /\ b.shown = TRUE /\ b.sections = FALSE /\ b.batch = NoBatch
      /\ b.dirty = FALSE /\ b.state = "Visible" /\ b.status = "ActiveGpu"
      /\ b.generated = a.generated
  BY <1>1, <1>3 DEF ChunkRecords
<1>5. f \in [Chunks -> ChunkRecords] /\ f[k] = b /\ \A n \in Chunks \ {k} : f[n] = w.chunk[n]
  BY <1>1, <1>4
<1> HIDE DEF b, f, v
<1>6. ChunkOK(b) /\ ShownOK(b) /\ ~Current(b.batch)
  BY <1>4 DEF ChunkOK, ShownOK, Current
<1>7. \A n \in Chunks : ChunkOK(f[n]) /\ (Present(w, n) => f[n].status # "Absent")
  BY <1>4, <1>5, <1>6, WorkFacts DEF Present
<1>8. \A j \in w.jobs : /\ j.stage = "generate" => ~f[j.chunk].generated
                        /\ j.stage = "mesh" => f[j.chunk].status # "ActiveGpu"
  <2> TAKE j \in w.jobs
  <2>1. JobOK(w, j) /\ j.chunk \in Chunks
    BY WorkFacts, JobTypes
  <2>2. CASE j.chunk = k
    BY <1>4, <1>5, <2>1, <2>2 DEF JobOK, HasJob
  <2>3. CASE j.chunk # k
    BY <1>5, <2>1, <2>3 DEF JobOK
  <2> QED
    BY <2>2, <2>3
<1>9. WorkInv(v) /\ v.chunk = f /\ v.jobs = w.jobs /\ v.retry = w.retry /\ v.displaced = w.displaced
  BY <1>5, <1>7, <1>8, NewFlags DEF v
<1>10. ~InFlight(v, k) /\ Covered(v, k)
  BY <1>4, <1>5, <1>9 DEF InFlight, Covered
<1>11. ASSUME NEW n \in Chunks PROVE Kept(w, v, n)
  <2>1. CASE n = k
    <3>1. v.chunk[n] = b /\ Present(w, n) /\ Present(v, n)
      BY <1>1, <1>4, <1>5, <1>9, <2>1 DEF Present, ChunkOK
    <3> QED
      BY <1>4, <1>6, <1>10, <2>1, <3>1 DEF Kept
  <2>2. CASE n # k
    <3>1. v.chunk[n] = w.chunk[n]
      BY <1>5, <1>9, <2>2
    <3>2. Covered(w, n) => Covered(v, n)
      BY <1>9, <3>1 DEF Covered, HasJob
    <3> QED
      BY <3>1, <3>2 DEF Kept, Present, InFlight
  <2> QED
    BY <2>1, <2>2
<1>12. Continues(w, v)
  BY <1>9, <1>11 DEF Continues
<1>13. ASSUME Tidy(w) PROVE Tidy(v)
  <2> SUFFICES ASSUME NEW j \in v.jobs, j.stage = "mesh" PROVE ~InFlight(v, j.chunk)
    BY DEF Tidy
  <2>1. j \in w.jobs /\ j.chunk \in Chunks /\ ~InFlight(w, j.chunk)
    BY <1>9, <1>13, JobTypes DEF Tidy
  <2> QED
    BY <1>11, <2>1 DEF Kept
<1> QED
  BY <1>2, <1>10, <1>12, <1>13

\* Meshing in place shows everything: a chunk whose sections are clean is up to date.
LEMMA MeshInPlaceFacts ==
    ASSUME NEW w, WorkInv(w), NEW k \in Chunks, w.chunk[k].generated, ~HasJob(w, "mesh", k)
    PROVE  LET v == MeshInPlace(w, k)
           IN  Continues(w, v) /\ (Tidy(w) => Tidy(v)) /\ Covered(v, k)
<1>1. w.chunk[k] \in ChunkRecords /\ ChunkOK(w.chunk[k])
  BY WorkFacts
<1>2. (w.chunk[k].shown \/ w.chunk[k].sections) = TRUE
  BY <1>1 DEF ChunkRecords, ChunkOK
<1>3. MeshInPlace(w, k) = Complete(w, k, TRUE)
  BY <1>2 DEF MeshInPlace
<1> QED
  BY <1>3, CompleteFacts

\* The entries that dequeue drops.
LEMMA DropStaleFacts ==
    ASSUME NEW w, WorkInv(w), NEW stage \in {"generate", "mesh"}
    PROVE  LET v == DropStale(w, stage)
           IN  /\ WorkInv(v) /\ v.chunk = w.chunk /\ v.retry = w.retry
               /\ v.displaced = w.displaced /\ v.jobs \subseteq w.jobs
               /\ \A j \in w.jobs : j \in v.jobs \/ (j.stage = "mesh" /\ InFlight(w, j.chunk))
               /\ Dispatchable(v, stage) = Dispatchable(w, stage)
               /\ stage = "mesh" => Tidy(v)
               /\ Beside(w) => Continues(w, v)
<1> DEFINE J == {j \in w.jobs : j.stage = stage => j \in Dispatchable(w, stage)}
           v == [w EXCEPT !.jobs = J]
<1>0. v = DropStale(w, stage)
  BY DEF DropStale
<1>1. /\ WorkInv(v) /\ v.jobs = J /\ v.chunk = w.chunk /\ v.retry = w.retry
      /\ v.displaced = w.displaced
  BY FewerJobs
<1> HIDE DEF v
<1>2. \A j \in w.jobs : j.fresh
  BY JobTypes
<1>3. \A j \in w.jobs : j \in J \/ (j.stage = "mesh" /\ InFlight(w, j.chunk))
  BY <1>2 DEF Dispatchable, Queued
<1>4. \A k : InFlight(v, k) <=> InFlight(w, k)
  BY <1>1 DEF InFlight
<1>5. Dispatchable(v, stage) = Dispatchable(w, stage)
  BY <1>1, <1>4 DEF Dispatchable, Queued
<1>6. stage = "mesh" => Tidy(v)
  BY <1>1, <1>4 DEF Tidy, Dispatchable
<1>7. ASSUME Beside(w), NEW k \in Chunks PROVE Kept(w, v, k)
  <2>1. Covered(w, k) => Covered(v, k)
    <3>1. InFlight(w, k) => w.chunk[k].batch # NoBatch
      BY <1>7 DEF Beside
    <3>2. HasJob(w, "generate", k) => HasJob(v, "generate", k)
      BY <1>1, <1>3 DEF HasJob
    <3>3. HasJob(w, "mesh", k) => HasJob(v, "mesh", k) \/ InFlight(w, k)
      BY <1>1, <1>3 DEF HasJob
    <3> HIDE DEF J
    <3> QED
      BY <1>1, <3>1, <3>2, <3>3 DEF Covered
  <2> QED
    BY <1>1, <1>4, <2>1 DEF Kept, Present
<1>8. Beside(w) => Continues(w, v)
  BY <1>1, <1>7 DEF Continues
<1> QED
  BY <1>0, <1>1, <1>3, <1>5, <1>6, <1>8

\* The best job is one of those that may be dispatched.
LEMMA BestFacts ==
    ASSUME NEW w, WorkInv(w), NEW stage \in {"generate", "mesh"}, Dispatchable(w, stage) # {}
    PROVE  LET job == Best(w, stage)
           IN  /\ job \in w.jobs /\ job.stage = stage /\ job.chunk \in Chunks
               /\ stage = "mesh" => ~InFlight(w, job.chunk)
<1>1. Dispatchable(w, stage) \in SUBSET Queued(w, stage)
  BY DEF Dispatchable
<1>2. Best(w, stage) \in Dispatchable(w, stage)
  BY <1>1, QueueEnds DEF Best
<1>3. Best(w, stage) \in w.jobs /\ Best(w, stage).stage = stage
  BY <1>1, <1>2 DEF Queued
<1> QED
  BY <1>2, <1>3, JobTypes DEF Dispatchable

\* The job that leaves the queue: its stage begins when its chunk is generated.
LEMMA TakenFacts ==
    ASSUME NEW w, WorkInv(w), Beside(w), Dispatchable(w, "mesh") # {}
    PROVE  LET v == Taken(w).work
               k == Taken(w).chunk
           IN  /\ WorkInv(v) /\ v.chunk = w.chunk /\ v.displaced = w.displaced
               /\ Tidy(v) /\ k \in Chunks /\ ~HasJob(v, "mesh", k)
               /\ Taken(w).begun <=> w.chunk[k].status = "Lighted"
               /\ Taken(w).begun => w.chunk[k].generated
               /\ ~Taken(w).begun => ~w.chunk[k].generated
               /\ \A n \in Chunks : n # k \/ ~Taken(w).begun => Kept(w, v, n)
<1> DEFINE u == DropStale(w, "mesh")
           job == Best(u, "mesh")
           J == u.jobs \ {job}
           v == [u EXCEPT !.jobs = J]
           k == job.chunk
<1>1. /\ WorkInv(u) /\ u.chunk = w.chunk /\ u.retry = w.retry
      /\ u.displaced = w.displaced /\ u.jobs \subseteq w.jobs
      /\ Dispatchable(u, "mesh") # {} /\ Tidy(u) /\ Continues(w, u)
  BY DropStaleFacts
<1> HIDE DEF u
<1>2. job \in u.jobs /\ job.stage = "mesh" /\ k \in Chunks /\ ~InFlight(u, k)
  BY <1>1, BestFacts
<1>3. JobOK(u, job)
  BY <1>1, <1>2, WorkFacts
<1>4. Taken(w).work = v /\ Taken(w).chunk = k /\ Taken(w).begun = (w.chunk[k].status = "Lighted")
  BY DEF Taken, u
<1> HIDE DEF job
<1>5. J \in SUBSET u.jobs
  OBVIOUS
<1>6. /\ WorkInv(v) /\ v.jobs = J /\ v.chunk = u.chunk /\ v.retry = u.retry
      /\ v.displaced = u.displaced
  <2> HIDE DEF J
  <2> QED
    BY <1>1, <1>5, FewerJobs
<1> HIDE DEF v
<1>7. Tidy(v)
  BY <1>1, <1>6 DEF Tidy, InFlight
<1>8. \A j \in u.jobs : j.stage = "mesh" /\ j.chunk = k => j = job
  BY <1>1, <1>2 DEF WorkInv, JobsOK
<1>9. ~HasJob(v, "mesh", k)
  BY <1>6, <1>8 DEF HasJob
<1> DEFINE a == w.chunk[k]
<1>10. a \in ChunkRecords /\ ChunkOK(a)
  BY <1>2, WorkFacts
<1>11. a.status \notin {"Absent", "ActiveGpu", "MeshQueued"}
  BY <1>1, <1>2, <1>3 DEF JobOK, Present, InFlight
<1>12. a.generated <=> a.status = "Lighted"
  BY <1>10, <1>11 DEF ChunkOK, ChunkRecords
<1> HIDE DEF a
<1>13. ASSUME NEW n \in Chunks, n # k \/ ~a.generated PROVE Kept(w, v, n)
  <2>1. Kept(w, u, n)
    BY <1>1 DEF Continues
  <2>2. HasJob(u, "generate", n) => HasJob(v, "generate", n)
    BY <1>2, <1>6 DEF HasJob
  <2>3. n # k /\ HasJob(u, "mesh", n) => HasJob(v, "mesh", n)
    BY <1>6 DEF HasJob
  <2>4. Covered(u, n) => Covered(v, n)
    BY <1>1, <1>6, <1>13, <2>2, <2>3 DEF Covered, a
  <2> QED
    BY <1>6, <2>1, <2>4 DEF Kept, Present, InFlight
<1> QED
  BY <1>1, <1>2, <1>4, <1>6, <1>7, <1>9, <1>12, <1>13 DEF a

-----------------------------------------------------------------------------
(* Chunks that change their life *)

AllShown(w) == \A k \in Chunks : ShownOK(w.chunk[k])

\* A registered batch: the stage is in flight and the batch is current.
LEMMA SubmittedFacts ==
    ASSUME NEW w, WorkInv(w), NEW k \in Chunks, w.chunk[k].status = "Lighted",
           ~HasJob(w, "mesh", k), NEW n \in 1 .. Parts
    PROVE  LET v == Submitted(w, k, n)
           IN  /\ WorkInv(v) /\ v.displaced = w.displaced /\ (Tidy(w) => Tidy(v))
               /\ (AllShown(w) => AllShown(v)) /\ (Beside(w) => Beside(v))
               /\ \A i \in Chunks : Present(v, i) <=> Present(w, i)
               /\ Covered(v, k) /\ \A i \in Chunks : Covered(w, i) => Covered(v, i)
<1> DEFINE a == w.chunk[k]
           new == [left |-> n, generation |-> TRUE, version |-> TRUE, snapshot |-> TRUE,
                   truthful |-> TRUE]
           b == [a EXCEPT !.status = "MeshQueued", !.batch = new]
           f == [w.chunk EXCEPT ![k] = b]
           v == [w EXCEPT !.chunk = f]
<1>1. w \in Works /\ w.chunk \in [Chunks -> ChunkRecords] /\ a \in ChunkRecords /\ ChunkOK(a)
  BY WorkFacts
<1>2. v = Submitted(w, k, n)
  BY <1>1 DEF Submitted, Works
<1>3. new \in RealBatches /\ new.generation = TRUE /\ new.truthful = TRUE
  BY DEF RealBatches
<1>4. new \in Batches /\ new # NoBatch
  BY <1>3, BatchKinds
<1> HIDE DEF new
<1>5. /\ b \in ChunkRecords /\ b.status = "MeshQueued" /\ b.batch = new
      /\ b.generated = a.generated /\ b.state = a.state /\ b.dirty = a.dirty
      /\ b.shown = a.shown /\ b.sections = a.sections
  BY <1>1, <1>4 DEF ChunkRecords
<1>6. f \in [Chunks -> ChunkRecords] /\ f[k] = b /\ \A i \in Chunks \ {k} : f[i] = w.chunk[i]
  BY <1>1, <1>5
<1> HIDE DEF b, f, v, a
<1>7. ChunkOK(b) /\ a.generated /\ a.status = "Lighted" /\ w.chunk[k] = a
  BY <1>1, <1>3, <1>4, <1>5 DEF ChunkOK, a
<1>8. \A i \in Chunks : ChunkOK(f[i]) /\ (Present(w, i) => f[i].status # "Absent")
  BY <1>5, <1>6, <1>7, WorkFacts DEF Present
<1>9. \A j \in w.jobs : /\ j.stage = "generate" => ~f[j.chunk].generated
                        /\ j.stage = "mesh" => f[j.chunk].status # "ActiveGpu"
  <2> TAKE j \in w.jobs
  <2>1. JobOK(w, j) /\ j.chunk \in Chunks
    BY WorkFacts, JobTypes
  <2> QED
    BY <1>5, <1>6, <1>7, <2>1 DEF JobOK
<1>10. WorkInv(v) /\ v.chunk = f /\ v.jobs = w.jobs /\ v.retry = w.retry /\ v.displaced = w.displaced
  BY <1>6, <1>8, <1>9, NewFlags DEF v
<1>11. ASSUME NEW i \in Chunks
       PROVE  /\ (ShownOK(w.chunk[i]) => ShownOK(v.chunk[i]))
              /\ Present(v, i) <=> Present(w, i)
              /\ Covered(w, i) => Covered(v, i)
              /\ i # k => v.chunk[i] = w.chunk[i]
              /\ (w.chunk[i].batch # NoBatch => v.chunk[i].batch # NoBatch)
  <2>1. CASE i = k
    BY <1>4, <1>5, <1>6, <1>7, <1>10, <2>1 DEF ShownOK, Present, Covered
  <2>2. CASE i # k
    BY <1>6, <1>10, <2>2 DEF Present, Covered, HasJob
  <2> QED
    BY <2>1, <2>2
<1>12. Covered(v, k) /\ v.chunk[k].batch # NoBatch
  BY <1>4, <1>5, <1>6, <1>7, <1>10 DEF Covered
<1>13. ASSUME Tidy(w) PROVE Tidy(v)
  <2> SUFFICES ASSUME NEW j \in v.jobs, j.stage = "mesh" PROVE ~InFlight(v, j.chunk)
    BY DEF Tidy
  <2>1. j \in w.jobs /\ j.chunk \in Chunks /\ ~InFlight(w, j.chunk) /\ j.chunk # k
    BY <1>10, <1>13, JobTypes DEF Tidy, HasJob
  <2> QED
    BY <1>11, <2>1 DEF InFlight
<1>14. AllShown(w) => AllShown(v)
  BY <1>11 DEF AllShown
<1>15. Beside(w) => Beside(v)
  BY <1>11, <1>12 DEF Beside, InFlight
<1> QED
  BY <1>2, <1>10, <1>11, <1>12, <1>13, <1>14, <1>15

\* What v keeps of w for the scans: nothing goes dirty unseen, nothing is stranded.
Safely(w, v) ==
    /\ WorkInv(v)
    /\ AllShown(w) => AllShown(v)
    /\ Beside(w) => Beside(v)
    /\ w.displaced => v.displaced
    /\ \A k \in Chunks : /\ Present(w, k) => Present(v, k)
                         /\ v.displaced \/ (Covered(w, k) => Covered(v, k))

LEMMA ContinuesSafely == ASSUME NEW w, NEW v, Continues(w, v) PROVE Safely(w, v)
<1>1. WorkInv(v) /\ (w.displaced => v.displaced) /\ \A k \in Chunks : Kept(w, v, k)
  BY DEF Continues
<1>2. AllShown(w) => AllShown(v)
  BY <1>1 DEF AllShown, Kept
<1>3. Beside(w) => Beside(v)
  BY <1>1 DEF Beside, Kept
<1> QED
  BY <1>1, <1>2, <1>3 DEF Safely, Kept

LEMMA SafelyTransitive ==
    ASSUME NEW u, NEW v, NEW w, Safely(u, v), Safely(v, w) PROVE Safely(u, w)
  BY DEF Safely

\* Nothing in flight and no jobs matter to a chunk whose record is not there or is
\* only allocated: it may be given a new record.
LEMMA RecordFacts ==
    ASSUME NEW w, WorkInv(w), NEW k \in Chunks, ~w.chunk[k].generated,
           NEW b \in ChunkRecords, ChunkOK(b), ShownOK(b), b.status # "Absent",
           b.batch = NoBatch, b.status \notin {"MeshQueued", "ActiveGpu"},
           b.generated => ~HasJob(w, "generate", k)
    PROVE  LET v == [w EXCEPT !.chunk[k] = b]
           IN  /\ WorkInv(v) /\ v.displaced = w.displaced /\ v.jobs = w.jobs
               /\ v.chunk[k] = b /\ \A n \in Chunks \ {k} : v.chunk[n] = w.chunk[n]
               /\ AllShown(w) => AllShown(v)
               /\ Beside(w) => Beside(v)
               /\ \A n \in Chunks : Present(w, n) => Present(v, n)
               /\ \A n \in Chunks : n # k /\ Covered(w, n) => Covered(v, n)
               /\ ~b.generated /\ Covered(w, k) => Covered(v, k)
<1> DEFINE f == [w.chunk EXCEPT ![k] = b]
           v == [w EXCEPT !.chunk = f]
<1>1. w.chunk \in [Chunks -> ChunkRecords] /\ v = [w EXCEPT !.chunk[k] = b]
  BY WorkFacts DEF Works
<1>2. f \in [Chunks -> ChunkRecords] /\ f[k] = b /\ \A n \in Chunks \ {k} : f[n] = w.chunk[n]
  BY <1>1
<1> HIDE DEF f, v
<1>3. \A n \in Chunks : ChunkOK(f[n]) /\ (Present(w, n) => f[n].status # "Absent")
  BY <1>2, WorkFacts DEF Present
<1>4. \A j \in w.jobs : /\ j.stage = "generate" => ~f[j.chunk].generated
                        /\ j.stage = "mesh" => f[j.chunk].status # "ActiveGpu"
  <2> TAKE j \in w.jobs
  <2>1. JobOK(w, j) /\ j.chunk \in Chunks
    BY WorkFacts, JobTypes
  <2> QED
    BY <1>2, <2>1 DEF JobOK, HasJob
<1>5. WorkInv(v) /\ v.chunk = f /\ v.jobs = w.jobs /\ v.retry = w.retry /\ v.displaced = w.displaced
  BY <1>2, <1>3, <1>4, NewFlags DEF v
<1>6. AllShown(w) => AllShown(v)
  BY <1>2, <1>5 DEF AllShown
<1>7. Beside(w) => Beside(v)
  BY <1>2, <1>5 DEF Beside, InFlight
<1>8. \A n \in Chunks : Present(w, n) => Present(v, n)
  BY <1>3, <1>5 DEF Present
<1>9. \A n \in Chunks : n # k /\ Covered(w, n) => Covered(v, n)
  BY <1>2, <1>5 DEF Covered, HasJob
<1>10. ~b.generated /\ Covered(w, k) => Covered(v, k)
  BY <1>2, <1>5 DEF Covered, HasJob
<1> QED
  BY <1>1, <1>2, <1>5, <1>6, <1>7, <1>8, <1>9, <1>10

\* The generation of a chunk whose job has left the queue.
LEMMA GeneratedFacts ==
    ASSUME NEW w, WorkInv(w), NEW k \in Chunks, Present(w, k), ~w.chunk[k].generated,
           ~HasJob(w, "generate", k), NEW moved \in BOOLEAN, center \in Int
    PROVE  LET v == Generated(w, k, moved)
           IN  /\ WorkInv(v) /\ (AllShown(w) => AllShown(v)) /\ (Beside(w) => Beside(v))
               /\ w.displaced => v.displaced
               /\ \A n \in Chunks : Present(w, n) => Present(v, n)
               /\ \A n \in Chunks : v.displaced \/ (n = k \/ Covered(w, n) => Covered(v, n))
<1> DEFINE a == w.chunk[k]
           b == [a EXCEPT !.status = "Lighted", !.generated = TRUE, !.state = "Generated",
                          !.sections = TRUE]
           made == [w EXCEPT !.chunk[k] = b]
           told == IF moved THEN SectionsMove(made, {k}) ELSE made
           asked == Remesh(told, Neighbours(k), center)
           v == EnqueueMeshWithRetry(asked, k, center)
<1>1. w \in Works /\ w.chunk \in [Chunks -> ChunkRecords] /\ a \in ChunkRecords /\ ChunkOK(a)
  BY WorkFacts
<1>2. made = [w EXCEPT !.chunk[k].status = "Lighted", !.chunk[k].generated = TRUE,
                       !.chunk[k].state = "Generated", !.chunk[k].sections = TRUE]
  BY <1>1 DEF Works
<1>3. /\ b \in ChunkRecords /\ b.status = "Lighted" /\ b.generated = TRUE
      /\ b.state = "Generated" /\ b.sections = TRUE /\ b.batch = a.batch
  BY <1>1 DEF ChunkRecords
<1>4. a.batch = NoBatch
  BY <1>1 DEF ChunkOK
<1> HIDE DEF b
<1>5. ChunkOK(b) /\ ShownOK(b)
  BY <1>3, <1>4 DEF ChunkOK, ShownOK
<1>6. /\ WorkInv(made) /\ made.displaced = w.displaced /\ made.chunk[k] = b
      /\ AllShown(w) => AllShown(made)
      /\ Beside(w) => Beside(made)
      /\ \A n \in Chunks : Present(w, n) => Present(made, n)
      /\ \A n \in Chunks : n # k /\ Covered(w, n) => Covered(made, n)
  <2>1. /\ b \in ChunkRecords /\ ChunkOK(b) /\ ShownOK(b) /\ b.status # "Absent"
        /\ b.batch = NoBatch /\ b.status \notin {"MeshQueued", "ActiveGpu"}
        /\ b.generated => ~HasJob(w, "generate", k)
    BY <1>3, <1>4, <1>5
  <2> HIDE DEF made, a
  <2> QED
    BY <2>1, RecordFacts DEF made
<1>7. v = Generated(w, k, moved)
  <2> HIDE DEF made
  <2> QED
    BY <1>2 DEF Generated
<1> HIDE DEF made
<1>8. Continues(made, told)
  <2>1. Continues(made, SectionsMove(made, {k}))
    BY <1>6, SectionsMoveFacts
  <2> QED
    BY <1>6, <2>1, ContinuesReflexive
<1> HIDE DEF told
<1>9. Neighbours(k) \in SUBSET Chunks
  BY DEF Neighbours
<1>10. Continues(told, asked)
  BY <1>8, <1>9, RemeshFacts DEF Continues
<1> HIDE DEF asked
<1>11. Continues(made, asked)
  BY <1>8, <1>10, ContinuesTransitive
<1>12. Present(made, k) /\ made.chunk[k].generated
  BY <1>3, <1>6 DEF Present
<1>13. Present(asked, k) /\ asked.chunk[k].generated /\ WorkInv(asked)
  BY <1>11, <1>12 DEF Continues, Kept
<1>14. Continues(asked, v) /\ Covered(v, k)
  BY <1>13, RequestFacts
<1> HIDE DEF v
<1>15. Safely(made, v)
  BY <1>11, <1>14, ContinuesTransitive, ContinuesSafely
<1> QED
  BY <1>6, <1>7, <1>14, <1>15 DEF Safely

\* An edit and the requests that it makes.
LEMMA TouchedFacts ==
    ASSUME NEW w, WorkInv(w), AllShown(w), Beside(w), Tidy(w), NEW k \in Chunks, Present(w, k),
           NEW hit \in SUBSET Chunks, center \in Int
    PROVE  LET v == EnqueueMeshWithRetry(Touched(w, k, hit), k, center)
           IN  Safely(w, v) /\ AllShown(v) /\ Tidy(v)
<1> DEFINE S == hit \cup {k}
           u == SectionsMove(Outdate(w, S), S)
           x == Remesh(u, {k}, center)
           y == Remesh(x, hit, center)
           v == EnqueueMeshWithRetry(y, k, center)
<1>1. S \in SUBSET Chunks
  OBVIOUS
<1>2. /\ WorkInv(u) /\ u.displaced = w.displaced /\ (Tidy(w) => Tidy(u))
      /\ \A n \in Chunks : /\ Quiet(w.chunk[n], u.chunk[n])
                           /\ Covered(w, n) => Covered(u, n)
                           /\ n \notin S /\ ShownOK(w.chunk[n]) => ShownOK(u.chunk[n])
  <2> HIDE DEF S
  <2> QED
    BY <1>1, OutdateFacts
<1>3. v = EnqueueMeshWithRetry(Touched(w, k, hit), k, center)
  BY DEF Touched
<1> HIDE DEF u
<1>4. Tidy(u)
  BY <1>2
<1>5. /\ Continues(u, x) /\ Tidy(x) /\ Asked(x, {n \in {k} : u.chunk[n].generated})
      /\ ShownOK(x.chunk[k])
  <2>1. {k} \in SUBSET Chunks
    OBVIOUS
  <2>2. /\ Continues(u, x) /\ (Tidy(u) => Tidy(x)) /\ Asked(x, {n \in {k} : u.chunk[n].generated})
        /\ \A n \in {k} : ShownOK(x.chunk[n])
    BY <1>2, <2>1, RemeshFacts
  <2> QED
    BY <1>4, <2>2
<1> HIDE DEF x
<1>6. WorkInv(x)
  BY <1>5 DEF Continues
<1>7. Continues(x, y) /\ Tidy(y) /\ \A n \in hit : ShownOK(y.chunk[n])
  BY <1>5, <1>6, RemeshFacts
<1> HIDE DEF y
<1>8. Continues(u, y) /\ WorkInv(y)
  BY <1>5, <1>7, ContinuesTransitive DEF Continues
<1>9. Present(u, k) /\ Present(y, k)
  <2>1. Present(u, k)
    BY <1>2 DEF Quiet, Present
  <2> QED
    BY <1>8, <2>1 DEF Continues, Kept
<1>10. ~Current(y.chunk[k].batch)
  <2>1. Kept(u, x, k) /\ Kept(x, y, k)
    BY <1>5, <1>7 DEF Continues
  <2>2. ~InFlight(x, k)
    <3>1. CASE u.chunk[k].generated
      BY <1>5, <3>1 DEF Asked
    <3>2. CASE ~u.chunk[k].generated
      BY <1>6, <2>1, <3>2, WorkFacts DEF Kept, ChunkOK, InFlight
    <3> QED
      BY <3>1, <3>2
  <2>3. x.chunk[k].batch = NoBatch
    BY <1>6, <2>2, WorkFacts DEF ChunkOK, InFlight
  <2> QED
    BY <2>1, <2>3 DEF Kept, Current
<1>11. Continues(y, v) /\ Tidy(v)
  BY <1>7, <1>8, <1>9, <1>10, RequestFacts
<1> HIDE DEF v
<1>12. Continues(u, v) /\ Continues(x, v)
  BY <1>5, <1>7, <1>11, ContinuesTransitive
<1>13. AllShown(v)
  <2> SUFFICES ASSUME NEW n \in Chunks PROVE ShownOK(v.chunk[n])
    BY DEF AllShown
  <2>1. Kept(u, v, n) /\ Kept(x, v, n) /\ Kept(y, v, n)
    BY <1>11, <1>12 DEF Continues
  <2>2. CASE n = k
    BY <1>5, <2>1, <2>2 DEF Kept
  <2>3. CASE n \in hit
    BY <1>7, <2>1, <2>3 DEF Kept
  <2>4. CASE n \notin S
    BY <1>2, <2>1, <2>4 DEF Kept, AllShown
  <2> QED
    BY <2>2, <2>3, <2>4
<1>14. Beside(u)
  BY <1>2 DEF Beside, InFlight, Quiet
<1>15. Safely(u, v)
  BY <1>12, ContinuesSafely
<1>16. \A n \in Chunks : Present(w, n) <=> Present(u, n)
  BY <1>2 DEF Quiet, Present
<1>17. Safely(w, v)
  BY <1>2, <1>13, <1>14, <1>15, <1>16 DEF Safely
<1> QED
  BY <1>3, <1>11, <1>13, <1>17

-----------------------------------------------------------------------------
(* Chunks that are unloaded, requests that are dropped *)

LEMMA UnloadedFacts ==
    ASSUME NEW w, WorkInv(w), NEW S \in SUBSET Chunks
    PROVE  LET v == Unloaded(w, S)
           IN  /\ WorkInv(v) /\ v.displaced = w.displaced
               /\ (AllShown(w) => AllShown(v)) /\ (Beside(w) => Beside(v)) /\ (Tidy(w) => Tidy(v))
               /\ \A k \in Chunks : (Present(v, k) <=> k \notin S /\ Present(w, k))
               /\ \A k \in Chunks \ S : Covered(w, k) => Covered(v, k)
<1> DEFINE J == {j \in w.jobs : j.chunk \notin S}
           u == [w EXCEPT !.jobs = J]
           x == Unparked(u, S)
           f == [k \in Chunks |-> IF k \in S THEN AbsentChunk ELSE x.chunk[k]]
           v == [x EXCEPT !.chunk = f]
<1>1. /\ WorkInv(u) /\ u.jobs = J /\ u.chunk = w.chunk /\ u.retry = w.retry
      /\ u.displaced = w.displaced
  BY FewerJobs
<1>2. v = Unloaded(w, S)
  BY DEF Unloaded, Without
<1> HIDE DEF u
<1>3. /\ WorkInv(x)
      /\ x.chunk = w.chunk /\ x.jobs = J /\ x.displaced = w.displaced
      /\ \A n : Occurs(x.retry, n) <=> n \notin S /\ Occurs(w.retry, n)
  BY <1>1, UnparkedFacts
<1> HIDE DEF x, J
<1>4. \A k \in Chunks : f[k] = IF k \in S THEN AbsentChunk ELSE w.chunk[k]
  BY <1>3
<1>5. /\ AbsentChunk \in ChunkRecords /\ ChunkOK(AbsentChunk) /\ ShownOK(AbsentChunk)
      /\ AbsentChunk.status = "Absent"
  BY BatchKinds DEF AbsentChunk, ChunkRecords, ChunkOK, ShownOK
<1>6. f \in [Chunks -> ChunkRecords]
  BY <1>3, <1>5, WorkFacts
<1> HIDE DEF f
<1>7. x \in Works
  BY <1>3, WorkFacts
<1>8. /\ v \in Works /\ v.chunk = f /\ v.jobs = J /\ v.retry = x.retry
      /\ v.displaced = w.displaced
  BY <1>3, <1>6, <1>7 DEF Works
<1> HIDE DEF v
<1>9. \A k \in Chunks : Present(v, k) <=> k \notin S /\ Present(w, k)
  BY <1>4, <1>5, <1>8 DEF Present
<1>10. \A j \in v.jobs : j \in w.jobs /\ j.chunk \in Chunks /\ j.chunk \notin S
  BY <1>8, JobTypes DEF J
<1>11. \A j \in v.jobs : JobOK(v, j)
  <2> TAKE j \in v.jobs
  <2>1. JobOK(w, j) /\ v.chunk[j.chunk] = w.chunk[j.chunk]
    BY <1>4, <1>8, <1>10, WorkFacts
  <2> QED
    BY <2>1 DEF JobOK, Present
<1>12. \A stage : Queued(v, stage) = Queued(x, stage)
  BY <1>3, <1>8 DEF Queued
<1>13. JobsOK(v)
  BY <1>3, <1>8, <1>11, <1>12 DEF WorkInv, JobsOK
<1>14. RetryOK(v)
  BY <1>3, <1>8, <1>9, WorkFacts DEF RetryOK
<1>15. \A k \in Chunks : ChunkOK(v.chunk[k])
  BY <1>4, <1>5, <1>8, WorkFacts
<1>16. WorkInv(v)
  BY <1>8, <1>13, <1>14, <1>15 DEF WorkInv
<1>17. AllShown(w) => AllShown(v)
  BY <1>4, <1>5, <1>8 DEF AllShown
<1>18. Beside(w) => Beside(v)
  BY <1>4, <1>5, <1>8 DEF Beside, InFlight
<1>19. Tidy(w) => Tidy(v)
  BY <1>4, <1>8, <1>10 DEF Tidy, InFlight
<1>20. ASSUME NEW k \in Chunks \ S PROVE Covered(w, k) => Covered(v, k)
  <2>1. \A stage : HasJob(w, stage, k) => HasJob(v, stage, k)
    BY <1>8 DEF HasJob, J
  <2> QED
    BY <1>3, <1>4, <1>8, <2>1 DEF Covered
<1> QED
  BY <1>2, <1>8, <1>9, <1>16, <1>17, <1>18, <1>19, <1>20

\* The mark of a displaced job is only read by the next scan.
LEMMA MarkFacts ==
    ASSUME NEW w, WorkInv(w), NEW d \in BOOLEAN
    PROVE  LET v == [w EXCEPT !.displaced = d]
           IN  /\ WorkInv(v) /\ v.displaced = d
               /\ (AllShown(w) => AllShown(v)) /\ (Beside(w) => Beside(v)) /\ (Tidy(w) => Tidy(v))
               /\ \A k \in Chunks : (Present(v, k) <=> Present(w, k)) /\ (Covered(w, k) => Covered(v, k))
<1> DEFINE v == [w EXCEPT !.displaced = d]
<1>1. /\ v \in Works /\ v.displaced = d /\ v.chunk = w.chunk /\ v.jobs = w.jobs
      /\ v.retry = w.retry
  BY WorkFacts DEF Works
<1> HIDE DEF v
<1>2. \A stage : Queued(v, stage) = Queued(w, stage)
  BY <1>1 DEF Queued
<1>3. JobsOK(v) /\ RetryOK(v)
  BY <1>1, <1>2 DEF WorkInv, JobsOK, JobOK, RetryOK, Present
<1>4. WorkInv(v)
  BY <1>1, <1>3 DEF WorkInv
<1>5. \A k \in Chunks : (Present(v, k) <=> Present(w, k)) /\ (Covered(w, k) => Covered(v, k))
  BY <1>1 DEF Present, Covered, HasJob
<1>6. (AllShown(w) => AllShown(v)) /\ (Beside(w) => Beside(v)) /\ (Tidy(w) => Tidy(v))
  BY <1>1 DEF AllShown, Beside, Tidy, InFlight
<1> QED
  BY <1>1, <1>4, <1>5, <1>6 DEF v

\* What a new epoch drops changes no chunk.
LEMMA DropSpeculativeFacts ==
    ASSUME NEW w, WorkInv(w), NEW c
    PROVE  LET v == DropSpeculative(w, c)
           IN  WorkInv(v) /\ v.chunk = w.chunk /\ v.displaced = w.displaced
<1> DEFINE J == {j \in w.jobs : j.rank <= Interactive}
           u == [w EXCEPT !.jobs = J]
           S == {k \in Chunks : Distance(k, c) > Interactive}
<1>1. WorkInv(u) /\ u.chunk = w.chunk /\ u.displaced = w.displaced
  BY FewerJobs
<1>2. S \in SUBSET Chunks
  OBVIOUS
<1>3. DropSpeculative(w, c) = Unparked(u, S)
  BY DEF DropSpeculative
<1> HIDE DEF u, S
<1> QED
  BY <1>1, <1>2, <1>3, UnparkedFacts

-----------------------------------------------------------------------------
(* The parked retries are admitted again *)

\* One retry leaves the list and is asked for again.
LEMMA RetriedFacts ==
    ASSUME NEW w, WorkInv(w), NEW k \in Chunks, Present(w, k), NEW c \in Int
    PROVE  Continues(w, EnqueueMeshWithRetry([w EXCEPT !.retry = Delete(@, k)], k, c))
<1> DEFINE s == Delete(w.retry, k)
           u == [w EXCEPT !.retry = s]
           v == EnqueueMeshWithRetry(u, k, c)
<1>1. s \in Seq(Chunks) /\ Distinct(s) /\ \A n : Occurs(s, n) <=> n # k /\ Occurs(w.retry, n)
  BY WorkFacts, DeleteFacts
<1>2. v = EnqueueMeshWithRetry([w EXCEPT !.retry = Delete(@, k)], k, c)
  OBVIOUS
<1> HIDE DEF s
<1>3. \A n \in Chunks : Occurs(s, n) => Present(w, n)
  BY <1>1, WorkFacts
<1>4. WorkInv(u) /\ u.chunk = w.chunk /\ u.jobs = w.jobs /\ u.retry = s /\ u.displaced = w.displaced
  BY <1>1, <1>3, NewRetry
<1> HIDE DEF u
<1>5. Present(u, k)
  BY <1>4 DEF Present
<1>6. Continues(u, v) /\ (u.chunk[k].generated => Covered(v, k))
  BY <1>4, <1>5, RequestFacts
<1> HIDE DEF v
<1>7. ASSUME NEW n \in Chunks PROVE Kept(w, v, n)
  <2>1. Kept(u, v, n)
    BY <1>6 DEF Continues
  <2>2. v.displaced \/ (Covered(w, n) => Covered(v, n))
    <3>1. CASE n = k /\ u.chunk[n].generated
      BY <1>6, <3>1
    <3>2. CASE n # k \/ ~u.chunk[n].generated
      <4>1. Covered(w, n) => Covered(u, n)
        BY <1>1, <1>4, <3>2 DEF Covered, HasJob
      <4> QED
        BY <2>1, <4>1 DEF Kept
    <3> QED
      BY <3>1, <3>2
  <2> QED
    BY <1>4, <2>1, <2>2 DEF Kept, Present, InFlight
<1>8. Continues(w, v)
  BY <1>4, <1>6, <1>7 DEF Continues
<1> QED
  BY <1>2, <1>8

\* FoldLeft takes the positions of a sequence from the first to the last.
LEMMA LastPosition ==
    ASSUME NEW n \in Nat, NEW s \in SUBSET (1 .. n), s # {}
    PROVE  Max(s) \in s
<1> DEFINE R == {p \in s \X s : p[1] >= p[2]}
<1>1. IsFiniteSet(s)
  <2>1. 1 \in Int /\ n \in Int
    OBVIOUS
  <2>2. IsFiniteSet(1 .. n)
    BY <2>1, FS_Interval
  <2> QED
    BY <2>2, FS_Subset
<1>2. \A x, y \in s : <<x, y>> \in R <=> x >= y
  OBVIOUS
<1> HIDE DEF R
<1>3. \A x, y \in s : x # y => <<x, y>> \in R \/ <<y, x>> \in R
  BY <1>2
<1>4. \A x, y, z \in s : <<x, y>> \in R /\ <<y, z>> \in R => <<x, z>> \in R
  <2> SUFFICES ASSUME NEW x \in s, NEW y \in s, NEW z \in s, <<x, y>> \in R, <<y, z>> \in R
               PROVE  <<x, z>> \in R
    OBVIOUS
  <2>1. x >= y /\ y >= z /\ x \in Nat /\ y \in Nat /\ z \in Nat
    BY <1>2
  <2> QED
    BY <1>2, <2>1
<1>5. PICK x \in s : \A y \in s \ {x} : <<x, y>> \in R
  <2>1. Orders(R, s)
    BY <1>3, <1>4 DEF Orders
  <2>2. Topped(R, s)
    BY <1>1, <2>1, GreatestExists
  <2> QED
    BY <2>2 DEF Topped
<1>6. \A y \in s : x >= y
  <2>1. x \in Int /\ x >= x
    OBVIOUS
  <2> QED
    BY <1>2, <1>5, <2>1
<1> QED
  BY <1>6 DEF Max

LEMMA AdmitParkedFacts ==
    ASSUME NEW w, WorkInv(w), center \in Int
    PROVE  Continues(w, AdmitParked(w))
<1> DEFINE q == w.retry
           D == DOMAIN q
           M == {acc \in [work : Works, full : BOOLEAN] : Continues(w, acc.work)}
           base == [work |-> w, full |-> FALSE]
           pick == [s \in SUBSET D |-> Max(s)]
           step == [p \in D \X M |-> Admit(p[2], q[p[1]], center)]
           Eq(f) == f = [s \in SUBSET D |->
                            IF s = {} THEN base
                            ELSE Admit(f[s \ {Max(s)}], q[Max(s)], center)]
<1>1. q \in Seq(Chunks) /\ Len(q) \in Nat /\ D = 1 .. Len(q) /\ \A i \in D : q[i] \in Chunks
  BY WorkFacts
<1>2. IsFiniteSet(D)
  BY <1>1, FS_Interval
<1>3. \A i \in D : Occurs(q, q[i])
  BY <1>1 DEF Occurs
<1>4. \A i \in D : Present(w, q[i])
  BY <1>1, <1>3, WorkFacts
<1> HIDE DEF q, D
<1>p. Picks(pick, D)
  BY <1>1, LastPosition DEF Picks
<1>5. \A s \in SUBSET D : pick[s] = Max(s)
  OBVIOUS
<1>6. base \in M
  BY ContinuesReflexive, WorkFacts
<1>7. ASSUME NEW acc \in M, NEW i \in D PROVE Admit(acc, q[i], center) \in M
  <2> DEFINE v == acc.work
             k == q[i]
             next == EnqueueMeshWithRetry([v EXCEPT !.retry = Delete(@, k)], k, center)
             new == [work |-> next, full |-> Occurs(next.retry, k)]
  <2>1. Admit(acc, k, center) = IF acc.full THEN acc ELSE new
    BY DEF Admit
  <2>2. Continues(w, v) /\ k \in Chunks
    BY <1>1, <1>7
  <2>3. WorkInv(v) /\ Present(v, k)
    BY <1>4, <2>2 DEF Continues, Kept
  <2> HIDE DEF k, v
  <2>4. Continues(v, next)
    BY <2>2, <2>3, RetriedFacts
  <2> HIDE DEF next
  <2>5. Continues(w, next) /\ next \in Works
    <3>1. WorkInv(next)
      BY <2>4 DEF Continues
    <3> QED
      BY <2>2, <2>4, <3>1, ContinuesTransitive, WorkFacts
  <2>6. Occurs(next.retry, k) \in BOOLEAN
    BY DEF Occurs
  <2>7. new \in M
    BY <2>5, <2>6
  <2> HIDE DEF new
  <2> QED
    BY <2>1, <2>7 DEF k
<1>s. step \in [D \X M -> M]
  BY <1>7
<1>8. \A i \in D, acc \in M : step[<<i, acc>>] = Admit(acc, q[i], center)
  OBVIOUS
<1> HIDE DEF step, pick, M
<1>9. \E f : Eq(f)
  <2>1. PICK f \in [SUBSET D -> M] : IsFold(f, D, pick, base, step)
    BY <1>2, <1>p, <1>6, <1>s, FoldExists
  <2> HIDE DEF base
  <2>2. ASSUME NEW s \in SUBSET D, s # {}
        PROVE  f[s] = Admit(f[s \ {Max(s)}], q[Max(s)], center)
    <3>1. pick[s] \in D /\ s \ {pick[s]} \in SUBSET D
      BY <1>p, <2>2 DEF Picks
    <3>2. f[s] = Admit(f[s \ {pick[s]}], q[pick[s]], center)
      BY <1>8, <2>1, <2>2, <3>1 DEF IsFold
    <3> QED
      BY <1>5, <3>2
  <2>3. Eq(f)
    BY <2>1, <2>2 DEF IsFold
  <2> QED
    BY <2>3
<1>10. ASSUME NEW f, Eq(f) PROVE f[D] \in M
  <2> DEFINE P == {s \in SUBSET D : f[s] \in M}
  <2>1. {} \in P
    <3>1. f[{}] = base
      BY <1>10
    <3> QED
      BY <1>6, <3>1
  <2>2. ASSUME NEW s \in SUBSET D, s # {}, s \ {pick[s]} \in P PROVE s \in P
    <3> DEFINE i == pick[s]
               v == f[s \ {i}]
    <3>1. i \in s /\ i \in D /\ i = Max(s)
      BY <1>p, <1>5, <2>2 DEF Picks
    <3>2. v \in M
      BY <2>2
    <3>3. f[s] = Admit(v, q[i], center)
      BY <1>10, <2>2, <3>1
    <3> HIDE DEF i, v
    <3>4. Admit(v, q[i], center) \in M
      BY <1>7, <3>1, <3>2
    <3> QED
      BY <3>3, <3>4
  <2> HIDE DEF P
  <2>3. D \in P
    BY <1>2, <1>p, <2>1, <2>2, PickInduction
  <2> QED
    BY <2>3 DEF P
<1>11. (CHOOSE f : Eq(f))[D] \in M
  <2> HIDE DEF Eq
  <2> QED
    BY <1>9, <1>10
<1>12. AdmitParked(w) = (CHOOSE f : Eq(f))[D].work
  <2> HIDE DEF M
  <2> QED
    BY DEF AdmitParked, FoldLeft, MapThenFoldSet, D, q
<1> QED
  BY <1>11, <1>12 DEF M

-----------------------------------------------------------------------------
(* The scan of the load radius *)

LEMMA FarthestFacts ==
    ASSUME NEW c \in Int, NEW s \in SUBSET Chunks, s # {}
    PROVE  Farthest(s, c) \in s
<1> DEFINE Beyond(x, y) == \/ Distance(y, c) < Distance(x, c)
                           \/ (Distance(y, c) = Distance(x, c) /\ y < x)
           R == {p \in s \X s : Beyond(p[1], p[2])}
<1>1. IsFiniteSet(s) /\ s \subseteq Int
  BY Constants, FS_Subset
<1>2. \A x, y \in s : <<x, y>> \in R <=> Beyond(x, y)
  OBVIOUS
<1>3. \A x \in s : x \in Int /\ Distance(x, c) \in Nat
  BY <1>1, DistanceNat
<1>4. Orders(R, s)
  <2> HIDE DEF R
  <2>1. \A x, y \in s : x # y => <<x, y>> \in R \/ <<y, x>> \in R
    <3> SUFFICES ASSUME NEW x \in s, NEW y \in s, x # y PROVE Beyond(x, y) \/ Beyond(y, x)
      BY <1>2
    <3> DEFINE dx == Distance(x, c)
               dy == Distance(y, c)
    <3>1. x \in Int /\ y \in Int /\ dx \in Nat /\ dy \in Nat
      BY <1>3
    <3> HIDE DEF dx, dy
    <3>2. dy < dx \/ (dy = dx /\ y < x) \/ dx < dy \/ (dx = dy /\ x < y)
      BY <3>1
    <3> QED
      BY <3>2 DEF dx, dy
  <2>2. \A x, y, z \in s : <<x, y>> \in R /\ <<y, z>> \in R => <<x, z>> \in R
    <3> SUFFICES ASSUME NEW x \in s, NEW y \in s, NEW z \in s, Beyond(x, y), Beyond(y, z)
                 PROVE  Beyond(x, z)
      BY <1>2
    <3> DEFINE dx == Distance(x, c)
               dy == Distance(y, c)
               dz == Distance(z, c)
    <3>1. /\ x \in Int /\ y \in Int /\ z \in Int /\ dx \in Nat /\ dy \in Nat /\ dz \in Nat
          /\ dy < dx \/ (dy = dx /\ y < x)
          /\ dz < dy \/ (dz = dy /\ z < y)
      BY <1>3
    <3> HIDE DEF dx, dy, dz
    <3>2. dz < dx \/ (dz = dx /\ z < x)
      BY <3>1
    <3> QED
      BY <3>2 DEF dx, dy, dz
  <2> QED
    BY <2>1, <2>2 DEF Orders
<1> HIDE DEF R
<1>5. Topped(R, s)
  BY <1>1, <1>4, GreatestExists
<1>6. PICK x \in s : \A y \in s \ {x} : Beyond(x, y)
  BY <1>2, <1>5 DEF Topped
<1> QED
  BY <1>6 DEF Farthest

LEMMA SafelyReflexive == ASSUME NEW w, WorkInv(w) PROVE Safely(w, w)
  BY DEF Safely

\* An enqueue of a generation job, after which the chunk is generating.
LEMMA GeneratingFacts ==
    ASSUME NEW u, WorkInv(u), NEW k \in Chunks, Present(u, k), ~u.chunk[k].generated,
           NEW c \in Int
    PROVE  LET gen == Enqueue(u, "generate", k, c)
               v == [gen.work EXCEPT !.chunk[k].state = "Generating"]
           IN  gen.ok \in BOOLEAN /\ (gen.ok => Safely(u, v) /\ Covered(v, k))
<1> DEFINE gen == Enqueue(u, "generate", k, c)
           x == gen.work
           a == x.chunk[k]
           b == [a EXCEPT !.state = "Generating"]
           v == [x EXCEPT !.chunk[k] = b]
<1>1. /\ WorkInv(x) /\ gen.ok \in BOOLEAN
      /\ x.chunk = u.chunk /\ x.retry = u.retry
      /\ u.displaced => x.displaced
      /\ x.displaced \/ u.jobs \subseteq x.jobs
      /\ gen.ok => HasJob(x, "generate", k)
  BY EnqueueFacts
<1> SUFFICES ASSUME gen.ok
             PROVE  /\ Safely(u, [x EXCEPT !.chunk[k].state = "Generating"])
                    /\ Covered([x EXCEPT !.chunk[k].state = "Generating"], k)
  BY <1>1
<1> HIDE DEF gen
<1> HIDE DEF x
<1>2. x \in Works /\ x.chunk \in [Chunks -> ChunkRecords] /\ a \in ChunkRecords /\ ChunkOK(a)
  BY <1>1, WorkFacts
<1>3. v = [x EXCEPT !.chunk[k].state = "Generating"]
  BY <1>2 DEF Works
<1>4. ~a.generated /\ a.status # "Absent"
  BY <1>1 DEF Present
<1>5. a.status = "Allocated" /\ a.batch = NoBatch
  BY <1>2, <1>4 DEF ChunkOK
<1> HIDE DEF a
<1>6. /\ b \in ChunkRecords /\ b.state = "Generating" /\ b.generated = FALSE
      /\ b.status = "Allocated" /\ b.batch = NoBatch
  BY <1>2, <1>4, <1>5 DEF ChunkRecords
<1> HIDE DEF b
<1>7. ChunkOK(b) /\ ShownOK(b) /\ b.status # "Absent" /\ b.status \notin {"MeshQueued", "ActiveGpu"}
  BY <1>6 DEF ChunkOK, ShownOK
<1>8. ~x.chunk[k].generated /\ (b.generated => ~HasJob(x, "generate", k))
  BY <1>4, <1>6 DEF a
<1>9. /\ WorkInv(v) /\ v.displaced = x.displaced /\ v.jobs = x.jobs
      /\ v.chunk[k] = b
      /\ AllShown(x) => AllShown(v)
      /\ Beside(x) => Beside(v)
      /\ \A n \in Chunks : Present(x, n) => Present(v, n)
      /\ \A n \in Chunks : n # k /\ Covered(x, n) => Covered(v, n)
  <2> HIDE DEF v
  <2> QED
    BY <1>1, <1>6, <1>7, <1>8, RecordFacts DEF v
<1> HIDE DEF v
<1>10. Covered(v, k)
  BY <1>1, <1>6, <1>9 DEF Covered, HasJob
<1>11. Safely(u, x)
  <2>1. \A n \in Chunks : x.displaced \/ (Covered(u, n) => Covered(x, n))
    BY <1>1 DEF Covered, HasJob
  <2> QED
    BY <1>1, <2>1 DEF Safely, AllShown, Beside, InFlight, Present
<1>12. Safely(x, v)
  BY <1>9, <1>10 DEF Safely
<1> QED
  BY <1>3, <1>10, <1>11, <1>12, SafelyTransitive

\* What one column of the scan does.
LEMMA ScanChunkFacts ==
    ASSUME NEW acc \in [work : Works, full : BOOLEAN], WorkInv(acc.work), NEW k \in Chunks,
           NEW c \in Int
    PROVE  LET r == ScanChunk(acc, k, c)
           IN  /\ r \in [work : Works, full : BOOLEAN] /\ Safely(acc.work, r.work)
               /\ acc.full => r.full
               /\ r.full \/ Covered(r.work, k)
<1> DEFINE w == acc.work
           new == [w EXCEPT !.chunk[k] = NewChunk]
           u == IF k \in Resident(w) THEN w ELSE new
           gen == Enqueue(u, "generate", k, c)
           x == [gen.work EXCEPT !.chunk[k].state = "Generating"]
           r == ScanChunk(acc, k, c)
           FullUp == k \notin Resident(w) /\ Cardinality(Resident(w)) >= ColumnCap
<1>1. r = IF acc.full THEN acc
          ELSE IF FullUp THEN [acc EXCEPT !.full = TRUE]
          ELSE IF ~w.chunk[k].generated
          THEN IF gen.ok THEN [work |-> x, full |-> FALSE] ELSE [work |-> w, full |-> TRUE]
          ELSE IF w.chunk[k].state # "Visible" \/ w.chunk[k].dirty
          THEN [acc EXCEPT !.work = EnqueueMeshWithRetry(w, k, c)]
          ELSE acc
  BY DEF ScanChunk
<1> HIDE DEF r, FullUp
<1>2. k \in Resident(w) <=> Present(w, k)
  BY DEF Resident, Present
<1>3. w \in Works /\ Safely(w, w) /\ w.chunk[k] \in ChunkRecords /\ ChunkOK(w.chunk[k])
  BY WorkFacts, SafelyReflexive
<1>4. CASE acc.full
  <2>1. r = acc
    BY <1>1, <1>4
  <2> QED
    BY <1>3, <1>4, <2>1 DEF r
<1>5. CASE ~acc.full /\ FullUp
  <2>1. r = [acc EXCEPT !.full = TRUE]
    BY <1>1, <1>5
  <2>2. r \in [work : Works, full : BOOLEAN] /\ r.work = w /\ r.full
    BY <2>1
  <2> QED
    BY <1>3, <2>2 DEF r
<1>6. CASE ~acc.full /\ ~FullUp /\ ~w.chunk[k].generated
  <2>1. WorkInv(u) /\ Safely(w, u) /\ Present(u, k) /\ ~u.chunk[k].generated
    <3>1. CASE Present(w, k)
      BY <1>2, <1>3, <1>6, <3>1
    <3>2. CASE ~Present(w, k)
      <4>1. u = new
        BY <1>2, <3>2
      <4>2. /\ NewChunk \in ChunkRecords /\ ChunkOK(NewChunk) /\ ShownOK(NewChunk)
            /\ NewChunk.status = "Allocated" /\ NewChunk.batch = NoBatch
            /\ NewChunk.generated = FALSE
        BY BatchKinds DEF NewChunk, AbsentChunk, ChunkRecords, ChunkOK, ShownOK
      <4>3. /\ NewChunk.status # "Absent" /\ NewChunk.status \notin {"MeshQueued", "ActiveGpu"}
            /\ NewChunk.generated => ~HasJob(w, "generate", k)
        BY <4>2
      <4>4. /\ WorkInv(new) /\ new.displaced = w.displaced
            /\ new.chunk[k] = NewChunk
            /\ AllShown(w) => AllShown(new)
            /\ Beside(w) => Beside(new)
            /\ \A n \in Chunks : Present(w, n) => Present(new, n)
            /\ \A n \in Chunks : n # k /\ Covered(w, n) => Covered(new, n)
            /\ ~NewChunk.generated /\ Covered(w, k) => Covered(new, k)
        <5> HIDE DEF new, w
        <5>1. WorkInv(w) /\ ~w.chunk[k].generated
          BY <1>6 DEF w
        <5> QED
          BY <4>2, <4>3, <5>1, RecordFacts DEF new
      <4> HIDE DEF new
      <4>5. Safely(w, new)
        BY <4>2, <4>4 DEF Safely
      <4>6. Present(new, k) /\ ~new.chunk[k].generated
        BY <4>2, <4>4 DEF Present
      <4> QED
        BY <4>1, <4>4, <4>5, <4>6
    <3> QED
      BY <3>1, <3>2
  <2> HIDE DEF u
  <2>2. gen.ok \in BOOLEAN /\ (gen.ok => Safely(u, x) /\ Covered(x, k))
    BY <2>1, GeneratingFacts
  <2> HIDE DEF gen, x
  <2>3. CASE gen.ok
    <3>1. r = [work |-> x, full |-> FALSE]
      BY <1>1, <1>6, <2>3
    <3>2. Safely(w, x)
      BY <2>1, <2>2, <2>3, SafelyTransitive
    <3>3. x \in Works
      BY <3>2, WorkFacts DEF Safely
    <3> QED
      BY <1>6, <2>2, <2>3, <3>1, <3>2, <3>3 DEF r
  <2>4. CASE ~gen.ok
    <3>1. r = [work |-> w, full |-> TRUE]
      BY <1>1, <1>6, <2>4
    <3> QED
      BY <1>3, <3>1 DEF r
  <2> QED
    BY <2>3, <2>4
<1>7. CASE /\ ~acc.full /\ ~FullUp /\ w.chunk[k].generated
           /\ w.chunk[k].state # "Visible" \/ w.chunk[k].dirty
  <2> DEFINE v == EnqueueMeshWithRetry(w, k, c)
  <2>1. r = [acc EXCEPT !.work = v]
    BY <1>1, <1>7
  <2>2. Present(w, k)
    BY <1>3, <1>7 DEF ChunkOK, Present
  <2>3. Continues(w, v) /\ Covered(v, k)
    <3> HIDE DEF w
    <3>1. WorkInv(w)
      BY DEF w
    <3> QED
      BY <1>7, <2>2, <3>1, RequestFacts
  <2> HIDE DEF v
  <2>4. Safely(w, v) /\ v \in Works
    BY <2>3, ContinuesSafely, WorkFacts DEF Continues
  <2>5. r \in [work : Works, full : BOOLEAN] /\ r.work = v
    BY <2>1, <2>4
  <2> QED
    BY <1>7, <2>3, <2>4, <2>5 DEF r
<1>8. CASE /\ ~acc.full /\ ~FullUp /\ w.chunk[k].generated
           /\ ~(w.chunk[k].state # "Visible" \/ w.chunk[k].dirty)
  <2>1. r = acc
    BY <1>1, <1>8
  <2>2. Covered(w, k)
    BY <1>8 DEF Covered
  <2> QED
    BY <1>3, <2>1, <2>2 DEF r
<1> QED
  BY <1>4, <1>5, <1>6, <1>7, <1>8

\* A scan that was not cut short has seen to every column of the radius.
LEMMA ScanFacts ==
    ASSUME NEW w, WorkInv(w), NEW c \in Int
    PROVE  LET acc == Scan(w, c)
           IN  /\ acc.full \in BOOLEAN /\ Safely(w, acc.work)
               /\ acc.full \/ acc.work.displaced \/ \A k \in InRange(c) : Covered(acc.work, k)
<1> DEFINE K == InRange(c)
           M == {acc \in [work : Works, full : BOOLEAN] : WorkInv(acc.work)}
           base == [work |-> w, full |-> FALSE]
           pick == [s \in SUBSET K |-> Farthest(s, c)]
           step == [p \in K \X M |-> ScanChunk(p[2], p[1], c)]
           Eq(f) == f = [s \in SUBSET K |->
                            IF s = {} THEN base
                            ELSE ScanChunk(f[s \ {Farthest(s, c)}], Farthest(s, c), c)]
           Q(acc, s) == /\ acc \in M /\ Safely(w, acc.work)
                        /\ acc.full \/ acc.work.displaced \/ \A n \in s : Covered(acc.work, n)
<1>1. K \in SUBSET Chunks /\ IsFiniteSet(K)
  BY Constants, FS_Subset DEF InRange
<1>2. \A s \in SUBSET K : pick[s] = Farthest(s, c)
  OBVIOUS
<1> HIDE DEF K
<1>p. Picks(pick, K)
  BY <1>1, FarthestFacts DEF Picks
<1>3. base \in M
  BY WorkFacts
<1>4. ASSUME NEW acc \in M, NEW k \in K
      PROVE  LET r == ScanChunk(acc, k, c)
             IN  /\ r \in M /\ Safely(acc.work, r.work) /\ (acc.full => r.full)
                 /\ r.full \/ Covered(r.work, k)
  <2> DEFINE r == ScanChunk(acc, k, c)
  <2>1. /\ r \in [work : Works, full : BOOLEAN] /\ Safely(acc.work, r.work)
        /\ acc.full => r.full
        /\ r.full \/ Covered(r.work, k)
    BY <1>1, <1>4, ScanChunkFacts
  <2> HIDE DEF r
  <2>2. r \in M
    BY <2>1 DEF Safely
  <2> QED
    BY <2>1, <2>2 DEF r
<1>s. step \in [K \X M -> M]
  BY <1>4
<1>5. \A k \in K, acc \in M : step[<<k, acc>>] = ScanChunk(acc, k, c)
  OBVIOUS
<1>m. \A acc \in M : acc.full \in BOOLEAN /\ WorkInv(acc.work)
  OBVIOUS
<1> HIDE DEF step, pick, M
<1>6. \E f : Eq(f)
  <2>1. PICK f \in [SUBSET K -> M] : IsFold(f, K, pick, base, step)
    BY <1>1, <1>p, <1>3, <1>s, FoldExists
  <2> HIDE DEF base
  <2>2. ASSUME NEW s \in SUBSET K, s # {}
        PROVE  f[s] = ScanChunk(f[s \ {Farthest(s, c)}], Farthest(s, c), c)
    <3>1. pick[s] \in K /\ s \ {pick[s]} \in SUBSET K
      BY <1>p, <2>2 DEF Picks
    <3>2. f[s] = ScanChunk(f[s \ {pick[s]}], pick[s], c)
      BY <1>5, <2>1, <2>2, <3>1 DEF IsFold
    <3> QED
      BY <1>2, <3>2
  <2>3. Eq(f)
    BY <2>1, <2>2 DEF IsFold
  <2> QED
    BY <2>3
<1>7. ASSUME NEW f, Eq(f) PROVE Q(f[K], K)
  <2> DEFINE P == {s \in SUBSET K : Q(f[s], s)}
  <2>1. {} \in P
    <3>1. f[{}] = base
      BY <1>7
    <3>2. base.work = w
      OBVIOUS
    <3> HIDE DEF base
    <3> QED
      BY <1>3, <3>1, <3>2, SafelyReflexive
  <2>2. ASSUME NEW s \in SUBSET K, s # {}, s \ {pick[s]} \in P PROVE s \in P
    <3> DEFINE k == pick[s]
               acc == f[s \ {k}]
               r == ScanChunk(acc, k, c)
    <3>1. k \in s /\ k \in K /\ k = Farthest(s, c)
      BY <1>p, <1>2, <2>2 DEF Picks
    <3>2. /\ acc \in M /\ Safely(w, acc.work)
          /\ acc.full \/ acc.work.displaced \/ \A n \in s \ {k} : Covered(acc.work, n)
      BY <2>2
    <3>3. f[s] = r
      BY <1>7, <2>2, <3>1
    <3> HIDE DEF k, acc
    <3>4. /\ r \in M /\ Safely(acc.work, r.work) /\ (acc.full => r.full)
          /\ r.full \/ Covered(r.work, k)
      BY <1>4, <3>1, <3>2
    <3> HIDE DEF r
    <3>5. Safely(w, r.work)
      BY <3>2, <3>4, SafelyTransitive
    <3>6. r.full \/ r.work.displaced \/ \A n \in s : Covered(r.work, n)
      <4> SUFFICES ASSUME ~r.full, ~r.work.displaced, NEW n \in s PROVE Covered(r.work, n)
        BY <1>m, <3>4
      <4>1. n \in Chunks
        BY <1>1
      <4>2. CASE n = k
        BY <3>4, <4>2
      <4>3. CASE n # k
        <5>1. ~acc.full /\ ~acc.work.displaced
          BY <3>4 DEF Safely
        <5>2. Covered(acc.work, n)
          BY <3>2, <4>3, <5>1
        <5> QED
          BY <3>4, <4>1, <5>2 DEF Safely
      <4> QED
        BY <4>2, <4>3
    <3>7. Q(r, s)
      BY <3>4, <3>5, <3>6
    <3> QED
      BY <3>3, <3>7
  <2> HIDE DEF P
  <2>3. K \in P
    BY <1>1, <1>p, <2>1, <2>2, PickInduction
  <2> QED
    BY <2>3 DEF P
<1>8. Q((CHOOSE f : Eq(f))[K], K)
  <2> HIDE DEF Eq, Q
  <2> QED
    BY <1>6, <1>7
<1>9. Scan(w, c) = (CHOOSE f : Eq(f))[K]
  <2> HIDE DEF M
  <2> QED
    BY DEF Scan, MapThenFoldSet, K
<1> HIDE DEF Eq
<1> QED
  BY <1>8, <1>9, <1>m DEF K

-----------------------------------------------------------------------------
(* The invariant *)

\* Every chunk of K is there and covered, or a displaced job is on record.
Seen(w, K) == w.displaced \/ \A k \in K : Covered(w, k)

FlagsOK ==
    /\ center \in Centers /\ quota \in Nat
    /\ phase \in {"idle", "generate", "mesh", "light", "unload"}
    /\ light \in [chunks : SUBSET Resident(work), busy : BOOLEAN]
    /\ {needsEnsure, needsUnload, useWorkers, lost} \subseteq BOOLEAN
    /\ events \in 0 .. MaxEvents

\* WorkInv and AllShown hold at every point; the mesh queue is tidied at the end
\* of the mesh pass and stays so till the next frame; without a context nothing
\* is computed, and with one every stage in flight has its batch.
MeshInv ==
    /\ WorkInv(work) /\ AllShown(work) /\ FlagsOK
    /\ phase \in {"idle", "light", "unload"} => Tidy(work)
    /\ lost => phase = "idle" /\ \A k \in Chunks : work.chunk[k].batch = NoBatch
    /\ ~lost => Beside(work)
    /\ ~lost => needsEnsure \/ Seen(work, InRange(center))

LEMMA InitInv == MeshingInit => MeshInv
<1> SUFFICES ASSUME MeshingInit PROVE MeshInv
  OBVIOUS
<1>1. /\ work = [chunk |-> [k \in Chunks |-> AbsentChunk], jobs |-> {}, retry |-> <<>>,
                 displaced |-> FALSE]
      /\ center \in Centers /\ phase = "idle" /\ quota = 0
      /\ needsEnsure = TRUE /\ needsUnload = FALSE
      /\ light = [chunks |-> {}, busy |-> FALSE]
      /\ useWorkers \in BOOLEAN /\ lost = FALSE /\ events = 0
  BY DEF MeshingInit
<1>2. /\ AbsentChunk \in ChunkRecords /\ ChunkOK(AbsentChunk) /\ ShownOK(AbsentChunk)
      /\ AbsentChunk.status = "Absent"
  BY BatchKinds DEF AbsentChunk, ChunkRecords, ChunkOK, ShownOK
<1>3. \A k \in Chunks : work.chunk[k] = AbsentChunk
  BY <1>1
<1>4. work \in Works /\ work.jobs = {} /\ work.retry = <<>>
  BY <1>1, <1>2 DEF Works
<1>5. JobsOK(work)
  <2>1. \A stage : Queued(work, stage) = {}
    BY <1>4 DEF Queued
  <2>2. IsFiniteSet({}) /\ Cardinality({}) = 0
    BY FS_EmptySet
  <2>3. ASSUME NEW stage \in {"generate", "mesh"}
        PROVE  Cardinality(Queued(work, stage)) <= QueueCap[stage]
    <3>1. Cardinality(Queued(work, stage)) = 0
      BY <2>1, <2>2
    <3>2. QueueCap[stage] \in Nat
      BY Constants
    <3> QED
      BY <3>1, <3>2
  <2>4. IsFiniteSet(work.jobs)
    BY <1>4, <2>2
  <2> QED
    BY <1>4, <2>3, <2>4 DEF JobsOK
<1>6. RetryOK(work)
  BY <1>4 DEF RetryOK, Distinct, Occurs
<1>7. WorkInv(work) /\ AllShown(work)
  BY <1>2, <1>3, <1>4, <1>5, <1>6 DEF WorkInv, AllShown
<1>8. Tidy(work) /\ Beside(work)
  BY <1>2, <1>3, <1>4 DEF Tidy, Beside, InFlight
<1>9. FlagsOK
  <2>1. light \in [chunks : SUBSET Resident(work), busy : BOOLEAN]
    BY <1>1
  <2>2. {needsEnsure, needsUnload, useWorkers, lost} \subseteq BOOLEAN
    BY <1>1
  <2>3. quota \in Nat /\ events \in 0 .. MaxEvents
    BY <1>1, Constants
  <2> QED
    BY <1>1, <2>1, <2>2, <2>3 DEF FlagsOK
<1> QED
  BY <1>1, <1>7, <1>8, <1>9 DEF MeshInv

\* What the invariant says while a frame runs.
LEMMA InFrame ==
    ASSUME MeshInv, ~lost
    PROVE  /\ WorkInv(work) /\ AllShown(work) /\ Beside(work) /\ FlagsOK
           /\ phase \in {"idle", "light", "unload"} => Tidy(work)
           /\ needsEnsure \/ Seen(work, InRange(center))
           /\ center \in Int
  BY Constants DEF MeshInv, FlagsOK

LEMMA Frames == ASSUME MeshInv, phase # "idle" PROVE ~lost
  BY DEF MeshInv, FlagsOK

\* A step that does its work safely, and neither moves the player nor scans.
LEMMA Advance ==
    ASSUME MeshInv, ~lost, Safely(work, work'), FlagsOK',
           UNCHANGED <<center, needsEnsure, lost>>,
           phase' \in {"idle", "light", "unload"} => Tidy(work')
    PROVE  MeshInv'
<1>1. /\ WorkInv(work) /\ AllShown(work) /\ Beside(work)
      /\ needsEnsure \/ Seen(work, InRange(center))
  BY InFrame
<1>2. WorkInv(work') /\ AllShown(work') /\ Beside(work')
  BY <1>1 DEF Safely
<1>3. ~lost'
  OBVIOUS
<1>4. Seen(work, InRange(center)) => Seen(work', InRange(center))
  BY DEF Safely, Seen, InRange
<1>5. needsEnsure' \/ Seen(work', InRange(center'))
  BY <1>1, <1>4
<1> QED
  BY <1>2, <1>3, <1>5 DEF MeshInv

\* The flags of a step that leaves most of them alone.
LEMMA SameFlags ==
    ASSUME FlagsOK, Safely(work, work'),
           light' \in [chunks : SUBSET Resident(work), busy : BOOLEAN], quota' \in Nat,
           phase' \in {"idle", "generate", "mesh", "light", "unload"},
           center' \in Centers, {needsEnsure', needsUnload', useWorkers', lost'} \subseteq BOOLEAN,
           events' \in 0 .. MaxEvents
    PROVE  FlagsOK'
<1>1. Resident(work) \subseteq Resident(work')
  BY DEF Safely, Resident, Present
<1>2. light' \in [chunks : SUBSET Resident(work'), busy : BOOLEAN]
  BY <1>1
<1> QED
  BY <1>2 DEF FlagsOK

LEMMA GenerateStep == ASSUME MeshInv, GenerateChunk PROVE MeshInv'
<1> DEFINE w == DropStale(work, "generate")
           job == Best(w, "generate")
           J == w.jobs \ {job}
           u == [w EXCEPT !.jobs = J]
           k == job.chunk
<1>1. /\ phase = "generate" /\ quota > 0 /\ Dispatchable(work, "generate") # {}
      /\ quota' = quota - 1
      /\ \E moved \in BOOLEAN : work' = Generated(u, k, moved)
      /\ light' = [light EXCEPT !.chunks = @ \cup
             {n \in Neighbours(k) : work.chunk[n].generated}]
      /\ UNCHANGED <<center, phase, needsEnsure, needsUnload, useWorkers, lost, events>>
  BY DEF GenerateChunk
<1>2. ~lost
  BY <1>1, Frames
<1>3. WorkInv(work) /\ Beside(work) /\ FlagsOK /\ center \in Int
  BY <1>2, InFrame
<1>4. /\ WorkInv(w) /\ w.chunk = work.chunk /\ w.displaced = work.displaced
      /\ Dispatchable(w, "generate") # {} /\ Continues(work, w)
  BY <1>1, <1>3, DropStaleFacts
<1> HIDE DEF w
<1>5. job \in w.jobs /\ job.stage = "generate" /\ k \in Chunks
  BY <1>4, BestFacts
<1> HIDE DEF job
<1>6. /\ WorkInv(u) /\ u.jobs = J /\ u.chunk = w.chunk /\ u.retry = w.retry
      /\ u.displaced = w.displaced
  <2>1. J \in SUBSET w.jobs
    OBVIOUS
  <2> HIDE DEF J
  <2> QED
    BY <1>4, <2>1, FewerJobs
<1> HIDE DEF u
<1>7. JobOK(w, job)
  BY <1>4, <1>5, WorkFacts
<1>8. Present(u, k) /\ ~u.chunk[k].generated
  BY <1>5, <1>6, <1>7 DEF JobOK, Present
<1>9. ~HasJob(u, "generate", k)
  <2>1. \A j \in w.jobs : j.stage = "generate" /\ j.chunk = k => j = job
    BY <1>4, <1>5 DEF WorkInv, JobsOK
  <2> QED
    BY <1>6, <2>1 DEF HasJob
<1>10. PICK moved \in BOOLEAN : work' = Generated(u, k, moved)
  BY <1>1
<1> DEFINE v == Generated(u, k, moved)
<1>11. /\ WorkInv(v) /\ (AllShown(u) => AllShown(v)) /\ (Beside(u) => Beside(v))
       /\ u.displaced => v.displaced
       /\ \A n \in Chunks : Present(u, n) => Present(v, n)
       /\ \A n \in Chunks : v.displaced \/ (n = k \/ Covered(u, n) => Covered(v, n))
  BY <1>3, <1>5, <1>6, <1>8, <1>9, GeneratedFacts
<1> HIDE DEF v
<1>12. \A n \in Chunks : n = k \/ (Covered(w, n) => Covered(u, n))
  <2> SUFFICES ASSUME NEW n \in Chunks, n # k, Covered(w, n) PROVE Covered(u, n)
    OBVIOUS
  <2>1. \A stage : HasJob(w, stage, n) => HasJob(u, stage, n)
    BY <1>6 DEF HasJob
  <2> QED
    BY <1>6, <2>1 DEF Covered
<1>13. Safely(work, w)
  BY <1>4, ContinuesSafely
<1>14. Safely(w, v)
  BY <1>6, <1>11, <1>12 DEF Safely, AllShown, Beside, InFlight, Present
<1>15. Safely(work, v)
  BY <1>13, <1>14, SafelyTransitive
<1>16. Safely(work, work')
  BY <1>10, <1>15 DEF v
<1>17. light' \in [chunks : SUBSET Resident(work), busy : BOOLEAN]
  <2>1. \A n \in Neighbours(k) : work.chunk[n].generated => n \in Resident(work)
    BY <1>3, WorkFacts DEF Neighbours, Resident, ChunkOK
  <2> QED
    BY <1>1, <1>3, <2>1 DEF FlagsOK
<1>18. FlagsOK'
  <2>1. quota' \in Nat
    BY <1>1, <1>3 DEF FlagsOK
  <2> QED
    BY <1>1, <1>3, <1>16, <1>17, <2>1, SameFlags DEF FlagsOK
<1> QED
  BY <1>1, <1>2, <1>16, <1>18, Advance

LEMMA StartMeshingStep == ASSUME MeshInv, StartMeshing PROVE MeshInv'
<1>1. /\ phase = "generate" /\ work' = AdmitParked(DropStale(work, "generate"))
      /\ phase' = "mesh" /\ quota' = MeshQuota
      /\ UNCHANGED <<center, needsEnsure, needsUnload, light, useWorkers, lost, events>>
  BY DEF StartMeshing
<1>2. ~lost
  BY <1>1, Frames
<1>3. WorkInv(work) /\ Beside(work) /\ FlagsOK /\ center \in Int
  BY <1>2, InFrame
<1> DEFINE w == DropStale(work, "generate")
           v == AdmitParked(w)
<1>4. Continues(work, w) /\ WorkInv(w)
  BY <1>3, DropStaleFacts
<1> HIDE DEF w
<1>5. Continues(w, v)
  BY <1>3, <1>4, AdmitParkedFacts
<1> HIDE DEF v
<1>6. Safely(work, v)
  BY <1>4, <1>5, ContinuesTransitive, ContinuesSafely
<1>7. Safely(work, work')
  BY <1>1, <1>6 DEF v, w
<1>8. FlagsOK'
  BY <1>1, <1>3, <1>7, Constants, SameFlags DEF FlagsOK
<1> QED
  BY <1>1, <1>2, <1>7, <1>8, Advance

\* What every step of the mesh pass starts from.
LEMMA MeshPassFacts ==
    ASSUME MeshInv, MeshingOne
    PROVE  LET v == Taken(work).work
               k == Taken(work).chunk
           IN  /\ ~lost /\ phase = "mesh" /\ FlagsOK /\ center \in Int /\ quota' \in Nat
               /\ WorkInv(work) /\ WorkInv(v) /\ v.chunk = work.chunk
               /\ v.displaced = work.displaced
               /\ Tidy(v) /\ k \in Chunks /\ ~HasJob(v, "mesh", k)
               /\ Taken(work).begun <=> work.chunk[k].status = "Lighted"
               /\ Taken(work).begun => work.chunk[k].generated
               /\ ~Taken(work).begun => Safely(work, v)
               /\ \A u : Safely(v, u) /\ Covered(u, k) => Safely(work, u)
<1> DEFINE v == Taken(work).work
           k == Taken(work).chunk
<1>1. phase = "mesh" /\ quota > 0 /\ Dispatchable(work, "mesh") # {} /\ quota' = quota - 1
  BY DEF MeshingOne
<1>2. ~lost
  BY <1>1, Frames
<1>3. WorkInv(work) /\ Beside(work) /\ FlagsOK /\ center \in Int
  BY <1>2, InFrame
<1>4. quota' \in Nat
  BY <1>1, <1>3 DEF FlagsOK
<1>5. /\ WorkInv(v) /\ v.chunk = work.chunk /\ v.displaced = work.displaced
      /\ Tidy(v) /\ k \in Chunks /\ ~HasJob(v, "mesh", k)
      /\ Taken(work).begun <=> work.chunk[k].status = "Lighted"
      /\ Taken(work).begun => work.chunk[k].generated
      /\ ~Taken(work).begun => ~work.chunk[k].generated
      /\ \A n \in Chunks : n # k \/ ~Taken(work).begun => Kept(work, v, n)
  BY <1>1, <1>3, TakenFacts
<1> HIDE DEF v, k
<1>6. (AllShown(work) => AllShown(v)) /\ (Beside(work) => Beside(v))
      /\ \A n \in Chunks : Present(work, n) <=> Present(v, n)
  BY <1>5 DEF AllShown, Beside, InFlight, Present
<1>7. ASSUME ~Taken(work).begun PROVE Safely(work, v)
  <2>1. \A n \in Chunks : v.displaced \/ (Covered(work, n) => Covered(v, n))
    BY <1>5, <1>7 DEF Kept
  <2> QED
    BY <1>5, <1>6, <2>1 DEF Safely
<1>8. ASSUME NEW u, Safely(v, u), Covered(u, k) PROVE Safely(work, u)
  <2>1. ASSUME NEW n \in Chunks PROVE u.displaced \/ (Covered(work, n) => Covered(u, n))
    <3>1. CASE n = k
      BY <1>8, <3>1
    <3>2. CASE n # k
      <4>1. v.displaced \/ (Covered(work, n) => Covered(v, n))
        BY <1>5, <3>2 DEF Kept
      <4> QED
        BY <1>8, <4>1 DEF Safely
    <3> QED
      BY <3>1, <3>2
  <2> QED
    BY <1>5, <1>6, <1>8, <2>1 DEF Safely
<1> QED
  BY <1>1, <1>2, <1>3, <1>4, <1>5, <1>7, <1>8 DEF v, k

\* The mesh pass goes on after safe work.
LEMMA MeshPassStep ==
    ASSUME MeshInv, MeshingOne, Safely(work, work'), useWorkers' \in BOOLEAN,
           UNCHANGED <<center, phase, needsEnsure, needsUnload, light, lost, events>>
    PROVE  MeshInv'
<1>1. ~lost /\ phase = "mesh" /\ FlagsOK /\ quota' \in Nat
  BY MeshPassFacts
<1>2. FlagsOK'
  BY <1>1, SameFlags DEF FlagsOK
<1> QED
  BY <1>1, <1>2, Advance

LEMMA RefuseStep == ASSUME MeshInv, RefuseMeshJob PROVE MeshInv'
<1>1. /\ MeshingOne /\ ~Taken(work).begun /\ work' = Taken(work).work
      /\ UNCHANGED <<center, phase, needsEnsure, needsUnload, light, useWorkers, lost, events>>
  BY DEF RefuseMeshJob
<1>2. Safely(work, work') /\ FlagsOK
  BY <1>1, MeshPassFacts
<1>3. useWorkers' \in BOOLEAN
  BY <1>1, <1>2 DEF FlagsOK
<1> QED
  BY <1>1, <1>2, <1>3, MeshPassStep

\* Meshing the taken job in place is safe.
LEMMA InPlaceSafely ==
    ASSUME MeshInv, MeshingOne, Taken(work).begun
    PROVE  Safely(work, MeshInPlace(Taken(work).work, Taken(work).chunk))
<1> DEFINE v == Taken(work).work
           k == Taken(work).chunk
           u == MeshInPlace(v, k)
<1>1. /\ WorkInv(v) /\ k \in Chunks /\ ~HasJob(v, "mesh", k) /\ v.chunk[k].generated
      /\ \A x : Safely(v, x) /\ Covered(x, k) => Safely(work, x)
  BY MeshPassFacts
<1> HIDE DEF v, k
<1>2. Continues(v, u) /\ Covered(u, k)
  BY <1>1, MeshInPlaceFacts
<1> HIDE DEF u
<1>3. Safely(work, u)
  BY <1>1, <1>2, ContinuesSafely
<1> QED
  BY <1>3 DEF u, v, k

LEMMA SynchronousStep == ASSUME MeshInv, MeshSynchronously PROVE MeshInv'
<1>1. /\ MeshingOne /\ Taken(work).begun
      /\ work' = MeshInPlace(Taken(work).work, Taken(work).chunk)
      /\ UNCHANGED <<center, phase, needsEnsure, needsUnload, light, useWorkers, lost, events>>
  BY DEF MeshSynchronously
<1>2. Safely(work, work')
  BY <1>1, InPlaceSafely
<1>3. useWorkers' \in BOOLEAN
  BY <1>1, MeshPassFacts DEF FlagsOK
<1> QED
  BY <1>1, <1>2, <1>3, MeshPassStep

\* A batch of the taken chunk: safe, and tidy.
LEMMA SubmittedSafely ==
    ASSUME MeshInv, MeshingOne, Taken(work).begun, NEW n \in 1 .. Parts
    PROVE  LET u == Submitted(Taken(work).work, Taken(work).chunk, n)
           IN  Safely(work, u) /\ Tidy(u)
<1> DEFINE v == Taken(work).work
           k == Taken(work).chunk
           u == Submitted(v, k, n)
<1>1. /\ WorkInv(v) /\ k \in Chunks /\ ~HasJob(v, "mesh", k) /\ v.chunk[k].status = "Lighted"
      /\ Tidy(v)
      /\ \A x : Safely(v, x) /\ Covered(x, k) => Safely(work, x)
  BY MeshPassFacts
<1> HIDE DEF v, k
<1>2. /\ WorkInv(u) /\ u.displaced = v.displaced /\ (Tidy(v) => Tidy(u))
      /\ (AllShown(v) => AllShown(u)) /\ (Beside(v) => Beside(u))
      /\ \A i \in Chunks : Present(u, i) <=> Present(v, i)
      /\ Covered(u, k) /\ \A i \in Chunks : Covered(v, i) => Covered(u, i)
  BY <1>1, SubmittedFacts
<1> HIDE DEF u
<1>3. Safely(v, u)
  BY <1>2 DEF Safely
<1>4. Safely(work, u) /\ Tidy(u)
  BY <1>1, <1>2, <1>3
<1> QED
  BY <1>4 DEF u, v, k

LEMMA SubmitStep == ASSUME MeshInv, SubmitBatch PROVE MeshInv'
<1>1. /\ MeshingOne /\ Taken(work).begun
      /\ \/ work' = MeshInPlace(Taken(work).work, Taken(work).chunk)
         \/ \E n \in 1 .. Parts : work' = Submitted(Taken(work).work, Taken(work).chunk, n)
      /\ UNCHANGED <<center, phase, needsEnsure, needsUnload, light, useWorkers, lost, events>>
  BY DEF SubmitBatch
<1>2. Safely(work, work')
  BY <1>1, InPlaceSafely, SubmittedSafely
<1>3. useWorkers' \in BOOLEAN
  BY <1>1, MeshPassFacts DEF FlagsOK
<1> QED
  BY <1>1, <1>2, <1>3, MeshPassStep

\* Ending every batch is safe when the queue is tidy.
LEMMA FailAllSafely ==
    ASSUME NEW w, WorkInv(w), Tidy(w), center \in Int
    PROVE  LET v == FailAllBatches(w, center) IN Safely(w, v) /\ Tidy(v)
<1> DEFINE S == {k \in Chunks : w.chunk[k].batch # NoBatch}
           v == RejectBatches(w, S, center)
<1>1. S \in SUBSET Chunks /\ \A k \in S : w.chunk[k].batch # NoBatch
  OBVIOUS
<1>2. v = FailAllBatches(w, center)
  BY DEF FailAllBatches
<1> HIDE DEF S
<1>3. Continues(w, v) /\ Tidy(v)
  BY <1>1, RejectFacts
<1> HIDE DEF v
<1> QED
  BY <1>2, <1>3, ContinuesSafely

LEMMA SubmitFailsStep == ASSUME MeshInv, SubmitFails PROVE MeshInv'
<1> DEFINE u == Submitted(Taken(work).work, Taken(work).chunk, 1)
<1>1. /\ MeshingOne /\ Taken(work).begun
      /\ \/ work' = MeshInPlace(Taken(work).work, Taken(work).chunk)
         \/ work' = FailAllBatches(u, center)
      /\ useWorkers' = FALSE
      /\ UNCHANGED <<center, phase, needsEnsure, needsUnload, light, lost, events>>
  BY DEF SubmitFails
<1>2. Safely(work, u) /\ Tidy(u) /\ center \in Int
  <2>1. 1 \in 1 .. Parts
    BY Constants
  <2> QED
    BY <1>1, <2>1, SubmittedSafely, MeshPassFacts
<1> HIDE DEF u
<1>3. WorkInv(u)
  BY <1>2 DEF Safely
<1>4. Safely(u, FailAllBatches(u, center))
  BY <1>2, <1>3, FailAllSafely
<1>5. Safely(work, FailAllBatches(u, center))
  BY <1>2, <1>4, SafelyTransitive
<1>6. Safely(work, work')
  BY <1>1, <1>5, InPlaceSafely
<1> QED
  BY <1>1, <1>6, MeshPassStep

LEMMA EndMeshingStep == ASSUME MeshInv, EndMeshing PROVE MeshInv'
<1>1. /\ phase = "mesh" /\ work' = DropStale(work, "mesh") /\ phase' = "light" /\ quota' = 0
      /\ UNCHANGED <<center, needsEnsure, needsUnload, light, useWorkers, lost, events>>
  BY DEF EndMeshing
<1>2. ~lost
  BY <1>1, Frames
<1>3. WorkInv(work) /\ Beside(work) /\ FlagsOK
  BY <1>2, InFrame
<1>4. Continues(work, DropStale(work, "mesh")) /\ Tidy(DropStale(work, "mesh"))
  BY <1>3, DropStaleFacts
<1>5. Safely(work, work') /\ Tidy(work')
  BY <1>1, <1>4, ContinuesSafely
<1>6. FlagsOK'
  BY <1>1, <1>3, <1>5, SameFlags DEF FlagsOK
<1> QED
  BY <1>1, <1>2, <1>5, <1>6, Advance

LEMMA DrainLightStep == ASSUME MeshInv, DrainLight PROVE MeshInv'
<1>1. PICK done \in BOOLEAN, lit \in SUBSET Resident(work) :
         /\ work' = Relit(work, lit)
         /\ light' = IF done THEN [chunks |-> {}, busy |-> FALSE] ELSE light
  BY DEF DrainLight
<1>2. phase = "light" /\ phase' = "unload"
      /\ UNCHANGED <<center, quota, needsEnsure, needsUnload, useWorkers, lost, events>>
  BY DEF DrainLight
<1>3. ~lost
  BY <1>2, Frames
<1>4. WorkInv(work) /\ FlagsOK /\ Tidy(work) /\ center \in Int
  BY <1>2, <1>3, InFrame
<1> DEFINE dirtied == {k \in light.chunks : work.chunk[k].generated}
           S == lit \cup dirtied
           u == SectionsDirty(work, dirtied)
           x == SectionsMove(u, S)
           v == Remesh(x, dirtied, center)
<1>5. dirtied \in SUBSET Chunks
  BY <1>4 DEF FlagsOK, Resident
<1>6. work' = v
  BY <1>1 DEF Relit
<1> HIDE DEF dirtied, S
<1>7. Continues(work, u) /\ Tidy(u)
  BY <1>4, SectionsDirtyFacts
<1> HIDE DEF u
<1>8. Continues(u, x) /\ Tidy(x)
  BY <1>7, SectionsMoveFacts DEF Continues
<1> HIDE DEF x
<1>9. Continues(x, v) /\ Tidy(v)
  BY <1>4, <1>5, <1>8, RemeshFacts DEF Continues
<1> HIDE DEF v
<1>10. Safely(work, work') /\ Tidy(work')
  BY <1>6, <1>7, <1>8, <1>9, ContinuesTransitive, ContinuesSafely
<1>11. light' \in [chunks : SUBSET Resident(work), busy : BOOLEAN]
  <2>1. CASE done
    <3>1. light' = [chunks |-> {}, busy |-> FALSE]
      BY <1>1, <2>1
    <3> QED
      BY <3>1
  <2>2. CASE ~done
    <3>1. light' = light
      BY <1>1, <2>2
    <3> QED
      BY <1>4, <3>1 DEF FlagsOK
  <2> QED
    BY <2>1, <2>2
<1>12. FlagsOK'
  BY <1>2, <1>4, <1>10, <1>11, SameFlags DEF FlagsOK
<1> QED
  BY <1>2, <1>3, <1>10, <1>12, Advance

LEMMA LightIdleStep == ASSUME MeshInv, LightIdle PROVE MeshInv'
<1>1. /\ phase = "light" /\ phase' = "unload" /\ light' = [light EXCEPT !.chunks = {}]
      /\ ~light.busy
      /\ UNCHANGED <<work, center, quota, needsEnsure, needsUnload, useWorkers, lost, events>>
  BY DEF LightIdle
<1>2. ~lost
  BY <1>1, Frames
<1>3. WorkInv(work) /\ FlagsOK /\ Tidy(work)
  BY <1>1, <1>2, InFrame
<1>4. Safely(work, work') /\ Tidy(work')
  BY <1>1, <1>3, SafelyReflexive
<1>5. light' \in [chunks : SUBSET Resident(work), busy : BOOLEAN]
  BY <1>1, <1>3 DEF FlagsOK
<1>6. FlagsOK'
  BY <1>1, <1>3, <1>4, <1>5, SameFlags DEF FlagsOK
<1> QED
  BY <1>1, <1>2, <1>4, <1>6, Advance

-----------------------------------------------------------------------------
(* The other steps of the invariant *)

LEMMA UnloadStep == ASSUME MeshInv, UnloadChunks PROVE MeshInv'
<1> DEFINE far == {k \in Resident(work) : Distance(k, center) > LoadRadius + Hysteresis}
<1>1. PICK S \in SUBSET far :
         /\ work' = [Unloaded(work, S) EXCEPT !.displaced = FALSE]
         /\ light' = [light EXCEPT !.chunks = @ \ S]
         /\ needsUnload' = (needsUnload /\ S # far)
  BY DEF UnloadChunks
<1>2. /\ phase = "unload" /\ phase' = "idle"
      /\ needsEnsure' = (needsEnsure \/ work.displaced)
      /\ UNCHANGED <<center, quota, useWorkers, lost, events>>
  BY DEF UnloadChunks
<1>3. ~lost
  BY <1>2, Frames
<1>4. /\ WorkInv(work) /\ AllShown(work) /\ Beside(work) /\ Tidy(work) /\ FlagsOK
      /\ center \in Int /\ (needsEnsure \/ Seen(work, InRange(center)))
  BY <1>2, <1>3, InFrame
<1> DEFINE u == Unloaded(work, S)
           v == [u EXCEPT !.displaced = FALSE]
<1>5. S \in SUBSET Chunks
  BY DEF Resident
<1>6. /\ WorkInv(u) /\ AllShown(u) /\ Beside(u) /\ Tidy(u)
      /\ \A k \in Chunks : (Present(u, k) <=> k \notin S /\ Present(work, k))
      /\ \A k \in Chunks \ S : Covered(work, k) => Covered(u, k)
  BY <1>4, <1>5, UnloadedFacts
<1> HIDE DEF u
<1>7. /\ WorkInv(v) /\ AllShown(v) /\ Beside(v) /\ Tidy(v)
      /\ \A k \in Chunks : (Present(v, k) <=> Present(u, k)) /\ (Covered(u, k) => Covered(v, k))
  BY <1>6, MarkFacts
<1>8. work' = v
  BY <1>1 DEF u
<1> HIDE DEF v
<1>9. \A k \in InRange(center) : k \in Chunks \ S
  <2> SUFFICES ASSUME NEW k \in Chunks, Distance(k, center) <= LoadRadius, k \in S PROVE FALSE
    BY DEF InRange
  <2>1. Distance(k, center) > LoadRadius + Hysteresis
    OBVIOUS
  <2>2. Distance(k, center) \in Nat
    BY <1>4, Constants, DistanceNat
  <2>3. LoadRadius \in Nat /\ Hysteresis \in Nat
    BY MeshingConstants
  <2> QED
    BY <2>1, <2>2, <2>3
<1>10. needsEnsure' \/ Seen(work', InRange(center'))
  BY <1>2, <1>4, <1>6, <1>7, <1>8, <1>9 DEF Seen
<1>11. light' \in [chunks : SUBSET Resident(work'), busy : BOOLEAN]
  <2>1. \A k \in Resident(work) \ S : k \in Resident(v)
    BY <1>6, <1>7 DEF Resident, Present
  <2>2. light \in [chunks : SUBSET Resident(work), busy : BOOLEAN]
    BY <1>4 DEF FlagsOK
  <2>3. light' = [light EXCEPT !.chunks = light.chunks \ S]
    BY <1>1
  <2>4. light.chunks \ S \in SUBSET Resident(v)
    BY <2>1, <2>2
  <2> QED
    BY <1>8, <2>2, <2>3, <2>4
<1>12. needsEnsure' \in BOOLEAN /\ needsUnload' \in BOOLEAN
  BY <1>1, <1>2
<1>13. FlagsOK'
  BY <1>2, <1>4, <1>11, <1>12 DEF FlagsOK
<1> QED
  BY <1>2, <1>3, <1>7, <1>8, <1>10, <1>13 DEF MeshInv

\* Bounded events stay within their bound.
LEMMA BoundedFacts == ASSUME FlagsOK, Bounded PROVE events' \in 0 .. MaxEvents
  BY Constants DEF FlagsOK, Bounded

LEMMA EditStep ==
    ASSUME MeshInv, NEW k \in Chunks, NEW border \in SUBSET Neighbours(k), EditBlock(k, border)
    PROVE  MeshInv'
<1> DEFINE hit == {n \in border : n \in Resident(work)}
           v == EnqueueMeshWithRetry(Touched(work, k, hit), k, center)
<1>1. /\ phase \in {"idle", "light"} /\ ~lost /\ k \in Resident(work)
      /\ work' = v
      /\ light' = [chunks |-> light.chunks \cup
                       {n \in hit \cup {k} : work.chunk[n].generated}, busy |-> TRUE]
      /\ Bounded
      /\ UNCHANGED <<center, phase, quota, needsEnsure, needsUnload, useWorkers, lost>>
  BY DEF EditBlock
<1>2. /\ WorkInv(work) /\ AllShown(work) /\ Beside(work) /\ Tidy(work) /\ FlagsOK
      /\ center \in Int
  BY <1>1, InFrame
<1>3. hit \in SUBSET Chunks /\ hit \subseteq Resident(work) /\ Present(work, k)
  BY <1>1 DEF Resident, Present
<1> HIDE DEF hit
<1>4. Safely(work, v) /\ Tidy(v)
  BY <1>2, <1>3, TouchedFacts
<1> HIDE DEF v
<1>5. light' \in [chunks : SUBSET Resident(work), busy : BOOLEAN]
  <2>1. light.chunks \subseteq Resident(work)
    BY <1>2 DEF FlagsOK
  <2>2. {n \in hit \cup {k} : work.chunk[n].generated} \subseteq Resident(work)
    BY <1>1, <1>3
  <2> QED
    BY <1>1, <2>1, <2>2
<1>6. events' \in 0 .. MaxEvents
  BY <1>1, <1>2, BoundedFacts
<1>7. FlagsOK'
  BY <1>1, <1>2, <1>4, <1>5, <1>6, SameFlags DEF FlagsOK
<1> QED
  BY <1>1, <1>4, <1>7, Advance

\* One more section of a batch has arrived.
LEMMA PartFacts ==
    ASSUME NEW w, WorkInv(w), NEW k \in Chunks, w.chunk[k].batch # NoBatch,
           w.chunk[k].batch.left > 1
    PROVE  LET v == [w EXCEPT !.chunk[k].batch.left = @ - 1]
           IN  Continues(w, v) /\ (Tidy(w) => Tidy(v))
<1> DEFINE a == w.chunk[k]
           b == [a.batch EXCEPT !.left = a.batch.left - 1]
           z == [a EXCEPT !.batch = b]
           f == [w.chunk EXCEPT ![k] = z]
<1>1. w \in Works /\ w.chunk \in [Chunks -> ChunkRecords] /\ a \in ChunkRecords /\ ChunkOK(a)
  BY WorkFacts
<1>2. [w EXCEPT !.chunk = f] = [w EXCEPT !.chunk[k].batch.left = @ - 1]
  BY <1>1 DEF Works, ChunkRecords
<1>3. a.batch \in RealBatches /\ a.batch.left > 1
  BY <1>1, BatchKinds DEF ChunkRecords
<1>4. a.batch.left \in 1 .. Parts
  BY <1>3 DEF RealBatches
<1>5. a.batch.left - 1 \in 1 .. Parts
  BY <1>3, <1>4, Constants
<1>6. /\ b \in RealBatches /\ b.generation = a.batch.generation /\ b.version = a.batch.version
      /\ b.snapshot = a.batch.snapshot /\ b.truthful = a.batch.truthful
  <2> HIDE DEF a
  <2> QED
    BY <1>3, <1>5 DEF RealBatches
<1> HIDE DEF b
<1>7. b # NoBatch /\ b \in Batches /\ a.batch # NoBatch
  BY <1>3, <1>6, BatchKinds
<1>8. /\ z \in ChunkRecords /\ z.batch = b /\ z.state = a.state /\ z.generated = a.generated
      /\ z.dirty = a.dirty /\ z.status = a.status /\ z.shown = a.shown /\ z.sections = a.sections
  BY <1>1, <1>7 DEF ChunkRecords
<1> HIDE DEF z
<1>9. Quiet(a, z) /\ (ShownOK(a) => ShownOK(z))
  BY <1>1, <1>6, <1>7, <1>8 DEF Quiet, ChunkOK, ShownOK, Current
<1>10. \A n \in Chunks : Quiet(w.chunk[n], f[n]) /\ (ShownOK(w.chunk[n]) => ShownOK(f[n]))
  <2> TAKE n \in Chunks
  <2>1. CASE n = k
    BY <1>1, <1>9, <2>1
  <2>2. CASE n # k
    <3>1. f[n] = w.chunk[n] /\ w.chunk[n] \in ChunkRecords /\ ChunkOK(w.chunk[n])
      BY <1>1, <2>2, WorkFacts
    <3> QED
      BY <3>1 DEF Quiet
  <2> QED
    BY <2>1, <2>2
<1>11. f = [n \in Chunks |-> f[n]]
  BY <1>1
<1> HIDE DEF f
<1> QED
  BY <1>2, <1>10, <1>11, Quietly

\* What the between-frame steps of a batch start from.
LEMMA BatchStep ==
    ASSUME MeshInv, phase = "idle", NEW k \in Chunks, work.chunk[k].batch # NoBatch,
           Safely(work, work'), Tidy(work'), useWorkers' \in BOOLEAN,
           UNCHANGED <<center, phase, quota, needsEnsure, needsUnload, light, lost, events>>
    PROVE  MeshInv'
<1>1. ~lost
  BY DEF MeshInv
<1>2. FlagsOK
  BY <1>1, InFrame
<1>3. FlagsOK'
  BY <1>2, SameFlags DEF FlagsOK
<1> QED
  BY <1>1, <1>3, Advance

LEMMA WorkerResultStep == ASSUME MeshInv, NEW k \in Chunks, WorkerResult(k) PROVE MeshInv'
<1> DEFINE b == work.chunk[k].batch
<1>1. /\ phase = "idle" /\ b # NoBatch
      /\ work' = IF ~Current(b) THEN RejectBatches(work, {k}, center)
                 ELSE IF b.left > 1 THEN [work EXCEPT !.chunk[k].batch.left = @ - 1]
                 ELSE Complete(work, k, b.truthful)
      /\ UNCHANGED <<center, phase, quota, needsEnsure, needsUnload, light, useWorkers, lost, events>>
  BY DEF WorkerResult
<1>2. ~lost
  BY <1>1 DEF MeshInv
<1>3. WorkInv(work) /\ Tidy(work) /\ FlagsOK /\ center \in Int
  BY <1>1, <1>2, InFrame
<1>4. Continues(work, work') /\ Tidy(work')
  <2>1. CASE ~Current(b)
    <3>1. {k} \in SUBSET Chunks /\ \A n \in {k} : work.chunk[n].batch # NoBatch
      BY <1>1
    <3> QED
      BY <1>1, <1>3, <2>1, <3>1, RejectFacts
  <2>2. CASE Current(b) /\ b.left > 1
    BY <1>1, <1>3, <2>2, PartFacts
  <2>3. CASE Current(b) /\ ~(b.left > 1)
    <3>1. work.chunk[k] \in ChunkRecords /\ ChunkOK(work.chunk[k])
      BY <1>3, WorkFacts
    <3>2. work.chunk[k].generated /\ InFlight(work, k) /\ (b.truthful \/ ~b.snapshot)
      BY <1>1, <3>1 DEF ChunkOK, InFlight
    <3>3. b \in RealBatches
      BY <1>1, <3>1, BatchKinds DEF ChunkRecords
    <3>4. b.truthful = TRUE
      BY <2>3, <3>2, <3>3 DEF Current, RealBatches
    <3>5. ~HasJob(work, "mesh", k)
      BY <1>3, <3>2 DEF Tidy, HasJob
    <3>6. work' = Complete(work, k, TRUE)
      BY <1>1, <2>3, <3>4
    <3> QED
      BY <1>3, <3>2, <3>5, <3>6, CompleteFacts
  <2> QED
    BY <2>1, <2>2, <2>3
<1>5. Safely(work, work')
  BY <1>4, ContinuesSafely
<1>6. useWorkers' \in BOOLEAN
  BY <1>1, <1>3 DEF FlagsOK
<1> QED
  BY <1>1, <1>4, <1>5, <1>6, BatchStep

LEMMA WorkerFailsStep == ASSUME MeshInv, NEW k \in Chunks, WorkerFails(k) PROVE MeshInv'
<1>1. /\ phase = "idle" /\ work.chunk[k].batch # NoBatch
      /\ work' = FailAllBatches(work, center) /\ useWorkers' = FALSE
      /\ UNCHANGED <<center, phase, quota, needsEnsure, needsUnload, light, lost, events>>
  BY DEF WorkerFails
<1>2. ~lost
  BY <1>1 DEF MeshInv
<1>3. WorkInv(work) /\ Tidy(work) /\ center \in Int
  BY <1>1, <1>2, InFrame
<1>4. Safely(work, work') /\ Tidy(work')
  BY <1>1, <1>3, FailAllSafely
<1> QED
  BY <1>1, <1>4, BatchStep

LEMMA LoseContextStep == ASSUME MeshInv, LoseContext PROVE MeshInv'
<1> DEFINE made == {k \in Chunks : work.chunk[k].generated}
           Bare(a) == [[a EXCEPT !.batch = NoBatch] EXCEPT !.shown = FALSE]
           g == [k \in Chunks |-> Bare(work.chunk[k])]
           bare == [CancelBatches(work, Chunks) EXCEPT !.chunk =
                       [k \in Chunks |-> [@[k] EXCEPT !.shown = FALSE]]]
           f == [k \in Chunks |-> IF k \in made THEN [g[k] EXCEPT !.sections = TRUE] ELSE g[k]]
           u == [work EXCEPT !.chunk = f]
           v == MarkDirty(u, made)
<1>1. /\ phase = "idle" /\ ~lost /\ lost' = TRUE
      /\ work' = MarkDirty(SectionsDirty(bare, made), made)
      /\ Bounded
      /\ UNCHANGED <<center, phase, quota, needsEnsure, needsUnload, light, useWorkers>>
  BY DEF LoseContext
<1>2. WorkInv(work) /\ Tidy(work) /\ FlagsOK
  BY <1>1, InFrame
<1>3. work \in Works /\ work.chunk \in [Chunks -> ChunkRecords]
  BY <1>2, WorkFacts
<1>4. bare = [work EXCEPT !.chunk = g]
  <2> DEFINE h == [k \in Chunks |-> IF k \in Chunks THEN [work.chunk[k] EXCEPT !.batch = NoBatch]
                                    ELSE work.chunk[k]]
             z == CancelBatches(work, Chunks)
  <2>1. z = [work EXCEPT !.chunk = h]
    BY DEF CancelBatches
  <2>2. z.chunk = h
    BY <1>3, <2>1 DEF Works
  <2>3. bare = [z EXCEPT !.chunk = [k \in Chunks |-> [h[k] EXCEPT !.shown = FALSE]]]
    BY <2>2
  <2>4. [k \in Chunks |-> [h[k] EXCEPT !.shown = FALSE]] = g
    OBVIOUS
  <2> HIDE DEF h, g, z
  <2> QED
    BY <1>3, <2>1, <2>3, <2>4 DEF Works
<1>5. SectionsDirty(bare, made) = u
  <2>1. bare.chunk = g
    BY <1>3, <1>4 DEF Works
  <2>2. SectionsDirty(bare, made) = [bare EXCEPT !.chunk = f]
    <3> HIDE DEF bare, g, made
    <3> QED
      BY <2>1 DEF SectionsDirty
  <2> HIDE DEF bare, f, g
  <2> QED
    BY <1>3, <1>4, <2>2 DEF Works
<1>6. ASSUME NEW a \in ChunkRecords, ChunkOK(a)
      PROVE  LET r == IF a.generated THEN [Bare(a) EXCEPT !.sections = TRUE] ELSE Bare(a)
             IN  /\ r \in ChunkRecords /\ ChunkOK(r) /\ r.batch = NoBatch
                 /\ r.status = a.status /\ r.generated = a.generated /\ r.state = a.state
  <2> DEFINE y == Bare(a)
             z == [y EXCEPT !.sections = TRUE]
  <2>1. /\ y \in ChunkRecords /\ y.batch = NoBatch /\ y.status = a.status
        /\ y.generated = a.generated /\ y.state = a.state
    BY BatchKinds DEF ChunkRecords
  <2> HIDE DEF y
  <2>2. /\ z \in ChunkRecords /\ z.batch = NoBatch /\ z.status = a.status
        /\ z.generated = a.generated /\ z.state = a.state /\ z.sections = TRUE
    BY <2>1 DEF ChunkRecords
  <2> HIDE DEF z
  <2>3. ChunkOK(z) /\ (~a.generated => ChunkOK(y))
    BY <1>6, <2>1, <2>2 DEF ChunkOK
  <2> QED
    BY <2>1, <2>2, <2>3 DEF y, z
<1>7. \A k \in Chunks : f[k] = IF work.chunk[k].generated
                               THEN [Bare(work.chunk[k]) EXCEPT !.sections = TRUE]
                               ELSE Bare(work.chunk[k])
  OBVIOUS
<1>8. ASSUME NEW k \in Chunks
      PROVE  /\ f[k] \in ChunkRecords /\ ChunkOK(f[k]) /\ f[k].batch = NoBatch
             /\ f[k].status = work.chunk[k].status /\ f[k].generated = work.chunk[k].generated
             /\ f[k].state = work.chunk[k].state
  <2> DEFINE a == work.chunk[k]
  <2>1. a \in ChunkRecords /\ ChunkOK(a)
    BY <1>2, WorkFacts
  <2>2. f[k] = IF a.generated THEN [Bare(a) EXCEPT !.sections = TRUE] ELSE Bare(a)
    BY <1>7
  <2> HIDE DEF f, a, Bare
  <2> QED
    BY <1>6, <2>1, <2>2 DEF a
<1>9. f \in [Chunks -> ChunkRecords]
  BY <1>8
<1> HIDE DEF bare, f, u, g, Bare
<1>10. \A k \in Chunks : ChunkOK(f[k]) /\ (Present(work, k) => f[k].status # "Absent")
  BY <1>8 DEF Present
<1>11. \A j \in work.jobs : /\ j.stage = "generate" => ~f[j.chunk].generated
                            /\ j.stage = "mesh" => f[j.chunk].status # "ActiveGpu"
  <2> TAKE j \in work.jobs
  <2>1. JobOK(work, j) /\ j.chunk \in Chunks
    BY <1>2, WorkFacts, JobTypes
  <2> QED
    BY <1>8, <2>1 DEF JobOK
<1>12. WorkInv(u) /\ u.chunk = f /\ u.jobs = work.jobs
  BY <1>2, <1>9, <1>10, <1>11, NewFlags DEF u
<1>13. made \in SUBSET Chunks
  OBVIOUS
<1>m. \A k \in Chunks : k \in made <=> work.chunk[k].generated
  OBVIOUS
<1> HIDE DEF made
<1>14. /\ WorkInv(v) /\ v.jobs = u.jobs
       /\ \A k \in Chunks :
             /\ v.chunk[k].generated = u.chunk[k].generated
             /\ v.chunk[k].status = u.chunk[k].status
             /\ v.chunk[k].state = u.chunk[k].state
             /\ k \in made => v.chunk[k].dirty
             /\ v.chunk[k].batch # NoBatch <=> u.chunk[k].batch # NoBatch
  BY <1>12, <1>13, MarkDirtyFacts
<1>15. work' = v
  BY <1>1, <1>5
<1> HIDE DEF v
<1>16. \A k \in Chunks : v.chunk[k].batch = NoBatch
  BY <1>8, <1>12, <1>14
<1>17. Tidy(v)
  <2> SUFFICES ASSUME NEW j \in v.jobs, j.stage = "mesh" PROVE ~InFlight(v, j.chunk)
    BY DEF Tidy
  <2>1. j \in work.jobs /\ j.chunk \in Chunks /\ ~InFlight(work, j.chunk)
    BY <1>2, <1>12, <1>14, JobTypes DEF Tidy
  <2> QED
    BY <1>8, <1>12, <1>14, <2>1 DEF InFlight
<1>18. AllShown(v)
  <2> SUFFICES ASSUME NEW k \in Chunks, v.chunk[k].state = "Visible", ~v.chunk[k].dirty PROVE FALSE
    BY DEF AllShown, ShownOK
  <2>1. v.chunk[k].generated /\ work.chunk[k].generated
    BY <1>8, <1>12, <1>14, WorkFacts DEF ChunkOK
  <2> QED
    BY <1>m, <1>14, <2>1
<1>19. Resident(work') = Resident(work)
  BY <1>8, <1>12, <1>14, <1>15 DEF Resident
<1>20. events' \in 0 .. MaxEvents
  BY <1>1, <1>2, BoundedFacts
<1>21. FlagsOK'
  BY <1>1, <1>2, <1>19, <1>20 DEF FlagsOK
<1> QED
  BY <1>1, <1>14, <1>15, <1>16, <1>17, <1>18, <1>21 DEF MeshInv

LEMMA RestoreStep == ASSUME MeshInv, RestoreContext PROVE MeshInv'
<1> DEFINE R == Resident(work)
           v == Remesh(work, R, center)
<1>1. /\ lost /\ lost' = FALSE /\ work' = v /\ needsEnsure' = TRUE
      /\ UNCHANGED <<center, phase, quota, needsUnload, light, useWorkers, events>>
  BY DEF RestoreContext
<1>2. WorkInv(work) /\ AllShown(work) /\ FlagsOK /\ phase = "idle" /\ Tidy(work) /\ center \in Int
  BY <1>1, Constants DEF MeshInv, FlagsOK
<1>3. R \in SUBSET Chunks /\ \A k \in Chunks : work.chunk[k].generated => k \in R
  BY <1>2, WorkFacts DEF Resident, ChunkOK
<1> HIDE DEF R
<1>4. /\ Continues(work, v) /\ (Tidy(work) => Tidy(v))
      /\ Asked(v, {k \in R : work.chunk[k].generated})
  BY <1>2, <1>3, RemeshFacts
<1> HIDE DEF v
<1>5. Safely(work, v)
  BY <1>4, ContinuesSafely
<1>6. Beside(v)
  <2> SUFFICES ASSUME NEW k \in Chunks, InFlight(v, k) PROVE FALSE
    BY DEF Beside
  <2>1. WorkInv(v) /\ Kept(work, v, k)
    BY <1>4 DEF Continues
  <2>2. work.chunk[k].generated
    BY <2>1, WorkFacts DEF ChunkOK, InFlight, Kept
  <2> QED
    BY <1>3, <1>4, <2>2 DEF Asked
<1>7. FlagsOK'
  BY <1>1, <1>2, <1>5, SameFlags DEF FlagsOK
<1>8. WorkInv(v) /\ AllShown(v) /\ Tidy(v)
  BY <1>2, <1>4, <1>5 DEF Safely
<1> QED
  BY <1>1, <1>6, <1>7, <1>8 DEF MeshInv

LEMMA EnsureStep == ASSUME MeshInv, NEW c \in Centers, EnsureChunks(c) PROVE MeshInv'
<1> DEFINE moved == c # center
           w == IF moved THEN DropSpeculative(work, c) ELSE work
           scan == Scan(w, c)
           v == [scan.work EXCEPT !.displaced = FALSE]
<1>1. /\ phase = "idle" /\ ~lost
      /\ moved => events < MaxEvents
      /\ events' = IF moved THEN events + 1 ELSE events
      /\ center' = c
      /\ needsUnload' = (needsUnload \/ moved)
      /\ moved \/ needsEnsure => work' = v /\ needsEnsure' = (scan.full \/ scan.work.displaced)
      /\ ~moved /\ ~needsEnsure => UNCHANGED <<work, needsEnsure>>
      /\ phase' = "generate" /\ quota' = GenerateQuota
      /\ UNCHANGED <<light, useWorkers, lost>>
  BY DEF EnsureChunks
<1>2. /\ WorkInv(work) /\ AllShown(work) /\ Beside(work) /\ FlagsOK
      /\ needsEnsure \/ Seen(work, InRange(center))
  BY <1>1, InFrame
<1>3. events' \in 0 .. MaxEvents /\ quota' \in Nat /\ needsUnload' \in BOOLEAN /\ c \in Int
  <2>1. events' \in 0 .. MaxEvents
    BY <1>1, <1>2, Constants DEF FlagsOK
  <2>2. needsUnload' \in BOOLEAN
    BY <1>1
  <2> QED
    BY <1>1, <2>1, <2>2, Constants
<1>4. WorkInv(w) /\ w.chunk = work.chunk
  <2>1. WorkInv(DropSpeculative(work, c)) /\ DropSpeculative(work, c).chunk = work.chunk
    BY <1>2, DropSpeculativeFacts
  <2> QED
    BY <1>2, <2>1
<1> HIDE DEF w
<1>5. AllShown(w) /\ Beside(w) /\ \A k \in Chunks : Present(work, k) <=> Present(w, k)
  BY <1>2, <1>4 DEF AllShown, Beside, InFlight, Present
<1>6. /\ scan.full \in BOOLEAN /\ Safely(w, scan.work)
      /\ scan.full \/ scan.work.displaced \/ \A k \in InRange(c) : Covered(scan.work, k)
  BY <1>3, <1>4, ScanFacts
<1> HIDE DEF scan
<1>7. WorkInv(scan.work) /\ AllShown(scan.work) /\ Beside(scan.work)
      /\ \A k \in Chunks : Present(work, k) => Present(scan.work, k)
  BY <1>5, <1>6 DEF Safely
<1>8. /\ WorkInv(v) /\ AllShown(v) /\ Beside(v)
      /\ \A k \in Chunks : (Present(v, k) <=> Present(scan.work, k))
                           /\ (Covered(scan.work, k) => Covered(v, k))
  <2> DEFINE s == scan.work
  <2>1. WorkInv(s) /\ AllShown(s) /\ Beside(s)
    BY <1>7
  <2> HIDE DEF s
  <2>2. LET y == [s EXCEPT !.displaced = FALSE]
        IN  /\ WorkInv(y) /\ AllShown(y) /\ Beside(y)
            /\ \A k \in Chunks : (Present(y, k) <=> Present(s, k)) /\ (Covered(s, k) => Covered(y, k))
    BY <2>1, MarkFacts
  <2> QED
    BY <2>2 DEF s
<1> HIDE DEF v
<1>9. CASE moved \/ needsEnsure
  <2>1. WorkInv(work') /\ AllShown(work') /\ Beside(work')
        /\ \A k \in Chunks : Present(work, k) => Present(work', k)
    BY <1>1, <1>7, <1>8, <1>9
  <2>2. needsEnsure' \/ Seen(work', InRange(center'))
    <3>1. needsEnsure' \/ \A k \in InRange(c) : Covered(scan.work, k)
      BY <1>1, <1>6, <1>9
    <3>2. InRange(c) \subseteq Chunks
      BY DEF InRange
    <3> QED
      BY <1>1, <1>8, <1>9, <3>1, <3>2 DEF Seen
  <2>3. needsEnsure' \in BOOLEAN
    <3>1. scan.work.displaced \in BOOLEAN
      BY <1>7, WorkFacts
    <3> QED
      BY <1>1, <1>6, <1>9, <3>1
  <2>4. light' \in [chunks : SUBSET Resident(work'), busy : BOOLEAN]
    <3>1. Resident(work) \subseteq Resident(work')
      BY <2>1 DEF Resident, Present
    <3> QED
      BY <1>1, <1>2, <3>1 DEF FlagsOK
  <2>5. FlagsOK'
    BY <1>1, <1>2, <1>3, <2>3, <2>4 DEF FlagsOK
  <2> QED
    BY <1>1, <2>1, <2>2, <2>5 DEF MeshInv
<1>10. CASE ~moved /\ ~needsEnsure
  <2>1. UNCHANGED <<work, needsEnsure, light, useWorkers, lost>> /\ center' = center
    BY <1>1, <1>10
  <2>2. FlagsOK'
    BY <1>1, <1>2, <1>3, <2>1 DEF FlagsOK
  <2> QED
    BY <1>1, <1>2, <1>10, <2>1, <2>2 DEF MeshInv
<1> QED
  BY <1>9, <1>10

LEMMA NextInv == ASSUME MeshInv, [MeshingNext]_vars PROVE MeshInv'
<1>1. CASE UNCHANGED vars
  BY <1>1 DEF vars, MeshInv, FlagsOK
<1>2. CASE MeshingNext
  <2>1. CASE \E c \in Centers : EnsureChunks(c)
    BY <2>1, EnsureStep
  <2>2. CASE FrameStep
    BY <2>2, GenerateStep, StartMeshingStep, RefuseStep, SynchronousStep, SubmitStep,
       SubmitFailsStep, EndMeshingStep, DrainLightStep, LightIdleStep, UnloadStep DEF FrameStep
  <2>3. CASE \E k \in Chunks : \/ \E border \in SUBSET Neighbours(k) : EditBlock(k, border)
                               \/ WorkerResult(k) \/ WorkerFails(k)
    BY <2>3, EditStep, WorkerResultStep, WorkerFailsStep
  <2>4. CASE LoseContext \/ RestoreContext
    BY <2>4, LoseContextStep, RestoreStep
  <2> QED
    BY <1>2, <2>1, <2>2, <2>3, <2>4 DEF MeshingNext
<1> QED
  BY <1>1, <1>2

\* The invariant holds of every behaviour, for all values of the constants.
THEOREM Invariance == MeshingSpec => []MeshInv
<1>1. MeshingInit => MeshInv
  BY InitInv
<1>2. MeshInv /\ [MeshingNext]_vars => MeshInv'
  BY NextInv
<1> QED
  BY <1>1, <1>2, PTL DEF MeshingSpec

-----------------------------------------------------------------------------
(* What the invariant implies *)

\* A sequence of chunks that are all in T is a sequence over T.
LEMMA SequenceOver ==
    ASSUME NEW S, NEW s \in Seq(S), NEW T, \A k \in S : Occurs(s, k) => k \in T
    PROVE  s \in Seq(T)
<1>1. \A i \in 1 .. Len(s) : s[i] \in T
  BY DEF Occurs
<1> QED
  BY <1>1

\* The records, the queues and their bounds, the parked retries without
\* repetition, and the flags are of their types in every behaviour.
THEOREM TypeCorrect == MeshingSpec => []MeshTypeOK
<1>1. MeshInv => MeshTypeOK
  <2> SUFFICES ASSUME MeshInv PROVE MeshTypeOK
    OBVIOUS
  <2>1. WorkInv(work) /\ FlagsOK
    BY DEF MeshInv
  <2>2. \A k \in Chunks : k \in Resident(work) <=> Present(work, k)
    BY DEF Resident, Present
  <2>3. work.retry \in Seq(Resident(work)) /\ Distinct(work.retry)
    BY <2>1, <2>2, WorkFacts, SequenceOver
  <2>4. \A j \in work.jobs : j.chunk \in Resident(work)
    BY <2>1, <2>2, JobTypes, WorkFacts DEF JobOK
  <2>5. /\ work.chunk \in [Chunks -> ChunkRecords] /\ work.jobs \subseteq JobRecords
        /\ work.displaced \in BOOLEAN
    BY <2>1, WorkFacts DEF Works
  <2>6. \A stage \in {"generate", "mesh"} : Cardinality(Queued(work, stage)) <= QueueCap[stage]
    BY <2>1 DEF WorkInv, JobsOK
  <2> QED
    BY <2>1, <2>3, <2>4, <2>5, <2>6 DEF MeshTypeOK, FlagsOK
<1> QED
  BY <1>1, Invariance, PTL

\* A chunk that counts as meshed shows every edit of its blocks, whatever was
\* edited, rejected, unloaded or lost while its mesh was computed.
THEOREM CleanMeansShown == MeshingSpec => []CleanShowsEdits
<1>1. MeshInv => CleanShowsEdits
  BY DEF MeshInv, AllShown, ShownOK, CleanShowsEdits
<1> QED
  BY <1>1, Invariance, PTL

\* Between frames a chunk of the radius that needs terrain or a mesh has a job
\* that will be dispatched, a parked retry, a batch in flight or a scan to come,
\* for all capacities of the queues.
THEOREM NothingStranded == MeshingSpec => []NeverStranded
<1>1. MeshInv => NeverStranded
  <2> SUFFICES ASSUME MeshInv, phase = "idle", ~lost, NEW k \in InRange(center),
                      k \in Resident(work), ~needsEnsure, ~work.displaced
               PROVE  LET c == work.chunk[k]
                          Dispatched(stage) == \E j \in Dispatchable(work, stage) : j.chunk = k
                      IN  \/ ~c.generated /\ Dispatched("generate")
                          \/ c.generated /\ c.state = "Visible" /\ ~c.dirty
                          \/ c.generated /\ \/ Dispatched("mesh") /\ c.status = "Lighted"
                                            \/ Occurs(work.retry, k)
                                            \/ c.batch # NoBatch
    BY DEF NeverStranded
  <2>1. WorkInv(work) /\ Tidy(work) /\ Covered(work, k) /\ k \in Chunks
    BY InFrame DEF Seen, InRange
  <2>2. CASE ~work.chunk[k].generated
    <3>1. PICK j \in work.jobs : j.stage = "generate" /\ j.chunk = k
      BY <2>1, <2>2 DEF Covered, HasJob
    <3>2. j.fresh
      BY <2>1, JobTypes
    <3>3. j \in Dispatchable(work, "generate")
      BY <3>1, <3>2 DEF Dispatchable, Queued
    <3> QED
      BY <2>2, <3>1, <3>3
  <2>3. CASE work.chunk[k].generated /\ HasJob(work, "mesh", k)
    <3>1. PICK j \in work.jobs : j.stage = "mesh" /\ j.chunk = k
      BY <2>3 DEF HasJob
    <3>2. JobOK(work, j) /\ ~InFlight(work, k)
      BY <2>1, <3>1, WorkFacts DEF Tidy
    <3>3. j \in Dispatchable(work, "mesh")
      BY <3>1, <3>2 DEF Dispatchable, Queued, JobOK
    <3>4. work.chunk[k] \in ChunkRecords /\ ChunkOK(work.chunk[k])
      BY <2>1, WorkFacts
    <3>5. work.chunk[k].status \notin {"ActiveGpu", "MeshQueued", "Absent", "Allocated"}
      BY <2>3, <3>1, <3>2, <3>4 DEF JobOK, InFlight, ChunkOK
    <3>6. work.chunk[k].status = "Lighted"
      BY <3>4, <3>5 DEF ChunkRecords
    <3> QED
      BY <2>3, <3>1, <3>3, <3>6
  <2> QED
    BY <2>1, <2>2, <2>3 DEF Covered
<1> QED
  BY <1>1, Invariance, PTL

\* A batch belongs to the residency and generation it was submitted for, and a
\* mesh stage in flight always has its batch.
THEOREM BatchAndStage == MeshingSpec => []BatchOwnsStage
<1>1. MeshInv => BatchOwnsStage
  <2> SUFFICES ASSUME MeshInv, NEW k \in Chunks
               PROVE  LET c == work.chunk[k]
                      IN  /\ c.batch # NoBatch => c.generated /\ InFlight(work, k)
                                                  /\ c.batch.generation
                          /\ InFlight(work, k) => c.batch # NoBatch \/ lost
    BY DEF BatchOwnsStage
  <2>1. ChunkOK(work.chunk[k])
    BY WorkFacts DEF MeshInv
  <2>2. lost \/ Beside(work)
    BY DEF MeshInv
  <2> QED
    BY <2>1, <2>2 DEF ChunkOK, InFlight, Beside
<1> QED
  BY <1>1, Invariance, PTL
=============================================================================
