---------------------------- MODULE ChunkMeshing ----------------------------
(***************************************************************************)
(* World's streaming of chunks and of their meshes (src/src/world/World.ts *)
(* over ChunkPipeline.ts): one frame scans the load radius, generates,     *)
(* meshes, drains light and unloads; between two frames blocks are edited, *)
(* mesh workers answer or fail, and the WebGL context is lost or restored. *)
(*                                                                         *)
(* Chunks lie on a line and the player stands at `center`.  A version      *)
(* (record generation, Chunk.meshVersion, section versions) is only ever   *)
(* compared with a captured copy, so each captured copy is modelled by     *)
(* whether it still equals the current one.  The sections of a chunk share *)
(* one mesh-dirty flag.  The path modelled is the one the game composes:   *)
(* canonical section meshing, with mesh workers or without.                *)
(***************************************************************************)
EXTENDS InsertionMap, Integers, FiniteSets, SequencesExt, FiniteSetsExt, Folds

CONSTANTS
    Chunks,       \* positions of the chunks on the line
    Centers,      \* positions the player can take
    LoadRadius,   \* renderDistance
    Hysteresis,   \* UNLOAD_HYSTERESIS_CHUNKS
    Interactive,  \* largest distance of ChunkStreamPriority.Interaction
    ColumnCap,    \* (2 * (rd + UNLOAD_HYSTERESIS_CHUNKS) + 1) ** 2
    GenerateCap, MeshCap,  \* CHUNK_PIPELINE_QUEUE_CAPS of the two stages
    GenerateQuota, MeshQuota, UnloadQuota,  \* jobs a frame's budgets pay for
    Parts,        \* largest number of sections a worker batch submits
    MaxEvents     \* bound on edits, moves, worker failures and context losses

ASSUME MeshingConstants ==
    /\ Chunks \subseteq Int /\ Centers \subseteq Int /\ IsFiniteSet(Chunks)
    /\ {LoadRadius, Hysteresis, Interactive, ColumnCap, MaxEvents} \subseteq Nat
    /\ {GenerateCap, MeshCap, GenerateQuota, MeshQuota, UnloadQuota, Parts} \subseteq Nat \ {0}

VARIABLES
    work,        \* chunks with their records and batches, the job queues, the parked retries
    center,      \* streamCenterX/Z
    phase,       \* where update() is; "idle" between frames
    quota,       \* what is left of the budget of the phase
    needsEnsure, needsUnload,
    light,       \* [chunks |-> lightDirtyChunks, busy |-> ~lightEngine.idle]
    useWorkers,
    lost,        \* contextLost
    events       \* number of bounded events so far

vars == <<work, center, phase, quota, needsEnsure, needsUnload, light, useWorkers, lost, events>>

-----------------------------------------------------------------------------
(* Chunks, jobs and batches *)

Distance(k, c) == IF k < c THEN c - k ELSE k - c

InRange(c) == {k \in Chunks : Distance(k, c) <= LoadRadius}

\* ensureChunks derives its cap from the load radius, so the radius always fits.
ASSUME CapAssumption == \A c \in Centers : Cardinality(InRange(c)) <= ColumnCap

Neighbours(k) == {k - 1, k + 1} \cap Chunks

NoBatch == [left |-> 0]

Batches == {NoBatch} \cup
    [left : 1 .. Parts, generation : BOOLEAN, version : BOOLEAN,
     snapshot : BOOLEAN, truthful : BOOLEAN]

\* A chunk with its lifecycle record; `shown` says that the attached mesh shows
\* every edit of the chunk, and a batch is truthful when its payload does.
AbsentChunk ==
    [state |-> "absent", generated |-> FALSE, dirty |-> FALSE, sections |-> FALSE,
     status |-> "Absent", shown |-> FALSE, batch |-> NoBatch]

NewChunk == [AbsentChunk EXCEPT !.state = "Pending", !.status = "Allocated"]

Resident(w) == {k \in Chunks : w.chunk[k].status # "Absent"}

InFlight(w, k) == w.chunk[k].status = "MeshQueued"

Queued(w, stage) == {j \in w.jobs : j.stage = stage}

QueueCap == [generate |-> GenerateCap, mesh |-> MeshCap]

\* The order of compareChunkWork: urgency at the time of the enqueue, then age,
\* then coordinates.  Age is left out among queued jobs; a newcomer is the
\* youngest, so it only displaces a job of a larger rank.
MoreUrgent(i, j) == \/ i.rank < j.rank
                    \/ (i.rank = j.rank /\ i.chunk < j.chunk)

\* markDirty on the chunks of S: their meshVersions move on from the captured ones.
MarkDirty(w, S) ==
    [w EXCEPT !.chunk = [k \in Chunks |->
        IF k \notin S THEN @[k]
        ELSE IF @[k].batch = NoBatch THEN [@[k] EXCEPT !.dirty = TRUE]
        ELSE [@[k] EXCEPT !.dirty = TRUE, !.batch.version = FALSE]]]

\* Block or light versions of the sections of S move on: the snapshots that hold
\* them, of the chunks of S and of their face neighbours, are no longer current.
SectionsMove(w, S) ==
    [w EXCEPT !.chunk = [k \in Chunks |->
        IF @[k].batch # NoBatch /\ (Neighbours(k) \cup {k}) \cap S # {}
        THEN [@[k] EXCEPT !.batch.snapshot = FALSE] ELSE @[k]]]

\* The blocks of S change: neither the attached mesh nor a submitted payload shows it.
Outdate(w, S) ==
    [w EXCEPT !.chunk = [k \in Chunks |->
        IF k \notin S THEN @[k]
        ELSE IF @[k].batch = NoBatch THEN [@[k] EXCEPT !.shown = FALSE, !.sections = TRUE]
        ELSE [@[k] EXCEPT !.shown = FALSE, !.sections = TRUE, !.batch.truthful = FALSE]]]

\* markCanonicalSectionsMeshDirtyForChunk on the chunks of S.
SectionsDirty(w, S) ==
    [w EXCEPT !.chunk = [k \in Chunks |->
        IF k \in S THEN [@[k] EXCEPT !.sections = TRUE] ELSE @[k]]]

\* cancelWorkerMeshBatch on the chunks of S.
CancelBatches(w, S) ==
    [w EXCEPT !.chunk = [k \in Chunks |->
        IF k \in S THEN [@[k] EXCEPT !.batch = NoBatch] ELSE @[k]]]

Without(w, S) == [w EXCEPT !.jobs = {j \in @ : j.chunk \notin S}]

\* The retries without those of S.
Unparked(w, S) == [w EXCEPT !.retry = FoldSet(LAMBDA k, s : Delete(s, k), @, S)]

\* Seeded bug: a result is only checked against the record's generation.
CurrentGeneration(b) == b # NoBatch /\ b.generation

\* The three stale checks of a batch (generation, meshVersion, version snapshot).
Current(b) == b # NoBatch /\ b.generation /\ b.version /\ b.snapshot

-----------------------------------------------------------------------------
(* The bounded queues of ChunkPipeline *)

LeastUrgent(queue) == CHOOSE j \in queue : \A i \in queue \ {j} : MoreUrgent(i, j)

MostUrgent(queue) == CHOOSE j \in queue : \A i \in queue \ {j} : MoreUrgent(j, i)

Enqueue(w, stage, k, c) ==
    LET job   == [stage |-> stage, chunk |-> k, rank |-> Distance(k, c), fresh |-> TRUE]
        queue == Queued(w, stage)
        worst == LeastUrgent(queue)
    IN  IF \E j \in queue : j.chunk = k THEN [ok |-> TRUE, work |-> w]
        ELSE IF Cardinality(queue) < QueueCap[stage]
        THEN [ok |-> TRUE, work |-> [w EXCEPT !.jobs = @ \cup {job}]]
        ELSE IF job.rank < worst.rank
        THEN [ok |-> TRUE, work |-> [w EXCEPT !.jobs = (@ \ {worst}) \cup {job},
                                              !.displaced = TRUE]]
        ELSE [ok |-> FALSE, work |-> w]

\* dequeue drops every entry that is stale or in flight before it picks the best.
Dispatchable(w, stage) ==
    {j \in Queued(w, stage) : j.fresh /\ (stage = "mesh" => ~InFlight(w, j.chunk))}

DropStale(w, stage) ==
    [w EXCEPT !.jobs = {j \in @ : j.stage = stage => j \in Dispatchable(w, stage)}]

Best(w, stage) == MostUrgent(Dispatchable(w, stage))

\* failStage("mesh") on the chunks of S that are in flight: back to Lighted
\* under a new generation, which makes their queued jobs stale.
FailMesh(w, S) ==
    LET failed == {k \in S : InFlight(w, k)}
    IN  [w EXCEPT !.jobs = {IF j.chunk \in failed THEN [j EXCEPT !.fresh = FALSE] ELSE j : j \in @},
                  !.chunk = [k \in Chunks |->
                      IF k \in failed THEN [@[k] EXCEPT !.status = "Lighted"] ELSE @[k]]]

-----------------------------------------------------------------------------
(* Mesh requests *)

EnsureMeshableRecord(w, k) ==
    IF w.chunk[k].status \in {"MeshQueued", "ActiveGpu"} /\ ~Current(w.chunk[k].batch)
    THEN [Without(CancelBatches(w, {k}), {k}) EXCEPT !.chunk[k].status = "Lighted"]
    ELSE w

\* Seeded bug: a job that the full queue rejects is forgotten.
EnqueueMeshOnce(w, k, c) ==
    LET r == Enqueue(EnsureMeshableRecord(w, k), "mesh", k, c)
    IN  IF r.ok
        THEN [r.work EXCEPT !.chunk[k].state = "Meshing", !.retry = Delete(@, k)]
        ELSE r.work

EnqueueMeshWithRetry(w, k, c) ==
    LET r == Enqueue(EnsureMeshableRecord(w, k), "mesh", k, c)
    IN  IF r.ok
        THEN [r.work EXCEPT !.chunk[k].state = "Meshing", !.retry = Delete(@, k)]
        ELSE [r.work EXCEPT !.retry = Set(@, k)]

\* markDirty and enqueueMeshWithRetry, for the generated chunks of S only.
Remesh(w, S, c) ==
    LET T == {k \in S : w.chunk[k].generated}
    IN  FoldSet(LAMBDA k, v : EnqueueMeshWithRetry(v, k, c), MarkDirty(w, T), T)

\* Seeded bug: rejected batches are thrown away and their stages left in flight.
DropBatches(w, S, c) == CancelBatches(w, S)

\* rejectWorkerMeshBatch and requeueWorkerBatch: a batch ends once; if its
\* generation is still the record's, its stage is rolled back and the chunk is
\* queued again.
RejectBatches(w, S, c) ==
    LET owned == {k \in S : w.chunk[k].batch.generation}
    IN  Remesh(FailMesh(CancelBatches(w, S), owned), owned, c)

FailAllBatches(w, c) == RejectBatches(w, {k \in Chunks : w.chunk[k].batch # NoBatch}, c)

\* The end of a mesh pass, after which mesh and upload are complete.
Complete(w, k, shown) ==
    [w EXCEPT !.chunk[k] = [@ EXCEPT !.shown = shown, !.sections = FALSE, !.batch = NoBatch,
                                     !.dirty = FALSE, !.state = "Visible", !.status = "ActiveGpu"]]

\* processCanonicalSectionMeshing: only dirty sections are rebuilt.
MeshInPlace(w, k) ==
    Complete(w, k, w.chunk[k].shown \/ w.chunk[k].sections)

-----------------------------------------------------------------------------
(* update(): scan, generate, mesh, drain light, unload *)

MeshingInit ==
    /\ work = [chunk |-> [k \in Chunks |-> AbsentChunk], jobs |-> {}, retry |-> <<>>,
               displaced |-> FALSE]
    /\ center \in Centers
    /\ phase = "idle" /\ quota = 0
    /\ needsEnsure = TRUE /\ needsUnload = FALSE
    /\ light = [chunks |-> {}, busy |-> FALSE]
    /\ useWorkers \in BOOLEAN
    /\ lost = FALSE
    /\ events = 0

\* What one column asks of a scan: acc.full stops it.
ScanChunk(acc, k, c) ==
    LET w    == acc.work
        new  == [w EXCEPT !.chunk[k] = NewChunk]
        gen  == Enqueue(IF k \in Resident(w) THEN w ELSE new, "generate", k, c)
    IN  IF acc.full THEN acc
        ELSE IF k \notin Resident(w) /\ Cardinality(Resident(w)) >= ColumnCap
        THEN [acc EXCEPT !.full = TRUE]
        ELSE IF ~w.chunk[k].generated
        THEN IF gen.ok
             THEN [work |-> [gen.work EXCEPT !.chunk[k].state = "Generating"], full |-> FALSE]
             ELSE [work |-> w, full |-> TRUE]
        ELSE IF w.chunk[k].state # "Visible" \/ w.chunk[k].dirty
        THEN [acc EXCEPT !.work = EnqueueMeshWithRetry(w, k, c)]
        ELSE acc

\* The last of the scan offsets: the nearest chunks come first.
Farthest(S, c) == CHOOSE k \in S : \A i \in S \ {k} :
    Distance(i, c) < Distance(k, c) \/ (Distance(i, c) = Distance(k, c) /\ i < k)

Scan(w, c) ==
    MapThenFoldSet(LAMBDA k, acc : ScanChunk(acc, k, c), [work |-> w, full |-> FALSE],
                   LAMBDA k : k, LAMBDA S : Farthest(S, c), InRange(c))

\* A new stream epoch: speculative queued work and parked retries are dropped.
DropSpeculative(w, c) ==
    Unparked([w EXCEPT !.jobs = {j \in @ : j.rank <= Interactive}],
             {k \in Chunks : Distance(k, c) > Interactive})

\* ensureChunks, at the start of a frame with the player at c.
EnsureChunks(c) ==
    LET moved == c # center
        scan  == Scan(IF moved THEN DropSpeculative(work, c) ELSE work, c)
    IN  /\ phase = "idle" /\ ~lost
        /\ moved => events < MaxEvents
        /\ events' = IF moved THEN events + 1 ELSE events
        /\ center' = c
        /\ needsUnload' = (needsUnload \/ moved)
        /\ IF moved \/ needsEnsure
           THEN /\ work' = [scan.work EXCEPT !.displaced = FALSE]
                /\ needsEnsure' = (scan.full \/ scan.work.displaced)
           ELSE UNCHANGED <<work, needsEnsure>>
        /\ phase' = "generate" /\ quota' = GenerateQuota
        /\ UNCHANGED <<light, useWorkers, lost>>

\* processGenerationInner, one job: the neighbours are meshed again, then the chunk.
\* `moved`: the column's terrain or its reseeded light change section versions.
Generated(w, k, moved) ==
    LET made   == [w EXCEPT !.chunk[k].status = "Lighted", !.chunk[k].generated = TRUE,
                            !.chunk[k].state = "Generated", !.chunk[k].sections = TRUE]
        told   == IF moved THEN SectionsMove(made, {k}) ELSE made
    IN  EnqueueMeshWithRetry(Remesh(told, Neighbours(k), center), k, center)

GenerateChunk ==
    LET w   == DropStale(work, "generate")
        job == Best(w, "generate")
    IN  /\ phase = "generate" /\ quota > 0 /\ Dispatchable(work, "generate") # {}
        /\ quota' = quota - 1
        /\ \E moved \in BOOLEAN :
              work' = Generated([w EXCEPT !.jobs = @ \ {job}], job.chunk, moved)
        /\ light' = [light EXCEPT !.chunks = @ \cup
               {n \in Neighbours(job.chunk) : work.chunk[n].generated}]
        /\ UNCHANGED <<center, phase, needsEnsure, needsUnload, useWorkers, lost, events>>

\* Seeded bug: the parked retries wait for the next scan.
AdmitNobody(w) == w

\* One parked retry is re-admitted, unless an earlier one was parked again.
Admit(acc, k, c) ==
    LET next == EnqueueMeshWithRetry([acc.work EXCEPT !.retry = Delete(@, k)], k, c)
    IN  IF acc.full THEN acc ELSE [work |-> next, full |-> Occurs(next.retry, k)]

AdmitParked(w) ==
    FoldLeft(LAMBDA acc, k : Admit(acc, k, center), [work |-> w, full |-> FALSE], w.retry).work

StartMeshing ==
    /\ phase = "generate" /\ (quota = 0 \/ Dispatchable(work, "generate") = {})
    /\ work' = AdmitParked(DropStale(work, "generate"))
    /\ phase' = "mesh" /\ quota' = MeshQuota
    /\ UNCHANGED <<center, needsEnsure, needsUnload, light, useWorkers, lost, events>>

\* The best job leaves the queue and its stage begins: only from Lighted.
Taken(w) ==
    LET fresh == DropStale(w, "mesh")
        job   == Best(fresh, "mesh")
    IN  [work |-> [fresh EXCEPT !.jobs = @ \ {job}], chunk |-> job.chunk,
         begun |-> w.chunk[job.chunk].status = "Lighted"]

MeshingOne ==
    /\ phase = "mesh" /\ quota > 0 /\ Dispatchable(work, "mesh") # {}
    /\ quota' = quota - 1

RefuseMeshJob ==
    /\ MeshingOne /\ ~Taken(work).begun
    /\ work' = Taken(work).work
    /\ UNCHANGED <<center, phase, needsEnsure, needsUnload, light, useWorkers, lost, events>>

MeshSynchronously ==
    /\ MeshingOne /\ Taken(work).begun /\ ~useWorkers
    /\ work' = MeshInPlace(Taken(work).work, Taken(work).chunk)
    /\ UNCHANGED <<center, phase, needsEnsure, needsUnload, light, useWorkers, lost, events>>

\* A batch of n sections is registered under the captured versions.
Submitted(w, k, n) ==
    [w EXCEPT !.chunk[k] = [@ EXCEPT !.status = "MeshQueued", !.batch =
        [left |-> n, generation |-> TRUE, version |-> TRUE, snapshot |-> TRUE, truthful |-> TRUE]]]

\* submitWorkerMeshJob: a batch of the dirty sections that are not empty.
SubmitBatch ==
    LET k == Taken(work).chunk
        w == Taken(work).work
    IN  /\ MeshingOne /\ Taken(work).begun /\ useWorkers
        /\ \/ work' = MeshInPlace(w, k)
           \/ /\ w.chunk[k].sections
              /\ \E n \in 1 .. Parts : work' = Submitted(w, k, n)
        /\ UNCHANGED <<center, phase, needsEnsure, needsUnload, light, useWorkers, lost, events>>

\* The workers cannot be made (mesh in place), or the pool refuses the request
\* (every batch is queued again): both end worker meshing for good.
SubmitFails ==
    LET k == Taken(work).chunk
        w == Taken(work).work
    IN  /\ MeshingOne /\ Taken(work).begun /\ useWorkers
        /\ \/ work' = MeshInPlace(w, k)
           \/ work' = FailAllBatches(Submitted(w, k, 1), center)
        /\ useWorkers' = FALSE
        /\ UNCHANGED <<center, phase, needsEnsure, needsUnload, light, lost, events>>

EndMeshing ==
    /\ phase = "mesh" /\ (quota = 0 \/ Dispatchable(work, "mesh") = {})
    /\ work' = DropStale(work, "mesh")
    /\ phase' = "light" /\ quota' = 0
    /\ UNCHANGED <<center, needsEnsure, needsUnload, light, useWorkers, lost, events>>

\* processLightUpdates after a drain that wrote light in `lit`.
Relit(w, lit) ==
    LET dirtied == {k \in light.chunks : w.chunk[k].generated}
    IN  Remesh(SectionsMove(SectionsDirty(w, dirtied), lit \cup dirtied), dirtied, center)

DrainLight ==
    /\ phase = "light" /\ light.busy
    /\ \E done \in BOOLEAN, lit \in SUBSET Resident(work) :
          /\ work' = Relit(work, lit)
          /\ light' = IF done THEN [chunks |-> {}, busy |-> FALSE] ELSE light
    /\ phase' = "unload"
    /\ UNCHANGED <<center, quota, needsEnsure, needsUnload, useWorkers, lost, events>>

LightIdle ==
    /\ phase = "light" /\ ~light.busy
    /\ light' = [light EXCEPT !.chunks = {}]
    /\ phase' = "unload"
    /\ UNCHANGED <<work, center, quota, needsEnsure, needsUnload, useWorkers, lost, events>>

\* Seeded bug: the parked retries of unloaded chunks are kept.
UnloadedKeepsRetry(w, S) ==
    [Without(w, S) EXCEPT !.chunk = [k \in Chunks |-> IF k \in S THEN AbsentChunk ELSE @[k]]]

Unloaded(w, S) ==
    [Unparked(Without(w, S), S) EXCEPT !.chunk = [k \in Chunks |->
        IF k \in S THEN AbsentChunk ELSE @[k]]]

Least(m, n) == IF m < n THEN m ELSE n

\* The end of a frame: a displaced job asks for a scan, far chunks are unloaded.
UnloadChunks ==
    LET far == {k \in Resident(work) : Distance(k, center) > LoadRadius + Hysteresis}
    IN  /\ phase = "unload"
        /\ needsEnsure' = (needsEnsure \/ work.displaced)
        /\ \E S \in SUBSET far :
              /\ Cardinality(S) = IF needsUnload THEN Least(UnloadQuota, Cardinality(far)) ELSE 0
              /\ work' = [Unloaded(work, S) EXCEPT !.displaced = FALSE]
              /\ light' = [light EXCEPT !.chunks = @ \ S]
              /\ needsUnload' = (needsUnload /\ S # far)
        /\ phase' = "idle"
        /\ UNCHANGED <<center, quota, useWorkers, lost, events>>

-----------------------------------------------------------------------------
(* Between frames: edits, worker answers, failures, the graphics context *)

Bounded == events < MaxEvents /\ events' = events + 1

\* enqueueCanonicalSectionDependency for the sections an edit touches: its own
\* chunk's, then those of the neighbours it borders.
Touched(w, k, hit) ==
    LET outdated == SectionsMove(Outdate(w, hit \cup {k}), hit \cup {k})
    IN  Remesh(Remesh(outdated, {k}, center), hit, center)

\* applyCanonicalState on resident chunk k, by play or (in a frame) by a falling
\* block; `border` are the neighbours the cell faces.
EditBlock(k, border) ==
    LET hit == {n \in border : n \in Resident(work)}
    IN  /\ phase \in {"idle", "light"} /\ ~lost /\ k \in Resident(work)
        /\ work' = EnqueueMeshWithRetry(Touched(work, k, hit), k, center)
        /\ light' = [chunks |-> light.chunks \cup
                         {n \in hit \cup {k} : work.chunk[n].generated}, busy |-> TRUE]
        /\ Bounded
        /\ UNCHANGED <<center, phase, quota, needsEnsure, needsUnload, useWorkers, lost>>

\* consumeWorkerMeshResult: one section of k's batch; the last one completes it.
WorkerResult(k) ==
    LET b == work.chunk[k].batch
    IN  /\ phase = "idle" /\ b # NoBatch
        /\ work' = IF ~Current(b) THEN RejectBatches(work, {k}, center)
                   ELSE IF b.left > 1 THEN [work EXCEPT !.chunk[k].batch.left = @ - 1]
                   ELSE Complete(work, k, b.truthful)
        /\ UNCHANGED <<center, phase, quota, needsEnsure, needsUnload, light, useWorkers, lost, events>>

\* failWorkerBatch: a worker breaks, answers nonsense or misses its deadline.
WorkerFails(k) ==
    /\ phase = "idle" /\ work.chunk[k].batch # NoBatch
    /\ work' = FailAllBatches(work, center)
    /\ useWorkers' = FALSE
    /\ UNCHANGED <<center, phase, quota, needsEnsure, needsUnload, light, lost, events>>

\* handleContextLost: nothing stays attached or in flight; update() returns early.
LoseContext ==
    LET made  == {k \in Chunks : work.chunk[k].generated}
        bare  == [CancelBatches(work, Chunks) EXCEPT !.chunk = [k \in Chunks |->
                     [@[k] EXCEPT !.shown = FALSE]]]
    IN  /\ phase = "idle" /\ ~lost
        /\ lost' = TRUE
        /\ work' = MarkDirty(SectionsDirty(bare, made), made)
        /\ Bounded
        /\ UNCHANGED <<center, phase, quota, needsEnsure, needsUnload, light, useWorkers>>

RestoreContext ==
    /\ lost
    /\ lost' = FALSE
    /\ work' = Remesh(work, Resident(work), center)
    /\ needsEnsure' = TRUE
    /\ UNCHANGED <<center, phase, quota, needsUnload, light, useWorkers, events>>

FrameStep == \/ GenerateChunk \/ StartMeshing
             \/ RefuseMeshJob \/ MeshSynchronously \/ SubmitBatch \/ SubmitFails \/ EndMeshing
             \/ DrainLight \/ LightIdle \/ UnloadChunks

MeshingNext ==
    \/ \E c \in Centers : EnsureChunks(c)
    \/ FrameStep
    \/ \E k \in Chunks : \/ \E border \in SUBSET Neighbours(k) : EditBlock(k, border)
                         \/ WorkerResult(k) \/ WorkerFails(k)
    \/ LoseContext \/ RestoreContext

MeshingSpec == MeshingInit /\ [][MeshingNext]_vars

\* Frames go on while the context is there; the light of finitely many edits is
\* finite work; a worker answers or misses its deadline.
MeshingFairness ==
    /\ WF_vars(EnsureChunks(center)) /\ WF_vars(FrameStep)
    /\ SF_vars(DrainLight /\ ~light'.busy)
    /\ \A k \in Chunks : SF_vars(WorkerResult(k) \/ WorkerFails(k))

MeshingFairSpec == MeshingSpec /\ MeshingFairness

-----------------------------------------------------------------------------
(* Properties *)

ChunkRecords ==
    [state : {"absent", "Pending", "Generating", "Generated", "Meshing", "Visible"},
     generated : BOOLEAN, dirty : BOOLEAN, sections : BOOLEAN,
     status : {"Absent", "Allocated", "Lighted", "MeshQueued", "ActiveGpu"},
     shown : BOOLEAN, batch : Batches]

JobRecords == [stage : {"generate", "mesh"}, chunk : Chunks, rank : Nat, fresh : BOOLEAN]

MeshTypeOK ==
    /\ work.chunk \in [Chunks -> ChunkRecords]
    /\ work.jobs \subseteq JobRecords /\ \A j \in work.jobs : j.chunk \in Resident(work)
    /\ \A stage \in {"generate", "mesh"} : Cardinality(Queued(work, stage)) <= QueueCap[stage]
    /\ work.displaced \in BOOLEAN
    /\ work.retry \in Seq(Resident(work)) /\ Distinct(work.retry)
    /\ center \in Centers /\ quota \in Nat
    /\ phase \in {"idle", "generate", "mesh", "light", "unload"}
    /\ light.chunks \subseteq Resident(work) /\ light.busy \in BOOLEAN
    /\ {needsEnsure, needsUnload, useWorkers, lost} \subseteq BOOLEAN
    /\ events \in 0 .. MaxEvents

\* A chunk that counts as meshed (Visible and not dirty) shows every edit of its
\* blocks: whatever was edited while a worker computed its mesh, the late result
\* is not taken for the new one.
CleanShowsEdits ==
    \A k \in Chunks : work.chunk[k].state = "Visible" /\ ~work.chunk[k].dirty
                          => work.chunk[k].shown

\* An edit is never silently stranded: between frames, a chunk of the load
\* radius that still needs its terrain or its mesh has a queued job that will be
\* dispatched, a parked retry, a batch in flight, or a scan to come.
NeverStranded ==
    phase = "idle" /\ ~lost => \A k \in InRange(center) \cap Resident(work) :
        LET c == work.chunk[k]
            Dispatched(stage) == \E j \in Dispatchable(work, stage) : j.chunk = k
        IN  \/ needsEnsure \/ work.displaced
            \/ ~c.generated /\ Dispatched("generate")
            \/ c.generated /\ c.state = "Visible" /\ ~c.dirty
            \/ c.generated /\ \/ Dispatched("mesh") /\ c.status = "Lighted"
                              \/ Occurs(work.retry, k)
                              \/ c.batch # NoBatch

\* A batch belongs to the residency and to the generation it was submitted for,
\* and a mesh stage in flight always has its batch: a stage is never left in
\* flight for ever, and no late answer meets a replacement chunk.
BatchOwnsStage ==
    \A k \in Chunks :
        LET c == work.chunk[k]
        IN  /\ c.batch # NoBatch => c.generated /\ InFlight(work, k) /\ c.batch.generation
            /\ InFlight(work, k) => c.batch # NoBatch \/ lost

\* When the player stands still and nothing more is edited, the whole load
\* radius comes to show its current blocks, whatever was displaced, parked,
\* rejected, unloaded or failed on the way.
MeshesSettle ==
    \A k \in Chunks : <>[](~lost /\ k \in InRange(center) => work.chunk[k].shown)
=============================================================================
