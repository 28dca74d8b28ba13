---------------------------- MODULE EditOverlay ----------------------------
(* The edits of the player in World (src/src/world/World.ts) and where they
   are kept: the canonical column, the bounded LRU overlay that mirrors them,
   the pending copy of the persistence facade and the committed record, with
   the asynchronous hydration that brings a committed record back.  A page may
   go away at any time; the next one imports the committed records.

   A cell holds 0 where nobody has edited, or the version of the edit that set
   it; every edit has a version of its own.  A chunk is a slab; the slabs above
   each other share a column, which is filled with terrain as a whole.
   How a pending copy becomes committed is DirtySaveQueue's and
   GamePersistence's matter: here it happens at once, at any time.            *)
EXTENDS InsertionMap, FiniteSets, SequencesExt

CONSTANTS
    Columns,            \* the columns, each the set of its slabs
    Cells,              \* the cells of a slab
    Solid,              \* the cells that terrain fills; it writes no air
    Cap,                \* EDIT_OVERLAY_MAX_CHUNKS
    CanGenerate,        \* canGenerateBaseline: absent terrain may be generated
    BootFails,          \* whether open() may fail to load the committed edits
    EvictsDuringRead,   \* whether Cap chunks are touched during one storage read
    MaxEdits,           \* bound: edits of a behaviour
    None                \* a read that has not been answered

Chunks == UNION Columns
ColumnOf(c) == CHOOSE column \in Columns : c \in column

VARIABLES
    canonical,          \* storage: the only writable truth of this session
    full,               \* columns whose status is Full
    slabs,              \* chunks that are resident and generated
    overlay,            \* editOverlay; Empty when the chunk has no entry
    accessOrder,        \* editOverlayAccessOrder
    pending,            \* pendingEdits of the facade, each with its dirty unit
    committed,          \* the chunk-edits store
    hydrationPending,   \* chunks with a loadCommittedChunkEdits in flight
    answer,             \* what that read has returned, None before
    live,               \* edits of this session, for the properties
    clock               \* versions given so far

edits == <<overlay, accessOrder, pending>>
hydration == <<hydrationPending, answer>>
vars == <<canonical, full, slabs, edits, committed, hydration, live, clock>>

Empty == [x \in Cells |-> 0]
Held(map) == {c \in Chunks : map[c] # Empty}

ASSUME OverlayAssumption ==
    /\ Cap \in Nat \ {0} /\ MaxEdits \in Nat
    /\ {CanGenerate, BootFails, EvictsDuringRead} \subseteq BOOLEAN
    /\ IsFiniteSet(Chunks) /\ None \notin [Cells -> Nat]
    /\ \A p, q \in Columns : p # q => p \intersect q = {}
    /\ Solid \subseteq Cells

OverlayInit ==
    /\ canonical = [c \in Chunks |-> Empty]
    /\ full = {} /\ slabs = {}
    /\ overlay = [c \in Chunks |-> Empty] /\ accessOrder = <<>>
    /\ pending = [c \in Chunks |-> Empty]
    /\ committed = [c \in Chunks |-> Empty]
    /\ hydrationPending = {} /\ answer = [c \in Chunks |-> None]
    /\ live = [c \in Chunks |-> Empty]
    /\ clock = 0

-----------------------------------------------------------------------------
(* The overlay is kept as a record while one call changes it several times. *)

Kept == [overlay |-> overlay, order |-> accessOrder, pending |-> pending]
Keep(k) == overlay' = k.overlay /\ accessOrder' = k.order /\ pending' = k.pending

\* A map written over another, cell by cell.
Over(below, map) == [x \in Cells |-> IF map[x] # 0 THEN map[x] ELSE below[x]]

\* captureChunkEdits: the whole map of the chunk becomes its dirty unit.
Capture(k, c) == [k EXCEPT !.pending[c] = k.overlay[c]]

\* touchEditOverlay: the chunk is the most recently used; over the cap the
\* least recently used entry goes, and is handed to the durability layer first.
Touch(k, c) ==
    LET order == Append(Delete(k.order, c), c)
        lru == Head(order)
    IN  IF Cardinality(Held(k.overlay)) <= Cap THEN [k EXCEPT !.order = order]
        ELSE [Capture(k, lru) EXCEPT !.order = Tail(order), !.overlay[lru] = Empty]

\* A storage read is answered before Cap other chunks have been touched.
ReadsAreShort(k) ==
    EvictsDuringRead \/ (Held(overlay) \ Held(k.overlay)) \intersect hydrationPending = {}

-----------------------------------------------------------------------------
\* Seeded bug: the entry is captured before the edit is written to it.
CaptureAndSet(k, c, x, v) == [Capture(Touch(k, c), c) EXCEPT !.overlay[c][x] = v]

\* The mirror of an edit: the entry is created if need be, touched, written
\* and captured as a whole.
SetAndCapture(k, c, x, v) == Capture(Touch([k EXCEPT !.overlay[c][x] = v], c), c)

\* applyCanonicalState, for a state that differs from the canonical one; the
\* slab need not be resident, nor its column generated.
SetBlock(c, x) ==
    /\ clock < MaxEdits
    /\ clock' = clock + 1
    /\ canonical' = [canonical EXCEPT ![c][x] = clock']
    /\ LET k == SetAndCapture(Kept, c, x, clock') IN ReadsAreShort(k) /\ Keep(k)
    /\ live' = [live EXCEPT ![c][x] = clock']
    /\ UNCHANGED <<full, slabs, committed, hydration>>

\* beginEditHydration: at most one read per chunk is in flight.
StartHydration(c) ==
    /\ hydrationPending' = hydrationPending \union {c}
    /\ UNCHANGED answer

\* generateColumn, for the column of c, over whatever edits its slabs have; a
\* column that is Full, or that may not be generated, stays as it is.
Terrain(c) ==
    IF ColumnOf(c) \in full \/ ~ CanGenerate THEN canonical
    ELSE [d \in Chunks |-> [x \in Cells |->
            IF ColumnOf(d) = ColumnOf(c) /\ x \in Solid THEN 0 ELSE canonical[d][x]]]

\* Seeded bug: edited cells go to the slab and not to the column.
ReconciledSlabOnly(terrain, c, map) == terrain

\* reconcileEditedCellsIntoColumn: the applied cells reach the column again.
Reconciled(terrain, c, map) == [terrain EXCEPT ![c] = Over(@, map)]

\* processGeneration and applyEditOverlay: the column gets its terrain, then
\* the entry of this slab, or its pending copy, is applied and reconciled;
\* with neither, the committed copy is asked.  The slabs above and below wait
\* for their own turn.
Generate(c) ==
    /\ c \notin slabs
    /\ slabs' = slabs \union {c}
    /\ full' = full \union {ColumnOf(c)}
    /\ LET restored == IF overlay[c] # Empty THEN overlay[c] ELSE pending[c]
           k == Touch([Kept EXCEPT !.overlay[c] = restored], c)
       IN  IF restored = Empty
           THEN /\ canonical' = Terrain(c)
                /\ StartHydration(c)
                /\ UNCHANGED edits
           ELSE /\ ReadsAreShort(k) /\ Keep(k)
                /\ canonical' = Reconciled(Terrain(c), c, restored)
                /\ UNCHANGED hydration
    /\ UNCHANGED <<committed, live, clock>>

\* unloadChunks releases the slab; column, overlay and read stay.
Unload(c) ==
    /\ c \in slabs
    /\ slabs' = slabs \ {c}
    /\ UNCHANGED <<canonical, full, edits, committed, hydration, live, clock>>

\* The read-only transaction of the hydration runs.
HydrationReads(c) ==
    /\ c \in hydrationPending /\ answer[c] = None
    /\ answer' = [answer EXCEPT ![c] = committed[c]]
    /\ UNCHANGED <<canonical, full, slabs, edits, committed, hydrationPending, live, clock>>

\* Seeded bug: the answer is applied whatever has happened since.
AppliesAnyway(c) == answer[c] # Empty

\* Seeded bug: a column that has terrain is taken to have its edits.
AppliesToNewColumns(c) == answer[c] # Empty /\ overlay[c] = Empty /\ ColumnOf(c) \notin full

\* An entry that appeared while the read was in flight is newer: it stays.
Applies(c) == answer[c] # Empty /\ overlay[c] = Empty

HydrationAnswers(c) ==
    /\ c \in hydrationPending /\ answer[c] # None
    /\ hydrationPending' = hydrationPending \ {c}
    /\ answer' = [answer EXCEPT ![c] = None]
    /\ IF Applies(c)
       THEN LET k == Touch([Kept EXCEPT !.overlay[c] = answer[c]], c)
            IN  /\ ReadsAreShort(k) /\ Keep(k)
                /\ canonical' = [canonical EXCEPT ![c] = Over(@, answer[c])]
       ELSE UNCHANGED <<edits, canonical>>
    /\ UNCHANGED <<full, slabs, committed, live, clock>>

\* A drain commits the pending copy, and the facade releases it.
Commit(c) ==
    /\ pending[c] # Empty
    /\ committed' = [committed EXCEPT ![c] = pending[c]]
    /\ pending' = [pending EXCEPT ![c] = Empty]
    /\ UNCHANGED <<canonical, full, slabs, overlay, accessOrder, hydration, live, clock>>

\* importEdits, one committed record after the other, each of them touched:
\* over the cap the earlier ones end up evicted, with the durability layer.
Import(order) ==
    LET excess == IF Len(order) > Cap THEN Len(order) - Cap ELSE 0
        committedOf(i, j) ==
            [c \in Chunks |-> IF \E n \in i .. j : order[n] = c THEN committed[c] ELSE Empty]
    IN  [overlay |-> committedOf(excess + 1, Len(order)),
         order |-> SubSeq(order, excess + 1, Len(order)),
         pending |-> committedOf(1, excess)]

\* The page goes away and another one boots; what was only pending is lost.
\* A load that failed imports nothing.
Reboot ==
    /\ \E found \in {Held(committed)} \union (IF BootFails THEN {{}} ELSE {}) :
       \E order \in SetToSeqs(found) :
          /\ Keep(Import(order))
          /\ canonical' = [c \in Chunks |-> IF c \in found THEN committed[c] ELSE Empty]
    /\ full' = {} /\ slabs' = {}
    /\ hydrationPending' = {} /\ answer' = [c \in Chunks |-> None]
    /\ live' = [c \in Chunks |-> Empty]
    /\ UNCHANGED <<committed, clock>>

-----------------------------------------------------------------------------
OverlayNext ==
    \/ \E c \in Chunks : \/ \E x \in Cells : SetBlock(c, x)
                         \/ Generate(c) \/ Unload(c) \/ Commit(c)
                         \/ HydrationReads(c) \/ HydrationAnswers(c)
    \/ Reboot

\* A promise in flight is answered; nothing else has to happen.
OverlaySpec ==
    /\ OverlayInit /\ [][OverlayNext]_vars
    /\ \A c \in Chunks : WF_vars(HydrationReads(c)) /\ WF_vars(HydrationAnswers(c))

-----------------------------------------------------------------------------
(* Properties. *)

\* Once a column has its terrain, no generation of a slab, eviction, restored
\* copy or late hydration takes back an edit that it shows.
EditsStay ==
    [][\A c \in Chunks, x \in Cells :
          ColumnOf(c) \in full \intersect full' => canonical'[c][x] >= canonical[c][x]]_vars

\* The projection never disagrees with the column it mirrors, so applying it
\* when a slab returns reverts nothing: a generated slab shows its entry, and
\* the entry of another one is hidden, if at all, by terrain and not by an edit.
OverlayMirrorsColumn ==
    \A c \in Chunks, x \in Cells :
        overlay[c][x] # 0 => \/ overlay[c][x] = canonical[c][x]
                             \/ c \notin slabs /\ canonical[c][x] = 0

\* Evicting or losing a resident entry costs nothing that is not in the
\* pending unit or in the store already.
OverlayIsRecorded ==
    \A c \in Held(overlay) : overlay[c] = IF pending[c] # Empty THEN pending[c] ELSE committed[c]

\* A chunk whose committed edits were not imported, or were covered by terrain,
\* shows them in the end, unless it is unloaded or has an unsaved edit first.
HydrationShows ==
    \A c \in Chunks, x \in Cells :
        (c \in slabs /\ committed[c][x] # 0) ~>
            (c \notin slabs \/ (live[c] # Empty /\ pending[c] # Empty)
                               \/ canonical[c][x] >= committed[c][x])

\* Every edit of this session is in the pending unit or in the store: eviction
\* hands the entry over first, "so the authoritative record of unsaved edits is
\* never destroyed" (World.ts:2127-2129).
UnsavedEditsKept ==
    \A c \in Chunks, x \in Cells :
        (IF pending[c] # Empty THEN pending[c] ELSE committed[c])[x] >= live[c][x]
=============================================================================
