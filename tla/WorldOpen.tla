----------------------------- MODULE WorldOpen -----------------------------
(* The boot of a persisted world: GamePersistence.open
   (src/src/storage/GamePersistence.ts) with the copy-then-verify migration of
   LegacyLocalStorageMigrator.migrate and the decision of assessWorldStartup.
   A boot is a sequence of awaited storage calls; each may be refused, and the
   page may go away between any two of them.  Afterwards gameplay saves records
   that are newer than the legacy snapshot, and the next boot begins with what
   the store then holds.

   A record holds a version: 0 when it is absent, Legacy for the value the
   legacy snapshot gives it, and more for a value that gameplay saved.  The
   write-behind queue between gameplay and the store is DirtySaveQueue's.     *)
EXTENDS Naturals, FiniteSets

CONSTANTS
    Chunks,         \* chunks that have an edit record; a chunk is its own column
    Player,         \* the player-state record
    Coverage,       \* the chunks around the spawn anchor (radius 2)
    Faults,         \* the storage calls that may be refused
    MaxFaults,      \* bound: how many calls are refused in all
    MaxVersion,     \* bound: the newest version gameplay writes
    Sources         \* whether a boot finds localStorage: a set of BOOLEANs

VARIABLES
    store,          \* what survives a crash: records, columns, markers, header
    legacy,         \* the artifacts the legacy snapshot holds
    malformed,      \* the legacy edit snapshot does not parse
    pc,             \* the next call of open(), "playing", or "off"
    hasSource,      \* this boot's migrator is not null
    todo,           \* legacy artifacts the running migration has left
    item,           \* the artifact being written or read back
    columnsTodo,    \* compatibility columns it has left
    imported,       \* artifacts the migration report counts
    reportErrors,   \* report.errors is not empty
    err,            \* this.errors is not empty
    healthy,        \* the health probe passed
    existing,       \* the header this boot has read
    baseline,       \* generationBaselineValue
    uncertain,      \* one of the three enumerating reads failed
    seenColumns,    \* the columns this boot has read
    loaded,         \* the versions the session plays with
    mode,           \* startupAssessment.mode
    faults,         \* calls refused so far
    excused,        \* a boot without a source, or a reset, settled the marker
    unmarked        \* a boot went on to play after a refused call that left no marker

migration == <<todo, item, columnsTodo, imported, reportErrors>>
assessment == <<existing, baseline, uncertain, seenColumns>>
session == <<loaded, mode>>
world == <<legacy, malformed, hasSource>>
history == <<excused, unmarked>>
vars == <<store, world, pc, migration, err, healthy, assessment, session, faults, history>>

Records == Chunks \union {Player}
Legacy == 1

ASSUME OpenAssumption ==
    /\ Player \notin Chunks /\ Coverage \subseteq Chunks
    /\ IsFiniteSet(Chunks)
    /\ MaxFaults \in Nat /\ MaxVersion \in Nat
    /\ Sources \subseteq BOOLEAN

\* A store that no program wrote to, or the store of a world whose header names
\* another generation version and whose migration was settled long ago.
EmptyStore == [rec |-> [r \in Records |-> 0], columns |-> {}, header |-> "none",
               marker |-> FALSE, attempted |-> FALSE]
OldStore == [rec |-> [r \in Records |-> Legacy + 1], columns |-> Coverage,
             header |-> "other", marker |-> TRUE, attempted |-> FALSE]

OpenInit ==
    /\ store \in {EmptyStore, OldStore}
    /\ legacy \in SUBSET Records
    /\ malformed \in BOOLEAN
    /\ pc = "off" /\ hasSource = TRUE
    /\ todo = {} /\ item = Player /\ columnsTodo = {} /\ imported = {}
    /\ reportErrors = FALSE /\ err = FALSE /\ healthy = TRUE
    /\ existing = "none" /\ baseline = "current" /\ uncertain = FALSE /\ seenColumns = {}
    /\ loaded = [r \in Records |-> 0] /\ mode = "current"
    /\ faults = 0
    /\ excused = (store = OldStore) /\ unmarked = FALSE

-----------------------------------------------------------------------------
(* How a storage call answers: TRUE when it is served, FALSE when it rejects
   and its catch block records an error. *)

Outcome(call) == IF call \in Faults /\ faults < MaxFaults THEN BOOLEAN ELSE {TRUE}
Count(ok) == faults' = IF ok THEN faults ELSE faults + 1
Recorded(ok) == Count(ok) /\ err' = (err \/ ~ ok)

-----------------------------------------------------------------------------
(* Steps 1 and 2 of open(). *)

\* A new page: every field of the facade has its initial value.
Boot ==
    /\ pc = "off"
    /\ pc' = "repositories"
    /\ hasSource' \in Sources
    /\ todo' = {} /\ item' = Player /\ columnsTodo' = {} /\ imported' = {}
    /\ reportErrors' = FALSE /\ err' = FALSE /\ healthy' = TRUE
    /\ existing' = "none" /\ baseline' = "current"
    /\ uncertain' = FALSE /\ seenColumns' = {}
    /\ loaded' = [r \in Records |-> 0] /\ mode' = "current"
    /\ UNCHANGED <<store, legacy, malformed, faults, history>>

\* A store that cannot be opened ends the boot early ("fatal"): nothing is
\* read, and the game starts from the defaults.
OpenRepositories ==
    /\ pc = "repositories"
    /\ \E ok \in Outcome("open repositories") :
          /\ Recorded(ok)
          /\ pc' = IF ok THEN "probe" ELSE "playing"
          /\ unmarked' = (unmarked \/ ~ ok)
    /\ UNCHANGED <<store, world, migration, healthy, assessment, session, excused>>

ProbeHealth ==
    /\ pc = "probe"
    /\ \E ok \in Outcome("health check") : Count(ok) /\ healthy' = ok
    /\ pc' = "marker"
    /\ UNCHANGED <<store, world, migration, err, assessment, session, history>>

-----------------------------------------------------------------------------
(* Step 3: the markers that gate the migration. *)

ReadMarker ==
    /\ pc = "marker"
    /\ \E ok \in Outcome("migration marker read") :
          /\ Recorded(ok)
          /\ pc' = IF ok /\ store.marker THEN "classify"
                   ELSE IF hasSource THEN "attempt" ELSE "no source"
    /\ UNCHANGED <<store, world, migration, healthy, assessment, session, history>>

\* A write of a marker; the settled store is kept when it is served.
WriteMarker(call, marker, next, otherwise) ==
    \E ok \in Outcome(call) :
       /\ Recorded(ok)
       /\ store' = IF ok THEN [store EXCEPT ![marker] = TRUE] ELSE store
       /\ pc' = IF ok THEN next ELSE otherwise

\* No legacy source: completion is marked so that a source that appears later
\* cannot regress newer data.
MarkSourceless ==
    /\ pc = "no source"
    /\ WriteMarker("no-source marker write", "marker", "classify", "classify")
    /\ excused' = (excused \/ store'.marker)
    /\ unmarked' = (unmarked \/ ~ store'.marker)
    /\ UNCHANGED <<world, migration, healthy, assessment, session>>

ReadAttempt ==
    /\ pc = "attempt"
    /\ \E ok \in Outcome("migration attempt marker read") :
          /\ Recorded(ok)
          /\ pc' = IF ok /\ store.attempted THEN "durable" ELSE "source"
    /\ UNCHANGED <<store, world, migration, healthy, assessment, session, history>>

\* Seeded bug: the probe looks at the edits and forgets the player.
HasEditState == \E c \in Chunks : store.rec[c] # 0

HasDurableState == \E r \in Records : store.rec[r] # 0

\* After a failed attempt, records that exist now are taken for gameplay
\* progress: the retry is skipped and the failure stays recorded.
ProbeDurableState ==
    /\ pc = "durable"
    /\ \E ok \in Outcome("durable-state probe") :
          /\ Count(ok)
          /\ err' = (err \/ ~ ok \/ HasDurableState)
          /\ pc' = IF ok /\ HasDurableState THEN "classify" ELSE "source"
    /\ UNCHANGED <<store, world, migration, healthy, assessment, session, history>>

-----------------------------------------------------------------------------
(* LegacyLocalStorageMigrator.migrate: it collects its errors and goes on. *)

Phase(r) == IF r = Player THEN "state" ELSE "edits"
Reported(ok) == Count(ok) /\ reportErrors' = (reportErrors \/ ~ ok)

ReadLegacyEdits ==
    /\ pc = "source"
    /\ \E ok \in Outcome("legacy read") :
          /\ Count(ok)
          /\ LET parsed == ok /\ ~ malformed IN
             /\ todo' = IF parsed THEN legacy \ {Player} ELSE {}
             /\ reportErrors' = (reportErrors \/ ~ parsed)
    /\ pc' = "edits"
    /\ UNCHANGED <<store, world, item, columnsTodo, imported, err, healthy, assessment,
                   session, history>>

\* A put is refused, or it resolves; a put that resolves may not have stored
\* the value, which is what the read-back is for.
PutRecord ==
    /\ pc \in {"edits", "state"}
    /\ \E r \in todo, ok \in Outcome("record put"), stored \in Outcome("record stored") :
          /\ ok \/ stored
          /\ item' = r
          /\ Count(ok /\ stored)
          /\ store' = IF ok /\ stored THEN [store EXCEPT !.rec[r] = Legacy] ELSE store
          /\ pc' = IF ok THEN "read back" ELSE "clean up"
    /\ UNCHANGED <<world, todo, columnsTodo, imported, reportErrors, err, healthy, assessment,
                   session, history>>

\* Seeded bug: whatever is read back counts as verified.
ReadBackAnything ==
    /\ pc = "read back"
    /\ imported' = imported \union {item}
    /\ columnsTodo' = columnsTodo \union ({item} \ {Player})
    /\ todo' = todo \ {item}
    /\ pc' = Phase(item)
    /\ UNCHANGED <<store, world, item, reportErrors, err, healthy, assessment, session, faults,
                   history>>

ReadBack ==
    /\ pc = "read back"
    /\ \E ok \in Outcome("record read") :
          /\ Count(ok)
          /\ IF ok /\ store.rec[item] = Legacy
             THEN /\ imported' = imported \union {item}
                  /\ columnsTodo' = columnsTodo \union ({item} \ {Player})
                  /\ todo' = todo \ {item}
                  /\ pc' = Phase(item)
             ELSE pc' = "clean up" /\ UNCHANGED <<imported, columnsTodo, todo>>
    /\ UNCHANGED <<store, world, item, reportErrors, err, healthy, assessment, session, history>>

\* A record that was not verified is deleted, so that it does not pass for
\* migrated; the deletion may be refused as well.
CleanUp ==
    /\ pc = "clean up"
    /\ \E ok \in Outcome("record delete") :
          /\ Count(ok)
          /\ store' = IF ok THEN [store EXCEPT !.rec[item] = 0] ELSE store
    /\ reportErrors' = TRUE
    /\ todo' = todo \ {item}
    /\ pc' = Phase(item)
    /\ UNCHANGED <<world, item, columnsTodo, imported, err, healthy, assessment, session, history>>

\* The compatibility columns; a refused one ends the loop.
PutColumn ==
    /\ pc = "edits" /\ todo = {}
    /\ \E c \in columnsTodo, ok \in Outcome("column put") :
          /\ Reported(ok)
          /\ columnsTodo' = IF ok THEN columnsTodo \ {c} ELSE {}
          /\ store' = IF ok THEN [store EXCEPT !.columns = @ \union {c}] ELSE store
    /\ UNCHANGED <<pc, world, todo, item, imported, err, healthy, assessment, session, history>>

ReadLegacyState ==
    /\ pc = "edits" /\ todo = {} /\ columnsTodo = {}
    /\ \E ok \in Outcome("legacy read") :
          /\ Reported(ok)
          /\ todo' = IF ok THEN legacy \intersect {Player} ELSE {}
    /\ pc' = "state"
    /\ UNCHANGED <<store, world, item, columnsTodo, imported, err, healthy, assessment, session, history>>

\* The completion marker is written only for a report without errors.
SettleMigration ==
    /\ pc = "state" /\ todo = {}
    /\ IF reportErrors
       THEN pc' = "mark attempt" /\ err' = TRUE /\ UNCHANGED <<store, faults>>
       ELSE WriteMarker("migration marker write", "marker", "classify", "mark attempt")
    /\ UNCHANGED <<world, migration, healthy, assessment, session, history>>

MarkAttempt ==
    /\ pc = "mark attempt"
    /\ WriteMarker("migration attempt marker write", "attempted", "classify", "classify")
    /\ unmarked' = (unmarked \/ ~ store'.attempted)
    /\ UNCHANGED <<world, migration, healthy, assessment, session, excused>>

-----------------------------------------------------------------------------
(* Steps 4 to 7: classification, bulk load, startup decision and header. *)

Enumerations == {"world metadata read", "load committed columns", "load committed edits"}
HasDurableEdits == \E c \in Chunks : store.rec[c] # 0

\* Seeded bug: an enumeration that failed counts as empty.
ClassifiedAnyway(seen, uncertainRead) ==
    IF seen = "none" THEN "current"
    ELSE IF seen = "unversioned" THEN "legacy-unknown"
    ELSE IF seen = "current" THEN "current" ELSE "unsupported"

Classified(seen, uncertainRead) ==
    IF uncertainRead THEN "legacy-unknown"
    ELSE CASE seen = "none" -> IF store.columns = {} /\ ~ HasDurableEdits
                               THEN "current" ELSE "legacy-unknown"
           [] seen = "unversioned" -> "legacy-unknown"
           [] seen = "current" -> "current"
           [] OTHER -> "unsupported"

\* A set of refused calls, within the bound.
Refused(calls) == {f \in SUBSET (calls \intersect Faults) : faults + Cardinality(f) <= MaxFaults}

ClassifyBaseline ==
    /\ pc = "classify"
    /\ \E failed \in Refused(Enumerations) :
          LET seen == IF "world metadata read" \in failed THEN "none" ELSE store.header
          IN  /\ existing' = seen
              /\ uncertain' = (failed # {})
              /\ seenColumns' = IF "load committed columns" \in failed THEN {} ELSE store.columns
              /\ baseline' = IF seen = "none" /\ imported # {} THEN "legacy-unknown"
                             ELSE Classified(seen, failed # {})
              /\ err' = (err \/ failed # {} \/ baseline' = "unsupported")
              /\ faults' = faults + Cardinality(failed)
    /\ pc' = "load"
    /\ UNCHANGED <<store, world, migration, healthy, session, history>>

AssessWorldStartup ==
    CASE uncertain -> "recovery-required"
      [] ~ uncertain /\ baseline = "current" -> "current"
      [] OTHER -> IF Coverage \subseteq seenColumns THEN "preserved" ELSE "recovery-required"

Loads == {"load edits", "load player state"}

\* Seeded bug: a failed load is not recorded.
BulkLoadSilently ==
    /\ pc = "load"
    /\ \E failed \in Refused(Loads) :
          /\ loaded' = [r \in Records |->
                          IF (IF r = Player THEN "load player state" ELSE "load edits") \in failed
                          THEN 0 ELSE store.rec[r]]
          /\ faults' = faults + Cardinality(failed)
    /\ mode' = AssessWorldStartup
    /\ pc' = "header"
    /\ UNCHANGED <<store, world, migration, err, healthy, assessment, history>>

BulkLoad ==
    /\ pc = "load"
    /\ \E failed \in Refused(Loads) :
          /\ loaded' = [r \in Records |->
                          IF (IF r = Player THEN "load player state" ELSE "load edits") \in failed
                          THEN 0 ELSE store.rec[r]]
          /\ err' = (err \/ failed # {})
          /\ faults' = faults + Cardinality(failed)
    /\ mode' = AssessWorldStartup
    /\ pc' = "header"
    /\ UNCHANGED <<store, world, migration, healthy, assessment, history>>

\* Seeded bug: every boot stamps its own generator.
HeaderOfBuild == "current"

HeaderToWrite ==
    IF baseline = "current" THEN "current"
    ELSE IF existing \in {"none", "unversioned"} THEN "unversioned" ELSE existing

WriteHeader ==
    /\ pc = "header"
    /\ \E ok \in Outcome("write world metadata") :
          /\ Recorded(ok)
          /\ store' = IF ok THEN [store EXCEPT !.header = HeaderToWrite] ELSE store
    /\ pc' = "playing"
    /\ UNCHANGED <<world, migration, healthy, assessment, session, history>>

Status == IF err \/ ~ healthy THEN "degraded" ELSE "ok"

-----------------------------------------------------------------------------
(* What follows a boot. *)

\* Gameplay saves a record; in recovery it is paused.
SaveRecord(r) ==
    /\ pc = "playing" /\ mode # "recovery-required"
    /\ store.rec[r] < MaxVersion
    /\ LET version == IF store.rec[r] = 0 THEN Legacy + 1 ELSE store.rec[r] + 1
       IN  /\ store' = [store EXCEPT !.rec[r] = version]
           /\ loaded' = [loaded EXCEPT ![r] = version]
    /\ UNCHANGED <<world, pc, migration, err, healthy, assessment, mode, faults, history>>

\* resetCurrentWorld deletes the world's records; the markers have keys of
\* their own and stay.  The page then reloads.
ResetWorld ==
    /\ pc = "playing"
    /\ store' = [store EXCEPT !.rec = EmptyStore.rec, !.columns = {}, !.header = "none"]
    /\ excused' = TRUE
    /\ pc' = "off"
    /\ UNCHANGED <<world, migration, err, healthy, assessment, session, faults, unmarked>>

PageGone ==
    /\ pc # "off"
    /\ pc' = "off"
    /\ UNCHANGED <<store, world, migration, err, healthy, assessment, session, faults, history>>

-----------------------------------------------------------------------------
Gate == ReadMarker \/ MarkSourceless \/ ReadAttempt \/ ProbeDurableState
Migrate == ReadLegacyEdits \/ PutRecord \/ ReadBack \/ CleanUp \/ PutColumn \/ ReadLegacyState
Settle == SettleMigration \/ MarkAttempt
Assess == ClassifyBaseline \/ BulkLoad \/ WriteHeader

OpenNext ==
    \/ Boot \/ OpenRepositories \/ ProbeHealth
    \/ Gate \/ Migrate \/ Settle \/ Assess
    \/ \E r \in Records : SaveRecord(r)
    \/ ResetWorld \/ PageGone

OpenSpec == OpenInit /\ [][OpenNext]_vars

-----------------------------------------------------------------------------
(* Properties. *)

\* The completion marker is never written before every legacy artifact is in
\* the store, whatever fails and wherever the page goes away: a later boot
\* would never look at the legacy snapshot again.
MarkerMeansMigrated ==
    store.marker /\ ~ excused =>
        /\ malformed => legacy \subseteq {Player}
        /\ \A r \in legacy : store.rec[r] >= Legacy

\* A world with saved records that no marker protects from a migration.
Unguarded == unmarked /\ ~ store.marker /\ ~ store.attempted

\* No boot takes a record that gameplay saved back to an older value or deletes
\* it without having recorded an error first, whichever call is refused; only a
\* world that a refused write left without any marker is migrated again unseen
\* (GamePersistence.ts:583, "durable state is authoritative").
ProgressKept ==
    [][pc = "playing" \/ err \/ Unguarded \/
       \A r \in Records : store.rec[r] > Legacy => store'.rec[r] >= store.rec[r]]_vars

\* A boot that reports "ok" plays with what the store holds, and no migration
\* is open: what is missing or uncertain is never silent.
OkMeansComplete ==
    pc = "playing" /\ Status = "ok" => loaded = store.rec /\ store.marker

\* A world is first stamped with the current generator only when the store
\* holds no terrain of it: an enumeration that failed never counts as empty.
StampIsFresh ==
    [][store.header = "none" /\ store'.header = "current" =>
           store.columns = {} /\ ~ HasDurableEdits]_vars

\* A boot changes a header only when it could not read it (it then takes the
\* world for one without a header), and then to one without a version: a stamp
\* may be forgotten, but no boot authorises a generator for a world that has a
\* header, whichever call is refused.
HeaderKept ==
    [][store.header # "none" /\ pc # "playing" /\ store'.header # store.header =>
           existing = "none" /\ store'.header = "unversioned"]_vars
=============================================================================
