-------------------------- MODULE WorldOpen_proofs --------------------------
(***************************************************************************)
(* The safety of the boot of a persisted world, for every set of chunks,   *)
(* every bound on the refused calls and every place where the page may go  *)
(* away.  Whichever calls are refused, but for one theorem: the promise of *)
(* the completion marker needs a marker that is there to be read.          *)
(***************************************************************************)
EXTENDS WorldOpen, TLAPS

Headers == {"none", "unversioned", "current", "other"}

Stores == [rec : [Records -> Nat], columns : SUBSET Chunks, header : Headers,
           marker : BOOLEAN, attempted : BOOLEAN]

OpenTypeOK ==
    /\ store \in Stores
    /\ legacy \subseteq Records
    /\ malformed \in BOOLEAN /\ excused \in BOOLEAN /\ unmarked \in BOOLEAN
    /\ todo \subseteq Records /\ item \in Records /\ columnsTodo \subseteq Chunks
    /\ reportErrors \in BOOLEAN /\ err \in BOOLEAN
    /\ loaded \in [Records -> Nat]
    /\ existing \in Headers

\* The calls of the migration itself, and what comes after it.
Migrating == {"source", "edits", "read back", "clean up", "state"}
Deciding == {"no source", "attempt", "durable", "mark attempt"}
Settled == {"classify", "load", "header", "playing"}

\* Where the running migration is: at the edits, or at the player state.
InEdits == pc = "edits" \/ (pc \in {"read back", "clean up"} /\ item \in Chunks)
InState == pc = "state" \/ (pc \in {"read back", "clean up"} /\ item = Player)

\* Whatever a migration without errors has gone past is in the store.
MigrationInv ==
    /\ pc \in {"read back", "clean up"} => item \in todo
    /\ InEdits => todo \subseteq Chunks
    /\ InState => todo \subseteq {Player}
    /\ (InEdits \/ InState) /\ ~ reportErrors =>
          /\ ~ malformed
          /\ \A c \in legacy \ {Player} : c \in todo \/ store.rec[c] >= Legacy
    /\ InState /\ ~ reportErrors /\ Player \in legacy =>
          Player \in todo \/ store.rec[Player] >= Legacy

\* No migration runs once the marker is there.
MarkerInv == pc \in Migrating \cup Deciding => ~ store.marker

\* Gameplay saves only behind a marker, but for a world that a refused write left
\* without; a boot that goes to the migration without an error has found none of
\* its records.
ProgressInv ==
    /\ pc \in Settled => store.marker \/ store.attempted \/ unmarked
    /\ \A r \in Records : store.rec[r] > Legacy => store.marker \/ store.attempted \/ unmarked
    /\ pc = "durable" => store.attempted
    /\ pc \in Migrating \cup {"no source", "attempt", "durable"} /\ ~ err => ~ store.marker
    /\ pc \in Migrating /\ ~ err /\ ~ Unguarded => \A r \in Records : store.rec[r] <= Legacy

\* What a boot that has recorded no error knows.
OkInv ==
    /\ pc = "mark attempt" => err
    /\ pc \in Settled /\ ~ err => store.marker
    /\ pc \in {"header", "playing"} /\ ~ err => loaded = store.rec

\* What the startup decision means for the header to be written.  A header that
\* was not read passes for none, and the baseline is then uncertain.
FreshInv ==
    pc \in {"load", "header"} =>
        /\ existing \in {"none", store.header}
        /\ baseline = "current" => existing \in {"none", "current"}
        /\ baseline = "current" /\ existing = "none" => store.header = "none"
        /\ baseline = "current" /\ store.header = "none" =>
              store.columns = {} /\ ~ HasDurableEdits

-----------------------------------------------------------------------------
(* Steps. *)

LEMMA OpenInitInv ==
    OpenInit => /\ OpenTypeOK /\ MigrationInv /\ MarkerInv /\ ProgressInv /\ OkInv
                /\ FreshInv /\ MarkerMeansMigrated
<1> SUFFICES ASSUME OpenInit
             PROVE  /\ OpenTypeOK /\ MigrationInv /\ MarkerInv /\ ProgressInv /\ OkInv
                    /\ FreshInv /\ MarkerMeansMigrated
  OBVIOUS
<1>1. OpenTypeOK
  <2>1. EmptyStore \in Stores /\ OldStore \in Stores
    BY OpenAssumption DEF Stores, EmptyStore, OldStore, Headers, Legacy
  <2> QED
    BY <2>1 DEF OpenInit, OpenTypeOK, Records, Headers
<1>2. MigrationInv /\ MarkerInv /\ OkInv /\ FreshInv
  BY DEF OpenInit, MigrationInv, InEdits, InState, MarkerInv, Migrating, Deciding, OkInv,
         Settled, FreshInv
<1>3. ProgressInv
  BY DEF OpenInit, ProgressInv, Migrating, Settled, EmptyStore, OldStore, Legacy
<1>4. MarkerMeansMigrated
  <2>1. ~ EmptyStore.marker
    BY DEF EmptyStore
  <2>2. store = EmptyStore \/ excused
    BY DEF OpenInit
  <2> QED
    BY <2>1, <2>2 DEF MarkerMeansMigrated
<1> QED
  BY <1>1, <1>2, <1>3, <1>4

\* Every answer is a Boolean, and a call that is never refused is served.
LEMMA OutcomeFacts ==
    ASSUME NEW call, NEW ok \in Outcome(call)
    PROVE  ok \in BOOLEAN /\ (call \notin Faults => ok)
  BY DEF Outcome

\* What the updates of the store leave.
LEMMA PutFacts ==
    ASSUME OpenTypeOK, NEW r \in Records, NEW v \in Nat
    PROVE  /\ [store EXCEPT !.rec[r] = v] \in Stores
           /\ [store EXCEPT !.rec[r] = v].rec = [store.rec EXCEPT ![r] = v]
           /\ [store EXCEPT !.rec[r] = v].columns = store.columns
           /\ [store EXCEPT !.rec[r] = v].header = store.header
           /\ [store EXCEPT !.rec[r] = v].marker = store.marker
           /\ [store EXCEPT !.rec[r] = v].attempted = store.attempted
<1>1. [store.rec EXCEPT ![r] = v] \in [Records -> Nat]
  BY DEF OpenTypeOK, Stores
<1> QED
  BY <1>1 DEF OpenTypeOK, Stores

LEMMA LegacyFacts == Legacy \in Nat /\ Legacy >= 0 /\ Legacy >= Legacy /\ Legacy <= Legacy
  BY DEF Legacy

LEMMA LegacyOrder ==
    /\ \A v \in Nat : v <= Legacy <=> ~ (v > Legacy)
    /\ \A v \in Nat : v >= v
    /\ 0 <= Legacy /\ ~ (0 > Legacy)
    /\ Legacy <= Legacy /\ ~ (Legacy > Legacy)
  BY DEF Legacy

\* A save brings a newer version than the store has, and newer than legacy.
LEMMA SaveFacts ==
    ASSUME OpenTypeOK, NEW r \in Records, SaveRecord(r)
    PROVE  \E version \in Nat :
              /\ version > Legacy /\ version >= store.rec[r]
              /\ store' = [store EXCEPT !.rec[r] = version]
              /\ loaded' = [loaded EXCEPT ![r] = version]
              /\ pc = "playing"
              /\ UNCHANGED <<world, pc, migration, err, assessment, history>>
<1> DEFINE version == IF store.rec[r] = 0 THEN Legacy + 1 ELSE store.rec[r] + 1
<1>1. store.rec[r] \in Nat
  BY DEF OpenTypeOK, Stores
<1>2. version \in Nat /\ version > Legacy /\ version >= store.rec[r]
  BY <1>1 DEF Legacy
<1>3. /\ store' = [store EXCEPT !.rec[r] = version]
      /\ loaded' = [loaded EXCEPT ![r] = version]
      /\ pc = "playing"
      /\ UNCHANGED <<world, pc, migration, err, assessment, history>>
  BY DEF SaveRecord
<1> QED
  BY <1>2, <1>3

LEMMA OpenNextType == OpenTypeOK /\ [OpenNext]_vars => OpenTypeOK'
<1> SUFFICES ASSUME OpenTypeOK, [OpenNext]_vars PROVE OpenTypeOK'
  OBVIOUS
<1> USE DEF OpenTypeOK, world, migration, assessment, session, history, Recorded, Reported, Count
<1>1. CASE Boot
  BY <1>1 DEF Boot, Records, Headers
<1>2. CASE OpenRepositories \/ ProbeHealth \/ ReadMarker \/ ReadAttempt \/ ProbeDurableState
  BY <1>2, OutcomeFacts
     DEF OpenRepositories, ProbeHealth, ReadMarker, ReadAttempt, ProbeDurableState
<1>3. ASSUME NEW call, NEW marker \in {"marker", "attempted"}, NEW next, NEW otherwise,
             WriteMarker(call, marker, next, otherwise)
      PROVE  /\ store' \in Stores
             /\ err' \in BOOLEAN
  BY <1>3, OutcomeFacts DEF WriteMarker, Stores
<1>4. CASE MarkSourceless
  BY <1>3, <1>4 DEF MarkSourceless
<1>5. CASE SettleMigration
  BY <1>3, <1>5 DEF SettleMigration
<1>6. CASE MarkAttempt
  BY <1>3, <1>6 DEF MarkAttempt
<1>7. CASE ReadLegacyEdits \/ ReadLegacyState
  BY <1>7, OutcomeFacts DEF ReadLegacyEdits, ReadLegacyState
<1>8. CASE PutRecord
  <2>1. PICK r \in todo, ok \in Outcome("record put"), stored \in Outcome("record stored") :
           /\ item' = r
           /\ store' = IF ok /\ stored THEN [store EXCEPT !.rec[r] = Legacy] ELSE store
           /\ UNCHANGED <<world, todo, columnsTodo, imported, reportErrors, err, healthy,
                          assessment, session, history>>
    BY <1>8 DEF PutRecord
  <2>2. r \in Records
    OBVIOUS
  <2>3. [store EXCEPT !.rec[r] = Legacy] \in Stores
    BY <2>2, PutFacts DEF Legacy
  <2> QED
    BY <2>1, <2>2, <2>3
<1>9. CASE ReadBack
  BY <1>9 DEF ReadBack, Records
<1>10. CASE CleanUp
  <2>1. [store EXCEPT !.rec[item] = 0] \in Stores
    BY PutFacts
  <2> QED
    BY <1>10, <2>1 DEF CleanUp
<1>11. CASE PutColumn
  <2>1. PICK c \in columnsTodo, ok \in Outcome("column put") :
           /\ reportErrors' = (reportErrors \/ ~ ok)
           /\ columnsTodo' = IF ok THEN columnsTodo \ {c} ELSE {}
           /\ store' = IF ok THEN [store EXCEPT !.columns = @ \union {c}] ELSE store
           /\ UNCHANGED <<world, todo, item, err, assessment, session, history>>
    BY <1>11 DEF PutColumn
  <2>2. store' \in Stores
    BY <2>1 DEF Stores
  <2> QED
    BY <2>1, <2>2
<1>12. CASE ClassifyBaseline
  BY <1>12 DEF ClassifyBaseline, Stores, Headers
<1>13. CASE BulkLoad
  <2>1. loaded' \in [Records -> Nat]
    <3>1. \A r \in Records : store.rec[r] \in Nat
      BY DEF Stores
    <3>2. PICK failed \in Refused(Loads) :
             loaded' = [r \in Records |->
                          IF (IF r = Player THEN "load player state" ELSE "load edits") \in failed
                          THEN 0 ELSE store.rec[r]]
      BY <1>13 DEF BulkLoad
    <3> QED
      BY <3>1, <3>2
  <2>2. err' \in BOOLEAN /\ UNCHANGED <<store, world, migration, assessment, history>>
    BY <1>13 DEF BulkLoad
  <2> QED
    BY <2>1, <2>2
<1>14. CASE WriteHeader
  <2>1. [store EXCEPT !.header = HeaderToWrite] \in Stores
    BY DEF Stores, HeaderToWrite, Headers
  <2> QED
    BY <1>14, <2>1, OutcomeFacts DEF WriteHeader
<1>15. CASE \E r \in Records : SaveRecord(r)
  <2>1. PICK r \in Records : SaveRecord(r)
    BY <1>15
  <2>2. PICK version \in Nat :
           /\ store' = [store EXCEPT !.rec[r] = version]
           /\ loaded' = [loaded EXCEPT ![r] = version]
           /\ UNCHANGED <<world, migration, err, assessment, history>>
    BY <2>1, SaveFacts
  <2>3. [store EXCEPT !.rec[r] = version] \in Stores
    BY PutFacts
  <2> QED
    BY <2>2, <2>3
<1>16. CASE ResetWorld
  <2>1. store' \in Stores
    BY <1>16 DEF ResetWorld, EmptyStore, Headers, Stores
  <2> QED
    BY <1>16, <2>1 DEF ResetWorld
<1>17. CASE PageGone \/ UNCHANGED vars
  BY <1>17 DEF PageGone, vars
<1> QED
  BY <1>1, <1>2, <1>4, <1>5, <1>6, <1>7, <1>8, <1>9, <1>10, <1>11, <1>12, <1>13, <1>14, <1>15,
     <1>16, <1>17
     DEF OpenNext, Gate, Migrate, Settle, Assess

\* A boot without a recorded error has a settled migration, and plays with
\* what it loaded.
LEMMA OpenNextOk == OpenTypeOK /\ OkInv /\ [OpenNext]_vars => OkInv'
<1> SUFFICES ASSUME OpenTypeOK, OkInv, [OpenNext]_vars PROVE OkInv'
  OBVIOUS
<1> USE DEF OkInv, Settled, world, migration, assessment, session, history, Recorded
<1>1. CASE Boot \/ OpenRepositories \/ ProbeHealth
  BY <1>1 DEF Boot, OpenRepositories, ProbeHealth
<1>2. CASE Gate
  BY <1>2 DEF Gate, ReadMarker, MarkSourceless, WriteMarker, ReadAttempt, ProbeDurableState,
              OpenTypeOK, Stores
<1>3. CASE Migrate
  BY <1>3 DEF Migrate, ReadLegacyEdits, PutRecord, ReadBack, CleanUp, Phase, PutColumn,
              ReadLegacyState
<1>4. CASE SettleMigration
  BY <1>4 DEF SettleMigration, WriteMarker, OpenTypeOK, Stores
<1>5. CASE MarkAttempt
  BY <1>5 DEF MarkAttempt, WriteMarker
<1>6. CASE ClassifyBaseline
  BY <1>6 DEF ClassifyBaseline
<1>7. CASE BulkLoad
  <2>1. PICK failed \in Refused(Loads) :
           /\ loaded' = [r \in Records |->
                           IF (IF r = Player THEN "load player state" ELSE "load edits") \in failed
                           THEN 0 ELSE store.rec[r]]
           /\ err' = (err \/ failed # {})
    BY <1>7 DEF BulkLoad
  <2>2. failed = {} => loaded' = [r \in Records |-> store.rec[r]]
    BY <2>1
  <2>3. store.rec = [r \in Records |-> store.rec[r]]
    BY DEF OpenTypeOK, Stores
  <2>4. ~ err' => loaded' = store.rec /\ ~ err
    <3>1. ~ err' => failed = {} /\ ~ err
      BY <2>1
    <3> QED
      BY <2>2, <2>3, <3>1
  <2> QED
    BY <1>7, <2>4 DEF BulkLoad
<1>8. CASE WriteHeader
  BY <1>8 DEF WriteHeader, OpenTypeOK, Stores
<1>9. CASE \E r \in Records : SaveRecord(r)
  <2>1. PICK r \in Records : SaveRecord(r)
    BY <1>9
  <2>2. PICK version \in Nat :
           /\ store' = [store EXCEPT !.rec[r] = version]
           /\ loaded' = [loaded EXCEPT ![r] = version]
           /\ pc = "playing" /\ UNCHANGED <<pc, err>>
    BY <2>1, SaveFacts
  <2>3. store'.rec = [store.rec EXCEPT ![r] = version] /\ store'.marker = store.marker
    BY <2>2, PutFacts
  <2> QED
    BY <2>2, <2>3
<1>10. CASE ResetWorld \/ PageGone \/ UNCHANGED vars
  BY <1>10 DEF ResetWorld, PageGone, vars
<1> QED
  BY <1>1, <1>2, <1>3, <1>4, <1>5, <1>6, <1>7, <1>8, <1>9, <1>10 DEF OpenNext, Settle, Assess

\* Between the classification and the header the store stays as it was read.
LEMMA OpenNextFresh == OpenTypeOK /\ FreshInv /\ [OpenNext]_vars => FreshInv'
<1> SUFFICES ASSUME OpenTypeOK, FreshInv, [OpenNext]_vars PROVE FreshInv'
  OBVIOUS
<1> USE DEF FreshInv, HasDurableEdits, world, migration, assessment, session, history
<1>1. CASE Boot \/ OpenRepositories \/ ProbeHealth \/ Gate \/ Settle
  BY <1>1 DEF Boot, OpenRepositories, ProbeHealth, Gate, ReadMarker, MarkSourceless, WriteMarker,
              ReadAttempt, ProbeDurableState, Settle, SettleMigration, MarkAttempt
<1>2. CASE Migrate
  BY <1>2 DEF Migrate, ReadLegacyEdits, PutRecord, ReadBack, CleanUp, Phase, PutColumn,
              ReadLegacyState
<1>3. CASE ClassifyBaseline
  <2>1. PICK failed \in Refused(Enumerations) :
           LET seen == IF "world metadata read" \in failed THEN "none" ELSE store.header
           IN  /\ existing' = seen
               /\ baseline' = IF seen = "none" /\ imported # {} THEN "legacy-unknown"
                              ELSE Classified(seen, failed # {})
    BY <1>3 DEF ClassifyBaseline
  <2>2. store' = store
    BY <1>3 DEF ClassifyBaseline
  <2>3. CASE failed # {}
    <3>1. baseline' = "legacy-unknown" /\ existing' \in {"none", store.header}
      BY <2>1, <2>3 DEF Classified
    <3> QED
      BY <2>2, <3>1
  <2>4. CASE failed = {}
    <3>1. existing' = store.header
      BY <2>1, <2>4
    <3>2. baseline' = "current" => existing' \in {"none", "current"}
      BY <2>1, <2>4 DEF Classified
    <3>3. baseline' = "current" /\ existing' = "none" => store.columns = {} /\ ~ HasDurableEdits
      BY <2>1, <2>4 DEF Classified
    <3> QED
      BY <2>2, <3>1, <3>2, <3>3
  <2> QED
    BY <2>3, <2>4
<1>4. CASE BulkLoad
  BY <1>4 DEF BulkLoad
<1>5. CASE WriteHeader \/ (\E r \in Records : SaveRecord(r)) \/ ResetWorld \/ PageGone
  BY <1>5 DEF WriteHeader, SaveRecord, ResetWorld, PageGone
<1>6. CASE UNCHANGED vars
  BY <1>6 DEF vars
<1> QED
  BY <1>1, <1>2, <1>3, <1>4, <1>5, <1>6 DEF OpenNext, Assess

\* The steps outside of the migration's reads, writes and deletions: the
\* records stay, or gameplay saves a newer one, or the player resets.
LEMMA RecordSteps ==
    ASSUME OpenTypeOK, [OpenNext]_vars
    PROVE  \/ UNCHANGED store.rec
           \/ /\ pc = "playing" /\ UNCHANGED <<pc, store.marker, store.attempted, excused, world>>
              /\ \A r \in Records : store'.rec[r] >= store.rec[r]
           \/ ResetWorld
           \/ PutRecord
           \/ CleanUp
<1> USE DEF world, migration, assessment, session, history
<1>1. CASE Boot \/ OpenRepositories \/ ProbeHealth \/ Assess \/ PageGone
  BY <1>1 DEF Boot, OpenRepositories, ProbeHealth, Assess, ClassifyBaseline, BulkLoad,
              WriteHeader, PageGone, OpenTypeOK, Stores
<1>2. CASE Gate \/ Settle
  BY <1>2 DEF Gate, ReadMarker, MarkSourceless, WriteMarker, ReadAttempt, ProbeDurableState,
              Settle, SettleMigration, MarkAttempt, OpenTypeOK, Stores
<1>3. CASE ReadLegacyEdits \/ ReadBack \/ PutColumn \/ ReadLegacyState
  BY <1>3 DEF ReadLegacyEdits, ReadBack, PutColumn, ReadLegacyState, OpenTypeOK, Stores
<1>4. CASE \E r \in Records : SaveRecord(r)
  <2>1. PICK r \in Records : SaveRecord(r)
    BY <1>4
  <2>2. PICK version \in Nat :
           /\ version >= store.rec[r]
           /\ store' = [store EXCEPT !.rec[r] = version]
           /\ pc = "playing" /\ UNCHANGED <<pc, excused, world>>
    BY <2>1, SaveFacts
  <2>3. /\ store'.rec = [store.rec EXCEPT ![r] = version]
        /\ UNCHANGED <<store.marker, store.attempted>>
    BY <2>2, PutFacts
  <2>4. \A q \in Records : store'.rec[q] >= store.rec[q]
    BY <2>2, <2>3 DEF OpenTypeOK, Stores
  <2> QED
    BY <2>2, <2>3, <2>4
<1>5. CASE UNCHANGED vars
  BY <1>5 DEF vars
<1> QED
  BY <1>1, <1>2, <1>3, <1>4, <1>5 DEF OpenNext, Migrate

\* A put of the migration stores the legacy value or nothing, and only while
\* it runs; a clean-up deletes the record it put.
LEMMA PutSteps ==
    ASSUME OpenTypeOK, MigrationInv, PutRecord \/ CleanUp
    PROVE  /\ pc \in Migrating
           /\ UNCHANGED <<store.marker, store.attempted, excused, world>>
           /\ \E r \in todo, version \in {0, Legacy} :
                 store' = store \/ store'.rec = [store.rec EXCEPT ![r] = version]
<1> USE DEF world, migration, assessment, session, history, Migrating
<1>1. CASE PutRecord
  <2>1. PICK r \in todo, ok \in Outcome("record put"), stored \in Outcome("record stored") :
           store' = IF ok /\ stored THEN [store EXCEPT !.rec[r] = Legacy] ELSE store
    BY <1>1 DEF PutRecord
  <2>2. pc \in {"edits", "state"} /\ UNCHANGED <<excused, world>>
    BY <1>1 DEF PutRecord
  <2>3. r \in Records /\ Legacy \in Nat
    BY DEF OpenTypeOK, Legacy
  <2> QED
    BY <2>1, <2>2, <2>3, PutFacts
<1>2. CASE CleanUp
  <2>1. pc = "clean up" /\ UNCHANGED <<excused, world>>
        /\ (store' = store \/ store' = [store EXCEPT !.rec[item] = 0])
    BY <1>2 DEF CleanUp
  <2>2. item \in Records /\ item \in todo
    BY <2>1 DEF OpenTypeOK, MigrationInv
  <2>3. LET s == [store EXCEPT !.rec[item] = 0]
        IN  /\ s.rec = [store.rec EXCEPT ![item] = 0]
            /\ s.marker = store.marker /\ s.attempted = store.attempted
    BY <2>2, PutFacts
  <2> QED
    BY <2>1, <2>2, <2>3
<1> QED
  BY <1>1, <1>2

\* No step of the migration but a clean-up loses a record, and a clean-up
\* leaves an error in the report.
LEMMA OpenNextMigration == OpenTypeOK /\ MigrationInv /\ [OpenNext]_vars => MigrationInv'
<1> SUFFICES ASSUME OpenTypeOK, MigrationInv, [OpenNext]_vars PROVE MigrationInv'
  OBVIOUS
<1> USE DEF MigrationInv, InEdits, InState, world, migration, assessment, session, history
<1>1. CASE Boot \/ OpenRepositories \/ ProbeHealth \/ Gate \/ Settle
  BY <1>1 DEF Boot, OpenRepositories, ProbeHealth, Gate, ReadMarker, MarkSourceless, WriteMarker,
              ReadAttempt, ProbeDurableState, Settle, SettleMigration, MarkAttempt
<1>2. CASE Assess \/ ResetWorld \/ PageGone \/ (\E r \in Records : SaveRecord(r))
  BY <1>2 DEF Assess, ClassifyBaseline, BulkLoad, WriteHeader, ResetWorld, PageGone, SaveRecord
<1>3. CASE UNCHANGED vars
  BY <1>3 DEF vars
<1>4. CASE ReadLegacyEdits
  BY <1>4, OpenAssumption DEF ReadLegacyEdits, OpenTypeOK, Records
<1>5. CASE ReadLegacyState
  BY <1>5, OpenAssumption, OutcomeFacts DEF ReadLegacyState, Reported, OpenTypeOK, Records
<1>6. CASE PutColumn
  BY <1>6, OutcomeFacts DEF PutColumn, Reported, OpenTypeOK, Stores
<1>7. CASE PutRecord
  <2>1. PICK r \in todo, ok \in Outcome("record put"), stored \in Outcome("record stored") :
           /\ item' = r
           /\ store' = IF ok /\ stored THEN [store EXCEPT !.rec[r] = Legacy] ELSE store
           /\ pc' \in {"read back", "clean up"}
           /\ UNCHANGED <<world, todo, reportErrors>>
    BY <1>7 DEF PutRecord
  <2>2. r \in Records /\ Legacy \in Nat
    BY DEF OpenTypeOK, Legacy
  <2>3. store' = store \/ store'.rec = [store.rec EXCEPT ![r] = Legacy]
    BY <2>1, <2>2, PutFacts
  <2>4. \A q \in Records : q # r => store'.rec[q] = store.rec[q]
    BY <2>3 DEF OpenTypeOK, Stores
  <2>5. pc \in {"edits", "state"} /\ (r \in Chunks <=> pc = "edits")
    BY <1>7, <2>2, OpenAssumption DEF PutRecord, Records
  <2> QED
    BY <2>1, <2>2, <2>4, <2>5, OpenAssumption DEF Records, OpenTypeOK
<1>8. CASE ReadBack
  <2>1. item \in Chunks <=> item # Player
    BY OpenAssumption DEF OpenTypeOK, Records
  <2>2. UNCHANGED <<store, world, item, reportErrors>>
    BY <1>8 DEF ReadBack
  <2>3. \/ /\ store.rec[item] = Legacy /\ todo' = todo \ {item} /\ pc' = Phase(item)
        \/ pc' = "clean up" /\ UNCHANGED todo
    BY <1>8 DEF ReadBack
  <2>4. pc = "read back"
    BY <1>8 DEF ReadBack
  <2>5. CASE store.rec[item] = Legacy /\ todo' = todo \ {item} /\ pc' = Phase(item)
    <3>1. store.rec[item] >= Legacy
      BY <2>5, LegacyFacts
    <3>2. CASE item = Player
      BY <2>1, <2>2, <2>4, <2>5, <3>1, <3>2 DEF Phase
    <3>3. CASE item \in Chunks
      BY <2>1, <2>2, <2>4, <2>5, <3>1, <3>3 DEF Phase
    <3> QED
      BY <2>1, <3>2, <3>3 DEF OpenTypeOK, Records
  <2>6. CASE pc' = "clean up" /\ UNCHANGED todo
    BY <2>2, <2>4, <2>6
  <2> QED
    BY <2>3, <2>5, <2>6
<1>9. CASE CleanUp
  <2>1. item \in Chunks <=> item # Player
    BY OpenAssumption DEF OpenTypeOK, Records
  <2> QED
    BY <1>9, <2>1 DEF CleanUp, Phase
<1> QED
  BY <1>1, <1>2, <1>3, <1>4, <1>5, <1>6, <1>7, <1>8, <1>9 DEF OpenNext, Migrate

\* With its read served, the marker keeps every later boot out of the migration.
LEMMA OpenNextMarker ==
    ASSUME "migration marker read" \notin Faults
    PROVE  OpenTypeOK /\ MarkerInv /\ [OpenNext]_vars => MarkerInv'
<1> SUFFICES ASSUME OpenTypeOK, MarkerInv, [OpenNext]_vars PROVE MarkerInv'
  OBVIOUS
<1> USE DEF MarkerInv, Migrating, Deciding, world, migration, assessment, session, history
<1>1. CASE Boot \/ OpenRepositories \/ ProbeHealth \/ ReadAttempt \/ ProbeDurableState
  BY <1>1 DEF Boot, OpenRepositories, ProbeHealth, ReadAttempt, ProbeDurableState
<1>2. CASE ReadMarker
  BY <1>2, OutcomeFacts DEF ReadMarker
<1>3. CASE MarkSourceless \/ SettleMigration \/ MarkAttempt
  BY <1>3 DEF MarkSourceless, WriteMarker, SettleMigration, MarkAttempt
<1>4. CASE ReadLegacyEdits \/ ReadBack \/ PutColumn \/ ReadLegacyState
  BY <1>4 DEF ReadLegacyEdits, ReadBack, Phase, PutColumn, ReadLegacyState, OpenTypeOK, Stores
<1>5. CASE PutRecord
  <2>1. UNCHANGED store.marker
    <3>1. PICK r \in todo : store' = store \/ store' = [store EXCEPT !.rec[r] = Legacy]
      BY <1>5 DEF PutRecord
    <3>2. r \in Records /\ Legacy \in Nat
      BY DEF OpenTypeOK, Legacy
    <3> QED
      BY <3>1, <3>2, PutFacts
  <2> QED
    BY <1>5, <2>1 DEF PutRecord
<1>6. CASE CleanUp
  <2>1. UNCHANGED store.marker
    <3>1. store' = store \/ store' = [store EXCEPT !.rec[item] = 0]
      BY <1>6 DEF CleanUp
    <3>2. item \in Records
      BY DEF OpenTypeOK
    <3>3. [store EXCEPT !.rec[item] = 0].marker = store.marker
      BY <3>2, PutFacts
    <3> QED
      BY <3>1, <3>3
  <2> QED
    BY <1>6, <2>1 DEF CleanUp
<1>7. CASE Assess \/ ResetWorld \/ PageGone \/ (\E r \in Records : SaveRecord(r))
  BY <1>7 DEF Assess, ClassifyBaseline, BulkLoad, WriteHeader, ResetWorld, PageGone, SaveRecord
<1>8. CASE UNCHANGED vars
  BY <1>8 DEF vars
<1> QED
  BY <1>1, <1>2, <1>3, <1>4, <1>5, <1>6, <1>7, <1>8 DEF OpenNext, Gate, Migrate, Settle

\* Until a marker is there, nothing is in the store but legacy values, unless a
\* refused write left none; once one is there, a migration starts only in a boot
\* that has recorded an error.
LEMMA OpenNextProgress ==
    OpenTypeOK /\ MigrationInv /\ ProgressInv /\ [OpenNext]_vars => ProgressInv'
<1> SUFFICES ASSUME OpenTypeOK, MigrationInv, ProgressInv, [OpenNext]_vars
             PROVE  ProgressInv'
  OBVIOUS
<1> USE DEF ProgressInv, Settled, Migrating, Unguarded, world, migration, assessment, session,
            history
<1>r. \A r \in Records : store.rec[r] \in Nat
  BY DEF OpenTypeOK, Stores
<1>1. CASE Boot \/ ProbeHealth
  BY <1>1 DEF Boot, ProbeHealth
<1>2. CASE OpenRepositories
  <2>1. /\ UNCHANGED store
        /\ pc' = "probe" \/ (pc' = "playing" /\ unmarked')
        /\ unmarked => unmarked'
    BY <1>2 DEF OpenRepositories
  <2> QED
    BY <2>1
<1>3. CASE ReadMarker
  <2>1. /\ UNCHANGED <<store, unmarked>>
        /\ \/ pc' = "classify" /\ store.marker
           \/ pc' \in {"attempt", "no source"} /\ (err' \/ ~ store.marker)
    BY <1>3, OutcomeFacts DEF ReadMarker, Recorded
  <2> QED
    BY <2>1
<1>4. CASE MarkSourceless
  <2>1. /\ pc' = "classify" /\ unmarked' = (unmarked \/ ~ store'.marker)
        /\ store'.rec = store.rec /\ store'.attempted = store.attempted
        /\ store.marker => store'.marker
    BY <1>4 DEF MarkSourceless, WriteMarker, OpenTypeOK, Stores
  <2> QED
    BY <2>1
<1>5. CASE ReadAttempt
  <2>1. /\ pc = "attempt" /\ UNCHANGED <<store, unmarked>>
        /\ \/ pc' = "durable" /\ store.attempted
           \/ pc' = "source" /\ (err' \/ ~ store.attempted)
        /\ err => err'
    BY <1>5, OutcomeFacts DEF ReadAttempt, Recorded
  <2>2. ~ err => ~ store.marker
    BY <2>1
  <2>3. ~ store.marker /\ ~ store.attempted /\ ~ unmarked =>
           \A r \in Records : store.rec[r] <= Legacy
    BY <1>r, LegacyOrder
  <2> QED
    BY <2>1, <2>2, <2>3
<1>6. CASE ProbeDurableState
  <2>1. /\ UNCHANGED <<store, unmarked>> /\ pc = "durable"
        /\ err => err'
        /\ \/ pc' = "classify"
           \/ pc' = "source" /\ (err' \/ ~ HasDurableState)
    BY <1>6, OutcomeFacts DEF ProbeDurableState
  <2>2. ~ HasDurableState => \A r \in Records : store.rec[r] <= Legacy
    BY <1>r, LegacyOrder DEF HasDurableState
  <2> QED
    BY <2>1, <2>2
<1>7. CASE SettleMigration
  <2>1. /\ store'.rec = store.rec /\ store'.attempted = store.attempted /\ UNCHANGED unmarked
        /\ \/ pc' = "mark attempt" /\ UNCHANGED store.marker
           \/ pc' = "classify" /\ store'.marker
    BY <1>7 DEF SettleMigration, WriteMarker, OpenTypeOK, Stores
  <2> QED
    BY <2>1
<1>8. CASE MarkAttempt
  <2>1. /\ pc' = "classify" /\ unmarked' = (unmarked \/ ~ store'.attempted)
        /\ store'.rec = store.rec /\ store'.marker = store.marker
        /\ store.attempted => store'.attempted
    BY <1>8 DEF MarkAttempt, WriteMarker, OpenTypeOK, Stores
  <2> QED
    BY <2>1
<1>9. CASE ReadLegacyEdits \/ ReadBack \/ PutColumn \/ ReadLegacyState
  BY <1>9 DEF ReadLegacyEdits, ReadBack, Phase, PutColumn, ReadLegacyState, OpenTypeOK, Stores
<1>10. CASE PutRecord \/ CleanUp
  <2>1. /\ pc \in Migrating
        /\ UNCHANGED <<store.marker, store.attempted, err, unmarked>>
    BY <1>10, PutSteps DEF PutRecord, CleanUp
  <2>2. PICK r \in todo, version \in {0, Legacy} :
           store' = store \/ store'.rec = [store.rec EXCEPT ![r] = version]
    BY <1>10, PutSteps
  <2>3. ASSUME NEW q \in Records
        PROVE  \/ store'.rec[q] = store.rec[q]
               \/ store'.rec[q] <= Legacy /\ ~ (store'.rec[q] > Legacy)
    <3>1. store'.rec[q] = store.rec[q] \/ store'.rec[q] \in {0, Legacy}
      BY <2>2 DEF OpenTypeOK, Stores
    <3> QED
      BY <3>1, LegacyOrder
  <2>4. pc' \in Migrating
    BY <1>10 DEF PutRecord, CleanUp, Phase
  <2> QED
    BY <2>1, <2>3, <2>4
<1>11. CASE Assess
  <2>1. UNCHANGED <<store.rec, store.marker, store.attempted, unmarked>>
    BY <1>11 DEF Assess, ClassifyBaseline, BulkLoad, WriteHeader, OpenTypeOK, Stores
  <2>2. pc \in Settled /\ pc' \in Settled /\ pc' \notin Migrating
    BY <1>11 DEF Assess, ClassifyBaseline, BulkLoad, WriteHeader
  <2> QED
    BY <2>1, <2>2
<1>12. CASE \E r \in Records : SaveRecord(r)
  <2>1. PICK r \in Records : SaveRecord(r)
    BY <1>12
  <2>2. PICK version \in Nat : store' = [store EXCEPT !.rec[r] = version]
    BY <2>1, SaveFacts
  <2>3. UNCHANGED <<store.marker, store.attempted>>
    BY <2>2, PutFacts
  <2>4. pc = "playing" /\ UNCHANGED <<pc, unmarked>>
    BY <2>1 DEF SaveRecord
  <2> QED
    BY <2>3, <2>4
<1>13. CASE ResetWorld
  BY <1>13 DEF ResetWorld, EmptyStore, OpenTypeOK, Stores, Legacy
<1>14. CASE PageGone \/ UNCHANGED vars
  BY <1>14 DEF PageGone, vars
<1> QED
  BY <1>1, <1>2, <1>3, <1>4, <1>5, <1>6, <1>7, <1>8, <1>9, <1>10, <1>11, <1>12, <1>13, <1>14
     DEF OpenNext, Gate, Migrate, Settle, Assess

\* The marker is written when everything is in the store, and nothing but the
\* player's reset loses a record after that.
LEMMA OpenNextMeans ==
    OpenTypeOK /\ MigrationInv /\ MarkerInv /\ MarkerMeansMigrated /\ [OpenNext]_vars
    => MarkerMeansMigrated'
<1> SUFFICES ASSUME OpenTypeOK, MigrationInv, MarkerInv, MarkerMeansMigrated, [OpenNext]_vars,
                    store'.marker, ~ excused'
             PROVE  /\ malformed' => legacy' \subseteq {Player}
                    /\ \A r \in legacy' : store'.rec[r] >= Legacy
  BY DEF MarkerMeansMigrated
<1>r. /\ \A r \in Records : store.rec[r] \in Nat
      /\ legacy \subseteq Records
  BY DEF OpenTypeOK, Stores
<1>w. UNCHANGED <<legacy, malformed>>
  BY DEF OpenNext, Boot, OpenRepositories, ProbeHealth, Gate, ReadMarker, MarkSourceless,
         WriteMarker, ReadAttempt, ProbeDurableState, Migrate, ReadLegacyEdits, PutRecord,
         ReadBack, CleanUp, PutColumn, ReadLegacyState, Settle, SettleMigration, MarkAttempt,
         Assess, ClassifyBaseline, BulkLoad, WriteHeader, SaveRecord, ResetWorld, PageGone,
         vars, world
<1>1. CASE SettleMigration /\ ~ store.marker
  <2>1. pc = "state" /\ todo = {} /\ ~ reportErrors /\ store'.rec = store.rec
    BY <1>1 DEF SettleMigration, WriteMarker, OpenTypeOK, Stores
  <2> QED
    BY <1>w, <2>1 DEF MigrationInv, InState
<1>2. CASE ~ SettleMigration /\ ~ store.marker
  <2>1. UNCHANGED store.marker \/ excused'
    BY <1>2, PutSteps
    DEF OpenNext, Boot, OpenRepositories, ProbeHealth, Gate, ReadMarker, MarkSourceless,
         WriteMarker, ReadAttempt, ProbeDurableState, Migrate, ReadLegacyEdits,
         ReadBack, PutColumn, ReadLegacyState, Settle, MarkAttempt,
         Assess, ClassifyBaseline, BulkLoad, WriteHeader, SaveRecord, ResetWorld, PageGone,
         vars, OpenTypeOK, Stores
  <2> QED
    BY <1>2, <2>1
<1>3. CASE store.marker
  <2>1. ~ PutRecord /\ ~ CleanUp /\ ~ ResetWorld
    BY <1>3, PutSteps DEF MarkerInv, ResetWorld
  <2>2. ~ excused
    BY DEF OpenNext, Boot, OpenRepositories, ProbeHealth, Gate, ReadMarker, MarkSourceless,
         ReadAttempt, ProbeDurableState, Migrate, ReadLegacyEdits, PutRecord,
         ReadBack, CleanUp, PutColumn, ReadLegacyState, Settle, SettleMigration, MarkAttempt,
         Assess, ClassifyBaseline, BulkLoad, WriteHeader, SaveRecord, ResetWorld, PageGone,
         vars, history, OpenTypeOK
  <2>3. \A r \in Records : store'.rec[r] >= store.rec[r]
    <3>1. CASE UNCHANGED store.rec
      BY <1>r, <3>1
    <3> QED
      BY <2>1, <3>1, RecordSteps
  <2>4. \A r \in Records : store'.rec[r] \in Nat
    BY OpenNextType DEF OpenTypeOK, Stores
  <2> QED
    BY <1>3, <1>r, <1>w, <2>2, <2>3, <2>4 DEF MarkerMeansMigrated, Legacy
<1> QED
  BY <1>1, <1>2, <1>3

\* Only the write of a boot and the player's reset change the header.
LEMMA HeaderSteps ==
    ASSUME OpenTypeOK, [OpenNext]_vars
    PROVE  UNCHANGED store.header \/ WriteHeader \/ ResetWorld
<1>1. CASE Boot \/ OpenRepositories \/ ProbeHealth \/ PageGone \/ ClassifyBaseline \/ BulkLoad
  BY <1>1 DEF Boot, OpenRepositories, ProbeHealth, PageGone, ClassifyBaseline, BulkLoad
<1>2. CASE Gate \/ Settle
  BY <1>2 DEF Gate, ReadMarker, MarkSourceless, WriteMarker, ReadAttempt, ProbeDurableState,
              Settle, SettleMigration, MarkAttempt, OpenTypeOK, Stores
<1>3. CASE ReadLegacyEdits \/ ReadBack \/ PutColumn \/ ReadLegacyState
  BY <1>3 DEF ReadLegacyEdits, ReadBack, PutColumn, ReadLegacyState, OpenTypeOK, Stores
<1>4. CASE PutRecord
  <2>1. PICK r \in todo : store' = store \/ store' = [store EXCEPT !.rec[r] = Legacy]
    BY <1>4 DEF PutRecord
  <2>2. r \in Records /\ Legacy \in Nat
    BY DEF OpenTypeOK, Legacy
  <2> QED
    BY <2>1, <2>2, PutFacts
<1>5. CASE CleanUp
  <2>1. store' = store \/ store' = [store EXCEPT !.rec[item] = 0]
    BY <1>5 DEF CleanUp
  <2>2. item \in Records
    BY DEF OpenTypeOK
  <2> QED
    BY <2>1, <2>2, PutFacts
<1>6. CASE \E r \in Records : SaveRecord(r)
  <2>1. PICK r \in Records : SaveRecord(r)
    BY <1>6
  <2>2. PICK version \in Nat : store' = [store EXCEPT !.rec[r] = version]
    BY <2>1, SaveFacts
  <2> QED
    BY <2>2, PutFacts
<1>7. CASE UNCHANGED vars
  BY <1>7 DEF vars
<1> QED
  BY <1>1, <1>2, <1>3, <1>4, <1>5, <1>6, <1>7 DEF OpenNext, Migrate, Assess

-----------------------------------------------------------------------------
(* Theorems. *)

\* A boot that reports "ok" plays with what the store holds and has no open
\* migration, whichever of its calls are refused.
THEOREM OkIsComplete == OpenSpec => []OkMeansComplete
<1>1. OpenInit => OpenTypeOK /\ OkInv
  BY OpenInitInv
<1>2. OpenTypeOK /\ OkInv /\ [OpenNext]_vars => (OpenTypeOK /\ OkInv)'
  BY OpenNextType, OpenNextOk
<1>3. OkInv => OkMeansComplete
  BY DEF OkInv, OkMeansComplete, Status, Settled
<1> QED
  BY <1>1, <1>2, <1>3, PTL DEF OpenSpec

\* A world is first stamped with the current generator only when the store
\* holds no terrain of it, whichever of the boot's reads are refused.
THEOREM StampsAreFresh == OpenSpec => StampIsFresh
<1>1. OpenInit => OpenTypeOK /\ FreshInv
  BY OpenInitInv
<1>2. OpenTypeOK /\ FreshInv /\ [OpenNext]_vars => (OpenTypeOK /\ FreshInv)'
  BY OpenNextType, OpenNextFresh
<1>3. OpenTypeOK /\ FreshInv /\ [OpenNext]_vars =>
         [store.header = "none" /\ store'.header = "current" =>
             store.columns = {} /\ ~ HasDurableEdits]_vars
  <2> SUFFICES ASSUME OpenTypeOK, FreshInv, [OpenNext]_vars,
                      store.header = "none", store'.header = "current"
               PROVE  store.columns = {} /\ ~ HasDurableEdits
    OBVIOUS
  <2>1. ~ ResetWorld
    BY DEF ResetWorld, OpenTypeOK, Stores
  <2>2. WriteHeader
    BY <2>1, HeaderSteps
  <2>3. HeaderToWrite = "current" /\ pc = "header"
    BY <2>2 DEF WriteHeader, OpenTypeOK, Stores
  <2>4. baseline = "current" \/ existing = "current"
    BY <2>3 DEF HeaderToWrite
  <2> QED
    BY <2>3, <2>4 DEF FreshInv
<1> QED
  BY <1>1, <1>2, <1>3, PTL DEF OpenSpec, StampIsFresh

\* A boot changes a header only when its own read of it was refused, and then
\* only to one without a version, whichever of its calls are refused.
THEOREM HeadersAreKept == OpenSpec => HeaderKept
<1>1. OpenInit => OpenTypeOK /\ FreshInv
  BY OpenInitInv
<1>2. OpenTypeOK /\ FreshInv /\ [OpenNext]_vars => (OpenTypeOK /\ FreshInv)'
  BY OpenNextType, OpenNextFresh
<1>3. OpenTypeOK /\ FreshInv /\ [OpenNext]_vars =>
         [store.header # "none" /\ pc # "playing" /\ store'.header # store.header =>
             existing = "none" /\ store'.header = "unversioned"]_vars
  <2> SUFFICES ASSUME OpenTypeOK, FreshInv, [OpenNext]_vars, store.header # "none",
                      pc # "playing", store'.header # store.header
               PROVE  existing = "none" /\ store'.header = "unversioned"
    OBVIOUS
  <2>1. WriteHeader
    BY HeaderSteps DEF ResetWorld
  <2>2. pc = "header" /\ store'.header = HeaderToWrite
    BY <2>1 DEF WriteHeader, OpenTypeOK, Stores
  <2>3. existing \in {"none", store.header}
    BY <2>2 DEF FreshInv
  <2>4. CASE baseline = "current"
    <3>1. existing = "current" /\ HeaderToWrite = "current"
      BY <2>2, <2>4 DEF FreshInv, HeaderToWrite
    <3> QED
      BY <2>2, <2>3, <3>1
  <2>5. CASE baseline # "current"
    BY <2>2, <2>3, <2>5 DEF HeaderToWrite
  <2> QED
    BY <2>4, <2>5
<1> QED
  BY <1>1, <1>2, <1>3, PTL DEF OpenSpec, HeaderKept

\* The completion marker is never there before every legacy artifact is in the
\* store, provided that a marker that is there is read.
THEOREM MarkerIsEarned ==
    ASSUME "migration marker read" \notin Faults PROVE OpenSpec => []MarkerMeansMigrated
<1> DEFINE Inv == OpenTypeOK /\ MigrationInv /\ MarkerInv /\ MarkerMeansMigrated
<1>1. OpenInit => Inv
  BY OpenInitInv
<1>2. Inv /\ [OpenNext]_vars => Inv'
  BY OpenNextType, OpenNextMigration, OpenNextMarker, OpenNextMeans
<1> QED
  BY <1>1, <1>2, PTL DEF OpenSpec

\* Whichever calls are refused, a boot takes a gameplay record back only after it
\* has recorded an error, or in a world that refused writes left without a marker.
THEOREM ProgressIsKept == OpenSpec => ProgressKept
<1> DEFINE Inv == OpenTypeOK /\ MigrationInv /\ ProgressInv
<1>1. OpenInit => Inv
  BY OpenInitInv
<1>2. Inv /\ [OpenNext]_vars => Inv'
  BY OpenNextType, OpenNextMigration, OpenNextProgress
<1>3. Inv /\ [OpenNext]_vars =>
         [pc = "playing" \/ err \/ Unguarded \/
          \A r \in Records : store.rec[r] > Legacy => store'.rec[r] >= store.rec[r]]_vars
  <2> SUFFICES ASSUME Inv, [OpenNext]_vars, pc # "playing", ~ err, ~ Unguarded,
                      NEW r \in Records, store.rec[r] > Legacy
               PROVE  store'.rec[r] >= store.rec[r]
    OBVIOUS
  <2>1. store.rec[r] \in Nat
    BY DEF OpenTypeOK, Stores
  <2>2. pc \notin Migrating
    BY <2>1, LegacyOrder DEF ProgressInv
  <2>3. ~ PutRecord /\ ~ CleanUp /\ ~ ResetWorld
    BY <2>2, PutSteps DEF ResetWorld
  <2>4. UNCHANGED store.rec
    BY <2>3, RecordSteps
  <2>5. store'.rec[r] = store.rec[r]
    BY <2>4
  <2> QED
    BY <2>1, <2>5, LegacyOrder
<1> HIDE DEF Inv
<1> QED
  BY <1>1, <1>2, <1>3, PTL DEF OpenSpec, ProgressKept
=============================================================================
