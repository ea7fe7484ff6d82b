--------------------------- MODULE SearchRecovery ---------------------------
(***************************************************************************)
(* Recovery of one user's search index over process exits and power loss.  *)
(* SQLite says of every message whether its document is complete           *)
(* (attachment_indexed_at > 0); the Bleve index is a directory that holds  *)
(* the documents; a marker file beside it asks the next start to           *)
(* quarantine it.  A write that stalls leaves the marker and ends the      *)
(* process; the next start marks every row pending, moves the index away   *)
(* and clears the marker, in this order, before it opens a new index.  The *)
(* offline command reset-search does the same without a marker.            *)
(*                                                                         *)
(* What a power loss leaves is modelled by the set of values each durable  *)
(* thing can have on disk: a directory entry can have any value since the  *)
(* last fsync of its directory, the rows any state committed since the     *)
(* last synced commit or checkpoint (WAL with synchronous=NORMAL).         *)
(***************************************************************************)
EXTENDS Naturals, FiniteSets

CONSTANTS
    Messages,       \* the user's search-visible messages
    MaxCrashes,     \* bound: process deaths, power losses and stalled writes
    MaxFaults,      \* bound: SQLite and file-system calls that fail
    MaxResets,      \* bound: uses of reset-search
    MaxReindexes    \* bound: messages made pending by other code

ASSUME RecoveryConstants ==
    /\ IsFiniteSet(Messages)
    /\ MaxCrashes \in Nat /\ MaxFaults \in Nat /\ MaxResets \in Nat /\ MaxReindexes \in Nat

VARIABLES
    pc,                  \* the process's place
    offline,             \* the process is reset-search
    watch,               \* watchActiveWriter of the running batch
    retried,             \* its second attempt at the marker
    moved,               \* the index quarantinePerUserIndexWithSync has renamed
    \* durable things and what a power loss can make of them
    complete, completes,  \* messages with attachment_indexed_at > 0
    marker, markers,      \* bleve.recovery-required exists
    index, indexes,       \* the index at the live path, 0 for none
    documents,            \* index -> its documents
    \* fetchedSearchIndexBatch.Flush
    inBleve,             \* documents of the running Batch call
    flushed,             \* documents committed, rows not yet marked
    hydrate,             \* AllowBackgroundAttachmentHydration, off in production
    \* bounds
    crashes, faults, resets, reindexes

procVars  == <<pc, offline>>
watchVars == <<watch, retried, moved>>
rowVars   == <<complete, completes>>
dirVars   == <<marker, markers, index, indexes>>
flushVars == <<inBleve, flushed>>
bounds    == <<hydrate, crashes, faults, resets, reindexes>>
vars == <<procVars, watchVars, rowVars, dirVars, documents, flushVars, bounds>>

IndexIds == 1..(MaxCrashes + MaxResets + 2)

\* openIndex creates an empty index; its name is the first one that is free.
Fresh(i) == documents[i] = {} /\ i \notin indexes
NewIndex(i) == Fresh(i) /\ \A j \in IndexIds : Fresh(j) => i <= j

PCs == {"down", "inspect", "mark", "checkpoint", "quarantine", "syncRename", "syncRollback",
        "clear", "syncClear", "restoreMarker", "syncRestored", "serving"}

Init ==
    /\ pc = "down" /\ offline = FALSE
    /\ watch = "off" /\ retried = FALSE /\ moved = 0
    /\ complete = Messages /\ completes = {Messages}
    /\ marker = FALSE /\ markers = {FALSE}
    /\ index = 1 /\ indexes = {1}
    /\ documents = [i \in IndexIds |-> IF i = 1 THEN Messages ELSE {}]
    /\ inBleve = {} /\ flushed = {}
    /\ hydrate \in BOOLEAN
    /\ crashes = 0 /\ faults = 0 /\ resets = 0 /\ reindexes = 0

-----------------------------------------------------------------------------
(* Durability *)

\* A commit with synchronous=NORMAL: a power loss may undo it.
Commit(rows) == complete' = rows /\ completes' = completes \cup {rows}

\* A commit that wrote something with synchronous=FULL syncs the WAL.
DurableCommit(rows) ==
    /\ complete' = rows
    /\ completes' = IF rows = complete THEN completes ELSE {rows}

SetMarker(v) == marker' = v /\ markers' = markers \cup {v}
SetIndex(i) == index' = i /\ indexes' = indexes \cup {i}

\* syncDirectory: both entries are as durable as they look.
SyncDirectory == markers' = {marker} /\ indexes' = {index} /\ UNCHANGED <<marker, index>>

GoTo(place) == pc' = place /\ UNCHANGED offline

CountFault == faults < MaxFaults /\ faults' = faults + 1 /\ UNCHANGED <<hydrate, crashes, resets, reindexes>>
CountCrash == crashes < MaxCrashes /\ crashes' = crashes + 1 /\ UNCHANGED <<hydrate, faults, resets, reindexes>>

\* The process is gone, with what it had in memory.
Exit ==
    /\ pc' = "down" /\ offline' = FALSE
    /\ watch' = "off" /\ retried' = FALSE /\ moved' = 0
    /\ inBleve' = {} /\ flushed' = {}

-----------------------------------------------------------------------------
(* Startup recovery and reset-search *)

\* The instance lock lets one process at a time begin.
StartServer ==
    /\ pc = "down"
    /\ pc' = "inspect" /\ offline' = FALSE
    /\ UNCHANGED <<watchVars, rowVars, dirVars, documents, flushVars, bounds>>

ResetSearch ==
    /\ pc = "down"
    /\ resets < MaxResets /\ resets' = resets + 1
    /\ pc' = "mark" /\ offline' = TRUE
    /\ UNCHANGED <<watchVars, rowVars, dirVars, documents, flushVars, hydrate, crashes, faults, reindexes>>

SearchIndexRecoveryRequired ==
    /\ pc = "inspect"
    /\ GoTo(IF marker THEN "mark" ELSE "serving")
    /\ UNCHANGED <<watchVars, rowVars, dirVars, documents, flushVars, bounds>>

\* A startup step or the command returns an error: the process ends.
StepFails ==
    /\ pc \in {"inspect", "mark", "checkpoint", "quarantine", "clear", "restoreMarker", "syncRestored"}
    /\ CountFault
    /\ Exit
    /\ UNCHANGED <<rowVars, dirVars, documents>>

\* MarkSearchVisibleMessagesPendingIndex: all rows become pending, ...
MarkPending ==
    /\ pc = "mark"
    /\ DurableCommit({})
    /\ GoTo("checkpoint")
    /\ UNCHANGED <<watchVars, dirVars, documents, flushVars, bounds>>

\* Mutant: the commit is taken to be durable.
TrustCommit == UNCHANGED rowVars

\* fullSQLiteWALCheckpoint: everything committed is on disk.
FullCheckpoint == completes' = {complete} /\ UNCHANGED complete

\* ... durably, even if the update found nothing to write.
CheckpointPending ==
    /\ pc = "checkpoint"
    /\ FullCheckpoint
    /\ GoTo("quarantine")
    /\ UNCHANGED <<watchVars, dirVars, documents, flushVars, bounds>>

\* Mutant: the marker is left behind.
ServeWithMarker ==
    /\ pc' = IF offline THEN "down" ELSE "serving"
    /\ offline' = FALSE

\* Where QuarantinePerUserIndex's caller goes on.
AfterQuarantine ==
    /\ pc' = IF offline THEN "down" ELSE "clear"
    /\ offline' = FALSE

\* QuarantinePerUserIndex: the rename.
QuarantinePerUserIndex ==
    /\ pc = "quarantine"
    /\ \/ index = 0 /\ AfterQuarantine /\ UNCHANGED <<index, indexes, moved>>
       \/ index /= 0 /\ SetIndex(0) /\ moved' = index /\ GoTo("syncRename")
    /\ UNCHANGED <<watch, retried, rowVars, marker, markers, documents, flushVars, bounds>>

\* The rename is synced; or it is taken back, unless that fails too.
SyncQuarantine ==
    /\ pc = "syncRename"
    /\ \/ /\ SyncDirectory /\ AfterQuarantine
          /\ moved' = 0 /\ UNCHANGED <<watch, retried, flushVars, bounds>>
       \/ /\ CountFault
          /\ SetIndex(moved) /\ GoTo("syncRollback")
          /\ UNCHANGED <<watchVars, flushVars, marker, markers>>
       \/ /\ CountFault
          /\ Exit /\ UNCHANGED dirVars
    /\ UNCHANGED <<rowVars, documents>>

SyncRollback ==
    /\ pc = "syncRollback"
    /\ \/ SyncDirectory /\ UNCHANGED bounds
       \/ CountFault /\ UNCHANGED dirVars
    /\ Exit
    /\ UNCHANGED <<rowVars, documents>>

ClearSearchIndexRecoveryRequired ==
    /\ pc = "clear"
    /\ SetMarker(FALSE)
    /\ GoTo("syncClear")
    /\ UNCHANGED <<watchVars, rowVars, index, indexes, documents, flushVars, bounds>>

SyncClear ==
    /\ pc = "syncClear"
    /\ \/ SyncDirectory /\ GoTo("serving") /\ UNCHANGED bounds
       \/ CountFault /\ GoTo("restoreMarker") /\ UNCHANGED dirVars
    /\ UNCHANGED <<watchVars, rowVars, documents, flushVars>>

\* The marker comes back for the next start, which is needed in any case.
RestoreMarker ==
    /\ pc = "restoreMarker"
    /\ SetMarker(TRUE)
    /\ GoTo("syncRestored")
    /\ UNCHANGED <<watchVars, rowVars, index, indexes, documents, flushVars, bounds>>

SyncRestored ==
    /\ pc = "syncRestored"
    /\ SyncDirectory
    /\ Exit
    /\ UNCHANGED <<rowVars, documents, bounds>>

-----------------------------------------------------------------------------
(* The running server *)

\* indexForUser: the index is opened at its first use, and created if missing.
OpenIndex ==
    /\ pc = "serving" /\ index = 0
    /\ \E i \in IndexIds : NewIndex(i) /\ SetIndex(i)
    /\ UNCHANGED <<procVars, watchVars, rowVars, marker, markers, documents, flushVars, bounds>>

\* IndexPendingAttachmentsForUser without hydration, and
\* SkipPendingHistoricalAttachmentIndexing: pending rows count as complete.
SkipPendingHistorical ==
    /\ pc = "serving" /\ ~hydrate
    /\ complete /= Messages
    /\ Commit(Messages)
    /\ UNCHANGED <<procVars, watchVars, dirVars, documents, flushVars, bounds>>

\* Flush, IndexMessages: a batch of pending messages goes to Bleve.
FlushBegins(S) ==
    /\ pc = "serving" /\ index /= 0
    /\ inBleve = {} /\ flushed = {}
    /\ S /= {} /\ S \cap complete = {}
    /\ inBleve' = S
    /\ UNCHANGED <<procVars, watchVars, rowVars, dirVars, documents, flushed, bounds>>

\* Bleve has persisted the batch, and the sync of its files the directory entry
\* they are reached by.  The message of a deferred item keeps its pending row.
BatchReturns ==
    /\ inBleve /= {}
    /\ documents' = [documents EXCEPT ![index] = @ \cup inBleve]
    /\ indexes' = {index}
    /\ inBleve' = {}
    /\ \/ flushed' = inBleve /\ UNCHANGED bounds
       \/ flushed' = {} /\ CountFault
    /\ UNCHANGED <<procVars, watchVars, rowVars, marker, markers, index>>

\* IndexMessages returns an error: the rows stay pending.
BatchFails ==
    /\ inBleve /= {}
    /\ CountFault
    /\ inBleve' = {}
    /\ UNCHANGED <<procVars, watchVars, rowVars, dirVars, documents, flushed>>

\* Mutant: the rows are marked before the batch is committed.
BeforeBatch == inBleve

\* The documents whose rows may be marked.
AfterBatch == flushed

MarkMessagesAttachmentIndexed ==
    /\ AfterBatch /= {}
    /\ \/ Commit(complete \cup AfterBatch) /\ UNCHANGED bounds
       \/ CountFault /\ UNCHANGED rowVars
    /\ flushed' = {}
    /\ UNCHANGED <<procVars, watchVars, dirVars, documents, inBleve>>

\* MarkMessageAttachmentIndexPending and visibility changes.
MakePending(m) ==
    /\ pc = "serving" /\ m \in complete
    /\ reindexes < MaxReindexes /\ reindexes' = reindexes + 1
    /\ Commit(complete \ {m})
    /\ UNCHANGED <<procVars, watchVars, dirVars, documents, flushVars, hydrate, crashes, faults, resets>>

\* watchActiveWriter: the batch does not return in time.
WriterStalls ==
    /\ inBleve /= {} /\ watch = "off"
    /\ CountCrash
    /\ watch' = "publish" /\ retried' = FALSE
    /\ UNCHANGED <<procVars, moved, rowVars, dirVars, documents, flushVars>>

\* A second attempt follows a first failure; then the restart comes anyway.
AttemptFails ==
    /\ CountFault
    /\ watch' = IF retried THEN "restart" ELSE "publish"
    /\ retried' = TRUE

\* writeSearchIndexRecoveryMarker: publish it unless it is there, ...
PublishMarker ==
    /\ watch = "publish"
    /\ \/ SetMarker(TRUE) /\ watch' = "sync" /\ UNCHANGED <<retried, bounds>>
       \/ AttemptFails /\ UNCHANGED <<marker, markers>>
    /\ UNCHANGED <<procVars, moved, rowVars, index, indexes, documents, flushVars>>

\* ... and sync it.
SyncMarker ==
    /\ watch = "sync"
    /\ \/ SyncDirectory /\ watch' = "restart" /\ UNCHANGED <<retried, bounds>>
       \/ AttemptFails /\ UNCHANGED dirVars
    /\ UNCHANGED <<procVars, moved, rowVars, documents, flushVars>>

\* The stall handler asks run to shut down; cleanup is bounded.
RestartForRecovery ==
    /\ watch = "restart"
    /\ Exit
    /\ UNCHANGED <<rowVars, dirVars, documents, bounds>>

-----------------------------------------------------------------------------
(* Failures *)

ProcessDies ==
    /\ pc /= "down"
    /\ CountCrash
    /\ Exit
    /\ UNCHANGED <<rowVars, dirVars, documents>>

PowerLoss ==
    /\ CountCrash
    /\ Exit
    /\ complete' \in completes /\ completes' = {complete'}
    /\ marker' \in markers /\ markers' = {marker'}
    /\ index' \in indexes /\ indexes' = {index'}
    /\ UNCHANGED documents

Recovery ==
    \/ SearchIndexRecoveryRequired \/ StepFails \/ MarkPending \/ CheckpointPending
    \/ QuarantinePerUserIndex \/ SyncQuarantine \/ SyncRollback
    \/ ClearSearchIndexRecoveryRequired \/ SyncClear \/ RestoreMarker \/ SyncRestored

Indexing ==
    \/ OpenIndex \/ SkipPendingHistorical
    \/ \E S \in SUBSET Messages : FlushBegins(S)
    \/ BatchReturns \/ BatchFails \/ MarkMessagesAttachmentIndexed

Watchdog == WriterStalls \/ PublishMarker \/ SyncMarker \/ RestartForRecovery

Next ==
    \/ StartServer \/ ResetSearch \/ Recovery \/ Indexing \/ Watchdog
    \/ \E m \in Messages : MakePending(m)
    \/ ProcessDies \/ PowerLoss

Spec == Init /\ [][Next]_vars

\* The container restarts the server, a start goes on to its end, the indexing
\* worker keeps working, and a batch returns unless it stalls: then nothing is
\* promised of it and the watchdog ends the process.
Fairness ==
    /\ WF_vars(StartServer) /\ WF_vars(Recovery) /\ WF_vars(watch = "off" /\ Indexing)
    /\ WF_vars(PublishMarker \/ SyncMarker) /\ WF_vars(RestartForRecovery)

FairSpec == Spec /\ Fairness

-----------------------------------------------------------------------------
(* Properties *)

CountersOK == hydrate \in BOOLEAN /\ crashes \in Nat /\ faults \in Nat /\ resets \in Nat /\ reindexes \in Nat

\* The value the process sees is one a power loss may leave, and an index is away
\* only during a quarantine.
StateOK ==
    /\ pc \in PCs /\ offline \in BOOLEAN
    /\ watch \in {"off", "publish", "sync", "restart"} /\ retried \in BOOLEAN
    /\ moved \in IndexIds \cup {0} /\ (moved /= 0 <=> pc \in {"syncRename", "syncRollback"})
    /\ complete \in completes /\ completes \subseteq SUBSET Messages
    /\ marker \in markers /\ markers \subseteq BOOLEAN
    /\ index \in indexes /\ indexes \subseteq IndexIds \cup {0}
    /\ documents \in [IndexIds -> SUBSET Messages]
    /\ inBleve \subseteq Messages /\ flushed \subseteq Messages

\* Type invariant of the process, the rows and the directory
\* (search_recovery.go, recovery_marker.go, quarantine.go).
TypeOK == StateOK /\ CountersOK

\* "an interrupted recovery can never leave a fresh index with rows marked done"
\* (cmd/rolltop/search_recovery.go): while the server runs with hydration, a row
\* that counts as complete has its document in the live index, whatever power losses,
\* process deaths and failed syncs came before, in whatever combination.  Without
\* hydration SkipPendingHistorical counts rows that have none as complete.
CompleteIndexed ==
    hydrate /\ pc = "serving" => complete \subseteq (IF index = 0 THEN {} ELSE documents[index])

\* "Pending flags are deliberately written first" (cmd/rolltop/reset_search.go):
\* the live index is moved away only when no power loss can bring back a row that
\* counts as complete, also when the update found every row pending already and
\* so wrote nothing.
MovedWhenPending ==
    [][index /= 0 /\ index' = 0 /\ pc' /= "down" => completes = {{}}]_vars

\* The rebuild ends: after the last failure a start has consumed the marker that a
\* stalled write left, and every message counts as complete; with hydration it is
\* in the live index.
Rebuilt ==
    <>[](/\ pc = "serving" /\ ~marker /\ complete = Messages
         /\ hydrate => index /= 0 /\ documents[index] = Messages)

=============================================================================
