------------------------ MODULE SearchRecoveryProofs ------------------------
(***************************************************************************)
(* Proofs about SearchRecovery, for every set of messages and every bound, *)
(* and about RemoteSync, for every set of contents, chunk and bound.       *)
(***************************************************************************)
EXTENDS SearchRecovery, RemoteSync, FiniteSetTheorems, SequenceTheorems, WellFoundedInduction, TLAPS

-----------------------------------------------------------------------------
(* Inductive invariants *)

\* A batch is in progress only while the server runs on an open index.
FlushInv ==
    /\ inBleve /= {} => pc = "serving" /\ index /= 0
    /\ flushed /= {} => pc = "serving" /\ index /= 0
    /\ moved /= 0 => index = 0 \/ pc = "syncRollback"

\* From the checkpoint to the end of a recovery no power loss brings back a
\* complete row.
PendingInv ==
    /\ pc = "checkpoint" => complete = {}
    /\ pc \in {"quarantine", "syncRename", "syncRollback", "clear", "syncClear",
               "restoreMarker", "syncRestored"} => completes = {{}}

\* The documents of an index, none if there is no index.
DocumentsOf(i) == IF i = 0 THEN {} ELSE documents[i]

\* Whatever combination of rows and index a power loss leaves, every complete
\* row has its document; and so have the rows a flush is about to complete.
DurableInv ==
    /\ \A rows \in completes : \A i \in indexes : rows \subseteq DocumentsOf(i)
    /\ flushed /= {} => indexes = {index} /\ flushed \subseteq documents[index]

-----------------------------------------------------------------------------
(* Types *)

\* Every step leaves the counters alone or counts one up, and keeps the option.
LEMMA CountersStep == CountersOK /\ [Next]_vars => CountersOK' /\ UNCHANGED hydrate
<1> SUFFICES ASSUME CountersOK, [Next]_vars PROVE CountersOK' /\ UNCHANGED hydrate
  OBVIOUS
<1>1. ASSUME CountFault \/ CountCrash PROVE CountersOK' /\ UNCHANGED hydrate
  BY <1>1 DEF CountFault, CountCrash, CountersOK
<1>2. ASSUME UNCHANGED bounds PROVE CountersOK' /\ UNCHANGED hydrate
  BY <1>2 DEF bounds, CountersOK
<1>3. CASE ResetSearch
  BY <1>3 DEF ResetSearch, CountersOK
<1>4. CASE \E m \in Messages : MakePending(m)
  BY <1>4 DEF MakePending, CountersOK
<1>5. CASE Recovery
  BY <1>1, <1>2, <1>5 DEF Recovery, SearchIndexRecoveryRequired, StepFails, MarkPending,
     CheckpointPending, QuarantinePerUserIndex, SyncQuarantine, SyncRollback,
     ClearSearchIndexRecoveryRequired, SyncClear, RestoreMarker, SyncRestored
<1>6. CASE Indexing
  BY <1>1, <1>2, <1>6 DEF Indexing, OpenIndex, SkipPendingHistorical, FlushBegins, BatchReturns,
     BatchFails, MarkMessagesAttachmentIndexed
<1>7. CASE Watchdog
  BY <1>1, <1>2, <1>7 DEF Watchdog, WriterStalls, PublishMarker, SyncMarker, AttemptFails, RestartForRecovery
<1>8. CASE StartServer \/ ProcessDies \/ PowerLoss \/ UNCHANGED vars
  BY <1>1, <1>2, <1>8 DEF StartServer, ProcessDies, PowerLoss, vars
<1> QED
  BY <1>3, <1>4, <1>5, <1>6, <1>7, <1>8 DEF Next

\* A step from a well-typed state leads to a well-typed state.
LEMMA StateStep == StateOK /\ [Next]_vars => StateOK'
<1> SUFFICES ASSUME StateOK, [Next]_vars PROVE StateOK'
  OBVIOUS
<1> USE DEF PCs, StateOK, procVars, watchVars, rowVars, dirVars, flushVars
<1>1. CASE StartServer
  BY <1>1 DEF StartServer
<1>2. CASE ResetSearch
  BY <1>2 DEF ResetSearch
<1>3. CASE SearchIndexRecoveryRequired
  BY <1>3 DEF SearchIndexRecoveryRequired, GoTo
<1>4. CASE StepFails
  BY <1>4 DEF StepFails, Exit
<1>5. CASE MarkPending
  BY <1>5 DEF MarkPending, DurableCommit, GoTo
<1>6. CASE CheckpointPending
  BY <1>6 DEF CheckpointPending, FullCheckpoint, GoTo
<1>7. CASE QuarantinePerUserIndex
  BY <1>7 DEF QuarantinePerUserIndex, AfterQuarantine, SetIndex, GoTo
<1>8. CASE SyncQuarantine
  BY <1>8 DEF SyncQuarantine, SyncDirectory, AfterQuarantine, SetIndex, GoTo, Exit
<1>9. CASE SyncRollback
  BY <1>9 DEF SyncRollback, SyncDirectory, Exit
<1>10. CASE ClearSearchIndexRecoveryRequired
  BY <1>10 DEF ClearSearchIndexRecoveryRequired, SetMarker, GoTo
<1>11. CASE SyncClear
  BY <1>11 DEF SyncClear, SyncDirectory, GoTo
<1>12. CASE RestoreMarker
  BY <1>12 DEF RestoreMarker, SetMarker, GoTo
<1>13. CASE SyncRestored
  BY <1>13 DEF SyncRestored, SyncDirectory, Exit
<1>14. CASE OpenIndex
  BY <1>14 DEF OpenIndex, SetIndex
<1>15. CASE SkipPendingHistorical
  BY <1>15 DEF SkipPendingHistorical, Commit
<1>16. CASE \E S \in SUBSET Messages : FlushBegins(S)
  BY <1>16 DEF FlushBegins
<1>17. CASE BatchReturns
  BY <1>17 DEF BatchReturns
<1>18. CASE BatchFails
  BY <1>18 DEF BatchFails
<1>19. CASE MarkMessagesAttachmentIndexed
  BY <1>19 DEF MarkMessagesAttachmentIndexed, AfterBatch, Commit
<1>20. CASE WriterStalls
  BY <1>20 DEF WriterStalls
<1>21. CASE PublishMarker
  BY <1>21 DEF PublishMarker, SetMarker, AttemptFails
<1>22. CASE SyncMarker
  BY <1>22 DEF SyncMarker, SyncDirectory, AttemptFails
<1>23. CASE RestartForRecovery
  BY <1>23 DEF RestartForRecovery, Exit
<1>24. CASE \E m \in Messages : MakePending(m)
  BY <1>24 DEF MakePending, Commit
<1>25. CASE ProcessDies
  BY <1>25 DEF ProcessDies, Exit
<1>26. CASE PowerLoss
  BY <1>26 DEF PowerLoss, Exit
<1>27. CASE UNCHANGED vars
  BY <1>27 DEF vars
<1> QED
  BY <1>1, <1>2, <1>3, <1>4, <1>5, <1>6, <1>7, <1>8, <1>9, <1>10, <1>11, <1>12, <1>13,
     <1>14, <1>15, <1>16, <1>17, <1>18, <1>19, <1>20, <1>21, <1>22, <1>23, <1>24, <1>25, <1>26, <1>27
  DEF Next, Recovery, Indexing, Watchdog

\* The index the model starts with has a name.
LEMMA FirstIndex == 1 \in IndexIds
  BY RecoveryConstants DEF IndexIds

\* The initial state is well typed.
LEMMA InitOK == Init => StateOK
  BY FirstIndex DEF Init, StateOK, PCs

\* Rows, directory entries, indexes and places keep their types through every
\* combination of deaths, power losses and failed calls.
THEOREM TypeCorrect == Spec => []TypeOK
<1>1. Init => StateOK /\ CountersOK
  BY InitOK DEF Init, CountersOK
<1> QED
  BY <1>1, StateStep, CountersStep, PTL DEF Spec, TypeOK

-----------------------------------------------------------------------------
(* Order of the recovery *)

\* The places of a batch and of a recovery, step by step.
LEMMA OrderStep == StateOK /\ FlushInv /\ PendingInv /\ [Next]_vars => FlushInv' /\ PendingInv'
<1> SUFFICES ASSUME StateOK, FlushInv, PendingInv, [Next]_vars PROVE FlushInv' /\ PendingInv'
  OBVIOUS
<1> USE DEF StateOK, FlushInv, PendingInv, procVars, watchVars, rowVars, dirVars, flushVars
<1>1. CASE StartServer
  BY <1>1 DEF StartServer
<1>2. CASE ResetSearch
  BY <1>2 DEF ResetSearch
<1>3. CASE SearchIndexRecoveryRequired
  BY <1>3 DEF SearchIndexRecoveryRequired, GoTo
<1>4. CASE StepFails
  BY <1>4 DEF StepFails, Exit
<1>5. CASE MarkPending
  BY <1>5 DEF MarkPending, DurableCommit, GoTo
<1>6. CASE CheckpointPending
  BY <1>6 DEF CheckpointPending, FullCheckpoint, GoTo
<1>7. CASE QuarantinePerUserIndex
  BY <1>7 DEF QuarantinePerUserIndex, AfterQuarantine, SetIndex, GoTo
<1>8. CASE SyncQuarantine
  BY <1>8 DEF SyncQuarantine, SyncDirectory, AfterQuarantine, SetIndex, GoTo, Exit
<1>9. CASE SyncRollback
  BY <1>9 DEF SyncRollback, SyncDirectory, Exit
<1>10. CASE ClearSearchIndexRecoveryRequired
  BY <1>10 DEF ClearSearchIndexRecoveryRequired, SetMarker, GoTo
<1>11. CASE SyncClear
  BY <1>11 DEF SyncClear, SyncDirectory, GoTo
<1>12. CASE RestoreMarker
  BY <1>12 DEF RestoreMarker, SetMarker, GoTo
<1>13. CASE SyncRestored
  BY <1>13 DEF SyncRestored, SyncDirectory, Exit
<1>14. CASE OpenIndex
  BY <1>14 DEF OpenIndex, SetIndex
<1>15. CASE SkipPendingHistorical
  BY <1>15 DEF SkipPendingHistorical, Commit
<1>16. CASE \E S \in SUBSET Messages : FlushBegins(S)
  BY <1>16 DEF FlushBegins
<1>17. CASE BatchReturns
  BY <1>17 DEF BatchReturns
<1>18. CASE BatchFails
  BY <1>18 DEF BatchFails
<1>19. CASE MarkMessagesAttachmentIndexed
  BY <1>19 DEF MarkMessagesAttachmentIndexed, AfterBatch, Commit
<1>20. CASE WriterStalls
  BY <1>20 DEF WriterStalls
<1>21. CASE PublishMarker
  BY <1>21 DEF PublishMarker, SetMarker, AttemptFails
<1>22. CASE SyncMarker
  BY <1>22 DEF SyncMarker, SyncDirectory, AttemptFails
<1>23. CASE RestartForRecovery
  BY <1>23 DEF RestartForRecovery, Exit
<1>24. CASE \E m \in Messages : MakePending(m)
  BY <1>24 DEF MakePending, Commit
<1>25. CASE ProcessDies
  BY <1>25 DEF ProcessDies, Exit
<1>26. CASE PowerLoss
  BY <1>26 DEF PowerLoss, Exit
<1>27. CASE UNCHANGED vars
  BY <1>27 DEF vars
<1> QED
  BY <1>1, <1>2, <1>3, <1>4, <1>5, <1>6, <1>7, <1>8, <1>9, <1>10, <1>11, <1>12, <1>13,
     <1>14, <1>15, <1>16, <1>17, <1>18, <1>19, <1>20, <1>21, <1>22, <1>23, <1>24, <1>25, <1>26, <1>27
  DEF Next, Recovery, Indexing, Watchdog

\* The recovery in its order is an invariant of the system.
LEMMA Ordered == Spec => [](StateOK /\ FlushInv /\ PendingInv)
<1>1. Init => StateOK /\ FlushInv /\ PendingInv
  BY InitOK DEF Init, FlushInv, PendingInv
<1> QED
  BY <1>1, StateStep, OrderStep, PTL DEF Spec

\* What can change the index at the live path while the process stays alive.
LEMMA IndexSteps ==
    [Next]_vars => \/ UNCHANGED index \/ pc' = "down"
                   \/ QuarantinePerUserIndex \/ SyncQuarantine \/ OpenIndex
<1> USE DEF dirVars
<1>1. Recovery => \/ UNCHANGED index \/ pc' = "down" \/ QuarantinePerUserIndex \/ SyncQuarantine
  BY DEF Recovery, SearchIndexRecoveryRequired, StepFails, MarkPending, CheckpointPending, SyncRollback,
     Exit, ClearSearchIndexRecoveryRequired, SyncClear, SyncDirectory, RestoreMarker, SyncRestored
<1>2. Indexing => UNCHANGED index \/ OpenIndex
  BY DEF Indexing, SkipPendingHistorical, FlushBegins, BatchReturns, BatchFails, MarkMessagesAttachmentIndexed
<1>3. Watchdog => UNCHANGED index
  BY DEF Watchdog, WriterStalls, PublishMarker, SyncMarker, SyncDirectory, RestartForRecovery
<1> QED
  BY <1>1, <1>2, <1>3 DEF Next, StartServer, ResetSearch, MakePending, ProcessDies, PowerLoss, Exit, vars

\* The live index is moved away only when no power loss can bring back a row that
\* counts as complete: for any number of messages, failures and resets, and with
\* or without background hydration.
THEOREM PendingFirst == Spec => MovedWhenPending
<1>1. StateOK /\ FlushInv /\ PendingInv /\ [Next]_vars
      => (index /= 0 /\ index' = 0 /\ pc' /= "down" => completes = {{}})
  <2> SUFFICES ASSUME StateOK, PendingInv, [Next]_vars, index /= 0, index' = 0, pc' /= "down"
               PROVE completes = {{}}
    OBVIOUS
  <2>1. QuarantinePerUserIndex \/ SyncQuarantine \/ OpenIndex
    BY IndexSteps
  <2>2. ~OpenIndex
    BY DEF OpenIndex
  <2> QED
    BY <2>1, <2>2 DEF QuarantinePerUserIndex, SyncQuarantine, PendingInv
<1> QED
  BY <1>1, Ordered, PTL DEF Spec, MovedWhenPending

-----------------------------------------------------------------------------
(* Documents *)

\* With hydration, what the disk holds stays consistent in every combination.
LEMMA DurableStep ==
    hydrate /\ StateOK /\ FlushInv /\ PendingInv /\ DurableInv /\ [Next]_vars
    => DurableInv'
<1> SUFFICES ASSUME hydrate, StateOK, FlushInv, PendingInv, DurableInv, [Next]_vars
             PROVE DurableInv'
  OBVIOUS
<1> USE DEF StateOK, FlushInv, PendingInv, DurableInv, DocumentsOf, procVars, watchVars, rowVars, dirVars, flushVars
<1>1. CASE StartServer
  BY <1>1 DEF StartServer
<1>2. CASE ResetSearch
  BY <1>2 DEF ResetSearch
<1>3. CASE SearchIndexRecoveryRequired
  BY <1>3 DEF SearchIndexRecoveryRequired, GoTo
<1>4. CASE StepFails
  BY <1>4 DEF StepFails, Exit
<1>5. CASE MarkPending
  BY <1>5 DEF MarkPending, DurableCommit, GoTo
<1>6. CASE CheckpointPending
  BY <1>6 DEF CheckpointPending, FullCheckpoint, GoTo
<1>7. CASE QuarantinePerUserIndex
  BY <1>7 DEF QuarantinePerUserIndex, AfterQuarantine, SetIndex, GoTo
<1>8. CASE SyncQuarantine
  BY <1>8 DEF SyncQuarantine, SyncDirectory, AfterQuarantine, SetIndex, GoTo, Exit
<1>9. CASE SyncRollback
  BY <1>9 DEF SyncRollback, SyncDirectory, Exit
<1>10. CASE ClearSearchIndexRecoveryRequired
  BY <1>10 DEF ClearSearchIndexRecoveryRequired, SetMarker, GoTo
<1>11. CASE SyncClear
  BY <1>11 DEF SyncClear, SyncDirectory, GoTo
<1>12. CASE RestoreMarker
  BY <1>12 DEF RestoreMarker, SetMarker, GoTo
<1>13. CASE SyncRestored
  BY <1>13 DEF SyncRestored, SyncDirectory, Exit
<1>14. CASE OpenIndex
  BY <1>14 DEF OpenIndex, SetIndex
<1>15. CASE SkipPendingHistorical
  BY <1>15 DEF SkipPendingHistorical, Commit
<1>16. CASE \E S \in SUBSET Messages : FlushBegins(S)
  BY <1>16 DEF FlushBegins
<1>17. CASE BatchReturns
  BY <1>17 DEF BatchReturns
<1>18. CASE BatchFails
  BY <1>18 DEF BatchFails
<1>19. CASE MarkMessagesAttachmentIndexed
  BY <1>19 DEF MarkMessagesAttachmentIndexed, AfterBatch, Commit
<1>20. CASE WriterStalls
  BY <1>20 DEF WriterStalls
<1>21. CASE PublishMarker
  BY <1>21 DEF PublishMarker, SetMarker, AttemptFails
<1>22. CASE SyncMarker
  BY <1>22 DEF SyncMarker, SyncDirectory, AttemptFails
<1>23. CASE RestartForRecovery
  BY <1>23 DEF RestartForRecovery, Exit
<1>24. CASE \E m \in Messages : MakePending(m)
  BY <1>24 DEF MakePending, Commit
<1>25. CASE ProcessDies
  BY <1>25 DEF ProcessDies, Exit
<1>26. CASE PowerLoss
  BY <1>26 DEF PowerLoss, Exit
<1>27. CASE UNCHANGED vars
  BY <1>27 DEF vars
<1> QED
  BY <1>1, <1>2, <1>3, <1>4, <1>5, <1>6, <1>7, <1>8, <1>9, <1>10, <1>11, <1>12, <1>13,
     <1>14, <1>15, <1>16, <1>17, <1>18, <1>19, <1>20, <1>21, <1>22, <1>23, <1>24, <1>25, <1>26, <1>27
  DEF Next, Recovery, Indexing, Watchdog

\* "an interrupted recovery can never leave a fresh index with rows marked done":
\* with background hydration, every complete row has its document in the live
\* index, for any number of messages, deaths, power losses, failures and resets.
THEOREM Complete == Spec => []CompleteIndexed
<1>1. Init => (hydrate => DurableInv) /\ CountersOK
  BY FirstIndex DEF Init, DurableInv, DocumentsOf, CountersOK
<1>2. StateOK /\ (hydrate => DurableInv) => CompleteIndexed
  BY DEF StateOK, DurableInv, DocumentsOf, CompleteIndexed
<1>3. StateOK /\ FlushInv /\ PendingInv /\ CountersOK /\ (hydrate => DurableInv) /\ [Next]_vars
      => (hydrate => DurableInv)' /\ CountersOK'
  BY CountersStep, DurableStep
<1> QED
  BY <1>1, <1>2, <1>3, Ordered, PTL DEF Spec

-----------------------------------------------------------------------------

(* The routines of the remote IMAP sync plugin *)
Texts == Contents \cup {"other"}
Copies == [marker : Nat \X Nat \X Nat, text : Texts, folder : {1, 2}, age : Nat]
SourceMail == [text : Texts, secret : Nat]

SourceShape ==
    /\ DOMAIN source = {"epoch", "box", "next"} /\ source.epoch \in Nat \ {0} /\ source.next \in Nat \ {0}
    /\ DOMAIN source.box \subseteq 1..(source.next - 1)
    /\ \A u \in DOMAIN source.box : source.box[u] \in SourceMail
RoutineShape(r) ==
    /\ DOMAIN r = {"enabled", "state", "epoch", "last", "secret", "account", "folder", "age"}
    /\ r.enabled \in BOOLEAN /\ {r.epoch, r.last, r.secret, r.age} \subseteq Nat /\ r.folder \in {1, 2}
WorkerShape ==
    Alive => /\ DOMAIN worker = {"pc", "stop", "item", "epoch", "uids", "raw", "scanned"}
             /\ worker.stop \in BOOLEAN /\ worker.uids \subseteq Nat /\ RoutineShape(worker.item)
Shapes == SourceShape /\ RoutineShape(routine) /\ WorkerShape /\ dest \in Seq(Copies)

\* The places of a run before and after it has searched, and those where it has a message.
Searching == {"wait", "acquire", "begin", "search"}
Searched == {"open", "fetch", "append", "record", "skip", "pause", "reacquire"}
Holding == {"append", "record", "skip"}
In(pcs) == Alive /\ worker.pc \in pcs

\* A worker has the settings of the row, which change only when it is gone; in a run the
\* routine is enabled.
Settings ==
    /\ Alive => /\ worker.item.secret = routine.secret /\ worker.item.folder = routine.folder
                /\ worker.item.age = routine.age
    /\ In(Searched \cup Searching) => routine.enabled
    /\ In(Searching) => worker.item.epoch = routine.epoch /\ worker.item.last = routine.last
    /\ change # NoChange => (Alive => worker.stop)
    /\ routine.state = "syncing" => routine.enabled
    /\ SyncingIsRunning

\* The last UID is one that the source has given out in an epoch it has had.
Progress ==
    /\ routine.epoch <= source.epoch /\ (routine.epoch = 0 => routine.last = 0)
    /\ routine.epoch = source.epoch => routine.last < source.next
    /\ In(Searched) => /\ worker.epoch \in Nat \ {0} /\ worker.epoch <= source.epoch
                       /\ routine.epoch \in {0, worker.epoch}
    /\ In(Searched) /\ ~renumbered => worker.epoch = source.epoch
    /\ In(Holding) => worker.uids # {} /\ worker.raw \in SourceMail

\* Of what lies below a UID that is still to be fetched, everything is handled or to be fetched.
Pending ==
    In(Searched) /\ worker.epoch = source.epoch =>
        /\ \A v \in worker.uids : v < source.next
        /\ \A u \in DOMAIN source.box, v \in worker.uids :
              u < v => u \in worker.uids \/ HandledByUid(source.epoch, u, source.box[u])

\* A marker of this routine and this epoch is of a UID that was given, and what the source
\* still has under it is what was copied.
Marked ==
    \A i \in DOMAIN dest :
        LET m == dest[i].marker IN
        /\ m[1] <= routine.secret
        /\ m[1] = routine.secret => m[2] <= source.epoch
        /\ m[1] = routine.secret /\ m[2] = source.epoch =>
              m[3] < source.next /\ (m[3] \in DOMAIN source.box => dest[i].text = source.box[m[3]].text)

\* The message of a run is the one of its UID, and a copy that has its marker is of its content.
Held ==
    /\ In(Holding) /\ worker.epoch = source.epoch =>
          /\ Current \in DOMAIN source.box => worker.raw = source.box[Current]
          /\ \A i \in DOMAIN dest : dest[i].marker = Marker => dest[i].text = worker.raw.text
    /\ In({"record"}) => \E i \in DOMAIN dest : dest[i].marker = Marker /\ dest[i].folder = routine.folder

RemoteInv ==
    /\ Shapes
    /\ Settings /\ Progress /\ Pending /\ Marked /\ Held
    /\ OneCopyPerMarker /\ TransferredIsThere /\ LastUidCovers

\* While a run has UIDs left, the one it handles next is the least of them.
LEMMA CurrentIsLeast ==
    ASSUME WorkerShape, Alive, worker.uids # {}
    PROVE  Current \in worker.uids /\ \A v \in worker.uids : Current <= v
<1>1. worker.uids \subseteq Nat
  BY DEF WorkerShape
<1>2. IsWellFoundedOn(OpToRel(<, Nat), Nat)
  BY NatLessThanWellFounded
<1>3. PICK least \in worker.uids : \A v \in worker.uids : ~(<<v, least>> \in OpToRel(<, Nat))
  BY <1>1, <1>2, WFMin
<1>4. \A v \in worker.uids : v < least => <<v, least>> \in OpToRel(<, Nat)
  BY <1>1 DEF OpToRel
<1>5. \A v \in worker.uids : v \in Nat /\ least \in Nat /\ ~(v < least)
  BY <1>1, <1>3, <1>4
<1>6. \A v \in worker.uids : least <= v
  BY <1>5
<1> QED BY <1>6 DEF Current, Min

\* The larger of two UIDs, as RecordHandledMessage takes it, is one of them and neither is above it.
LEMMA LargerOfTwo ==
    ASSUME NEW a \in Nat, NEW b \in Nat
    PROVE  Max({a, b}) \in {a, b} /\ a <= Max({a, b}) /\ b <= Max({a, b})
<1>1. PICK larger \in {a, b} : \A x \in {a, b} : larger >= x
  <2>1. CASE a >= b
    BY <2>1
  <2>2. CASE b >= a
    BY <2>2
  <2> QED BY <2>1, <2>2
<1> QED BY <1>1 DEF Max

\* What a step leaves of the row.
SameSettings(r) == r.secret = routine.secret /\ r.folder = routine.folder /\ r.age = routine.age
SameProgress(r) == r.epoch = routine.epoch /\ r.last = routine.last

\* Writing the state of a routine changes nothing else of its row, and nothing at all of a disabled one.
LEMMA ShowsState ==
    ASSUME RoutineShape(routine), NEW state
    PROVE  /\ RoutineShape(Shows(state)) /\ SameSettings(Shows(state)) /\ SameProgress(Shows(state))
           /\ Shows(state).enabled = routine.enabled
           /\ routine.enabled => Shows(state).state = state
<1>1. CASE routine.enabled
  BY <1>1 DEF Shows, RoutineShape, SameSettings, SameProgress
<1>2. CASE ~routine.enabled
  BY <1>2 DEF Shows, SameSettings, SameProgress
<1> QED BY <1>1, <1>2

\* Every request leaves a well-formed row.
LEMMA MutationShape == ASSUME Shapes, MutationRuns PROVE RoutineShape(routine')
<1>1. RoutineShape(Progressless(routine))
  BY DEF Shapes, RoutineShape, Progressless
<1>2. RoutineShape(OtherSource(routine))
  BY <1>1 DEF RoutineShape, OtherSource
<1>3. change \in Requests /\ routine' = Mutated(change)
  BY DEF MutationRuns
<1>4. CASE change \in {"pause", "resume"}
  BY <1>3, <1>4 DEF Mutated, Shapes, RoutineShape
<1>5. CASE change = "date"
  BY <1>1, <1>3, <1>5 DEF Mutated
<1>6. CASE change = "folder"
  <2>1. routine' = [Progressless(routine) EXCEPT !.folder = 3 - @]
    BY <1>3, <1>6 DEF Mutated
  <2>2. 3 - Progressless(routine).folder \in {1, 2}
    BY <1>1 DEF RoutineShape
  <2> QED BY <1>1, <2>1, <2>2 DEF RoutineShape
<1>7. CASE change = "delete"
  BY <1>1, <1>3, <1>7 DEF Mutated, RoutineShape
<1>8. CASE change = "source"
  BY <1>2, <1>3, <1>8 DEF Mutated
<1> QED BY <1>3, <1>4, <1>5, <1>6, <1>7, <1>8 DEF Requests

\* The row after a search of a renumbered source, and after a message was recorded.
Renews ==
    /\ RunSearches /\ ~recovery /\ routine'.epoch = source.epoch /\ routine'.last = 0
    /\ routine'.enabled = routine.enabled /\ SameSettings(routine') /\ routine'.state = routine.state
Records ==
    /\ RunRecords /\ routine'.epoch = worker.epoch /\ routine'.last = Max({routine.last, Current})
    /\ routine'.enabled = routine.enabled /\ SameSettings(routine') /\ routine'.state = routine.state

\* A step keeps settings and progress of the row, or renews it after a renumbering, or records a message,
\* or disables it, or is a request.
LEMMA RoutineSteps ==
    ASSUME Shapes, Progress, [RemoteNext]_remoteVars
    PROVE  /\ RoutineShape(routine')
           /\ \/ SameSettings(routine') /\ SameProgress(routine') /\ routine'.enabled = routine.enabled
              \/ Renews \/ Records
              \/ RunSuspends /\ SameSettings(routine') /\ SameProgress(routine')
              \/ MutationRuns
<1> RoutineShape(routine)
  BY DEF Shapes
<1>1. CASE RunSearches
  <2>1. CASE recovery
    BY <1>1, <2>1, ShowsState DEF RunSearches, Defers
  <2>2. CASE ~recovery
    <3>1. \/ routine' = routine
          \/ routine' = [routine EXCEPT !.epoch = source.epoch, !.last = 0]
      BY <1>1, <2>2 DEF RunSearches
    <3>2. source.epoch \in Nat
      BY DEF Shapes, SourceShape
    <3>3. CASE routine' = routine
      BY <3>3 DEF SameSettings, SameProgress
    <3>4. CASE routine' = [routine EXCEPT !.epoch = source.epoch, !.last = 0]
      BY <1>1, <2>2, <3>2, <3>4 DEF Renews, SameSettings, RoutineShape
    <3> QED BY <3>1, <3>3, <3>4
  <2> QED BY <2>1, <2>2
<1>2. CASE RunRecords
  <2>1. Alive /\ worker.pc \in {"record", "skip"} /\ worker.uids # {} /\ worker.epoch \in Nat /\ Current \in Nat
    BY <1>2, CurrentIsLeast DEF RunRecords, Progress, In, Holding, Searched, Shapes, WorkerShape
  <2>2. routine' = [routine EXCEPT !.epoch = worker.epoch, !.last = Max({routine.last, Current})]
    BY <1>2 DEF RunRecords, RecordHandledMessage
  <2>3. Max({routine.last, Current}) \in Nat
    BY <2>1, LargerOfTwo DEF RoutineShape
  <2> QED BY <1>2, <2>1, <2>2, <2>3 DEF Records, RoutineShape, SameSettings
<1>3. CASE RunSuspends
  BY <1>3 DEF RunSuspends, RoutineShape, SameSettings, SameProgress
<1>4. CASE MutationRuns
  BY <1>4, MutationShape
<1>5. CASE RunBegins \/ RunOpens \/ RunReacquires \/ RunEnds \/ RunFails \/ AppendUnconfirmed
  BY <1>5, ShowsState DEF RunBegins, RunOpens, RunReacquires, RunEnds, RunFails, AppendUnconfirmed, Defers,
      Completes, SameSettings, SameProgress
<1>6. CASE RunFetches \/ WorkerEnds
  BY <1>6, ShowsState DEF RunFetches, WorkerEnds, Defers, SameSettings, SameProgress
<1>7. CASE PluginStarts
  BY <1>7 DEF PluginStarts, RecoverInterrupted, RoutineShape, SameSettings, SameProgress
<1>8. CASE routine' = routine
  BY <1>8 DEF SameSettings, SameProgress
<1> QED
  BY <1>1, <1>2, <1>3, <1>4, <1>5, <1>6, <1>7, <1>8
  DEF RemoteNext, WorkerStep, ManagerStep, RecoveryStep, remoteVars, SourceGrows, SourceLoses, SourceRenumbers,
      RunStarts, RunReads, RecoveryAwaited, RunAcquires, RunAppends, RunYields, RetryWakes, AcquireTimesOut,
      Reconcile, ReconcileWaited, PluginStopped, MutateRoutine, PluginStops, RemoteCrash, RecoverySignalled,
      RecoveryTakes, RecoveryEnds

\* The source keeps its UIDVALIDITY and what is under a UID that was given, gets another one, or
\* is exchanged for another source.
SourceKeeps ==
    /\ SourceShape' /\ source'.epoch = source.epoch /\ source.next <= source'.next
    /\ \A u \in DOMAIN source'.box : u < source.next => u \in DOMAIN source.box /\ source'.box[u] = source.box[u]
Renumbers == SourceRenumbers /\ SourceShape' /\ source'.epoch = source.epoch + 1
Exchanged == MutationRuns /\ change = "source" /\ SourceShape' /\ source'.epoch = source.epoch

\* A message that arrives in the source takes the next UID and leaves the others alone.
LEMMA GrownSource ==
    ASSUME SourceShape, NEW text \in Texts, NEW secret \in Nat,
           source' = [source EXCEPT !.box = Grown(@, source.next, text, secret), !.next = @ + 1]
    PROVE  SourceKeeps
<1>1. /\ source'.box = Grown(source.box, source.next, text, secret) /\ source'.next = source.next + 1
      /\ source'.epoch = source.epoch /\ DOMAIN source' = DOMAIN source
  OBVIOUS
<1>2. /\ DOMAIN source'.box = DOMAIN source.box \cup {source.next}
      /\ source'.box[source.next] = [text |-> text, secret |-> secret]
      /\ \A u \in DOMAIN source.box : u # source.next => source'.box[u] = source.box[u]
  BY <1>1 DEF Grown
<1>3. [text |-> text, secret |-> secret] \in SourceMail
  BY DEF SourceMail
<1>4. SourceShape'
  <2>1. source'.next \in Nat \ {0} /\ DOMAIN source'.box \subseteq 1..(source'.next - 1)
    BY <1>1, <1>2 DEF SourceShape
  <2>2. \A u \in DOMAIN source'.box : source'.box[u] \in SourceMail
    <3> SUFFICES ASSUME NEW u \in DOMAIN source'.box PROVE source'.box[u] \in SourceMail
      OBVIOUS
    <3>1. CASE u = source.next
      BY <1>2, <1>3, <3>1
    <3>2. CASE u # source.next
      BY <1>2, <3>2 DEF SourceShape
    <3> QED BY <3>1, <3>2
  <2> QED BY <1>1, <2>1, <2>2 DEF SourceShape
<1>5. \A u \in DOMAIN source'.box : u < source.next => u \in DOMAIN source.box /\ u # source.next
  BY <1>2 DEF SourceShape
<1> QED BY <1>1, <1>2, <1>4, <1>5 DEF SourceShape, SourceKeeps

\* A renumbered source has the next UIDVALIDITY.
LEMMA RenumberedSource == ASSUME SourceShape, SourceRenumbers PROVE Renumbers
<1> DEFINE count == Cardinality(DOMAIN source.box)
<1>1. count \in Nat
  <2>1. IsFiniteSet(1..(source.next - 1))
    BY FS_Interval DEF SourceShape
  <2> QED BY <2>1, FS_Subset, FS_CardinalityType DEF SourceShape
<1>2. PICK kept \in [1..count -> DOMAIN source.box] :
        source' = [epoch |-> source.epoch + 1, next |-> count + 1, box |-> [u \in 1..count |-> source.box[kept[u]]]]
  BY DEF SourceRenumbers
<1> HIDE DEF count
<1>3. /\ DOMAIN source' = {"epoch", "box", "next"} /\ source'.epoch = source.epoch + 1 /\ source'.next = count + 1
      /\ DOMAIN source'.box = 1..count /\ \A u \in 1..count : source'.box[u] = source.box[kept[u]]
  BY <1>2
<1> QED BY <1>1, <1>2, <1>3 DEF SourceShape, Renumbers

\* After an APPEND a copy with the marker of the run is in its folder, one at most is new, and the source
\* has at most grown by it.
LEMMA Copying ==
    ASSUME Shapes, Settings, Progress, AppendMessageWithSyncMarker, In({"append"})
    PROVE  /\ SourceKeeps
           /\ dest' = dest \/ (~FindMessageBySyncMarker /\ dest' = Appended)
           /\ \E i \in DOMAIN dest' : dest'[i].marker = Marker /\ dest'[i].folder = worker.item.folder
           /\ dest' \in Seq(Copies)
<1>1. /\ worker.raw.text \in Texts /\ worker.raw \in SourceMail /\ RoutineShape(worker.item)
      /\ worker.epoch \in Nat /\ Current \in Nat
  BY CurrentIsLeast DEF In, Progress, Holding, Searched, Shapes, WorkerShape, SourceMail
<1>2. CASE FindMessageBySyncMarker
  BY <1>2 DEF AppendMessageWithSyncMarker, server, SourceKeeps, Shapes, SourceShape, FindMessageBySyncMarker
<1>3. CASE ~FindMessageBySyncMarker
  <2>1. dest' = Appended /\ source' = Echoed
    BY <1>3 DEF AppendMessageWithSyncMarker
  <2>2. SourceKeeps
    <3>1. CASE source' = source
      BY <3>1 DEF SourceKeeps, Shapes, SourceShape
    <3>2. CASE source' # source
      <4>1. source' = [source EXCEPT !.box = Grown(@, source.next, worker.raw.text, worker.item.secret), !.next = @ + 1]
        BY <2>1, <3>2 DEF Echoed
      <4> QED BY <1>1, <4>1, GrownSource DEF Shapes, RoutineShape
    <3> QED BY <3>1, <3>2
  <2> DEFINE copy == [marker |-> Marker, text |-> worker.raw.text, folder |-> worker.item.folder, age |-> worker.item.age]
  <2>3. copy \in Copies
    BY <1>1 DEF Copies, Marker, RoutineShape
  <2>4. dest' = Append(dest, copy)
    BY <2>1 DEF Appended
  <2>5. copy.marker = Marker /\ copy.folder = worker.item.folder
    OBVIOUS
  <2> HIDE DEF copy
  <2>6. dest' \in Seq(Copies) /\ Len(dest) + 1 \in DOMAIN dest' /\ dest'[Len(dest) + 1] = copy
    BY <2>3, <2>4 DEF Shapes
  <2> QED BY <1>3, <2>1, <2>2, <2>5, <2>6
<1> QED BY <1>2, <1>3

\* The one way in which the destination changes.
CopiesOnce == In({"append"}) /\ ~FindMessageBySyncMarker /\ dest' = Appended

\* What a step does to source and destination.
LEMMA ServerSteps ==
    ASSUME Shapes, Settings, Progress, [RemoteNext]_remoteVars
    PROVE  /\ SourceKeeps \/ Renumbers \/ Exchanged
           /\ dest' \in Seq(Copies) /\ (dest' = dest \/ CopiesOnce)
           /\ dest' # dest => SourceKeeps
<1>1. CASE \E text \in Contents : SourceGrows(text)
  <2>1. PICK text \in Contents : SourceGrows(text)
    BY <1>1
  <2> QED BY <2>1, GrownSource DEF SourceGrows, Texts, NoSecret, Shapes
<1>2. ASSUME NEW uid, SourceLoses(uid) PROVE SourceKeeps /\ dest' = dest
  <2>1. source' = [source EXCEPT !.box = [u \in DOMAIN source.box \ {uid} |-> source.box[u]]]
    BY <1>2 DEF SourceLoses
  <2>2. /\ DOMAIN source' = DOMAIN source /\ source'.epoch = source.epoch /\ source'.next = source.next
        /\ DOMAIN source'.box = DOMAIN source.box \ {uid}
        /\ \A u \in DOMAIN source'.box : source'.box[u] = source.box[u]
    BY <2>1
  <2> QED BY <1>2, <2>2 DEF SourceLoses, SourceKeeps, Shapes, SourceShape
<1>3. CASE SourceRenumbers
  BY <1>3, RenumberedSource DEF Shapes, SourceRenumbers
<1>4. CASE RunAppends \/ AppendUnconfirmed
  <2>1. In({"append"}) /\ AppendMessageWithSyncMarker
    BY <1>4 DEF RunAppends, AppendUnconfirmed, At, In
  <2> QED BY <2>1, Copying DEF CopiesOnce
<1>5. CASE WorkerEnds
  <2>1. CASE UNCHANGED server
    BY <2>1 DEF server, SourceKeeps, Shapes, SourceShape
  <2>2. CASE ~ UNCHANGED server
    <3>1. In({"append"}) /\ AppendMessageWithSyncMarker
      BY <1>5, <2>2 DEF WorkerEnds, In
    <3> QED BY <3>1, Copying DEF CopiesOnce
  <2> QED BY <2>1, <2>2
<1>6. CASE MutationRuns
  <2>1. dest' = dest
    BY <1>6 DEF MutationRuns
  <2>2. CASE change = "source"
    <3>1. source' = [source EXCEPT !.box = [u \in {1} |-> [text |-> "other", secret |-> NoSecret]], !.next = 2]
      BY <1>6, <2>2 DEF MutationRuns, OtherFolder
    <3>2. /\ DOMAIN source' = DOMAIN source /\ source'.epoch = source.epoch /\ source'.next = 2
          /\ source'.box = [u \in {1} |-> [text |-> "other", secret |-> NoSecret]]
      BY <3>1
    <3>3. [text |-> "other", secret |-> NoSecret] \in SourceMail
      BY DEF SourceMail, Texts, NoSecret
    <3>4. SourceShape'
      BY <3>2, <3>3 DEF Shapes, SourceShape
    <3> QED BY <1>6, <2>1, <2>2, <3>2, <3>4 DEF Exchanged, Shapes
  <2>3. CASE change # "source"
    BY <1>6, <2>1, <2>3 DEF MutationRuns, SourceKeeps, Shapes, SourceShape
  <2> QED BY <2>2, <2>3
<1>7. CASE UNCHANGED server
  BY <1>7 DEF server, SourceKeeps, Shapes, SourceShape
<1> QED
  BY <1>1, <1>2, <1>3, <1>4, <1>5, <1>6, <1>7
  DEF RemoteNext, WorkerStep, ManagerStep, RecoveryStep, remoteVars, server, RunStarts, RunReads, RecoveryAwaited,
      RunAcquires, RunBegins, RunSearches, RunOpens, RunFetches, RunRecords, RunYields, RunReacquires, RunEnds,
      RunFails, RunSuspends, RetryWakes, AcquireTimesOut, Reconcile, ReconcileWaited, PluginStopped, PluginStarts,
      MutateRoutine, PluginStops, RemoteCrash, RecoverySignalled, RecoveryTakes, RecoveryEnds, Shapes

\* What a step makes of the worker: it is gone or new, moves on with all that it holds, or
\* searches, fetches or records.
Moves == {<<"wait", "acquire">>, <<"acquire", "begin">>, <<"begin", "search">>, <<"open", "fetch">>, <<"append", "record">>,
          <<"pause", "reacquire">>, <<"reacquire", "fetch">>}
Lasts == worker'.stop \in BOOLEAN /\ DOMAIN worker' = DOMAIN worker /\ (worker.stop => worker'.stop)
Continues ==
    /\ Alive /\ Alive' /\ Lasts
    /\ worker'.item = worker.item /\ worker'.epoch = worker.epoch /\ worker'.uids = worker.uids /\ worker'.raw = worker.raw
    /\ worker'.pc \in {worker.pc, "idle", "sleep", "read"} \/ <<worker.pc, worker'.pc>> \in Moves
    /\ <<worker.pc, worker'.pc>> = <<"append", "record">> => RunAppends
Reads ==
    /\ Alive' /\ WorkerShape' /\ worker'.item = routine /\ worker'.pc \in {"idle", "wait"} /\ ~worker'.stop
    /\ routine' = routine /\ (worker'.pc = "wait" => routine.enabled)
    /\ change = NoChange
Searches ==
    /\ RunSearches /\ ~recovery /\ Alive /\ Alive' /\ Lasts
    /\ worker'.item = worker.item /\ worker'.epoch = source.epoch /\ worker'.pc = "open"
    /\ worker'.uids = UidsAbove(routine'.last)
    /\ Renews \/ (routine' = routine /\ worker.item.epoch \in {0, source.epoch})
Takes ==
    /\ RunFetches /\ Alive /\ Alive' /\ Lasts
    /\ worker'.item = worker.item /\ worker'.epoch = worker.epoch /\ worker'.uids = worker.uids
    /\ worker.uids # {} /\ Current \in DOMAIN source.box /\ worker'.raw = source.box[Current] /\ worker'.pc \in {"append", "skip"}
Drops ==
    /\ RunFetches /\ Alive /\ Alive' /\ Lasts
    /\ worker'.item = worker.item /\ worker'.epoch = worker.epoch /\ worker'.uids = worker.uids \ {Current}
    /\ Current \notin DOMAIN source.box /\ worker'.pc = worker.pc
Passes ==
    /\ RunRecords /\ Alive /\ Alive' /\ Lasts
    /\ worker'.item = worker.item /\ worker'.epoch = worker.epoch /\ worker'.uids = worker.uids \ {Current}
    /\ worker'.pc \in {"fetch", "pause"}

\* What a step does to the worker.
LEMMA WorkerSteps ==
    ASSUME Shapes, Settings, [RemoteNext]_remoteVars
    PROVE  /\ WorkerShape'
           /\ ~Alive' \/ Continues \/ Reads \/ Searches \/ Takes \/ Drops \/ Passes
<1> WorkerShape /\ RoutineShape(routine) /\ WorkerShape
  BY DEF Shapes
<1>1. ASSUME Continues PROVE WorkerShape'
  BY <1>1 DEF Continues, Lasts, WorkerShape
<1>2. CASE RunReads
  <2>1. Alive /\ worker' = [worker EXCEPT !.pc = IF routine.enabled THEN "wait" ELSE "idle", !.item = routine, !.scanned = 0]
    BY <1>2 DEF RunReads, At
  <2>2. /\ DOMAIN worker' = DOMAIN worker /\ worker'.pc = IF routine.enabled THEN "wait" ELSE "idle"
        /\ worker'.item = routine /\ worker'.uids = worker.uids /\ worker'.stop = worker.stop
    BY <2>1
  <2>3. Alive'
    BY <2>1, <2>2 DEF Alive, NoWorker
  <2> QED BY <1>2, <2>1, <2>2, <2>3 DEF RunReads, At, Reads, WorkerShape, Settings
<1>3. CASE Reconcile
  <2>1. CASE Alive
    BY <1>1, <1>3, <2>1 DEF Reconcile, Stopped, Continues, Lasts, Alive, WorkerShape
  <2>2. CASE ~Alive
    <3>1. /\ worker' = [pc |-> "idle", stop |-> FALSE, item |-> routine, epoch |-> 0, uids |-> {}, raw |-> <<>>, scanned |-> 0]
          /\ routine' = routine /\ change = NoChange
      BY <1>3, <2>2 DEF Reconcile
    <3> QED BY <3>1 DEF Reads, WorkerShape, NoWorker
  <2> QED BY <2>1, <2>2
<1>4. CASE RunSearches
  <2>1. CASE recovery
    BY <1>1, <1>4, <2>1 DEF RunSearches, Defers, At, Continues, Lasts, Alive, WorkerShape
  <2>2. CASE ~recovery
    <3> DEFINE renewed == worker.item.epoch # 0 /\ worker.item.epoch # source.epoch
               last == IF renewed THEN 0 ELSE worker.item.last
    <3>1. /\ Alive /\ worker.pc = "search" /\ ~worker.stop
          /\ routine' = IF renewed THEN [routine EXCEPT !.epoch = source.epoch, !.last = 0] ELSE routine
          /\ worker' = [worker EXCEPT !.pc = "open", !.epoch = source.epoch, !.uids = UidsAbove(last)]
      BY <1>4, <2>2 DEF RunSearches, At
    <3>2. /\ DOMAIN worker' = DOMAIN worker /\ worker'.pc = "open" /\ worker'.epoch = source.epoch
          /\ worker'.uids = UidsAbove(last) /\ worker'.stop = worker.stop /\ worker'.item = worker.item
      BY <3>1
    <3>3. Alive' /\ WorkerShape'
      <4>1. UidsAbove(last) \subseteq Nat
        BY DEF UidsAbove, Shapes, SourceShape
      <4> QED BY <3>1, <3>2, <4>1 DEF Alive, WorkerShape, NoWorker
    <3>4. /\ last = routine'.last /\ (Renews \/ (routine' = routine /\ worker.item.epoch \in {0, source.epoch}))
      <4>1. CASE renewed
        BY <1>4, <2>2, <3>1, <4>1 DEF Renews, SameSettings
      <4>2. CASE ~renewed
        BY <3>1, <4>2 DEF Settings, In, Searching
      <4> QED BY <4>1, <4>2
    <3> HIDE DEF last, renewed
    <3> QED BY <1>4, <2>2, <3>1, <3>2, <3>3, <3>4 DEF Searches, Lasts, WorkerShape
  <2> QED BY <2>1, <2>2
<1>5. CASE RunFetches
  <2>1. Alive /\ worker.pc = "fetch" /\ worker.uids # {}
    BY <1>5 DEF RunFetches, At
  <2>2. CASE Current \notin DOMAIN source.box
    BY <1>5, <2>1, <2>2 DEF RunFetches, Drops, Lasts, Alive, WorkerShape
  <2>3. CASE Current \in DOMAIN source.box /\ recovery
    BY <1>1, <1>5, <2>1, <2>3 DEF RunFetches, Defers, Continues, Lasts, Alive, WorkerShape
  <2>4. CASE Current \in DOMAIN source.box /\ ~recovery
    <3>1. PICK place \in {"append", "skip"} :
             worker' = [worker EXCEPT !.pc = place, !.raw = source.box[Current], !.scanned = @ + 1]
      <4>1. \/ worker' = [worker EXCEPT !.pc = "append", !.raw = source.box[Current], !.scanned = @ + 1]
            \/ worker' = [worker EXCEPT !.pc = "skip", !.raw = source.box[Current], !.scanned = @ + 1]
        BY <1>5, <2>4 DEF RunFetches
      <4> QED BY <4>1
    <3>2. /\ DOMAIN worker' = DOMAIN worker /\ worker'.pc = place /\ worker'.epoch = worker.epoch
          /\ worker'.uids = worker.uids /\ worker'.stop = worker.stop /\ worker'.item = worker.item
          /\ worker'.raw = source.box[Current]
      BY <2>1, <3>1
    <3>3. Alive'
      BY <2>1, <3>2 DEF Alive, NoWorker
    <3> QED BY <1>5, <2>1, <2>4, <3>2, <3>3 DEF Takes, Lasts, WorkerShape
  <2> QED BY <2>2, <2>3, <2>4
<1>6. CASE RunRecords
  <2>1. Alive
    BY <1>6 DEF RunRecords
  <2>2. PICK place \in {"fetch", "pause"} : worker' = [worker EXCEPT !.uids = @ \ {Current}, !.pc = place]
    <3>1. \/ worker' = [worker EXCEPT !.uids = @ \ {Current}, !.pc = "pause"]
          \/ worker' = [worker EXCEPT !.uids = @ \ {Current}, !.pc = "fetch"]
      BY <1>6 DEF RunRecords
    <3> QED BY <3>1
  <2>3. /\ DOMAIN worker' = DOMAIN worker /\ worker'.pc = place /\ worker'.epoch = worker.epoch
        /\ worker'.uids = worker.uids \ {Current} /\ worker'.stop = worker.stop /\ worker'.item = worker.item
    BY <2>1, <2>2
  <2>4. Alive'
    BY <2>1, <2>3 DEF Alive, NoWorker
  <2> QED BY <1>6, <2>1, <2>3, <2>4 DEF Passes, Lasts, WorkerShape
<1>7. CASE RunAppends
  BY <1>1, <1>7 DEF RunAppends, At, Goes, Continues, Moves, Lasts, Alive, WorkerShape
<1>8. CASE RunStarts \/ RecoveryAwaited \/ AcquireTimesOut \/ RunBegins \/ RunYields \/ RetryWakes \/ AppendUnconfirmed \/ RunFails
  BY <1>1, <1>8 DEF RunStarts, RecoveryAwaited, AcquireTimesOut, RunBegins, RunYields, RetryWakes,
      AppendUnconfirmed, RunFails, At, Goes, Continues, Moves, Lasts, Alive, WorkerShape
<1>9. CASE RunAcquires
  BY <1>1, <1>9 DEF RunAcquires, At, Acquire, Continues, Moves, Lasts, Alive, WorkerShape
<1>10. CASE RunOpens \/ RunEnds
  BY <1>1, <1>10 DEF RunOpens, RunEnds, At, Goes, Defers, Completes, Continues, Moves, Lasts, Alive, WorkerShape
<1>11. CASE RunReacquires
  BY <1>1, <1>11 DEF RunReacquires, At, Acquire, Defers, Continues, Moves, Lasts, Alive, WorkerShape
<1>12. CASE RunSuspends
  BY <1>1, <1>12 DEF RunSuspends, Continues, Moves, Lasts, Alive, WorkerShape
<1>13. CASE WorkerEnds \/ RemoteCrash
  BY <1>13 DEF WorkerEnds, RemoteCrash, Alive, WorkerShape
<1>14. CASE PluginStops \/ (\E kind \in Requests : MutateRoutine(kind))
  <2>1. worker' = Stopped
    BY <1>14 DEF PluginStops, MutateRoutine
  <2> QED BY <1>1, <2>1 DEF Stopped, Continues, Lasts, Alive, NoWorker, WorkerShape
<1>15. CASE worker' = worker
  <2>1. CASE Alive
    BY <1>1, <1>15, <2>1 DEF Continues, Moves, Lasts, WorkerShape
  <2>2. CASE ~Alive
    BY <1>15, <2>2 DEF Alive, WorkerShape
  <2> QED BY <2>1, <2>2
<1> QED
  BY <1>2, <1>3, <1>4, <1>5, <1>6, <1>7, <1>8, <1>9, <1>10, <1>11, <1>12, <1>13, <1>14, <1>15
  DEF RemoteNext, WorkerStep, ManagerStep, RecoveryStep, remoteVars, SourceGrows, SourceLoses, SourceRenumbers,
      ReconcileWaited, MutationRuns, PluginStopped, PluginStarts, RecoverySignalled, RecoveryTakes, RecoveryEnds

\* A request changes the row only when no worker is left.
LEMMA MutationsAreAlone == ASSUME Settings, MutationRuns PROVE ~Alive /\ ~Alive'
  BY DEF Settings, MutationRuns, Requests, NoChange, StopReturned, Alive

\* While a request waits for its turn, the worker is told to stop and stays so.
LEMMA ChangeWaits == ASSUME Settings, Shapes, [RemoteNext]_remoteVars PROVE change' # NoChange => (Alive' => worker'.stop)
<1>1. CASE Reconcile
  BY <1>1 DEF Settings, Reconcile, Stopped, Alive, NoWorker, Shapes, WorkerShape
<1>2. CASE PluginStops \/ (\E kind \in Requests : MutateRoutine(kind))
  <2>1. worker' = Stopped
    BY <1>2 DEF PluginStops, MutateRoutine
  <2> QED BY <2>1 DEF Stopped, Alive, NoWorker, Shapes, WorkerShape
<1>3. CASE ReconcileWaited \/ MutationRuns \/ PluginStopped \/ RemoteCrash
  BY <1>3 DEF ReconcileWaited, MutationRuns, PluginStopped, RemoteCrash
<1>4. CASE change' = change /\ (Alive' => Alive /\ (worker.stop => worker'.stop))
  BY <1>4 DEF Settings
<1>5. WorkerShape' /\ (~Alive' \/ Continues \/ Reads \/ Searches \/ Takes \/ Drops \/ Passes)
  BY WorkerSteps
<1>6. change' = change \/ Reconcile \/ PluginStops \/ (\E kind \in Requests : MutateRoutine(kind)) \/ ReconcileWaited \/ MutationRuns \/ PluginStopped \/ RemoteCrash
  BY DEF RemoteNext, WorkerStep, ManagerStep, RecoveryStep, remoteVars, SourceGrows, SourceLoses, SourceRenumbers,
      RunStarts, RunReads, RecoveryAwaited, RunAcquires, RunBegins, RunSearches, RunOpens, RunFetches, RunAppends,
      RunRecords, RunYields, RunReacquires, RunEnds, RunFails, RunSuspends, RetryWakes, WorkerEnds,
      AcquireTimesOut, AppendUnconfirmed, PluginStarts, RecoverySignalled, RecoveryTakes, RecoveryEnds
<1>7. CASE change' = change /\ Reads
  BY <1>7 DEF Reads
<1> QED BY <1>1, <1>2, <1>3, <1>4, <1>5, <1>6, <1>7 DEF Continues, Searches, Takes, Drops, Passes, Lasts

\* The part of the settings that is about the state shown.
SyncState == (routine.state = "syncing" => routine.enabled) /\ SyncingIsRunning

\* Syncing is shown by a run, which is of an enabled routine.
LEMMA StateKept == ASSUME Settings, Shapes, [RemoteNext]_remoteVars PROVE SyncState'
<1> RoutineShape(routine) /\ WorkerShape
  BY DEF Shapes
<1>0. SyncingIsRunning /\ (In(RunPcs) => routine.enabled) /\ (routine.state = "syncing" => routine.enabled)
  BY DEF Settings, In, RunPcs, Searched, Searching
<1>1. CASE RunStarts \/ RunReads \/ RecoveryAwaited \/ RunAcquires \/ AcquireTimesOut \/ RetryWakes
  BY <1>0, <1>1 DEF SyncState, SyncingIsRunning, RunStarts, RunReads, RecoveryAwaited, RunAcquires,
      AcquireTimesOut, RetryWakes, At, Goes, RunPcs
<1>2. CASE RunBegins
  BY <1>0, <1>2, ShowsState DEF SyncState, SyncingIsRunning, RunBegins, Shows, At, Goes, RunPcs, Alive, NoWorker
<1>3. CASE RunSearches
  <2>1. CASE recovery
    BY <1>0, <1>3, <2>1, ShowsState DEF SyncState, SyncingIsRunning, RunSearches, Defers, At, In, RunPcs
  <2>2. CASE ~recovery
    <3>1. routine'.state = routine.state /\ routine'.enabled = routine.enabled
      BY <1>3, <2>2 DEF RunSearches, RoutineShape
    <3>2. In({"open"})' /\ manager' = manager
      BY <1>3, <2>2 DEF RunSearches, In, At, Alive, NoWorker, WorkerShape
    <3> QED BY <1>0, <3>1, <3>2 DEF SyncState, SyncingIsRunning, In, RunPcs
  <2> QED BY <2>1, <2>2
<1>4. CASE RunOpens \/ RunEnds \/ RunReacquires \/ RunFetches
  <2>1. CASE routine' = routine /\ manager' = manager /\ (In(RunPcs) => In(RunPcs)')
    BY <1>0, <2>1 DEF SyncState, SyncingIsRunning, In
  <2>2. CASE (routine' = Shows("watching") \/ routine' = Shows("queued")) /\ In(RunPcs)
    BY <1>0, <2>2, ShowsState DEF SyncState, SyncingIsRunning
  <2> QED BY <1>4, <2>1, <2>2 DEF RunOpens, RunEnds, RunReacquires, RunFetches, Defers, Completes, Acquire, Goes,
      At, In, RunPcs, Alive, NoWorker, WorkerShape
<1>5. CASE RunAppends \/ RunYields
  BY <1>0, <1>5 DEF SyncState, SyncingIsRunning, RunAppends, RunYields, At, Goes, RunPcs, Alive, NoWorker, WorkerShape
<1>6. CASE RunFails \/ AppendUnconfirmed
  BY <1>0, <1>6, ShowsState DEF SyncState, SyncingIsRunning, RunFails, AppendUnconfirmed, At, In, RunPcs
<1>7. CASE RunRecords
  BY <1>0, <1>7 DEF SyncState, SyncingIsRunning, RunRecords, RecordHandledMessage, RunPcs, Alive, NoWorker,
      WorkerShape, RoutineShape
<1>8. CASE RunSuspends
  BY <1>0, <1>8 DEF SyncState, SyncingIsRunning, RunSuspends, RoutineShape
<1>9. CASE WorkerEnds
  BY <1>0, <1>9, ShowsState DEF SyncState, SyncingIsRunning, WorkerEnds, In
<1>10. CASE Reconcile
  BY <1>0, <1>10 DEF SyncState, SyncingIsRunning, Reconcile, Stopped, Alive
<1>11. CASE MutationRuns
  <2>1. routine'.state # "syncing"
    <3>1. CASE change \in {"pause", "resume", "date", "source"}
      BY <1>11, <3>1 DEF MutationRuns, Mutated, Progressless, OtherSource
    <3>2. CASE change \in {"folder", "delete"}
      BY <1>11, <3>2 DEF MutationRuns, Mutated, Progressless
    <3> QED BY <1>11, <3>1, <3>2 DEF MutationRuns, Requests
  <2> QED BY <2>1 DEF SyncState, SyncingIsRunning
<1>12. CASE PluginStops \/ (\E kind \in Requests : MutateRoutine(kind))
  BY <1>0, <1>12 DEF SyncState, SyncingIsRunning, PluginStops, MutateRoutine, Stopped, Alive, NoWorker, WorkerShape
<1>13. CASE PluginStopped \/ RemoteCrash
  BY <1>0, <1>13 DEF SyncState, SyncingIsRunning, PluginStopped, RemoteCrash
<1>14. CASE PluginStarts
  BY <1>0, <1>14 DEF SyncState, SyncingIsRunning, PluginStarts, RecoverInterrupted
<1>15. CASE UNCHANGED <<routine, worker, manager>>
  BY <1>0, <1>15 DEF SyncState, SyncingIsRunning, Alive
<1> QED
  BY <1>1, <1>2, <1>3, <1>4, <1>5, <1>6, <1>7, <1>8, <1>9, <1>10, <1>11, <1>12, <1>13, <1>14, <1>15
  DEF RemoteNext, WorkerStep, ManagerStep, RecoveryStep, remoteVars, SourceGrows, SourceLoses, SourceRenumbers,
      ReconcileWaited, RecoverySignalled, RecoveryTakes, RecoveryEnds

\* A worker keeps the settings of the row.
LEMMA SettingsKept == ASSUME Settings, Progress, Shapes, [RemoteNext]_remoteVars PROVE Settings'
<1>1. change' # NoChange => (Alive' => worker'.stop)
  BY ChangeWaits
<1>2. SyncState'
  BY StateKept
<1>3. CASE ~Alive'
  BY <1>2, <1>3 DEF Settings, SyncState, In
<1>4. CASE Alive'
  <2>1. ~MutationRuns
    BY <1>4, MutationsAreAlone
  <2>2. SameSettings(routine') /\ (Alive => SameSettings(worker.item))
    BY <2>1, RoutineSteps DEF Renews, Records, Settings, SameSettings
  <2>3. SameSettings(worker'.item)
    BY <1>4, <2>2, WorkerSteps DEF Continues, Reads, Searches, Takes, Drops, Passes
  <2>4. In(Searched \cup Searching)' => In(Searched \cup Searching) \/ Reads
    BY <1>4, WorkerSteps DEF Continues, Searches, RunSearches, Takes, RunFetches, Drops, Passes, RunRecords, At,
        In, Searched, Searching, Moves
  <2>5. In(Searched \cup Searching)' => routine'.enabled
    <3>1. CASE RunSuspends
      BY <3>1 DEF RunSuspends, In, Searched, Searching
    <3>2. CASE ~RunSuspends
      <4>1. routine'.enabled = routine.enabled
        BY <2>1, <3>2, RoutineSteps DEF Renews, Records
      <4> QED BY <2>4, <4>1 DEF Reads, Settings, In, Searched, Searching
    <3> QED BY <3>1, <3>2
  <2>6. In(Searching)' => worker'.item.epoch = routine'.epoch /\ worker'.item.last = routine'.last
    <3>1. CASE Reads
      BY <3>1 DEF Reads
    <3>2. CASE Continues /\ In(Searching)'
      <4>1. In(Searching)
        BY <3>2 DEF Continues, In, Searching, Moves
      <4>2. SameProgress(routine')
        BY <2>1, <3>2, RoutineSteps
        DEF Renews, RunSearches, Records, RunRecords, RunSuspends, In, Searching, Continues, Shapes, WorkerShape
      <4> QED BY <3>2, <4>1, <4>2 DEF Continues, Settings, SameProgress
    <3>3. CASE Searches \/ Takes \/ Drops \/ Passes
      BY <3>3 DEF Searches, Takes, Drops, Passes, RunFetches, At, In, Searching
    <3> QED BY <1>4, <3>1, <3>2, <3>3, WorkerSteps
  <2> QED BY <1>1, <1>2, <2>2, <2>3, <2>5, <2>6 DEF Settings, SyncState, SameSettings
<1> QED BY <1>3, <1>4

\* The last UID and the epoch of a run stay ones that the source has given out.
LEMMA ProgressKept ==
    ASSUME Settings, Progress, Pending, Shapes, [RemoteNext]_remoteVars
    PROVE  Progress'
<1> USE DEF Searched, Holding
<1>0. /\ RoutineShape(routine') /\ SourceShape /\ SourceShape' /\ RoutineShape(routine) /\ WorkerShape
      /\ source.epoch <= source'.epoch
  BY RoutineSteps, ServerSteps DEF Shapes, SourceShape, SourceKeeps, Renumbers, Exchanged
<1>1. routine'.epoch <= source'.epoch /\ (routine'.epoch = 0 => routine'.last = 0)
      /\ (routine'.epoch = source'.epoch => routine'.last < source'.next)
  <2>1. CASE SameProgress(routine') /\ ~MutationRuns
    BY <1>0, <2>1, ServerSteps
    DEF SameProgress, SourceKeeps, Renumbers, Exchanged, SourceShape, Progress, RoutineShape
  <2>2. CASE Renews
    BY <1>0, <2>2 DEF Renews, RunSearches, SourceShape
  <2>3. CASE Records
    <3>1. In(Searched) /\ worker.uids # {} /\ source' = source
      BY <2>3 DEF Records, RunRecords, In, Progress, server
    <3>2. Current \in worker.uids /\ Current \in Nat /\ worker.epoch \in Nat \ {0} /\ worker.epoch <= source.epoch
          /\ routine.epoch \in {0, worker.epoch} /\ Alive
      BY <1>0, <3>1, CurrentIsLeast DEF Progress, In, WorkerShape
    <3>3. routine'.last \in {routine.last, Current}
      BY <1>0, <2>3, <3>2, LargerOfTwo DEF Records, RoutineShape
    <3>4. worker.epoch = source.epoch => Current < source.next /\ routine.last < source.next
      BY <1>0, <3>1, <3>2 DEF Progress, Pending, SourceShape
    <3> QED BY <1>0, <2>3, <3>1, <3>2, <3>3, <3>4 DEF Records
  <2>4. CASE MutationRuns
    <3>1. CASE change \in {"pause", "resume"}
      BY <1>0, <2>4, <3>1, ServerSteps DEF MutationRuns, Mutated, RoutineShape, Progress
    <3>2. CASE change \notin {"pause", "resume"}
      <4>1. routine'.epoch = 0 /\ routine'.last = 0
        BY <1>0, <2>4, <3>2 DEF MutationRuns, Requests, Mutated, Progressless, OtherSource
      <4> QED BY <1>0, <4>1 DEF SourceShape
    <3> QED BY <3>1, <3>2
  <2> QED BY <2>1, <2>2, <2>3, <2>4, RoutineSteps
<1>2. In(Searched)' => /\ worker'.epoch \in Nat \ {0} /\ worker'.epoch <= source'.epoch
                       /\ routine'.epoch \in {0, worker'.epoch}
                       /\ (~renumbered' => worker'.epoch = source'.epoch)
  <2>1. CASE Searches
    <3>1. source' = source /\ worker'.epoch = source.epoch
      BY <2>1 DEF Searches, RunSearches, server
    <3>2. routine'.epoch \in {0, source.epoch}
      BY <2>1 DEF Searches, Renews, Settings, RunSearches, At, In, Searching
    <3> QED BY <1>0, <3>1, <3>2 DEF SourceShape
  <2>2. ASSUME In(Searched)', ~Searches
        PROVE  /\ worker'.epoch \in Nat \ {0} /\ worker'.epoch <= source'.epoch
               /\ routine'.epoch \in {0, worker'.epoch}
               /\ (~renumbered' => worker'.epoch = source'.epoch)
    <3>1. In(Searched) /\ worker'.epoch = worker.epoch
      BY <2>2, WorkerSteps DEF Continues, Moves, Reads, Takes, RunFetches, Drops, Passes, RunRecords, In, At
    <3>2. ~MutationRuns
      BY <2>2, MutationsAreAlone DEF In
    <3>3. worker.epoch \in Nat \ {0} /\ worker.epoch <= source'.epoch
      BY <1>0, <3>1 DEF Progress, SourceShape
    <3>4. routine'.epoch \in {0, worker.epoch}
      <4>1. ~Renews
        BY <3>1 DEF Renews, RunSearches, At, In
      <4> QED BY <3>1, <3>2, <4>1, RoutineSteps DEF SameProgress, Records, Progress
    <3>5. ~renumbered' => worker.epoch = source'.epoch
      <4>1. CASE SourceRenumbers
        BY <3>1, <4>1 DEF SourceRenumbers, In
      <4>2. CASE ~SourceRenumbers
        <5>1. source'.epoch = source.epoch
          BY <3>2, <4>2, ServerSteps DEF Renumbers, Exchanged, SourceKeeps
        <5>2. renumbered' = renumbered
          BY <3>2, <4>2 DEF RemoteNext, WorkerStep, ManagerStep, RecoveryStep, remoteVars, history, SourceGrows,
              SourceLoses, RunStarts, RunReads, RecoveryAwaited, RunAcquires, RunBegins, RunSearches, RunOpens,
              RunFetches, RunAppends, RunRecords, RunYields, RunReacquires, RunEnds, RunFails, RunSuspends,
              RetryWakes, WorkerEnds, AcquireTimesOut, AppendUnconfirmed, Reconcile, ReconcileWaited,
              PluginStopped, PluginStarts, MutateRoutine, PluginStops, RemoteCrash, RecoverySignalled,
              RecoveryTakes, RecoveryEnds
        <5> QED BY <3>1, <5>1, <5>2 DEF Progress
      <4> QED BY <4>1, <4>2
    <3> QED BY <3>1, <3>3, <3>4, <3>5
  <2> QED BY <2>1, <2>2
<1>3. In(Holding)' => worker'.uids # {} /\ worker'.raw \in SourceMail
  <2>1. CASE Takes
    BY <1>0, <2>1 DEF Takes, SourceShape
  <2>2. CASE Continues
    BY <2>2 DEF Continues, Moves, Progress, In
  <2>3. CASE Searches \/ Drops \/ Passes \/ Reads
    BY <2>3 DEF Searches, Drops, RunFetches, Passes, Reads, In, At
  <2> QED BY <2>1, <2>2, <2>3, WorkerSteps DEF In
<1> QED BY <1>1, <1>2, <1>3 DEF Progress

\* The ledger grows, or a request empties it.
LEMMA LedgerGrows ==
    ASSUME Settings, [RemoteNext]_remoteVars
    PROVE  /\ (MutationRuns /\ ledger' \in {ledger, {}}) \/ ledger \subseteq ledger'
           /\ RunRecords \/ ledger' \subseteq ledger
<1>1. CASE RunRecords
  BY <1>1 DEF RunRecords, RecordHandledMessage
<1>2. CASE MutationRuns
  BY <1>2 DEF MutationRuns
<1>3. CASE ledger' = ledger
  BY <1>3
<1> QED BY <1>1, <1>2, <1>3 DEF RemoteNext, WorkerStep, ManagerStep, RecoveryStep, remoteVars, SourceGrows,
    SourceLoses, SourceRenumbers, RunStarts, RunReads, RecoveryAwaited, RunAcquires, RunBegins, RunSearches,
    RunOpens, RunFetches, RunAppends, RunYields, RunReacquires, RunEnds, RunFails, RunSuspends, RetryWakes,
    WorkerEnds, AcquireTimesOut, AppendUnconfirmed, Reconcile, ReconcileWaited, PluginStopped, PluginStarts,
    MutateRoutine, PluginStops, RemoteCrash, RecoverySignalled, RecoveryTakes, RecoveryEnds

\* A message that is recorded is in the ledger under the epoch of the run.
LEMMA RecordedIsHandled ==
    ASSUME RunRecords
    PROVE  \E r \in ledger' : r.epoch = worker.epoch /\ r.uid = Current
<1>1. CASE HandledByUid(worker.epoch, Current, worker.raw)
  BY <1>1 DEF RunRecords, RecordHandledMessage, HandledByUid
<1>2. CASE ~HandledByUid(worker.epoch, Current, worker.raw)
  <2>1. PICK status : RecordHandledMessage(Current, status)
    BY DEF RunRecords
  <2> DEFINE row == [epoch |-> worker.epoch, uid |-> Current, text |-> worker.raw.text, status |-> status]
  <2>2. row \in ledger' /\ row.epoch = worker.epoch /\ row.uid = Current
    BY <1>2, <2>1 DEF RecordHandledMessage
  <2> QED BY <2>2
<1> QED BY <1>1, <1>2

\* No step leaves a message behind, neither to be fetched nor handled.
LEMMA PendingKept ==
    ASSUME Settings, Progress, Pending, LastUidCovers, Shapes, [RemoteNext]_remoteVars
    PROVE  Pending'
<1> USE DEF Searched, Holding
<1>0. /\ RoutineShape(routine') /\ SourceShape /\ SourceShape' /\ RoutineShape(routine) /\ WorkerShape
      /\ source.epoch <= source'.epoch
  BY RoutineSteps, ServerSteps DEF Shapes, SourceShape, SourceKeeps, Renumbers, Exchanged
<1> SUFFICES ASSUME In(Searched)', worker'.epoch = source'.epoch
             PROVE  /\ \A v \in worker'.uids : v < source'.next
                    /\ \A u \in DOMAIN source'.box, v \in worker'.uids :
                          u < v => u \in worker'.uids \/ \E r \in ledger' : r.epoch = source'.epoch /\ r.uid = u
  BY DEF Pending, HandledByUid
<1>1. ~MutationRuns
  BY MutationsAreAlone DEF In
<1>2. CASE Searches
  <2>1. source' = source /\ ledger' = ledger /\ worker'.uids = UidsAbove(routine'.last)
    BY <1>2 DEF Searches, RunSearches, server
  <2>2. \A u \in DOMAIN source.box : u \in Nat \ {0} /\ u < source.next
    BY <1>0 DEF SourceShape
  <2>3. routine'.epoch \in {0, source.epoch}
    BY <1>2 DEF Searches, Renews, Settings, RunSearches, At, In, Searching
  <2>4. routine'.last # 0 => routine' = routine /\ routine.epoch = source.epoch
    BY <1>2, <2>3 DEF Searches, Renews, Progress
  <2>5. \A u \in DOMAIN source.box : u <= routine'.last => \E r \in ledger : r.epoch = source.epoch /\ r.uid = u
    BY <1>0, <2>2, <2>4 DEF LastUidCovers, HandledByUid
  <2> QED BY <1>0, <2>1, <2>2, <2>5 DEF UidsAbove, RoutineShape
<1>3. CASE ~Searches
  <2>1. In(Searched) /\ worker'.epoch = worker.epoch /\ worker'.uids \subseteq worker.uids
    BY <1>3, WorkerSteps DEF Continues, Moves, Reads, Takes, RunFetches, Drops, Passes, RunRecords, In, At
  <2>2. worker.epoch <= source.epoch /\ worker.epoch \in Nat
    BY <2>1 DEF Progress
  <2>3. SourceKeeps
    BY <1>0, <1>1, <2>1, <2>2, ServerSteps DEF Renumbers, Exchanged, SourceShape
  <2>4. worker.epoch = source.epoch /\ source'.epoch = source.epoch
    BY <2>1, <2>3 DEF SourceKeeps
  <2>5. \A v \in worker.uids : v \in Nat /\ v < source.next
    BY <1>0, <2>1, <2>4 DEF Pending, WorkerShape, In
  <2>6. ledger \subseteq ledger'
    BY <1>1, LedgerGrows
  <2>7. \A u \in DOMAIN source'.box, v \in worker'.uids : u < v =>
           u \in DOMAIN source.box /\ (u \in worker.uids \/ \E r \in ledger' : r.epoch = source.epoch /\ r.uid = u)
    <3>1. \A u \in DOMAIN source'.box, v \in worker'.uids : u < v => u \in DOMAIN source.box
      BY <1>0, <2>1, <2>3, <2>5 DEF SourceKeeps, SourceShape
    <3> QED BY <2>1, <2>4, <2>6, <3>1 DEF Pending, HandledByUid
  <2>8. \A u \in DOMAIN source.box : u \in worker.uids /\ u \notin worker'.uids =>
           \E r \in ledger' : r.epoch = source.epoch /\ r.uid = u
    <3>1. CASE Passes
      BY <2>4, <3>1, RecordedIsHandled DEF Passes
    <3>2. CASE ~Passes
      BY <1>3, <3>2, WorkerSteps DEF Continues, Reads, Takes, Drops, In
    <3> QED BY <3>1, <3>2
  <2> QED BY <1>0, <2>1, <2>3, <2>4, <2>5, <2>7, <2>8 DEF SourceKeeps, SourceShape
<1> QED BY <1>2, <1>3

\* No UID is given twice in an epoch, so a marker keeps meaning the message it was made from.
LEMMA MarkedKept ==
    ASSUME Settings, Progress, Pending, Held, Marked, Shapes, [RemoteNext]_remoteVars
    PROVE  Marked'
<1>0. /\ RoutineShape(routine') /\ SourceShape /\ SourceShape' /\ RoutineShape(routine) /\ WorkerShape
      /\ dest \in Seq(Copies) /\ dest' \in Seq(Copies)
  BY RoutineSteps, ServerSteps DEF Shapes, SourceShape, SourceKeeps, Renumbers, Exchanged
<1>1. /\ \A i \in DOMAIN dest : dest[i].marker \in Nat \X Nat \X Nat
      /\ \A i \in DOMAIN dest' : dest'[i].marker \in Nat \X Nat \X Nat
  <2>1. \A c \in Copies : c.marker \in Nat \X Nat \X Nat
    BY DEF Copies
  <2>2. (\A i \in DOMAIN dest : dest[i] \in Copies) /\ (\A i \in DOMAIN dest' : dest'[i] \in Copies)
    BY <1>0
  <2> QED BY <2>1, <2>2
<1>2. CASE MutationRuns /\ change = "source"
  <2>1. routine'.secret = routine.secret + 1 /\ dest' = dest
    BY <1>0, <1>2 DEF MutationRuns, Mutated, OtherSource, Progressless, RoutineShape
  <2>2. \A i \in DOMAIN dest : dest[i].marker[1] < routine'.secret
    <3>1. \A i \in DOMAIN dest : dest[i].marker[1] \in Nat /\ dest[i].marker[1] <= routine.secret
      BY <1>1 DEF Marked
    <3> QED BY <1>0, <2>1, <3>1 DEF RoutineShape
  <2>3. \A i \in DOMAIN dest : dest[i].marker[1] \in Nat
    BY <1>1
  <2> QED BY <1>0, <2>1, <2>2, <2>3 DEF Marked, RoutineShape
<1>3. CASE ~(MutationRuns /\ change = "source")
  <2>1. routine'.secret = routine.secret
    <3>1. CASE MutationRuns
      BY <1>0, <1>3, <3>1 DEF MutationRuns, Requests, Mutated, Progressless
    <3> QED BY <3>1, RoutineSteps DEF SameSettings, Renews, Records
  <2>2. CASE Renumbers
    <3>1. dest' = dest
      BY <2>2 DEF Renumbers, SourceRenumbers
    <3> QED BY <1>0, <1>1, <2>1, <2>2, <3>1 DEF Marked, Renumbers, SourceShape
  <2>3. CASE SourceKeeps
    <3> SUFFICES ASSUME NEW i \in DOMAIN dest'
                 PROVE  LET m == dest'[i].marker IN
                        /\ m[1] <= routine.secret
                        /\ m[1] = routine.secret => m[2] <= source.epoch
                        /\ m[1] = routine.secret /\ m[2] = source.epoch =>
                              /\ m[3] < source.next
                              /\ m[3] \in DOMAIN source.box => dest'[i].text = source.box[m[3]].text
      BY <1>0, <1>1, <2>1, <2>3 DEF SourceKeeps, SourceShape, Marked
    <3>1. CASE i \in DOMAIN dest /\ dest'[i] = dest[i]
      BY <3>1 DEF Marked
    <3>2. CASE ~(i \in DOMAIN dest /\ dest'[i] = dest[i])
      <4>1. CopiesOnce /\ In({"append"})
        BY <3>2, ServerSteps DEF CopiesOnce
      <4> DEFINE copy == [marker |-> Marker, text |-> worker.raw.text, folder |-> worker.item.folder, age |-> worker.item.age]
      <4>2. dest'[i] = copy
        <5>1. dest' = Append(dest, copy)
          BY <4>1 DEF CopiesOnce, Appended
        <5> HIDE DEF copy
        <5> QED BY <1>0, <3>2, <5>1
      <4>3. dest'[i].marker = <<worker.item.secret, worker.epoch, Current>> /\ dest'[i].text = worker.raw.text
        BY <4>2 DEF Marker
      <4>4. In(Searched) /\ In(Holding) /\ Alive
        BY <4>1 DEF In, Searched, Holding
      <4>5. worker.item.secret = routine.secret /\ worker.epoch <= source.epoch /\ worker.uids # {} /\ routine.secret \in Nat
        BY <1>0, <4>4 DEF Settings, Progress, RoutineShape
      <4>6. Current \in worker.uids
        BY <1>0, <4>4, <4>5, CurrentIsLeast
      <4>7. worker.epoch = source.epoch =>
               Current < source.next /\ (Current \in DOMAIN source.box => worker.raw.text = source.box[Current].text)
        BY <4>4, <4>6 DEF Pending, Held
      <4> QED BY <4>3, <4>5, <4>7
    <3> QED BY <3>1, <3>2
  <2> QED BY <1>3, <2>2, <2>3, ServerSteps DEF Exchanged
<1> QED BY <1>2, <1>3

\* The marker of a run stays while it holds a message.
LEMMA MarkerStays ==
    ASSUME Continues PROVE Marker' = Marker /\ Current' = Current
<1>1. Current' = Current
  BY DEF Continues, Current
<1> QED BY <1>1 DEF Continues, Marker

\* The message in hand stays the one of its UID, and its copy one of its content.
LEMMA HeldKept ==
    ASSUME Settings, Progress, Pending, Marked, Held, Shapes, [RemoteNext]_remoteVars
    PROVE  Held'
<1>0. /\ RoutineShape(routine') /\ SourceShape /\ SourceShape' /\ RoutineShape(routine) /\ WorkerShape /\ WorkerShape'
      /\ dest \in Seq(Copies) /\ dest' \in Seq(Copies)
  BY RoutineSteps, ServerSteps, WorkerSteps DEF Shapes, SourceShape, SourceKeeps, Renumbers, Exchanged
<1> SUFFICES ASSUME In(Holding)' PROVE Held'
  BY DEF Held, In, Holding
<1>1. ~MutationRuns
  BY MutationsAreAlone DEF In
<1>2. CASE Takes
  <2>1. source' = source /\ dest' = dest /\ worker'.pc # "record" /\ worker.pc = "fetch"
    BY <1>2 DEF Takes, RunFetches, server, At
  <2>2. Current' = Current /\ Marker' = Marker /\ worker'.raw = source.box[Current] /\ Current \in DOMAIN source.box
    <3>1. Current' = Current
      BY <1>2 DEF Takes, Current
    <3> QED BY <1>2, <3>1 DEF Takes, Marker
  <2>3. worker'.epoch = worker.epoch /\ worker.item.secret = routine.secret
    BY <1>2 DEF Takes, Settings
  <2>4. worker.epoch = source.epoch => \A i \in DOMAIN dest : dest[i].marker = Marker => dest[i].text = source.box[Current].text
    BY <2>2, <2>3 DEF Marked, Marker
  <2> QED BY <2>1, <2>2, <2>3, <2>4 DEF Held, In
<1>3. CASE Continues
  <2>1. In(Holding) /\ In(Searched)
    BY <1>3 DEF Continues, In, Holding, Searched, Moves
  <2>2. worker'.epoch = worker.epoch /\ worker'.raw = worker.raw /\ Current' = Current /\ Marker' = Marker
        /\ worker.epoch \in Nat /\ worker.epoch <= source.epoch
    BY <1>3, <2>1, MarkerStays DEF Continues, Progress
  <2>3. ASSUME worker'.epoch = source'.epoch
        PROVE  /\ Current \in DOMAIN source'.box => worker.raw = source'.box[Current]
               /\ \A i \in DOMAIN dest' : dest'[i].marker = Marker => dest'[i].text = worker.raw.text
    <3>1. SourceKeeps
      BY <1>0, <1>1, <2>2, <2>3, ServerSteps DEF Renumbers, Exchanged, SourceShape
    <3>2. worker.epoch = source.epoch
      BY <2>2, <2>3, <3>1 DEF SourceKeeps
    <3>3. Current < source.next
      BY <1>0, <2>1, <3>2, CurrentIsLeast DEF Pending, Progress, In
    <3>4. Current \in DOMAIN source'.box => worker.raw = source'.box[Current]
      BY <2>1, <3>1, <3>2, <3>3 DEF SourceKeeps, Held
    <3>5. \A i \in DOMAIN dest : dest[i].marker = Marker => dest[i].text = worker.raw.text
      BY <2>1, <3>2 DEF Held
    <3>6. CASE dest' = dest
      BY <3>4, <3>5, <3>6
    <3>7. CASE dest' = Appended
      <4> DEFINE copy == [marker |-> Marker, text |-> worker.raw.text, folder |-> worker.item.folder, age |-> worker.item.age]
      <4>1. dest' = Append(dest, copy) /\ copy.text = worker.raw.text
        BY <3>7 DEF Appended
      <4> HIDE DEF copy
      <4> QED BY <1>0, <3>4, <3>5, <4>1
    <3> QED BY <3>6, <3>7, ServerSteps DEF CopiesOnce
  <2>4. In({"record"})' => \E i \in DOMAIN dest' : dest'[i].marker = Marker /\ dest'[i].folder = routine'.folder
    <3>1. routine'.folder = routine.folder /\ worker.item.folder = routine.folder
      BY <1>1, <2>1, RoutineSteps DEF SameSettings, Renews, Records, Settings, In
    <3>2. CASE RunAppends
      <4>1. In({"append"}) /\ AppendMessageWithSyncMarker
        BY <3>2 DEF RunAppends, At, In
      <4> QED BY <3>1, <4>1, Copying
    <3>3. CASE ~RunAppends /\ In({"record"})'
      <4>1. In({"record"})
        BY <1>3, <2>1, <3>3 DEF Continues, In, Moves
      <4>2. dest' = dest
        BY <4>1, ServerSteps DEF CopiesOnce, In
      <4> QED BY <3>1, <4>1, <4>2 DEF Held
    <3> QED BY <3>2, <3>3
  <2> QED BY <2>2, <2>3, <2>4 DEF Held
<1>4. CASE Searches \/ Drops \/ Passes \/ Reads
  BY <1>4 DEF Searches, Drops, RunFetches, Passes, Reads, In, At, Holding
<1> QED BY <1>2, <1>3, <1>4, WorkerSteps DEF In

\* A copy is appended only when none has its marker.
LEMMA OneCopyKept ==
    ASSUME Settings, Progress, OneCopyPerMarker, Shapes, [RemoteNext]_remoteVars
    PROVE  OneCopyPerMarker'
<1>1. CASE dest' = dest
  BY <1>1 DEF OneCopyPerMarker
<1>2. CASE CopiesOnce
  <2> DEFINE copy == [marker |-> Marker, text |-> worker.raw.text, folder |-> worker.item.folder, age |-> worker.item.age]
  <2>1. dest' = Append(dest, copy) /\ copy.marker = Marker /\ copy.folder = worker.item.folder
    BY <1>2 DEF CopiesOnce, Appended
  <2>2. \A i \in DOMAIN dest : ~(dest[i].marker = Marker /\ dest[i].folder = worker.item.folder)
    BY <1>2 DEF CopiesOnce, FindMessageBySyncMarker
  <2> HIDE DEF copy
  <2>3. dest \in Seq(Copies)
    BY DEF Shapes
  <2> QED BY <2>1, <2>2, <2>3 DEF OneCopyPerMarker
<1> QED BY <1>1, <1>2, ServerSteps

\* A ledger entry for a transfer is written only behind its copy.
LEMMA TransferredKept ==
    ASSUME Settings, Progress, Held, TransferredIsThere, Shapes, [RemoteNext]_remoteVars
    PROVE  TransferredIsThere'
<1>0. dest \in Seq(Copies) /\ RoutineShape(routine)
  BY DEF Shapes
<1>1. \A i \in DOMAIN dest : i \in DOMAIN dest' /\ dest'[i] = dest[i]
  <2>1. CASE dest' = dest
    BY <2>1
  <2>2. CASE CopiesOnce
    <3> DEFINE copy == [marker |-> Marker, text |-> worker.raw.text, folder |-> worker.item.folder, age |-> worker.item.age]
    <3>1. dest' = Append(dest, copy)
      BY <2>2 DEF CopiesOnce, Appended
    <3> HIDE DEF copy
    <3> QED BY <1>0, <3>1
  <2> QED BY <2>1, <2>2, ServerSteps
<1>2. renumbered => renumbered'
  BY DEF RemoteNext, WorkerStep, ManagerStep, RecoveryStep, remoteVars, history, SourceGrows, SourceLoses,
      SourceRenumbers, MutationRuns, RunStarts, RunReads, RecoveryAwaited, RunAcquires, RunBegins, RunSearches,
      RunOpens, RunFetches, RunAppends, RunRecords, RunYields, RunReacquires, RunEnds, RunFails, RunSuspends,
      RetryWakes, WorkerEnds, AcquireTimesOut, AppendUnconfirmed, Reconcile, ReconcileWaited, PluginStopped,
      PluginStarts, MutateRoutine, PluginStops, RemoteCrash, RecoverySignalled, RecoveryTakes, RecoveryEnds
<1>3. CASE MutationRuns
  <2>1. CASE change \in {"pause", "resume"}
    <3>1. routine'.folder = routine.folder /\ ledger' = ledger
      BY <1>0, <1>3, <2>1 DEF MutationRuns, Mutated
    <3> QED BY <1>1, <1>2, <3>1 DEF TransferredIsThere
  <2>2. CASE change \notin {"pause", "resume"}
    BY <1>3, <2>2 DEF MutationRuns, TransferredIsThere
  <2> QED BY <2>1, <2>2
<1>4. CASE ~MutationRuns
  <2>1. routine'.folder = routine.folder
    BY <1>4, RoutineSteps DEF SameSettings, Renews, Records
  <2>2. CASE ledger' \subseteq ledger
    BY <1>1, <1>2, <2>1, <2>2 DEF TransferredIsThere
  <2>3. CASE RunRecords
    <3> SUFFICES ASSUME ~renumbered', NEW r \in ledger', r.status = "transferred"
                 PROVE  \E i \in DOMAIN dest : dest[i].text = r.text /\ dest[i].folder = routine.folder
      BY <1>1, <2>1 DEF TransferredIsThere
    <3>1. CASE r \in ledger
      BY <1>2, <3>1 DEF TransferredIsThere
    <3>2. CASE r \notin ledger
      <4>1. PICK status : status = (IF worker.pc = "skip" THEN "skipped" ELSE "transferred") /\ RecordHandledMessage(Current, status)
        BY <2>3 DEF RunRecords
      <4>2. r = [epoch |-> worker.epoch, uid |-> Current, text |-> worker.raw.text, status |-> status]
        BY <3>2, <4>1 DEF RecordHandledMessage
      <4>3. In({"record"}) /\ In(Searched) /\ In(Holding) /\ r.text = worker.raw.text
        BY <2>3, <4>1, <4>2 DEF RunRecords, In, Searched, Holding
      <4>4. worker.epoch = source.epoch
        BY <1>2, <4>3 DEF Progress
      <4> QED BY <4>3, <4>4 DEF Held
    <3> QED BY <3>1, <3>2
  <2> QED BY <2>2, <2>3, LedgerGrows
<1> QED BY <1>3, <1>4

\* The last UID moves only over messages that are handled.
LEMMA CoverKept ==
    ASSUME Settings, Progress, Pending, LastUidCovers, Shapes, [RemoteNext]_remoteVars
    PROVE  LastUidCovers'
<1>0. /\ RoutineShape(routine') /\ SourceShape /\ SourceShape' /\ RoutineShape(routine) /\ WorkerShape
  BY RoutineSteps, ServerSteps DEF Shapes, SourceShape, SourceKeeps, Renumbers, Exchanged
<1> SUFFICES ASSUME routine'.epoch = source'.epoch, NEW u \in DOMAIN source'.box, u <= routine'.last
             PROVE  \E r \in ledger' : r.epoch = source'.epoch /\ r.uid = u
  BY DEF LastUidCovers, HandledByUid
<1>1. u \in Nat \ {0}
  BY <1>0 DEF SourceShape
<1>2. CASE Renews
  BY <1>1, <1>2 DEF Renews
<1>3. CASE Records
  <2>1. In(Searched) /\ Alive /\ worker.uids # {} /\ source' = source /\ RunRecords
    BY <1>3 DEF Records, RunRecords, In, Progress, Searched, Holding, server
  <2>2. /\ Current \in worker.uids /\ Current \in Nat /\ (\A v \in worker.uids : Current <= v)
        /\ routine.epoch \in {0, worker.epoch} /\ worker.epoch = source.epoch
    BY <1>0, <1>3, <2>1, CurrentIsLeast DEF Progress, WorkerShape, Records
  <2>3. ledger \subseteq ledger'
    BY <2>1 DEF RunRecords, RecordHandledMessage
  <2>4. CASE u <= routine.last
    BY <1>0, <1>1, <2>1, <2>2, <2>3, <2>4 DEF LastUidCovers, HandledByUid, Progress
  <2>5. CASE u = Current
    BY <2>1, <2>2, <2>5, RecordedIsHandled
  <2>6. CASE u < Current
    <3>1. u \notin worker.uids
      BY <1>1, <2>2, <2>6
    <3> QED BY <2>1, <2>2, <2>3, <2>6, <3>1 DEF Pending, HandledByUid
  <2>7. routine'.last \in {routine.last, Current}
    BY <1>0, <1>3, <2>2, LargerOfTwo DEF Records, RoutineShape
  <2> QED BY <1>0, <1>1, <2>2, <2>4, <2>5, <2>6, <2>7 DEF RoutineShape
<1>4. CASE MutationRuns
  <2>1. CASE change \in {"pause", "resume"}
    BY <1>0, <1>4, <2>1 DEF MutationRuns, Mutated, RoutineShape, LastUidCovers, HandledByUid
  <2>2. CASE change \notin {"pause", "resume"}
    <3>1. routine'.epoch = 0
      BY <1>0, <1>4, <2>2 DEF MutationRuns, Requests, Mutated, Progressless, OtherSource
    <3> QED BY <1>0, <3>1 DEF SourceShape
  <2> QED BY <2>1, <2>2
<1>5. CASE SameProgress(routine') /\ ~MutationRuns
  <2>1. SourceKeeps
    BY <1>0, <1>5, ServerSteps DEF Renumbers, Exchanged, SameProgress, Progress, SourceShape
  <2>2. routine.epoch = source.epoch /\ u <= routine.last /\ routine.last < source.next
    BY <1>5, <2>1 DEF SameProgress, SourceKeeps, Progress
  <2>3. u \in DOMAIN source.box
    BY <1>0, <1>1, <2>1, <2>2 DEF SourceKeeps, SourceShape, RoutineShape
  <2>4. ledger \subseteq ledger'
    BY <1>5, LedgerGrows
  <2> QED BY <2>1, <2>2, <2>3, <2>4 DEF LastUidCovers, HandledByUid, SourceKeeps
<1> QED BY <1>2, <1>3, <1>4, <1>5, RoutineSteps

\* A routine that never ran has copied nothing.
LEMMA RemoteInitially == RemoteInit => RemoteInv
<1> SUFFICES ASSUME RemoteInit PROVE RemoteInv
  OBVIOUS
<1>1. DOMAIN source.box = {} /\ ~Alive /\ dest = <<>> /\ dest \in Seq(Copies)
  BY DEF RemoteInit, Alive
<1> QED BY <1>1 DEF RemoteInit, RemoteInv, Shapes, SourceShape, RoutineShape, WorkerShape, Settings,
    SyncingIsRunning, In, NoChange, Progress, Pending, Marked, Held, OneCopyPerMarker, TransferredIsThere,
    LastUidCovers

\* The inductive step.
LEMMA RemoteKept == RemoteInv /\ [RemoteNext]_remoteVars => RemoteInv'
<1> SUFFICES ASSUME RemoteInv, [RemoteNext]_remoteVars PROVE RemoteInv'
  OBVIOUS
<1>1. Shapes /\ Settings /\ Progress /\ Pending /\ Marked /\ Held /\ OneCopyPerMarker /\ TransferredIsThere /\ LastUidCovers
  BY DEF RemoteInv
<1>2. Shapes'
  BY <1>1, RoutineSteps, ServerSteps, WorkerSteps DEF Shapes, SourceKeeps, Renumbers, Exchanged
<1> QED BY <1>1, <1>2, SettingsKept, ProgressKept, PendingKept, MarkedKept, HeldKept, OneCopyKept, TransferredKept, CoverKept
      DEF RemoteInv

\* Conjuncts of RoutineSafe (runOnce, RecordHandledMessage, AppendMessageWithSyncMarker): for every source,
\* any number of arrivals, losses, renumberings, dropped connections, stops and restarts, at most one copy per
\* marker is in the destination, what the ledger calls transferred is there, everything the source has up to
\* the last UID is handled, and a routine shows syncing only while a run is in progress or the plugin is down.
THEOREM RoutineIsSafe ==
    RemoteSpec => [](OneCopyPerMarker /\ TransferredIsThere /\ LastUidCovers /\ SyncingIsRunning)
<1>1. RemoteInv => OneCopyPerMarker /\ TransferredIsThere /\ LastUidCovers /\ SyncingIsRunning
  BY DEF RemoteInv, Settings
<1> QED BY <1>1, RemoteInitially, RemoteKept, PTL DEF RemoteSpec

\* A conjunct of PluginPromises: a message is appended only for an enabled routine and under its current
\* settings, whatever request, stop or recovery comes between (MutateRoutine waits for the worker).
THEOREM CopiesAsConfigured == RemoteSpec => AppendsAsConfigured
<1>1. ASSUME RemoteInv, [RemoteNext]_remoteVars
      PROVE  [dest' # dest => worker.item.age = routine.age /\ routine.enabled]_remoteVars
  <2>1. CopiesOnce \/ dest' = dest
    BY <1>1, ServerSteps DEF RemoteInv
  <2>2. CASE CopiesOnce
    BY <1>1, <2>2 DEF CopiesOnce, RemoteInv, Settings, In, Searched
  <2> QED BY <2>1, <2>2
<1> QED BY <1>1, RemoteInitially, RemoteKept, PTL DEF RemoteSpec, AppendsAsConfigured

=============================================================================
