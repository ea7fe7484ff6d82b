---------------------------- MODULE OutboxProofs ----------------------------
(***************************************************************************)
(* Proofs about the outbox, for every set of submission keys and every     *)
(* bound: its types, the worker's row and consent, the local message, the  *)
(* spool file and the copy in Sent, and that each of its steps is a step   *)
(* of Delivery or none at all.                                             *)
(***************************************************************************)
EXTENDS Outbox, TLAPS

LocalMessages == [state: {"none", "optimistic", "promoted"}, uid: Nat, validity: Nat]

USE DEF Working, rowVars, countVars, leaseVars, localVars, apiVars, uidVars, workerVars,
        procVars, sentVars, userVars

\* Every initial state has the declared types.
LEMMA InitType == Init => TypeOK
BY OutboxConstants DEF OutboxConstants, Init, TypeOK, DeliveryStates, FilingStates,
   Boundary, NoBoundary, NoMessage, Job, NoJob, PCs

\* Deleting rows and their messages keeps the declared types.
LEMMA DeleteType ==
    ASSUME TypeOK, NEW S \in SUBSET Jobs, DeleteRows(S)
    PROVE  /\ delivery' \in [Jobs -> DeliveryStates] /\ filing' \in [Jobs -> FilingStates]
           /\ attempts' \in [Jobs -> Nat] /\ filingAttempts' \in [Jobs -> Nat]
           /\ lease' \in [Jobs -> Nat] /\ boundary' \in [Jobs -> Boundary]
           /\ due' \subseteq Jobs /\ expired' \subseteq Jobs /\ attention' \subseteq Jobs
BY DEF TypeOK, DeleteRows, Cleared, DeliveryStates, FilingStates, Boundary, NoBoundary

\* Deleting optimistic messages keeps the declared types.
LEMMA DeleteMessagesType ==
    ASSUME TypeOK, NEW S \in SUBSET Jobs, DeleteMessages(S)
    PROVE  local' \in [Jobs -> LocalMessages] /\ spool' \subseteq Jobs
<1>1. spool' \subseteq Jobs
  BY DEF TypeOK, DeleteMessages
<1>2. NoMessage \in LocalMessages
  BY DEF NoMessage, LocalMessages
<1>3. local \in [Jobs -> LocalMessages]
  BY DEF TypeOK, LocalMessages
<1> QED
  BY <1>1, <1>2, <1>3 DEF DeleteMessages, Cleared

\* Every handler keeps the declared types.
LEMMA HandlersType == TypeOK /\ Handlers => TypeOK'
<1> SUFFICES ASSUME TypeOK, Handlers PROVE TypeOK'
  OBVIOUS
<1>1. ASSUME NEW j \in Jobs, ComposeLookup(j) PROVE TypeOK'
  BY <1>1 DEF ComposeLookup, TypeOK
<1>2. ASSUME NEW j \in Jobs, EnqueueOutboxMessage(j) PROVE TypeOK'
  <2>1. composing' \in [Jobs -> Nat]
    BY <1>2 DEF EnqueueOutboxMessage, TypeOK
  <2>2. CASE InsertJob(j)
    <3>1. local' \in [Jobs -> LocalMessages]
      BY <2>2 DEF InsertJob, TypeOK, LocalMessages, Optimistic
    <3>2. mirror' \subseteq Nat
      <4>1. local[j].uid \in Nat
        BY DEF TypeOK
      <4> QED BY <4>1, <2>2 DEF InsertJob, TypeOK
    <3> QED
      BY <1>2, <2>1, <2>2, <3>1, <3>2
      DEF EnqueueOutboxMessage, InsertJob, TypeOK, DeliveryStates, LocalMessages
  <2>3. CASE DropOwnSpool(j)
    BY <1>2, <2>1, <2>3 DEF EnqueueOutboxMessage, DropOwnSpool, TypeOK
  <2> QED
    BY <1>2, <2>2, <2>3 DEF EnqueueOutboxMessage
<1>3. ASSUME NEW j \in Jobs, AcknowledgeOutboxJob(j) PROVE TypeOK'
  BY <1>3 DEF AcknowledgeOutboxJob, TypeOK
<1>4. ASSUME NEW j \in Jobs, RequeueOutboxJob(j) PROVE TypeOK'
  BY <1>4 DEF RequeueOutboxJob, ReleaseLease, TypeOK, DeliveryStates
<1>5. ASSUME NEW j \in Jobs, RequeueOutboxFiling(j) PROVE TypeOK'
  BY <1>5 DEF RequeueOutboxFiling, ReleaseLease, TypeOK, FilingStates
<1>6. ASSUME NEW j \in Jobs, CancelOutboxJob(j) PROVE TypeOK'
  <2>1. DeleteRows({j}) /\ DeleteMessages({j}) /\ {j} \in SUBSET Jobs
    BY <1>6 DEF CancelOutboxJob
  <2> QED BY <1>6, <2>1, DeleteType, DeleteMessagesType DEF CancelOutboxJob, TypeOK, LocalMessages
<1>7. ASSUME PurgeOutboxJobsForIMAPAccount PROVE TypeOK'
  <2>1. DeleteRows(Jobs) /\ DeleteMessages({j \in Jobs : Present(j)})
    BY <1>7 DEF PurgeOutboxJobsForIMAPAccount
  <2> QED BY <1>7, <2>1, DeleteType, DeleteMessagesType
          DEF PurgeOutboxJobsForIMAPAccount, TypeOK, LocalMessages
<1>8. ASSUME PurgeOutboxJobsForSMTPAccount PROVE TypeOK'
  <2> DEFINE S == {j \in Jobs : delivery[j] \in Cancelable}
  <2>1. DeleteRows(S) /\ DeleteMessages(S)
    BY <1>8 DEF PurgeOutboxJobsForSMTPAccount
  <2>2. S \in SUBSET Jobs
    OBVIOUS
  <2> HIDE DEF S
  <2> QED BY <1>8, <2>1, <2>2, DeleteType, DeleteMessagesType
          DEF PurgeOutboxJobsForSMTPAccount, TypeOK, LocalMessages
<1>9. ASSUME DeleteSMTPAccountForUser PROVE TypeOK'
  BY <1>9 DEF DeleteSMTPAccountForUser, TypeOK
<1> QED
  BY <1>1, <1>2, <1>3, <1>4, <1>5, <1>6, <1>7, <1>8, <1>9 DEF Handlers

\* Time and the lease heartbeat keep the declared types.
LEMMA ClockType == TypeOK /\ (Clock \/ RenewOutboxLease) => TypeOK'
<1> SUFFICES ASSUME TypeOK, Clock \/ RenewOutboxLease PROVE TypeOK'
  OBVIOUS
<1>1. ASSUME NEW j \in Jobs, BecomesDue(j) PROVE TypeOK'
  BY <1>1 DEF BecomesDue, TypeOK
<1>2. ASSUME NEW j \in Jobs, LeaseExpires(j) PROVE TypeOK'
  BY <1>2 DEF LeaseExpires, TypeOK
<1>3. ASSUME RenewOutboxLease PROVE TypeOK'
  BY <1>3 DEF RenewOutboxLease, TypeOK
<1> QED
  BY <1>1, <1>2, <1>3 DEF Clock

\* A job record the worker drops or keeps is a Job.
LEMMA NoJobType == NoJob \in Job
BY DEF NoJob, Job, DeliveryStates, FilingStates, Boundary, NoBoundary

\* Recovery keeps the types of the columns it writes.
LEMMA RecoverType ==
    ASSUME TypeOK, NEW S \in SUBSET Jobs, RecoverOutboxJobs(S)
    PROVE  /\ delivery' \in [Jobs -> DeliveryStates] /\ filing' \in [Jobs -> FilingStates]
           /\ lease' \in [Jobs -> Nat] /\ boundary' = boundary
           /\ attempts' = attempts /\ filingAttempts' = filingAttempts
           /\ due' \subseteq Jobs /\ expired' \subseteq Jobs /\ attention' \subseteq Jobs
<1>1. \A j \in Jobs : RecoveredDelivery(j) \in DeliveryStates /\ RecoveredFiling(j) \in FilingStates
  BY DEF TypeOK, RecoveredDelivery, RecoveredFiling, DeliveryStates, FilingStates
<1> QED
  BY <1>1 DEF TypeOK, RecoverOutboxJobs, Cleared

\* Recovery, pruning and claiming keep the declared types.
LEMMA ScanType ==
    ASSUME TypeOK,
           \/ RecoverInterruptedOutboxJobs \/ RecoverExpiredOutboxJobs
           \/ \E j \in Jobs : PurgeCompletedOutboxHistory(j) \/ ClaimNextOutboxJob(j)
    PROVE  TypeOK'
<1>1. ASSUME RecoverInterruptedOutboxJobs PROVE TypeOK'
  <2>1. CASE RecoverOutboxJobs(Jobs) /\ UNCHANGED procVars
    BY <1>1, <2>1, RecoverType DEF RecoverInterruptedOutboxJobs, TypeOK, PCs
  <2>2. CASE StoreFails /\ UNCHANGED rowVars
    BY <1>1, <2>2 DEF RecoverInterruptedOutboxJobs, StoreFails, TypeOK, PCs
  <2> QED BY <1>1, <2>1, <2>2 DEF RecoverInterruptedOutboxJobs
<1>2. ASSUME RecoverExpiredOutboxJobs PROVE TypeOK'
  <2>1. RecoverOutboxJobs(expired) /\ expired \in SUBSET Jobs
    BY <1>2 DEF RecoverExpiredOutboxJobs, TypeOK
  <2> QED BY <1>2, <2>1, RecoverType DEF RecoverExpiredOutboxJobs, TypeOK
<1>3. ASSUME NEW j \in Jobs, PurgeCompletedOutboxHistory(j) PROVE TypeOK'
  <2>1. DeleteRows({j}) /\ DeleteMessages({j}) /\ {j} \in SUBSET Jobs
    BY <1>3 DEF PurgeCompletedOutboxHistory
  <2> QED BY <1>3, <2>1, DeleteType, DeleteMessagesType
          DEF PurgeCompletedOutboxHistory, TypeOK, LocalMessages
<1>4. ASSUME NEW j \in Jobs, ClaimNextOutboxJob(j) PROVE TypeOK'
  <2>1. job' \in Job
    BY <1>4 DEF ClaimNextOutboxJob, TypeOK, Job, DeliveryStates
  <2>2. pc' \in PCs /\ delivery' \in [Jobs -> DeliveryStates] /\ lease' \in [Jobs -> Nat]
    BY <1>4 DEF ClaimNextOutboxJob, TypeOK, DeliveryStates, PCs
  <2> QED BY <1>4, <2>1, <2>2 DEF ClaimNextOutboxJob, TypeOK
<1> QED
  BY <1>1, <1>2, <1>3, <1>4

\* A refused write changes nothing but the count of faults.
LEMMA RefusedType ==
    ASSUME TypeOK, UpdateRefused
    PROVE  UNCHANGED rowVars /\ epoch' = epoch /\ faults' \in Nat
BY DEF UpdateRefused, StoreFails, TypeOK

\* A write is not both done and refused.
LEMMA ClaimedNotRefused == TypeOK /\ UpdateRefused => ~UpdateClaimed
BY DEF UpdateRefused, UpdateClaimed, StoreFails, TypeOK

\* Giving up the lease keeps its types.
LEMMA ReleaseType ==
    ASSUME TypeOK, NEW j, ReleaseLease(j)
    PROVE  lease' \in [Jobs -> Nat] /\ expired' \subseteq Jobs
BY DEF ReleaseLease, TypeOK

\* The delivery steps keep the declared types.
LEMMA DeliveryType ==
    ASSUME TypeOK,
           \/ MarkOutboxSMTPInFlight \/ DeliveryNotPossible \/ SendRawReader
           \/ MarkOutboxSMTPAccepted \/ RecordDeliveryFailure
    PROVE  TypeOK'
<1> USE NoJobType
<1>0. \A t, u \in BOOLEAN : FailureState(t, u) \in DeliveryStates
  BY DEF FailureState, DeliveryStates
<1>1. ASSUME MarkOutboxSMTPInFlight PROVE TypeOK'
  <2>1. \A n \in Nat : Bumped(n) \in Nat
    BY OutboxConstants DEF OutboxConstants, Bumped
  <2>2. CASE UpdateRefused
    BY <1>1, <2>2, RefusedType, ClaimedNotRefused DEF MarkOutboxSMTPInFlight, DropJob, TypeOK, PCs, DeliveryStates
  <2>3. CASE ~UpdateRefused
    <3>1. attempts' = [attempts EXCEPT ![job.key] = Bumped(attempts[job.key])]
      BY <1>1, <2>3 DEF MarkOutboxSMTPInFlight
    <3>2. attempts[job.key] \in Nat
      BY <1>1 DEF MarkOutboxSMTPInFlight, TypeOK
    <3>3. attempts' \in [Jobs -> Nat]
      BY <2>1, <3>1, <3>2 DEF TypeOK
    <3> QED BY <1>1, <2>3, <3>3
            DEF MarkOutboxSMTPInFlight, UpdateClaimed, GoTo, TypeOK, DeliveryStates, PCs
  <2> QED
    BY <2>2, <2>3
<1>2. ASSUME DeliveryNotPossible PROVE TypeOK'
  BY <1>0, <1>2 DEF DeliveryNotPossible, GoTo, TypeOK, PCs
<1>3. ASSUME SendRawReader PROVE TypeOK'
  <2>1. accepts' = accepts \/ accepts' = [accepts EXCEPT ![job.key] = @ + 1]
    BY <1>3 DEF SendRawReader
  <2>2. accepts' \in [Jobs -> Nat]
    BY <2>1 DEF TypeOK
  <2>3. pc' \in {"accepted", "record"} /\ job' = job
    BY <1>3 DEF SendRawReader, GoTo
  <2>4. (result' = result /\ pc' = "accepted") \/ result' \in DeliveryStates
    BY <1>0, <1>3 DEF SendRawReader, GoTo
  <2> QED BY <1>3, <2>2, <2>3, <2>4 DEF SendRawReader, TypeOK, PCs
<1>4. ASSUME MarkOutboxSMTPAccepted PROVE TypeOK'
  <2>1. CASE UpdateRefused
    BY <1>4, <2>1, RefusedType DEF MarkOutboxSMTPAccepted, DropJob, GoTo, TypeOK, PCs, DeliveryStates
  <2>2. CASE ~UpdateRefused
    <3>1. ReleaseLease(job.key) /\ job.key \in Jobs
      BY <1>4, <2>2 DEF MarkOutboxSMTPAccepted, TypeOK
    <3>2. delivery' \in [Jobs -> DeliveryStates] /\ filing' \in [Jobs -> FilingStates]
      BY <1>4, <2>2, <3>1 DEF MarkOutboxSMTPAccepted, TypeOK, DeliveryStates, FilingStates
    <3>3. due' \subseteq Jobs
      BY <1>4, <2>2, <3>1 DEF MarkOutboxSMTPAccepted, TypeOK
    <3> QED BY <1>4, <2>2, <3>1, <3>2, <3>3, ReleaseType
            DEF MarkOutboxSMTPAccepted, UpdateClaimed, DropJob, TypeOK, PCs, DeliveryStates
  <2> QED BY <2>1, <2>2
<1>5. ASSUME RecordDeliveryFailure PROVE TypeOK'
  <2>1. CASE UpdateRefused
    BY <1>5, <2>1, RefusedType DEF RecordDeliveryFailure, DropJob, TypeOK, PCs, DeliveryStates
  <2>2. CASE ~UpdateRefused
    <3>1. ReleaseLease(job.key) /\ job.key \in Jobs /\ result \in DeliveryStates
      BY <1>5, <2>2 DEF RecordDeliveryFailure, TypeOK
    <3> QED BY <1>5, <2>2, <3>1, ReleaseType
            DEF RecordDeliveryFailure, UpdateClaimed, DropJob, TypeOK, PCs, DeliveryStates
  <2> QED BY <2>1, <2>2
<1> QED
  BY <1>1, <1>2, <1>3, <1>4, <1>5

\* Leaving the job to RetryOutboxFiling keeps the types.
LEMMA GiveUpType ==
    ASSUME TypeOK, NEW state \in FilingStates, GiveUpFiling(state)
    PROVE  /\ UNCHANGED <<rowVars, procVars, uidVars, job>>
           /\ pc' = "recordFiling" /\ result' \in FilingStates
BY DEF GiveUpFiling, GoTo

\* Confirming the copy's UID keeps the types.
LEMMA ConfirmType ==
    ASSUME TypeOK, NEW u \in Nat, ConfirmUid(u)
    PROVE  /\ UNCHANGED <<rowVars, procVars, result, job>>
           /\ pc' = "reset" /\ uid' \in Nat /\ validity' \in Nat
BY DEF ConfirmUid, GoTo, TypeOK

\* Storing the boundary before the APPEND keeps the types.
LEMMA ThenAppendType ==
    ASSUME TypeOK, NEW b \in Boundary, ThenAppend(b)
    PROVE  /\ filing' \in [Jobs -> FilingStates] /\ boundary' \in [Jobs -> Boundary]
           /\ UNCHANGED <<delivery, countVars, due, leaseVars, attention>>
           /\ epoch' = epoch /\ faults' \in Nat
           /\ \/ pc' = "append" /\ UNCHANGED <<job, uidVars, result>>
              \/ DropJob
<1>1. CASE UpdateRefused
  <2>1. DropJob
    BY <1>1, ClaimedNotRefused DEF ThenAppend
  <2> QED BY <1>1, <2>1, RefusedType DEF TypeOK
<1>2. CASE ~UpdateRefused
  <2>1. filing' = [filing EXCEPT ![job.key] = "appending"]
    BY <1>2 DEF ThenAppend
  <2>2. boundary' = [boundary EXCEPT ![job.key] = b]
    BY <1>2 DEF ThenAppend
  <2>3. filing' \in [Jobs -> FilingStates]
    BY <2>1 DEF TypeOK, FilingStates
  <2>4. boundary' \in [Jobs -> Boundary]
    BY <2>2 DEF TypeOK
  <2> QED BY <1>2, <2>3, <2>4 DEF ThenAppend, UpdateClaimed, GoTo, TypeOK
<1> QED BY <1>1, <1>2

\* A message added to Sent keeps the types of the folder.
LEMMA AddCopyType ==
    ASSUME TypeOK, NEW j \in Jobs, NEW exact \in BOOLEAN, NEW ours \in BOOLEAN,
           AddCopy(j, exact, ours)
    PROVE  sent' \subseteq Copy /\ uidNext' \in Nat /\ uidValidity' \in Nat
<1> DEFINE c == [uid |-> uidNext, key |-> j, row |-> rows[j], exact |-> exact, ours |-> ours]
<1>1. rows[j] \in Nat /\ uidNext \in Nat
  BY DEF TypeOK
<1>2. c \in Copy
  BY <1>1 DEF Copy
<1>3. sent' = sent \cup {c}
  BY DEF AddCopy
<1> HIDE DEF c
<1> QED BY <1>1, <1>2, <1>3 DEF AddCopy, TypeOK

\* The filing steps up to the APPEND keep the declared types.
LEMMA FilingType ==
    ASSUME TypeOK,
           FilingNotPossible \/ ReconcileOutboxSentAppend \/ SnapshotSentCopies \/ AppendMessage
    PROVE  TypeOK'
<1> USE NoJobType
<1>0. {"retry_wait", "needs_attention", "reconciling"} \subseteq FilingStates
  BY DEF FilingStates
<1>a. \A c \in sent : c.uid \in Nat
  BY DEF TypeOK, Copy
<1>b. job.boundary \in Boundary /\ [validity |-> uidValidity, next |-> uidNext] \in Boundary
  BY DEF TypeOK, Job, Boundary
<1>1. ASSUME FilingNotPossible PROVE TypeOK'
  <2>1. PICK state \in FilingStates : GiveUpFiling(state)
    BY <1>0, <1>1 DEF FilingNotPossible
  <2> QED BY <1>1, <2>1, GiveUpType DEF FilingNotPossible, TypeOK, PCs
<1>2. ASSUME ReconcileOutboxSentAppend PROVE TypeOK'
  <2>1. \/ \E u \in Nat : ConfirmUid(u)
        \/ ThenAppend(job.boundary)
        \/ GiveUpFiling("retry_wait")
    BY <1>2, <1>a DEF ReconcileOutboxSentAppend, AfterBoundary, Matching, Candidates
  <2>2. CASE \E u \in Nat : ConfirmUid(u)
    BY <1>2, <2>2, ConfirmType DEF ReconcileOutboxSentAppend, TypeOK, PCs
  <2>3. CASE ThenAppend(job.boundary)
    BY <1>2, <1>b, <2>3, ThenAppendType DEF ReconcileOutboxSentAppend, DropJob, TypeOK, PCs, DeliveryStates
  <2>4. CASE GiveUpFiling("retry_wait")
    BY <1>0, <1>2, <2>4, GiveUpType DEF ReconcileOutboxSentAppend, TypeOK, PCs
  <2> QED BY <2>1, <2>2, <2>3, <2>4
<1>3. ASSUME SnapshotSentCopies PROVE TypeOK'
  <2> DEFINE b == [validity |-> uidValidity, next |-> uidNext]
  <2>1. \/ \E u \in Nat : ConfirmUid(u)
        \/ ThenAppend(b)
        \/ GiveUpFiling("needs_attention")
    BY <1>3, <1>a DEF SnapshotSentCopies, Matching, Candidates
  <2>2. CASE \E u \in Nat : ConfirmUid(u)
    BY <1>3, <2>2, ConfirmType DEF SnapshotSentCopies, TypeOK, PCs
  <2>3. CASE ThenAppend(b)
    <3>1. b \in Boundary
      BY <1>b
    <3> HIDE DEF b
    <3> QED BY <1>3, <2>3, <3>1, ThenAppendType DEF SnapshotSentCopies, DropJob, TypeOK, PCs, DeliveryStates
  <2>4. CASE GiveUpFiling("needs_attention")
    BY <1>0, <1>3, <2>4, GiveUpType DEF SnapshotSentCopies, TypeOK, PCs
  <2> QED BY <2>1, <2>2, <2>3, <2>4
<1>4. ASSUME AppendMessage PROVE TypeOK'
  <2>1. /\ sent' \subseteq Copy /\ uidNext' \in Nat /\ uidValidity' \in Nat
    <3>1. CASE UNCHANGED sentVars
      BY <3>1 DEF TypeOK
    <3>2. ASSUME NEW exact \in BOOLEAN, AddCopy(job.key, exact, TRUE)
          PROVE  sent' \subseteq Copy /\ uidNext' \in Nat /\ uidValidity' \in Nat
      <4>1. job.key \in Jobs
        BY <1>4 DEF AppendMessage, TypeOK
      <4> QED BY <3>2, <4>1, AddCopyType
    <3> QED BY <1>4, <3>1, <3>2 DEF AppendMessage
  <2>2. ConfirmUid(uidNext) \/ \E state \in FilingStates : GiveUpFiling(state)
    BY <1>0, <1>4 DEF AppendMessage
  <2>3. CASE ConfirmUid(uidNext)
    <3>1. uidNext \in Nat
      BY DEF TypeOK
    <3> QED BY <1>4, <2>1, <2>3, <3>1, ConfirmType DEF AppendMessage, TypeOK, PCs
  <2>4. CASE \E state \in FilingStates : GiveUpFiling(state)
    BY <1>4, <2>1, <2>4, GiveUpType DEF AppendMessage, TypeOK, PCs
  <2> QED BY <2>2, <2>3, <2>4
<1> QED
  BY <1>1, <1>2, <1>3, <1>4

\* Starting a mailbox generation over keeps the types.
LEMMA ResetType ==
    ASSUME TypeOK, NEW v \in Nat, ResetMailbox(v)
    PROVE  /\ local' \in [Jobs -> LocalMessages] /\ mirror' \subseteq Nat
           /\ generation' \in Nat /\ spool' \subseteq Jobs
<1>1. NoMessage \in LocalMessages /\ local \in [Jobs -> LocalMessages]
  BY DEF NoMessage, LocalMessages, TypeOK
<1>2. local' \in [Jobs -> LocalMessages]
  BY <1>1 DEF ResetMailbox, Cleared
<1> QED BY <1>2 DEF ResetMailbox, TypeOK

\* The filing steps after the APPEND keep the declared types.
LEMMA FinishType ==
    ASSUME TypeOK,
           \/ ResetMailboxGenerationIfNeeded \/ PromoteOutboxMessage
           \/ CompleteOutboxFiling \/ RetryOutboxFiling
    PROVE  TypeOK'
<1> USE NoJobType
<1>0. ASSUME ResetMailboxGenerationIfNeeded PROVE TypeOK'
  <2>1. CASE ResetMailbox(validity) /\ GoTo("finish") /\ UNCHANGED <<result, procVars>>
    <3>1. validity \in Nat
      BY DEF TypeOK
    <3> QED BY <1>0, <2>1, <3>1, ResetType
            DEF ResetMailboxGenerationIfNeeded, GoTo, TypeOK, PCs, LocalMessages
  <2>2. CASE StoreFails /\ UNCHANGED localVars /\ GoTo("recordFiling") /\ result' = "reconciling"
    BY <1>0, <2>2 DEF ResetMailboxGenerationIfNeeded, StoreFails, GoTo, TypeOK, PCs, FilingStates
  <2> QED BY <1>0, <2>1, <2>2 DEF ResetMailboxGenerationIfNeeded
<1>1. ASSUME PromoteOutboxMessage PROVE TypeOK'
  <2>1. local' = local \/ local' = [local EXCEPT ![job.key] = Promoted(uid, validity)]
    BY <1>1 DEF PromoteOutboxMessage
  <2>2. Promoted(uid, validity) \in LocalMessages
    BY DEF Promoted, LocalMessages, TypeOK
  <2>3. local \in [Jobs -> LocalMessages]
    BY DEF TypeOK, LocalMessages
  <2>4. local' \in [Jobs -> LocalMessages]
    BY <2>1, <2>2, <2>3
  <2>5. mirror' \subseteq Nat /\ epoch' = epoch /\ faults' \in Nat
    <3>1. mirror' = mirror \/ mirror' = mirror \ {uid}
      BY <1>1 DEF PromoteOutboxMessage
    <3>2. UNCHANGED procVars \/ StoreFails
      BY <1>1 DEF PromoteOutboxMessage
    <3>3. mirror' \subseteq Nat
      BY <3>1 DEF TypeOK
    <3>4. epoch' = epoch /\ faults' \in Nat
      BY <3>2 DEF StoreFails, TypeOK
    <3> QED BY <3>3, <3>4
  <2>6. \/ pc' = "complete" /\ UNCHANGED <<job, result>>
        \/ pc' = "recordFiling" /\ UNCHANGED job /\ result' \in FilingStates
    BY <1>1 DEF PromoteOutboxMessage, GoTo, FilingStates
  <2> QED BY <1>1, <2>4, <2>5, <2>6 DEF PromoteOutboxMessage, TypeOK, PCs, LocalMessages
<1>2. ASSUME CompleteOutboxFiling PROVE TypeOK'
  <2>1. CASE UpdateRefused
    BY <1>2, <2>1, RefusedType, ClaimedNotRefused DEF CompleteOutboxFiling, GoTo, TypeOK, PCs, FilingStates
  <2>2. CASE ~UpdateRefused
    <3>1. ReleaseLease(job.key) /\ job.key \in Jobs
      BY <1>2, <2>2 DEF CompleteOutboxFiling, TypeOK
    <3> QED BY <1>2, <2>2, <3>1, ReleaseType
            DEF CompleteOutboxFiling, UpdateClaimed, DropJob, TypeOK, PCs, DeliveryStates, FilingStates
  <2> QED BY <2>1, <2>2
<1>3. ASSUME RetryOutboxFiling PROVE TypeOK'
  <2>1. CASE UpdateRefused
    BY <1>3, <2>1, RefusedType, ClaimedNotRefused DEF RetryOutboxFiling, DropJob, TypeOK, PCs, DeliveryStates
  <2>2. CASE ~UpdateRefused
    <3>1. ReleaseLease(job.key) /\ job.key \in Jobs /\ FilingRetryState \in FilingStates
      BY <1>3, <2>2 DEF RetryOutboxFiling, FilingRetryState, TypeOK, FilingStates
    <3>2. filing' \in [Jobs -> FilingStates]
      BY <1>3, <2>2, <3>1 DEF RetryOutboxFiling, TypeOK
    <3>3. filingAttempts' \in [Jobs -> Nat]
      BY <1>3, <2>2 DEF RetryOutboxFiling, TypeOK
    <3>4. due' \subseteq Jobs /\ attention' \subseteq Jobs
      BY <1>3, <2>2, <3>1 DEF RetryOutboxFiling, TypeOK
    <3> QED BY <1>3, <2>2, <3>1, <3>2, <3>3, <3>4, ReleaseType
            DEF RetryOutboxFiling, UpdateClaimed, DropJob, TypeOK, PCs, DeliveryStates
  <2> QED BY <2>1, <2>2
<1> QED
  BY <1>0, <1>1, <1>2, <1>3

\* The servers, the mailbox sync, retention and crashes keep the declared types.
LEMMA EnvironmentType ==
    ASSUME TypeOK, Environment
    PROVE  TypeOK'
<1>1. ASSUME Crash PROVE TypeOK'
  BY <1>1, NoJobType DEF Crash, TypeOK, PCs, DeliveryStates
<1>2. ASSUME NEW j \in Jobs, ProviderFilesCopy(j) PROVE TypeOK'
  <2>1. PICK exact \in BOOLEAN : AddCopy(j, exact, FALSE)
    BY <1>2 DEF ProviderFilesCopy
  <2>2. sent' \subseteq Copy /\ uidNext' \in Nat /\ uidValidity' \in Nat
    BY <2>1, AddCopyType
  <2> QED BY <1>2, <2>2 DEF ProviderFilesCopy, TypeOK
<1>3. ASSUME NEW j \in Jobs, PruneMessageBlob(j) PROVE TypeOK'
  BY <1>3 DEF PruneMessageBlob, TypeOK
<1>4. ASSUME NEW c \in sent, ExpungeCopy(c) PROVE TypeOK'
  BY <1>4 DEF ExpungeCopy, TypeOK
<1>5. ASSUME NewGeneration PROVE TypeOK'
  BY <1>5 DEF NewGeneration, TypeOK
<1>6. ASSUME SyncSent PROVE TypeOK'
  <2>1. NoMessage \in LocalMessages /\ local \in [Jobs -> LocalMessages]
    BY DEF NoMessage, LocalMessages, TypeOK
  <2>2. local' \in [Jobs -> LocalMessages]
    BY <1>6, <2>1 DEF SyncSent, Cleared
  <2>3. mirror' \subseteq Nat /\ spool' \subseteq Jobs
    BY <1>6 DEF SyncSent, TypeOK, Copy
  <2> QED BY <1>6, <2>2, <2>3 DEF SyncSent, TypeOK, LocalMessages
<1>7. ASSUME SyncNewGeneration PROVE TypeOK'
  <2>1. uidValidity \in Nat /\ ResetMailbox(uidValidity)
    BY <1>7 DEF SyncNewGeneration, TypeOK
  <2> QED BY <1>7, <2>1, ResetType DEF SyncNewGeneration, TypeOK, LocalMessages
<1> QED
  BY <1>1, <1>2, <1>3, <1>4, <1>5, <1>6, <1>7 DEF Environment

\* Every step keeps the declared types.
LEMMA NextType == TypeOK /\ [Next]_vars => TypeOK'
<1>1. CASE UNCHANGED vars
  BY <1>1 DEF vars, TypeOK
<1>2. CASE Next
  BY <1>2, HandlersType, ClockType, ScanType, DeliveryType, FilingType, FinishType, EnvironmentType
  DEF Next, WorkerLoop
<1> QED BY <1>1, <1>2

\* The columns, the worker's copy of its row and the servers' state never leave
\* their declared values, in every instance.
THEOREM TypeCorrect == Spec => []TypeOK
BY InitType, NextType, PTL DEF Spec

-----------------------------------------------------------------------------
(* The worker's exclusive hold on its row *)

FilingPlaces == {"file", "append", "reset", "finish", "complete", "recordFiling"}

\* The inductive invariant: LeaseStable, and a row is claimed for filing only
\* in a state from which no handler takes it away.
LeaseInv ==
    /\ TypeOK
    /\ LeaseStable
    /\ pc \in FilingPlaces => job.filing \in {"pending", "retry_wait", "reconciling"}

\* A step that leaves the worker and its row alone keeps the hold.
Untouched ==
    /\ UNCHANGED <<pc, job, epoch>>
    /\ Working => /\ delivery'[job.key] = delivery[job.key]
                  /\ filing'[job.key] = filing[job.key]
                  /\ filingAttempts'[job.key] = filingAttempts[job.key]
                  /\ lease'[job.key] = lease[job.key]

LEMMA UntouchedHold == LeaseInv /\ TypeOK' /\ Untouched => LeaseInv'
BY DEF LeaseInv, LeaseStable, Untouched

\* What the hold says about the row the worker has claimed.
LEMMA HeldRow ==
    ASSUME LeaseInv, Working
    PROVE  /\ job.key \in Jobs
           /\ lease[job.key] \in Nat \ {0}
           /\ delivery[job.key] \in {"claimed", "smtp_in_flight", "accepted"}
           /\ delivery[job.key] = "accepted" =>
                 filing[job.key] \in {"pending", "retry_wait", "reconciling", "appending"}
BY DEF LeaseInv, LeaseStable, TypeOK, PCs, FilingPlaces

\* Deleting rows the worker has not claimed leaves its row alone.
LEMMA DeleteUntouched ==
    ASSUME TypeOK, NEW S \in SUBSET Jobs, DeleteRows(S), UNCHANGED <<pc, job, epoch>>,
           Working => job.key \notin S
    PROVE  Untouched
BY DEF TypeOK, DeleteRows, Cleared, Untouched

\* No handler touches the worker's row.
LEMMA HandlersUntouched == LeaseInv /\ Handlers => Untouched
<1> SUFFICES ASSUME LeaseInv, Handlers PROVE Untouched
  OBVIOUS
<1> TypeOK
  BY DEF LeaseInv
<1>1. ASSUME NEW j \in Jobs, ComposeLookup(j) PROVE Untouched
  BY <1>1 DEF ComposeLookup, Untouched
<1>2. ASSUME NEW j \in Jobs, EnqueueOutboxMessage(j) PROVE Untouched
  <2>1. CASE ~Present(j) /\ InsertJob(j)
    BY <1>2, <2>1, HeldRow DEF EnqueueOutboxMessage, InsertJob, Present, Untouched, TypeOK
  <2>2. CASE DropOwnSpool(j)
    BY <1>2, <2>2 DEF EnqueueOutboxMessage, DropOwnSpool, Untouched
  <2> QED BY <1>2, <2>1, <2>2 DEF EnqueueOutboxMessage
<1>3. ASSUME NEW j \in Jobs, AcknowledgeOutboxJob(j) PROVE Untouched
  BY <1>3 DEF AcknowledgeOutboxJob, Untouched
<1>4. ASSUME NEW j \in Jobs, RequeueOutboxJob(j) PROVE Untouched
  <2>1. Working => job.key \in Jobs \ {j}
    BY <1>4, HeldRow DEF RequeueOutboxJob
  <2> QED BY <1>4, <2>1 DEF RequeueOutboxJob, ReleaseLease, Untouched, TypeOK
<1>5. ASSUME NEW j \in Jobs, RequeueOutboxFiling(j) PROVE Untouched
  <2>1. Working => job.key \in Jobs \ {j}
    BY <1>5, HeldRow DEF RequeueOutboxFiling
  <2> QED BY <1>5, <2>1 DEF RequeueOutboxFiling, ReleaseLease, Untouched, TypeOK
<1>6. ASSUME NEW j \in Jobs, CancelOutboxJob(j) PROVE Untouched
  <2>1. Working => job.key \notin {j}
    BY <1>6, HeldRow DEF CancelOutboxJob, Cancelable
  <2> QED BY <1>6, <2>1, DeleteUntouched DEF CancelOutboxJob
<1>7. ASSUME ~OutboxBusy PROVE ~Working
  BY <1>7, HeldRow DEF OutboxBusy
<1>8. ASSUME PurgeOutboxJobsForIMAPAccount PROVE Untouched
  BY <1>7, <1>8, DeleteUntouched DEF PurgeOutboxJobsForIMAPAccount
<1>9. ASSUME PurgeOutboxJobsForSMTPAccount PROVE Untouched
  BY <1>7, <1>9, DeleteUntouched DEF PurgeOutboxJobsForSMTPAccount
<1>10. ASSUME DeleteSMTPAccountForUser PROVE Untouched
  BY <1>10 DEF DeleteSMTPAccountForUser, Untouched
<1> QED
  BY <1>1, <1>2, <1>3, <1>4, <1>5, <1>6, <1>8, <1>9, <1>10 DEF Handlers

\* The clock, the heartbeat and the environment (but a crash) leave the
\* worker's row alone.
LEMMA EnvironmentUntouched ==
    LeaseInv /\ (Clock \/ RenewOutboxLease \/ Environment) => Untouched \/ Crash
BY DEF Clock, BecomesDue, LeaseExpires, RenewOutboxLease, Environment, ProviderFilesCopy,
       PruneMessageBlob, ExpungeCopy, NewGeneration, SyncNewGeneration, SyncSent, Untouched

\* The worker's own steps keep the hold or end it.
LEMMA WorkerHold ==
    ASSUME LeaseInv, TypeOK', WorkerLoop
    PROVE  LeaseInv'
<1> USE DEF FilingPlaces
<1> TypeOK
  BY DEF LeaseInv
<1>a. ASSUME ~Working' PROVE LeaseInv'
  BY <1>a DEF LeaseInv, LeaseStable
<1>b. ASSUME DropJob PROVE LeaseInv'
  BY <1>a, <1>b DEF DropJob
<1>c. ASSUME NEW place \in {"record", "recordFiling", "reset", "finish", "accepted", "complete"},
             UNCHANGED rowVars, GoTo(place), epoch' = epoch,
             place \in {"record", "accepted"} => pc \in {"send", "accepted"},
             place \notin {"record", "accepted"} => pc \in FilingPlaces
      PROVE  LeaseInv'
  BY <1>c DEF GoTo, LeaseInv, LeaseStable
<1>1. CASE RecoverInterruptedOutboxJobs \/ RecoverExpiredOutboxJobs
  BY <1>a, <1>1 DEF RecoverInterruptedOutboxJobs, RecoverExpiredOutboxJobs
<1>2. ASSUME NEW j \in Jobs, PurgeCompletedOutboxHistory(j) PROVE LeaseInv'
  BY <1>a, <1>2 DEF PurgeCompletedOutboxHistory
<1>3. ASSUME NEW j \in Jobs, ClaimNextOutboxJob(j) PROVE LeaseInv'
  BY <1>3 DEF ClaimNextOutboxJob, Claimable, LeaseInv, LeaseStable, TypeOK
<1>4. CASE MarkOutboxSMTPInFlight
  BY <1>b, <1>4 DEF MarkOutboxSMTPInFlight, UpdateClaimed, GoTo, LeaseInv, LeaseStable, TypeOK
<1>5. CASE DeliveryNotPossible
  BY <1>c, <1>5 DEF DeliveryNotPossible
<1>6. CASE SendRawReader
  BY <1>c, <1>6 DEF SendRawReader
<1>7. CASE MarkOutboxSMTPAccepted
  BY <1>b, <1>c, <1>7, RefusedType DEF MarkOutboxSMTPAccepted
<1>8. CASE RecordDeliveryFailure \/ RetryOutboxFiling
  BY <1>b, <1>8 DEF RecordDeliveryFailure, RetryOutboxFiling
<1>d. ASSUME pc \in FilingPlaces, NEW b, ThenAppend(b) PROVE LeaseInv'
  <2>1. CASE DropJob
    BY <2>1, <1>b
  <2>2. CASE ~DropJob
    BY <1>d, <2>2 DEF ThenAppend, UpdateClaimed, GoTo, LeaseInv, LeaseStable, TypeOK
  <2> QED BY <2>1, <2>2
<1>e. ASSUME pc \in FilingPlaces, NEW state, GiveUpFiling(state) PROVE LeaseInv'
  BY <1>c, <1>e DEF GiveUpFiling
<1>f. ASSUME pc \in FilingPlaces, NEW u, ConfirmUid(u) PROVE LeaseInv'
  BY <1>c, <1>f DEF ConfirmUid
<1>9. CASE FilingNotPossible
  BY <1>e, <1>9 DEF FilingNotPossible
<1>10. CASE ReconcileOutboxSentAppend
  BY <1>d, <1>e, <1>f, <1>10 DEF ReconcileOutboxSentAppend
<1>11. CASE SnapshotSentCopies
  BY <1>d, <1>e, <1>f, <1>11 DEF SnapshotSentCopies
<1>12. CASE AppendMessage
  BY <1>e, <1>f, <1>12 DEF AppendMessage
<1>13. CASE PromoteOutboxMessage
  BY <1>c, <1>13 DEF PromoteOutboxMessage, StoreFails
<1>14. CASE CompleteOutboxFiling
  BY <1>b, <1>c, <1>14, RefusedType DEF CompleteOutboxFiling
<1>15. CASE ResetMailboxGenerationIfNeeded
  BY <1>c, <1>15 DEF ResetMailboxGenerationIfNeeded, StoreFails
<1> QED
  BY <1>1, <1>2, <1>3, <1>4, <1>5, <1>6, <1>7, <1>8, <1>9, <1>10, <1>11, <1>12, <1>13, <1>14,
     <1>15
  DEF WorkerLoop

\* Every step keeps the worker's exclusive hold.
LEMMA NextHold == LeaseInv /\ [Next]_vars => LeaseInv'
<1> SUFFICES ASSUME LeaseInv, [Next]_vars PROVE LeaseInv'
  OBVIOUS
<1>1. TypeOK'
  BY NextType DEF LeaseInv
<1>2. CASE UNCHANGED vars
  BY <1>1, <1>2, UntouchedHold DEF vars, Untouched
<1>3. CASE WorkerLoop
  BY <1>1, <1>3, WorkerHold
<1>4. CASE Crash
  BY <1>1, <1>4 DEF Crash, LeaseInv, LeaseStable, FilingPlaces
<1>5. CASE Handlers \/ Clock \/ RenewOutboxLease \/ Environment
  BY <1>1, <1>4, <1>5, HandlersUntouched, EnvironmentUntouched, UntouchedHold
<1> QED BY <1>2, <1>3, <1>5 DEF Next

\* From the claim to the worker's last write no handler, recovery, purge or
\* expiring lease takes the claimed row from it, in every instance.
THEOREM LeaseHeld == Spec => []LeaseStable
<1>1. Init => LeaseInv
  BY InitType DEF Init, LeaseInv, LeaseStable, FilingPlaces
<1>2. LeaseInv => LeaseStable
  BY DEF LeaseInv
<1> QED BY <1>1, <1>2, NextHold, PTL DEF Spec

-----------------------------------------------------------------------------
(* No duplicate delivery without consent *)

\* The user has allowed one more acceptance of j than the server has made.
Room(j) == accepts[j] + 1 <= rows[j] + consents[j]

\* A failure the worker is about to record as safe to send again has room.
RecordInv ==
    pc = "record" =>
        /\ result \in {"failed", "retry_wait", "delivery_unknown"}
        /\ result \in {"failed", "retry_wait"} => Room(job.key)

\* The inductive invariant.
DeliveryInv == LeaseInv /\ NoDuplicateDelivery /\ RecordInv

\* NoDuplicateDelivery in terms of Room.
LEMMA RoomLeft ==
    ASSUME TypeOK
    PROVE  NoDuplicateDelivery <=>
           \A j \in Jobs : /\ accepts[j] <= rows[j] + consents[j]
                           /\ Undelivered(j) => Room(j)
<1>1. \A j \in Jobs : accepts[j] \in Nat /\ rows[j] \in Nat /\ consents[j] \in Nat
  BY DEF TypeOK
<1> QED BY <1>1 DEF NoDuplicateDelivery, Room

\* A step after which nothing more can be sent than before keeps the bound.
LEMMA QuietStep ==
    ASSUME TypeOK, TypeOK', NoDuplicateDelivery, UNCHANGED <<accepts, rows, consents>>,
           \A j \in Jobs : Undelivered(j)' => Undelivered(j) \/ Room(j)
    PROVE  NoDuplicateDelivery'
<1>1. \A j \in Jobs : accepts[j] \in Nat /\ rows[j] \in Nat /\ consents[j] \in Nat
  BY DEF TypeOK
<1> QED BY <1>1 DEF NoDuplicateDelivery, Room

\* So does a step that leaves the worker alone and only adds rows or consents.
LEMMA RecordKept ==
    ASSUME TypeOK, TypeOK', RecordInv, UNCHANGED <<pc, job, result, accepts>>,
           \A j \in Jobs : rows'[j] >= rows[j] /\ consents'[j] >= consents[j]
    PROVE  RecordInv'
<1> SUFFICES ASSUME pc = "record" PROVE RecordInv'
  BY DEF RecordInv
<1>1. job.key \in Jobs
  BY DEF TypeOK
<1>2. /\ accepts[job.key] \in Nat /\ rows[job.key] \in Nat /\ consents[job.key] \in Nat
      /\ rows'[job.key] \in Nat /\ consents'[job.key] \in Nat
  BY <1>1 DEF TypeOK
<1>3. rows'[job.key] >= rows[job.key] /\ consents'[job.key] >= consents[job.key]
  BY <1>1
<1>4. Room(job.key) => Room(job.key)'
  BY <1>2, <1>3 DEF Room
<1> QED BY <1>4 DEF RecordInv

\* Deleting rows makes nothing sendable.
LEMMA DeleteQuiet ==
    ASSUME TypeOK, NEW S \in SUBSET Jobs, DeleteRows(S), UNCHANGED <<pc, job>>
    PROVE  \A j \in Jobs : Undelivered(j)' => Undelivered(j)
BY DEF TypeOK, DeleteRows, Cleared, Undelivered

\* Handlers spend nothing: a new row and a confirmed retry add their own room.
LEMMA HandlersDelivery ==
    ASSUME TypeOK, TypeOK', NoDuplicateDelivery, RecordInv, Handlers
    PROVE  NoDuplicateDelivery' /\ RecordInv'
<1>0. \A j \in Jobs : accepts[j] \in Nat /\ rows[j] \in Nat /\ consents[j] \in Nat
  BY DEF TypeOK
<1>a. ASSUME UNCHANGED <<pc, job, result, accepts, rows, consents>> PROVE RecordInv'
  BY <1>0, <1>a, RecordKept
<1>b. ASSUME NEW S \in SUBSET Jobs, DeleteRows(S),
             UNCHANGED <<pc, job, result, accepts, rows, consents>>
      PROVE  NoDuplicateDelivery' /\ RecordInv'
  BY <1>a, <1>b, DeleteQuiet, QuietStep
<1>1. ASSUME NEW j \in Jobs, ComposeLookup(j) \/ AcknowledgeOutboxJob(j) \/ RequeueOutboxFiling(j)
      PROVE  NoDuplicateDelivery' /\ RecordInv'
  BY <1>a, <1>1, QuietStep
  DEF ComposeLookup, AcknowledgeOutboxJob, RequeueOutboxFiling, Undelivered
<1>2. ASSUME NEW j \in Jobs, EnqueueOutboxMessage(j) PROVE NoDuplicateDelivery' /\ RecordInv'
  <2>1. CASE InsertJob(j)
    <3>1. rows' = [rows EXCEPT ![j] = @ + 1] /\ delivery' = [delivery EXCEPT ![j] = "queued"]
      BY <2>1 DEF InsertJob
    <3>2. UNCHANGED <<pc, job, result, accepts, consents>>
      BY <1>2 DEF EnqueueOutboxMessage
    <3>3. RecordInv'
      <4>1. \A k \in Jobs : rows'[k] >= rows[k] /\ consents'[k] >= consents[k]
        BY <1>0, <3>1, <3>2 DEF TypeOK
      <4> QED BY <3>2, <4>1, RecordKept
    <3>4. NoDuplicateDelivery'
      <4> SUFFICES ASSUME NEW k \in Jobs
                   PROVE  accepts'[k] + (IF Undelivered(k)' THEN 1 ELSE 0) <= rows'[k] + consents'[k]
        BY DEF NoDuplicateDelivery
      <4>1. CASE k = j
        <5>1. rows'[k] = rows[k] + 1
          BY <3>1, <4>1 DEF TypeOK
        <5>2. accepts[k] <= rows[k] + consents[k]
          BY RoomLeft
        <5> QED BY <1>0, <3>2, <5>1, <5>2
      <4>2. CASE k /= j
        <5>1. rows'[k] = rows[k] /\ delivery'[k] = delivery[k]
          BY <3>1, <4>2 DEF TypeOK
        <5>2. Undelivered(k)' <=> Undelivered(k)
          BY <3>2, <5>1 DEF Undelivered
        <5> QED BY <3>2, <5>1, <5>2 DEF NoDuplicateDelivery
      <4> QED BY <4>1, <4>2
    <3> QED BY <3>3, <3>4
  <2>2. CASE DropOwnSpool(j)
    <3>1. UNCHANGED <<delivery, pc, job, result, accepts, rows, consents>>
      BY <1>2, <2>2 DEF EnqueueOutboxMessage, DropOwnSpool
    <3> QED BY <1>a, <3>1, QuietStep DEF Undelivered
  <2> QED BY <1>2, <2>1, <2>2 DEF EnqueueOutboxMessage
<1>3. ASSUME NEW j \in Jobs, RequeueOutboxJob(j) PROVE NoDuplicateDelivery' /\ RecordInv'
  <2>1. delivery' = [delivery EXCEPT ![j] = "queued"] /\ UNCHANGED <<pc, job, result, accepts, rows>>
    BY <1>3 DEF RequeueOutboxJob
  <2>2. CASE delivery[j] = "failed" /\ UNCHANGED consents
    <3>1. \A k \in Jobs : Undelivered(k)' => Undelivered(k)
      BY <2>1, <2>2 DEF Undelivered, TypeOK
    <3> QED BY <1>a, <2>1, <2>2, <3>1, QuietStep
  <2>3. CASE consents' = [consents EXCEPT ![j] = @ + 1]
    <3>1. RecordInv'
      <4>1. \A k \in Jobs : rows'[k] >= rows[k] /\ consents'[k] >= consents[k]
        BY <1>0, <2>1, <2>3 DEF TypeOK
      <4> QED BY <2>1, <4>1, RecordKept
    <3>2. NoDuplicateDelivery'
      <4> SUFFICES ASSUME NEW k \in Jobs
                   PROVE  accepts'[k] + (IF Undelivered(k)' THEN 1 ELSE 0) <= rows'[k] + consents'[k]
        BY DEF NoDuplicateDelivery
      <4>1. CASE k = j
        <5>1. consents'[k] = consents[k] + 1
          BY <2>3, <4>1 DEF TypeOK
        <5>2. accepts[k] <= rows[k] + consents[k]
          BY RoomLeft
        <5> QED BY <1>0, <2>1, <5>1, <5>2
      <4>2. CASE k /= j
        <5>1. consents'[k] = consents[k] /\ delivery'[k] = delivery[k]
          BY <2>1, <2>3, <4>2 DEF TypeOK
        <5>2. Undelivered(k)' <=> Undelivered(k)
          BY <2>1, <5>1 DEF Undelivered
        <5> QED BY <2>1, <5>1, <5>2 DEF NoDuplicateDelivery
      <4> QED BY <4>1, <4>2
    <3> QED BY <3>1, <3>2
  <2> QED BY <1>3, <2>2, <2>3 DEF RequeueOutboxJob
<1>4. ASSUME NEW j \in Jobs, CancelOutboxJob(j) PROVE NoDuplicateDelivery' /\ RecordInv'
  BY <1>b, <1>4 DEF CancelOutboxJob
<1>5. ASSUME PurgeOutboxJobsForIMAPAccount PROVE NoDuplicateDelivery' /\ RecordInv'
  BY <1>b, <1>5 DEF PurgeOutboxJobsForIMAPAccount
<1>6. ASSUME PurgeOutboxJobsForSMTPAccount PROVE NoDuplicateDelivery' /\ RecordInv'
  BY <1>b, <1>6 DEF PurgeOutboxJobsForSMTPAccount
<1>7. ASSUME DeleteSMTPAccountForUser PROVE NoDuplicateDelivery' /\ RecordInv'
  BY <1>a, <1>7, QuietStep DEF DeleteSMTPAccountForUser, Undelivered
<1> QED
  BY <1>1, <1>2, <1>3, <1>4, <1>5, <1>6, <1>7 DEF Handlers

\* The clock and the environment make nothing sendable; a crash during DATA
\* leaves a row that only recovery's "delivery_unknown" can follow.
LEMMA EnvironmentDelivery ==
    ASSUME TypeOK, TypeOK', NoDuplicateDelivery, RecordInv,
           Clock \/ RenewOutboxLease \/ Environment
    PROVE  NoDuplicateDelivery' /\ RecordInv'
<1>0. \A j \in Jobs : rows[j] \in Nat /\ consents[j] \in Nat
  BY DEF TypeOK
<1>1. CASE Crash
  <2>1. \A j \in Jobs : Undelivered(j)' => Undelivered(j)
    BY <1>1 DEF Crash, Undelivered
  <2> QED BY <1>1, <2>1, QuietStep DEF Crash, RecordInv
<1>2. CASE ~Crash
  <2>1. UNCHANGED <<delivery, pc, job, result, accepts, rows, consents>>
    BY <1>2 DEF Clock, BecomesDue, LeaseExpires, RenewOutboxLease, Environment,
                ProviderFilesCopy, PruneMessageBlob, ExpungeCopy, NewGeneration, SyncNewGeneration, SyncSent
  <2>2. RecordInv'
    BY <1>0, <2>1, RecordKept
  <2> QED BY <2>1, <2>2, QuietStep DEF Undelivered
<1> QED BY <1>1, <1>2

\* A transmission uses the room of its row, and what the worker then records
\* never gives it back.
LEMMA SendDelivery ==
    ASSUME LeaseInv, TypeOK', NoDuplicateDelivery, "spoolread" \notin Env,
           DeliveryNotPossible \/ SendRawReader
    PROVE  NoDuplicateDelivery' /\ RecordInv'
<1> TypeOK
  BY DEF LeaseInv
<1>0. \A j \in Jobs : accepts[j] \in Nat /\ rows[j] \in Nat /\ consents[j] \in Nat
  BY DEF TypeOK
<1>1. /\ pc = "send" /\ job.key \in Jobs /\ delivery[job.key] = "smtp_in_flight"
      /\ pc' \in {"accepted", "record"} /\ job' = job
      /\ UNCHANGED <<delivery, rows, consents>>
  BY DEF DeliveryNotPossible, SendRawReader, GoTo, LeaseInv, LeaseStable, TypeOK
<1>2. Room(job.key)
  BY <1>1, RoomLeft DEF Undelivered
<1>3. \A t, u \in BOOLEAN : /\ FailureState(t, u) \in {"failed", "retry_wait", "delivery_unknown"}
                            /\ u => FailureState(t, u) = "delivery_unknown"
  BY DEF FailureState
<1>4. \A j \in Jobs : Undelivered(j)' => Undelivered(j)
  BY <1>1 DEF Undelivered
<1>5. ASSUME accepts' = accepts, pc' = "record",
             result' \in {"failed", "retry_wait", "delivery_unknown"}
      PROVE  NoDuplicateDelivery' /\ RecordInv'
  BY <1>1, <1>2, <1>4, <1>5, QuietStep DEF RecordInv, Room
<1>6. ASSUME accepts' = [accepts EXCEPT ![job.key] = @ + 1],
             pc' = "accepted" \/ result' = "delivery_unknown"
      PROVE  NoDuplicateDelivery' /\ RecordInv'
  <2>1. RecordInv'
    BY <1>6, <1>1 DEF RecordInv
  <2>2. NoDuplicateDelivery'
    <3> SUFFICES ASSUME NEW k \in Jobs
                 PROVE  accepts'[k] + (IF Undelivered(k)' THEN 1 ELSE 0) <= rows'[k] + consents'[k]
      BY DEF NoDuplicateDelivery
    <3>1. CASE k = job.key
      <4>1. ~Undelivered(k)'
        BY <1>1, <3>1 DEF Undelivered
      <4>2. accepts'[k] = accepts[k] + 1
        BY <1>6, <3>1 DEF TypeOK
      <4> QED BY <1>0, <1>1, <1>2, <3>1, <4>1, <4>2 DEF Room
    <3>2. CASE k /= job.key
      <4>1. accepts'[k] = accepts[k]
        BY <1>6, <3>2 DEF TypeOK
      <4>2. Undelivered(k)' => Undelivered(k)
        BY <1>4
      <4>3. accepts[k] + (IF Undelivered(k) THEN 1 ELSE 0) <= rows[k] + consents[k]
        BY DEF NoDuplicateDelivery
      <4> QED BY <1>0, <1>1, <4>1, <4>2, <4>3
    <3> QED BY <3>1, <3>2
  <2> QED BY <2>1, <2>2
<1>7. CASE DeliveryNotPossible
  BY <1>3, <1>5, <1>7 DEF DeliveryNotPossible, GoTo
<1>8. CASE SendRawReader
  <2>1. \/ accepts' = [accepts EXCEPT ![job.key] = @ + 1] /\ pc' = "accepted"
        \/ accepts' = accepts /\ pc' = "record" /\ \E t \in BOOLEAN : result' = FailureState(t, FALSE)
        \/ /\ accepts' = [accepts EXCEPT ![job.key] = @ + 1] \/ accepts' = accepts
           /\ pc' = "record" /\ result' = FailureState(FALSE, TRUE)
    BY <1>8 DEF SendRawReader, GoTo
  <2> QED BY <1>3, <1>5, <1>6, <2>1
<1> QED BY <1>7, <1>8

\* The worker's other steps make nothing sendable that had no room.
LEMMA WorkerDelivery ==
    ASSUME LeaseInv, TypeOK', NoDuplicateDelivery, RecordInv, "spoolread" \notin Env, WorkerLoop
    PROVE  NoDuplicateDelivery' /\ RecordInv'
<1> TypeOK
  BY DEF LeaseInv
<1>a. ASSUME UNCHANGED <<accepts, rows, consents>>,
             pc' /= "record" \/ result' = "delivery_unknown",
             \A j \in Jobs : Undelivered(j)' => Undelivered(j) \/ Room(j)
      PROVE  NoDuplicateDelivery' /\ RecordInv'
  BY <1>a, QuietStep DEF RecordInv
<1>1. CASE RecoverInterruptedOutboxJobs \/ RecoverExpiredOutboxJobs
  <2>1. UNCHANGED <<accepts, rows, consents>> /\ pc' = "idle"
    BY <1>1 DEF RecoverInterruptedOutboxJobs, RecoverExpiredOutboxJobs
  <2>2. \A j \in Jobs : delivery'[j] \in {delivery[j], RecoveredDelivery(j)}
    <3>1. CASE UNCHANGED rowVars
      BY <3>1
    <3>2. CASE RecoverOutboxJobs(Jobs) \/ RecoverOutboxJobs(expired)
      BY <3>2 DEF RecoverOutboxJobs
    <3> QED BY <1>1, <3>1, <3>2 DEF RecoverInterruptedOutboxJobs, RecoverExpiredOutboxJobs
  <2>3. \A j \in Jobs : Undelivered(j)' => Undelivered(j)
    BY <2>1, <2>2 DEF RecoveredDelivery, Undelivered
  <2> QED BY <1>a, <2>1, <2>3
<1>2. ASSUME NEW j \in Jobs, PurgeCompletedOutboxHistory(j) PROVE NoDuplicateDelivery' /\ RecordInv'
  <2>1. DeleteRows({j}) /\ UNCHANGED <<accepts, rows, consents, pc, job>> /\ pc = "idle"
    BY <1>2 DEF PurgeCompletedOutboxHistory
  <2> QED BY <1>a, <2>1, DeleteQuiet
<1>3. ASSUME NEW j \in Jobs, ClaimNextOutboxJob(j) PROVE NoDuplicateDelivery' /\ RecordInv'
  <2>1. UNCHANGED <<accepts, rows, consents>> /\ pc' \in {"file", "deliver"}
    BY <1>3 DEF ClaimNextOutboxJob
  <2>2. \A k \in Jobs : Undelivered(k)' => Undelivered(k)
    BY <1>3, <2>1 DEF ClaimNextOutboxJob, Claimable, Undelivered, TypeOK
  <2> QED BY <1>a, <2>1, <2>2
<1>4. CASE MarkOutboxSMTPInFlight
  <2>1. UNCHANGED <<accepts, rows, consents>> /\ pc' \in {"send", "idle"}
    BY <1>4 DEF MarkOutboxSMTPInFlight, GoTo, DropJob
  <2>2. \A k \in Jobs : Undelivered(k)' => Undelivered(k)
    BY <1>4 DEF MarkOutboxSMTPInFlight, UpdateClaimed, UpdateRefused, GoTo, DropJob, Undelivered,
                TypeOK, LeaseInv, LeaseStable
  <2> QED BY <1>a, <2>1, <2>2
<1>5. CASE DeliveryNotPossible \/ SendRawReader
  BY <1>5, SendDelivery
<1>6. CASE MarkOutboxSMTPAccepted
  <2>1. UNCHANGED <<accepts, rows, consents>> /\ (pc' = "idle" \/ result' = "delivery_unknown")
    BY <1>6 DEF MarkOutboxSMTPAccepted, DropJob
  <2>2. pc' /= "send" /\ (delivery' = delivery \/ delivery' = [delivery EXCEPT ![job.key] = "accepted"])
    BY <1>6 DEF MarkOutboxSMTPAccepted, UpdateRefused, GoTo, DropJob
  <2>3. \A k \in Jobs : Undelivered(k)' => Undelivered(k)
    BY <2>2 DEF Undelivered, TypeOK
  <2> QED BY <1>a, <2>1, <2>3
<1>7. CASE RecordDeliveryFailure
  <2>1. UNCHANGED <<accepts, rows, consents>> /\ pc' = "idle" /\ job.key \in Jobs
    BY <1>7 DEF RecordDeliveryFailure, DropJob, TypeOK
  <2>2. delivery' = delivery \/ delivery' = [delivery EXCEPT ![job.key] = result]
    BY <1>7 DEF RecordDeliveryFailure, UpdateRefused
  <2>3. /\ result \in {"failed", "retry_wait", "delivery_unknown"}
        /\ result \in {"failed", "retry_wait"} => Room(job.key)
    BY <1>7 DEF RecordDeliveryFailure, RecordInv
  <2>4. \A k \in Jobs : Undelivered(k)' => Undelivered(k) \/ Room(k)
    BY <2>1, <2>2, <2>3 DEF Undelivered, TypeOK
  <2> QED BY <1>a, <2>1, <2>4
<1>8. CASE \/ FilingNotPossible \/ ReconcileOutboxSentAppend \/ SnapshotSentCopies
           \/ AppendMessage \/ ResetMailboxGenerationIfNeeded \/ PromoteOutboxMessage
           \/ CompleteOutboxFiling \/ RetryOutboxFiling
  <2>1. UNCHANGED <<accepts, rows, consents>>
    BY <1>8 DEF FilingNotPossible, ReconcileOutboxSentAppend, SnapshotSentCopies, AppendMessage,
                ResetMailboxGenerationIfNeeded, PromoteOutboxMessage, CompleteOutboxFiling, RetryOutboxFiling
  <2>2. UNCHANGED delivery
    BY <1>8 DEF FilingNotPossible, ReconcileOutboxSentAppend, SnapshotSentCopies, AppendMessage,
                ResetMailboxGenerationIfNeeded, PromoteOutboxMessage, CompleteOutboxFiling, RetryOutboxFiling,
                GiveUpFiling, ConfirmUid, ThenAppend, UpdateRefused
  <2>3. pc' \notin {"record", "send"}
    BY <1>8 DEF FilingNotPossible, ReconcileOutboxSentAppend, SnapshotSentCopies, AppendMessage,
                ResetMailboxGenerationIfNeeded, PromoteOutboxMessage, CompleteOutboxFiling, RetryOutboxFiling,
                GiveUpFiling, ConfirmUid, ThenAppend, DropJob, GoTo
  <2>4. \A k \in Jobs : Undelivered(k)' => Undelivered(k)
    BY <2>2, <2>3 DEF Undelivered
  <2> QED BY <1>a, <2>1, <2>3, <2>4
<1> QED
  BY <1>1, <1>2, <1>3, <1>4, <1>5, <1>6, <1>7, <1>8 DEF WorkerLoop

\* What the worker may record, and the room that each row has, never change
\* their relation.
LEMMA DeliveryInductive ==
    ASSUME "spoolread" \notin Env
    PROVE  Spec => []DeliveryInv
<1>1. Init => DeliveryInv
  <2> SUFFICES ASSUME Init PROVE DeliveryInv
    OBVIOUS
  <2>1. LeaseInv /\ RecordInv
    BY InitType DEF Init, LeaseInv, LeaseStable, FilingPlaces, RecordInv
  <2>2. NoDuplicateDelivery
    BY DEF Init, NoDuplicateDelivery, Undelivered
  <2> QED BY <2>1, <2>2 DEF DeliveryInv
<1>2. DeliveryInv /\ [Next]_vars => DeliveryInv'
  <2> SUFFICES ASSUME DeliveryInv, [Next]_vars PROVE DeliveryInv'
    OBVIOUS
  <2> USE DEF DeliveryInv
  <2>1. LeaseInv' /\ TypeOK /\ TypeOK'
    BY NextHold DEF LeaseInv
  <2>2. CASE UNCHANGED vars
    BY <2>1, <2>2 DEF vars, NoDuplicateDelivery, Undelivered, RecordInv, Room
  <2>3. CASE Next
    BY <2>1, <2>3, HandlersDelivery, EnvironmentDelivery, WorkerDelivery DEF Next
  <2> QED BY <2>2, <2>3
<1> QED BY <1>1, <1>2, PTL DEF Spec

\* Unless reading the spool file fails inside DATA, the SMTP server accepts a
\* message at most once per queued row and per risk the user confirmed, in
\* every instance: crashes, failed commits, lost answers and expired leases
\* never lead to a second transmission on their own.
THEOREM NoDuplicates ==
    ASSUME "spoolread" \notin Env
    PROVE  Spec => []NoDuplicateDelivery
<1>1. DeliveryInv => NoDuplicateDelivery
  BY DEF DeliveryInv
<1> QED BY <1>1, DeliveryInductive, PTL

-----------------------------------------------------------------------------
(* The local message and the spool file *)

\* A row has a filing state of its own only once its delivery is accepted.
FiledAfterAccepted == \A j \in Jobs : delivery[j] /= "accepted" => filing[j] = "not_started"

\* What is completed has been promoted.
PromotedFirst == pc = "complete" => local[job.key].state /= "optimistic"

\* What the worker is about to record is a failed attempt.
RecordsFailure ==
    /\ pc = "record" => result \in {"failed", "retry_wait", "delivery_unknown"}
    /\ pc = "recordFiling" => result \in {"needs_attention", "retry_wait", "reconciling"}

\* The inductive invariant.
RetainedInv == LeaseInv /\ RetainedUntilFiled /\ FiledAfterAccepted /\ PromotedFirst /\ RecordsFailure

\* RetainedUntilFiled and FiledAfterAccepted key by key.
KeyRetained(j) ==
    /\ local[j].state = "optimistic" => delivery[j] /= "none" /\ filing[j] /= "complete" /\ j \in spool
    /\ delivery[j] \notin {"none", "accepted"} => local[j].state = "optimistic"
    /\ delivery[j] /= "accepted" => filing[j] = "not_started"

LEMMA ByKey == RetainedUntilFiled /\ FiledAfterAccepted <=> \A j \in Jobs : KeyRetained(j)
BY DEF RetainedUntilFiled, SpoolRetained, OptimisticOwned, FiledAfterAccepted, KeyRetained, Present

\* A step that touches no column, message or file of the key.
LEMMA KeySame ==
    ASSUME NEW j \in Jobs, KeyRetained(j),
           delivery'[j] = delivery[j], filing'[j] = filing[j], local'[j] = local[j],
           j \in spool => j \in spool'
    PROVE  KeyRetained(j)'
BY DEF KeyRetained

\* A message that is gone, or promoted, keeps its row from nothing more.
LEMMA KeySettled ==
    ASSUME NEW j \in Jobs, KeyRetained(j), local'[j].state /= "optimistic",
           delivery'[j] \in {"none", "accepted"},
           delivery'[j] = "none" => filing'[j] = "not_started"
    PROVE  KeyRetained(j)'
BY DEF KeyRetained

\* A row that goes on, or comes to be delivered, with its message and file.
LEMMA KeyGoesOn ==
    ASSUME NEW j \in Jobs, KeyRetained(j), delivery[j] /= "none", delivery'[j] /= "none",
           delivery[j] = "accepted" => delivery'[j] = "accepted",
           IF delivery'[j] = "accepted" THEN filing'[j] /= "complete" ELSE filing'[j] = filing[j],
           local'[j] = local[j], j \in spool => j \in spool'
    PROVE  KeyRetained(j)'
BY DEF KeyRetained

\* Deleting rows with their messages.
LEMMA DeletedRetained ==
    ASSUME TypeOK, NEW S \in SUBSET Jobs, NEW T \in SUBSET Jobs, DeleteRows(S), DeleteMessages(T),
           T \subseteq S, \A j \in S \ T : delivery[j] = "none",
           \A j \in Jobs : KeyRetained(j)
    PROVE  \A j \in Jobs : KeyRetained(j)'
<1> SUFFICES ASSUME NEW j \in Jobs PROVE KeyRetained(j)'
  OBVIOUS
<1>1. CASE j \in S
  <2>1. delivery'[j] = "none" /\ filing'[j] = "not_started"
    BY <1>1 DEF DeleteRows, Cleared
  <2>2. local'[j].state /= "optimistic"
    BY <1>1 DEF DeleteMessages, Cleared, NoMessage, KeyRetained
  <2> QED BY <2>1, <2>2, KeySettled
<1>2. CASE j \notin S
  <2>1. delivery'[j] = delivery[j] /\ filing'[j] = filing[j] /\ local'[j] = local[j]
    BY <1>2 DEF DeleteRows, DeleteMessages, Cleared
  <2>2. j \in spool => j \in spool'
    BY <1>2 DEF DeleteMessages
  <2> QED BY <2>1, <2>2, KeySame
<1> QED BY <1>1, <1>2

LEMMA HandlersRetained ==
    ASSUME RetainedInv, Handlers
    PROVE  \A j \in Jobs : KeyRetained(j)'
<1> TypeOK /\ \A j \in Jobs : KeyRetained(j)
  BY ByKey DEF RetainedInv, LeaseInv
<1>1. ASSUME NEW k \in Jobs, ComposeLookup(k) \/ AcknowledgeOutboxJob(k) PROVE \A j \in Jobs : KeyRetained(j)'
  BY <1>1, KeySame DEF ComposeLookup, AcknowledgeOutboxJob
<1>2. ASSUME NEW k \in Jobs, EnqueueOutboxMessage(k) PROVE \A j \in Jobs : KeyRetained(j)'
  <2>1. CASE ~Present(k) /\ InsertJob(k)
    <3>1. delivery[k] = "none" /\ filing' = filing /\ delivery' = [delivery EXCEPT ![k] = "queued"]
      BY <2>1 DEF Present, InsertJob
    <3>2. local' = [local EXCEPT ![k] = Optimistic] /\ spool' = spool \cup {k}
      BY <2>1 DEF InsertJob
    <3>3. KeyRetained(k)'
      BY <3>1, <3>2 DEF KeyRetained, TypeOK, Optimistic
    <3>4. ASSUME NEW j \in Jobs \ {k} PROVE KeyRetained(j)'
      BY <3>1, <3>2, <3>4, KeySame DEF TypeOK
    <3> QED BY <3>3, <3>4
  <2>2. CASE DropOwnSpool(k)
    BY <2>2, KeySame DEF DropOwnSpool
  <2> QED BY <1>2, <2>1, <2>2 DEF EnqueueOutboxMessage
<1>3. ASSUME NEW k \in Jobs, RequeueOutboxJob(k) PROVE \A j \in Jobs : KeyRetained(j)'
  <2>1. /\ delivery[k] \in {"failed", "delivery_unknown"} /\ delivery' = [delivery EXCEPT ![k] = "queued"]
        /\ UNCHANGED <<filing, local, spool>>
    BY <1>3 DEF RequeueOutboxJob
  <2>2. KeyRetained(k)'
    BY <2>1 DEF KeyRetained, TypeOK
  <2>3. ASSUME NEW j \in Jobs \ {k} PROVE KeyRetained(j)'
    BY <2>1, KeySame DEF TypeOK
  <2> QED BY <2>2, <2>3
<1>4. ASSUME NEW k \in Jobs, RequeueOutboxFiling(k) PROVE \A j \in Jobs : KeyRetained(j)'
  <2>1. /\ delivery[k] = "accepted" /\ filing' = [filing EXCEPT ![k] = "retry_wait"]
        /\ UNCHANGED <<delivery, local, spool>>
    BY <1>4 DEF RequeueOutboxFiling
  <2>2. KeyRetained(k)'
    BY <2>1 DEF KeyRetained, TypeOK
  <2>3. ASSUME NEW j \in Jobs \ {k} PROVE KeyRetained(j)'
    BY <2>1, KeySame DEF TypeOK
  <2> QED BY <2>2, <2>3
<1>5. ASSUME NEW k \in Jobs, CancelOutboxJob(k) PROVE \A j \in Jobs : KeyRetained(j)'
  BY <1>5, DeletedRetained DEF CancelOutboxJob
<1>6. CASE PurgeOutboxJobsForIMAPAccount
  <2> DEFINE T == {j \in Jobs : Present(j)}
  <2>1. DeleteRows(Jobs) /\ DeleteMessages(T)
    BY <1>6 DEF PurgeOutboxJobsForIMAPAccount
  <2>2. \A j \in Jobs \ T : delivery[j] = "none"
    BY DEF Present
  <2> HIDE DEF T
  <2>3. T \subseteq Jobs
    BY DEF T
  <2> QED BY <2>1, <2>2, <2>3, DeletedRetained
<1>7. CASE PurgeOutboxJobsForSMTPAccount
  <2> DEFINE S == {j \in Jobs : delivery[j] \in Cancelable}
  <2>1. DeleteRows(S) /\ DeleteMessages(S) /\ S \in SUBSET Jobs
    BY <1>7 DEF PurgeOutboxJobsForSMTPAccount
  <2> HIDE DEF S
  <2> QED BY <2>1, DeletedRetained
<1>8. CASE DeleteSMTPAccountForUser
  BY <1>8, KeySame DEF DeleteSMTPAccountForUser
<1> QED BY <1>1, <1>2, <1>3, <1>4, <1>5, <1>6, <1>7, <1>8 DEF Handlers

\* A new generation and a sync take promoted messages only.
LEMMA PromotedGo ==
    ASSUME TypeOK, NEW S \in SUBSET Jobs, \A j \in S : local[j].state = "promoted",
           local' = Cleared(local, S, NoMessage), spool' = spool \ S, UNCHANGED <<delivery, filing>>,
           \A j \in Jobs : KeyRetained(j)
    PROVE  \A j \in Jobs : KeyRetained(j)'
<1> SUFFICES ASSUME NEW j \in Jobs PROVE KeyRetained(j)'
  OBVIOUS
<1>1. CASE j \in S
  BY <1>1 DEF KeyRetained, Cleared, NoMessage
<1>2. CASE j \notin S
  BY <1>2, KeySame DEF Cleared
<1> QED BY <1>1, <1>2

LEMMA ResetRetained ==
    ASSUME TypeOK, NEW v, ResetMailbox(v), UNCHANGED <<delivery, filing>>, \A j \in Jobs : KeyRetained(j)
    PROVE  \A j \in Jobs : KeyRetained(j)'
<1> DEFINE promoted == {j \in Jobs : local[j].state = "promoted"}
           stale == generation /= v \/ \E j \in promoted : local[j].validity /= v
           S == {j \in promoted : stale}
<1>1. local' = Cleared(local, S, NoMessage) /\ spool' = spool \ S
  BY DEF ResetMailbox
<1>2. S \in SUBSET Jobs /\ \A j \in S : local[j].state = "promoted"
  OBVIOUS
<1> HIDE DEF S
<1> QED BY <1>1, <1>2, PromotedGo

LEMMA EnvironmentRetained ==
    ASSUME RetainedInv, "retention" \notin Env, Clock \/ RenewOutboxLease \/ Environment
    PROVE  \A j \in Jobs : KeyRetained(j)'
<1> TypeOK /\ \A j \in Jobs : KeyRetained(j)
  BY ByKey DEF RetainedInv, LeaseInv
<1>1. ASSUME UNCHANGED <<delivery, filing, local, spool>> PROVE \A j \in Jobs : KeyRetained(j)'
  BY <1>1, KeySame
<1>2. CASE Clock \/ RenewOutboxLease
  BY <1>1, <1>2 DEF Clock, BecomesDue, LeaseExpires, RenewOutboxLease
<1>3. CASE Crash
  BY <1>1, <1>3 DEF Crash
<1>4. ASSUME NEW j \in Jobs, ProviderFilesCopy(j) PROVE \A k \in Jobs : KeyRetained(k)'
  BY <1>1, <1>4 DEF ProviderFilesCopy
<1>5. ASSUME NEW c \in sent, ExpungeCopy(c) PROVE \A k \in Jobs : KeyRetained(k)'
  BY <1>1, <1>5 DEF ExpungeCopy
<1>6. CASE NewGeneration
  BY <1>1, <1>6 DEF NewGeneration
<1>7. CASE SyncNewGeneration
  BY <1>7, ResetRetained DEF SyncNewGeneration
<1>8. CASE SyncSent
  <2> DEFINE S == {j \in {k \in Jobs : local[k].state = "promoted"} : local[j].uid \notin {c.uid : c \in sent}}
  <2>1. local' = Cleared(local, S, NoMessage) /\ spool' = spool \ S /\ UNCHANGED <<delivery, filing>>
    BY <1>8 DEF SyncSent
  <2>2. S \in SUBSET Jobs /\ \A j \in S : local[j].state = "promoted"
    OBVIOUS
  <2> HIDE DEF S
  <2> QED BY <2>1, <2>2, PromotedGo
<1> QED BY <1>2, <1>3, <1>4, <1>5, <1>6, <1>7, <1>8 DEF Environment, PruneMessageBlob

LEMMA RecoverRetained ==
    ASSUME RetainedInv, NEW S \in SUBSET Jobs, RecoverOutboxJobs(S), UNCHANGED <<local, spool>>
    PROVE  \A j \in Jobs : KeyRetained(j)'
<1> SUFFICES ASSUME NEW j \in Jobs PROVE KeyRetained(j)'
  OBVIOUS
<1> TypeOK /\ KeyRetained(j)
  BY ByKey DEF RetainedInv, LeaseInv
<1>1. /\ delivery'[j] = IF j \in S THEN RecoveredDelivery(j) ELSE delivery[j]
      /\ filing'[j] = IF j \in S THEN RecoveredFiling(j) ELSE filing[j]
  BY DEF RecoverOutboxJobs
<1>2. CASE j \notin S
  BY <1>1, <1>2, KeySame
<1>3. CASE j \in S /\ delivery[j] \in {"claimed", "smtp_in_flight"}
  BY <1>1, <1>3, KeyGoesOn DEF RecoveredDelivery, RecoveredFiling
<1>4. CASE j \in S /\ delivery[j] \notin {"claimed", "smtp_in_flight"}
  <2>1. delivery'[j] = delivery[j]
    BY <1>1, <1>4 DEF RecoveredDelivery
  <2>2. filing'[j] = filing[j] \/ (delivery[j] = "accepted" /\ filing'[j] = "reconciling")
    BY <1>1, <1>4 DEF RecoveredFiling
  <2> QED BY <2>1, <2>2, KeySame, KeyGoesOn
<1> QED BY <1>2, <1>3, <1>4

\* One key goes on; the others are not touched.
LEMMA OneGoesOn ==
    ASSUME TypeOK, NEW k \in Jobs, \A j \in Jobs : KeyRetained(j), UNCHANGED <<local, spool>>,
           NEW d, NEW f, delivery' = [delivery EXCEPT ![k] = d], filing' = [filing EXCEPT ![k] = f],
           delivery[k] /= "none", d /= "none", delivery[k] = "accepted" => d = "accepted",
           IF d = "accepted" THEN f /= "complete" ELSE f = filing[k]
    PROVE  \A j \in Jobs : KeyRetained(j)'
<1>1. delivery'[k] = d /\ filing'[k] = f
  BY DEF TypeOK
<1>2. KeyRetained(k)'
  BY <1>1, KeyGoesOn
<1>3. ASSUME NEW j \in Jobs \ {k} PROVE KeyRetained(j)'
  BY KeySame DEF TypeOK
<1> QED BY <1>2, <1>3

LEMMA WorkerRetained ==
    ASSUME RetainedInv, WorkerLoop
    PROVE  \A j \in Jobs : KeyRetained(j)'
<1> TypeOK /\ LeaseInv /\ \A j \in Jobs : KeyRetained(j)
  BY ByKey DEF RetainedInv, LeaseInv
<1> DEFINE k == job.key
<1>a. ASSUME UNCHANGED <<delivery, filing, local, spool>> PROVE \A j \in Jobs : KeyRetained(j)'
  BY <1>a, KeySame
<1>b. delivery = [delivery EXCEPT ![k] = delivery[k]] /\ filing = [filing EXCEPT ![k] = filing[k]]
  BY DEF TypeOK
<1>1. CASE RecoverInterruptedOutboxJobs
  BY <1>a, <1>1, RecoverRetained DEF RecoverInterruptedOutboxJobs
<1>2. CASE RecoverExpiredOutboxJobs
  <2>1. expired \in SUBSET Jobs /\ RecoverOutboxJobs(expired) /\ UNCHANGED <<local, spool>>
    BY <1>2 DEF RecoverExpiredOutboxJobs, TypeOK
  <2> QED BY <2>1, RecoverRetained
<1>3. ASSUME NEW j \in Jobs, PurgeCompletedOutboxHistory(j) PROVE \A i \in Jobs : KeyRetained(i)'
  BY <1>3, DeletedRetained DEF PurgeCompletedOutboxHistory
<1>4. ASSUME NEW j \in Jobs, ClaimNextOutboxJob(j) PROVE \A i \in Jobs : KeyRetained(i)'
  <2> DEFINE d == IF delivery[j] = "accepted" THEN "accepted" ELSE "claimed"
  <2>1. delivery' = [delivery EXCEPT ![j] = d] /\ UNCHANGED <<filing, local, spool>>
    BY <1>4 DEF ClaimNextOutboxJob
  <2>2. filing' = [filing EXCEPT ![j] = filing[j]]
    BY <2>1 DEF TypeOK
  <2>3. /\ delivery[j] /= "none" /\ d /= "none" /\ (delivery[j] = "accepted" => d = "accepted")
        /\ IF d = "accepted" THEN filing[j] /= "complete" ELSE TRUE
    BY <1>4 DEF ClaimNextOutboxJob, Claimable
  <2> HIDE DEF d
  <2> QED BY <2>1, <2>2, <2>3, OneGoesOn
<1>5. CASE MarkOutboxSMTPInFlight
  <2>1. CASE UpdateRefused
    BY <1>a, <1>5, <2>1 DEF MarkOutboxSMTPInFlight, UpdateRefused
  <2>2. CASE UpdateClaimed /\ ~UpdateRefused
    <3>1. /\ pc = "deliver" /\ delivery' = [delivery EXCEPT ![k] = "smtp_in_flight"]
          /\ UNCHANGED <<filing, local, spool>>
      BY <1>5, <2>2 DEF MarkOutboxSMTPInFlight
    <3>2. k \in Jobs /\ delivery[k] = "claimed"
      BY <3>1 DEF LeaseInv, LeaseStable, TypeOK
    <3> QED BY <1>b, <3>1, <3>2, OneGoesOn
  <2> QED BY <1>5, <2>1, <2>2 DEF MarkOutboxSMTPInFlight
<1>6. CASE DeliveryNotPossible \/ SendRawReader
  BY <1>a, <1>6 DEF DeliveryNotPossible, SendRawReader
<1>7. CASE MarkOutboxSMTPAccepted
  <2>1. CASE UpdateRefused
    BY <1>a, <1>7, <2>1 DEF MarkOutboxSMTPAccepted, UpdateRefused
  <2>2. CASE UpdateClaimed /\ ~UpdateRefused
    <3>1. /\ pc = "accepted" /\ delivery' = [delivery EXCEPT ![k] = "accepted"]
          /\ filing' = [filing EXCEPT ![k] = "pending"] /\ UNCHANGED <<local, spool>>
      BY <1>7, <2>2 DEF MarkOutboxSMTPAccepted
    <3>2. k \in Jobs /\ delivery[k] = "smtp_in_flight"
      BY <3>1 DEF LeaseInv, LeaseStable, TypeOK
    <3> QED BY <3>1, <3>2, OneGoesOn
  <2> QED BY <1>7, <2>1, <2>2 DEF MarkOutboxSMTPAccepted
<1>8. CASE RecordDeliveryFailure
  <2>1. CASE UpdateRefused
    BY <1>a, <1>8, <2>1 DEF RecordDeliveryFailure, UpdateRefused
  <2>2. CASE UpdateClaimed /\ ~UpdateRefused
    <3>1. pc = "record" /\ delivery' = [delivery EXCEPT ![k] = result] /\ UNCHANGED <<filing, local, spool>>
      BY <1>8, <2>2 DEF RecordDeliveryFailure
    <3>2. k \in Jobs /\ delivery[k] = "smtp_in_flight" /\ result \notin {"none", "accepted"}
      BY <3>1 DEF RetainedInv, RecordsFailure, LeaseInv, LeaseStable, TypeOK
    <3> QED BY <1>b, <3>1, <3>2, OneGoesOn
  <2> QED BY <1>8, <2>1, <2>2 DEF RecordDeliveryFailure
<1>c. ASSUME pc \in FilingPlaces PROVE k \in Jobs /\ delivery[k] = "accepted"
  BY <1>c DEF FilingPlaces, LeaseInv, LeaseStable, TypeOK
<1>d. ASSUME pc \in FilingPlaces, NEW f, f /= "complete", filing' = [filing EXCEPT ![k] = f],
             UNCHANGED <<delivery, local, spool>>
      PROVE  \A j \in Jobs : KeyRetained(j)'
  <2>1. delivery' = [delivery EXCEPT ![k] = "accepted"]
    BY <1>b, <1>c, <1>d
  <2> QED BY <1>c, <1>d, <2>1, OneGoesOn
<1>e. ASSUME pc = "file", UNCHANGED <<local, spool>>, NEW b, ThenAppend(b)
      PROVE  \A j \in Jobs : KeyRetained(j)'
  <2>1. CASE UpdateRefused
    BY <1>a, <1>e, <2>1 DEF UpdateRefused
  <2>2. CASE ~UpdateRefused
    BY <1>d, <1>e, <2>2 DEF ThenAppend, FilingPlaces
  <2> QED BY <2>1, <2>2
<1>f. ASSUME UNCHANGED <<local, spool>>,
             (\E s \in {"needs_attention", "retry_wait", "reconciling"} : GiveUpFiling(s)) \/ \E u : ConfirmUid(u)
      PROVE  \A j \in Jobs : KeyRetained(j)'
  BY <1>a, <1>f DEF GiveUpFiling, ConfirmUid
<1>9. CASE FilingNotPossible
  BY <1>f, <1>9 DEF FilingNotPossible
<1>10. CASE ReconcileOutboxSentAppend
  BY <1>e, <1>f, <1>10 DEF ReconcileOutboxSentAppend
<1>11. CASE SnapshotSentCopies
  BY <1>e, <1>f, <1>11 DEF SnapshotSentCopies
<1>12. CASE AppendMessage
  BY <1>f, <1>12 DEF AppendMessage
<1>13. CASE ResetMailboxGenerationIfNeeded
  BY <1>a, <1>13, ResetRetained DEF ResetMailboxGenerationIfNeeded
<1>14. CASE PromoteOutboxMessage
  <2>1. CASE UNCHANGED local
    BY <1>a, <1>14, <2>1 DEF PromoteOutboxMessage
  <2>2. CASE local' = [local EXCEPT ![k] = Promoted(uid, validity)]
    <3>1. pc = "finish" /\ UNCHANGED <<delivery, filing, spool>>
      BY <1>14 DEF PromoteOutboxMessage
    <3>2. PICK i \in Jobs : i = k /\ delivery[i] = "accepted"
      BY <1>c, <3>1 DEF FilingPlaces
    <3>3. KeyRetained(i)'
      <4>1. local'[i].state = "promoted" /\ delivery'[i] = "accepted"
        BY <2>2, <3>1, <3>2 DEF TypeOK, Promoted
      <4> QED BY <4>1, KeySettled
    <3>4. ASSUME NEW j \in Jobs \ {i} PROVE KeyRetained(j)'
      BY <2>2, <3>1, <3>2, KeySame DEF TypeOK
    <3> QED BY <3>3, <3>4
  <2> QED BY <1>14, <2>1, <2>2 DEF PromoteOutboxMessage
<1>15. CASE CompleteOutboxFiling
  <2>1. CASE UpdateRefused
    BY <1>a, <1>15, <2>1 DEF CompleteOutboxFiling, UpdateRefused
  <2>2. CASE UpdateClaimed /\ ~UpdateRefused
    <3>1. /\ pc = "complete" /\ filing' = [filing EXCEPT ![k] = "complete"]
          /\ UNCHANGED <<delivery, local, spool>>
      BY <1>15, <2>2 DEF CompleteOutboxFiling
    <3>2. PICK i \in Jobs : i = k /\ delivery[i] = "accepted" /\ local[i].state /= "optimistic"
      BY <1>c, <3>1 DEF FilingPlaces, RetainedInv, PromotedFirst
    <3>3. KeyRetained(i)'
      BY <3>1, <3>2, KeySettled
    <3>4. ASSUME NEW j \in Jobs \ {i} PROVE KeyRetained(j)'
      BY <3>1, <3>2, KeySame DEF TypeOK
    <3> QED BY <3>3, <3>4
  <2> QED BY <1>15, <2>1, <2>2 DEF CompleteOutboxFiling
<1>16. CASE RetryOutboxFiling
  <2>1. CASE UpdateRefused
    BY <1>a, <1>16, <2>1 DEF RetryOutboxFiling, UpdateRefused
  <2>2. CASE UpdateClaimed /\ ~UpdateRefused
    <3>1. /\ pc = "recordFiling" /\ filing' = [filing EXCEPT ![k] = FilingRetryState]
          /\ UNCHANGED <<delivery, local, spool>>
      BY <1>16, <2>2 DEF RetryOutboxFiling
    <3>2. FilingRetryState /= "complete"
      BY <3>1 DEF FilingRetryState, RetainedInv, RecordsFailure
    <3> QED BY <1>d, <3>1, <3>2 DEF FilingPlaces
  <2> QED BY <1>16, <2>1, <2>2 DEF RetryOutboxFiling
<1> QED BY <1>1, <1>2, <1>3, <1>4, <1>5, <1>6, <1>7, <1>8, <1>9, <1>10, <1>11, <1>12, <1>13, <1>14,
           <1>15, <1>16
        DEF WorkerLoop

\* PromotedFirst and RecordsFailure: who comes to these places, and that a
\* promoted message does not become optimistic under the worker.
LEMMA PlacesKept ==
    ASSUME RetainedInv, LeaseInv', [Next]_vars
    PROVE  PromotedFirst' /\ RecordsFailure'
<1> TypeOK /\ LeaseInv
  BY DEF RetainedInv, LeaseInv
<1> USE DEF PromotedFirst, RecordsFailure
<1>a. ASSUME UNCHANGED <<pc, result, job>>,
             pc = "complete" => local'[job.key].state \in {local[job.key].state, "none"}
      PROVE  PromotedFirst' /\ RecordsFailure'
  BY <1>a DEF RetainedInv
<1>b. ASSUME pc' \notin {"complete", "record", "recordFiling"} PROVE PromotedFirst' /\ RecordsFailure'
  BY <1>b
<1>1. CASE Handlers
  <2>1. UNCHANGED <<pc, result, job>>
    BY <1>1 DEF Handlers, ComposeLookup, EnqueueOutboxMessage, AcknowledgeOutboxJob, RequeueOutboxJob,
                RequeueOutboxFiling, CancelOutboxJob, PurgeOutboxJobsForIMAPAccount,
                PurgeOutboxJobsForSMTPAccount, DeleteSMTPAccountForUser
  <2>2. SUFFICES ASSUME pc = "complete"
                 PROVE  local'[job.key].state \in {local[job.key].state, "none"}
    BY <1>a, <2>1
  <2>3. job.key \in Jobs /\ delivery[job.key] = "accepted"
    BY <2>2 DEF LeaseInv, LeaseStable, TypeOK
  <2>4. ASSUME NEW T, DeleteMessages(T) PROVE local'[job.key].state \in {local[job.key].state, "none"}
    BY <2>3, <2>4 DEF DeleteMessages, Cleared, NoMessage
  <2>5. ASSUME NEW j \in Jobs, EnqueueOutboxMessage(j)
        PROVE  local'[job.key].state \in {local[job.key].state, "none"}
    <3>1. CASE ~Present(j) /\ InsertJob(j)
      <4>1. j /= job.key /\ local' = [local EXCEPT ![j] = Optimistic]
        BY <2>3, <3>1 DEF Present, InsertJob
      <4> QED BY <2>3, <4>1 DEF TypeOK
    <3>2. CASE DropOwnSpool(j)
      BY <3>2 DEF DropOwnSpool
    <3> QED BY <2>5, <3>1, <3>2 DEF EnqueueOutboxMessage
  <2>6. CASE UNCHANGED local
    BY <2>6
  <2> QED BY <1>1, <2>4, <2>5, <2>6
          DEF Handlers, ComposeLookup, AcknowledgeOutboxJob, RequeueOutboxJob, RequeueOutboxFiling,
              CancelOutboxJob, PurgeOutboxJobsForIMAPAccount, PurgeOutboxJobsForSMTPAccount,
              DeleteSMTPAccountForUser
<1>2. CASE Clock \/ RenewOutboxLease
  BY <1>a, <1>2 DEF Clock, BecomesDue, LeaseExpires, RenewOutboxLease
<1>3. CASE Environment
  <2>1. CASE Crash
    BY <1>b, <2>1 DEF Crash
  <2>2. CASE SyncNewGeneration \/ SyncSent
    <3>1. /\ UNCHANGED <<pc, result, job>>
          /\ \E S \in SUBSET Jobs : local' = Cleared(local, S, NoMessage)
      BY <2>2 DEF SyncNewGeneration, SyncSent, ResetMailbox
    <3>2. pc = "complete" => job.key \in Jobs
      BY DEF TypeOK
    <3> QED BY <1>a, <3>1, <3>2 DEF Cleared, NoMessage
  <2>3. CASE ~Crash /\ ~SyncNewGeneration /\ ~SyncSent
    BY <1>3, <1>a, <2>3 DEF Environment, ProviderFilesCopy, PruneMessageBlob, ExpungeCopy, NewGeneration
  <2> QED BY <2>1, <2>2, <2>3
<1>4. CASE WorkerLoop
  <2>c. ASSUME NEW s \in {"needs_attention", "retry_wait", "reconciling"}, GiveUpFiling(s)
        PROVE  PromotedFirst' /\ RecordsFailure'
    BY <2>c DEF GiveUpFiling, GoTo
  <2>d. ASSUME NEW u, ConfirmUid(u) PROVE PromotedFirst' /\ RecordsFailure'
    BY <2>d DEF ConfirmUid, GoTo
  <2>e. ASSUME NEW b, ThenAppend(b) PROVE PromotedFirst' /\ RecordsFailure'
    BY <2>e DEF ThenAppend, GoTo, DropJob
  <2>f. \A t, u \in BOOLEAN : FailureState(t, u) \in {"failed", "retry_wait", "delivery_unknown"}
    BY DEF FailureState
  <2>1. CASE RecoverInterruptedOutboxJobs \/ RecoverExpiredOutboxJobs
    BY <1>b, <2>1 DEF RecoverInterruptedOutboxJobs, RecoverExpiredOutboxJobs
  <2>2. ASSUME NEW j \in Jobs, PurgeCompletedOutboxHistory(j) \/ ClaimNextOutboxJob(j)
        PROVE  PromotedFirst' /\ RecordsFailure'
    BY <1>b, <2>2 DEF PurgeCompletedOutboxHistory, ClaimNextOutboxJob
  <2>3. CASE MarkOutboxSMTPInFlight
    BY <1>b, <2>3 DEF MarkOutboxSMTPInFlight, GoTo, DropJob
  <2>4. CASE DeliveryNotPossible
    BY <2>4, <2>f DEF DeliveryNotPossible, GoTo
  <2>5. CASE SendRawReader
    BY <2>5, <2>f DEF SendRawReader, GoTo
  <2>6. CASE MarkOutboxSMTPAccepted
    BY <2>6 DEF MarkOutboxSMTPAccepted, GoTo, DropJob
  <2>7. CASE RecordDeliveryFailure \/ RetryOutboxFiling
    BY <1>b, <2>7 DEF RecordDeliveryFailure, RetryOutboxFiling, DropJob
  <2>8. CASE FilingNotPossible
    BY <2>8, <2>c DEF FilingNotPossible
  <2>9. CASE ReconcileOutboxSentAppend
    BY <2>9, <2>c, <2>d, <2>e DEF ReconcileOutboxSentAppend
  <2>10. CASE SnapshotSentCopies
    BY <2>10, <2>c, <2>d, <2>e DEF SnapshotSentCopies
  <2>11. CASE AppendMessage
    BY <2>11, <2>c, <2>d DEF AppendMessage
  <2>12. CASE ResetMailboxGenerationIfNeeded
    BY <2>12 DEF ResetMailboxGenerationIfNeeded, GoTo
  <2>13. CASE PromoteOutboxMessage
    <3>1. pc = "finish" /\ job' = job /\ job.key \in Jobs
      BY <2>13 DEF PromoteOutboxMessage, GoTo, TypeOK
    <3>2. \/ pc' = "complete" /\ local'[job.key].state = "promoted"
          \/ pc' = "recordFiling" /\ result' = "reconciling"
      BY <2>13, <3>1 DEF PromoteOutboxMessage, GoTo, Promoted, TypeOK
    <3> QED BY <3>1, <3>2
  <2>14. CASE CompleteOutboxFiling
    BY <2>14 DEF CompleteOutboxFiling, GoTo, DropJob
  <2> QED BY <1>4, <2>1, <2>2, <2>3, <2>4, <2>5, <2>6, <2>7, <2>8, <2>9, <2>10, <2>11, <2>12, <2>13, <2>14
          DEF WorkerLoop
<1>5. CASE UNCHANGED vars
  BY <1>a, <1>5 DEF vars
<1> QED BY <1>1, <1>2, <1>3, <1>4, <1>5 DEF Next

\* Unless blob retention reaches it, the spool file of a queued message stays
\* until the message is promoted, and the optimistic message lives exactly as
\* long as its unfiled row, in every instance.
THEOREM Retained == ASSUME "retention" \notin Env PROVE Spec => []RetainedUntilFiled
<1>1. Init => RetainedInv
  <2> SUFFICES ASSUME Init PROVE RetainedInv
    OBVIOUS
  <2>1. LeaseInv
    BY InitType DEF Init, LeaseInv, LeaseStable, FilingPlaces
  <2>2. \A j \in Jobs : KeyRetained(j)
    BY DEF Init, KeyRetained, NoMessage
  <2>3. PromotedFirst /\ RecordsFailure
    BY DEF Init, PromotedFirst, RecordsFailure
  <2> QED BY <2>1, <2>2, <2>3, ByKey DEF RetainedInv
<1>2. RetainedInv /\ [Next]_vars => RetainedInv'
  <2> SUFFICES ASSUME RetainedInv, [Next]_vars PROVE RetainedInv'
    OBVIOUS
  <2>1. LeaseInv'
    BY NextHold DEF RetainedInv
  <2>2. PromotedFirst' /\ RecordsFailure'
    BY <2>1, PlacesKept
  <2>3. \A j \in Jobs : KeyRetained(j)'
    <3>1. CASE UNCHANGED vars
      BY <3>1, ByKey, KeySame DEF RetainedInv, vars
    <3> QED BY <3>1, HandlersRetained, EnvironmentRetained, WorkerRetained DEF Next
  <2>4. (\A j \in Jobs : KeyRetained(j))' => RetainedUntilFiled' /\ FiledAfterAccepted'
    BY ByKey, PTL
  <2>5. (\A j \in Jobs : KeyRetained(j))'
    BY <2>3
  <2> QED BY <2>1, <2>2, <2>4, <2>5 DEF RetainedInv
<1>3. RetainedInv => RetainedUntilFiled
  BY DEF RetainedInv
<1> QED BY <1>1, <1>2, <1>3, PTL DEF Spec

-----------------------------------------------------------------------------
(* The copy in the Sent folder *)

\* UIDs grow, a copy names a row that existed, and no stored boundary lies ahead.
CopiesBehind ==
    /\ \A c \in sent : c.uid < uidNext /\ c.row <= rows[c.key]
    /\ \A j \in Jobs : boundary[j].next <= uidNext

\* What Rolltop appended for a row came after the boundary stored in the row.
AppendedAfterBoundary ==
    \A c \in sent : c.ours /\ c.row = rows[c.key] => c.uid >= boundary[c.key].next

\* The worker that files a row knows its boundary, and appends only when no
\* copy of its own is there.
WorkerKnows ==
    /\ pc = "file" => job.boundary = boundary[job.key]
    /\ pc = "append" => \A c \in sent : c.ours /\ c.key = job.key => c.row /= rows[job.key]

\* The inductive invariant.
CopyInv == LeaseInv /\ OneAppendedCopy /\ CopiesBehind /\ AppendedAfterBoundary /\ WorkerKnows

\* A step that adds nothing to the folder, keeps the worker in its place and
\* takes no boundary back but with its row.
LEMMA FolderSame ==
    ASSUME CopyInv, LeaseInv', sent' \subseteq sent, uidNext' = uidNext,
           \A j \in Jobs : rows'[j] \in {rows[j], rows[j] + 1},
           \A j \in Jobs : boundary'[j] = boundary[j] \/ boundary'[j].next = 0,
           pc' \notin {"file", "append"} \/ (/\ UNCHANGED <<pc, job>>
                                             /\ boundary'[job.key] = boundary[job.key]
                                             /\ rows'[job.key] = rows[job.key])
    PROVE  CopyInv'
<1> TypeOK /\ TypeOK'
  BY DEF CopyInv, LeaseInv
<1>1. \A c \in sent : c.key \in Jobs /\ c.row \in Nat /\ c.uid \in Nat
  BY DEF TypeOK, Copy
<1>2. \A j \in Jobs : rows[j] \in Nat /\ boundary[j].next \in Nat
  BY DEF TypeOK, Boundary
<1>3. OneAppendedCopy'
  BY DEF CopyInv, OneAppendedCopy
<1>4. CopiesBehind'
  <2>1. \A c \in sent' : c.uid < uidNext' /\ c.row <= rows'[c.key]
    BY <1>1, <1>2 DEF CopyInv, CopiesBehind
  <2>2. ASSUME NEW j \in Jobs PROVE boundary'[j].next <= uidNext'
    <3>1. uidNext \in Nat /\ boundary[j].next <= uidNext
      BY DEF CopyInv, CopiesBehind, TypeOK
    <3>2. boundary'[j].next = boundary[j].next \/ boundary'[j].next = 0
      OBVIOUS
    <3> QED BY <3>1, <3>2
  <2> QED BY <2>1, <2>2 DEF CopiesBehind
<1>5. AppendedAfterBoundary'
  <2> SUFFICES ASSUME NEW c \in sent', c.ours, c.row = rows'[c.key] PROVE c.uid >= boundary'[c.key].next
    BY DEF AppendedAfterBoundary
  <2>1. c.row = rows[c.key]
    BY <1>1, <1>2 DEF CopyInv, CopiesBehind
  <2>2. c.uid >= boundary[c.key].next
    BY <2>1 DEF CopyInv, AppendedAfterBoundary
  <2> QED BY <1>1, <2>2
<1>6. WorkerKnows'
  BY DEF CopyInv, WorkerKnows
<1> QED BY <1>3, <1>4, <1>5, <1>6 DEF CopyInv

\* Handlers give a row a boundary only by deleting it, and not the worker's row.
LEMMA HandlersCopy == CopyInv /\ LeaseInv' /\ Handlers => CopyInv'
<1> SUFFICES ASSUME CopyInv, LeaseInv', Handlers PROVE CopyInv'
  OBVIOUS
<1> TypeOK /\ LeaseInv
  BY DEF CopyInv, LeaseInv
<1>0. UNCHANGED <<pc, job, sent, uidNext>>
  BY DEF Handlers, ComposeLookup, EnqueueOutboxMessage, AcknowledgeOutboxJob, RequeueOutboxJob,
         RequeueOutboxFiling, CancelOutboxJob, PurgeOutboxJobsForIMAPAccount,
         PurgeOutboxJobsForSMTPAccount, DeleteSMTPAccountForUser
<1>1. CASE UNCHANGED <<boundary, rows>>
  BY <1>0, <1>1, FolderSame
<1>2. ASSUME NEW S \in SUBSET Jobs, DeleteRows(S), rows' = rows, Working => job.key \notin S PROVE CopyInv'
  <2>1. \A j \in Jobs : boundary'[j] = boundary[j] \/ boundary'[j].next = 0
    BY <1>2 DEF DeleteRows, Cleared, NoBoundary
  <2>2. Working => boundary'[job.key] = boundary[job.key]
    BY <1>2 DEF DeleteRows, Cleared, TypeOK
  <2> QED BY <1>0, <1>2, <2>1, <2>2, FolderSame
<1>3. ASSUME NEW j \in Jobs, EnqueueOutboxMessage(j) PROVE CopyInv'
  <2>1. CASE ~Present(j) /\ InsertJob(j)
    <3>1. rows' = [rows EXCEPT ![j] = @ + 1] /\ boundary' = boundary
      BY <2>1 DEF InsertJob
    <3>2. Working => job.key \in Jobs \ {j}
      BY <2>1, HeldRow DEF Present
    <3>3. /\ \A i \in Jobs : rows'[i] \in {rows[i], rows[i] + 1}
          /\ \A i \in Jobs \ {j} : rows'[i] = rows[i]
      BY <3>1 DEF TypeOK
    <3> QED BY <1>0, <3>1, <3>2, <3>3, FolderSame
  <2>2. CASE DropOwnSpool(j)
    BY <1>1, <2>2 DEF DropOwnSpool
  <2> QED BY <1>3, <2>1, <2>2 DEF EnqueueOutboxMessage
<1>4. ASSUME NEW j \in Jobs,
             ComposeLookup(j) \/ AcknowledgeOutboxJob(j) \/ RequeueOutboxJob(j) \/ RequeueOutboxFiling(j)
      PROVE  CopyInv'
  BY <1>1, <1>4 DEF ComposeLookup, AcknowledgeOutboxJob, RequeueOutboxJob, RequeueOutboxFiling
<1>5. ASSUME NEW j \in Jobs, CancelOutboxJob(j) PROVE CopyInv'
  <2>1. Working => job.key \notin {j}
    BY <1>5, HeldRow DEF CancelOutboxJob, Cancelable
  <2>2. DeleteRows({j}) /\ rows' = rows /\ {j} \in SUBSET Jobs
    BY <1>5 DEF CancelOutboxJob
  <2> QED BY <1>2, <2>1, <2>2
<1>6. ASSUME ~OutboxBusy PROVE ~Working
  BY <1>6, HeldRow DEF OutboxBusy
<1>7. CASE PurgeOutboxJobsForIMAPAccount
  <2>1. DeleteRows(Jobs) /\ rows' = rows /\ ~Working
    BY <1>6, <1>7 DEF PurgeOutboxJobsForIMAPAccount
  <2> QED BY <1>2, <2>1
<1>8. CASE PurgeOutboxJobsForSMTPAccount
  <2> DEFINE S == {j \in Jobs : delivery[j] \in Cancelable}
  <2>1. DeleteRows(S) /\ rows' = rows /\ ~Working /\ S \in SUBSET Jobs
    BY <1>6, <1>8 DEF PurgeOutboxJobsForSMTPAccount
  <2> HIDE DEF S
  <2> QED BY <1>2, <2>1
<1>9. CASE DeleteSMTPAccountForUser
  BY <1>1, <1>9 DEF DeleteSMTPAccountForUser
<1> QED BY <1>3, <1>4, <1>5, <1>7, <1>8, <1>9 DEF Handlers

\* A new copy takes the next UID; one of Rolltop's is the first of its row.
LEMMA CopyAdded ==
    ASSUME CopyInv, LeaseInv', NEW j \in Jobs, NEW exact \in BOOLEAN, NEW ours \in BOOLEAN,
           AddCopy(j, exact, ours), UNCHANGED <<rows, boundary>>,
           ours => \A c \in sent : c.ours /\ c.key = j => c.row /= rows[j],
           pc' \notin {"file", "append"} \/ (UNCHANGED <<pc, job>> /\ ~ours)
    PROVE  CopyInv'
<1> TypeOK /\ TypeOK'
  BY DEF CopyInv, LeaseInv
<1> DEFINE d == [uid |-> uidNext, key |-> j, row |-> rows[j], exact |-> exact, ours |-> ours]
<1>1. sent' = sent \cup {d} /\ uidNext' = uidNext + 1 /\ uidNext \in Nat
  BY DEF AddCopy, TypeOK
<1>2. d.uid = uidNext /\ d.key = j /\ d.row = rows[j] /\ d.ours = ours
  OBVIOUS
<1> HIDE DEF d
<1>3. \A c \in sent : c.key \in Jobs /\ c.row \in Nat /\ c.uid \in Nat /\ c.uid < uidNext
  BY DEF TypeOK, Copy, CopyInv, CopiesBehind
<1>4. \A i \in Jobs : rows[i] \in Nat /\ boundary[i].next \in Nat /\ boundary[i].next <= uidNext
  BY DEF TypeOK, Boundary, CopyInv, CopiesBehind
<1>5. OneAppendedCopy'
  <2> SUFFICES ASSUME NEW b \in sent', NEW c \in sent', b.ours, c.ours, b.key = c.key, b.row = c.row
               PROVE  b = c
    BY DEF OneAppendedCopy
  <2>1. CASE b \in sent /\ c \in sent
    BY <2>1 DEF CopyInv, OneAppendedCopy
  <2>2. CASE b = d /\ c \in sent
    BY <1>2, <2>2
  <2>3. CASE b \in sent /\ c = d
    BY <1>2, <2>3
  <2> QED BY <1>1, <2>1, <2>2, <2>3
<1>6. CopiesBehind'
  <2>1. \A c \in sent' : c.uid < uidNext' /\ c.row <= rows'[c.key]
    BY <1>1, <1>2, <1>3, <1>4 DEF CopyInv, CopiesBehind
  <2>2. \A i \in Jobs : boundary'[i].next <= uidNext'
    BY <1>1, <1>4
  <2> QED BY <2>1, <2>2 DEF CopiesBehind
<1>7. AppendedAfterBoundary'
  BY <1>1, <1>2, <1>3, <1>4 DEF CopyInv, AppendedAfterBoundary
<1>8. WorkerKnows'
  BY <1>1, <1>2 DEF CopyInv, WorkerKnows
<1> QED BY <1>5, <1>6, <1>7, <1>8 DEF CopyInv

\* The worker is about to append: it has stored boundary b, no copy of its own
\* is there, and whatever it appends comes after b.
LEMMA AppendBegins ==
    ASSUME CopyInv, LeaseInv', pc = "file", NEW b \in Boundary, ThenAppend(b),
           UNCHANGED <<sent, uidNext, rows>>, b.next <= uidNext,
           \A c \in sent : c.ours /\ c.key = job.key => c.row /= rows[job.key]
    PROVE  CopyInv'
<1> TypeOK /\ LeaseInv
  BY DEF CopyInv, LeaseInv
<1>1. CASE UpdateRefused /\ DropJob
  <2>1. boundary' = boundary /\ pc' = "idle"
    BY <1>1 DEF UpdateRefused, DropJob
  <2> QED BY <2>1, FolderSame
<1>2. CASE ~DropJob
  <2>1. job.key \in Jobs /\ boundary' = [boundary EXCEPT ![job.key] = b] /\ pc' = "append" /\ job' = job
    BY <1>2 DEF ThenAppend, GoTo, TypeOK
  <2>2. OneAppendedCopy'
    BY DEF CopyInv, OneAppendedCopy
  <2>3. CopiesBehind'
    BY <2>1 DEF CopyInv, CopiesBehind, TypeOK
  <2>4. AppendedAfterBoundary'
    BY <2>1 DEF CopyInv, AppendedAfterBoundary, TypeOK
  <2>5. WorkerKnows'
    BY <2>1 DEF WorkerKnows
  <2> QED BY <2>2, <2>3, <2>4, <2>5 DEF CopyInv
<1> QED BY <1>1, <1>2 DEF ThenAppend, GoTo, DropJob

\* The worker files: what it finds above its boundary tells whether it appends.
LEMMA WorkerCopy == CopyInv /\ LeaseInv' /\ WorkerLoop => CopyInv'
<1> SUFFICES ASSUME CopyInv, LeaseInv', WorkerLoop PROVE CopyInv'
  OBVIOUS
<1> TypeOK /\ LeaseInv
  BY DEF CopyInv, LeaseInv
<1>a. ASSUME UNCHANGED <<boundary, rows, sent, uidNext>>, pc' \notin {"file", "append"} PROVE CopyInv'
  BY <1>a, FolderSame
<1>b. ASSUME UNCHANGED <<rows, sent, uidNext>>, NEW s, GiveUpFiling(s) PROVE CopyInv'
  BY <1>a, <1>b DEF GiveUpFiling, GoTo
<1>c. ASSUME UNCHANGED <<rows, sent, uidNext>>, NEW u, ConfirmUid(u) PROVE CopyInv'
  BY <1>a, <1>c DEF ConfirmUid, GoTo
<1>1. CASE RecoverInterruptedOutboxJobs \/ RecoverExpiredOutboxJobs
  BY <1>a, <1>1 DEF RecoverInterruptedOutboxJobs, RecoverExpiredOutboxJobs, RecoverOutboxJobs
<1>2. ASSUME NEW j \in Jobs, PurgeCompletedOutboxHistory(j) PROVE CopyInv'
  <2>1. /\ pc' = "idle" /\ UNCHANGED <<sent, uidNext, rows>>
        /\ \A i \in Jobs : boundary'[i] = boundary[i] \/ boundary'[i].next = 0
    BY <1>2 DEF PurgeCompletedOutboxHistory, DeleteRows, Cleared, NoBoundary
  <2> QED BY <2>1, FolderSame
<1>3. ASSUME NEW j \in Jobs, ClaimNextOutboxJob(j) PROVE CopyInv'
  <2>1. /\ pc' \in {"file", "deliver"} /\ job'.key = j /\ job'.boundary = boundary[j]
        /\ UNCHANGED <<boundary, rows, sent, uidNext>>
    BY <1>3 DEF ClaimNextOutboxJob
  <2>2. WorkerKnows'
    BY <2>1 DEF WorkerKnows
  <2> QED BY <2>1, <2>2 DEF CopyInv, OneAppendedCopy, CopiesBehind, AppendedAfterBoundary
<1>4. CASE \/ MarkOutboxSMTPInFlight \/ DeliveryNotPossible \/ SendRawReader
           \/ MarkOutboxSMTPAccepted \/ RecordDeliveryFailure
  <2>1. UNCHANGED <<boundary, rows, sent, uidNext>>
    BY <1>4 DEF MarkOutboxSMTPInFlight, DeliveryNotPossible, SendRawReader, MarkOutboxSMTPAccepted,
                RecordDeliveryFailure, UpdateRefused
  <2>2. pc' \notin {"file", "append"}
    BY <1>4 DEF MarkOutboxSMTPInFlight, DeliveryNotPossible, SendRawReader, MarkOutboxSMTPAccepted,
                RecordDeliveryFailure, GoTo, DropJob
  <2> QED BY <1>a, <2>1, <2>2
<1>5. CASE FilingNotPossible
  BY <1>b, <1>5 DEF FilingNotPossible
<1>6. CASE ReconcileOutboxSentAppend
  <2>0. pc = "file" /\ UNCHANGED <<rows, sent, uidNext>>
    BY <1>6 DEF ReconcileOutboxSentAppend
  <2>1. job.key \in Jobs /\ job.boundary = boundary[job.key] /\ job.boundary \in Boundary
        /\ job.boundary.next <= uidNext
    BY <2>0 DEF CopyInv, WorkerKnows, CopiesBehind, TypeOK
  <2>2. ASSUME AfterBoundary(Candidates(job.key)) = {}, ThenAppend(job.boundary) PROVE CopyInv'
    <3>1. \A c \in sent : c.ours /\ c.key = job.key => c.row /= rows[job.key]
      <4> SUFFICES ASSUME NEW c \in sent, c.ours, c.key = job.key, c.row = rows[job.key] PROVE FALSE
        OBVIOUS
      <4>1. c.uid >= job.boundary.next
        BY <2>1 DEF CopyInv, AppendedAfterBoundary
      <4>2. c \in AfterBoundary(Candidates(job.key))
        BY <4>1 DEF AfterBoundary, Candidates
      <4> QED BY <2>2, <4>2
    <3> QED BY <2>0, <2>1, <2>2, <3>1, AppendBegins
  <2> QED BY <1>6, <1>b, <1>c, <2>0, <2>2 DEF ReconcileOutboxSentAppend
<1>7. CASE SnapshotSentCopies
  <2>0. pc = "file" /\ UNCHANGED <<rows, sent, uidNext>>
    BY <1>7 DEF SnapshotSentCopies
  <2>2. ASSUME Candidates(job.key) = {}, ThenAppend([validity |-> uidValidity, next |-> uidNext])
        PROVE  CopyInv'
    <3>1. \A c \in sent : c.ours /\ c.key = job.key => c.row /= rows[job.key]
      BY <2>2 DEF Candidates
    <3>2. PICK b \in Boundary : b.next <= uidNext /\ ThenAppend(b)
      <4>1. [validity |-> uidValidity, next |-> uidNext] \in Boundary /\ uidNext <= uidNext
        BY DEF TypeOK, Boundary
      <4> QED BY <2>2, <4>1
    <3> QED BY <2>0, <3>1, <3>2, AppendBegins
  <2> QED BY <1>7, <1>b, <1>c, <2>0, <2>2 DEF SnapshotSentCopies
<1>8. CASE AppendMessage
  <2>1. CASE UNCHANGED sentVars
    BY <1>8, <1>b, <1>c, <2>1 DEF AppendMessage
  <2>2. ASSUME NEW exact \in BOOLEAN, AddCopy(job.key, exact, TRUE) PROVE CopyInv'
    <3>1. pc = "append" /\ pc' \in {"reset", "recordFiling"} /\ UNCHANGED <<rows, boundary>>
      BY <1>8 DEF AppendMessage, ConfirmUid, GiveUpFiling, GoTo
    <3>2. PICK j \in Jobs : j = job.key
      BY <3>1 DEF TypeOK
    <3>3. \A c \in sent : c.ours /\ c.key = j => c.row /= rows[j]
      BY <3>1, <3>2 DEF CopyInv, WorkerKnows
    <3> QED BY <2>2, <3>1, <3>2, <3>3, CopyAdded
  <2> QED BY <1>8, <2>1, <2>2 DEF AppendMessage
<1>9. CASE ResetMailboxGenerationIfNeeded \/ PromoteOutboxMessage \/ CompleteOutboxFiling \/ RetryOutboxFiling
  <2>1. UNCHANGED <<boundary, rows, sent, uidNext>>
    BY <1>9 DEF ResetMailboxGenerationIfNeeded, PromoteOutboxMessage, CompleteOutboxFiling, RetryOutboxFiling,
                UpdateRefused
  <2>2. pc' \notin {"file", "append"}
    BY <1>9 DEF ResetMailboxGenerationIfNeeded, PromoteOutboxMessage, CompleteOutboxFiling, RetryOutboxFiling,
                GoTo, DropJob
  <2> QED BY <1>a, <2>1, <2>2
<1> QED BY <1>1, <1>2, <1>3, <1>4, <1>5, <1>6, <1>7, <1>8, <1>9 DEF WorkerLoop

LEMMA EnvironmentCopy ==
    ASSUME CopyInv, LeaseInv', Clock \/ RenewOutboxLease \/ Environment PROVE CopyInv'
<1> TypeOK
  BY DEF CopyInv, LeaseInv
<1>a. ASSUME UNCHANGED <<boundary, rows, uidNext>>, sent' \subseteq sent,
             pc' \notin {"file", "append"} \/ UNCHANGED <<pc, job>>
      PROVE  CopyInv'
  BY <1>a, FolderSame
<1>1. CASE Clock \/ RenewOutboxLease
  BY <1>a, <1>1 DEF Clock, BecomesDue, LeaseExpires, RenewOutboxLease
<1>2. CASE Crash
  BY <1>a, <1>2 DEF Crash
<1>3. ASSUME NEW j \in Jobs, ProviderFilesCopy(j) PROVE CopyInv'
  <2>1. PICK exact \in BOOLEAN : AddCopy(j, exact, FALSE)
    BY <1>3 DEF ProviderFilesCopy
  <2>2. UNCHANGED <<rows, boundary, pc, job>>
    BY <1>3 DEF ProviderFilesCopy
  <2> QED BY <2>1, <2>2, CopyAdded
<1>4. ASSUME NEW j \in Jobs, PruneMessageBlob(j) PROVE CopyInv'
  BY <1>a, <1>4 DEF PruneMessageBlob
<1>5. ASSUME NEW c \in sent, ExpungeCopy(c) PROVE CopyInv'
  BY <1>a, <1>5 DEF ExpungeCopy
<1>6. CASE NewGeneration \/ SyncNewGeneration \/ SyncSent
  BY <1>a, <1>6 DEF NewGeneration, SyncNewGeneration, SyncSent
<1> QED BY <1>1, <1>2, <1>3, <1>4, <1>5, <1>6 DEF Environment

\* While the first copy that Rolltop appended for a row is in the Sent folder it
\* appends no second one, whatever answers are lost and whatever the provider,
\* other clients and a new UIDVALIDITY do to the folder, in every instance.
THEOREM OneCopyFiled == Spec => []OneAppendedCopy
<1>1. Init => CopyInv
  <2> SUFFICES ASSUME Init PROVE CopyInv
    OBVIOUS
  <2>1. LeaseInv
    BY InitType DEF Init, LeaseInv, LeaseStable, FilingPlaces
  <2>2. sent = {} /\ pc = "boot" /\ uidNext = 1 /\ \A j \in Jobs : boundary[j].next = 0
    BY DEF Init, NoBoundary
  <2> QED BY <2>1, <2>2 DEF CopyInv, OneAppendedCopy, CopiesBehind, AppendedAfterBoundary, WorkerKnows
<1>2. CopyInv /\ [Next]_vars => CopyInv'
  <2> SUFFICES ASSUME CopyInv, [Next]_vars PROVE CopyInv'
    OBVIOUS
  <2>1. LeaseInv'
    BY NextHold DEF CopyInv
  <2>2. CASE UNCHANGED vars
    BY <2>1, <2>2, FolderSame DEF vars
  <2> QED BY <2>1, <2>2, HandlersCopy, WorkerCopy, EnvironmentCopy DEF Next
<1>3. CopyInv => OneAppendedCopy
  BY DEF CopyInv
<1> QED BY <1>1, <1>2, <1>3, PTL DEF Spec

-----------------------------------------------------------------------------
(* Phases *)

\* The worker's place shows in the phase of its own row only, and only while it
\* transmits or records that nothing was taken.
Elsewhere(j) == job.key /= j \/ pc \notin {"send", "record"}

LEMMA PhaseElsewhere ==
    \A j : /\ Elsewhere(j) => Phase(j) = RowPhase(delivery[j])
           /\ Elsewhere(j)' => Phase(j)' = RowPhase(delivery'[j])
<1> SUFFICES ASSUME NEW j
             PROVE  /\ Elsewhere(j) => Phase(j) = RowPhase(delivery[j])
                    /\ Elsewhere(j)' => Phase(j)' = RowPhase(delivery'[j])
  OBVIOUS
<1>1. ASSUME Elsewhere(j) PROVE Phase(j) = RowPhase(delivery[j])
  <2>1. ~(job.key = j /\ pc = "send") /\ ~(job.key = j /\ pc = "record")
    BY <1>1 DEF Elsewhere
  <2> QED BY <2>1 DEF Phase, RowPhase
<1>2. ASSUME Elsewhere(j)' PROVE Phase(j)' = RowPhase(delivery'[j])
  <2>1. ~(job'.key = j /\ pc' = "send") /\ ~(job'.key = j /\ pc' = "record")
    BY <1>2 DEF Elsewhere
  <2> QED BY <2>1 DEF Phase, RowPhase
<1> QED BY <1>1, <1>2

\* The phase of the row that the worker transmits.
LEMMA PhaseOwn ==
    \A j : /\ delivery[j] = "smtp_in_flight" /\ job.key = j =>
                /\ pc = "send" => Phase(j) = "open"
                /\ pc = "record" => Phase(j) = IF result = "delivery_unknown" THEN "closed" ELSE "refused"
           /\ delivery'[j] = "smtp_in_flight" /\ job'.key = j =>
                /\ pc' = "send" => Phase(j)' = "open"
                /\ pc' = "record" => Phase(j)' = IF result' = "delivery_unknown" THEN "closed" ELSE "refused"
BY DEF Phase, RowPhase

\* A row whose delivery state stays and that the worker does not act on.
LEMMA PhaseSame ==
    \A j : delivery'[j] = delivery[j] /\ UNCHANGED <<pc, job, result>> => Phase(j)' = Phase(j)
BY DEF Phase, RowPhase

-----------------------------------------------------------------------------
(* Steps of Delivery *)

\* Nothing moves.
LEMMA Stutter ==
    ASSUME UNCHANGED <<accepts, rows, consents>>, \A j \in Jobs : Phase(j)' = Phase(j)
    PROVE  UNCHANGED Abstract!vars
BY DEF Abstract!vars

\* One message moves.
LEMMA OneMoves ==
    ASSUME UNCHANGED <<accepts, rows, consents>>,
           NEW j \in Jobs, \A k \in Jobs \ {j} : Phase(k)' = Phase(k),
           \/ Phase(j) = "waiting" /\ Phase(j)' = "open"
           \/ Phase(j) \in {"open", "refused"} /\ Phase(j)' = "closed"
           \/ Phase(j) = "open" /\ Phase(j)' = "refused"
           \/ Phase(j) \in {"refused", "failed"} /\ Phase(j)' = "waiting"
           \/ Phase(j) = "refused" /\ Phase(j)' = "failed"
           \/ Phase(j) = "closed" /\ Phase(j)' = "accepted"
    PROVE  Abstract!Next
<1> DEFINE ph == [k \in Jobs |-> Phase(k)]
<1>1. ph' = [ph EXCEPT ![j] = Phase(j)'] /\ ph[j] = Phase(j)
  OBVIOUS
<1>2. UNCHANGED <<accepts, [k \in Jobs |-> rows[k] + consents[k]]>>
  OBVIOUS
<1> HIDE DEF ph
<1>3. \/ Abstract!Begin(j) \/ Abstract!Lose(j) \/ Abstract!Refuse(j) \/ Abstract!Retry(j)
      \/ Abstract!Fail(j) \/ Abstract!Confirm(j)
  BY <1>1, <1>2 DEF ph, Abstract!Begin, Abstract!Lose, Abstract!Refuse, Abstract!Retry, Abstract!Fail,
                Abstract!Confirm, Abstract!Move
<1> QED BY <1>3 DEF Abstract!Next

\* Some messages are given up, or removed.
LEMMA SomeMove ==
    ASSUME UNCHANGED <<accepts, rows, consents>>, NEW S \in SUBSET Jobs,
           \A k \in Jobs \ S : Phase(k)' = Phase(k),
           \/ \A j \in S : Phase(j) = "closed" /\ Phase(j)' = "unknown"
           \/ \A j \in S : /\ Phase(j) \in {"waiting", "failed", "unknown", "accepted"}
                           /\ Phase(j)' = "none"
    PROVE  Abstract!Next
<1> DEFINE ph == [k \in Jobs |-> Phase(k)]
<1>1. \A j \in Jobs : ph[j] = Phase(j)
  OBVIOUS
<1>2. UNCHANGED <<accepts, [k \in Jobs |-> rows[k] + consents[k]]>>
  OBVIOUS
<1>3. Abstract!GiveUp(S) \/ Abstract!Remove(S)
  <2>1. CASE \A j \in S : Phase(j) = "closed" /\ Phase(j)' = "unknown"
    <3>1. ph' = [m \in Jobs |-> IF m \in S THEN "unknown" ELSE ph[m]]
      BY <2>1
    <3> QED BY <1>1, <1>2, <2>1, <3>1 DEF Abstract!GiveUp, Abstract!MoveAll
  <2>2. CASE \A j \in S : /\ Phase(j) \in {"waiting", "failed", "unknown", "accepted"}
                          /\ Phase(j)' = "none"
    <3>1. ph' = [m \in Jobs |-> IF m \in S THEN "none" ELSE ph[m]]
      BY <2>2
    <3> QED BY <1>1, <1>2, <2>2, <3>1 DEF Abstract!Remove, Abstract!MoveAll
  <2> QED BY <2>1, <2>2
<1> QED BY <1>3 DEF Abstract!Next

\* The provider takes a message.
LEMMA OneTransmitted ==
    ASSUME TypeOK, NEW j \in Jobs, accepts' = [accepts EXCEPT ![j] = @ + 1],
           UNCHANGED <<rows, consents>>,
           Phase(j) = "open", Phase(j)' = "closed", \A k \in Jobs \ {j} : Phase(k)' = Phase(k)
    PROVE  Abstract!Next
<1> DEFINE ph == [k \in Jobs |-> Phase(k)]
<1>1. ph' = [ph EXCEPT ![j] = "closed"] /\ ph[j] = "open"
  OBVIOUS
<1>2. UNCHANGED [k \in Jobs |-> rows[k] + consents[k]]
  OBVIOUS
<1>3. Abstract!Transmit(j)
  BY <1>1, <1>2 DEF Abstract!Transmit, Abstract!Move
<1> QED BY <1>3 DEF Abstract!Next

\* The user submits a message, or agrees to a duplicate.
LEMMA OnePermitted ==
    ASSUME TypeOK, NEW j \in Jobs, UNCHANGED accepts,
           \/ rows' = [rows EXCEPT ![j] = @ + 1] /\ UNCHANGED consents
           \/ consents' = [consents EXCEPT ![j] = @ + 1] /\ UNCHANGED rows,
           Phase(j) \in {"none", "unknown"}, Phase(j)' = "waiting",
           \A k \in Jobs \ {j} : Phase(k)' = Phase(k)
    PROVE  Abstract!Next
<1> DEFINE ph == [k \in Jobs |-> Phase(k)]
           permits == [k \in Jobs |-> rows[k] + consents[k]]
<1>1. ph' = [ph EXCEPT ![j] = "waiting"] /\ ph[j] \in {"none", "unknown"}
  OBVIOUS
<1>2. permits' = [permits EXCEPT ![j] = @ + 1]
  <2>1. /\ \A k \in Jobs : rows[k] \in Nat /\ consents[k] \in Nat
        /\ rows \in [Jobs -> Nat] /\ consents \in [Jobs -> Nat]
    BY DEF TypeOK
  <2>2. rows'[j] + consents'[j] = rows[j] + consents[j] + 1
    BY <2>1
  <2>3. \A k \in Jobs \ {j} : rows'[k] + consents'[k] = rows[k] + consents[k]
    BY <2>1
  <2> QED BY <2>2, <2>3
<1>3. Abstract!Permit(j)
  BY <1>1, <1>2 DEF Abstract!Permit, Abstract!Move
<1> QED BY <1>3 DEF Abstract!Next

-----------------------------------------------------------------------------
(* The handlers and the environment *)

\* Rows of S are deleted, none of them under way.
LEMMA DeletedMove ==
    ASSUME TypeOK, NEW S \in SUBSET Jobs, DeleteRows(S),
           UNCHANGED <<accepts, rows, consents, pc, job, result>>,
           \A j \in S : delivery[j] \in {"queued", "retry_wait", "failed", "accepted", "delivery_unknown"}
    PROVE  Abstract!Next
<1>1. \A j \in Jobs : delivery'[j] = IF j \in S THEN "none" ELSE delivery[j]
  BY DEF DeleteRows, Cleared
<1>2. \A k \in Jobs \ S : Phase(k)' = Phase(k)
  BY <1>1, PhaseSame
<1>3. \A j \in S : Phase(j) \in {"waiting", "failed", "unknown", "accepted"} /\ Phase(j)' = "none"
  BY <1>1 DEF Phase, RowPhase
<1> QED BY <1>2, <1>3, SomeMove

\* A row whose delivery the user restarts or has just created.
LEMMA QueuedPhase ==
    ASSUME TypeOK, NEW j \in Jobs, delivery' = [delivery EXCEPT ![j] = "queued"],
           UNCHANGED <<pc, job, result>>
    PROVE  Phase(j)' = "waiting" /\ \A k \in Jobs \ {j} : Phase(k)' = Phase(k)
<1>1. delivery'[j] = "queued" /\ \A k \in Jobs \ {j} : delivery'[k] = delivery[k]
  BY DEF TypeOK
<1> QED BY <1>1, PhaseSame DEF Phase, RowPhase

\* Every handler submits, permits, retries or removes, or does nothing that shows.
LEMMA HandlersStep == TypeOK /\ Handlers => [Abstract!Next]_(Abstract!vars)
<1> SUFFICES ASSUME TypeOK, Handlers PROVE [Abstract!Next]_(Abstract!vars)
  OBVIOUS
<1>a. ASSUME UNCHANGED <<delivery, accepts, rows, consents, pc, job, result>>
      PROVE  UNCHANGED Abstract!vars
  BY <1>a, PhaseSame, Stutter
<1>1. ASSUME NEW j \in Jobs, ComposeLookup(j) \/ AcknowledgeOutboxJob(j) \/ RequeueOutboxFiling(j)
      PROVE  UNCHANGED Abstract!vars
  BY <1>a, <1>1 DEF ComposeLookup, AcknowledgeOutboxJob, RequeueOutboxFiling
<1>2. ASSUME NEW j \in Jobs, EnqueueOutboxMessage(j)
      PROVE  [Abstract!Next]_(Abstract!vars)
  <2>1. CASE ~Present(j) /\ InsertJob(j)
    <3>1. /\ delivery' = [delivery EXCEPT ![j] = "queued"] /\ rows' = [rows EXCEPT ![j] = @ + 1]
          /\ UNCHANGED <<accepts, consents, pc, job, result>>
      BY <1>2, <2>1 DEF EnqueueOutboxMessage, InsertJob
    <3>2. Phase(j) = "none"
      BY <2>1 DEF Present, Phase, RowPhase
    <3> QED BY <3>1, <3>2, QueuedPhase, OnePermitted
  <2>2. CASE DropOwnSpool(j)
    BY <1>2, <1>a, <2>2 DEF EnqueueOutboxMessage, DropOwnSpool
  <2> QED BY <1>2, <2>1, <2>2 DEF EnqueueOutboxMessage
<1>3. ASSUME NEW j \in Jobs, RequeueOutboxJob(j) PROVE Abstract!Next
  <2>1. /\ delivery' = [delivery EXCEPT ![j] = "queued"]
        /\ UNCHANGED <<accepts, rows, pc, job, result>>
    BY <1>3 DEF RequeueOutboxJob
  <2>2. CASE delivery[j] = "failed" /\ UNCHANGED consents
    <3>1. Phase(j) = "failed"
      BY <2>2 DEF Phase, RowPhase
    <3> QED BY <2>1, <2>2, <3>1, QueuedPhase, OneMoves
  <2>3. CASE delivery[j] = "delivery_unknown" /\ consents' = [consents EXCEPT ![j] = @ + 1]
    <3>1. Phase(j) = "unknown"
      BY <2>3 DEF Phase, RowPhase
    <3> QED BY <2>1, <2>3, <3>1, QueuedPhase, OnePermitted
  <2> QED BY <1>3, <2>2, <2>3 DEF RequeueOutboxJob
<1>4. ASSUME NEW j \in Jobs, CancelOutboxJob(j) PROVE Abstract!Next
  <2>1. /\ DeleteRows({j}) /\ {j} \in SUBSET Jobs /\ delivery[j] \in Cancelable
        /\ UNCHANGED <<accepts, rows, consents, pc, job, result>>
    BY <1>4 DEF CancelOutboxJob
  <2> QED BY <2>1, DeletedMove DEF Cancelable
<1>5. ASSUME PurgeOutboxJobsForIMAPAccount PROVE Abstract!Next
  <2> DEFINE S == {j \in Jobs : Present(j)}
  <2>1. DeleteRows(Jobs) /\ ~OutboxBusy /\ UNCHANGED <<accepts, rows, consents, pc, job, result>>
    BY <1>5 DEF PurgeOutboxJobsForIMAPAccount
  <2>2. \A j \in Jobs : delivery[j] \in {"none", "queued", "retry_wait", "failed", "accepted", "delivery_unknown"}
    BY <2>1 DEF OutboxBusy, TypeOK, DeliveryStates
  <2>3. \A j \in Jobs : delivery'[j] = "none"
    BY <2>1 DEF DeleteRows, Cleared
  <2>4. \A k \in Jobs \ S : Phase(k)' = Phase(k)
    BY <2>1, <2>3, PhaseSame DEF Present
  <2>5. \A j \in S : Phase(j) \in {"waiting", "failed", "unknown", "accepted"} /\ Phase(j)' = "none"
    BY <2>2, <2>3 DEF Present, Phase, RowPhase
  <2> HIDE DEF S
  <2>6. S \in SUBSET Jobs
    BY DEF S
  <2> QED BY <2>1, <2>4, <2>5, <2>6, SomeMove
<1>6. ASSUME PurgeOutboxJobsForSMTPAccount PROVE Abstract!Next
  <2> DEFINE S == {j \in Jobs : delivery[j] \in Cancelable}
  <2>1. DeleteRows(S) /\ UNCHANGED <<accepts, rows, consents, pc, job, result>>
    BY <1>6 DEF PurgeOutboxJobsForSMTPAccount
  <2>2. S \in SUBSET Jobs /\ \A j \in S : delivery[j] \in Cancelable
    OBVIOUS
  <2> HIDE DEF S
  <2> QED BY <2>1, <2>2, DeletedMove DEF Cancelable
<1>7. ASSUME DeleteSMTPAccountForUser PROVE UNCHANGED Abstract!vars
  BY <1>a, <1>7 DEF DeleteSMTPAccountForUser
<1> QED
  BY <1>1, <1>2, <1>3, <1>4, <1>5, <1>6, <1>7 DEF Handlers

\* The clock and the environment show nothing; a crash loses a transmission.
LEMMA EnvironmentStep ==
    ASSUME LeaseInv, Clock \/ RenewOutboxLease \/ Environment
    PROVE  [Abstract!Next]_(Abstract!vars)
<1>1. CASE Crash
  <2>1. UNCHANGED <<delivery, accepts, rows, consents>> /\ pc' = "boot"
    BY <1>1 DEF Crash
  <2>2. \A k \in Jobs : Elsewhere(k) => Phase(k)' = Phase(k)
    BY <2>1, PhaseElsewhere DEF Elsewhere
  <2>3. CASE pc \in {"send", "record"}
    <3> DEFINE j == job.key
    <3>1. j \in Jobs /\ delivery[j] = "smtp_in_flight"
      BY <2>3 DEF LeaseInv, LeaseStable, TypeOK
    <3>2. PICK k \in Jobs : k = job.key
      BY <3>1
    <3>3. \A m \in Jobs \ {k} : Phase(m)' = Phase(m)
      BY <2>2, <3>2 DEF Elsewhere
    <3>4. Phase(k) \in {"open", "refused", "closed"}
      BY <2>3, <3>1, <3>2, PhaseOwn
    <3>5. Phase(k)' = "closed"
      BY <2>1, <3>1, <3>2, PhaseElsewhere DEF Elsewhere, RowPhase
    <3>6. CASE Phase(k) = "closed"
      BY <2>1, <3>3, <3>5, <3>6, Stutter
    <3>7. CASE Phase(k) \in {"open", "refused"}
      BY <2>1, <3>3, <3>5, <3>7, OneMoves
    <3> QED BY <3>4, <3>6, <3>7
  <2>4. CASE pc \notin {"send", "record"}
    BY <2>1, <2>2, <2>4, Stutter DEF Elsewhere
  <2> QED BY <2>3, <2>4
<1>2. CASE ~Crash
  <2>1. UNCHANGED <<delivery, accepts, rows, consents, pc, job, result>>
    BY <1>2 DEF Clock, BecomesDue, LeaseExpires, RenewOutboxLease, Environment,
                ProviderFilesCopy, PruneMessageBlob, ExpungeCopy, NewGeneration, SyncNewGeneration, SyncSent
  <2> QED BY <2>1, PhaseSame, Stutter
<1> QED BY <1>1, <1>2

-----------------------------------------------------------------------------
(* The worker *)

\* Recovery gives up the transmissions that nobody carries on.
LEMMA RecoverStep ==
    ASSUME TypeOK, RecoverInterruptedOutboxJobs \/ RecoverExpiredOutboxJobs
    PROVE  [Abstract!Next]_(Abstract!vars)
<1>1. pc \notin {"send", "record"} /\ pc' = "idle" /\ UNCHANGED <<accepts, rows, consents>>
  BY DEF RecoverInterruptedOutboxJobs, RecoverExpiredOutboxJobs
<1>2. \A j \in Jobs : Phase(j) = RowPhase(delivery[j]) /\ Phase(j)' = RowPhase(delivery'[j])
  BY <1>1, PhaseElsewhere DEF Elsewhere
<1>3. ASSUME NEW S \in SUBSET Jobs, RecoverOutboxJobs(S) PROVE [Abstract!Next]_(Abstract!vars)
  <2> DEFINE T == {j \in S : delivery[j] = "smtp_in_flight"}
  <2>1. \A j \in Jobs : delivery'[j] = IF j \in S THEN RecoveredDelivery(j) ELSE delivery[j]
    BY <1>3 DEF RecoverOutboxJobs
  <2>2. \A j \in T : Phase(j) = "closed" /\ Phase(j)' = "unknown"
    BY <1>2, <2>1 DEF RecoveredDelivery, RowPhase
  <2>3. \A k \in Jobs \ T : Phase(k)' = Phase(k)
    BY <1>2, <2>1 DEF RecoveredDelivery, RowPhase
  <2>4. T \in SUBSET Jobs
    OBVIOUS
  <2> HIDE DEF T
  <2> QED BY <1>1, <2>2, <2>3, <2>4, SomeMove
<1>4. CASE UNCHANGED rowVars
  BY <1>1, <1>2, <1>4, Stutter
<1>5. expired \in SUBSET Jobs
  BY DEF TypeOK
<1> QED BY <1>3, <1>4, <1>5 DEF RecoverInterruptedOutboxJobs, RecoverExpiredOutboxJobs

\* The worker's transmission, from its start to its record.
LEMMA SendStep ==
    ASSUME DeliveryInv, "spoolread" \notin Env,
           \/ MarkOutboxSMTPInFlight \/ DeliveryNotPossible \/ SendRawReader
           \/ MarkOutboxSMTPAccepted \/ RecordDeliveryFailure
    PROVE  [Abstract!Next]_(Abstract!vars)
<1> TypeOK /\ LeaseInv /\ RecordInv
  BY DEF DeliveryInv, LeaseInv
<1>0. PICK w \in Jobs : w = job.key
  BY DEF MarkOutboxSMTPInFlight, DeliveryNotPossible, SendRawReader, MarkOutboxSMTPAccepted,
         RecordDeliveryFailure, TypeOK
<1>1. /\ UNCHANGED <<rows, consents>>
      /\ UNCHANGED job \/ DropJob
      /\ \A k \in Jobs \ {w} : delivery'[k] = delivery[k]
  <2>1. UNCHANGED <<rows, consents>> /\ (UNCHANGED job \/ DropJob)
    BY DEF MarkOutboxSMTPInFlight, DeliveryNotPossible, SendRawReader, MarkOutboxSMTPAccepted,
           RecordDeliveryFailure, GoTo
  <2>2. UNCHANGED delivery \/ \E d : delivery' = [delivery EXCEPT ![job.key] = d]
    BY DEF MarkOutboxSMTPInFlight, DeliveryNotPossible, SendRawReader, MarkOutboxSMTPAccepted,
           RecordDeliveryFailure, UpdateRefused
  <2> QED BY <1>0, <2>1, <2>2 DEF TypeOK
<1>2. \A k \in Jobs \ {w} : Phase(k)' = Phase(k)
  <2>1. NoKey \notin Jobs
    BY OutboxConstants DEF OutboxConstants
  <2>2. \A k \in Jobs \ {w} : Elsewhere(k) /\ Elsewhere(k)'
    BY <1>0, <1>1, <2>1 DEF Elsewhere, DropJob, NoJob
  <2> QED BY <1>1, <2>2, PhaseElsewhere
<1>3. pc \in {"send", "accepted", "record"} => delivery[w] = "smtp_in_flight"
  BY <1>0 DEF LeaseInv, LeaseStable
<1>4. CASE MarkOutboxSMTPInFlight
  <2>1. delivery[w] = "claimed" /\ pc = "deliver" /\ UNCHANGED accepts
    BY <1>0, <1>4 DEF MarkOutboxSMTPInFlight, LeaseInv, LeaseStable
  <2>2. Phase(w) = "waiting"
    BY <2>1 DEF Phase, RowPhase
  <2>3. CASE UpdateRefused /\ DropJob
    <3>1. delivery'[w] = "claimed"
      BY <2>1, <2>3 DEF UpdateRefused
    <3>2. Phase(w)' = "waiting"
      BY <3>1 DEF Phase, RowPhase
    <3> QED BY <1>1, <1>2, <2>1, <2>2, <3>2, Stutter
  <2>4. CASE delivery' = [delivery EXCEPT ![job.key] = "smtp_in_flight"] /\ GoTo("send")
    <3>1. delivery'[w] = "smtp_in_flight" /\ job'.key = w /\ pc' = "send"
      BY <1>0, <2>4 DEF GoTo, TypeOK
    <3>2. Phase(w)' = "open"
      BY <3>1, PhaseOwn
    <3> QED BY <1>1, <1>2, <2>1, <2>2, <3>2, OneMoves
  <2> QED BY <1>4, <2>3, <2>4 DEF MarkOutboxSMTPInFlight
<1>5. CASE DeliveryNotPossible \/ SendRawReader
  <2>1. pc = "send" /\ UNCHANGED delivery /\ job' = job
    BY <1>5 DEF DeliveryNotPossible, SendRawReader, GoTo
  <2>2. Phase(w) = "open" /\ delivery'[w] = "smtp_in_flight" /\ job'.key = w
    BY <1>0, <1>3, <2>1, PhaseOwn
  <2>3. \A t, u \in BOOLEAN : FailureState(t, u) = "delivery_unknown" <=> u
    BY DEF FailureState
  <2>4. \/ UNCHANGED accepts /\ pc' = "record" /\ result' /= "delivery_unknown"
        \/ /\ UNCHANGED accepts \/ accepts' = [accepts EXCEPT ![w] = @ + 1]
           /\ pc' = "accepted" \/ (pc' = "record" /\ result' = "delivery_unknown")
    <3>1. CASE DeliveryNotPossible
      BY <2>3, <3>1 DEF DeliveryNotPossible, GoTo
    <3>2. CASE SendRawReader
      <4>1. \/ accepts' = [accepts EXCEPT ![job.key] = @ + 1] /\ pc' = "accepted"
            \/ accepts' = accepts /\ pc' = "record" /\ \E t \in BOOLEAN : result' = FailureState(t, FALSE)
            \/ /\ accepts' = [accepts EXCEPT ![job.key] = @ + 1] \/ accepts' = accepts
               /\ pc' = "record" /\ result' = FailureState(FALSE, TRUE)
        BY <3>2 DEF SendRawReader, GoTo
      <4>2. FailureState(FALSE, TRUE) = "delivery_unknown"
        BY <2>3
      <4>3. \A t \in BOOLEAN : FailureState(t, FALSE) /= "delivery_unknown"
        BY <2>3
      <4> QED BY <1>0, <4>1, <4>2, <4>3
    <3> QED BY <1>5, <3>1, <3>2
  <2>5. CASE pc' = "record" /\ result' /= "delivery_unknown" /\ UNCHANGED accepts
    <3>1. Phase(w)' = "refused"
      BY <2>2, <2>5, PhaseOwn
    <3> QED BY <1>1, <1>2, <2>2, <2>5, <3>1, OneMoves
  <2>6. CASE /\ UNCHANGED accepts \/ accepts' = [accepts EXCEPT ![w] = @ + 1]
             /\ pc' = "accepted" \/ (pc' = "record" /\ result' = "delivery_unknown")
    <3>1. Phase(w)' = "closed"
      <4>1. CASE pc' = "accepted"
        BY <2>2, <4>1, PhaseElsewhere DEF Elsewhere, RowPhase
      <4>2. CASE pc' = "record" /\ result' = "delivery_unknown"
        BY <2>2, <4>2, PhaseOwn
      <4> QED BY <2>6, <4>1, <4>2
    <3>2. CASE UNCHANGED accepts
      BY <1>1, <1>2, <2>2, <3>1, <3>2, OneMoves
    <3>3. CASE accepts' = [accepts EXCEPT ![w] = @ + 1]
      BY <1>1, <1>2, <2>2, <3>1, <3>3, OneTransmitted
    <3> QED BY <2>6, <3>2, <3>3
  <2> QED BY <2>4, <2>5, <2>6
<1>6. CASE MarkOutboxSMTPAccepted
  <2>1. pc = "accepted" /\ delivery[w] = "smtp_in_flight" /\ UNCHANGED accepts
    BY <1>3, <1>6 DEF MarkOutboxSMTPAccepted
  <2>2. Phase(w) = "closed"
    BY <2>1, PhaseElsewhere DEF Elsewhere, RowPhase
  <2>3. CASE UpdateRefused /\ GoTo("record") /\ result' = "delivery_unknown"
    <3>1. delivery'[w] = "smtp_in_flight" /\ job'.key = w /\ pc' = "record"
      BY <1>0, <2>1, <2>3 DEF UpdateRefused, GoTo
    <3>2. Phase(w)' = "closed"
      BY <2>3, <3>1, PhaseOwn
    <3> QED BY <1>1, <1>2, <2>1, <2>2, <3>2, Stutter
  <2>4. CASE delivery' = [delivery EXCEPT ![job.key] = "accepted"]
    <3>1. delivery'[w] = "accepted"
      BY <1>0, <2>4 DEF TypeOK
    <3>2. Phase(w)' = "accepted"
      BY <3>1 DEF Phase, RowPhase
    <3> QED BY <1>1, <1>2, <2>1, <2>2, <3>2, OneMoves
  <2> QED BY <1>6, <2>3, <2>4 DEF MarkOutboxSMTPAccepted
<1>7. CASE RecordDeliveryFailure
  <2>1. pc = "record" /\ delivery[w] = "smtp_in_flight" /\ UNCHANGED accepts /\ pc' = "idle"
    BY <1>3, <1>7 DEF RecordDeliveryFailure, DropJob
  <2>2. Phase(w) = IF result = "delivery_unknown" THEN "closed" ELSE "refused"
    BY <1>0, <2>1, PhaseOwn
  <2>3. result \in {"failed", "retry_wait", "delivery_unknown"}
    BY <2>1 DEF RecordInv
  <2>4. Phase(w)' = RowPhase(delivery'[w])
    BY <2>1, PhaseElsewhere DEF Elsewhere
  <2>5. CASE UNCHANGED delivery
    <3>1. Phase(w)' = "closed"
      BY <2>1, <2>4, <2>5 DEF RowPhase
    <3>2. CASE Phase(w) = "closed"
      BY <1>1, <1>2, <2>1, <3>1, <3>2, Stutter
    <3>3. CASE Phase(w) = "refused"
      BY <1>1, <1>2, <2>1, <3>1, <3>3, OneMoves
    <3> QED BY <2>2, <3>2, <3>3
  <2>6. CASE delivery' = [delivery EXCEPT ![job.key] = result]
    <3>1. delivery'[w] = result
      BY <1>0, <2>6 DEF TypeOK
    <3>2. CASE result = "delivery_unknown"
      <4>1. Phase(w) = "closed" /\ Phase(w)' = "unknown"
        BY <2>2, <2>4, <3>1, <3>2 DEF RowPhase
      <4>2. {w} \in SUBSET Jobs
        OBVIOUS
      <4> QED BY <1>1, <1>2, <2>1, <4>1, <4>2, SomeMove
    <3>3. CASE result = "failed"
      <4>1. Phase(w) = "refused" /\ Phase(w)' = "failed"
        BY <2>2, <2>4, <3>1, <3>3 DEF RowPhase
      <4> QED BY <1>1, <1>2, <2>1, <4>1, OneMoves
    <3>4. CASE result = "retry_wait"
      <4>1. Phase(w) = "refused" /\ Phase(w)' = "waiting"
        BY <2>2, <2>4, <3>1, <3>4 DEF RowPhase
      <4> QED BY <1>1, <1>2, <2>1, <4>1, OneMoves
    <3> QED BY <2>3, <3>2, <3>3, <3>4
  <2> QED BY <1>7, <2>5, <2>6 DEF RecordDeliveryFailure, UpdateRefused
<1> QED BY <1>4, <1>5, <1>6, <1>7

\* The worker's other steps: only the purge of filed rows shows.
LEMMA FilingStep ==
    ASSUME TypeOK, WorkerLoop,
           ~(RecoverInterruptedOutboxJobs \/ RecoverExpiredOutboxJobs),
           ~(\/ MarkOutboxSMTPInFlight \/ DeliveryNotPossible \/ SendRawReader
             \/ MarkOutboxSMTPAccepted \/ RecordDeliveryFailure)
    PROVE  [Abstract!Next]_(Abstract!vars)
<1>a. ASSUME UNCHANGED <<accepts, rows, consents>>, pc \notin {"send", "record"},
             pc' \notin {"send", "record"}, \A j \in Jobs : RowPhase(delivery'[j]) = RowPhase(delivery[j])
      PROVE  UNCHANGED Abstract!vars
  BY <1>a, PhaseElsewhere, Stutter DEF Elsewhere
<1>1. ASSUME NEW j \in Jobs, PurgeCompletedOutboxHistory(j) PROVE Abstract!Next
  <2>1. /\ DeleteRows({j}) /\ {j} \in SUBSET Jobs /\ delivery[j] = "accepted"
        /\ UNCHANGED <<accepts, rows, consents, pc, job, result>>
    BY <1>1 DEF PurgeCompletedOutboxHistory
  <2> QED BY <2>1, DeletedMove
<1>2. ASSUME NEW j \in Jobs, ClaimNextOutboxJob(j) PROVE UNCHANGED Abstract!vars
  <2>1. UNCHANGED <<accepts, rows, consents>> /\ pc = "idle" /\ pc' \in {"file", "deliver"}
    BY <1>2 DEF ClaimNextOutboxJob
  <2>2. \A k \in Jobs : RowPhase(delivery'[k]) = RowPhase(delivery[k])
    BY <1>2 DEF ClaimNextOutboxJob, Claimable, RowPhase, TypeOK
  <2> QED BY <1>a, <2>1, <2>2
<1>3. CASE \/ FilingNotPossible \/ ReconcileOutboxSentAppend \/ SnapshotSentCopies
           \/ AppendMessage \/ ResetMailboxGenerationIfNeeded \/ PromoteOutboxMessage
           \/ CompleteOutboxFiling \/ RetryOutboxFiling
  <2>1. UNCHANGED <<accepts, rows, consents>>
    BY <1>3 DEF FilingNotPossible, ReconcileOutboxSentAppend, SnapshotSentCopies, AppendMessage,
                ResetMailboxGenerationIfNeeded, PromoteOutboxMessage, CompleteOutboxFiling, RetryOutboxFiling
  <2>2. UNCHANGED delivery
    BY <1>3 DEF FilingNotPossible, ReconcileOutboxSentAppend, SnapshotSentCopies, AppendMessage,
                ResetMailboxGenerationIfNeeded, PromoteOutboxMessage, CompleteOutboxFiling, RetryOutboxFiling,
                GiveUpFiling, ConfirmUid, ThenAppend, UpdateRefused
  <2>3. pc \notin {"record", "send"} /\ pc' \notin {"record", "send"}
    BY <1>3 DEF FilingNotPossible, ReconcileOutboxSentAppend, SnapshotSentCopies, AppendMessage,
                ResetMailboxGenerationIfNeeded, PromoteOutboxMessage, CompleteOutboxFiling, RetryOutboxFiling,
                GiveUpFiling, ConfirmUid, ThenAppend, DropJob, GoTo
  <2> QED BY <1>a, <2>1, <2>2, <2>3
<1> QED BY <1>1, <1>2, <1>3 DEF WorkerLoop

-----------------------------------------------------------------------------
(* Theorems *)

\* Unless reading the spool file fails inside DATA, every step of the outbox,
\* its worker, its handlers and its crashes is a step of Delivery or changes
\* nothing the user was promised (store/outbox.go, syncer/outbox.go).
THEOREM Implements ==
    ASSUME "spoolread" \notin Env
    PROVE  Spec => ImplementsDelivery
<1>1. Init => Abstract!Init
  <2> SUFFICES ASSUME Init PROVE Abstract!Init
    OBVIOUS
  <2>1. \A j \in Jobs : Phase(j) = "none" /\ rows[j] + consents[j] = 0
    BY DEF Init, Phase, RowPhase
  <2>2. accepts = [j \in Jobs |-> 0]
    BY DEF Init
  <2> QED BY <2>1, <2>2 DEF Abstract!Init
<1>2. DeliveryInv /\ [Next]_vars => [Abstract!Next]_(Abstract!vars)
  <2> SUFFICES ASSUME DeliveryInv, [Next]_vars PROVE [Abstract!Next]_(Abstract!vars)
    OBVIOUS
  <2>0. TypeOK /\ LeaseInv
    BY DEF DeliveryInv, LeaseInv
  <2>1. CASE UNCHANGED vars
    BY <2>1, PhaseSame, Stutter DEF vars
  <2>2. CASE WorkerLoop
    BY <2>0, <2>2, RecoverStep, SendStep, FilingStep
  <2> QED BY <2>0, <2>1, <2>2, HandlersStep, EnvironmentStep DEF Next
<1> QED BY <1>1, <1>2, DeliveryInductive, PTL DEF Spec, ImplementsDelivery, Abstract!Spec

\* Delivery by itself keeps copies within permissions, one of them unused while
\* a message can still be sent.
LEMMA AbstractStep ==
    ASSUME TypeOK, Abstract!CopiesPermitted, [Abstract!Next]_(Abstract!vars)
    PROVE  Abstract!CopiesPermitted'
<1> DEFINE ph == [j \in Jobs |-> Phase(j)]
           permits == [j \in Jobs |-> rows[j] + consents[j]]
           Room1(m) == accepts[m] + (IF ph[m] \in Abstract!Sendable THEN 1 ELSE 0) <= permits[m]
<1>1. /\ \A m \in Jobs : accepts[m] \in Nat /\ permits[m] \in Nat
      /\ DOMAIN ph = Jobs /\ DOMAIN permits = Jobs /\ DOMAIN accepts = Jobs
  <2>1. \A m \in Jobs : rows[m] \in Nat /\ consents[m] \in Nat
    BY DEF TypeOK
  <2> QED BY <2>1 DEF TypeOK
<1>2. \A m \in Jobs : Room1(m)
  BY DEF Abstract!CopiesPermitted
<1>3. /\ Abstract!CopiesPermitted' <=> \A m \in Jobs : Room1(m)'
      /\ [Abstract!Next]_(Abstract!vars) => Abstract!Next \/ UNCHANGED <<ph, accepts, permits>>
  BY DEF Abstract!CopiesPermitted, Abstract!vars
<1>4. ASSUME NEW m \in Jobs
      PROVE  \/ /\ accepts'[m] = accepts[m] /\ permits'[m] = permits[m]
                /\ ph'[m] \in Abstract!Sendable => ph[m] \in Abstract!Sendable
             \/ accepts'[m] = accepts[m] /\ permits'[m] = permits[m] + 1
             \/ /\ accepts'[m] = accepts[m] + 1 /\ permits'[m] = permits[m]
                /\ ph[m] = "open" /\ ph'[m] = "closed"
  <2> DEFINE Quiet == /\ accepts'[m] = accepts[m] /\ permits'[m] = permits[m]
                      /\ ph'[m] \in Abstract!Sendable => ph[m] \in Abstract!Sendable
  <2>1. ASSUME NEW k \in Jobs, Abstract!Permit(k)
        PROVE  Quiet \/ (accepts'[m] = accepts[m] /\ permits'[m] = permits[m] + 1)
    <3>1. /\ ph' = [ph EXCEPT ![k] = "waiting"] /\ permits' = [permits EXCEPT ![k] = @ + 1]
          /\ accepts' = accepts
      BY <2>1 DEF Abstract!Permit, Abstract!Move
    <3> HIDE DEF ph, permits
    <3> QED BY <1>1, <3>1
  <2>2. ASSUME NEW k \in Jobs, Abstract!Transmit(k)
        PROVE  \/ Quiet
               \/ /\ accepts'[m] = accepts[m] + 1 /\ permits'[m] = permits[m]
                  /\ ph[m] = "open" /\ ph'[m] = "closed"
    <3>1. /\ ph[k] = "open" /\ ph' = [ph EXCEPT ![k] = "closed"] /\ permits' = permits
          /\ accepts' = [accepts EXCEPT ![k] = @ + 1]
      BY <2>2 DEF Abstract!Transmit, Abstract!Move
    <3> HIDE DEF ph, permits
    <3> QED BY <1>1, <3>1
  <2>3. ASSUME NEW k \in Jobs,
               \/ Abstract!Begin(k) \/ Abstract!Refuse(k) \/ Abstract!Lose(k) \/ Abstract!Retry(k)
               \/ Abstract!Fail(k) \/ Abstract!Confirm(k)
        PROVE  Quiet
    <3>1. /\ \/ ph[k] \in Abstract!Sendable /\ \E to : ph' = [ph EXCEPT ![k] = to]
             \/ ph' = [ph EXCEPT ![k] = "accepted"]
          /\ accepts' = accepts /\ permits' = permits
      BY <2>3 DEF Abstract!Begin, Abstract!Refuse, Abstract!Lose, Abstract!Retry, Abstract!Fail,
                  Abstract!Confirm, Abstract!Move, Abstract!Sendable
    <3>2. "accepted" \notin Abstract!Sendable
      BY DEF Abstract!Sendable
    <3> HIDE DEF ph, permits
    <3> QED BY <1>1, <3>1, <3>2
  <2>4. ASSUME NEW S \in SUBSET Jobs, Abstract!GiveUp(S) \/ Abstract!Remove(S)
        PROVE  Quiet
    <3>1. /\ \E to \in {"unknown", "none"} : ph' = [k \in Jobs |-> IF k \in S THEN to ELSE ph[k]]
          /\ accepts' = accepts /\ permits' = permits
      BY <2>4 DEF Abstract!GiveUp, Abstract!Remove, Abstract!MoveAll
    <3>2. {"unknown", "none"} \cap Abstract!Sendable = {}
      BY DEF Abstract!Sendable
    <3> HIDE DEF ph, permits
    <3> QED BY <1>1, <3>1, <3>2
  <2>5. ASSUME UNCHANGED <<ph, accepts, permits>> PROVE Quiet
    BY <2>5
  <2> QED BY <1>3, <2>1, <2>2, <2>3, <2>4, <2>5 DEF Abstract!Next
<1>5. "open" \in Abstract!Sendable /\ "closed" \notin Abstract!Sendable
  BY DEF Abstract!Sendable
<1> HIDE DEF ph, permits
<1>6. ASSUME NEW m \in Jobs PROVE Room1(m)'
  <2>1. Room1(m) /\ accepts[m] \in Nat /\ permits[m] \in Nat
    BY <1>1, <1>2
  <2> QED BY <1>4, <1>5, <2>1
<1> QED BY <1>3, <1>6

\* So the abstract promise holds of every behaviour of the outbox: no copy
\* without a permission, and one unused while the message can still be sent,
\* also between the worker's reading of an answer and its record of it.
THEOREM Permitted ==
    ASSUME "spoolread" \notin Env
    PROVE  Spec => []Abstract!CopiesPermitted
<1>1. Init => Abstract!CopiesPermitted
  <2> SUFFICES ASSUME Init PROVE Abstract!CopiesPermitted
    OBVIOUS
  <2>1. \A j \in Jobs : Phase(j) = "none" /\ rows[j] + consents[j] = 0 /\ accepts[j] = 0
    BY DEF Init, Phase, RowPhase
  <2>2. "none" \notin Abstract!Sendable
    BY DEF Abstract!Sendable
  <2> QED BY <2>1, <2>2 DEF Abstract!CopiesPermitted
<1>2. ASSUME TypeOK, Abstract!CopiesPermitted, [Abstract!Next]_(Abstract!vars)
      PROVE  Abstract!CopiesPermitted'
  BY <1>2, AbstractStep
<1>3. Spec => [][Abstract!Next]_(Abstract!vars)
  BY Implements DEF ImplementsDelivery, Abstract!Spec
<1>4. Spec => []TypeOK
  BY TypeCorrect
<1>5. Spec => Init
  BY DEF Spec
<1> QED BY <1>1, <1>2, <1>3, <1>4, <1>5, PTL
=============================================================================
