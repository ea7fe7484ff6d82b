------------------------------- MODULE Outbox -------------------------------
(***************************************************************************)
(* The durable SMTP outbox: the outbox_jobs rows, the compose and outbox   *)
(* HTTP handlers, the one worker goroutine of the server process, and, as  *)
(* its environment, the SMTP server, the IMAP Sent folder, the mailbox     *)
(* sync and the clock.                                                     *)
(*                                                                         *)
(* Every transaction of the store is one step; a network call is one step; *)
(* the process can die between any two steps.  Time is abstracted: a row   *)
(* is due or not (next_attempt_at <= now) and its lease has run out or not *)
(* (lease_expires_at <= now), and the clock turns both on when it likes.   *)
(***************************************************************************)
EXTENDS Naturals, FiniteSets

CONSTANTS
    Jobs,         \* submission keys of one user
    NoKey,        \* the key of an idle worker's job
    MaxAttempts,  \* outboxMaxAttempts
    MaxEpoch,     \* bound: process starts
    MaxFaults,    \* bound: SQLite statements that fail
    MaxRows,      \* bound: rows ever created for one submission key
    MaxRequests,  \* bound: compose requests in progress for one key
    MaxConsents,  \* bound: "retry anyway" confirmations per key
    MaxUid,       \* bound: UIDNEXT of the Sent folder
    Env           \* what the environment of this instance may do

EnvKinds == {"provider",    \* the SMTP provider files its own Sent copy
             "rewrite",     \* IMAP stores bytes that no longer match the raw message
             "expunge",     \* another client deletes Sent copies
             "generation",  \* the Sent folder changes UIDVALIDITY
             "retention",   \* blob retention reaches the spool file
             "spoolread"}   \* reading the spool file fails in the middle of DATA

ASSUME OutboxConstants ==
    /\ NoKey \notin Jobs
    /\ MaxAttempts \in Nat \ {0}
    /\ MaxEpoch \in Nat \ {0}
    /\ {MaxFaults, MaxRows, MaxRequests, MaxConsents, MaxUid} \subseteq Nat
    /\ Env \subseteq EnvKinds

VARIABLES
    \* the columns of outbox_jobs, by submission key
    delivery,        \* delivery_state, or "none": no row
    filing,          \* filing_state
    attempts,        \* attempt_count, as far as MaxAttempts tells
    filingAttempts,  \* filing_attempt_count
    due,             \* keys whose next_attempt_at has passed
    lease,           \* lease_owner: a process incarnation, or 0
    expired,         \* keys whose lease_expires_at has passed
    boundary,        \* append_uid_validity and append_uid_next
    attention,       \* keys whose attention_at is after acknowledged_at
    \* the user's other data
    local,           \* key -> the optimistic message: state, UID and UIDVALIDITY
    mirror,          \* UIDs of the synced rows of the Sent mailbox
    generation,      \* mailboxes.uidvalidity of the Sent mailbox
    spool,           \* keys whose .eml file is on disk
    smtp,            \* the outgoing account: "present", "purged", "deleted"
    \* the process
    composing,       \* key -> compose requests past their submission lookup
    pc,              \* the worker's place in its loop
    job,             \* the worker's copy of the row, read when it claimed it
    result,          \* the state the worker is about to record
    uid, validity,   \* the Sent UID and UIDVALIDITY the worker has confirmed
    epoch,           \* process incarnation: outboxWorkerID
    faults,          \* SQLite failures left
    \* the servers and the user
    accepts,         \* key -> times the SMTP server accepted the message
    sent,            \* the server's Sent folder
    uidNext, uidValidity,
    rows,            \* key -> rows ever created
    consents         \* key -> duplicate risks the user accepted

countVars  == <<attempts, filingAttempts>>
leaseVars  == <<lease, expired>>
rowVars    == <<delivery, filing, countVars, due, leaseVars, boundary, attention>>
localVars  == <<local, mirror, generation, spool>>
apiVars    == <<composing, smtp>>
uidVars    == <<uid, validity>>
workerVars == <<pc, job, result, uidVars>>
procVars   == <<epoch, faults>>
sentVars   == <<sent, uidNext, uidValidity>>
userVars   == <<rows, consents>>
vars == <<rowVars, localVars, apiVars, workerVars, procVars, accepts, sentVars, userVars>>

-----------------------------------------------------------------------------
(* Values *)

DeliveryStates == {"none", "queued", "claimed", "smtp_in_flight", "retry_wait",
                   "accepted", "failed", "delivery_unknown"}
FilingStates == {"not_started", "pending", "appending", "reconciling",
                 "retry_wait", "complete", "needs_attention"}

Boundary == [validity: Nat, next: Nat]
NoBoundary == [validity |-> 0, next |-> 0]
BoundarySet(b) == b.validity > 0 /\ b.next > 0

NoMessage  == [state |-> "none", uid |-> 0, validity |-> 0]
Optimistic == [state |-> "optimistic", uid |-> 0, validity |-> 0]
Promoted(u, v) == [state |-> "promoted", uid |-> u, validity |-> v]

\* One message in the Sent folder.  Each row has its own Message-ID, so a copy
\* belongs to one row of one key; ours: Rolltop's APPEND put it there.
Copy == [uid: Nat, key: Jobs, row: Nat, exact: BOOLEAN, ours: BOOLEAN]

\* What the worker keeps of the row it claimed.
Job == [key: Jobs \cup {NoKey}, delivery: DeliveryStates, filing: FilingStates,
        attempts: Nat, filingAttempts: Nat, boundary: Boundary]
NoJob == [key |-> NoKey, delivery |-> "none", filing |-> "not_started",
          attempts |-> 0, filingAttempts |-> 0, boundary |-> NoBoundary]

Present(j) == delivery[j] /= "none"
Bumped(n) == IF n < MaxAttempts THEN n + 1 ELSE n

PCs == {"boot", "idle", "deliver", "send", "accepted", "record",
        "file", "append", "reset", "finish", "complete", "recordFiling"}
Working == pc \notin {"boot", "idle"}

Init ==
    /\ delivery = [j \in Jobs |-> "none"]
    /\ filing = [j \in Jobs |-> "not_started"]
    /\ attempts = [j \in Jobs |-> 0]
    /\ filingAttempts = [j \in Jobs |-> 0]
    /\ due = {} /\ expired = {} /\ attention = {}
    /\ lease = [j \in Jobs |-> 0]
    /\ boundary = [j \in Jobs |-> NoBoundary]
    /\ local = [j \in Jobs |-> NoMessage]
    /\ mirror = {} /\ generation = 1
    /\ spool = {}
    /\ smtp = "present"
    /\ composing = [j \in Jobs |-> 0]
    /\ pc = "boot" /\ job = NoJob /\ result = "none" /\ uid = 0 /\ validity = 0
    /\ epoch = 1
    /\ faults = MaxFaults
    /\ accepts = [j \in Jobs |-> 0]
    /\ sent = {} /\ uidNext = 1 /\ uidValidity = 1
    /\ rows = [j \in Jobs |-> 0]
    /\ consents = [j \in Jobs |-> 0]

-----------------------------------------------------------------------------
(* HTTP handlers, concurrent with the worker *)

\* queueCompose up to the spool file: the submission key has no row yet.
ComposeLookup(j) ==
    /\ ~Present(j)
    /\ rows[j] < MaxRows /\ composing[j] < MaxRequests
    /\ composing' = [composing EXCEPT ![j] = @ + 1]
    /\ UNCHANGED <<rowVars, localVars, smtp, workerVars, procVars, accepts, sentVars, userVars>>

\* The row and the optimistic Sent message of a new job, in one transaction.
InsertJob(j) ==
    /\ delivery' = [delivery EXCEPT ![j] = "queued"]
    /\ due' = due \cup {j}
    /\ local' = [local EXCEPT ![j] = Optimistic]
    /\ mirror' = mirror \cup {local[k].uid : k \in {k \in {j} : local[k].state = "promoted"}}
    /\ spool' = spool \cup {j}
    /\ rows' = [rows EXCEPT ![j] = @ + 1]
    /\ UNCHANGED <<filing, countVars, leaseVars, boundary, attention, generation>>

\* Mutant: the cleanup removes the spool file of the key's row.
DropKeySpool(j) ==
    /\ spool' = spool \ {j}
    /\ UNCHANGED <<rowVars, local, mirror, generation, rows>>

\* A request that does not create the row drops the blob it saved itself.
DropOwnSpool(j) == UNCHANGED <<rowVars, localVars, rows>>

\* EnqueueOutboxMessage: the key is looked up again inside the transaction, and
\* the outgoing account must still exist.
EnqueueOutboxMessage(j) ==
    /\ composing[j] > 0
    /\ Present(j) \/ rows[j] < MaxRows
    /\ composing' = [composing EXCEPT ![j] = @ - 1]
    /\ IF ~Present(j) /\ smtp /= "deleted" THEN InsertJob(j) ELSE DropOwnSpool(j)
    /\ UNCHANGED <<smtp, workerVars, procVars, accepts, sentVars, consents>>

AcknowledgeOutboxJob(j) ==
    /\ j \in attention
    /\ attention' = attention \ {j}
    /\ UNCHANGED <<delivery, filing, countVars, due, leaseVars, boundary>>
    /\ UNCHANGED <<localVars, apiVars, workerVars, procVars, accepts, sentVars, userVars>>

ReleaseLease(j) ==
    /\ lease' = [lease EXCEPT ![j] = 0]
    /\ expired' = expired \ {j}

\* RequeueOutboxJob.  A delivery of unknown outcome needs the user's consent.
RequeueOutboxJob(j) ==
    /\ \/ delivery[j] = "failed" /\ UNCHANGED consents
       \/ /\ delivery[j] = "delivery_unknown"
          /\ consents[j] < MaxConsents
          /\ consents' = [consents EXCEPT ![j] = @ + 1]
    /\ delivery' = [delivery EXCEPT ![j] = "queued"]
    /\ due' = due \cup {j}
    /\ attention' = attention \ {j}
    /\ ReleaseLease(j)
    /\ UNCHANGED <<filing, countVars, boundary>>
    /\ UNCHANGED <<localVars, apiVars, workerVars, procVars, accepts, sentVars, rows>>

RequeueOutboxFiling(j) ==
    /\ delivery[j] = "accepted" /\ filing[j] = "needs_attention"
    /\ filing' = [filing EXCEPT ![j] = "retry_wait"]
    /\ filingAttempts' = [filingAttempts EXCEPT ![j] = 0]
    /\ due' = due \cup {j}
    /\ attention' = attention \ {j}
    /\ ReleaseLease(j)
    /\ UNCHANGED <<delivery, attempts, boundary>>
    /\ UNCHANGED <<localVars, apiVars, workerVars, procVars, accepts, sentVars, userVars>>

\* f with its default value on S.
Cleared(f, S, default) == [j \in Jobs |-> IF j \in S THEN default ELSE f[j]]

DeleteRows(S) ==
    /\ delivery' = Cleared(delivery, S, "none")
    /\ filing' = Cleared(filing, S, "not_started")
    /\ attempts' = Cleared(attempts, S, 0)
    /\ filingAttempts' = Cleared(filingAttempts, S, 0)
    /\ lease' = Cleared(lease, S, 0)
    /\ boundary' = Cleared(boundary, S, NoBoundary)
    /\ due' = due \ S /\ expired' = expired \ S /\ attention' = attention \ S

\* The optimistic messages of S go, and the spool files nothing refers to.
DeleteMessages(S) ==
    /\ local' = Cleared(local, {j \in S : local[j].state = "optimistic"}, NoMessage)
    /\ spool' = spool \ {j \in S : local[j].state /= "promoted"}

Cancelable == {"queued", "retry_wait", "failed"}

CancelOutboxJob(j) ==
    /\ delivery[j] \in Cancelable
    /\ DeleteRows({j}) /\ DeleteMessages({j})
    /\ UNCHANGED <<mirror, generation, apiVars, workerVars, procVars, accepts, sentVars, userVars>>

\* Mutant: a leased row that is only being filed does not count as busy.
OutboxSending == \E j \in Jobs : delivery[j] \in {"claimed", "smtp_in_flight"}

\* purgeOutboxJobs answers ErrOutboxBusy while a row is leased or on its way.
OutboxBusy ==
    \E j \in Jobs : lease[j] /= 0 \/ delivery[j] \in {"claimed", "smtp_in_flight"}

PurgeOutboxJobsForIMAPAccount ==
    /\ \E j \in Jobs : Present(j)
    /\ ~OutboxBusy
    /\ DeleteRows(Jobs) /\ DeleteMessages({j \in Jobs : Present(j)})
    /\ UNCHANGED <<mirror, generation, apiVars, workerVars, procVars, accepts, sentVars, userVars>>

\* apiDeleteSMTPAccount: purge what is not delivered, then delete the account.
\* Another request may queue a message between the two.
PurgeOutboxJobsForSMTPAccount ==
    /\ smtp = "present"
    /\ ~OutboxBusy
    /\ LET S == {j \in Jobs : delivery[j] \in Cancelable}
       IN DeleteRows(S) /\ DeleteMessages(S)
    /\ smtp' = "purged"
    /\ UNCHANGED <<mirror, generation, composing, workerVars, procVars, accepts, sentVars, userVars>>

DeleteSMTPAccountForUser ==
    /\ smtp = "purged"
    /\ smtp' = "deleted"
    /\ UNCHANGED <<rowVars, localVars, composing, workerVars, procVars, accepts, sentVars, userVars>>

-----------------------------------------------------------------------------
(* The clock *)

\* next_attempt_at passes.
BecomesDue(j) ==
    /\ Present(j) /\ j \notin due
    /\ due' = due \cup {j}
    /\ UNCHANGED <<delivery, filing, countVars, leaseVars, boundary, attention>>
    /\ UNCHANGED <<localVars, apiVars, workerVars, procVars, accepts, sentVars, userVars>>

\* lease_expires_at passes, even under a worker whose renewals fail.
LeaseExpires(j) ==
    /\ lease[j] /= 0 /\ j \notin expired
    /\ expired' = expired \cup {j}
    /\ UNCHANGED <<delivery, filing, countVars, due, lease, boundary, attention>>
    /\ UNCHANGED <<localVars, apiVars, workerVars, procVars, accepts, sentVars, userVars>>

\* The heartbeat of maintainOutboxLease: RenewOutboxLease.
RenewOutboxLease ==
    /\ Working
    /\ lease[job.key] = epoch /\ job.key \in expired
    /\ expired' = expired \ {job.key}
    /\ UNCHANGED <<delivery, filing, countVars, due, lease, boundary, attention>>
    /\ UNCHANGED <<localVars, apiVars, workerVars, procVars, accepts, sentVars, userVars>>

-----------------------------------------------------------------------------
(* The worker: recovery and claim *)

\* processOneOutboxJob returns: the worker goes on to its next scan.
DropJob ==
    pc' = "idle" /\ job' = NoJob /\ result' = "none" /\ uid' = 0 /\ validity' = 0
\* The worker goes on with its job.
GoTo(place) == pc' = place /\ UNCHANGED job

\* A SQLite statement fails: nothing is written.
StoreFails ==
    /\ faults > 0
    /\ faults' = faults - 1
    /\ UNCHANGED epoch

\* Mutant: an interrupted DATA is sent again.
ResendInterrupted(j) ==
    IF delivery[j] \in {"claimed", "smtp_in_flight"} THEN "queued" ELSE delivery[j]

RecoveredDelivery(j) ==
    CASE delivery[j] = "claimed" -> "queued"
      [] delivery[j] = "smtp_in_flight" -> "delivery_unknown"
      [] OTHER -> delivery[j]

\* Mutant: an interrupted APPEND is not recovered.
StillAppending(j) == filing[j]

RecoveredFiling(j) ==
    IF delivery[j] = "accepted" /\ filing[j] = "appending" THEN "reconciling" ELSE filing[j]

\* recoverOutboxJobs, on the rows S its lease filter selects.
RecoverOutboxJobs(S) ==
    LET sending == {j \in S : delivery[j] = "smtp_in_flight"}
        leased == {j \in S : lease[j] /= 0 /\ filing[j] \in {"pending", "retry_wait", "reconciling"}}
        filed == {j \in S : filing[j] = "appending"} \cup leased
        retried == {j \in S : delivery[j] = "claimed"}
                     \cup {j \in filed : delivery[j] = "accepted"}
    IN /\ delivery' = [j \in Jobs |-> IF j \in S THEN RecoveredDelivery(j) ELSE delivery[j]]
       /\ filing' = [j \in Jobs |-> IF j \in S THEN RecoveredFiling(j) ELSE filing[j]]
       /\ due' = due \cup retried
       /\ attention' = attention \cup sending
       /\ lease' = Cleared(lease, sending \cup retried, 0)
       /\ expired' = expired \ (sending \cup retried)
       /\ UNCHANGED <<countVars, boundary>>

\* Startup: RecoverInterruptedOutboxJobs looks at no lease; if it fails the
\* worker starts all the same.
RecoverInterruptedOutboxJobs ==
    /\ pc = "boot"
    /\ pc' = "idle" /\ UNCHANGED <<job, result, uidVars>>
    /\ \/ RecoverOutboxJobs(Jobs) /\ UNCHANGED procVars
       \/ StoreFails /\ UNCHANGED rowVars
    /\ UNCHANGED <<localVars, apiVars, accepts, sentVars, userVars>>

RecoverExpiredOutboxJobs ==
    /\ pc = "idle"
    /\ expired /= {}
    /\ RecoverOutboxJobs(expired)
    /\ UNCHANGED <<localVars, apiVars, workerVars, procVars, accepts, sentVars, userVars>>

PurgeCompletedOutboxHistory(j) ==
    /\ pc = "idle"
    /\ delivery[j] = "accepted" /\ filing[j] = "complete"
    /\ DeleteRows({j}) /\ DeleteMessages({j})
    /\ UNCHANGED <<mirror, generation, apiVars, workerVars, procVars, accepts, sentVars, userVars>>

Claimable(j) ==
    /\ j \in due
    /\ lease[j] = 0 \/ j \in expired
    /\ \/ delivery[j] \in {"queued", "retry_wait"}
       \/ delivery[j] = "accepted" /\ filing[j] \in {"pending", "retry_wait", "reconciling"}

ClaimNextOutboxJob(j) ==
    /\ pc = "idle"
    /\ Claimable(j)
    /\ LET state == IF delivery[j] = "accepted" THEN "accepted" ELSE "claimed"
       IN /\ delivery' = [delivery EXCEPT ![j] = state]
          /\ job' = [key |-> j, delivery |-> state, filing |-> filing[j],
                     attempts |-> attempts[j], filingAttempts |-> filingAttempts[j],
                     boundary |-> boundary[j]]
          /\ pc' = IF state = "accepted" THEN "file" ELSE "deliver"
    /\ lease' = [lease EXCEPT ![j] = epoch]
    /\ expired' = expired \ {j}
    /\ UNCHANGED <<filing, countVars, due, boundary, attention, result, uidVars>>
    /\ UNCHANGED <<localVars, apiVars, procVars, accepts, sentVars, userVars>>

\* updateClaimedOutbox writes the row if this worker still holds its lease.
UpdateClaimed == lease[job.key] = epoch /\ UNCHANGED procVars
UpdateRefused ==
    /\ \/ lease[job.key] /= epoch /\ UNCHANGED procVars
       \/ StoreFails
    /\ UNCHANGED rowVars

-----------------------------------------------------------------------------
(* The worker: SMTP delivery *)

MarkOutboxSMTPInFlight ==
    /\ pc = "deliver"
    /\ \/ /\ UpdateClaimed
          /\ delivery' = [delivery EXCEPT ![job.key] = "smtp_in_flight"]
          /\ attempts' = [attempts EXCEPT ![job.key] = Bumped(@)]
          /\ GoTo("send")
          /\ UNCHANGED <<filing, filingAttempts, due, leaseVars, boundary, attention, result, uidVars>>
       \/ UpdateRefused /\ DropJob
    /\ UNCHANGED <<localVars, apiVars, accepts, sentVars, userVars>>

\* Mutant: a permanent failure is recorded in a state no query knows.
CanceledState(temporary, unknown) ==
    IF unknown THEN "delivery_unknown" ELSE IF temporary THEN "retry_wait" ELSE "canceled"

\* Mutant: a lost answer is taken for an answer.
DefiniteFailure(temporary, unknown) ==
    IF temporary /\ job.attempts + 1 < MaxAttempts THEN "retry_wait" ELSE "failed"

\* finishOutboxDeliveryFailure: which state a failed attempt is recorded as.
FailureState(temporary, unknown) ==
    IF unknown THEN "delivery_unknown"
    ELSE IF temporary /\ job.attempts + 1 < MaxAttempts THEN "retry_wait"
    ELSE "failed"

\* The outgoing account or the spool file is gone: nothing is transmitted.
DeliveryNotPossible ==
    /\ pc = "send"
    /\ smtp = "deleted" \/ job.key \notin spool
    /\ result' = FailureState(FALSE, FALSE)
    /\ GoTo("record")
    /\ UNCHANGED <<rowVars, localVars, apiVars, uidVars, procVars, accepts, sentVars, userVars>>

\* Bound: one message too many is enough to see.
AcceptsBounded == accepts[job.key] <= rows[job.key] + consents[job.key]

\* SendRawReader, by outcome: accepted; rejected or never transmitted; or the
\* connection lost after the final dot, with the message accepted or not.
SendRawReader ==
    /\ pc = "send"
    /\ smtp /= "deleted" /\ job.key \in spool
    /\ LET taken == accepts' = [accepts EXCEPT ![job.key] = @ + 1]
           notTaken == UNCHANGED accepts
           NotAccepted == \E temporary \in BOOLEAN : result' = FailureState(temporary, FALSE)
       IN \/ taken /\ GoTo("accepted") /\ UNCHANGED result
          \/ notTaken /\ GoTo("record") /\ NotAccepted
          \/ (taken \/ notTaken) /\ GoTo("record") /\ result' = FailureState(FALSE, TRUE)
          \* io.Copy fails on the reader; w.Close() still ends the DATA.
          \/ /\ "spoolread" \in Env
             /\ AcceptsBounded /\ taken /\ GoTo("record") /\ NotAccepted
    /\ UNCHANGED <<rowVars, localVars, apiVars, uidVars, procVars, sentVars, userVars>>

MarkOutboxSMTPAccepted ==
    /\ pc = "accepted"
    /\ \/ /\ UpdateClaimed
          /\ delivery' = [delivery EXCEPT ![job.key] = "accepted"]
          /\ filing' = [filing EXCEPT ![job.key] = "pending"]
          /\ due' = due \cup {job.key}
          /\ ReleaseLease(job.key)
          /\ DropJob
          /\ UNCHANGED <<countVars, boundary, attention>>
       \/ UpdateRefused /\ GoTo("record") /\ result' = "delivery_unknown" /\ UNCHANGED uidVars
    /\ UNCHANGED <<localVars, apiVars, accepts, sentVars, userVars>>

\* RetryOutboxDelivery and FailOutboxDelivery.
RecordDeliveryFailure ==
    /\ pc = "record"
    /\ DropJob
    /\ \/ /\ UpdateClaimed
          /\ delivery' = [delivery EXCEPT ![job.key] = result]
          /\ IF result = "retry_wait"
             THEN due' = due \ {job.key} /\ UNCHANGED attention
             ELSE attention' = attention \cup {job.key} /\ UNCHANGED due
          /\ ReleaseLease(job.key)
          /\ UNCHANGED <<filing, countVars, boundary>>
       \/ UpdateRefused
    /\ UNCHANGED <<localVars, apiVars, accepts, sentVars, userVars>>

-----------------------------------------------------------------------------
(* The worker: filing the Sent copy *)

\* Copies in Sent that carry the Message-ID of key j's current row.
Candidates(j) == {c \in sent : c.key = j /\ c.row = rows[j]}
Matching(j)   == {c \in Candidates(j) : c.exact}

\* The worker leaves its job to RetryOutboxFiling, with this state.
GiveUpFiling(state) ==
    /\ result' = state
    /\ GoTo("recordFiling")
    /\ UNCHANGED <<rowVars, procVars, uidVars>>

\* The worker has found its copy on the server.
ConfirmUid(u) ==
    /\ uid' = u /\ validity' = uidValidity
    /\ GoTo("reset")
    /\ UNCHANGED <<rowVars, procVars, result>>

\* The account, the folder or the spool file cannot be read (needs attention),
\* or the spool is there and IMAP is busy or fails (retry).
FilingNotPossible ==
    /\ pc = "file"
    /\ \/ GiveUpFiling("needs_attention")
       \/ job.key \in spool /\ GiveUpFiling("retry_wait")
    /\ UNCHANGED <<localVars, apiVars, accepts, sentVars, userVars>>

\* SetOutboxAppendBoundary or MarkOutboxFilingAppending, before the APPEND;
\* refused, the worker drops the job.
ThenAppend(b) ==
    \/ /\ UpdateClaimed
       /\ filing' = [filing EXCEPT ![job.key] = "appending"]
       /\ boundary' = [boundary EXCEPT ![job.key] = b]
       /\ GoTo("append")
       /\ UNCHANGED <<delivery, countVars, due, leaseVars, attention, uidVars, result>>
    \/ UpdateRefused /\ DropJob

\* Mutant: the boundary UID itself, the first the APPEND could get, is skipped.
AboveBoundary(C) == {c \in C : c.uid > job.boundary.next}

\* The copies that arrived since the boundary was taken.
AfterBoundary(C) == {c \in C : c.uid >= job.boundary.next}

\* reconcileOutboxSentAppend: an earlier APPEND may have reached the server.
\* Only one exact match above the stored boundary, or none at all, is clear.
ReconcileOutboxSentAppend ==
    /\ pc = "file"
    /\ job.filing = "reconciling" \/ BoundarySet(job.boundary)
    /\ job.key \in spool
    /\ LET matches == AfterBoundary(Matching(job.key))
           candidates == AfterBoundary(Candidates(job.key))
           clear == /\ BoundarySet(job.boundary)
                    /\ uidValidity = job.boundary.validity
                    /\ \A c \in Matching(job.key) : c.uid >= job.boundary.next
       IN \/ clear /\ Cardinality(matches) = 1 /\ \E c \in matches : ConfirmUid(c.uid)
          \/ clear /\ candidates = {} /\ ThenAppend(job.boundary)
          \/ /\ \/ ~clear
                \/ Cardinality(matches) > 1
                \/ matches = {} /\ candidates /= {}
             /\ GiveUpFiling("retry_wait")
    /\ UNCHANGED <<localVars, apiVars, accepts, sentVars, userVars>>

\* The first filing attempt: adopt the one copy already there, or store the
\* append boundary before anything is appended.
SnapshotSentCopies ==
    /\ pc = "file"
    /\ job.filing /= "reconciling" /\ ~BoundarySet(job.boundary)
    /\ job.key \in spool
    /\ LET candidates == Candidates(job.key)
       IN \/ Cardinality(candidates) = 1 /\ \E c \in Matching(job.key) : ConfirmUid(c.uid)
          \/ /\ candidates /= {}
             /\ Cardinality(candidates) /= 1 \/ Matching(job.key) = {}
             /\ GiveUpFiling("needs_attention")
          \/ candidates = {} /\ ThenAppend([validity |-> uidValidity, next |-> uidNext])
    /\ UNCHANGED <<localVars, apiVars, accepts, sentVars, userVars>>

AddCopy(j, exact, ours) ==
    /\ uidNext < MaxUid
    /\ sent' = sent \cup {[uid |-> uidNext, key |-> j, row |-> rows[j],
                           exact |-> exact, ours |-> ours]}
    /\ uidNext' = uidNext + 1
    /\ UNCHANGED uidValidity

\* AppendMessage: refused; applied and confirmed; or applied, or lost, with the
\* worker unable to tell.
AppendMessage ==
    /\ pc = "append"
    /\ \/ UNCHANGED sentVars /\ GiveUpFiling("retry_wait")
       \/ UNCHANGED sentVars /\ GiveUpFiling("reconciling")
       \/ \E exact \in {TRUE} \cup {b \in BOOLEAN : "rewrite" \in Env} :
             /\ AddCopy(job.key, exact, TRUE)
             /\ ConfirmUid(uidNext) \/ GiveUpFiling("reconciling")
    /\ UNCHANGED <<localVars, apiVars, accepts, userVars>>

\* ResetMailboxForRemoteGeneration: rows that are not proven to belong to
\* generation v are deleted, optimistic ones kept.
ResetMailbox(v) ==
    LET promoted == {j \in Jobs : local[j].state = "promoted"}
        stale == generation /= v \/ \E j \in promoted : local[j].validity /= v
    IN /\ generation' = v
       /\ mirror' = IF stale THEN {} ELSE mirror
       /\ local' = Cleared(local, {j \in promoted : stale}, NoMessage)
       /\ spool' = spool \ {j \in promoted : stale}

\* finishOutboxSentFiling, first half.
ResetMailboxGenerationIfNeeded ==
    /\ pc = "reset"
    /\ \/ /\ ResetMailbox(validity)
          /\ GoTo("finish") /\ UNCHANGED <<result, procVars>>
       \/ /\ StoreFails /\ UNCHANGED localVars
          /\ GoTo("recordFiling") /\ result' = "reconciling"
    /\ UNCHANGED <<rowVars, apiVars, uidVars, accepts, sentVars, userVars>>

\* PromoteOutboxMessage: the optimistic row takes the server's UID and a synced
\* row that already has it is deleted.  No lease is checked.
PromoteOutboxMessage ==
    /\ pc = "finish"
    /\ LET m == local[job.key]
       IN \/ /\ m.state = "optimistic"
             /\ local' = [local EXCEPT ![job.key] = Promoted(uid, validity)]
             /\ mirror' = mirror \ {uid}
             /\ GoTo("complete") /\ UNCHANGED <<result, procVars>>
          \/ /\ m = Promoted(uid, validity)
             /\ GoTo("complete") /\ UNCHANGED <<local, mirror, result, procVars>>
          \/ /\ \/ m.state /= "optimistic" /\ m /= Promoted(uid, validity) /\ UNCHANGED procVars
                \/ StoreFails
             /\ GoTo("recordFiling") /\ result' = "reconciling"
             /\ UNCHANGED <<local, mirror>>
    /\ UNCHANGED <<rowVars, generation, spool, apiVars, uidVars, accepts, sentVars, userVars>>

CompleteOutboxFiling ==
    /\ pc = "complete"
    /\ \/ /\ UpdateClaimed
          /\ filing' = [filing EXCEPT ![job.key] = "complete"]
          /\ due' = due \cup {job.key}
          /\ ReleaseLease(job.key)
          /\ DropJob
          /\ UNCHANGED <<delivery, countVars, boundary, attention>>
       \/ UpdateRefused /\ GoTo("recordFiling") /\ result' = "reconciling" /\ UNCHANGED uidVars
    /\ UNCHANGED <<localVars, apiVars, accepts, sentVars, userVars>>

\* retryOutboxFiling: the attempt that would be the last needs attention.
FilingRetryState == IF job.filingAttempts + 1 >= MaxAttempts THEN "needs_attention" ELSE result

RetryOutboxFiling ==
    /\ pc = "recordFiling"
    /\ DropJob
    /\ \/ /\ UpdateClaimed
          /\ filing' = [filing EXCEPT ![job.key] = FilingRetryState]
          /\ filingAttempts' = [filingAttempts EXCEPT ![job.key] = @ + 1]
          /\ due' = due \ {job.key}
          /\ IF FilingRetryState = "needs_attention"
             THEN attention' = attention \cup {job.key} ELSE UNCHANGED attention
          /\ ReleaseLease(job.key)
          /\ UNCHANGED <<delivery, attempts, boundary>>
       \/ UpdateRefused
    /\ UNCHANGED <<localVars, apiVars, accepts, sentVars, userVars>>

-----------------------------------------------------------------------------
(* The process, the servers, the mailbox sync and blob retention *)

\* The process dies with its requests and its worker; the next one starts.
Crash ==
    /\ epoch < MaxEpoch
    /\ epoch' = epoch + 1
    /\ pc' = "boot" /\ job' = NoJob /\ result' = "none" /\ uid' = 0 /\ validity' = 0
    /\ composing' = [j \in Jobs |-> 0]
    /\ smtp' = IF smtp = "purged" THEN "present" ELSE smtp
    /\ UNCHANGED <<rowVars, localVars, faults, accepts, sentVars, userVars>>

ProviderFilesCopy(j) ==
    /\ "provider" \in Env
    /\ accepts[j] > 0 /\ \A c \in Candidates(j) : c.ours
    /\ \E exact \in BOOLEAN : AddCopy(j, exact, FALSE)
    /\ UNCHANGED <<rowVars, localVars, apiVars, workerVars, procVars, accepts, userVars>>

ExpungeCopy(c) ==
    /\ "expunge" \in Env
    /\ sent' = sent \ {c}
    /\ UNCHANGED <<uidNext, uidValidity>>
    /\ UNCHANGED <<rowVars, localVars, apiVars, workerVars, procVars, accepts, userVars>>

NewGeneration ==
    /\ "generation" \in Env
    /\ uidValidity = 1
    /\ uidValidity' = 2
    /\ UNCHANGED <<sent, uidNext>>
    /\ UNCHANGED <<rowVars, localVars, apiVars, workerVars, procVars, accepts, userVars>>

\* A sync of the Sent mailbox that finds a new generation starts over.
SyncNewGeneration ==
    /\ ResetMailbox(uidValidity)
    /\ UNCHANGED <<rowVars, apiVars, workerVars, procVars, accepts, sentVars, userVars>>

\* One sync of the Sent mailbox: every server message has one row; rows of
\* messages that are gone are deleted with their blobs, optimistic rows kept.
SyncSent ==
    /\ generation = uidValidity
    /\ LET server == {c.uid : c \in sent}
           promoted == {j \in Jobs : local[j].state = "promoted"}
           gone == {j \in promoted : local[j].uid \notin server}
       IN /\ mirror' = server \ {local[j].uid : j \in promoted}
          /\ local' = Cleared(local, gone, NoMessage)
          /\ spool' = spool \ gone
    /\ UNCHANGED generation
    /\ UNCHANGED <<rowVars, apiVars, workerVars, procVars, accepts, sentVars, userVars>>

\* pruneMessageBlobs takes every message old enough, optimistic ones too.
PruneMessageBlob(j) ==
    /\ "retention" \in Env
    /\ local[j].state /= "none" /\ j \in spool
    /\ spool' = spool \ {j}
    /\ UNCHANGED <<rowVars, local, mirror, generation, apiVars, workerVars, procVars, accepts, sentVars, userVars>>

-----------------------------------------------------------------------------

Handlers ==
    \/ \E j \in Jobs : \/ ComposeLookup(j) \/ EnqueueOutboxMessage(j)
                       \/ AcknowledgeOutboxJob(j) \/ RequeueOutboxJob(j)
                       \/ RequeueOutboxFiling(j) \/ CancelOutboxJob(j)
    \/ PurgeOutboxJobsForIMAPAccount
    \/ PurgeOutboxJobsForSMTPAccount \/ DeleteSMTPAccountForUser

Clock == \E j \in Jobs : BecomesDue(j) \/ LeaseExpires(j)

WorkerLoop ==
    \/ RecoverInterruptedOutboxJobs \/ RecoverExpiredOutboxJobs
    \/ \E j \in Jobs : PurgeCompletedOutboxHistory(j) \/ ClaimNextOutboxJob(j)
    \/ MarkOutboxSMTPInFlight \/ DeliveryNotPossible \/ SendRawReader
    \/ MarkOutboxSMTPAccepted \/ RecordDeliveryFailure
    \/ FilingNotPossible \/ ReconcileOutboxSentAppend \/ SnapshotSentCopies
    \/ AppendMessage \/ ResetMailboxGenerationIfNeeded \/ PromoteOutboxMessage
    \/ CompleteOutboxFiling \/ RetryOutboxFiling

Environment ==
    \/ Crash
    \/ \E j \in Jobs : ProviderFilesCopy(j) \/ PruneMessageBlob(j)
    \/ \E c \in sent : ExpungeCopy(c)
    \/ NewGeneration
    \/ SyncNewGeneration \/ SyncSent

Next == Handlers \/ Clock \/ WorkerLoop \/ RenewOutboxLease \/ Environment

Spec == Init /\ [][Next]_vars

-----------------------------------------------------------------------------
(* Properties *)

\* Type invariant: every column, the worker's copy and the servers' state stay
\* inside their declared values (store/outbox.go's states and counters).
TypeOK ==
    /\ delivery \in [Jobs -> DeliveryStates] /\ filing \in [Jobs -> FilingStates]
    /\ attempts \in [Jobs -> Nat] /\ filingAttempts \in [Jobs -> Nat]
    /\ lease \in [Jobs -> Nat] /\ boundary \in [Jobs -> Boundary]
    /\ due \subseteq Jobs /\ expired \subseteq Jobs /\ attention \subseteq Jobs
    /\ local \in [Jobs -> [state: {"none", "optimistic", "promoted"}, uid: Nat, validity: Nat]]
    /\ mirror \subseteq Nat /\ generation \in Nat
    /\ spool \subseteq Jobs
    /\ smtp \in {"present", "purged", "deleted"}
    /\ composing \in [Jobs -> Nat]
    /\ pc \in PCs /\ job \in Job /\ uid \in Nat /\ validity \in Nat
    /\ Working => job.key \in Jobs
    /\ result \in DeliveryStates \cup FilingStates
    /\ pc = "record" => result \in DeliveryStates
    /\ pc = "recordFiling" => result \in FilingStates
    /\ epoch \in Nat \ {0} /\ faults \in Nat
    /\ accepts \in [Jobs -> Nat] /\ rows \in [Jobs -> Nat] /\ consents \in [Jobs -> Nat]
    /\ sent \subseteq Copy /\ uidNext \in Nat /\ uidValidity \in Nat

\* States in which the row may still lead to a transmission, now or after a
\* retry that asks the user nothing.
Undelivered(j) ==
    \/ delivery[j] \in {"queued", "claimed", "retry_wait", "failed"}
    \/ delivery[j] = "smtp_in_flight" /\ pc = "send" /\ job.key = j

\* No duplicate mail without consent: the SMTP server has accepted the message
\* of a key at most once per queued row and per "retry anyway" the user
\* confirmed, and while the row can still be sent one of these is unused.
\* Covers crashes before and after the final dot, lost acknowledgements, failed
\* commits, retries, lease expiry and concurrent handlers.
NoDuplicateDelivery ==
    \A j \in Jobs :
        accepts[j] + (IF Undelivered(j) THEN 1 ELSE 0) <= rows[j] + consents[j]

\* Where a key stands in the abstract specification of delivery.
RowPhase(state) ==
    CASE state \in {"queued", "claimed", "retry_wait"} -> "waiting"
      [] state = "smtp_in_flight" -> "closed"
      [] state = "delivery_unknown" -> "unknown"
      [] OTHER -> state

\* A row in flight is open while the worker can still transmit it, refused while
\* the worker carries the news that nothing was taken, and closed otherwise.
Phase(j) ==
    IF delivery[j] /= "smtp_in_flight" \/ job.key /= j THEN RowPhase(delivery[j])
    ELSE IF pc = "send" THEN "open"
    ELSE IF pc = "record" /\ result /= "delivery_unknown" THEN "refused"
    ELSE "closed"

Abstract == INSTANCE Delivery
    WITH Messages <- Jobs,
         phase <- [j \in Jobs |-> Phase(j)],
         copies <- accepts,
         permits <- [j \in Jobs |-> rows[j] + consents[j]]

\* The outbox implements Delivery: rows, leases, failed writes, crashes and
\* recovery never show a message in a phase the user was not promised, so an
\* interrupted DATA is never followed by a transmission nobody asked for.
ImplementsDelivery == Abstract!Spec

\* The worker's exclusive hold: from claim to its last write the row exists,
\* carries this process's lease, and still has the progress and counters the
\* worker read when it claimed it (updateClaimedOutbox checks only lease_owner;
\* cancel, purge, requeue and recovery run beside it).
LeaseStable ==
    Working =>
        /\ lease[job.key] = epoch
        /\ filingAttempts[job.key] = job.filingAttempts
        /\ pc = "deliver" => delivery[job.key] = "claimed"
        /\ pc \in {"send", "accepted", "record"} => delivery[job.key] = "smtp_in_flight"
        /\ pc \in {"file", "append", "reset", "finish", "complete", "recordFiling"} =>
              /\ delivery[job.key] = "accepted"
              /\ filing[job.key] \in {job.filing, "appending"}

\* Rolltop never appends a second copy of one row's message to Sent while its
\* first is there: an APPEND of unknown outcome is reconciled against the stored
\* boundary first (SetOutboxAppendBoundary, reconcileOutboxSentAppend).
OneAppendedCopy ==
    \A c, d \in sent : c.ours /\ d.ours /\ c.key = d.key /\ c.row = d.row => c = d

\* The optimistic Sent row and the outbox row share their life: the message has
\* no server UID exactly while its queue row is unfiled.  A stranded one would
\* never be reconciled, as sync skips rows with an outbox_job_id.
OptimisticOwned ==
    \A j \in Jobs :
        /\ local[j].state = "optimistic" => Present(j) /\ filing[j] /= "complete"
        /\ Present(j) /\ delivery[j] /= "accepted" => local[j].state = "optimistic"

\* "Immutable queued-send .eml files ... until SMTP delivery and Sent filing
\* finish" (README.md, What It Stores).  Filing is over for the file once the
\* message is promoted: from then on it is the blob of an ordinary Sent message,
\* which a reset of the Sent generation may drop before the row is completed.
SpoolRetained ==
    \A j \in Jobs :
        Present(j) /\ filing[j] /= "complete" => j \in spool \/ local[j].state /= "optimistic"

\* The file and the local message of a queued row live as long as the row needs them.
RetainedUntilFiled == SpoolRetained /\ OptimisticOwned

\* Work the worker still owes.
Owed(j) == \/ delivery[j] \in {"queued", "claimed", "smtp_in_flight", "retry_wait"}
           \/ delivery[j] = "accepted" /\ filing[j] \notin {"complete", "needs_attention"}

\* Every queued message is eventually filed, or failed, unknown or waiting for
\* the user, or gone: no lease, failed write or lost process strands a row.
Settles == \A j \in Jobs : Owed(j) ~> ~Owed(j)

\* The worker goroutine keeps running and the clock keeps advancing.
Fairness ==
    /\ WF_vars(WorkerLoop)
    /\ \A j \in Jobs : WF_vars(BecomesDue(j)) /\ WF_vars(LeaseExpires(j))

FairSpec == Spec /\ Fairness
=============================================================================
