------------------------------ MODULE Transfers ------------------------------
(***************************************************************************)
(* Moving and copying one mirrored message on the IMAP server              *)
(* (syncer/move.go, copy.go, transfer_dispatch.go), through the journal    *)
(* message_transfers (store/message_arrival_fingerprints.go).  A row is    *)
(* staged before the remote command; the one caller that claims it sends   *)
(* MOVE or APPEND; when the answer is lost, a later call asks the server   *)
(* what happened and completes the transfer or reopens the row.            *)
(*                                                                         *)
(* Callers are HTTP requests and plugin calls of one process at a time     *)
(* (the instance lock); `epoch` stands for its random owner token.  A      *)
(* command whose connection has gone is either executed before anybody     *)
(* asks the server again or never.                                         *)
(***************************************************************************)
EXTENDS Integers, Sequences, FiniteSets, FiniteSetsExt

CONSTANTS
    Callers,        \* concurrent calls of MoveMessage and CopyMessage
    Source,         \* the mailbox of the message
    Inbox, Archive, \* destinations with and without new-mail notifications
    Env,            \* what happens: "fault", "cancel", "crash", "generation", "client", "rewrite"
    MaxRows, MaxAttempts, MaxEpoch, MaxFaults, MaxUid   \* bounds of the instance

ASSUME MailboxesAssumption == Source /= Inbox /\ Source /= Archive /\ Inbox /= Archive
ASSUME TransfersAssumption ==
    /\ MaxRows \in Nat \ {0} /\ MaxEpoch \in Nat \ {0}
    /\ MaxAttempts \in Nat /\ MaxFaults \in Nat /\ MaxUid \in Nat

Dests == {Inbox, Archive}
Kinds == {"move", "copy"}
None == [gen |-> 0, uid |-> 0]      \* no UID under any UIDVALIDITY

VARIABLES
    journal,    \* message_transfers, by id; a pruned row is "gone"
    local,      \* the source's row is in the local mirror
    source,     \* the source's UID is on the server, under UIDVALIDITY 1
    gen,        \* UIDVALIDITY of each mailbox
    copies,     \* copies of the message on the server; row 0 for other clients'
    uidNext,    \* UIDNEXT of each destination
    arrived,    \* UIDs of the Inbox whose arrival has been classified
    expunged,   \* the tombstone of the source: "no", "kept" or "consumed"
    epoch,      \* the running process
    call,       \* the call each caller is in, see Calls
    faults      \* what the environment has done so far, see Disturb

serverVars == <<source, gen, copies, uidNext>>
mirrorVars == <<local, arrived, expunged>>
envVars == <<epoch, faults>>
vars == <<journal, serverVars, mirrorVars, call, envVars>>

Row(k, d) ==
    [kind |-> k, dest |-> d, state |-> "pending", dispatched |-> FALSE, owner |-> 0,
     attempt |-> 0, finished |-> FALSE, boundary |-> None, uid |-> None]

\* What a caller keeps of the row it read: the attempt, the boundary, the UID.
Snapshot(r) == [owner |-> r.owner, attempt |-> r.attempt, boundary |-> r.boundary, uid |-> r.uid]

\* The locals of MoveMessage and CopyMessage: the next step, the requested kind and
\* destination, the row, what was read of it, the claimed attempt (0: none), the UID
\* or boundary the server told, whether that UID is certain (COPYUID, APPENDUID or
\* an exact match), and whether the context has ended.
NoCall ==
    [pc |-> "idle", kind |-> "move", dest |-> Archive, id |-> 1, seen |-> Snapshot(Row("move", Archive)),
     at |-> 0, uid |-> None, known |-> FALSE, canceled |-> FALSE]

Init ==
    /\ journal = <<>>
    /\ local = TRUE /\ source = TRUE /\ arrived = {} /\ expunged = "no"
    /\ gen = [m \in Dests \cup {Source} |-> 1]
    /\ copies = {} /\ uidNext = [d \in Dests |-> 1]
    /\ epoch = 1 /\ faults = 0
    /\ call = [c \in Callers |-> NoCall]

\* Caller c goes on with the locals k; they are gone when the call returns.
GoWith(c, where, k) ==
    call' = [call EXCEPT ![c] = IF where = "idle" THEN NoCall ELSE [k EXCEPT !.pc = where]]
Go(c, where) == GoWith(c, where, call[c])
SetRow(i, r) == journal' = [journal EXCEPT ![i] = r]
RowOf(c) == journal[call[c].id]
Working(c, where) == call[c].pc = where /\ ~call[c].canceled

\* The environment interferes; a run bounds how often.
Disturb(kind) == kind \in Env /\ faults < MaxFaults /\ faults' = faults + 1

-----------------------------------------------------------------------------
(* Staging *)

\* The row a repeated request joins: any move of this UID, or a copy to the same
\* mailbox, unless it failed or its receipt has been pruned.
Reusable(k, d) ==
    {i \in DOMAIN journal :
        /\ journal[i].kind = k
        /\ k = "move" \/ journal[i].dest = d
        /\ journal[i].state \in {"pending", "succeeded", "consumed"}}

\* MoveMessage or CopyMessage up to the commit of StageMessageTransfer.
StageMessageTransfer(c, k, d) ==
    /\ call[c].pc = "idle" /\ local
    /\ LET rows == Reusable(k, d)
           i == IF rows = {} THEN Len(journal) + 1 ELSE Max(rows)
       IN /\ i <= MaxRows
          /\ journal' = IF rows = {} THEN Append(journal, Row(k, d)) ELSE journal
          /\ GoWith(c, "read", [NoCall EXCEPT !.kind = k, !.dest = d, !.id = i])
    /\ UNCHANGED <<serverVars, mirrorVars, envVars>>

\* messageTransferCanReconcile: the attempt is over, or its process is.
CanReconcile(r) == r.finished \/ r.owner /= epoch

\* What follows once the row is known to be neither succeeded nor consumed.
Undecided(r) ==
    IF ~r.dispatched THEN "claim" ELSE IF CanReconcile(r) THEN "check" ELSE "idle"

\* The branches of MoveMessage and CopyMessage on the staged row.
AfterRead(r, k, d) ==
    CASE k = "move" /\ r.dest /= d -> "idle"
      [] k = "move" /\ r.state \in {"succeeded", "consumed"} -> "complete"
      [] k = "copy" /\ r.state = "consumed" -> "idle"
      [] k = "copy" /\ r.state = "succeeded" -> IF d = Inbox THEN "idle" ELSE "resolve"
      [] k = "copy" /\ r.boundary = None -> IF r.dispatched THEN "idle" ELSE "boundary"
      [] OTHER -> Undecided(r)

\* getMessageTransfer: the row is read again after the commit.
ReadTransfer(c) ==
    /\ Working(c, "read")
    /\ GoWith(c, IF RowOf(c).state = "gone" THEN "idle"
                 ELSE AfterRead(RowOf(c), call[c].kind, call[c].dest),
              [call[c] EXCEPT !.seen = Snapshot(RowOf(c))])
    /\ UNCHANGED <<journal, serverVars, mirrorVars, envVars>>

-----------------------------------------------------------------------------
(* The boundary of a copy *)

\* UIDVALIDITY and UIDNEXT of the destination: the UID of the next message.
NextUid(c) == [gen |-> gen[call[c].dest], uid |-> uidNext[call[c].dest]]

\* SnapshotMailboxAppendBoundary
SnapshotMailboxAppendBoundary(c) ==
    /\ Working(c, "boundary")
    /\ GoWith(c, "setBoundary", [call[c] EXCEPT !.uid = NextUid(c)])
    /\ UNCHANGED <<journal, serverVars, mirrorVars, envVars>>

\* SetMessageTransferDestinationSnapshot stores the first boundary only.
WithBoundary(r, b) ==
    IF r.state = "pending" /\ ~r.dispatched /\ r.boundary = None
    THEN [r EXCEPT !.boundary = b] ELSE r

SetMessageTransferDestinationSnapshot(c) ==
    /\ Working(c, "setBoundary")
    /\ LET r == WithBoundary(RowOf(c), call[c].uid)
       IN /\ SetRow(call[c].id, r)
          /\ GoWith(c, IF r.state = "gone" \/ r.boundary = None THEN "idle" ELSE Undecided(r),
                    [call[c] EXCEPT !.seen = Snapshot(r), !.uid = None])
    /\ UNCHANGED <<serverVars, mirrorVars, envVars>>

-----------------------------------------------------------------------------
(* Reconciling an attempt of unknown outcome *)

\* UIDExistsWithValidity on the source mailbox.
CheckMove(c) ==
    /\ Working(c, "check") /\ call[c].kind = "move"
    /\ Go(c, IF gen[Source] /= 1 THEN "idle" ELSE IF source THEN "reopen" ELSE "succeed")
    /\ UNCHANGED <<journal, serverVars, mirrorVars, envVars>>

\* SnapshotExactMessageMatches, split at the stored boundary.
Candidates(c) == {x \in copies : x.dest = call[c].dest}
Exact(c) == {x \in Candidates(c) : x.exact}
PostBoundary(c, S) == {x \in S : x.uid >= call[c].seen.boundary.uid}
SameGeneration(c) == gen[call[c].dest] = call[c].seen.boundary.gen
Single(c) ==
    /\ SameGeneration(c)
    /\ Exact(c) = PostBoundary(c, Exact(c)) /\ Cardinality(Exact(c)) = 1

\* Mutant: a candidate that the server has rewritten does not count.
NoExactMatch(c) == SameGeneration(c) /\ Exact(c) = {}

\* The proof that no APPEND of this row has taken effect.
ProvedAbsent(c) ==
    /\ SameGeneration(c)
    /\ Exact(c) = {} /\ PostBoundary(c, Candidates(c)) = {}

Found(c, where) ==
    LET x == CHOOSE x \in Exact(c) : TRUE
    IN GoWith(c, where, [call[c] EXCEPT !.uid = [gen |-> gen[x.dest], uid |-> x.uid], !.known = TRUE])

CheckCopy(c) ==
    /\ Working(c, "check") /\ call[c].kind = "copy"
    /\ IF Single(c) THEN Found(c, "succeed")
       ELSE Go(c, IF ProvedAbsent(c) THEN "reopen" ELSE "idle")
    /\ UNCHANGED <<journal, serverVars, mirrorVars, envVars>>

\* resolveSucceededCopyDestination: the copy is there, its UID may be unknown.
ResolveSucceededCopyDestination(c) ==
    /\ Working(c, "resolve")
    /\ LET u == call[c].seen.uid
       IN \/ u /= None /\ GoWith(c, "store", [call[c] EXCEPT !.uid = u, !.known = TRUE])
          \/ u = None /\ Single(c) /\ Found(c, "succeed")
          \/ u = None /\ ~Single(c) /\ Go(c, "idle")
    /\ UNCHANGED <<journal, serverVars, mirrorVars, envVars>>

\* ReopenMessageTransferDispatchAfterProof: the attempt that was checked is
\* still the last one.
StillTheAttempt(r, s) ==
    /\ r.state = "pending" /\ r.dispatched /\ CanReconcile(r)
    /\ r.owner = s.owner /\ r.attempt = s.attempt

ReopenMessageTransferDispatchAfterProof(c) ==
    /\ Working(c, "reopen")
    /\ \/ /\ StillTheAttempt(RowOf(c), call[c].seen)
          /\ SetRow(call[c].id, [RowOf(c) EXCEPT !.dispatched = FALSE, !.owner = 0, !.finished = FALSE])
          /\ Go(c, "claim")
       \/ ~StillTheAttempt(RowOf(c), call[c].seen) /\ Go(c, "idle") /\ UNCHANGED journal
    /\ UNCHANGED <<serverVars, mirrorVars, envVars>>

-----------------------------------------------------------------------------
(* The remote command *)

Claimable(r) == r.state = "pending" /\ ~r.dispatched

\* ClaimMessageTransferDispatchForOwner
ClaimMessageTransferDispatch(c) ==
    /\ Working(c, "claim")
    /\ LET r == RowOf(c)
       IN \/ /\ Claimable(r) /\ r.attempt < MaxAttempts
             /\ SetRow(call[c].id, [r EXCEPT !.dispatched = TRUE, !.owner = epoch,
                                        !.attempt = @ + 1, !.finished = FALSE])
             /\ GoWith(c, "remote", [call[c] EXCEPT !.at = r.attempt + 1])
          \/ ~Claimable(r) /\ Go(c, "idle") /\ UNCHANGED journal
    /\ UNCHANGED <<serverVars, mirrorVars, envVars>>

\* The server stores the message in the destination of caller c.
Lands(c, exact) ==
    LET d == call[c].dest
    IN /\ uidNext[d] <= MaxUid
       /\ copies' = copies \cup
            {[dest |-> d, uid |-> uidNext[d], exact |-> exact, row |-> call[c].id]}
       /\ uidNext' = [uidNext EXCEPT ![d] = @ + 1]

Unapplied == UNCHANGED <<copies, uidNext>>

\* A tagged answer with or without the UID of the new copy.
Answered(c, where, u, sure) ==
    ~call[c].canceled /\ GoWith(c, where, [call[c] EXCEPT !.uid = u, !.known = sure])

LostMove(c) == "finish"

\* moveMessageWithReceipt: SELECT and UID SEARCH refuse a stale or empty source;
\* after MOVE was sent only a tagged answer tells the outcome.  A UID that another
\* client expunges after the SEARCH is moved by nobody, and answered OK.
MoveMessageWithReceipt(c) ==
    /\ call[c].pc = "remote" /\ call[c].kind = "move"
    /\ \/ Go(c, "fail") /\ Unapplied /\ UNCHANGED <<source, faults>>
       \/ /\ source /\ source' = FALSE /\ Lands(c, TRUE) /\ UNCHANGED faults
          /\ \/ Answered(c, "succeed", NextUid(c), TRUE)
             \/ Answered(c, "succeed", None, FALSE)
             \/ Go(c, LostMove(c))
       \/ source /\ Go(c, LostMove(c)) /\ Unapplied /\ UNCHANGED <<source, faults>>
       \/ /\ Disturb("client") /\ source /\ source' = FALSE
          /\ Unapplied /\ Answered(c, "succeed", None, FALSE)
    /\ UNCHANGED <<journal, gen, mirrorVars, epoch>>

\* AppendMessage: APPENDUID is trusted; without it the copy must be found by its
\* exact bytes, or the append is known to be applied and its UID is not.
AppendMessage(c) ==
    /\ call[c].pc = "remote" /\ call[c].kind = "copy"
    /\ \/ Go(c, "fail") /\ Unapplied
       \/ Go(c, "finish") /\ Unapplied
       \/ \E exact \in IF "rewrite" \in Env THEN BOOLEAN ELSE {TRUE} :
             /\ Lands(c, exact)
             /\ \/ Answered(c, "succeed", NextUid(c), TRUE)
                \/ exact /\ Answered(c, "succeed", NextUid(c), FALSE)
                \/ Go(c, "applied")
                \/ Go(c, "finish")
    /\ UNCHANGED <<journal, source, gen, mirrorVars, envVars>>

-----------------------------------------------------------------------------
(* Recording the outcome *)

Succeeded(r, u, sure) ==
    [r EXCEPT !.state = IF @ = "consumed" THEN @ ELSE "succeeded",
              !.uid = IF sure THEN u ELSE @]

Open(r) == r.state \in {"pending", "succeeded", "consumed"}

\* Where a caller goes whose MarkMessageTransferSucceeded failed: the attempt is
\* finished with a context that cannot be canceled.
AfterMarkError(c) == IF call[c].pc = "succeed" /\ call[c].at > 0 THEN "settle" ELSE "idle"

\* MarkMessageTransferSucceeded
MarkMessageTransferSucceeded(c) ==
    /\ Working(c, "succeed") \/ Working(c, "applied")
    /\ LET sure == call[c].known /\ call[c].pc = "succeed"
       IN \/ /\ Open(RowOf(c))
             /\ SetRow(call[c].id, Succeeded(RowOf(c), call[c].uid, sure))
             /\ Go(c, IF call[c].pc = "applied" THEN "idle"
                      ELSE IF call[c].kind = "move" THEN "complete" ELSE "store")
          \/ ~Open(RowOf(c)) /\ Go(c, AfterMarkError(c)) /\ UNCHANGED journal
    /\ UNCHANGED <<serverVars, mirrorVars, envVars>>

\* FinishMessageTransferDispatch, in the caller's context or, after a failed
\* MarkMessageTransferSucceeded, in one that outlives it.
FinishMessageTransferDispatch(c) ==
    /\ Working(c, "finish") \/ call[c].pc = "settle"
    /\ LET r == RowOf(c)
           mine == r.state = "pending" /\ r.dispatched /\ r.owner = epoch /\ r.attempt = call[c].at
       IN SetRow(call[c].id, IF mine THEN [r EXCEPT !.finished = TRUE] ELSE r)
    /\ Go(c, "idle")
    /\ UNCHANGED <<serverVars, mirrorVars, envVars>>

Failed(r) == IF r.state \in {"pending", "failed"} THEN [r EXCEPT !.state = "failed"] ELSE r

\* MarkMessageTransferFailed checks the state and not the claim.
MarkMessageTransferFailed(c) ==
    /\ Working(c, "fail")
    /\ SetRow(call[c].id, Failed(RowOf(c)))
    /\ Go(c, "idle")
    /\ UNCHANGED <<serverVars, mirrorVars, envVars>>

-----------------------------------------------------------------------------
(* Inbox arrivals (store/inbox_arrivals.go), as far as they end transfers *)

\* matchMessageTransferTx: succeeded rows to the Inbox with this UID, else those
\* without a UID if the content of the arrival is alike.
Matches(u, alike) ==
    LET rows == {i \in DOMAIN journal : journal[i].dest = Inbox /\ journal[i].state = "succeeded"}
        exact == {i \in rows : journal[i].uid = u}
    IN IF exact /= {} THEN exact ELSE {i \in rows : alike /\ journal[i].uid = None}

\* consumePendingMoveForExpungeTx
PendingMoves ==
    {i \in DOMAIN journal : /\ journal[i].kind = "move" /\ journal[i].dest = Inbox
                            /\ journal[i].state = "pending" /\ journal[i].dispatched}

Consume(i) == SetRow(i, [journal[i] EXCEPT !.state = "consumed"])

\* classifyArrivalWithoutDelivery: a transfer, then a tombstone, explains the
\* arrival; otherwise it is held, and when it is due it is a delivery.
Classify(u, alike) ==
    /\ u \notin arrived
    /\ LET rows == Matches(u, alike)
           entombed == alike /\ expunged = "kept"
       IN \/ /\ rows /= {} /\ Consume(Min(rows)) /\ arrived' = arrived \cup {u}
             /\ expunged' = IF journal[Min(rows)].kind = "move" /\ expunged = "kept"
                            THEN "consumed" ELSE expunged
          \/ /\ rows = {} /\ entombed /\ expunged' = "consumed"
             /\ arrived' = arrived \cup {u}
             /\ IF PendingMoves = {} THEN UNCHANGED journal ELSE Consume(Min(PendingMoves))
          \/ /\ rows = {} /\ ~entombed
             /\ arrived' \in {arrived, arrived \cup {u}}
             /\ UNCHANGED <<journal, expunged>>

\* HoldOrClassifyInboxArrival and FinalizeDueInboxArrivals for a message that
\* synchronisation found in the Inbox.
ClassifyArrival ==
    /\ \E x \in copies, alike \in BOOLEAN :
         /\ x.dest = Inbox /\ (x.exact => alike)
         /\ Classify([gen |-> gen[Inbox], uid |-> x.uid], alike)
    /\ UNCHANGED <<serverVars, local, call, envVars>>

-----------------------------------------------------------------------------
(* Completing a transfer locally *)

\* fetchAndCompleteSucceededCopy finds the copy under the same UIDVALIDITY;
\* completeCopiedMessageLocally stores it.
StoreCopiedMessage(c) ==
    /\ Working(c, "store")
    /\ LET there == /\ gen[call[c].dest] = call[c].uid.gen
                    /\ \E x \in Candidates(c) : x.uid = call[c].uid.uid
       IN Go(c, IF call[c].at > 0 \/ there THEN "retire" ELSE "idle")
    /\ UNCHANGED <<journal, serverVars, mirrorVars, envVars>>

\* TerminalizeMessageTransferWithoutArrival, and the caller's next step.
Terminalize(c, where) ==
    \/ RowOf(c).state \in {"succeeded", "consumed"} /\ Consume(call[c].id) /\ Go(c, where)
    \/ RowOf(c).state \notin {"succeeded", "consumed"} /\ Go(c, "idle") /\ UNCHANGED journal

\* The end of completeCopiedMessageLocally.
RetireCopy(c) ==
    /\ Working(c, "retire")
    /\ \/ call[c].dest /= Inbox /\ Terminalize(c, "idle") /\ UNCHANGED <<arrived, expunged>>
       \/ call[c].dest = Inbox /\ Classify(call[c].uid, TRUE) /\ Go(c, "idle")
       \/ call[c].dest = Inbox /\ call[c].uid \in arrived /\ Go(c, "idle")
          /\ UNCHANGED <<journal, arrived, expunged>>
    /\ UNCHANGED <<serverVars, local, envVars>>

\* completeMovedMessageLocally: the receipt first, then the source's row.
CompleteMovedMessage(c) ==
    /\ Working(c, "complete")
    /\ \/ call[c].dest /= Inbox /\ Terminalize(c, "delete")
       \/ call[c].dest = Inbox /\ Go(c, "delete") /\ UNCHANGED journal
    /\ UNCHANGED <<serverVars, mirrorVars, envVars>>

\* cleanupMovedMessage: a row that is gone already is no error.
CleanupMovedMessage(c) ==
    /\ Working(c, "delete")
    /\ local' = FALSE
    /\ Go(c, "idle")
    /\ UNCHANGED <<journal, serverVars, arrived, expunged, envVars>>

-----------------------------------------------------------------------------
(* Calls that fail, and the end of a process *)

\* A database call or a read of the server fails, because the caller's context
\* has ended or by itself.  The outcome of "remote" is modelled there.
Abort(c) ==
    /\ call[c].pc \notin {"idle", "remote"}
    /\ \/ call[c].canceled /\ call[c].pc /= "settle" /\ UNCHANGED faults
       \/ Disturb("fault")
    /\ Go(c, AfterMarkError(c))
    /\ UNCHANGED <<journal, serverVars, mirrorVars, epoch>>

\* The HTTP client disconnects, or the runner is stopped.
Cancel(c) ==
    /\ Disturb("cancel") /\ call[c].pc /= "idle" /\ ~call[c].canceled
    /\ call' = [call EXCEPT ![c].canceled = TRUE]
    /\ UNCHANGED <<journal, serverVars, mirrorVars, epoch>>

Crash ==
    /\ Disturb("crash") /\ epoch < MaxEpoch
    /\ epoch' = epoch + 1
    /\ call' = [c \in Callers |-> NoCall]
    /\ UNCHANGED <<journal, serverVars, mirrorVars>>

-----------------------------------------------------------------------------
(* Synchronisation of the source mailbox *)

\* Rows that the disappearance of the source resolves, best evidence first.
Evidence ==
    LET move(st) == {i \in DOMAIN journal : journal[i].kind = "move" /\ journal[i].state = st}
        unknown == {i \in move("pending") : journal[i].dispatched}
    IN IF move("consumed") /= {} THEN move("consumed")
       ELSE IF move("succeeded") /= {} THEN move("succeeded") ELSE unknown

\* recordExpungedMessageFingerprintTx
RecordExpunged ==
    LET i == Max(Evidence)
        r == journal[i]
    IN IF Evidence = {}
       THEN /\ expunged' = IF expunged = "no" THEN "kept" ELSE expunged
            /\ UNCHANGED journal
       ELSE /\ SetRow(i, [r EXCEPT !.state = IF @ /= "pending" THEN @
                                             ELSE IF r.dest = Inbox THEN "succeeded" ELSE "consumed"])
            /\ UNCHANGED expunged

\* The UID is missing in the snapshot of an unchanged mailbox: the message is
\* removed, or only recorded by the probe of a due arrival.
SourceMissing(removed) ==
    /\ local /\ ~source /\ gen[Source] = 1
    /\ RecordExpunged
    /\ local' = ~removed
    /\ UNCHANGED <<serverVars, arrived, call, envVars>>

\* ResetMailboxGenerationIfNeeded drops the mirror of an older UIDVALIDITY.
SourceReset ==
    /\ local /\ gen[Source] > 1
    /\ local' = FALSE
    /\ UNCHANGED <<journal, serverVars, arrived, expunged, call, envVars>>

\* pruneArrivalCorrelationRows: TTL of a settled row.
Expire(i) ==
    /\ i \in DOMAIN journal /\ journal[i].state \in {"failed", "consumed"}
    /\ SetRow(i, [journal[i] EXCEPT !.state = "gone"])
    /\ UNCHANGED <<serverVars, mirrorVars, call, envVars>>

-----------------------------------------------------------------------------
(* Other clients of the account, and the server *)

ClientDeletes ==
    /\ Disturb("client")
    /\ \/ source /\ source' = FALSE /\ UNCHANGED copies
       \/ \E x \in copies : copies' = copies \ {x} /\ UNCHANGED source
    /\ UNCHANGED <<journal, gen, uidNext, mirrorVars, call, epoch>>

ClientCopies(d) ==
    /\ Disturb("client") /\ source /\ uidNext[d] <= MaxUid
    /\ copies' = copies \cup {[dest |-> d, uid |-> uidNext[d], exact |-> TRUE, row |-> 0]}
    /\ uidNext' = [uidNext EXCEPT ![d] = @ + 1]
    /\ UNCHANGED <<journal, source, gen, mirrorVars, call, epoch>>

\* A mailbox is recreated, empty or with its messages.
NewGeneration(m) ==
    /\ Disturb("generation") /\ gen[m] = 1
    /\ gen' = [gen EXCEPT ![m] = 2]
    /\ source' = (source /\ m /= Source)
    /\ \/ UNCHANGED <<copies, uidNext>>
       \/ /\ m /= Source
          /\ copies' = {x \in copies : x.dest /= m}
          /\ uidNext' = [uidNext EXCEPT ![m] = 1]
    /\ UNCHANGED <<journal, mirrorVars, call, epoch>>

-----------------------------------------------------------------------------
Next ==
    \/ \E c \in Callers :
         \/ \E k \in Kinds, d \in Dests : StageMessageTransfer(c, k, d)
         \/ ReadTransfer(c)
         \/ SnapshotMailboxAppendBoundary(c) \/ SetMessageTransferDestinationSnapshot(c)
         \/ CheckMove(c) \/ CheckCopy(c) \/ ResolveSucceededCopyDestination(c)
         \/ ReopenMessageTransferDispatchAfterProof(c)
         \/ ClaimMessageTransferDispatch(c)
         \/ MoveMessageWithReceipt(c) \/ AppendMessage(c)
         \/ MarkMessageTransferSucceeded(c) \/ MarkMessageTransferFailed(c)
         \/ FinishMessageTransferDispatch(c)
         \/ StoreCopiedMessage(c) \/ RetireCopy(c)
         \/ CompleteMovedMessage(c) \/ CleanupMovedMessage(c)
         \/ Abort(c) \/ Cancel(c)
    \/ Crash
    \/ ClassifyArrival
    \/ \E removed \in BOOLEAN : SourceMissing(removed)
    \/ SourceReset
    \/ \E i \in 1..MaxRows : Expire(i)
    \/ ClientDeletes \/ \E d \in Dests : ClientCopies(d)
    \/ \E m \in Dests \cup {Source} : NewGeneration(m)

Spec == Init /\ [][Next]_vars

-----------------------------------------------------------------------------
(* Properties *)

Uids == {None} \cup [gen : 1..2, uid : 1..(MaxUid + 1)]
Rows ==
    [kind : Kinds, dest : Dests, state : {"pending", "succeeded", "consumed", "failed", "gone"},
     dispatched : BOOLEAN, owner : 0..MaxEpoch, attempt : 0..MaxAttempts, finished : BOOLEAN,
     boundary : Uids, uid : Uids]

Calls ==
    [pc : {"idle", "read", "boundary", "setBoundary", "check", "resolve", "reopen", "claim", "remote",
           "fail", "finish", "succeed", "applied", "settle", "store", "retire", "complete", "delete"},
     kind : Kinds, dest : Dests, id : 1..MaxRows,
     seen : [owner : 0..MaxEpoch, attempt : 0..MaxAttempts, boundary : Uids, uid : Uids],
     at : 0..MaxAttempts, uid : Uids, known : BOOLEAN, canceled : BOOLEAN]

\* The types of the journal, the mailboxes and the callers (MessageTransfer,
\* MoveReceipt): no UID or boundary is half known.
TypeOK ==
    /\ journal \in Seq(Rows) /\ Len(journal) <= MaxRows
    /\ local \in BOOLEAN /\ source \in BOOLEAN
    /\ gen \in [Dests \cup {Source} -> 1..2]
    /\ copies \subseteq [dest : Dests, uid : 1..MaxUid, exact : BOOLEAN, row : 0..MaxRows]
    /\ uidNext \in [Dests -> 1..(MaxUid + 1)]
    /\ arrived \subseteq Uids /\ expunged \in {"no", "kept", "consumed"}
    /\ epoch \in 1..MaxEpoch /\ faults \in 0..MaxFaults
    /\ call \in [Callers -> Calls]

\* However often a transfer is retried, by concurrent requests, after lost
\* answers and by later processes, it leaves at most one message at its
\* destination ("at-most-once remote transfer dispatch").
OneCopyPerTransfer ==
    \A i \in DOMAIN journal : Cardinality({x \in copies : x.row = i}) <= 1

\* While the server still has the message under the UIDVALIDITY the mirror knows,
\* neither a move nor synchronisation drops it from the mirror.
KeptWhileOnServer == source => local

\* A move is recorded as done only when the message has left its source mailbox.
MovedIsGone ==
    \A i \in DOMAIN journal :
        journal[i].kind = "move" /\ journal[i].state \in {"succeeded", "consumed"} => ~source

\* A transfer that is recorded as failed, and may be staged anew, put nothing at
\* its destination.
FailedLeftNothing ==
    \A i \in DOMAIN journal : journal[i].state = "failed" => ~\E x \in copies : x.row = i

\* While a caller has its command at the server, the row carries its claim, and
\* nobody may reconcile or dispatch it: the one caller allowed to issue the command
\* (ClaimMessageTransferDispatchForOwner) is the only one that does.
ClaimHeld ==
    \A c \in Callers :
        call[c].pc = "remote" =>
            LET r == RowOf(c)
            IN r.dispatched /\ r.owner = epoch /\ r.attempt = call[c].at /\ ~r.finished

\* What the journal of transfers keeps to at all times: one remote message per row,
\* and a row, a mirror and a server that tell the same story.
TransfersSafe ==
    /\ TypeOK /\ OneCopyPerTransfer /\ KeptWhileOnServer
    /\ MovedIsGone /\ FailedLeftNothing /\ ClaimHeld

\* A settled transfer keeps its outcome: no later answer, sync or arrival turns a
\* success into a failure or opens the row again.
OutcomeFinal ==
    [][\A i \in DOMAIN journal :
         LET now == journal[i].state
             next == journal'[i].state
         IN /\ now = "succeeded" => next \in {"succeeded", "consumed"}
            /\ now = "consumed" => next \in {"consumed", "gone"}
            /\ now = "failed" => next \in {"failed", "gone"}]_vars

=============================================================================
