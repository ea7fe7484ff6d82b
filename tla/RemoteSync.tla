---- MODULE RemoteSync ----
(* The remote IMAP sync plugin: one routine that copies a source folder into a
   destination folder, its worker, the manager that starts and stops it, the
   ledger, and the generation recovery that competes for the foreground
   (plugins/remote_imap_sync/backend, imapclient/remote_sync.go).

   A marker is the secret of the routine with UIDVALIDITY and UID of the
   source.  The source is a server: it gets, loses and renumbers messages at any time.
   The server answers or drops a connection after it has carried out an
   APPEND, never before.  SQLite does not fail; SELECT, FETCH and APPEND may. *)
EXTENDS Integers, Sequences, FiniteSets, FiniteSetsExt

CONSTANTS
    Contents,     \* contents of messages
    Chunk,        \* remoteSyncChunkSize
    Loops,        \* the destination is the source under another name
    MaxEpoch,     \* bound: UIDVALIDITY of the source
    MaxUid,       \* bound: UIDs of one epoch
    MaxEvents     \* bound: changes of the source, requests, failures, restarts and recoveries

ASSUME RemoteSyncAssumption == {Chunk, MaxEpoch, MaxUid, MaxEvents} \subseteq Nat /\ Chunk > 0 /\ Loops \in BOOLEAN

VARIABLES
    source,     \* epoch, and the folder: by UID a content, whether it is oversized, the secret of its marker
    dest,       \* copies in the order of APPEND: marker, content, folder, age of the settings
    routine,    \* the row: enabled, state, epoch, last UID, secret, source, folder, age
    ledger,     \* handled messages
    worker,     \* the worker of the routine, or NoWorker
    trig,       \* a trigger is in its channel
    manager,    \* the plugin runs
    change,     \* the request that holds lifecycleMu
    fg,         \* who has the foreground: nobody, the routine, the recovery
    recovery,   \* a rebuild is pending
    delivered,  \* history: the contents the configured source received, in order
    renumbered, \* history: the source changed its UIDVALIDITY between search and end of a run
    events
remoteVars == <<source, dest, routine, ledger, worker, trig, manager, change, fg, recovery, delivered, renumbered, events>>
server == <<source, dest>>
history == <<delivered, renumbered>>

NoWorker == [pc |-> "none"]
NoChange == "none"
NoSecret == 0
Alive == worker # NoWorker
Event == events < MaxEvents /\ events' = events + 1
At(pc) == Alive /\ worker.pc = pc /\ ~worker.stop
Goes(pc) == worker' = [worker EXCEPT !.pc = pc]

---------------------------------------------------------------------------
(* The source. *)
UidsAbove(last) == {uid \in DOMAIN source.box : uid > last}
Grown(box, uid, text, secret) ==
    [u \in DOMAIN box \cup {uid} |-> IF u = uid THEN [text |-> text, secret |-> secret] ELSE box[u]]
\* An IDLE event reaches the worker, or is lost with its connection.
IdleTells == trig' \in {trig, Alive}
SourceGrows(text) ==
    /\ source.next <= MaxUid /\ Event
    /\ source' = [source EXCEPT !.box = Grown(@, source.next, text, NoSecret), !.next = @ + 1]
    /\ delivered' = Append(delivered, text)
    /\ IdleTells
    /\ UNCHANGED <<dest, routine, ledger, worker, manager, change, fg, recovery, renumbered>>
SourceLoses(uid) ==
    /\ Event
    /\ source' = [source EXCEPT !.box = [u \in DOMAIN source.box \ {uid} |-> source.box[u]]]
    /\ UNCHANGED <<dest, routine, ledger, worker, trig, manager, change, fg, recovery, history>>
\* The same messages in the same order under a new UIDVALIDITY.
SourceRenumbers ==
    /\ source.epoch < MaxEpoch /\ Event
    /\ LET count == Cardinality(DOMAIN source.box)
       IN \E kept \in [1..count -> DOMAIN source.box] :
            /\ \A i, j \in 1..count : i < j => kept[i] < kept[j]
            /\ source' = [epoch |-> source.epoch + 1, next |-> count + 1, box |-> [u \in 1..count |-> source.box[kept[u]]]]
    /\ renumbered' = (renumbered \/ (Alive /\ worker.pc \notin {"idle", "sleep", "read", "wait", "acquire", "search"}))
    /\ UNCHANGED <<dest, routine, ledger, worker, trig, manager, change, fg, recovery, delivered>>

---------------------------------------------------------------------------
(* The ledger. *)
HandledByUid(epoch, uid, m) == \E r \in ledger : r.epoch = epoch /\ r.uid = uid
\* By UID; after a renumbering, as often as some earlier epoch had this content.
MessageAlreadyHandled(epoch, uid, m) ==
    \/ \E r \in ledger : r.epoch = epoch /\ r.uid = uid
    \/ LET matching(e) == {r \in ledger : r.epoch = e /\ (r.text = m.text \/ (e = epoch /\ r.uid = uid))}
           prior == {r.epoch : r \in ledger} \ {epoch}
       IN Cardinality(matching(epoch)) < Max({0} \cup {Cardinality(matching(e)) : e \in prior})
SourceMessageAlreadyHandled(item, epoch, uid, m) ==
    m.secret = item.secret \/ MessageAlreadyHandled(epoch, uid, m)

\* recordHandledMessageAt, unless the row is gone
RecordHandledMessage(uid, status) ==
    /\ ledger' = IF HandledByUid(worker.epoch, uid, worker.raw) THEN ledger
                 ELSE ledger \cup {[epoch |-> worker.epoch, uid |-> uid, text |-> worker.raw.text, status |-> status]}
    /\ routine' = [routine EXCEPT !.epoch = worker.epoch, !.last = Max({@, uid})]

---------------------------------------------------------------------------
(* The worker: runLoop and runOnce. *)
RunPcs == {"search", "open", "fetch", "append", "record", "skip", "pause", "reacquire"}
\* The reservation goes with the run.
LetGo == fg' = IF fg = "routine" THEN "free" ELSE fg
Shows(state) == IF routine.enabled THEN [routine EXCEPT !.state = state] ELSE routine

RunStarts ==
    /\ At("idle") /\ trig' = FALSE
    /\ IF trig THEN UNCHANGED events ELSE Event     \* else the timer of 15 minutes
    /\ Goes("read")
    /\ UNCHANGED <<server, routine, ledger, manager, change, fg, recovery, history>>
RunReads ==
    /\ At("read")
    /\ worker' = [worker EXCEPT !.pc = IF routine.enabled THEN "wait" ELSE "idle", !.item = routine, !.scanned = 0]
    /\ UNCHANGED <<server, routine, ledger, trig, manager, change, fg, recovery, history, events>>
RecoveryAwaited ==
    /\ At("wait") /\ ~recovery
    /\ Goes("acquire")
    /\ UNCHANGED <<server, routine, ledger, trig, manager, change, fg, recovery, history, events>>

AcquireAndWait(pc) ==
    /\ fg = "free" /\ fg' = "routine"
    /\ worker' = [worker EXCEPT !.pc = IF recovery THEN "wait" ELSE pc]
    /\ UNCHANGED trig
\* Acquire: it never waits for a recovery while it has the foreground.
Acquire(pc) ==
    /\ fg = "free"
    /\ fg' = IF recovery THEN "free" ELSE "routine"
    /\ worker' = [worker EXCEPT !.pc = IF recovery THEN "idle" ELSE pc]
    /\ trig' = (trig \/ recovery)
RunAcquires ==
    /\ At("acquire") /\ Acquire("begin")
    /\ UNCHANGED <<server, routine, ledger, manager, change, recovery, history, events>>
\* 90 seconds are over.
AcquireTimesOut ==
    /\ At("acquire") /\ fg # "free" /\ Event
    /\ Goes("sleep")
    /\ UNCHANGED <<server, routine, ledger, trig, manager, change, fg, recovery, history>>
\* beginRoutineRun and createRun; whoever cancels between the two sets the state itself.
RunBegins ==
    /\ At("begin")
    /\ routine' = Shows("syncing")
    /\ Goes("search")
    /\ UNCHANGED <<server, ledger, trig, manager, change, fg, recovery, history, events>>

\* deferForRecovery
Defers ==
    /\ routine' = Shows("queued")
    /\ worker' = [worker EXCEPT !.pc = "idle"] /\ trig' = TRUE
    /\ LetGo
RunSearches ==
    /\ At("search")
    /\ IF recovery THEN Defers
       ELSE LET renewed == worker.item.epoch # 0 /\ worker.item.epoch # source.epoch
                last == IF renewed THEN 0 ELSE worker.item.last
            IN /\ routine' = IF renewed THEN [routine EXCEPT !.epoch = source.epoch, !.last = 0] ELSE routine
               /\ worker' = [worker EXCEPT !.pc = "open", !.epoch = source.epoch,
                                           !.uids = UidsAbove(last)]
               /\ UNCHANGED <<trig, fg>>
    /\ UNCHANGED <<server, ledger, manager, change, recovery, history, events>>

Completes ==
    /\ routine' = Shows("watching")
    /\ Goes("idle") /\ UNCHANGED trig
    /\ LetGo
RunOpens ==
    /\ At("open")
    /\ IF worker.uids = {} THEN Completes
       ELSE IF recovery THEN Defers
       ELSE /\ Goes("fetch")
            /\ UNCHANGED <<routine, trig, fg>>
    /\ UNCHANGED <<server, ledger, manager, change, recovery, history, events>>

\* The UIDs that were found are fetched in ascending order.
Current == Min(worker.uids)
\* FetchUIDs in batches of one: what the folder holds now under this UID, or nothing.
RunFetches ==
    /\ At("fetch") /\ worker.uids # {}
    /\ LET uid == Current IN
       IF uid \notin DOMAIN source.box
       THEN /\ worker' = [worker EXCEPT !.uids = @ \ {uid}]
            /\ UNCHANGED <<routine, trig, fg>>
       ELSE IF recovery THEN Defers
       ELSE LET m == source.box[uid]
                handled == SourceMessageAlreadyHandled(worker.item, worker.epoch, uid, m)
            IN /\ worker' = [worker EXCEPT !.pc = IF handled THEN "skip" ELSE "append", !.raw = m, !.scanned = @ + 1]
               /\ UNCHANGED <<routine, trig, fg>>
    /\ UNCHANGED <<server, ledger, manager, change, recovery, history, events>>

Marker == <<worker.item.secret, worker.epoch, Current>>
FindMessageBySyncMarker == \E i \in DOMAIN dest : dest[i].marker = Marker /\ dest[i].folder = worker.item.folder
Appended ==
    Append(dest, [marker |-> Marker, text |-> worker.raw.text,
                  folder |-> worker.item.folder, age |-> worker.item.age])
\* A copy in an aliased source is a new message there, with its marker.
Echoed ==
    IF Loops /\ source.next <= MaxUid
    THEN [source EXCEPT !.box = Grown(@, source.next, worker.raw.text, worker.item.secret), !.next = @ + 1]
    ELSE source
AppendBlindly ==
    /\ dest' = Appended
    /\ source' = Echoed
AppendMessageWithSyncMarker ==
    IF FindMessageBySyncMarker THEN UNCHANGED server
    ELSE /\ dest' = Appended
         /\ source' = Echoed
RunAppends ==
    /\ At("append")
    /\ AppendMessageWithSyncMarker
    /\ Goes("record")
    /\ UNCHANGED <<routine, ledger, trig, manager, change, fg, recovery, history, events>>
\* The answer and the confirmation are lost.
AppendUnconfirmed ==
    /\ At("append") /\ Event
    /\ AppendMessageWithSyncMarker
    /\ routine' = Shows("retrying") /\ Goes("sleep") /\ LetGo
    /\ UNCHANGED <<ledger, trig, manager, change, recovery, history>>

RunRecords ==
    /\ Alive /\ worker.pc \in {"record", "skip"} /\ ~worker.stop
    /\ RecordHandledMessage(Current, IF worker.pc = "skip" THEN "skipped" ELSE "transferred")
    /\ worker' = [worker EXCEPT !.uids = @ \ {Current},
                    !.pc = IF worker.scanned % Chunk = 0 /\ worker.uids # {Current} THEN "pause" ELSE "fetch"]
    /\ UNCHANGED <<server, trig, manager, change, fg, recovery, history, events>>
\* Yield: the foreground is free between two chunks.
RunYields ==
    /\ At("pause")
    /\ Goes("reacquire") /\ LetGo
    /\ UNCHANGED <<server, routine, ledger, trig, manager, change, recovery, history, events>>
RunReacquires ==
    /\ At("reacquire") /\ fg = "free"
    /\ IF recovery THEN Defers
       ELSE /\ Acquire("fetch")
            /\ UNCHANGED routine
    /\ UNCHANGED <<server, ledger, manager, change, recovery, history, events>>
RunEnds ==
    /\ At("fetch") /\ worker.uids = {}
    /\ IF recovery THEN Defers ELSE Completes
    /\ UNCHANGED <<server, ledger, manager, change, recovery, history, events>>

\* A command failed or timed out: failRoutineRun, then a retry.
RunFails ==
    /\ Alive /\ worker.pc \in {"search", "open", "fetch", "append", "reacquire"} /\ ~worker.stop /\ Event
    /\ routine' = Shows("retrying") /\ Goes("sleep") /\ LetGo
    /\ UNCHANGED <<server, ledger, trig, manager, change, recovery, history>>
\* A login was refused: the routine is disabled and the worker cancels itself.
RunSuspends ==
    /\ Alive /\ worker.pc \in {"search", "open", "fetch"} /\ ~worker.stop /\ Event
    /\ routine' = IF routine.enabled THEN [routine EXCEPT !.enabled = FALSE, !.state = "needs_credentials"] ELSE routine
    /\ worker' = [worker EXCEPT !.pc = "sleep", !.stop = TRUE] /\ LetGo
    /\ UNCHANGED <<server, ledger, trig, manager, change, recovery, history>>
RetryWakes ==
    /\ At("sleep")
    /\ Goes("idle") /\ trig' = TRUE
    /\ UNCHANGED <<server, routine, ledger, manager, change, fg, recovery, history, events>>
\* A cancelled run puts the routine back in the queue.
WorkerEnds ==
    /\ Alive /\ worker.stop
    /\ IF worker.pc = "append" THEN AppendMessageWithSyncMarker \/ UNCHANGED server ELSE UNCHANGED server
    /\ routine' = IF worker.pc \in RunPcs THEN Shows("queued") ELSE routine
    /\ worker' = NoWorker /\ trig' = FALSE /\ LetGo
    /\ UNCHANGED <<ledger, manager, change, recovery, history, events>>

---------------------------------------------------------------------------
(* The manager and the requests; lifecycleMu is held while they wait for a worker. *)
Stopped == IF Alive THEN [worker EXCEPT !.stop = TRUE] ELSE NoWorker
\* Stop waits for the worker it stops.
StopReturned == Alive => ~worker.stop
Reconcile ==
    /\ manager /\ change = NoChange
    /\ IF Alive
       THEN /\ ~routine.enabled
            /\ worker' = Stopped /\ change' = "reconcile" /\ UNCHANGED trig
       ELSE /\ routine.enabled
            /\ worker' = [pc |-> "idle", stop |-> FALSE, item |-> routine, epoch |-> 0, uids |-> {},
                          raw |-> <<>>, scanned |-> 0]
            /\ trig' = TRUE /\ UNCHANGED change
    /\ UNCHANGED <<server, routine, ledger, manager, fg, recovery, history, events>>
ReconcileWaited ==
    /\ change = "reconcile" /\ ~Alive
    /\ change' = NoChange
    /\ UNCHANGED <<server, routine, ledger, worker, trig, manager, fg, recovery, history, events>>

Requests == {"pause", "resume", "date", "folder", "source", "delete"}
\* MutateRoutine stops the worker before it changes the row.
MutateRoutine(kind) ==
    /\ manager /\ change = NoChange /\ Event /\ routine.state # "deleted"
    /\ change' = kind /\ worker' = Stopped
    /\ UNCHANGED <<server, routine, ledger, trig, manager, fg, recovery, history>>

\* resetRoutineProgress
Progressless(r) == [r EXCEPT !.epoch = 0, !.last = 0, !.age = @ + 1, !.state = "queued", !.enabled = TRUE]
\* Another source has another secret: the UIDs of the old one mean nothing.
OtherSource(r) == [Progressless(r) EXCEPT !.account = @ + 1, !.secret = @ + 1]
\* setRoutineEnabled, persistRoutine with another date, destination or source, deleteRoutine.
Mutated(kind) ==
    CASE kind = "pause" -> [routine EXCEPT !.enabled = FALSE, !.state = "paused"]
      [] kind = "resume" -> [routine EXCEPT !.enabled = TRUE, !.state = "queued"]
      [] kind = "date" -> Progressless(routine)
      [] kind = "folder" -> [Progressless(routine) EXCEPT !.folder = 3 - @]
      [] kind = "source" -> OtherSource(routine)
      [] kind = "delete" -> [Progressless(routine) EXCEPT !.enabled = FALSE, !.state = "deleted"]
\* The other source happens to have the same UIDVALIDITY and a message of its own.
OtherFolder == [source EXCEPT !.box = [u \in {1} |-> [text |-> "other", secret |-> NoSecret]], !.next = 2]
MutationRuns ==
    /\ change \in Requests /\ StopReturned
    /\ routine' = Mutated(change)
    /\ ledger' = IF change \in {"pause", "resume"} THEN ledger ELSE {}
    /\ source' = IF change = "source" THEN OtherFolder ELSE source
    /\ delivered' = IF change = "source" THEN <<"other">> ELSE delivered
    /\ change' = NoChange
    /\ UNCHANGED <<dest, worker, trig, manager, fg, recovery, renumbered, events>>

PluginStops ==
    /\ manager /\ change = NoChange /\ Event
    /\ change' = "stop" /\ worker' = Stopped
    /\ UNCHANGED <<server, routine, ledger, trig, manager, fg, recovery, history>>
PluginStopped ==
    /\ change = "stop" /\ ~Alive
    /\ change' = NoChange /\ manager' = FALSE
    /\ UNCHANGED <<server, routine, ledger, worker, trig, fg, recovery, history, events>>
\* recoverInterruptedRuns
RecoverInterrupted(r) == IF r.state = "syncing" THEN [r EXCEPT !.state = IF r.enabled THEN "queued" ELSE "paused"] ELSE r
PluginStarts ==
    /\ ~manager /\ manager' = TRUE
    /\ routine' = RecoverInterrupted(routine)
    /\ UNCHANGED <<server, ledger, worker, trig, change, fg, recovery, history, events>>
RemoteCrash ==
    /\ Event
    /\ worker' = NoWorker /\ trig' = FALSE /\ manager' = FALSE /\ change' = NoChange /\ fg' = "free"
    /\ UNCHANGED <<server, routine, ledger, recovery, history>>

---------------------------------------------------------------------------
(* The generation recovery of the host takes the foreground too. *)
RecoverySignalled ==
    /\ ~recovery /\ Event /\ recovery' = TRUE
    /\ UNCHANGED <<server, routine, ledger, worker, trig, manager, change, fg, history>>
RecoveryTakes ==
    /\ recovery /\ fg = "free" /\ fg' = "recovery"
    /\ UNCHANGED <<server, routine, ledger, worker, trig, manager, change, recovery, history, events>>
RecoveryEnds ==
    /\ fg = "recovery" /\ fg' = "free" /\ recovery' = FALSE
    /\ UNCHANGED <<server, routine, ledger, worker, trig, manager, change, history, events>>

---------------------------------------------------------------------------
RemoteInit ==
    /\ source = [epoch |-> 1, box |-> <<>>, next |-> 1] /\ dest = <<>>
    /\ routine = [enabled |-> TRUE, state |-> "queued", epoch |-> 0, last |-> 0, secret |-> 1, account |-> 1, folder |-> 1, age |-> 1]
    /\ ledger = {} /\ worker = NoWorker /\ trig = FALSE /\ manager = TRUE /\ change = NoChange
    /\ fg = "free" /\ recovery = FALSE /\ delivered = <<>> /\ renumbered = FALSE /\ events = 0

WorkerStep ==
    \/ RunStarts \/ RunReads \/ RecoveryAwaited \/ RunAcquires \/ RunBegins \/ RunSearches \/ RunOpens \/ RunFetches
    \/ RunAppends \/ RunRecords \/ RunYields \/ RunReacquires \/ RunEnds \/ RetryWakes \/ WorkerEnds
ManagerStep == Reconcile \/ ReconcileWaited \/ MutationRuns \/ PluginStopped \/ PluginStarts
RecoveryStep == RecoveryTakes \/ RecoveryEnds

RemoteNext ==
    \/ \E text \in Contents : SourceGrows(text)
    \/ \E uid \in DOMAIN source.box : SourceLoses(uid)
    \/ SourceRenumbers
    \/ WorkerStep \/ AcquireTimesOut \/ AppendUnconfirmed \/ RunFails \/ RunSuspends
    \/ ManagerStep \/ \E kind \in Requests : MutateRoutine(kind)
    \/ PluginStops \/ RemoteCrash
    \/ RecoverySignalled \/ RecoveryStep

\* Goroutines run, and a rebuild ends.
RemoteFairness == WF_remoteVars(WorkerStep) /\ WF_remoteVars(ManagerStep) /\ WF_remoteVars(RecoveryStep)
RemoteSpec == RemoteInit /\ [][RemoteNext]_remoteVars /\ RemoteFairness

---------------------------------------------------------------------------
(* One copy per source message and folder: a crash, a lost answer or a cancel
   between APPEND and the ledger, or a reset of the progress, must not copy it
   twice (remote_sync.go:454). *)
OneCopyPerMarker ==
    \A i, j \in DOMAIN dest : dest[i].marker = dest[j].marker /\ dest[i].folder = dest[j].folder => i = j

(* What the ledger calls transferred is in the destination folder with this
   content: a marker found there is never the one of another source
   (main.go:498), unless the folder was renumbered within the run. *)
TransferredIsThere ==
    ~renumbered => \A r \in ledger : r.status = "transferred" =>
        \E i \in DOMAIN dest : dest[i].text = r.text /\ dest[i].folder = routine.folder

(* The last UID of the routine covers what lies below it: every message of the
   source at or below it was copied or skipped, so an incremental search misses
   none (models.go:327). *)
LastUidCovers ==
    routine.epoch = source.epoch =>
        \A uid \in DOMAIN source.box : uid <= routine.last => HandledByUid(source.epoch, uid, source.box[uid])

(* A new UIDVALIDITY does not copy the folder again, and a routine does not copy
   its own copies: no content has more recorded copies than the source received
   of it, unless the folder was renumbered between the search and the fetch of
   one run (models.go:257, sync.go:944). *)
NoRecopy ==
    ~renumbered => \A text \in Contents :
        Cardinality({r \in ledger : r.status = "transferred" /\ r.text = text})
          <= Cardinality({i \in DOMAIN delivered : delivered[i] = text})

(* No APPEND uses settings that a request has replaced: the worker is stopped
   before the row changes (sync.go:121). *)
AppendsAsConfigured ==
    [][dest' # dest => worker.item.age = routine.age /\ routine.enabled]_remoteVars

(* Syncing is shown only while a run is in progress or the plugin is down
   (models.go:185, 194). *)
SyncingIsRunning == routine.state = "syncing" => (Alive /\ worker.pc \in RunPcs) \/ ~manager

(* What a routine keeps to at all times: one copy of each message, and a ledger, a
   checkpoint and a state that tell what is there. *)
RoutineSafe == OneCopyPerMarker /\ TransferredIsThere /\ LastUidCovers /\ NoRecopy /\ SyncingIsRunning

(* A recovery is never kept out for good by a routine that holds the foreground
   or waits for the recovery itself (sync.go:738). *)
RecoveryProceeds == recovery ~> ~recovery

====
