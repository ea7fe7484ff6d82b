---- MODULE MailboxSync ----
(* One mailbox that receives new mail: passes of syncer.syncAccount over it,
   the IMAP server they read, changes of its generation (UIDVALIDITY), the
   journal that carries user state across one, read flags and their pusher.

   Messages are numbered in the order of their delivery; a message keeps its
   number when a new generation renumbers the UIDs.  A row of the database and
   its search document are identified by generation and UID.  The runner lets
   one pass at a time work on a mailbox (Runner, OneJobPerMailbox). *)
EXTENDS Naturals, FiniteSets, FiniteSetsExt, Functions

CONSTANTS
    MaxMail,       \* bound: messages delivered
    MaxTurmoil,    \* bound: expunges and new generations on the server
    MaxChanges,    \* bound: read marks set by the user
    MaxStops,      \* bound: passes that fail, are cancelled or die with the process
    Oversized,     \* messages above the mirror limit, stored as header stubs
    Hooks,         \* TRUE when a plugin has a stored-message hook
    PageSize,      \* mailboxGenerationPrewarmLimit
    TurnSize       \* mailboxGenerationRecoveryBatchSize

ASSUME MailboxSyncAssumption ==
    /\ {MaxMail, MaxTurmoil, MaxChanges, MaxStops} \subseteq Nat
    /\ {PageSize, TurnSize} \subseteq Nat \ {0}
    /\ Oversized \subseteq 1..MaxMail /\ Hooks \in BOOLEAN

VARIABLES
    server,     \* IMAP: generation, UIDNEXT, messages by UID, seen messages
    box,        \* row of mailboxes: uidvalidity, last_uid, and whether STATUS found it empty
    rows,       \* messages by UID
    marker,     \* mailbox_generation_rebuilds: target generation and arrival floor
    journal,    \* mailbox_generation_rebuild_messages: read state by message
    docs,       \* documents in the search index
    announced,  \* messages given to recordInboxArrival
    due,        \* rows that some pass stored as new mail
    bypassed,   \* messages a sparse repair moved the checkpoint over
    unsent,     \* read state the user set and no STORE has answered for
    pass,       \* the pass under way
    oper,       \* a generation reset by a copy or by Sent filing
    push,       \* SyncReadStateForMessage
    changes, stops

mailVars == <<server, box, rows, marker, journal, docs, announced, due, bypassed, unsent, pass, oper, push, changes, stops>>
store == <<box, rows, marker, journal>>
ghosts == <<announced, due, bypassed, unsent>>

UIDs(s) == DOMAIN s.mail
NoMarker == [target |-> 0, floor |-> 0]
NoPass == [pc |-> "none"]
NoPush == [pc |-> "idle"]
NoFunction == [x \in {} |-> x]
Top(S) == IF S = {} THEN 0 ELSE Max(S)
Drop(f, x) == [y \in DOMAIN f \ {x} |-> f[y]]
With(f, x, value) == [y \in DOMAIN f \cup {x} |-> IF y = x THEN value ELSE f[y]]

---------------------------------------------------------------------------
(* The IMAP server. *)
Deliver ==
    /\ server.count < MaxMail
    /\ server' = [server EXCEPT !.count = @ + 1, !.next = @ + 1,
                                !.mail = With(@, server.next, server.count + 1)]
    /\ UNCHANGED <<store, docs, ghosts, pass, oper, push, changes, stops>>

Turmoil == (server.gen - 1) + (server.count - Cardinality(UIDs(server))) < MaxTurmoil

Expunge(u) ==
    /\ u \in UIDs(server) /\ Turmoil
    /\ server' = [server EXCEPT !.mail = Drop(@, u)]
    /\ unsent' = Drop(unsent, server.mail[u])
    /\ UNCHANGED <<store, docs, announced, due, bypassed, pass, oper, push, changes, stops>>

NewGeneration ==
    /\ Turmoil
    /\ \E order \in [1..Cardinality(UIDs(server)) -> Range(server.mail)] :
          /\ Range(order) = Range(server.mail)
          /\ \A u, v \in DOMAIN order : u < v => order[u] < order[v]
          /\ server' = [server EXCEPT !.gen = @ + 1, !.next = Cardinality(UIDs(server)) + 1, !.mail = order]
    /\ UNCHANGED <<store, docs, ghosts, pass, oper, push, changes, stops>>

---------------------------------------------------------------------------
(* The beginning of a pass. *)
StartPass(kind, requested) ==
    /\ pass = NoPass /\ oper = "idle"
    /\ kind = "recovery" => marker.target # 0 /\ ~requested
    /\ pass' = [pc |-> "status", kind |-> kind, requested |-> requested, start |-> box.last]
    /\ UNCHANGED <<server, store, docs, ghosts, oper, push, changes, stops>>

\* planMailboxes; wasEmpty is the old STATUS on the row of the mailbox.
PlanMailboxes ==
    /\ pass.pc = "status"
    /\ pass' = [pc |-> "reset", kind |-> pass.kind, requested |-> pass.requested, start |-> pass.start,
                gen |-> server.gen, next |-> server.next, count |-> Cardinality(UIDs(server)),
                wasEmpty |-> box.empty]
    /\ UNCHANGED <<server, store, docs, ghosts, oper, push, changes, stops>>

\* What the later steps of a pass know of its plan.
Planned(pc, start, floor, rebuild) ==
    [pc |-> pc, gen |-> pass.gen, start |-> start, wasEmpty |-> pass.wasEmpty, floor |-> floor, rebuild |-> rebuild]
GoOn(pc, start) == Planned(pc, start, pass.floor, pass.rebuild)
PlannedRepair ==
    [pc |-> "repair", gen |-> pass.gen, start |-> pass.start, wasEmpty |-> pass.wasEmpty, floor |-> 0, rebuild |-> FALSE,
     count |-> pass.count, next |-> pass.next]

NeedsReset(gen) ==
    \/ \E u \in DOMAIN rows : rows[u].gen # gen
    \/ box.gen # gen /\ (box.gen > 0 \/ box.last > 0 \/ DOMAIN rows # {})

\* The floor of a rebuild that is already under way for this generation stays.
FloorOf(gen, next) == IF marker.target = gen /\ marker.floor > 0 THEN marker.floor ELSE next

Saved == [m \in {rows[u].msg : u \in DOMAIN rows} |->
             LET r == CHOOSE r \in Range(rows) : r.msg = m IN [read |-> r.read, pend |-> r.pend]]
SnapshotState == [m \in DOMAIN Saved \cup DOMAIN journal |-> IF m \in DOMAIN Saved THEN Saved[m] ELSE journal[m]]

ResetMailboxForRemoteGeneration(gen, next) ==
    IF NeedsReset(gen)
    THEN /\ marker' = [target |-> gen, floor |-> FloorOf(gen, next)]
         /\ journal' = SnapshotState
         /\ rows' = NoFunction
         /\ box' = [box EXCEPT !.gen = gen, !.last = 0]
    ELSE /\ box' = [box EXCEPT !.gen = gen]
         /\ UNCHANGED <<rows, marker, journal>>

ResetMailboxGeneration ==
    /\ pass.pc = "reset"
    /\ ResetMailboxForRemoteGeneration(pass.gen, pass.next)
    /\ pass' = IF NeedsReset(pass.gen) THEN [pass EXCEPT !.pc = "purge", !.start = 0]
                                       ELSE [pass EXCEPT !.pc = "pending"]
    /\ UNCHANGED <<server, docs, ghosts, oper, push, changes, stops>>

PurgeMailbox ==
    /\ pass.pc = "purge"
    /\ docs' = {}
    /\ pass' = [pass EXCEPT !.pc = "pending"]
    /\ UNCHANGED <<server, store, ghosts, oper, push, changes, stops>>

\* ResetMailboxGenerationIfNeeded of a copy, a saved draft or a filed Sent copy:
\* each holds the foreground barrier, so no pass is at work (Runner, ForegroundAlone).
OperationResets ==
    /\ oper = "idle" /\ pass = NoPass
    /\ NeedsReset(server.gen)
    /\ ResetMailboxForRemoteGeneration(server.gen, server.next)
    /\ oper' = "purge"
    /\ UNCHANGED <<server, docs, ghosts, pass, push, changes, stops>>

OperationPurges ==
    /\ oper = "purge"
    /\ docs' = {} /\ oper' = "idle"
    /\ UNCHANGED <<server, store, ghosts, pass, push, changes, stops>>

EmptyStatus == pass.count = 0 /\ pass.next <= 1

\* A pending rebuild belongs to the recovery worker; an ordinary pass stores the
\* STATUS and ends.
CheckRebuildPending ==
    /\ pass.pc = "pending"
    /\ LET pending == marker.target = pass.gen
           current == box.gen = pass.gen
       IN /\ box' = IF current THEN [box EXCEPT !.empty = EmptyStatus] ELSE box
          /\ pass' = IF ~current \/ (pending /\ pass.kind = "ordinary") THEN NoPass
                     ELSE IF pending THEN Planned("replay", pass.start, marker.floor, TRUE)
                     ELSE IF pass.requested THEN PlannedRepair
                     ELSE Planned("fetch", pass.start, 0, FALSE)
    /\ UNCHANGED <<server, rows, marker, journal, docs, ghosts, oper, push, changes, stops>>

---------------------------------------------------------------------------
(* Fetched items. *)
Item(u) == [uid |-> u, msg |-> server.mail[u], seen |-> server.mail[u] \in server.seen]
Items(S) == {Item(u) : u \in S}
\* fetchUIDs hands out the stubs of one batch before its bodies, each by ascending UID.
Stubs == {i \in pass.queue : i.msg \in Oversized}
FetchedFirst == IF Stubs = {} THEN pass.queue ELSE Stubs
Head1 == CHOOSE i \in FetchedFirst : \A j \in FetchedFirst : i.uid <= j.uid

Imported == {u \in DOMAIN rows : rows[u].done}
IsPostRebuildArrival(u) == pass.rebuild /\ pass.floor > 0 /\ u >= pass.floor
ShouldNotify(u) ==
    \/ IsPostRebuildArrival(u)
    \/ ~pass.rebuild /\ (IF pass.start = 0 THEN pass.wasEmpty ELSE u > pass.start)
Working(phase, S, snap, top) ==
    [pc |-> "item", gen |-> pass.gen, start |-> pass.start, wasEmpty |-> pass.wasEmpty, floor |-> pass.floor,
     rebuild |-> pass.rebuild, phase |-> phase, queue |-> Items(S), bad |-> FALSE, cur |-> pass.start, batch |-> {},
     compl |-> {}, pend |-> 0, whole |-> FALSE, final |-> TRUE, snap |-> snap, top |-> top]
Rest == pass.queue \ {Head1}
InGeneration(u) == u \in DOMAIN rows /\ rows[u].gen = pass.gen
Exists(u) == InGeneration(u) /\ rows[u].done

\* replayStoredGenerationRebuildArrivals
ReplayStoredArrivals ==
    /\ pass.pc = "replay"
    /\ announced' = announced \cup {rows[u].msg : u \in {v \in DOMAIN rows : rows[v].gen = pass.gen /\ v >= pass.floor}}
    /\ pass' = [pass EXCEPT !.pc = "snapshot"]
    /\ UNCHANGED <<server, store, docs, due, bypassed, unsent, oper, push, changes, stops>>

Newest(S) == {u \in S : Cardinality({v \in S : v > u}) < PageSize}
Oldest(S) == {u \in S : Cardinality({v \in S : v < u}) < TurnSize}

\* prewarmPendingMailboxGeneration: the page is a preview that may fail.
SnapshotAndNewestPage ==
    /\ pass.pc = "snapshot"
    /\ \E fetched \in BOOLEAN :
          pass' = IF server.gen # pass.gen THEN NoPass
                  ELSE Working("prewarm", IF fetched THEN Newest(UIDs(server)) \ Imported ELSE {}, UIDs(server), 0)
    /\ UNCHANGED <<server, store, docs, ghosts, oper, push, changes, stops>>

\* The next turn of the snapshot; a UID that is gone meanwhile is an error
\* after the others were handled.
AfterStart == {u \in pass.snap : u > pass.start}
FetchSnapshotBatch ==
    /\ pass.pc = "history"
    /\ LET turn == Oldest(AfterStart)
       IN pass' = IF server.gen # pass.gen THEN NoPass
                  ELSE [pass EXCEPT !.pc = "item", !.phase = "history", !.queue = Items(turn \cap UIDs(server)),
                                    !.bad = ~(turn \subseteq UIDs(server)), !.final = turn = AfterStart, !.snap = {}]
    /\ UNCHANGED <<server, store, docs, ghosts, oper, push, changes, stops>>

FetchMailbox ==
    /\ pass.pc = "fetch"
    /\ pass' = IF server.gen # pass.gen THEN NoPass
               ELSE Working("history", {u \in UIDs(server) : u > pass.start}, {}, 0)
    /\ UNCHANGED <<server, store, docs, ghosts, oper, push, changes, stops>>

\* repairRequestedIncompleteMailbox up to its fetch of what is missing.
RepairIncompleteMailbox ==
    /\ pass.pc = "repair"
    /\ LET missing == UIDs(server) \ Imported
           top == Top(UIDs(server))
           idle == pass.count = 0 \/ (Cardinality(Imported) >= pass.count /\ pass.next - 1 <= pass.start)
       IN \/ /\ idle
             /\ pass' = GoOn("fetch", pass.start)
             /\ UNCHANGED <<box, bypassed>>
          \/ /\ ~idle /\ (server.gen # pass.gen \/ box.gen # pass.gen)
             /\ pass' = NoPass /\ UNCHANGED <<box, bypassed>>
          \/ /\ ~idle /\ server.gen = pass.gen /\ box.gen = pass.gen /\ missing = {}
             /\ box' = [box EXCEPT !.last = Max({@, top})]
             /\ bypassed' = bypassed \cup Range(server.mail)
             /\ pass' = GoOn("fetch", Max({pass.start, top}))
          \/ /\ ~idle /\ server.gen = pass.gen /\ box.gen = pass.gen /\ missing # {}
             /\ pass' = Working("repair", missing, {}, top)
             /\ UNCHANGED <<box, bypassed>>
    /\ UNCHANGED <<server, rows, marker, journal, docs, announced, due, unsent, oper, push, changes, stops>>

---------------------------------------------------------------------------
(* One item: handleFetchedItem, prewarmHandle and the handler of the repair. *)
Ascends == pass.phase = "history"

\* The item is below the checkpoint of this pass, or in the mailbox already.
SkipItem ==
    /\ pass.pc = "item" /\ pass.queue # {}
    /\ LET u == Head1.uid
       IN \/ /\ Ascends /\ u <= pass.cur
             /\ pass' = [pass EXCEPT !.queue = Rest]
          \/ /\ ~(Ascends /\ u <= pass.cur) /\ box.gen # pass.gen
             /\ pass' = NoPass
          \/ /\ ~(Ascends /\ u <= pass.cur) /\ box.gen = pass.gen /\ Exists(u)
             /\ pass' = IF pass.phase \in {"prewarm", "refresh"} THEN [pass EXCEPT !.queue = Rest]
                        ELSE [pass EXCEPT !.pc = "record", !.whole = pass.pend = 0]
    /\ UNCHANGED <<server, store, docs, ghosts, oper, push, changes, stops>>

\* restoreMailboxGenerationStateTx: a change that was not pushed wins over the
\* flags of the server.
Restored(r) ==
    IF marker.target = pass.gen /\ r.msg \in DOMAIN journal /\ journal[r.msg].pend
    THEN [r EXCEPT !.read = journal[r.msg].read, !.pend = TRUE] ELSE r

\* storeFetchedMessage and CreateMessage
StoreItem ==
    /\ pass.pc = "item" /\ pass.queue # {}
    /\ LET i == Head1
           fresh == [msg |-> i.msg, gen |-> pass.gen, done |-> FALSE, read |-> i.seen, pend |-> FALSE]
       IN /\ ~(Ascends /\ i.uid <= pass.cur) /\ box.gen = pass.gen /\ ~Exists(i.uid)
          /\ rows' = With(rows, i.uid, Restored(IF InGeneration(i.uid) THEN rows[i.uid] ELSE fresh))
          /\ journal' = IF marker.target = pass.gen THEN Drop(journal, i.msg) ELSE journal
          /\ due' = IF ShouldNotify(i.uid) /\ (pass.start > 0 \/ pass.rebuild) THEN due \cup {<<pass.gen, i.uid>>} ELSE due
          /\ pass' = [pass EXCEPT !.pc = "index", !.compl = @ \cup {i.uid},
                                  !.batch = IF i.msg \in Oversized THEN @ ELSE @ \cup {i.uid}]
    /\ UNCHANGED <<server, box, marker, docs, announced, bypassed, unsent, oper, push, changes, stops>>

Documents(S) == {<<pass.gen, u>> : u \in {v \in S \cap DOMAIN rows : rows[v].gen = pass.gen}}

\* searchBatch.Add flushes a full batch; a hook wants the documents first.
IndexBatch(full) ==
    /\ pass.pc = "index"
    /\ full \/ ~(Hooks /\ ~pass.rebuild)
    /\ docs' = IF full THEN docs \cup Documents(pass.batch) ELSE docs
    /\ pass' = [pass EXCEPT !.pc = "complete", !.batch = IF full THEN {} ELSE @]
    /\ UNCHANGED <<server, store, ghosts, oper, push, changes, stops>>

CompletesNow == pass.rebuild \/ Hooks \/ pass.batch = {}
MarkCompleted(S) == [u \in DOMAIN rows |-> IF u \in S /\ rows[u].gen = pass.gen THEN [rows[u] EXCEPT !.done = TRUE] ELSE rows[u]]

CompleteImports ==
    /\ pass.pc = "complete"
    /\ rows' = IF CompletesNow THEN MarkCompleted(pass.compl) ELSE rows
    /\ pass' = [pass EXCEPT !.pc = "record", !.whole = CompletesNow, !.compl = IF CompletesNow THEN {} ELSE @]
    /\ UNCHANGED <<server, box, marker, journal, docs, ghosts, oper, push, changes, stops>>

Records(u) == ShouldNotify(u)

RecordArrival ==
    /\ pass.pc = "record"
    /\ announced' = IF Records(Head1.uid) THEN announced \cup {Head1.msg} ELSE announced
    /\ pass' = IF Ascends THEN [pass EXCEPT !.pc = "checkpoint"]
               ELSE [pass EXCEPT !.pc = "item", !.queue = Rest]
    /\ UNCHANGED <<server, store, docs, due, bypassed, unsent, oper, push, changes, stops>>

\* UpdateMailboxLastUIDForGeneration
Advanced(u) == [box EXCEPT !.last = Max({@, u})]
AfterImport(u) == IF pass.whole THEN [pass EXCEPT !.pc = "item", !.queue = Rest, !.cur = u, !.pend = 0]
                                ELSE [pass EXCEPT !.pc = "item", !.queue = Rest, !.pend = IF Exists(u) THEN @ ELSE u]
MayAdvanceAlways == TRUE
MayAdvance == pass.whole

Checkpoint ==
    /\ pass.pc = "checkpoint"
    /\ \/ MayAdvance /\ box.gen # pass.gen /\ pass' = NoPass /\ UNCHANGED box
       \/ /\ MayAdvance => box.gen = pass.gen
          /\ box' = IF MayAdvance THEN Advanced(Head1.uid) ELSE box
          /\ pass' = AfterImport(Head1.uid)
    /\ UNCHANGED <<server, rows, marker, journal, docs, ghosts, oper, push, changes, stops>>

\* The queue of a phase is empty.
PhaseDone ==
    /\ pass.pc = "item" /\ pass.queue = {}
    /\ pass' = IF pass.bad THEN NoPass
               ELSE [pass EXCEPT !.pc = IF Ascends /\ pass.rebuild THEN "refresh" ELSE "flush"]
    /\ UNCHANGED <<server, store, docs, ghosts, oper, push, changes, stops>>

\* refreshNewest: the newest page again, mandatory only in the final turn.
RefreshNewest ==
    /\ pass.pc = "refresh"
    /\ \E fetched \in BOOLEAN :
          /\ pass.final \/ server.gen # pass.gen => fetched = pass.final
          /\ pass' = IF fetched /\ server.gen # pass.gen THEN NoPass
                     ELSE [pass EXCEPT !.pc = "item", !.phase = "refresh",
                                       !.queue = Items(IF fetched THEN Newest(UIDs(server)) \ Imported ELSE {})]
    /\ UNCHANGED <<server, store, docs, ghosts, oper, push, changes, stops>>

---------------------------------------------------------------------------
(* The end of a phase and of the pass. *)
FlushSearchBatch ==
    /\ pass.pc = "flush"
    /\ docs' = docs \cup Documents(pass.batch)
    /\ pass' = [pass EXCEPT !.pc = IF pass.phase = "prewarm" THEN "history" ELSE "finish", !.batch = {}]
    /\ UNCHANGED <<server, store, ghosts, oper, push, changes, stops>>

FinishImports ==
    /\ pass.pc = "finish"
    /\ rows' = MarkCompleted(pass.compl)
    /\ pass' = [pass EXCEPT !.pc = "advance", !.compl = {}]
    /\ UNCHANGED <<server, box, marker, journal, docs, ghosts, oper, push, changes, stops>>

\* The last checkpoint: of the imports that waited for their batch, or of a
\* repair, which goes on with the incremental fetch.
FinalCheckpoint ==
    /\ pass.pc = "advance"
    /\ LET to == IF pass.phase = "repair" THEN pass.top ELSE pass.pend
           moves == to > (IF pass.phase = "repair" THEN pass.start ELSE pass.cur)
       IN /\ box' = IF moves /\ box.gen = pass.gen THEN Advanced(to) ELSE box
          /\ bypassed' = IF pass.phase = "repair" /\ moves THEN bypassed \cup {rows[u].msg : u \in DOMAIN rows} ELSE bypassed
          /\ pass' = IF moves /\ box.gen # pass.gen THEN NoPass
                     ELSE IF pass.phase = "repair"
                          THEN GoOn("fetch", Max({pass.start, to}))
                     ELSE IF pass.rebuild /\ ~pass.final THEN NoPass
                     ELSE GoOn("flags", 0)
    /\ UNCHANGED <<server, rows, marker, journal, docs, announced, due, unsent, oper, push, changes, stops>>

\* syncMailboxReadFlags: the search on the server, then the update of the rows
\* that have no change of their own.
ReadSeenUIDs ==
    /\ pass.pc = "flags"
    /\ pass' = IF server.gen = pass.gen
               THEN [pc |-> "apply", gen |-> pass.gen, start |-> 0, wasEmpty |-> pass.wasEmpty, floor |-> pass.floor,
                     rebuild |-> pass.rebuild, seen |-> {u \in UIDs(server) : server.mail[u] \in server.seen}]
               ELSE [pass EXCEPT !.pc = "reconcile"]
    /\ UNCHANGED <<server, store, docs, ghosts, oper, push, changes, stops>>

TakesServerFlag(u) == ~rows[u].pend
UpdateMailboxReadFlags ==
    /\ pass.pc = "apply"
    /\ rows' = [u \in DOMAIN rows |-> IF TakesServerFlag(u) THEN [rows[u] EXCEPT !.read = u \in pass.seen] ELSE rows[u]]
    /\ pass' = GoOn("reconcile", 0)
    /\ UNCHANGED <<server, box, marker, journal, docs, ghosts, oper, push, changes, stops>>

\* reconcileMailboxUIDs: only in the generation of the mailbox, and only below
\* the UIDNEXT of the listing.
MissingUIDs == IF server.gen = box.gen THEN {u \in DOMAIN rows : u < server.next /\ u \notin UIDs(server)} ELSE {}
ReconcileMailboxUIDs ==
    /\ pass.pc = "reconcile"
    /\ rows' = [u \in DOMAIN rows \ MissingUIDs |-> rows[u]]
    /\ docs' = docs \ {<<rows[u].gen, u>> : u \in MissingUIDs}
    /\ pass' = [pass EXCEPT !.pc = "finalize"]
    /\ UNCHANGED <<server, box, marker, journal, ghosts, oper, push, changes, stops>>

FinalizeMailboxGenerationRebuild ==
    /\ pass.pc = "finalize"
    /\ IF marker.target = pass.gen THEN marker' = NoMarker /\ journal' = NoFunction
                                   ELSE UNCHANGED <<marker, journal>>
    /\ pass' = NoPass
    /\ UNCHANGED <<server, box, rows, docs, ghosts, oper, push, changes, stops>>

\* An error, a cancellation or the end of the process at any point.
Stop ==
    /\ pass # NoPass \/ push # NoPush \/ oper # "idle"
    /\ stops < MaxStops /\ stops' = stops + 1
    /\ pass' = NoPass /\ push' = NoPush /\ oper' = "idle"
    /\ UNCHANGED <<server, store, docs, ghosts, changes>>

---------------------------------------------------------------------------
(* Read state. *)
MarkMessageRead(u, value) ==
    /\ u \in DOMAIN rows /\ rows[u].done /\ changes < MaxChanges
    /\ rows' = [rows EXCEPT ![u].read = value, ![u].pend = TRUE]
    /\ unsent' = IF \E v \in UIDs(server) : server.mail[v] = rows[u].msg THEN With(unsent, rows[u].msg, value) ELSE unsent
    /\ changes' = changes + 1
    /\ UNCHANGED <<server, box, marker, journal, docs, announced, due, bypassed, pass, oper, push, stops>>

\* SyncReadStateForMessage, called by a pass and by the queue of the web server.
SyncReadState(u) ==
    /\ push = NoPush /\ u \in DOMAIN rows /\ rows[u].pend /\ rows[u].gen = box.gen
    /\ push' = [pc |-> "store", uid |-> u, gen |-> rows[u].gen, read |-> rows[u].read]
    /\ UNCHANGED <<server, store, docs, ghosts, pass, oper, changes, stops>>

SetSeenWithUIDValidity ==
    /\ push.pc = "store"
    /\ IF server.gen = push.gen
       THEN /\ server' = IF push.uid \in UIDs(server)
                         THEN [server EXCEPT !.seen = IF push.read THEN @ \cup {server.mail[push.uid]} ELSE @ \ {server.mail[push.uid]}]
                         ELSE server
            /\ push' = [push EXCEPT !.pc = "clear"]
       ELSE push' = NoPush /\ UNCHANGED server
    /\ UNCHANGED <<store, docs, ghosts, pass, oper, changes, stops>>

ClearReadSyncPending ==
    /\ push.pc = "clear"
    /\ LET there == push.uid \in DOMAIN rows /\ rows[push.uid].gen = push.gen
       IN /\ rows' = IF there THEN [rows EXCEPT ![push.uid].pend = FALSE] ELSE rows
          /\ unsent' = IF there THEN Drop(unsent, rows[push.uid].msg) ELSE unsent
    /\ push' = NoPush
    /\ UNCHANGED <<server, box, marker, journal, docs, announced, due, bypassed, pass, oper, changes, stops>>

---------------------------------------------------------------------------
MailboxInit ==
    /\ server = [gen |-> 1, next |-> 1, mail |-> NoFunction, seen |-> {}, count |-> 0]
    /\ box = [gen |-> 0, last |-> 0, empty |-> FALSE]
    /\ rows = NoFunction /\ marker = NoMarker /\ journal = NoFunction
    /\ docs = {} /\ announced = {} /\ due = {} /\ bypassed = {} /\ unsent = NoFunction
    /\ pass = NoPass /\ oper = "idle" /\ push = NoPush
    /\ changes = 0 /\ stops = 0

PassStep ==
    \/ PlanMailboxes \/ ResetMailboxGeneration \/ PurgeMailbox \/ CheckRebuildPending
    \/ ReplayStoredArrivals \/ SnapshotAndNewestPage \/ FetchSnapshotBatch \/ FetchMailbox \/ RepairIncompleteMailbox
    \/ SkipItem \/ StoreItem \/ (\E full \in BOOLEAN : IndexBatch(full)) \/ CompleteImports \/ RecordArrival \/ Checkpoint
    \/ PhaseDone \/ RefreshNewest \/ FlushSearchBatch \/ FinishImports \/ FinalCheckpoint
    \/ ReadSeenUIDs \/ UpdateMailboxReadFlags \/ ReconcileMailboxUIDs \/ FinalizeMailboxGenerationRebuild

MailboxNext ==
    \/ Deliver \/ (\E u \in UIDs(server) : Expunge(u)) \/ NewGeneration
    \/ \E requested \in BOOLEAN : StartPass("ordinary", requested)
    \/ StartPass("recovery", FALSE)
    \/ PassStep \/ OperationResets \/ OperationPurges \/ Stop
    \/ \E u \in DOMAIN rows : SyncReadState(u) \/ \E value \in BOOLEAN : MarkMessageRead(u, value)
    \/ SetSeenWithUIDValidity \/ ClearReadSyncPending

MailboxSpec == MailboxInit /\ [][MailboxNext]_mailVars

---------------------------------------------------------------------------
(* Every message the server lists at or below the checkpoint of its generation
   is stored and its import complete: the incremental fetch never asks for it
   again (syncer.go, handleFetchedItem; mailboxes.go:704). *)
CheckpointCovered ==
    box.gen = server.gen =>
        \A u \in UIDs(server) : u <= box.last => u \in DOMAIN rows /\ rows[u].msg = server.mail[u] /\ rows[u].done

(* A message that is imported outside of a rebuild is in the search index when
   its import counts as complete, although documents are committed in batches
   and hooks run in between (search_batch.go, completionBatch). *)
CompletedIsIndexed ==
    \A u \in DOMAIN rows : rows[u].done /\ rows[u].gen = 1 /\ rows[u].msg \notin Oversized /\ marker.target = 0
        => <<1, u>> \in docs

(* A read mark that was not pushed yet is never lost while the message exists:
   it is on the row or, during a rebuild, in the journal, through resets on
   resets, restarts and reconciliations (mailbox_generation_rebuild_state.go). *)
UnsentChangeKept ==
    \A m \in DOMAIN unsent :
        \/ \E u \in DOMAIN rows : rows[u].msg = m /\ rows[u].pend /\ rows[u].read = unsent[m]
        \/ m \in DOMAIN journal /\ journal[m] = [read |-> unsent[m], pend |-> TRUE]

(* Once a pass has stored a message as new mail, no checkpoint passes it before
   recordInboxArrival has it or the server no longer has the message, whichever
   pass finds the row: only a sparse repair moves the checkpoint without looking
   (syncer.go:1171). *)
NewMailRecorded ==
    \A u \in DOMAIN rows :
        /\ u <= box.last /\ rows[u].gen = box.gen /\ <<box.gen, u>> \in due
        /\ rows[u].msg \in Range(server.mail) \ bypassed
        => rows[u].msg \in announced

(* What the passes over a mailbox keep to at all times: what the checkpoint passed is
   stored, indexed and announced, and what the user changed is not lost. *)
MailboxSafe == CheckpointCovered /\ CompletedIsIndexed /\ UnsentChangeKept /\ NewMailRecorded
====
