---- MODULE Indexing ----
(* Search documents of one mailbox and everything that writes or removes them:
   imports, explicit purges and rebuilds, the visibility setting, the self
   healing of search requests, deletions, and the attachment worker with its
   circular cursor, cooldowns, continuation and retry timer (syncer/index.go,
   attachment_index_queue.go, search_batch.go, store/message_indexing.go).

   A document is full when it was made from the raw message, plain when it was
   made from the row.  Times are ticks that remain; Off is an absent entry. *)
EXTENDS Integers, Sequences, FiniteSets, SequencesExt

CONSTANTS
    Letters,     \* ids of messages (1, 2, ...)
    OldLetters,  \* those that are stored and indexed at the start
    Unreachable, \* those whose raw message cannot be fetched from the server
    PageLimit,   \* attachmentIndexBatchSize
    Checkpoint,  \* maintenanceSearchCheckpointSize
    Cooldown,    \* attachmentIndexRetryCooldown, in ticks
    MaxUpsets    \* bound: requests, deletions, failures and preemptions together

ASSUME IndexingAssumption ==
    /\ Letters \subseteq Nat \ {0} /\ OldLetters \subseteq Letters /\ Unreachable \subseteq Letters
    /\ {PageLimit, Checkpoint, Cooldown} \subseteq Nat \ {0} /\ MaxUpsets \in Nat

VARIABLES
    hydrate,   \* AllowBackgroundAttachmentHydration
    stored,    \* rows of messages
    incoming,  \* those whose import is not complete
    unmarked,  \* those with attachment_indexed_at = 0
    docs,      \* the document of a message: none, plain or full
    raws,      \* messages whose raw file is on disk
    box,       \* include_in_search, search_index_purged and _state_known
    task,      \* the job that holds the mailbox
    heal,      \* a search request that repairs a missing document
    past,      \* rows deleted; their ids do not come back
    removing,  \* rows deleted whose document is not yet deleted
    excused,   \* documents that a request or a crash left behind
    worker,    \* the attachment worker
    cursor, cooling, resume, alarm, wanted,
    upsets

indexVars == <<hydrate, stored, incoming, unmarked, docs, raws, box, task, heal, past, removing, excused, worker,
               cursor, cooling, resume, alarm, wanted, upsets>>
mail == <<stored, incoming, unmarked, docs, raws, excused>>
wakes == <<cursor, cooling, resume, alarm, wanted>>

Off == -1
Nothing == [pc |-> "off"]
Upset == upsets < MaxUpsets /\ upsets' = upsets + 1
Item(m, keep) == [id |-> m, keep |-> keep]
IdsOf(items) == {i.id : i \in items}
Visible == box.include
Least(S) == CHOOSE x \in S : \A y \in S : x <= y

---------------------------------------------------------------------------
(* fetchedSearchIndexBatch: documents first, then the marks. *)
Documented(items, kind) == [m \in Letters |-> IF m \in IdsOf(items) THEN kind[m] ELSE docs[m]]
\* A row that is gone takes the document just written with it.
Settled(items) == [m \in Letters |-> IF m \in IdsOf(items) \ stored THEN "none" ELSE docs[m]]
Marked(items) == unmarked \ {i.id : i \in {j \in items : ~j.keep}}

IndexMessages(items, kind) ==
    /\ docs' = Documented(items, kind)
    /\ excused' = excused \ IdsOf(items)
    /\ UNCHANGED <<stored, incoming, unmarked, raws>>
MarkIndexed(items) ==
    /\ docs' = Settled(items)
    /\ unmarked' = Marked(items)
    /\ UNCHANGED <<stored, raws, excused>>

KindOf(items) == [m \in Letters |-> IF Item(m, FALSE) \in items THEN "full" ELSE "plain"]

---------------------------------------------------------------------------
(* StartAttachmentIndex, after every job, on the alarm and after a pass. *)
ReleasedCooling(c) == [m \in Letters |-> IF c[m] = 0 THEN Off ELSE c[m]]
NextWake(c, r) ==
    LET times == {c[m] : m \in Letters} \cup {r} IN
    IF times = {Off} THEN Off ELSE Least(times \ {Off})

\* c, r, w: cooldowns, continuation and wish before the call; idle: nothing runs.
StartAttachmentIndex(c, r, w, idle) ==
    LET cc == ReleasedCooling(c) IN
    /\ cooling' = cc
    /\ resume' = IF r = 0 THEN Off ELSE r
    /\ IF r > 0
       THEN /\ wanted' = TRUE
            /\ alarm' = NextWake(cc, r)
            /\ worker' = Nothing
       ELSE IF ~idle
       THEN /\ wanted' = TRUE
            /\ alarm' = NextWake(c, r)
            /\ worker' = Nothing
       ELSE /\ wanted' = FALSE
            /\ alarm' = Off
            /\ worker' = [pc |-> "list", stop |-> FALSE]

\* ListMessagesNeedingAttachmentIndexAfter
Ascending(S) == SetToSortSeq(S, <)
Shorter(s, n) == SubSeq(s, 1, IF Len(s) < n THEN Len(s) ELSE n)
CircularPage(need) ==
    LET after == Shorter(Ascending({m \in need : m > cursor}), PageLimit)
        before == Shorter(Ascending({m \in need : m <= cursor}), PageLimit - Len(after))
    IN IF cursor = 0 \/ Len(after) = PageLimit
       THEN [page |-> after, wrapped |-> FALSE]
       ELSE [page |-> after \o before, wrapped |-> before # <<>>]

WorkerLists ==
    /\ worker.pc = "list" /\ ~worker.stop
    /\ unmarked' = IF hydrate THEN unmarked ELSE {}
    /\ LET p == CircularPage(IF box.purged THEN {} ELSE unmarked')
       IN worker' = [pc |-> "page", stop |-> FALSE, page |-> p.page, wrapped |-> p.wrapped, todo |-> p.page,
                     items |-> {}, enriched |-> 0, deferred |-> 0]
    /\ UNCHANGED <<hydrate, stored, incoming, docs, raws, excused, box, task, heal, past, removing, wakes, upsets>>

Flushing(items) == Cardinality(items) >= Checkpoint
TakenBy(items) ==
    LET all == worker.items \cup items
    IN [worker EXCEPT !.todo = Tail(@), !.items = all, !.pc = IF Flushing(all) THEN "index" ELSE "page"]

WorkerSkips(m) ==
    /\ cooling[m] > 0
    /\ worker' = [worker EXCEPT !.todo = Tail(@)]
    /\ UNCHANGED <<mail, cooling, upsets>>

\* The raw message is at hand, or fetched and retained for the next time.
WorkerEnriches(m) ==
    /\ cooling[m] <= 0
    /\ \/ m \in raws
       \/ m \in stored /\ hydrate /\ (Visible => m \notin Unreachable)
    /\ Visible \/ m \in stored
    /\ cooling' = [cooling EXCEPT ![m] = Off]
    /\ worker' = [TakenBy(IF Visible THEN {Item(m, FALSE)} ELSE {}) EXCEPT !.enriched = @ + 1]
    /\ raws' = IF Visible THEN raws \cup {m} ELSE raws
    /\ docs' = IF Visible THEN docs ELSE [docs EXCEPT ![m] = "none"]
    /\ unmarked' = IF Visible THEN unmarked ELSE unmarked \ {m}
    /\ UNCHANGED <<stored, incoming, excused, upsets>>

WorkerDefers(m) ==
    /\ cooling[m] <= 0 /\ m \in stored \ raws /\ hydrate /\ Visible
    /\ IF m \in Unreachable THEN UNCHANGED upsets ELSE Upset
    /\ cooling' = [cooling EXCEPT ![m] = Cooldown]
    /\ worker' = [TakenBy({Item(m, TRUE)}) EXCEPT !.deferred = @ + 1]
    /\ UNCHANGED mail

WorkerItem ==
    /\ worker.pc = "page" /\ ~worker.stop /\ worker.todo # <<>>
    /\ LET m == Head(worker.todo) IN WorkerSkips(m) \/ WorkerEnriches(m) \/ WorkerDefers(m)
    /\ UNCHANGED <<hydrate, box, task, heal, past, removing, cursor, resume, alarm, wanted>>

WorkerIndexes ==
    /\ \/ worker.pc = "index"
       \/ worker.pc = "page" /\ ~worker.stop /\ worker.todo = <<>> /\ worker.items # {}
    /\ IndexMessages(worker.items, KindOf(worker.items))
    /\ worker' = [worker EXCEPT !.pc = "mark"]
    /\ UNCHANGED <<hydrate, box, task, heal, past, removing, wakes, upsets>>

WorkerMarks ==
    /\ worker.pc = "mark"
    /\ MarkIndexed(worker.items) /\ UNCHANGED incoming
    /\ worker' = [worker EXCEPT !.pc = "page", !.items = {}]
    /\ UNCHANGED <<hydrate, box, task, heal, past, removing, wakes, upsets>>

---------------------------------------------------------------------------
(* The end of a pass. *)
Waits == worker.enriched = 0 /\ Len(worker.page) = PageLimit
Continues == Waits /\ (~worker.wrapped \/ worker.deferred > 0)
More == Len(worker.page) = PageLimit /\ ~Waits
NextCursor == IF worker.page = <<>> THEN cursor ELSE Last(worker.page)

WorkerEnds ==
    /\ worker.pc = "page" /\ ~worker.stop /\ worker.todo = <<>> /\ worker.items = {}
    /\ cursor' = NextCursor
    /\ LET r == IF Continues /\ resume = Off THEN 1 ELSE resume
           again == (wanted \/ More) /\ task = Nothing
       IN IF again
          THEN StartAttachmentIndex(cooling, r, TRUE, TRUE)
          ELSE /\ resume' = r /\ cooling' = cooling
               /\ alarm' = NextWake(cooling, r)
               /\ wanted' = (wanted \/ More)
               /\ worker' = Nothing
    /\ UNCHANGED <<hydrate, mail, box, task, heal, past, removing, upsets>>

\* Cancelled, a row of the page is gone, or SQLite or Bleve failed: no alarm is set.
Vanished == worker.pc = "page" /\ worker.todo # <<>> /\ Head(worker.todo) \notin stored
WorkerFails ==
    /\ worker.pc \in {"list", "page", "index", "mark"}
    /\ IF worker.stop \/ Vanished THEN UNCHANGED upsets ELSE Upset
    /\ wanted' = TRUE
    /\ worker' = Nothing
    /\ excused' = IF worker.pc = "mark" THEN excused \cup IdsOf(worker.items) ELSE excused
    /\ UNCHANGED <<hydrate, stored, incoming, unmarked, docs, raws, box, task, heal, past, removing, cursor, cooling, resume, alarm>>

AlarmRings ==
    /\ alarm = 0 /\ worker = Nothing
    /\ StartAttachmentIndex(cooling, resume, wanted, task = Nothing)
    /\ UNCHANGED <<hydrate, mail, box, task, heal, past, removing, cursor, upsets>>

Later(t) == IF t > 0 THEN t - 1 ELSE t
TimePasses ==
    /\ \/ resume > 0
       \/ \E m \in Letters : cooling[m] > 0
    /\ cooling' = [m \in Letters |-> Later(cooling[m])]
    /\ resume' = Later(resume) /\ alarm' = Later(alarm)
    /\ UNCHANGED <<hydrate, mail, box, task, heal, past, removing, worker, cursor, wanted, upsets>>

---------------------------------------------------------------------------
(* Jobs hold the mailbox; the worker is cancelled and awaited. *)
Kinds == {"sync", "purge", "rebuild", "enable", "disable"}
Accepts(kind) ==
    CASE kind = "rebuild" -> box.include
      [] kind = "enable" -> ~box.include
      [] kind = "disable" -> box.include
      [] OTHER -> TRUE

\* The scheduler syncs again and again; everything else is a request.
TaskStarts(kind) ==
    /\ task = Nothing /\ Accepts(kind)
    /\ IF kind = "sync" /\ worker = Nothing THEN UNCHANGED upsets ELSE Upset
    /\ task' = [pc |-> "wait", kind |-> kind]
    /\ worker' = IF worker = Nothing THEN worker ELSE [worker EXCEPT !.stop = TRUE]
    /\ wanted' = (wanted \/ worker # Nothing)
    /\ UNCHANGED <<hydrate, mail, box, heal, past, removing, cursor, cooling, resume, alarm>>

PurgeMarkedLast == box
PurgeMarked == [box EXCEPT !.purged = TRUE, !.known = TRUE]
\* PreparePurgedMailboxSearchIndexRepair
RepairPrepared == IF box.purged THEN [box EXCEPT !.purged = FALSE, !.known = FALSE] ELSE box

\* The first transaction of a job, once the worker is gone.
TaskSetsUp ==
    /\ task.pc = "wait" /\ worker = Nothing
    /\ \/ /\ task.kind = "sync"
          /\ box' = IF box.include THEN RepairPrepared ELSE box
          /\ task' = [pc |-> "import", kind |-> "sync", items |-> {}]
          /\ UNCHANGED unmarked
       \/ /\ task.kind \in {"purge", "rebuild"}
          /\ box' = PurgeMarked
          /\ task' = [pc |-> "delete", kind |-> task.kind]
          /\ UNCHANGED unmarked
       \/ /\ task.kind = "enable"
          /\ box' = [include |-> TRUE, purged |-> FALSE, known |-> FALSE]
          /\ unmarked' = stored
          /\ task' = [pc |-> "fill", kind |-> "enable", after |-> 0, items |-> {}]
       \/ /\ task.kind = "disable"
          /\ box' = [box EXCEPT !.include = FALSE]
          /\ task' = [pc |-> "hide", kind |-> "disable", after |-> 0]
          /\ UNCHANGED unmarked
    /\ UNCHANGED <<hydrate, stored, incoming, docs, raws, excused, heal, past, removing, worker, wakes, upsets>>

\* storeFetchedMessage and the batch of the pass.
Import(m) ==
    /\ task.pc = "import" /\ m \notin (stored \ incoming) \cup past \cup IdsOf(task.items)
    /\ m \notin stored => Upset
    /\ m \in stored => UNCHANGED upsets
    /\ stored' = stored \cup {m}
    /\ incoming' = IF Visible THEN incoming \cup {m} ELSE incoming \ {m}
    /\ raws' \in {raws, raws \cup {m}}
    /\ unmarked' = IF ~Visible THEN unmarked \ {m} ELSE IF m \in stored THEN unmarked ELSE unmarked \cup {m}
    /\ task' = [task EXCEPT !.items = IF Visible THEN @ \cup {Item(m, FALSE)} ELSE @]
    /\ UNCHANGED <<hydrate, docs, excused, box, heal, past, removing, worker, wakes>>

\* DeleteMessagesWithProgress of the index, in batches.
PurgeDeletes(m) ==
    /\ task.pc = "delete" /\ docs[m] # "none"
    /\ docs' = [docs EXCEPT ![m] = "none"]
    /\ UNCHANGED <<hydrate, stored, incoming, unmarked, raws, excused, box, task, heal, past, removing, worker, wakes, upsets>>

\* RepairMailboxSearchIndex of a rebuild: the ids in the index are read once.
RepairBegins ==
    /\ task.pc = "delete" /\ task.kind = "rebuild" /\ \A m \in Letters : docs[m] = "none"
    /\ box' = RepairPrepared
    /\ task' = [pc |-> "fill", kind |-> "rebuild", after |-> 0, items |-> {}]
    /\ UNCHANGED <<hydrate, mail, heal, past, removing, worker, wakes, upsets>>

\* The next row by id: from the raw message, or for a rebuild from the row, kept
\* for later enrichment.
FillNext(m) ==
    /\ task.pc = "fill" /\ m \in stored /\ m > task.after
    /\ \A x \in stored : x > task.after => m <= x
    /\ \/ /\ m \in raws \/ m \notin Unreachable
          /\ task' = [task EXCEPT !.after = m, !.items = @ \cup {Item(m, FALSE)}]
          /\ raws' = raws \cup {m}
          /\ cooling' = [cooling EXCEPT ![m] = Off]
          /\ UNCHANGED <<unmarked, upsets>>
       \/ /\ task.kind = "rebuild" /\ m \notin raws
          /\ IF m \in Unreachable THEN UNCHANGED upsets ELSE Upset
          /\ task' = [task EXCEPT !.after = m, !.items = @ \cup {Item(m, TRUE)}]
          /\ cooling' = [cooling EXCEPT ![m] = Cooldown]
          /\ unmarked' = unmarked \cup {m}
          /\ UNCHANGED raws
    /\ UNCHANGED <<hydrate, stored, incoming, docs, excused, box, heal, past, removing, worker, cursor, resume, alarm, wanted>>

Drained == \A m \in stored : m <= task.after
TaskIndexes ==
    /\ task.pc \in {"import", "fill"} /\ task.items # {}
    /\ IndexMessages(task.items, KindOf(task.items))
    /\ task' = [pc |-> "mark", from |-> task]
    /\ UNCHANGED <<hydrate, box, heal, past, removing, worker, wakes, upsets>>
TaskMarks ==
    /\ task.pc = "mark"
    /\ MarkIndexed(task.from.items)
    /\ incoming' = IF task.from.kind = "sync" THEN incoming \ IdsOf(task.from.items) ELSE incoming
    /\ task' = [task.from EXCEPT !.items = {}]
    /\ UNCHANGED <<hydrate, box, heal, past, removing, worker, wakes, upsets>>

\* ReconcileMailboxSearchIndex of a mailbox that is hidden.
HideNext(m) ==
    /\ task.pc = "hide" /\ m \in stored /\ m > task.after
    /\ \A x \in stored : x > task.after => m <= x
    /\ docs' = [docs EXCEPT ![m] = "none"]
    /\ task' = [task EXCEPT !.after = m]
    /\ UNCHANGED <<hydrate, stored, incoming, unmarked, raws, excused, box, heal, past, removing, worker, wakes, upsets>>

ActiveWhenDrained == task.items = {} /\ Drained
FillEnds ==
    /\ task.pc = "fill" /\ ActiveWhenDrained
    /\ box' = [box EXCEPT !.purged = FALSE, !.known = TRUE]
    /\ task' = [pc |-> "end"]
    /\ UNCHANGED <<hydrate, mail, heal, past, removing, worker, wakes, upsets>>

TaskEnds ==
    /\ \/ task.pc = "end"
       \/ task.pc = "import" /\ task.items = {}
       \/ task.pc = "hide" /\ Drained
       \/ task.pc = "delete" /\ task.kind = "purge" /\ \A m \in Letters : docs[m] = "none"
    /\ task' = Nothing
    /\ StartAttachmentIndex(cooling, resume, wanted, TRUE)
    /\ UNCHANGED <<hydrate, mail, box, heal, past, removing, cursor, upsets>>

\* An error of a step ends the job where it is; a raw message that cannot be
\* had ends enabling.
TaskFails ==
    /\ task # Nothing /\ worker = Nothing
    /\ IF task.pc = "fill" /\ task.kind = "enable" /\ \E m \in stored \cap Unreachable : m > task.after /\ m \notin raws
       THEN UNCHANGED upsets ELSE Upset
    /\ excused' = IF task.pc = "mark" THEN excused \cup IdsOf(task.from.items) ELSE excused
    /\ task' = Nothing
    /\ StartAttachmentIndex(cooling, resume, wanted, TRUE)
    /\ UNCHANGED <<hydrate, stored, incoming, unmarked, docs, raws, box, heal, past, removing, cursor>>

---------------------------------------------------------------------------
(* ensureSearchDocuments: the rows, what the index has, the missing ones. *)
HealReads(m) ==
    /\ heal = Nothing /\ m \in stored /\ Visible /\ Upset
    /\ heal' = [pc |-> "check", id |-> m]
    /\ UNCHANGED <<hydrate, mail, box, task, past, removing, worker, wakes>>
HealChecks ==
    /\ heal.pc = "check"
    /\ heal' = IF docs[heal.id] = "none" THEN [heal EXCEPT !.pc = "index"] ELSE Nothing
    /\ UNCHANGED <<hydrate, mail, box, task, past, removing, worker, wakes, upsets>>
HealIndexes ==
    /\ heal.pc = "index"
    /\ docs' = [docs EXCEPT ![heal.id] = "plain"]
    /\ excused' = excused \cup {heal.id}
    /\ heal' = Nothing
    /\ UNCHANGED <<hydrate, stored, incoming, unmarked, raws, box, task, past, removing, worker, wakes, upsets>>

\* A move or a deletion: the row, then its document.
RowDeleted(m) ==
    /\ m \in stored /\ Upset
    /\ stored' = stored \ {m} /\ incoming' = incoming \ {m} /\ unmarked' = unmarked \ {m}
    /\ past' = past \cup {m}
    /\ removing' = removing \cup {m}
    /\ UNCHANGED <<hydrate, docs, raws, excused, box, task, heal, worker, wakes>>
DocumentDeleted(m) ==
    /\ m \in removing
    /\ removing' = removing \ {m}
    /\ docs' = [docs EXCEPT ![m] = "none"]
    /\ UNCHANGED <<hydrate, stored, incoming, unmarked, raws, excused, box, task, heal, past, worker, wakes, upsets>>

\* The cursor, the cooldowns and the alarm live in memory; the worker starts
\* with the process.
IndexCrash ==
    /\ Upset
    /\ excused' = excused \cup removing
                  \cup (IF task.pc = "mark" THEN IdsOf(task.from.items) ELSE {})
                  \cup (IF worker.pc = "mark" THEN IdsOf(worker.items) ELSE {})
    /\ task' = Nothing /\ heal' = Nothing /\ removing' = {}
    /\ cursor' = 0 /\ cooling' = [m \in Letters |-> Off] /\ resume' = Off /\ alarm' = Off /\ wanted' = FALSE
    /\ worker' = [pc |-> "list", stop |-> FALSE]
    /\ UNCHANGED <<hydrate, stored, incoming, unmarked, docs, raws, box, past>>

---------------------------------------------------------------------------
IndexingInit ==
    /\ hydrate \in BOOLEAN
    /\ stored = OldLetters /\ incoming = {}
    /\ raws = OldLetters \ Unreachable
    /\ \/ unmarked = {} /\ docs = [m \in Letters |-> IF m \in OldLetters THEN "full" ELSE "none"]
          /\ box = [include |-> TRUE, purged |-> FALSE, known |-> TRUE]
       \/ unmarked = OldLetters /\ docs = [m \in Letters |-> "none"]
          /\ box = [include |-> TRUE, purged |-> FALSE, known |-> FALSE]
    /\ task = Nothing /\ heal = Nothing /\ past = {} /\ removing = {} /\ excused = {}
    /\ worker = [pc |-> "list", stop |-> FALSE]
    /\ cursor = 0 /\ cooling = [m \in Letters |-> Off] /\ resume = Off /\ alarm = Off /\ wanted = FALSE
    /\ upsets = 0

WorkerStep == WorkerLists \/ WorkerItem \/ WorkerIndexes \/ WorkerMarks \/ WorkerEnds \/ WorkerFails
TaskStep ==
    \/ TaskSetsUp \/ RepairBegins \/ TaskIndexes \/ TaskMarks \/ FillEnds \/ TaskEnds \/ TaskFails
    \/ \E m \in Letters : PurgeDeletes(m) \/ FillNext(m) \/ HideNext(m)

IndexingNext ==
    \/ WorkerStep \/ TaskStep \/ AlarmRings \/ TimePasses \/ HealChecks \/ HealIndexes \/ IndexCrash
    \/ \E kind \in Kinds : TaskStarts(kind)
    \/ \E m \in Letters : Import(m) \/ HealReads(m) \/ RowDeleted(m) \/ DocumentDeleted(m)

\* The worker and the jobs run; the alarm is a timer; the scheduler syncs for ever.
IndexingFairness ==
    /\ WF_indexVars(WorkerStep) /\ WF_indexVars(TaskStep)
    /\ WF_indexVars(AlarmRings) /\ WF_indexVars(TimePasses)
    /\ SF_indexVars(TaskStarts("sync"))
IndexingSpec == IndexingInit /\ [][IndexingNext]_indexVars /\ IndexingFairness

---------------------------------------------------------------------------
(* A mailbox whose coverage the settings page calls verified has a document for
   every message whose import is complete: purges, rebuilds and
   enabling may stop at any step (message_indexing.go:367). *)
VerifiedIsCovered ==
    box.include /\ box.known /\ ~box.purged =>
        \A m \in stored \ incoming : docs[m] # "none"

(* No document outlives its message, unless a request or a crash wrote it: rows
   may go while a batch with their documents waits (search_batch.go:133). *)
NoOrphanDocument ==
    \A m \in Letters : docs[m] # "none" /\ m \notin stored =>
        \/ m \in removing \cup excused
        \/ task.pc = "mark" /\ m \in IdsOf(task.from.items)
        \/ worker.pc = "mark" /\ m \in IdsOf(worker.items)

(* What rows and documents keep to at all times: neither is without the other. *)
DocumentsSafe == VerifiedIsCovered /\ NoOrphanDocument

(* A message that waits for enrichment and can be fetched does not wait for
   ever behind those that cannot: the page is circular, cooldowns and the
   continuation end, and failures leave a wish that the next job grants
   (message_indexing.go:139, attachment_index_queue.go:117). *)
EnrichmentEnds ==
    \A m \in Letters \ Unreachable : (m \in unmarked) ~> (m \notin unmarked \/ box.purged)
====
