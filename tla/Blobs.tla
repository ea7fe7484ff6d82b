---- MODULE Blobs ----
(* Raw message files, their metadata rows and everything that creates, prunes
   or removes them: imports, the on-demand cache, search repair, retention,
   generation resets, deletions of messages and of accounts, and the two
   durable cleanup journals (blob, store/blobs.go, blob_cleanup_queue.go,
   message_body.go, syncer/retention.go, purge.go).

   A path is fixed by mailbox, UID and hash of a message, so an import after a
   purge or a reset writes the same file again.  Mailboxes whose names differ
   only in characters that safeSegment replaces share their paths: Twins. *)
EXTENDS Naturals, FiniteSets, FiniteSetsExt

CONSTANTS
    Mails,       \* messages, each in a mailbox of its own (1, 2, ...)
    Twins,       \* messages with one path
    MaxBlobs,    \* bound: metadata rows created
    MaxMishaps   \* bound: deletions, resets, ageing, seconds of blobs.created_at,
                 \* crashes, failed file deletions and failed commits together

ASSUME BlobsAssumption ==
    /\ Mails \subseteq Nat \ {0} /\ Twins \subseteq Mails
    /\ {MaxBlobs, MaxMishaps} \subseteq Nat

VARIABLES
    files,      \* paths that exist on disk
    blobs,      \* rows of blobs: path, kind, created
    rows,       \* rows of messages: blob and exposed path; 0 is the copy of the outbox
    attached,   \* blob named by the attachments of a message
    queue,      \* blob_cleanup_queue: path and created by blob
    gqueue,     \* mailbox_generation_blob_cleanup: path and mailbox by blob
    job,        \* blob of the outbox job, 0 when there is none
    aged,       \* messages older than the retention
    mbox,       \* the job of a mailbox: import, repair or deletion
    view,       \* the request that shows a message
    prune,      \* storageRetention
    purge,      \* the deletion of the account
    stale,      \* blobs that a reset left without a message, and nothing since
    made, clock, mishaps

blobVars == <<files, blobs, rows, attached, queue, gqueue, job, aged, mbox, view, prune, purge, stale, made, clock, mishaps>>
db == <<blobs, rows, attached, queue, gqueue, job, stale>>
bounds == <<made, clock, mishaps>>

Resting == [pc |-> "idle"]
Unkeyed(f, x) == [y \in DOMAIN f \ {x} |-> f[y]]
Keyed(f, x, v) == [y \in DOMAIN f \cup {x} |-> IF y = x THEN v ELSE f[y]]
PathKey(m) == IF m \in Twins THEN Min(Twins) ELSE m
FilePath(m) == <<"file", PathKey(m)>>
RemotePath(m) == <<"remote", PathKey(m)>>
SpoolPath(b) == <<"spool", b>>
NoPath == <<>>
OwnersOf(path) == {b \in DOMAIN blobs : blobs[b].path = path}

Referenced(b) == (\E m \in DOMAIN rows : rows[m].blob = b) \/ (\E m \in DOMAIN attached : attached[m] = b)
\* ON DELETE RESTRICT of messages, attachments and outbox_jobs.
Restricted(b) == Referenced(b) \/ job = b
Exposed(path) == path # NoPath /\ \E m \in DOMAIN rows : rows[m].path = path

---------------------------------------------------------------------------
(* Storing a fetched message: file, metadata, message, attachments. *)
SaveRawMessage(m) ==
    /\ mbox[m] = Resting /\ purge = Resting
    /\ m \in DOMAIN rows => m \notin DOMAIN attached
    /\ LET path == IF m \in aged THEN RemotePath(m) ELSE FilePath(m)
       IN /\ files' = IF m \in aged THEN files ELSE files \cup {path}
          /\ mbox' = [mbox EXCEPT ![m] = [pc |-> "saved", path |-> path]]
    /\ UNCHANGED <<db, aged, view, prune, purge, bounds>>

\* The upsert keeps the id of a row that owns the path.
Upserted(path, kind, fresh) ==
    LET b == IF OwnersOf(path) = {} THEN fresh ELSE CHOOSE b \in OwnersOf(path) : TRUE
    IN [id |-> b, table |-> Keyed(blobs, b, [path |-> path, kind |-> kind, created |-> clock])]

CreateBlob(m) ==
    /\ mbox[m].pc = "saved"
    /\ OwnersOf(mbox[m].path) = {} => made < MaxBlobs
    /\ LET u == Upserted(mbox[m].path, IF mbox[m].path[1] = "file" THEN "message" ELSE "message-remote", made + 1)
       IN /\ blobs' = u.table
          /\ made' = IF u.id > made THEN u.id ELSE made
          /\ mbox' = [mbox EXCEPT ![m] = [pc |-> "blobbed", path |-> mbox[m].path, blob |-> u.id]]
    /\ UNCHANGED <<files, rows, attached, queue, gqueue, job, aged, view, prune, purge, stale, clock, mishaps>>

\* CreateMessage keeps a row that is there; the foreign key or a generation that
\* changed refuse it, and the blob is cleaned up.
StoreMessage(m) ==
    /\ mbox[m].pc = "blobbed"
    /\ \/ /\ mbox[m].blob \in DOMAIN blobs
          /\ rows' = IF m \in DOMAIN rows THEN rows
                     ELSE Keyed(rows, m, [blob |-> mbox[m].blob,
                                          path |-> IF mbox[m].path[1] = "file" THEN mbox[m].path ELSE NoPath])
          /\ stale' = IF m \in DOMAIN rows THEN stale ELSE stale \ {mbox[m].blob}
          /\ mbox' = [mbox EXCEPT ![m] = [pc |-> "attachments", blob |-> mbox[m].blob]]
          /\ UNCHANGED mishaps
       \/ /\ mbox[m].blob \notin DOMAIN blobs \/ mishaps < MaxMishaps
          /\ mishaps' = IF mbox[m].blob \in DOMAIN blobs THEN mishaps + 1 ELSE mishaps
          /\ mbox' = [mbox EXCEPT ![m] = [pc |-> "clean", blob |-> mbox[m].blob, then |-> "idle"]]
          /\ UNCHANGED <<rows, stale>>
    /\ UNCHANGED <<files, blobs, attached, queue, gqueue, job, aged, view, prune, purge, made, clock>>

CreateAttachments(m) ==
    /\ mbox[m].pc = "attachments"
    /\ attached' = IF m \in DOMAIN rows /\ mbox[m].blob \in DOMAIN blobs THEN Keyed(attached, m, mbox[m].blob) ELSE attached
    /\ mbox' = [mbox EXCEPT ![m] = Resting]
    /\ UNCHANGED <<files, blobs, rows, queue, gqueue, job, aged, view, prune, purge, stale, bounds>>

---------------------------------------------------------------------------
(* attachMessageBlob: the raw file of a row that had none. *)
Attached(m, kind) ==
    LET path == FilePath(m)
        previous == rows[m].blob
        target == IF OwnersOf(path) = {} THEN previous ELSE CHOOSE b \in OwnersOf(path) : TRUE
    IN /\ blobs' = Keyed(blobs, target, [path |-> path, kind |-> kind, created |-> clock])
       /\ rows' = Keyed(rows, m, [blob |-> target, path |-> path])
       /\ attached' = IF m \in DOMAIN attached /\ attached[m] = previous THEN Keyed(attached, m, target) ELSE attached
       /\ stale' = stale \ {target, previous}
AttachMessageBlob(m, kind) == Attached(m, kind)

\* FetchAndCacheRawMessageForMessage of a row without a file.
FetchAndCache(m) ==
    /\ view[m] = Resting /\ m \in DOMAIN rows /\ rows[m].path = NoPath
    /\ files' = files \cup {FilePath(m)}
    /\ view' = [view EXCEPT ![m] = [pc |-> "cache"]]
    /\ UNCHANGED <<db, aged, mbox, prune, purge, bounds>>

CacheMessageBlob(m) ==
    /\ view[m].pc = "cache"
    /\ IF m \in DOMAIN rows THEN AttachMessageBlob(m, "message-cache") ELSE UNCHANGED <<blobs, rows, attached, stale>>
    /\ view' = [view EXCEPT ![m] = Resting]
    /\ UNCHANGED <<files, queue, gqueue, job, aged, mbox, prune, purge, bounds>>

\* retainFetchedRawMessageForIndexRepair
RepairSaves(m) ==
    /\ mbox[m] = Resting /\ purge = Resting /\ m \in DOMAIN rows /\ m \notin aged
    /\ rows[m].path \notin files
    /\ files' = files \cup {FilePath(m)}
    /\ mbox' = [mbox EXCEPT ![m] = [pc |-> "retain", blob |-> rows[m].blob]]
    /\ UNCHANGED <<db, aged, view, prune, purge, bounds>>

RetainMessageBlob(m) ==
    /\ mbox[m].pc = "retain"
    /\ \/ /\ m \in DOMAIN rows
          /\ AttachMessageBlob(m, "message")
          /\ mbox' = [mbox EXCEPT ![m] = IF rows'[m].blob = mbox[m].blob THEN Resting
                                         ELSE [pc |-> "clean", blob |-> mbox[m].blob, then |-> "idle"]]
          /\ UNCHANGED mishaps
       \/ /\ mishaps < MaxMishaps /\ mishaps' = mishaps + 1
          /\ mbox' = [mbox EXCEPT ![m] = IF OwnersOf(FilePath(m)) = {} THEN [pc |-> "drop"]
                                         ELSE [pc |-> "clean", blob |-> CHOOSE b \in OwnersOf(FilePath(m)) : TRUE, then |-> "inuse"]]
          /\ UNCHANGED <<blobs, rows, attached, stale>>
    /\ UNCHANGED <<files, queue, gqueue, job, aged, view, prune, purge, made, clock>>

\* cleanupFailedRetainedMessageBlob after deleteUnreferencedBlob kept the row.
BlobPathInUse(m) ==
    /\ mbox[m].pc = "inuse"
    /\ mbox' = [mbox EXCEPT ![m] = IF Exposed(FilePath(m)) THEN Resting ELSE [pc |-> "drop"]]
    /\ UNCHANGED <<files, db, aged, view, prune, purge, bounds>>
DropFile(m) ==
    /\ mbox[m].pc = "drop"
    /\ files' = files \ {FilePath(m)}
    /\ mbox' = [mbox EXCEPT ![m] = Resting]
    /\ UNCHANGED <<db, aged, view, prune, purge, bounds>>

---------------------------------------------------------------------------
(* deleteUnreferencedBlob: a journal entry first, then its completion. *)
Queued(b) == IF b \in DOMAIN blobs /\ ~Referenced(b)
             THEN Keyed(queue, b, [path |-> blobs[b].path, created |-> blobs[b].created]) ELSE queue

QueueBlobCleanup(m) ==
    /\ mbox[m].pc = "clean"
    /\ LET b == mbox[m].blob
       IN /\ queue' = Queued(b)
          /\ mbox' = [mbox EXCEPT ![m] = IF b \in DOMAIN blobs /\ ~Referenced(b) THEN [pc |-> "complete", blob |-> b]
                                         ELSE [pc |-> mbox[m].then]]
    /\ UNCHANGED <<files, blobs, rows, attached, gqueue, job, aged, view, prune, purge, stale, bounds>>

OvertakenUnchecked(b, e) == b \notin DOMAIN blobs /\ OwnersOf(e.path) # {}
\* The entry is obsolete: the row changed since, is in use, or the path has
\* another owner.
Overtaken(b, e) ==
    IF b \in DOMAIN blobs
    THEN blobs[b].path # e.path \/ blobs[b].created # e.created \/ Referenced(b)
    ELSE OwnersOf(e.path) # {}

FinishBlobCleanup(b) == Unkeyed(queue, b)

\* CompleteBlobCleanup: the file goes inside of the transaction, which the
\* outbox may still refuse; a failed commit keeps the entry.
CompleteBlobCleanup(b) ==
    LET e == queue[b] IN
    \/ /\ Overtaken(b, e)
       /\ queue' = FinishBlobCleanup(b)
       /\ stale' = IF Referenced(b) THEN stale \ {b} ELSE stale
       /\ UNCHANGED <<files, blobs, mishaps>>
    \/ /\ ~Overtaken(b, e)
       /\ files' = files \ {e.path}
       /\ \/ /\ ~Restricted(b)
             /\ queue' = FinishBlobCleanup(b)
             /\ blobs' = Unkeyed(blobs, b)
             /\ stale' = stale \ {b}
             /\ UNCHANGED mishaps
          \/ /\ Restricted(b) \/ mishaps < MaxMishaps
             /\ mishaps' = IF Restricted(b) THEN mishaps ELSE mishaps + 1
             /\ UNCHANGED <<queue, blobs, stale>>
    \/ /\ ~Overtaken(b, e) /\ mishaps < MaxMishaps /\ mishaps' = mishaps + 1
       /\ UNCHANGED <<files, queue, blobs, stale>>

FinishCleanup(m) ==
    /\ mbox[m].pc = "complete"
    /\ IF mbox[m].blob \in DOMAIN queue THEN CompleteBlobCleanup(mbox[m].blob)
                                        ELSE UNCHANGED <<files, queue, blobs, stale, mishaps>>
    /\ mbox' = [mbox EXCEPT ![m] = Resting]
    /\ UNCHANGED <<rows, attached, gqueue, job, aged, view, prune, purge, made, clock>>

\* drainPendingBlobCleanupsForUser, at the start and before every pass.
DrainBlobCleanup(b) ==
    /\ b \in DOMAIN queue
    /\ CompleteBlobCleanup(b)
    /\ UNCHANGED <<rows, attached, gqueue, job, aged, mbox, view, prune, purge, made, clock>>

---------------------------------------------------------------------------
(* Deletions. *)
\* Reconciliation, a move or a purge of the mailbox.
DeleteMessage(m) ==
    /\ mbox[m] = Resting /\ purge = Resting /\ m \in DOMAIN rows /\ mishaps < MaxMishaps
    /\ mishaps' = mishaps + 1
    /\ rows' = Unkeyed(rows, m) /\ attached' = Unkeyed(attached, m)
    /\ stale' = stale \ {rows[m].blob}
    /\ mbox' = [mbox EXCEPT ![m] = [pc |-> "clean", blob |-> rows[m].blob, then |-> "idle"]]
    /\ UNCHANGED <<files, blobs, queue, gqueue, job, aged, view, prune, purge, made, clock>>

JournaledFilesOnly(m) ==
    IF rows[m].path = NoPath THEN gqueue ELSE Keyed(gqueue, rows[m].blob, [path |-> rows[m].path, box |-> m])
Journaled(m) == Keyed(gqueue, rows[m].blob, [path |-> blobs[rows[m].blob].path, box |-> m])

ResetGeneration(m) ==
    /\ mbox[m] = Resting /\ purge = Resting /\ m \in DOMAIN rows /\ mishaps < MaxMishaps
    /\ mishaps' = mishaps + 1
    /\ gqueue' = Journaled(m)
    /\ rows' = Unkeyed(rows, m) /\ attached' = Unkeyed(attached, m)
    /\ stale' = stale \cup {rows[m].blob}
    /\ UNCHANGED <<files, blobs, queue, job, aged, mbox, view, prune, purge, made, clock>>

\* CompleteMailboxGenerationBlobCleanup, after a pass over the mailbox.
GenerationCleanup(b) ==
    /\ b \in DOMAIN gqueue /\ mbox[gqueue[b].box] = Resting
    /\ LET path == gqueue[b].path
           over == IF b \in DOMAIN blobs THEN blobs[b].path # path \/ Referenced(b) ELSE OwnersOf(path) # {}
       IN \/ /\ over
             /\ gqueue' = Unkeyed(gqueue, b)
             /\ stale' = IF Referenced(b) THEN stale \ {b} ELSE stale
             /\ UNCHANGED <<files, blobs, mishaps>>
          \/ /\ ~over
             /\ files' = files \ {path}
             /\ \/ /\ ~Restricted(b)
                   /\ gqueue' = Unkeyed(gqueue, b)
                   /\ blobs' = Unkeyed(blobs, b) /\ stale' = stale \ {b}
                   /\ UNCHANGED mishaps
                \/ /\ mishaps < MaxMishaps /\ mishaps' = mishaps + 1
                   /\ UNCHANGED <<gqueue, blobs, stale>>
    /\ UNCHANGED <<rows, attached, queue, job, aged, mbox, view, prune, purge, made, clock>>

---------------------------------------------------------------------------
(* Retention. *)
Age(m) ==
    /\ m \notin aged /\ mishaps < MaxMishaps /\ mishaps' = mishaps + 1
    /\ aged' = aged \cup {m}
    /\ UNCHANGED <<files, db, mbox, view, prune, purge, made, clock>>

Prunable(m) ==
    /\ m \in DOMAIN rows /\ rows[m].path # NoPath
    /\ \/ m \in aged
       \/ blobs[rows[m].blob].kind = "message-cache" /\ blobs[rows[m].blob].created < clock

ListPrunable(m) ==
    /\ prune = Resting /\ Prunable(m)
    /\ prune' = [pc |-> "delete", mail |-> m, blob |-> rows[m].blob, path |-> rows[m].path]
    /\ UNCHANGED <<files, db, aged, mbox, view, purge, bounds>>

PruneFile ==
    /\ prune.pc = "delete"
    /\ files' = files \ {prune.path}
    /\ prune' = [prune EXCEPT !.pc = "mark"]
    /\ UNCHANGED <<db, aged, mbox, view, purge, bounds>>

MarkMessageBlobPruned ==
    /\ prune.pc = "mark"
    /\ IF prune.mail \in DOMAIN rows /\ rows[prune.mail].blob = prune.blob
       THEN /\ rows' = [rows EXCEPT ![prune.mail].path = NoPath]
            /\ blobs' = [blobs EXCEPT ![prune.blob].kind = "message-remote"]
       ELSE UNCHANGED <<rows, blobs>>
    /\ prune' = Resting
    /\ UNCHANGED <<files, attached, queue, gqueue, job, aged, mbox, view, purge, stale, bounds>>

---------------------------------------------------------------------------
(* The outbox and the deletion of the account. *)
\* enqueueOutgoing: spool file, metadata, job and its copy in Sent (Outbox).
EnqueueOutgoing ==
    /\ job = 0 /\ 0 \notin DOMAIN rows /\ made < MaxBlobs /\ mishaps < MaxMishaps
    /\ mishaps' = mishaps + 1
    /\ made' = made + 1 /\ job' = made + 1
    /\ files' = files \cup {SpoolPath(made + 1)}
    /\ blobs' = Keyed(blobs, made + 1, [path |-> SpoolPath(made + 1), kind |-> "outbox-message", created |-> clock])
    /\ rows' = Keyed(rows, 0, [blob |-> made + 1, path |-> SpoolPath(made + 1)])
    /\ UNCHANGED <<attached, queue, gqueue, aged, mbox, view, prune, purge, stale, clock>>

\* PurgeAccountLocalDataWithProgress: the jobs with their copies, then the
\* messages of the account, each followed by the cleanup of what they used.
PurgeOutboxJobs ==
    /\ purge = Resting /\ mishaps < MaxMishaps /\ \A m \in Mails : mbox[m] = Resting
    /\ mishaps' = mishaps + 1
    /\ purge' = [pc |-> "clean", todo |-> {job} \ {0}, then |-> "batch"]
    /\ job' = 0
    /\ rows' = IF job = 0 THEN rows ELSE Unkeyed(rows, 0)
    /\ UNCHANGED <<files, blobs, attached, queue, gqueue, aged, mbox, view, prune, stale, made, clock>>

PurgeAccountMessageBatch ==
    /\ purge.pc = "batch"
    /\ purge' = [pc |-> "clean", then |-> "idle",
                 todo |-> {rows[m].blob : m \in DOMAIN rows} \cup {attached[m] : m \in DOMAIN attached}]
    /\ stale' = stale \ purge'.todo
    /\ rows' = [m \in {} |-> 0] /\ attached' = [m \in {} |-> 0]
    /\ UNCHANGED <<files, blobs, queue, gqueue, job, aged, mbox, view, prune, bounds>>

\* cleanupPurgedBlobRecords; both transactions of one blob.
PurgeCleans(b) ==
    /\ purge.pc = "clean" /\ b \in purge.todo
    /\ \/ /\ b \notin DOMAIN queue /\ b \in DOMAIN blobs /\ ~Referenced(b)
          /\ queue' = Queued(b)
          /\ UNCHANGED <<files, blobs, stale, mishaps, purge>>
       \/ /\ b \in DOMAIN queue
          /\ CompleteBlobCleanup(b)
          /\ purge' = [purge EXCEPT !.todo = @ \ {b}]
       \/ /\ b \notin DOMAIN queue /\ (b \notin DOMAIN blobs \/ Referenced(b))
          /\ purge' = [purge EXCEPT !.todo = @ \ {b}]
          /\ UNCHANGED <<files, queue, blobs, stale, mishaps>>
    /\ UNCHANGED <<rows, attached, gqueue, job, aged, mbox, view, prune, made, clock>>

PurgeGoesOn ==
    /\ purge.pc = "clean" /\ purge.todo = {}
    /\ purge' = [pc |-> purge.then]
    /\ UNCHANGED <<files, db, aged, mbox, view, prune, bounds>>

---------------------------------------------------------------------------
BlobTick ==
    /\ mishaps < MaxMishaps /\ mishaps' = mishaps + 1 /\ clock' = clock + 1
    /\ UNCHANGED <<files, db, aged, mbox, view, prune, purge, made>>

\* The process ends, or every request and pass fails where it is.
BlobCrash ==
    /\ mishaps < MaxMishaps /\ mishaps' = mishaps + 1
    /\ mbox' = [m \in Mails |-> Resting] /\ view' = [m \in Mails |-> Resting]
    /\ prune' = Resting /\ purge' = Resting
    /\ UNCHANGED <<files, db, aged, made, clock>>

BlobsInit ==
    /\ files = {} /\ blobs = [b \in {} |-> 0] /\ rows = [m \in {} |-> 0] /\ attached = [m \in {} |-> 0]
    /\ queue = [b \in {} |-> 0] /\ gqueue = [b \in {} |-> 0] /\ job = 0 /\ aged = {}
    /\ mbox = [m \in Mails |-> Resting] /\ view = [m \in Mails |-> Resting]
    /\ prune = Resting /\ purge = Resting /\ stale = {}
    /\ made = 0 /\ clock = 0 /\ mishaps = 0

Maintain ==
    \/ \E b \in 1..MaxBlobs : DrainBlobCleanup(b) \/ GenerationCleanup(b) \/ PurgeCleans(b)
    \/ PruneFile \/ MarkMessageBlobPruned \/ PurgeGoesOn \/ PurgeAccountMessageBatch

BlobsNext ==
    \/ \E m \in Mails :
          \/ SaveRawMessage(m) \/ CreateBlob(m) \/ StoreMessage(m) \/ CreateAttachments(m)
          \/ FetchAndCache(m) \/ CacheMessageBlob(m) \/ RepairSaves(m) \/ RetainMessageBlob(m)
          \/ BlobPathInUse(m) \/ DropFile(m) \/ QueueBlobCleanup(m) \/ FinishCleanup(m)
          \/ DeleteMessage(m) \/ ResetGeneration(m) \/ Age(m) \/ ListPrunable(m)
    \/ Maintain \/ EnqueueOutgoing \/ PurgeOutboxJobs \/ BlobTick \/ BlobCrash

BlobsSpec == BlobsInit /\ [][BlobsNext]_blobVars

---------------------------------------------------------------------------
(* A message that exposes a path names the metadata row that owns it: what the
   reference checks by blob id protect is also what readers open, through
   shared rows, re-imports, caches and prunes (message_body.go:249). *)
ExposedPathOwned ==
    \A m \in DOMAIN rows : rows[m].path # NoPath =>
        rows[m].blob \in DOMAIN blobs /\ blobs[rows[m].blob].path = rows[m].path

(* The blob of a message that a generation reset removed is in a cleanup
   journal until it is gone or used again: crashes and second resets do not
   strand it (mailbox_generation_blob_cleanup.go:47). *)
ResetOrphansJournaled ==
    \A b \in stale : b \in DOMAIN blobs /\ ~Referenced(b) => b \in DOMAIN gqueue \/ b \in DOMAIN queue

(* Neither journal deletes the file of a path that a message exposes, although
   an entry may be old and the path imported again (blob_cleanup_queue.go:127). *)
CleanupSparesExposed ==
    [][(\E b \in 1..MaxBlobs : DrainBlobCleanup(b) \/ GenerationCleanup(b) \/ PurgeCleans(b))
        => \A p \in files \ files' : ~Exposed(p)]_blobVars

(* What the store keeps to between its rows and its files at all times: readers
   open the file of their own blob, and no file is stranded by a reset. *)
BlobsSafe == ExposedPathOwned /\ ResetOrphansJournaled
====
