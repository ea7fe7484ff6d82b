---------------------------- MODULE StoreProofs ----------------------------
(***************************************************************************)
(* Proofs about what the store keeps: the message files and their          *)
(* metadata (Blobs), accounts with their sessions, reset links and         *)
(* database handles (Users), folders with their runs and jobs (Folders).   *)
(*                                                                         *)
(* The invariants of Blobs relate four things an import, a cleanup and a   *)
(* generation reset touch in separate transactions: the metadata rows, the *)
(* messages that point at them, the files and the journals.  Those of      *)
(* Users and Folders say what a request or a job that has not finished     *)
(* still holds and owes; that of the throttle ties an address's lockout to *)
(* its newest failure and to the attempts let through before it.           *)
(***************************************************************************)
EXTENDS Blobs, Users, Folders, SequenceTheorems, FiniteSetTheorems, NaturalsInduction, WellFoundedInduction,
        TLAPS

-----------------------------------------------------------------------------
(* Files and their metadata *)

\* Ids are given once; what a reset left has had one.
BlobsNumbered ==
    /\ made \in Nat /\ DOMAIN blobs \subseteq 1..made /\ stale \subseteq 1..made
    /\ \A b \in DOMAIN blobs :
          blobs[b] = [path |-> blobs[b].path, kind |-> blobs[b].kind, created |-> blobs[b].created]

\* A path is of the spool, and then it names its row, or of a mailbox.
PathsNamed == \A b \in DOMAIN blobs : blobs[b].path = SpoolPath(b) \/ blobs[b].path[1] \in {"file", "remote"}

\* The path is UNIQUE.
PathsUnique == \A b, c \in DOMAIN blobs : blobs[b].path = blobs[c].path => b = c

\* A message references a metadata row that is there, of its own mailbox and UID, and what
\* it exposes is the file of that row.
RowOwns(m) ==
    /\ rows[m] = [blob |-> rows[m].blob, path |-> rows[m].path]
    /\ rows[m].blob \in DOMAIN blobs
    /\ m = 0 => blobs[rows[m].blob].path = SpoolPath(rows[m].blob)
    /\ m # 0 => blobs[rows[m].blob].path \in {FilePath(m), RemotePath(m)}
    /\ rows[m].path # NoPath => rows[m].path = blobs[rows[m].blob].path
    /\ rows[m].path # NoPath /\ m # 0 => rows[m].path = FilePath(m)
RowsOwn == DOMAIN rows \subseteq Mails \cup {0} /\ \A m \in DOMAIN rows : RowOwns(m)

\* The blob of a removed generation is journaled under the path that it has.
StaleJournaled == \A b \in stale \cap DOMAIN blobs : b \in DOMAIN gqueue /\ gqueue[b].path = blobs[b].path

\* An import holds the path of its message; the metadata it made has that path, or
\* has meanwhile got the file.
ImportOwns(m, work) ==
    /\ work.pc \in {"saved", "blobbed"} => work.path \in {FilePath(m), RemotePath(m)}
    /\ work.pc = "blobbed" /\ work.blob \in DOMAIN blobs =>
          /\ blobs[work.blob].path \in {FilePath(m), RemotePath(m)}
          /\ work.path = FilePath(m) => blobs[work.blob].path = FilePath(m)
    /\ work.pc = "blobbed" => work.blob \in 1..made
    /\ work.pc = "clean" => work.then \in {"idle", "inuse"}
ImportsOwn == DOMAIN mbox = Mails /\ \A m \in Mails : ImportOwns(m, mbox[m])

BlobTables == BlobsNumbered /\ PathsNamed /\ PathsUnique /\ RowsOwn
BlobsInv == BlobTables /\ StaleJournaled /\ ImportsOwn

LEMMA MailIsNotZero == \A m \in Mails : m # 0
BY BlobsAssumption

LEMMA PathsDiffer ==
    \A m, b : /\ SpoolPath(b)[1] = "spool" /\ FilePath(m)[1] = "file" /\ RemotePath(m)[1] = "remote"
              /\ SpoolPath(b) # NoPath /\ FilePath(m) # NoPath
              /\ FilePath(m) # SpoolPath(b) /\ RemotePath(m) # SpoolPath(b) /\ FilePath(m) # RemotePath(m)
<1> TAKE m, b
<1>1. SpoolPath(b)[1] = "spool" /\ FilePath(m)[1] = "file" /\ RemotePath(m)[1] = "remote"
  BY DEF SpoolPath, FilePath, RemotePath
<1>2. SpoolPath(b) # NoPath /\ FilePath(m) # NoPath
  BY DEF SpoolPath, FilePath, NoPath
<1> QED BY <1>1, <1>2

LEMMA PathOfTwins == \A m, n : FilePath(m) = FilePath(n) <=> RemotePath(m) = RemotePath(n)
BY DEF FilePath, RemotePath

LEMMA BlobsInitially == BlobsInit => BlobsInv
<1> SUFFICES ASSUME BlobsInit PROVE BlobsInv
  OBVIOUS
<1>1. DOMAIN blobs = {} /\ DOMAIN rows = {} /\ stale = {} /\ made = 0
  BY DEF BlobsInit
<1>2. ImportsOwn
  BY DEF BlobsInit, ImportsOwn, ImportOwns, Resting
<1>3. RowsOwn
  BY <1>1 DEF RowsOwn
<1> QED BY <1>1, <1>2, <1>3 DEF BlobsInv, BlobTables, BlobsNumbered, PathsNamed, PathsUnique, StaleJournaled

\* What an import holds stays right when metadata is added or removed, or gets its file.
LEMMA ImportsStay ==
    ASSUME BlobsInv, DOMAIN mbox' = Mails, \A m \in Mails : mbox'[m] = mbox[m] \/ ImportOwns(m, mbox[m])',
           made' \in Nat, made <= made',
           \A b \in 1..made : b \in DOMAIN blobs' =>
               b \in DOMAIN blobs /\ \/ blobs'[b].path = blobs[b].path
                                     \/ \E m \in Mails : blobs[b].path \in {FilePath(m), RemotePath(m)} /\ blobs'[b].path = FilePath(m)
    PROVE  ImportsOwn'
<1>1. ASSUME NEW n \in Mails, mbox'[n] = mbox[n] PROVE ImportOwns(n, mbox[n])'
  <2>1. ImportOwns(n, mbox[n]) /\ mbox'[n] = mbox[n]
    BY <1>1 DEF BlobsInv, ImportsOwn
  <2>2. mbox[n].pc = "blobbed" => mbox[n].blob \in 1..made /\ mbox[n].blob \in 1..made'
    BY <2>1 DEF ImportOwns, BlobsInv, BlobTables, BlobsNumbered
  <2>3. ASSUME mbox[n].pc = "blobbed", mbox[n].blob \in DOMAIN blobs'
        PROVE  /\ blobs'[mbox[n].blob].path \in {FilePath(n), RemotePath(n)}
               /\ mbox[n].path = FilePath(n) => blobs'[mbox[n].blob].path = FilePath(n)
    <3> DEFINE b == mbox[n].blob
    <3>1. b \in DOMAIN blobs /\ \/ blobs'[b].path = blobs[b].path
                                \/ \E m \in Mails : blobs[b].path \in {FilePath(m), RemotePath(m)} /\ blobs'[b].path = FilePath(m)
      BY <2>2, <2>3
    <3>2. blobs[b].path \in {FilePath(n), RemotePath(n)} /\ (mbox[n].path = FilePath(n) => blobs[b].path = FilePath(n))
      BY <2>1, <2>3, <3>1 DEF ImportOwns
    <3>3. CASE blobs'[b].path = blobs[b].path
      BY <3>2, <3>3
    <3>4. ASSUME NEW m \in Mails, blobs[b].path \in {FilePath(m), RemotePath(m)}, blobs'[b].path = FilePath(m)
          PROVE  blobs'[b].path = FilePath(n)
      BY <3>2, <3>4, PathsDiffer, PathOfTwins
    <3> QED BY <3>1, <3>3, <3>4
  <2> QED BY <2>1, <2>2, <2>3 DEF ImportOwns
<1> QED BY <1>1 DEF ImportsOwn

LEMMA TablesKept ==
    ASSUME BlobsInv, UNCHANGED <<blobs, made>>, stale' \subseteq stale, DOMAIN rows' \subseteq DOMAIN rows,
           \A m \in DOMAIN rows' : rows'[m] = rows[m]
    PROVE  BlobTables'
<1>1. BlobsNumbered' /\ PathsNamed' /\ PathsUnique'
  BY DEF BlobsInv, BlobTables, BlobsNumbered, PathsNamed, PathsUnique
<1>2. ASSUME NEW m \in DOMAIN rows' PROVE RowOwns(m)'
  <2>1. RowOwns(m) /\ rows'[m] = rows[m]
    BY <1>2 DEF BlobsInv, BlobTables, RowsOwn
  <2> QED BY <2>1 DEF RowOwns
<1> QED BY <1>1, <1>2 DEF BlobsInv, BlobTables, RowsOwn

LEMMA JournalKept ==
    ASSUME BlobsInv, UNCHANGED <<blobs, gqueue>>, stale' \subseteq stale
    PROVE  StaleJournaled'
BY DEF BlobsInv, StaleJournaled

\* The steps that leave the tables alone.
LEMMA TablesUntouched ==
    ASSUME BlobsInv, UNCHANGED <<blobs, rows, gqueue, stale, made>>
    PROVE  BlobTables' /\ StaleJournaled'
BY TablesKept, JournalKept

\* Imports that go on, while metadata goes or stays.
LEMMA ImportsGoOn ==
    ASSUME BlobsInv, DOMAIN mbox' = Mails, \A m \in Mails : mbox'[m] = mbox[m] \/ ImportOwns(m, mbox[m])',
           made' = made, NEW b, blobs' = blobs \/ blobs' = Unkeyed(blobs, b)
    PROVE  ImportsOwn'
<1>1. \A c \in DOMAIN blobs' : c \in DOMAIN blobs /\ blobs'[c] = blobs[c]
  BY DEF Unkeyed
<1>2. made \in Nat
  BY DEF BlobsInv, BlobTables, BlobsNumbered
<1> QED BY <1>1, <1>2, ImportsStay

\* One row of metadata goes that no message references.
LEMMA MetadataGoes ==
    ASSUME BlobsInv, NEW b, ~Referenced(b), blobs' = Unkeyed(blobs, b), stale' = stale \ {b}, UNCHANGED <<rows, made>>,
           \A c \in DOMAIN gqueue \ {b} : c \in DOMAIN gqueue' /\ gqueue'[c] = gqueue[c]
    PROVE  BlobTables' /\ StaleJournaled'
<1>1. DOMAIN blobs' = DOMAIN blobs \ {b} /\ \A c \in DOMAIN blobs' : blobs'[c] = blobs[c]
  BY DEF Unkeyed
<1>2. BlobsNumbered'
  BY <1>1 DEF BlobsInv, BlobTables, BlobsNumbered
<1>3. PathsNamed' /\ PathsUnique'
  BY <1>1 DEF BlobsInv, BlobTables, PathsNamed, PathsUnique
<1>4. ASSUME NEW m \in DOMAIN rows' PROVE RowOwns(m)'
  <2>1. RowOwns(m) /\ rows'[m] = rows[m] /\ rows[m].blob # b
    BY <1>4 DEF BlobsInv, BlobTables, RowsOwn, Referenced
  <2> QED BY <1>1, <2>1 DEF RowOwns
<1>5. StaleJournaled'
  BY <1>1 DEF BlobsInv, StaleJournaled
<1> QED BY <1>2, <1>3, <1>4, <1>5 DEF BlobsInv, BlobTables, RowsOwn

\* The completion of a journal entry, for every caller.
LEMMA CleanupCompletes ==
    ASSUME BlobsInv, NEW b, CompleteBlobCleanup(b), UNCHANGED <<rows, gqueue, made>>,
           DOMAIN mbox' = Mails, \A m \in Mails : mbox'[m] = mbox[m] \/ ImportOwns(m, mbox[m])'
    PROVE  BlobsInv'
<1>1. \/ blobs' = blobs /\ stale' \subseteq stale
      \/ blobs' = Unkeyed(blobs, b) /\ stale' = stale \ {b} /\ ~Referenced(b)
  BY DEF CompleteBlobCleanup, Restricted
<1>2. ImportsOwn'
  BY <1>1, ImportsGoOn
<1>3. BlobTables' /\ StaleJournaled'
  <2>1. CASE blobs' = blobs /\ stale' \subseteq stale
    BY <2>1, TablesKept, JournalKept
  <2>2. CASE blobs' = Unkeyed(blobs, b) /\ stale' = stale \ {b} /\ ~Referenced(b)
    BY <2>2, MetadataGoes
  <2> QED BY <1>1, <2>1, <2>2
<1> QED BY <1>2, <1>3 DEF BlobsInv

\* The upsert of a path: a new row of metadata or the one that has it, which a message
\* of the path may reference from now on.
LEMMA MetadataComes ==
    ASSUME BlobsInv, NEW b, NEW path, NEW kind, NEW created,
           blobs' = Keyed(blobs, b, [path |-> path, kind |-> kind, created |-> created]),
           path = SpoolPath(b) \/ path[1] \in {"file", "remote"},
           b \in DOMAIN blobs \/ b = made + 1,
           OwnersOf(path) \subseteq {b},
           made' = (IF b = made + 1 THEN made + 1 ELSE made), stale' \subseteq stale
    PROVE  BlobsNumbered' /\ PathsNamed' /\ PathsUnique'
<1>1. /\ DOMAIN blobs' = DOMAIN blobs \cup {b} /\ blobs'[b] = [path |-> path, kind |-> kind, created |-> created]
      /\ \A c \in DOMAIN blobs' \ {b} : c \in DOMAIN blobs /\ blobs'[c] = blobs[c]
  BY DEF Keyed
<1>2. BlobsNumbered'
  BY <1>1 DEF BlobsInv, BlobTables, BlobsNumbered
<1>3. PathsNamed'
  BY <1>1 DEF BlobsInv, BlobTables, PathsNamed
<1>4. PathsUnique'
  <2>1. \A c \in DOMAIN blobs : blobs[c].path = path => c = b
    BY DEF OwnersOf
  <2> QED BY <1>1, <2>1 DEF BlobsInv, BlobTables, PathsUnique
<1> QED BY <1>2, <1>3, <1>4

\* The file of a message that had none, in the row that owns the path or in its own.
LEMMA FileAttached ==
    ASSUME BlobsInv, NEW m \in Mails, m \in DOMAIN rows, NEW kind, AttachMessageBlob(m, kind), UNCHANGED <<gqueue, made>>,
           DOMAIN mbox' = Mails, \A n \in Mails : mbox'[n] = mbox[n] \/ ImportOwns(n, mbox[n])'
    PROVE  BlobsInv'
<1>0. RowOwns(m) /\ m # 0 /\ rows[m].blob \in DOMAIN blobs
  BY MailIsNotZero DEF BlobsInv, BlobTables, RowsOwn, RowOwns
<1>1. PICK target :
        /\ IF OwnersOf(FilePath(m)) = {} THEN target = rows[m].blob ELSE target \in OwnersOf(FilePath(m))
        /\ blobs' = Keyed(blobs, target, [path |-> FilePath(m), kind |-> kind, created |-> clock])
        /\ rows' = Keyed(rows, m, [blob |-> target, path |-> FilePath(m)])
        /\ stale' = stale \ {target, rows[m].blob}
  BY DEF AttachMessageBlob, Attached
<1>2. target \in DOMAIN blobs /\ OwnersOf(FilePath(m)) \subseteq {target}
  BY <1>0, <1>1 DEF OwnersOf, BlobsInv, BlobTables, PathsUnique
<1>3. blobs[target].path \in {FilePath(m), RemotePath(m)}
  BY <1>0, <1>1, PathsDiffer DEF OwnersOf, RowOwns
<1>4. /\ DOMAIN blobs' = DOMAIN blobs /\ blobs'[target] = [path |-> FilePath(m), kind |-> kind, created |-> clock]
      /\ \A c \in DOMAIN blobs \ {target} : blobs'[c] = blobs[c]
  BY <1>1, <1>2 DEF Keyed
<1>5. /\ DOMAIN rows' = DOMAIN rows /\ rows'[m] = [blob |-> target, path |-> FilePath(m)]
      /\ \A n \in DOMAIN rows \ {m} : rows'[n] = rows[n]
  BY <1>1 DEF Keyed
<1>6. BlobsNumbered' /\ PathsNamed' /\ PathsUnique'
  <2>1. made \in Nat /\ target # made + 1
    BY <1>2 DEF BlobsInv, BlobTables, BlobsNumbered
  <2>2. FilePath(m)[1] \in {"file", "remote"} /\ stale' \subseteq stale
    BY <1>1, PathsDiffer
  <2> QED BY <1>1, <1>2, <2>1, <2>2, MetadataComes
<1>7. ASSUME NEW n \in DOMAIN rows PROVE RowOwns(n)'
  <2>1. CASE n = m
    BY <1>0, <1>2, <1>4, <1>5, <2>1 DEF RowOwns
  <2>2. CASE n # m
    <3>1. RowOwns(n) /\ rows'[n] = rows[n]
      BY <1>5, <2>2 DEF BlobsInv, BlobTables, RowsOwn
    <3>2. CASE rows[n].blob # target
      BY <1>4, <3>1, <3>2 DEF RowOwns
    <3>3. CASE rows[n].blob = target
      <4>1. n # 0 /\ FilePath(n) = FilePath(m)
        BY <1>3, <3>1, <3>3, PathsDiffer, PathOfTwins DEF RowOwns
      <4> QED BY <1>4, <3>1, <3>3, <4>1 DEF RowOwns
    <3> QED BY <3>2, <3>3
  <2> QED BY <2>1, <2>2
<1>8. RowsOwn'
  BY <1>5, <1>7 DEF BlobsInv, BlobTables, RowsOwn
<1>9. StaleJournaled'
  BY <1>1, <1>4 DEF BlobsInv, StaleJournaled
<1>10. ImportsOwn'
  <2>1. made \in Nat
    BY DEF BlobsInv, BlobTables, BlobsNumbered
  <2>2. \A b \in DOMAIN blobs' :
          /\ b \in DOMAIN blobs
          /\ \/ blobs'[b].path = blobs[b].path
             \/ blobs[b].path \in {FilePath(m), RemotePath(m)} /\ blobs'[b].path = FilePath(m)
    BY <1>3, <1>4
  <2> QED BY <2>1, <2>2, ImportsStay
<1> QED BY <1>6, <1>8, <1>9, <1>10 DEF BlobsInv, BlobTables

LEMMA BlobsKept == BlobsInv /\ [BlobsNext]_blobVars => BlobsInv'
<1> SUFFICES ASSUME BlobsInv, [BlobsNext]_blobVars PROVE BlobsInv'
  OBVIOUS
<1>0. DOMAIN mbox = Mails /\ made \in Nat /\ \A m \in Mails : ImportOwns(m, mbox[m])
  BY DEF BlobsInv, ImportsOwn, BlobTables, BlobsNumbered
<1>1. ASSUME NEW m \in Mails, NEW work, ImportOwns(m, work), mbox' = [mbox EXCEPT ![m] = work], UNCHANGED <<blobs, made>>
      PROVE  DOMAIN mbox' = Mails /\ \A n \in Mails : mbox'[n] = mbox[n] \/ ImportOwns(n, mbox[n])'
  BY <1>0, <1>1 DEF ImportOwns
<1>2. ASSUME UNCHANGED <<blobs, rows, gqueue, stale, made>>,
             DOMAIN mbox' = Mails, \A n \in Mails : mbox'[n] = mbox[n] \/ ImportOwns(n, mbox[n])'
      PROVE  BlobsInv'
  BY <1>2, TablesUntouched, ImportsGoOn DEF BlobsInv
<1>3. ASSUME mbox' = mbox
      PROVE  DOMAIN mbox' = Mails /\ \A n \in Mails : mbox'[n] = mbox[n] \/ ImportOwns(n, mbox[n])'
  BY <1>0, <1>3
<1>4. ASSUME NEW m \in Mails PROVE ImportOwns(m, Resting)
  BY DEF ImportOwns, Resting
<1>5. ASSUME NEW m \in Mails, SaveRawMessage(m) PROVE BlobsInv'
  <2> DEFINE path == IF m \in aged THEN RemotePath(m) ELSE FilePath(m)
             work == [pc |-> "saved", path |-> path]
  <2>1. ImportOwns(m, work)
    BY DEF ImportOwns
  <2>2. mbox' = [mbox EXCEPT ![m] = work] /\ UNCHANGED <<blobs, rows, gqueue, stale, made>>
    BY <1>5 DEF SaveRawMessage, db, bounds
  <2> HIDE DEF work
  <2> QED BY <1>1, <1>2, <2>1, <2>2
<1>6. ASSUME NEW m \in Mails, CreateBlob(m) PROVE BlobsInv'
  <2> DEFINE path == mbox[m].path
             kind == IF path[1] = "file" THEN "message" ELSE "message-remote"
  <2>1. PICK b : /\ IF OwnersOf(path) = {} THEN b = made + 1 ELSE b \in OwnersOf(path)
                 /\ blobs' = Keyed(blobs, b, [path |-> path, kind |-> kind, created |-> clock])
                 /\ made' = (IF b > made THEN b ELSE made)
                 /\ mbox' = [mbox EXCEPT ![m] = [pc |-> "blobbed", path |-> path, blob |-> b]]
    BY <1>6 DEF CreateBlob, Upserted
  <2>2. UNCHANGED <<rows, gqueue, stale>> /\ path \in {FilePath(m), RemotePath(m)}
    BY <1>0, <1>6 DEF CreateBlob, ImportOwns
  <2>3. \/ b \in DOMAIN blobs /\ blobs[b].path = path /\ b \in 1..made /\ made' = made
        \/ b = made + 1 /\ made' = made + 1 /\ OwnersOf(path) = {}
    BY <1>0, <2>1 DEF OwnersOf, BlobsInv, BlobTables, BlobsNumbered
  <2> HIDE DEF path, kind
  <2>4. OwnersOf(path) \subseteq {b}
    BY <2>3 DEF OwnersOf, BlobsInv, BlobTables, PathsUnique
  <2>5. BlobsNumbered' /\ PathsNamed' /\ PathsUnique'
    <3>1. path[1] \in {"file", "remote"}
      BY <2>2, PathsDiffer
    <3>2. made' = (IF b = made + 1 THEN made + 1 ELSE made)
      BY <1>0, <2>3
    <3> QED BY <2>1, <2>2, <2>3, <2>4, <3>1, <3>2, MetadataComes
  <2>6. /\ b \in DOMAIN blobs' /\ blobs'[b].path = path
        /\ \A c \in DOMAIN blobs : c \in DOMAIN blobs' /\ blobs'[c].path = blobs[c].path
        /\ \A c \in DOMAIN blobs' : c = b \/ c \in DOMAIN blobs
    <3>1. /\ DOMAIN blobs' = DOMAIN blobs \cup {b}
          /\ blobs'[b] = [path |-> path, kind |-> kind, created |-> clock]
          /\ \A c \in DOMAIN blobs : c # b => blobs'[c] = blobs[c]
      BY <2>1 DEF Keyed
    <3>2. blobs'[b].path = path
      BY <3>1
    <3>3. \A c \in DOMAIN blobs : blobs'[c].path = blobs[c].path
      <4> SUFFICES ASSUME NEW c \in DOMAIN blobs PROVE blobs'[c].path = blobs[c].path
        OBVIOUS
      <4>1. CASE c = b
        <5>1. blobs[b].path = path
          BY <1>0, <2>3, <4>1 DEF BlobsInv, BlobTables, BlobsNumbered
        <5> QED BY <3>2, <4>1, <5>1
      <4>2. CASE c # b
        BY <3>1, <4>2
      <4> QED BY <4>1, <4>2
    <3> QED BY <3>1, <3>2, <3>3
  <2>7. RowsOwn'
    <3>1. ASSUME NEW n \in DOMAIN rows PROVE RowOwns(n)'
      <4>1. RowOwns(n)
        BY DEF BlobsInv, BlobTables, RowsOwn
      <4> QED BY <2>2, <2>6, <4>1 DEF RowOwns
    <3> QED BY <2>2, <3>1 DEF BlobsInv, BlobTables, RowsOwn
  <2>8. StaleJournaled'
    <3>1. b \in stale => b \in DOMAIN blobs
      BY <1>0, <2>3 DEF BlobsInv, BlobTables, BlobsNumbered
    <3> QED BY <2>2, <2>6, <3>1 DEF BlobsInv, StaleJournaled
  <2>9. ImportsOwn'
    <3>1. \A n \in Mails : mbox'[n] = mbox[n] \/ ImportOwns(n, mbox[n])'
      <4>1. ImportOwns(m, mbox[m])'
        <5>1. mbox'[m] = [pc |-> "blobbed", path |-> path, blob |-> b]
          BY <1>0, <2>1
        <5>2. b \in 1..made'
          BY <1>0, <2>3
        <5> QED BY <2>2, <2>6, <5>1, <5>2 DEF ImportOwns
      <4> QED BY <1>0, <2>1, <4>1
    <3>2. DOMAIN mbox' = Mails /\ made' \in Nat /\ made <= made'
      BY <1>0, <2>1, <2>3
    <3>3. \A c \in 1..made : c \in DOMAIN blobs' => c \in DOMAIN blobs /\ blobs'[c].path = blobs[c].path
      BY <1>0, <2>3, <2>6
    <3> QED BY <3>1, <3>2, <3>3, ImportsStay
  <2> QED BY <2>5, <2>7, <2>8, <2>9 DEF BlobsInv, BlobTables
<1>7. ASSUME NEW m \in Mails, StoreMessage(m) PROVE BlobsInv'
  <2>1. UNCHANGED <<blobs, gqueue, made>>
    BY <1>7 DEF StoreMessage
  <2>2. ImportsOwn'
    <3>1. \/ mbox' = [mbox EXCEPT ![m] = [pc |-> "attachments", blob |-> mbox[m].blob]]
          \/ mbox' = [mbox EXCEPT ![m] = [pc |-> "clean", blob |-> mbox[m].blob, then |-> "idle"]]
      BY <1>7 DEF StoreMessage
    <3>2. /\ ImportOwns(m, [pc |-> "attachments", blob |-> mbox[m].blob])
          /\ ImportOwns(m, [pc |-> "clean", blob |-> mbox[m].blob, then |-> "idle"])
      BY DEF ImportOwns
    <3> QED BY <1>1, <2>1, <3>1, <3>2, ImportsGoOn
  <2>3. CASE rows' = rows /\ stale' \subseteq stale
    BY <2>1, <2>2, <2>3, TablesKept, JournalKept DEF BlobsInv
  <2>4. CASE ~(rows' = rows /\ stale' \subseteq stale)
    <3> DEFINE path == IF mbox[m].path[1] = "file" THEN mbox[m].path ELSE NoPath
    <3>1. /\ mbox[m].pc = "blobbed" /\ mbox[m].blob \in DOMAIN blobs /\ stale' \subseteq stale
          /\ rows' = Keyed(rows, m, [blob |-> mbox[m].blob, path |-> path]) /\ m \notin DOMAIN rows
      BY <1>7, <2>4 DEF StoreMessage
    <3>2. /\ mbox[m].path \in {FilePath(m), RemotePath(m)} /\ blobs[mbox[m].blob].path \in {FilePath(m), RemotePath(m)}
          /\ mbox[m].path = FilePath(m) => blobs[mbox[m].blob].path = FilePath(m)
      BY <1>0, <3>1 DEF ImportOwns
    <3>3. path # NoPath => path = FilePath(m) /\ blobs[mbox[m].blob].path = FilePath(m)
      BY <3>2, PathsDiffer
    <3> HIDE DEF path
    <3>4. /\ DOMAIN rows' = DOMAIN rows \cup {m} /\ rows'[m] = [blob |-> mbox[m].blob, path |-> path]
          /\ \A n \in DOMAIN rows : rows'[n] = rows[n]
      BY <3>1 DEF Keyed
    <3>5. ASSUME NEW n \in DOMAIN rows' PROVE RowOwns(n)'
      <4>1. CASE n = m
        BY <2>1, <3>1, <3>2, <3>3, <3>4, <4>1, MailIsNotZero DEF RowOwns
      <4>2. CASE n # m
        <5>1. RowOwns(n) /\ rows'[n] = rows[n]
          BY <3>4, <3>5, <4>2 DEF BlobsInv, BlobTables, RowsOwn
        <5> QED BY <2>1, <5>1 DEF RowOwns
      <4> QED BY <4>1, <4>2
    <3>6. RowsOwn'
      BY <3>4, <3>5 DEF BlobsInv, BlobTables, RowsOwn
    <3>7. BlobsNumbered' /\ PathsNamed' /\ PathsUnique'
      BY <2>1, <3>1 DEF BlobsInv, BlobTables, BlobsNumbered, PathsNamed, PathsUnique
    <3> QED BY <2>1, <2>2, <3>1, <3>6, <3>7, JournalKept DEF BlobsInv, BlobTables
  <2> QED BY <2>3, <2>4
<1>8. ASSUME NEW m \in Mails, CreateAttachments(m) PROVE BlobsInv'
  BY <1>1, <1>2, <1>4, <1>8 DEF CreateAttachments, bounds
<1>9. ASSUME NEW m \in Mails, FetchAndCache(m) PROVE BlobsInv'
  BY <1>2, <1>3, <1>9 DEF FetchAndCache, db, bounds
<1>10. ASSUME NEW m \in Mails, CacheMessageBlob(m) PROVE BlobsInv'
  <2>1. UNCHANGED <<mbox, gqueue, made>>
    BY <1>10 DEF CacheMessageBlob, bounds
  <2>2. CASE m \in DOMAIN rows
    BY <1>3, <1>10, <2>1, <2>2, FileAttached DEF CacheMessageBlob
  <2>3. CASE m \notin DOMAIN rows
    BY <1>2, <1>3, <1>10, <2>1, <2>3 DEF CacheMessageBlob
  <2> QED BY <2>2, <2>3
<1>11. ASSUME NEW m \in Mails, RepairSaves(m) PROVE BlobsInv'
  <2>1. ImportOwns(m, [pc |-> "retain", blob |-> rows[m].blob])
    BY DEF ImportOwns
  <2> QED BY <1>1, <1>2, <1>11, <2>1 DEF RepairSaves, db, bounds
<1>12. ASSUME NEW m \in Mails, RetainMessageBlob(m) PROVE BlobsInv'
  <2>1. PICK work : ImportOwns(m, work)' /\ mbox' = [mbox EXCEPT ![m] = work]
    BY <1>12, <1>4 DEF RetainMessageBlob, ImportOwns, Resting
  <2>2. DOMAIN mbox' = Mails /\ \A n \in Mails : mbox'[n] = mbox[n] \/ ImportOwns(n, mbox[n])'
    BY <1>0, <2>1
  <2>3. UNCHANGED <<gqueue, made>>
    BY <1>12 DEF RetainMessageBlob
  <2>4. CASE m \in DOMAIN rows /\ AttachMessageBlob(m, "message")
    BY <2>2, <2>3, <2>4, FileAttached
  <2>5. CASE UNCHANGED <<blobs, rows, stale>>
    BY <1>2, <2>2, <2>3, <2>5
  <2> QED BY <1>12, <2>4, <2>5 DEF RetainMessageBlob
<1>13. ASSUME NEW m \in Mails, BlobPathInUse(m) \/ DropFile(m) \/ QueueBlobCleanup(m) PROVE BlobsInv'
  <2>1. PICK work : mbox' = [mbox EXCEPT ![m] = work] /\ ImportOwns(m, work)
    <3>1. CASE BlobPathInUse(m) \/ DropFile(m)
      BY <1>4, <3>1 DEF BlobPathInUse, DropFile, ImportOwns
    <3>2. CASE QueueBlobCleanup(m)
      <4>1. mbox[m].then \in {"idle", "inuse"}
        BY <1>0, <3>2 DEF QueueBlobCleanup, ImportOwns
      <4>2. \/ mbox' = [mbox EXCEPT ![m] = [pc |-> "complete", blob |-> mbox[m].blob]]
            \/ mbox' = [mbox EXCEPT ![m] = [pc |-> mbox[m].then]]
        BY <3>2 DEF QueueBlobCleanup
      <4>3. ImportOwns(m, [pc |-> "complete", blob |-> mbox[m].blob])
        BY DEF ImportOwns
      <4>4. ImportOwns(m, [pc |-> mbox[m].then])
        BY <4>1 DEF ImportOwns
      <4> QED BY <4>2, <4>3, <4>4
    <3> QED BY <1>13, <3>1, <3>2
  <2>2. UNCHANGED <<blobs, rows, gqueue, stale, made>>
    BY <1>13 DEF BlobPathInUse, DropFile, QueueBlobCleanup, db, bounds
  <2> QED BY <1>1, <1>2, <2>1, <2>2
<1>14. ASSUME NEW m \in Mails, FinishCleanup(m) PROVE BlobsInv'
  <2>1. UNCHANGED <<rows, gqueue, made>> /\ mbox' = [mbox EXCEPT ![m] = Resting]
    BY <1>14 DEF FinishCleanup
  <2>2. DOMAIN mbox' = Mails /\ \A n \in Mails : mbox'[n] = mbox[n] \/ ImportOwns(n, mbox[n])'
    BY <1>0, <2>1 DEF ImportOwns, Resting
  <2> QED BY <1>2, <1>14, <2>1, <2>2, CleanupCompletes DEF FinishCleanup
<1>15. ASSUME NEW b, DrainBlobCleanup(b) PROVE BlobsInv'
  BY <1>3, <1>15, CleanupCompletes DEF DrainBlobCleanup
<1>16. ASSUME NEW m \in Mails, DeleteMessage(m) PROVE BlobsInv'
  <2>1. /\ UNCHANGED <<blobs, gqueue, made>> /\ stale' \subseteq stale
        /\ DOMAIN rows' \subseteq DOMAIN rows /\ \A n \in DOMAIN rows' : rows'[n] = rows[n]
    BY <1>16 DEF DeleteMessage, Unkeyed
  <2>2. ImportsOwn'
    <3>1. ImportOwns(m, [pc |-> "clean", blob |-> rows[m].blob, then |-> "idle"])
      BY DEF ImportOwns
    <3> QED BY <1>1, <1>16, <2>1, <3>1, ImportsGoOn DEF DeleteMessage
  <2> QED BY <2>1, <2>2, TablesKept, JournalKept DEF BlobsInv
<1>17. ASSUME NEW m \in Mails, ResetGeneration(m) PROVE BlobsInv'
  <2>1. /\ UNCHANGED <<blobs, mbox, made>> /\ m \in DOMAIN rows /\ stale' = stale \cup {rows[m].blob}
        /\ gqueue' = Keyed(gqueue, rows[m].blob, [path |-> blobs[rows[m].blob].path, box |-> m])
        /\ rows' = Unkeyed(rows, m)
    BY <1>17 DEF ResetGeneration, Journaled
  <2>2. rows[m].blob \in DOMAIN blobs
    BY <2>1 DEF BlobsInv, BlobTables, RowsOwn, RowOwns
  <2>3. BlobsNumbered' /\ PathsNamed' /\ PathsUnique'
    BY <2>1, <2>2 DEF BlobsInv, BlobTables, BlobsNumbered, PathsNamed, PathsUnique
  <2>4. RowsOwn'
    <3>1. ASSUME NEW n \in DOMAIN rows' PROVE RowOwns(n)'
      <4>1. RowOwns(n) /\ rows'[n] = rows[n]
        BY <2>1, <3>1 DEF Unkeyed, BlobsInv, BlobTables, RowsOwn
      <4> QED BY <2>1, <4>1 DEF RowOwns
    <3> QED BY <2>1, <3>1 DEF Unkeyed, BlobsInv, BlobTables, RowsOwn
  <2>5. StaleJournaled'
    BY <2>1 DEF Keyed, BlobsInv, StaleJournaled
  <2>6. ImportsOwn'
    BY <1>3, <2>1, ImportsGoOn
  <2> QED BY <2>3, <2>4, <2>5, <2>6 DEF BlobsInv, BlobTables
<1>18. ASSUME NEW b, GenerationCleanup(b) PROVE BlobsInv'
  <2>1. UNCHANGED <<rows, mbox, made>>
    BY <1>18 DEF GenerationCleanup
  <2>2. CASE /\ blobs' = blobs /\ gqueue' = Unkeyed(gqueue, b) /\ stale' = (IF Referenced(b) THEN stale \ {b} ELSE stale)
             /\ IF b \in DOMAIN blobs THEN blobs[b].path # gqueue[b].path \/ Referenced(b) ELSE TRUE
    <3>1. b \in stale' => b \notin DOMAIN blobs
      BY <2>2 DEF BlobsInv, StaleJournaled
    <3>2. StaleJournaled'
      BY <2>2, <3>1 DEF Unkeyed, BlobsInv, StaleJournaled
    <3> QED BY <1>3, <2>1, <2>2, <3>2, TablesKept, ImportsGoOn DEF BlobsInv
  <2>3. CASE blobs' = Unkeyed(blobs, b) /\ gqueue' = Unkeyed(gqueue, b) /\ stale' = stale \ {b} /\ ~Referenced(b)
    <3>1. \A c \in DOMAIN gqueue \ {b} : c \in DOMAIN gqueue' /\ gqueue'[c] = gqueue[c]
      BY <2>3 DEF Unkeyed
    <3> QED BY <1>3, <2>1, <2>3, <3>1, MetadataGoes, ImportsGoOn DEF BlobsInv
  <2>4. CASE UNCHANGED <<gqueue, blobs, stale>>
    BY <1>2, <1>3, <2>1, <2>4
  <2> QED BY <1>18, <2>2, <2>3, <2>4 DEF GenerationCleanup, Restricted
<1>19. ASSUME NEW m \in Mails, Age(m) \/ ListPrunable(m) PROVE BlobsInv'
  BY <1>2, <1>3, <1>19 DEF Age, ListPrunable, db, bounds
<1>20. CASE PruneFile
  BY <1>2, <1>3, <1>20 DEF PruneFile, db, bounds
<1>21. CASE MarkMessageBlobPruned
  <2>1. UNCHANGED <<gqueue, stale, mbox, made>>
    BY <1>21 DEF MarkMessageBlobPruned, bounds
  <2>2. CASE UNCHANGED <<rows, blobs>>
    BY <1>2, <1>3, <2>1, <2>2
  <2>3. CASE ~UNCHANGED <<rows, blobs>>
    <3> DEFINE m == prune.mail
               b == prune.blob
    <3>1. /\ m \in DOMAIN rows /\ rows[m].blob = b
          /\ rows' = [rows EXCEPT ![m].path = NoPath] /\ blobs' = [blobs EXCEPT ![b].kind = "message-remote"]
      BY <1>21, <2>3 DEF MarkMessageBlobPruned
    <3> HIDE DEF m, b
    <3>2. RowOwns(m) /\ b \in DOMAIN blobs
      BY <3>1 DEF BlobsInv, BlobTables, RowsOwn, RowOwns
    <3>3. blobs[b] = [path |-> blobs[b].path, kind |-> blobs[b].kind, created |-> blobs[b].created]
      BY <3>2 DEF BlobsInv, BlobTables, BlobsNumbered
    <3>4. /\ DOMAIN blobs' = DOMAIN blobs /\ \A c \in DOMAIN blobs \ {b} : blobs'[c] = blobs[c]
          /\ blobs'[b] = [path |-> blobs[b].path, kind |-> "message-remote", created |-> blobs[b].created]
      BY <3>1, <3>2, <3>3
    <3>5. \A c \in DOMAIN blobs' : blobs'[c].path = blobs[c].path
      BY <3>4
    <3>6. rows[m] = [blob |-> rows[m].blob, path |-> rows[m].path]
      BY <3>2 DEF RowOwns
    <3>7. /\ DOMAIN rows' = DOMAIN rows /\ rows'[m] = [blob |-> b, path |-> NoPath]
          /\ \A n \in DOMAIN rows \ {m} : rows'[n] = rows[n]
      BY <3>1, <3>6
    <3>8. BlobsNumbered' /\ PathsNamed' /\ PathsUnique'
      <4>1. BlobsNumbered'
        BY <2>1, <3>4 DEF BlobsInv, BlobTables, BlobsNumbered
      <4> QED BY <3>4, <3>5, <4>1 DEF BlobsInv, BlobTables, PathsNamed, PathsUnique
    <3>9. ASSUME NEW n \in DOMAIN rows PROVE RowOwns(n)'
      <4>1. RowOwns(n) /\ RowOwns(m)
        BY <3>2 DEF BlobsInv, BlobTables, RowsOwn
      <4> QED BY <3>1, <3>4, <3>5, <3>7, <4>1 DEF RowOwns
    <3>10. RowsOwn'
      BY <3>7, <3>9 DEF BlobsInv, BlobTables, RowsOwn
    <3>11. StaleJournaled'
      BY <2>1, <3>4, <3>5 DEF BlobsInv, StaleJournaled
    <3>12. ImportsOwn'
      BY <1>0, <1>3, <2>1, <3>4, <3>5, ImportsStay
    <3> QED BY <3>8, <3>10, <3>11, <3>12 DEF BlobsInv, BlobTables
  <2> QED BY <2>2, <2>3
<1>22. CASE EnqueueOutgoing
  <2> DEFINE b == made + 1
  <2>1. /\ blobs' = Keyed(blobs, b, [path |-> SpoolPath(b), kind |-> "outbox-message", created |-> clock])
        /\ rows' = Keyed(rows, 0, [blob |-> b, path |-> SpoolPath(b)]) /\ made' = b /\ 0 \notin DOMAIN rows
        /\ UNCHANGED <<gqueue, stale, mbox>>
    BY <1>22 DEF EnqueueOutgoing
  <2>2. b \notin DOMAIN blobs /\ made' = (IF b = made + 1 THEN made + 1 ELSE made)
    BY <1>0, <2>1 DEF BlobsInv, BlobTables, BlobsNumbered
  <2> HIDE DEF b
  <2>3. OwnersOf(SpoolPath(b)) \subseteq {b}
    <3>1. ASSUME NEW c \in DOMAIN blobs, blobs[c].path = SpoolPath(b) PROVE c = b
      <4>1. SpoolPath(c) = SpoolPath(b)
        BY <3>1, PathsDiffer DEF BlobsInv, BlobTables, PathsNamed
      <4> QED BY <4>1 DEF SpoolPath
    <3> QED BY <3>1 DEF OwnersOf
  <2>4. BlobsNumbered' /\ PathsNamed' /\ PathsUnique'
    <3>1. b = made + 1 /\ stale' \subseteq stale
      BY <2>1 DEF b
    <3> QED BY <2>1, <2>2, <2>3, <3>1, MetadataComes
  <2>5. /\ DOMAIN blobs' = DOMAIN blobs \cup {b} /\ blobs'[b].path = SpoolPath(b)
        /\ \A c \in DOMAIN blobs : blobs'[c] = blobs[c]
    BY <2>1, <2>2 DEF Keyed
  <2>6. /\ DOMAIN rows' = DOMAIN rows \cup {0} /\ rows'[0] = [blob |-> b, path |-> SpoolPath(b)]
        /\ \A n \in DOMAIN rows : rows'[n] = rows[n]
    BY <2>1 DEF Keyed
  <2>7. ASSUME NEW n \in DOMAIN rows' PROVE RowOwns(n)'
    <3>1. CASE n = 0
      BY <2>5, <2>6, <3>1 DEF RowOwns
    <3>2. CASE n # 0
      <4>1. RowOwns(n) /\ rows'[n] = rows[n]
        BY <2>6, <2>7, <3>2 DEF BlobsInv, BlobTables, RowsOwn
      <4> QED BY <2>5, <4>1 DEF RowOwns
    <3> QED BY <3>1, <3>2
  <2>8. RowsOwn'
    BY <2>6, <2>7 DEF BlobsInv, BlobTables, RowsOwn
  <2>9. b \notin 1..made /\ made' \in Nat /\ made <= made'
    BY <1>0, <2>1 DEF b
  <2>10. StaleJournaled'
    <3>1. b \notin stale
      BY <2>9 DEF BlobsInv, BlobTables, BlobsNumbered
    <3> QED BY <2>1, <2>5, <3>1 DEF BlobsInv, StaleJournaled
  <2>11. ImportsOwn'
    BY <1>3, <2>1, <2>5, <2>9, ImportsStay
  <2> QED BY <2>4, <2>8, <2>10, <2>11 DEF BlobsInv, BlobTables
<1>23. CASE PurgeOutboxJobs \/ PurgeAccountMessageBatch
  <2>1. /\ UNCHANGED <<blobs, gqueue, mbox, made>> /\ stale' \subseteq stale
        /\ DOMAIN rows' \subseteq DOMAIN rows /\ \A n \in DOMAIN rows' : rows'[n] = rows[n]
    BY <1>23 DEF PurgeOutboxJobs, PurgeAccountMessageBatch, Unkeyed, bounds
  <2> QED BY <1>3, <2>1, TablesKept, JournalKept, ImportsGoOn DEF BlobsInv
<1>24. ASSUME NEW b, PurgeCleans(b) PROVE BlobsInv'
  <2>1. UNCHANGED <<rows, gqueue, mbox, made>>
    BY <1>24 DEF PurgeCleans
  <2>2. CASE CompleteBlobCleanup(b)
    BY <1>3, <2>1, <2>2, CleanupCompletes
  <2>3. CASE UNCHANGED <<blobs, stale>>
    BY <1>2, <1>3, <2>1, <2>3
  <2> QED BY <1>24, <2>2, <2>3 DEF PurgeCleans
<1>25. CASE PurgeGoesOn \/ BlobTick \/ UNCHANGED blobVars
  BY <1>2, <1>3, <1>25 DEF PurgeGoesOn, BlobTick, blobVars, db, bounds
<1>26. CASE BlobCrash
  <2>1. DOMAIN mbox' = Mails /\ \A n \in Mails : ImportOwns(n, mbox[n])'
    BY <1>26 DEF BlobCrash, ImportOwns, Resting
  <2> QED BY <1>2, <1>26, <2>1 DEF BlobCrash, db
<1> QED BY <1>5, <1>6, <1>7, <1>8, <1>9, <1>10, <1>11, <1>12, <1>13, <1>14, <1>15, <1>16, <1>17, <1>18, <1>19, <1>20,
           <1>21, <1>22, <1>23, <1>24, <1>25, <1>26 DEF BlobsNext, Maintain

LEMMA BlobsPromises == BlobsInv => BlobsSafe
<1> SUFFICES ASSUME BlobsInv PROVE BlobsSafe
  OBVIOUS
<1>1. ExposedPathOwned
  BY DEF ExposedPathOwned, BlobsInv, BlobTables, RowsOwn, RowOwns
<1>2. ResetOrphansJournaled
  BY DEF ResetOrphansJournaled, BlobsInv, StaleJournaled
<1> QED BY <1>1, <1>2 DEF BlobsSafe

\* Readers open the file of the metadata that their message references, and no file is
\* stranded by a reset, for any number of messages, twins, imports, caches, prunes, journal
\* entries, deletions and crashes (store/blobs.go, message_body.go, blob_cleanup_queue.go).
THEOREM BlobsAreSafe == BlobsSpec => []BlobsSafe
BY BlobsInitially, BlobsKept, BlobsPromises, PTL DEF BlobsSpec

\* What a journal deletes has no other owner, so no message shows it.
LEMMA CleanupSpares ==
    ASSUME BlobsInv, NEW b, DrainBlobCleanup(b) \/ GenerationCleanup(b) \/ PurgeCleans(b), NEW p \in files \ files'
    PROVE  ~Exposed(p)
<1>1. SUFFICES ASSUME NEW m \in DOMAIN rows, rows[m].path = p, p # NoPath PROVE FALSE
  BY DEF Exposed
<1>2. rows[m].blob \in DOMAIN blobs /\ blobs[rows[m].blob].path = p
  BY <1>1 DEF BlobsInv, BlobTables, RowsOwn, RowOwns
<1>3. IF b \in DOMAIN blobs THEN blobs[b].path = p /\ ~Referenced(b) ELSE OwnersOf(p) = {}
  <2>1. CASE DrainBlobCleanup(b) \/ PurgeCleans(b)
    BY <2>1 DEF DrainBlobCleanup, PurgeCleans, CompleteBlobCleanup, Overtaken
  <2>2. CASE GenerationCleanup(b)
    BY <2>2 DEF GenerationCleanup
  <2> QED BY <2>1, <2>2
<1>4. CASE b \in DOMAIN blobs
  <2>1. rows[m].blob = b
    BY <1>2, <1>3, <1>4 DEF BlobsInv, BlobTables, PathsUnique
  <2> QED BY <1>3, <1>4, <2>1 DEF Referenced
<1>5. CASE b \notin DOMAIN blobs
  BY <1>2, <1>3, <1>5 DEF OwnersOf
<1> QED BY <1>4, <1>5

\* Neither cleanup journal deletes a file that a message exposes, however old the entry and
\* whatever was imported, attached or pruned under its path since (blob_cleanup_queue.go).
THEOREM JournalsSpareExposed == BlobsSpec => CleanupSparesExposed
<1>1. BlobsInv /\ [BlobsNext]_blobVars =>
        [(\E b \in 1..MaxBlobs : DrainBlobCleanup(b) \/ GenerationCleanup(b) \/ PurgeCleans(b))
            => \A p \in files \ files' : ~Exposed(p)]_blobVars
  BY CleanupSpares
<1> QED BY <1>1, BlobsInitially, BlobsKept, PTL DEF BlobsSpec, CleanupSparesExposed

-----------------------------------------------------------------------------
(* Accounts, sessions, links and handles *)

People == [made: {"unborn", "setup", "created", "deleted"}, admin: BOOLEAN, pw: Nat, ended: Nat, pref: Nat, backup: BOOLEAN]
PeopleOK == people \in [Ids -> People]
CallsOK ==
    /\ DOMAIN call = Calls
    /\ \A c \in Calls :
          /\ call[c] = [at |-> call[c].at, u |-> call[c].u, v |-> call[c].v, then |-> call[c].then]
          /\ call[c].v \in Nat
          /\ call[c].at \notin {"idle", "found"} => call[c].u \in Ids
SessionsOK ==
    /\ DOMAIN sessions = SessionIds
    /\ \A t \in SessionIds : sessions[t] # Absent => sessions[t] \in [u: Ids, ver: Nat, fresh: BOOLEAN]
ResetsOK ==
    /\ DOMAIN resets = ResetIds
    /\ \A k \in ResetIds : resets[k] # Absent => resets[k] \in [u: Ids, used: Nat, fresh: BOOLEAN]
UsersTyped == PeopleOK /\ CallsOK /\ SessionsOK /\ ResetsOK

\* What a request does to the calls: its own moves, the others stay.
Own(c, next) == call' = [call EXCEPT ![c] = next]
Sound(next) ==
    /\ next = [at |-> next.at, u |-> next.u, v |-> next.v, then |-> next.then]
    /\ next.v \in Nat
    /\ next.at \notin {"idle", "found"} => next.u \in Ids

LEMMA CallMoves ==
    ASSUME CallsOK, NEW c \in Calls, NEW next, Sound(next), Own(c, next)
    PROVE  CallsOK'
BY DEF CallsOK, Own, Sound

LEMMA Rests == Sound(Ready)
BY DEF Sound, Ready

\* Accounts only come, change and go.
LEMMA PersonChanges ==
    ASSUME PeopleOK, NEW u \in Ids
    PROVE  /\ \A row \in People : [people EXCEPT ![u] = row] \in [Ids -> People]
           /\ Row("setup", TRUE) \in People /\ \A admin \in BOOLEAN : Row("created", admin) \in People
           /\ Changed(u) \in [Ids -> People]
           /\ \A v \in Nat : Reported(u, v) \in [Ids -> People]
           /\ [people EXCEPT ![u].made = "deleted"] \in [Ids -> People]
           /\ [people EXCEPT ![u].pref = @ + 1] \in [Ids -> People]
           /\ [people EXCEPT ![u].backup = ~@] \in [Ids -> People]
           /\ [Changed(u) EXCEPT ![u].ended = people[u].pw + 1] \in [Ids -> People]
<1>1. \A row \in People : [people EXCEPT ![u] = row] \in [Ids -> People]
  BY DEF PeopleOK
<1>2. Row("setup", TRUE) \in People /\ \A admin \in BOOLEAN : Row("created", admin) \in People
  BY DEF Row, People
<1>3. people[u] \in People
  BY DEF PeopleOK
<1>4. \A n \in Nat : /\ [people[u] EXCEPT !.pw = n] \in People /\ [people[u] EXCEPT !.ended = n] \in People
                     /\ [people[u] EXCEPT !.pref = n] \in People
  BY <1>3 DEF People
<1>5. [people[u] EXCEPT !.made = "deleted"] \in People /\ [people[u] EXCEPT !.backup = ~people[u].backup] \in People
  BY <1>3 DEF People
<1>6. people[u].pw + 1 \in Nat /\ people[u].pref + 1 \in Nat /\ people[u].ended \in Nat
  BY <1>3 DEF People
<1>7. Changed(u) \in [Ids -> People]
  <2>1. Changed(u) = [people EXCEPT ![u] = [people[u] EXCEPT !.pw = people[u].pw + 1]]
    BY DEF Changed, PeopleOK
  <2> QED BY <1>1, <1>4, <1>6, <2>1
<1>8. \A v \in Nat : Reported(u, v) \in [Ids -> People]
  <2> TAKE v \in Nat
  <2> DEFINE n == IF v > people[u].ended THEN v ELSE people[u].ended
  <2>1. Reported(u, v) = [people EXCEPT ![u] = [people[u] EXCEPT !.ended = n]]
    BY DEF Reported, PeopleOK
  <2>2. n \in Nat
    BY <1>6
  <2> QED BY <1>1, <1>4, <2>1, <2>2
<1>9. [Changed(u) EXCEPT ![u].ended = people[u].pw + 1] \in [Ids -> People]
  <2>1. Changed(u)[u] \in People
    BY <1>7
  <2>2. [Changed(u)[u] EXCEPT !.ended = people[u].pw + 1] \in People
    BY <1>6, <2>1 DEF People
  <2>3. [Changed(u) EXCEPT ![u].ended = people[u].pw + 1]
          = [Changed(u) EXCEPT ![u] = [Changed(u)[u] EXCEPT !.ended = people[u].pw + 1]]
    BY <1>7
  <2> QED BY <1>7, <2>2, <2>3
<1>10. [people EXCEPT ![u].made = "deleted"] \in [Ids -> People]
  BY <1>1, <1>5 DEF PeopleOK
<1>11. [people EXCEPT ![u].pref = @ + 1] \in [Ids -> People]
  BY <1>1, <1>4, <1>6 DEF PeopleOK
<1>12. [people EXCEPT ![u].backup = ~@] \in [Ids -> People]
  BY <1>1, <1>5 DEF PeopleOK
<1> QED BY <1>1, <1>2, <1>7, <1>8, <1>9, <1>10, <1>11, <1>12

LEMMA OneMoves ==
    ASSUME CallsOK, NEW c \in Calls, NEW at, Moves2(c, at), at \in {"idle", "found"} \/ call[c].at \notin {"idle", "found"}
    PROVE  CallsOK'
<1>1. call[c] = [at |-> call[c].at, u |-> call[c].u, v |-> call[c].v, then |-> call[c].then]
  BY DEF CallsOK
<1>2. Own(c, [at |-> at, u |-> call[c].u, v |-> call[c].v, then |-> call[c].then])
  <2>1. [call[c] EXCEPT !.at = at] = [at |-> at, u |-> call[c].u, v |-> call[c].v, then |-> call[c].then]
    BY <1>1
  <2>2. call' = [call EXCEPT ![c] = [call[c] EXCEPT !.at = at]]
    BY DEF Moves2
  <2> QED BY <2>1, <2>2 DEF Own
<1>3. Sound([at |-> at, u |-> call[c].u, v |-> call[c].v, then |-> call[c].then])
  BY DEF Sound, CallsOK
<1> QED BY <1>2, <1>3, CallMoves

LEMMA OneFinishes ==
    ASSUME CallsOK, NEW c \in Calls, Finishes(c)
    PROVE  CallsOK'
BY Rests, CallMoves DEF Finishes, Own

LEMMA OneOpens ==
    ASSUME CallsOK, NEW c \in Calls, NEW u \in Ids, NEW then, Opens(c, u, then)
    PROVE  CallsOK'
<1>1. Sound([at |-> "looked", u |-> u, v |-> 0, then |-> then])
  BY DEF Sound
<1> QED BY <1>1, CallMoves DEF Opens, Own

LEMMA SessionsGo ==
    ASSUME SessionsOK, NEW u
    PROVE  /\ DOMAIN WithoutSessions(u) = SessionIds
           /\ \A t \in SessionIds : WithoutSessions(u)[t] = sessions[t] \/ WithoutSessions(u)[t] = Absent
           /\ \A t \in SessionIds : WithoutSessions(u)[t] # Absent => sessions[t].u # u
           /\ sessions' = WithoutSessions(u) => SessionsOK'
BY DEF SessionsOK, WithoutSessions

LEMMA UsersInitially == UsersInit => UsersTyped
<1> SUFFICES ASSUME UsersInit PROVE UsersTyped
  OBVIOUS
<1>1. Row("unborn", FALSE) \in People /\ Row("setup", TRUE) \in People
  BY DEF Row, People
<1>2. PeopleOK
  <2>1. Rows0 \in [Ids -> People]
    BY <1>1 DEF Rows0
  <2> QED BY <1>1, <2>1 DEF UsersInit, PeopleOK
<1>3. CallsOK
  BY DEF UsersInit, CallsOK, Ready
<1>4. SessionsOK
  <2>1. First \in Ids
    BY UsersAssumption DEF First
  <2> QED BY <2>1 DEF UsersInit, SessionsOK
<1>5. ResetsOK
  BY DEF UsersInit, ResetsOK
<1> QED BY <1>2, <1>3, <1>4, <1>5 DEF UsersTyped


LEMMA UsersTypedKept == UsersTyped /\ [UsersNext]_userVars => UsersTyped'
<1> SUFFICES ASSUME UsersTyped, [UsersNext]_userVars PROVE UsersTyped'
  OBVIOUS
<1>0. PeopleOK /\ CallsOK /\ SessionsOK /\ ResetsOK
  BY DEF UsersTyped
<1>1. ASSUME UNCHANGED people PROVE PeopleOK'
  BY <1>0, <1>1 DEF PeopleOK
<1>2. ASSUME UNCHANGED call PROVE CallsOK'
  BY <1>0, <1>2 DEF CallsOK
<1>3. ASSUME UNCHANGED sessions PROVE SessionsOK'
  BY <1>0, <1>3 DEF SessionsOK
<1>4. ASSUME UNCHANGED resets PROVE ResetsOK'
  BY <1>0, <1>4 DEF ResetsOK
<1>5. ASSUME NEW c \in Calls, LoginUser(c) PROVE UsersTyped'
  <2>1. SessionsOK'
    <3>1. CASE UNCHANGED sessions
      BY <1>3, <3>1
    <3>2. CASE ~UNCHANGED sessions
      <4>1. PICK t \in SessionIds : sessions' = [sessions EXCEPT ![t] = [u |-> call[c].u, ver |-> people[call[c].u].pw, fresh |-> TRUE]]
        BY <1>5, <3>2 DEF LoginUser
      <4>2. call[c].u \in Ids
        BY <1>0, <1>5 DEF CallsOK, LoginUser
      <4>3. people[call[c].u].pw \in Nat
        BY <1>0, <4>2 DEF PeopleOK, People
      <4> QED BY <1>0, <4>1, <4>2, <4>3 DEF SessionsOK
    <3> QED BY <3>1, <3>2
  <2>2. CallsOK'
    BY <1>0, <1>5, OneFinishes DEF LoginUser
  <2> QED BY <1>1, <1>4, <1>5, <2>1, <2>2 DEF LoginUser, UsersTyped
<1>6. ASSUME NEW c \in Calls, LoginUserID(c) PROVE UsersTyped'
  <2>1. PICK u \in Ids : call' = [call EXCEPT ![c] = [Ready EXCEPT !.at = "signin", !.u = u]]
    BY <1>6 DEF LoginUserID
  <2>2. Sound([Ready EXCEPT !.at = "signin", !.u = u])
    <3>1. Ready = [at |-> "idle", u |-> Absent, v |-> 0, then |-> "idle"]
      BY DEF Ready
    <3>2. [Ready EXCEPT !.at = "signin", !.u = u] = [[Ready EXCEPT !.at = "signin"] EXCEPT !.u = u]
      OBVIOUS
    <3>3. [Ready EXCEPT !.at = "signin"] = [at |-> "signin", u |-> Absent, v |-> 0, then |-> "idle"]
      BY <3>1
    <3>4. [[at |-> "signin", u |-> Absent, v |-> 0, then |-> "idle"] EXCEPT !.u = u]
            = [at |-> "signin", u |-> u, v |-> 0, then |-> "idle"]
      OBVIOUS
    <3>5. [Ready EXCEPT !.at = "signin", !.u = u] = [at |-> "signin", u |-> u, v |-> 0, then |-> "idle"]
      BY <3>2, <3>3, <3>4
    <3>6. Sound([at |-> "signin", u |-> u, v |-> 0, then |-> "idle"])
      BY DEF Sound
    <3> QED BY <3>5, <3>6
  <2>3. CallsOK'
    BY <1>0, <2>1, <2>2, CallMoves DEF Own
  <2> QED BY <1>1, <1>3, <1>4, <1>6, <2>3 DEF LoginUserID, UsersTyped, tables
<1>7. ASSUME NEW c \in Calls, ApiSetup(c) PROVE UsersTyped'
  BY <1>0, <1>1, <1>3, <1>4, <1>7, OneMoves DEF ApiSetup, UsersTyped, tables
<1>8. ASSUME NEW c \in Calls, SetupCreates(c) PROVE UsersTyped'
  <2>1. CASE UsersExist
    BY <1>0, <1>1, <1>3, <1>4, <1>8, <2>1, OneFinishes DEF SetupCreates, CreateInitialAdminIfNone, UsersTyped
  <2>2. CASE ~UsersExist
    <3>1. PICK u \in Ids : people' = [people EXCEPT ![u] = Row("setup", TRUE)] /\ Opens(c, u, "signin")
      BY <1>8, <2>2 DEF SetupCreates, CreateInitialAdminIfNone
    <3>2. PeopleOK'
      BY <1>0, <3>1, PersonChanges DEF PeopleOK
    <3>3. CallsOK'
      BY <1>0, <3>1, OneOpens
    <3> QED BY <1>3, <1>4, <1>8, <3>2, <3>3 DEF SetupCreates, UsersTyped
  <2> QED BY <2>1, <2>2
<1>9. ASSUME NEW c \in Calls, ApiAdminPassword(c) PROVE UsersTyped'
  <2>1. PICK u \in Ids : /\ call' = [call EXCEPT ![c] = [at |-> "ending", u |-> u, v |-> people[u].pw + 1, then |-> "idle"]]
                         /\ people' = Changed(u)
    BY <1>9 DEF ApiAdminPassword
  <2>2. people[u].pw \in Nat
    BY <1>0 DEF PeopleOK, People
  <2>3. Sound([at |-> "ending", u |-> u, v |-> people[u].pw + 1, then |-> "idle"])
    BY <2>2 DEF Sound
  <2>4. CallsOK'
    BY <1>0, <2>1, <2>3, CallMoves DEF Own
  <2>5. PeopleOK'
    BY <1>0, <2>1, PersonChanges DEF PeopleOK
  <2> QED BY <1>3, <1>4, <1>9, <2>4, <2>5 DEF ApiAdminPassword, UsersTyped
<1>10. ASSUME NEW c \in Calls, PasswordEndsSessions(c) PROVE UsersTyped'
  <2>1. call[c].u \in Ids /\ call[c].v \in Nat
    BY <1>0, <1>10 DEF CallsOK, PasswordEndsSessions
  <2>2. PeopleOK'
    BY <1>0, <1>10, <2>1, PersonChanges DEF PeopleOK, PasswordEndsSessions
  <2>3. SessionsOK'
    BY <1>0, <1>10, SessionsGo DEF PasswordEndsSessions, EndedSessions
  <2> QED BY <1>0, <1>4, <1>10, <2>2, <2>3, OneFinishes DEF PasswordEndsSessions, UsersTyped
<1>11. ASSUME NEW c \in Calls, ApiAdminDelete(c) PROVE UsersTyped'
  <2>1. PICK u \in Ids :
           /\ people' = [people EXCEPT ![u].made = "deleted"]
           /\ sessions' = WithoutSessions(u)
           /\ resets' = [k \in ResetIds |-> IF resets[k] # Absent /\ resets[k].u = u THEN Absent ELSE resets[k]]
           /\ call' = [call EXCEPT ![c] = [at |-> "dropping", u |-> u, v |-> 0, then |-> "idle"]]
    BY <1>11 DEF ApiAdminDelete
  <2>2. Sound([at |-> "dropping", u |-> u, v |-> 0, then |-> "idle"])
    BY DEF Sound
  <2>3. CallsOK'
    BY <1>0, <2>1, <2>2, CallMoves DEF Own
  <2>4. PeopleOK'
    BY <1>0, <2>1, PersonChanges DEF PeopleOK
  <2>5. SessionsOK'
    BY <1>0, <2>1, SessionsGo
  <2>6. ResetsOK'
    BY <1>0, <2>1 DEF ResetsOK
  <2> QED BY <2>3, <2>4, <2>5, <2>6 DEF UsersTyped
<1>12. ASSUME NEW c \in Calls, DeleteDropsHandle(c) PROVE UsersTyped'
  BY <1>0, <1>1, <1>3, <1>4, <1>12, OneMoves DEF DeleteDropsHandle, UsersTyped, tables
<1>13. ASSUME NEW c \in Calls, DeleteRemovesHome(c) PROVE UsersTyped'
  BY <1>0, <1>1, <1>3, <1>4, <1>13, OneFinishes DEF DeleteRemovesHome, UsersTyped, tables
<1>14. ASSUME NEW c \in Calls, UsePasswordResetToken(c) PROVE UsersTyped'
  <2>1. PICK k \in ResetIds :
           /\ Redeemable(k)
           /\ people' = [Changed(resets[k].u) EXCEPT ![resets[k].u].ended = people[resets[k].u].pw + 1]
           /\ sessions' = WithoutSessions(resets[k].u)
           /\ call' = [call EXCEPT ![c] = [at |-> "signin", u |-> resets[k].u, v |-> 0, then |-> "idle"]]
           /\ resets' = [resets EXCEPT ![k].used = @ + 1]
    BY <1>14 DEF UsePasswordResetToken
  <2>2. resets[k] \in [u: Ids, used: Nat, fresh: BOOLEAN]
    BY <1>0, <2>1 DEF ResetsOK, Redeemable
  <2>3. Sound([at |-> "signin", u |-> resets[k].u, v |-> 0, then |-> "idle"])
    BY <2>2 DEF Sound
  <2>4. CallsOK'
    BY <1>0, <2>1, <2>3, CallMoves DEF Own
  <2>5. PeopleOK'
    BY <1>0, <2>1, <2>2, PersonChanges DEF PeopleOK
  <2>6. SessionsOK'
    BY <1>0, <2>1, SessionsGo
  <2>7. ResetsOK'
    BY <1>0, <2>1, <2>2 DEF ResetsOK
  <2> QED BY <2>4, <2>5, <2>6, <2>7 DEF UsersTyped
<1>15. ASSUME NEW c \in Calls, ApiProfile(c) PROVE UsersTyped'
  <2>1. PICK u \in Ids, then \in {"idle", "backup"} :
           /\ people' = [people EXCEPT ![u].pref = @ + 1]
           /\ call' = [call EXCEPT ![c] = [at |-> "reading", u |-> u, v |-> 0, then |-> then]]
    BY <1>15 DEF ApiProfile
  <2>2. Sound([at |-> "reading", u |-> u, v |-> 0, then |-> then])
    BY DEF Sound
  <2>3. CallsOK'
    BY <1>0, <2>1, <2>2, CallMoves DEF Own
  <2>4. PeopleOK'
    BY <1>0, <2>1, PersonChanges DEF PeopleOK
  <2> QED BY <1>3, <1>4, <1>15, <2>3, <2>4 DEF ApiProfile, UsersTyped
<1>16. ASSUME NEW c \in Calls, ProfileBackup(c) PROVE UsersTyped'
  <2>1. call[c].u \in Ids /\ call[c] = [at |-> call[c].at, u |-> call[c].u, v |-> call[c].v, then |-> call[c].then] /\ call[c].v \in Nat
    BY <1>0, <1>16 DEF CallsOK, ProfileBackup
  <2>2. PeopleOK'
    BY <1>0, <1>1, <1>16, <2>1, PersonChanges DEF PeopleOK, ProfileBackup
  <2>3. CallsOK'
    <3>1. Sound([at |-> "reading", u |-> call[c].u, v |-> call[c].v, then |-> "idle"])
      BY <2>1 DEF Sound
    <3>2. Own(c, [at |-> "reading", u |-> call[c].u, v |-> call[c].v, then |-> "idle"])
      <4>1. [call[c] EXCEPT !.at = "reading", !.then = "idle"] = [at |-> "reading", u |-> call[c].u, v |-> call[c].v, then |-> "idle"]
        <5>1. [call[c] EXCEPT !.at = "reading", !.then = "idle"] = [[call[c] EXCEPT !.at = "reading"] EXCEPT !.then = "idle"]
          OBVIOUS
        <5>2. [call[c] EXCEPT !.at = "reading"] = [at |-> "reading", u |-> call[c].u, v |-> call[c].v, then |-> call[c].then]
          BY <2>1
        <5>3. [[at |-> "reading", u |-> call[c].u, v |-> call[c].v, then |-> call[c].then] EXCEPT !.then = "idle"]
                = [at |-> "reading", u |-> call[c].u, v |-> call[c].v, then |-> "idle"]
          OBVIOUS
        <5> QED BY <5>1, <5>2, <5>3
      <4>2. call' = [call EXCEPT ![c] = [call[c] EXCEPT !.at = "reading", !.then = "idle"]]
        BY <1>0, <1>16 DEF ProfileBackup, CallsOK
      <4> QED BY <4>1, <4>2 DEF Own
    <3> QED BY <1>0, <3>1, <3>2, CallMoves
  <2> QED BY <1>3, <1>4, <1>16, <2>2, <2>3 DEF ProfileBackup, UsersTyped
<1>17. ASSUME NEW c \in Calls, NEW at, NEW v \in Nat, call' = [call EXCEPT ![c].at = at, ![c].v = v], call[c].at \notin {"idle", "found"}
       PROVE  CallsOK'
  <2>1. call[c].u \in Ids /\ call[c] = [at |-> call[c].at, u |-> call[c].u, v |-> call[c].v, then |-> call[c].then]
    BY <1>0, <1>17 DEF CallsOK
  <2>2. Sound([at |-> at, u |-> call[c].u, v |-> v, then |-> call[c].then])
    BY <2>1, <1>17 DEF Sound
  <2>3. [call[c] EXCEPT !.at = at, !.v = v] = [at |-> at, u |-> call[c].u, v |-> v, then |-> call[c].then]
    <3>1. [call[c] EXCEPT !.at = at, !.v = v] = [[call[c] EXCEPT !.at = at] EXCEPT !.v = v]
      OBVIOUS
    <3>2. [call[c] EXCEPT !.at = at] = [at |-> at, u |-> call[c].u, v |-> call[c].v, then |-> call[c].then]
      BY <2>1
    <3>3. [[at |-> at, u |-> call[c].u, v |-> call[c].v, then |-> call[c].then] EXCEPT !.v = v]
            = [at |-> at, u |-> call[c].u, v |-> v, then |-> call[c].then]
      OBVIOUS
    <3> QED BY <3>1, <3>2, <3>3
  <2>4. call' = [call EXCEPT ![c] = [call[c] EXCEPT !.at = at, !.v = v]]
    BY <1>0, <1>17 DEF CallsOK
  <2> QED BY <1>0, <2>2, <2>3, <2>4, CallMoves DEF Own
<1>18. ASSUME NEW c \in Calls, ProfileReads(c) PROVE UsersTyped'
  <2>1. call[c].u \in Ids
    BY <1>0, <1>18 DEF CallsOK, ProfileReads
  <2>2. people[call[c].u].pref \in Nat
    BY <1>0, <2>1 DEF PeopleOK, People
  <2>3. CallsOK'
    <3>1. CASE Live(call[c].u)
      BY <1>17, <1>18, <2>2, <3>1 DEF ProfileReads
    <3>2. CASE ~Live(call[c].u)
      BY <1>0, <1>18, <3>2, OneFinishes DEF ProfileReads
    <3> QED BY <3>1, <3>2
  <2> QED BY <1>1, <1>3, <1>4, <1>18, <2>3 DEF ProfileReads, UsersTyped, tables
<1>19. ASSUME NEW c \in Calls, MirrorCachedUser(c) PROVE UsersTyped'
  BY <1>0, <1>1, <1>3, <1>4, <1>19, OneMoves, OneFinishes DEF MirrorCachedUser, UsersTyped, tables
<1>20. ASSUME NEW c \in Calls, UserRequest(c) PROVE UsersTyped'
  BY <1>0, <1>1, <1>3, <1>4, <1>20, OneOpens DEF UserRequest, UsersTyped, tables
<1>21. ASSUME NEW c \in Calls, UserStoreLooks(c) PROVE UsersTyped'
  <2>1. call[c].u \in Ids
    BY <1>0, <1>21 DEF CallsOK, UserStoreLooks
  <2>2. people[call[c].u].pref \in Nat
    BY <1>0, <2>1 DEF PeopleOK, People
  <2>3. CallsOK'
    <3>1. CASE Carries(c)
      BY <1>0, <1>21, <3>1, OneMoves, OneFinishes DEF Carries, UserStoreLooks
    <3>2. CASE ~Carries(c)
      BY <1>17, <1>21, <2>2, <3>2 DEF UserStoreLooks
    <3> QED BY <3>1, <3>2
  <2> QED BY <1>1, <1>3, <1>4, <1>21, <2>3 DEF UserStoreLooks, UsersTyped, tables
<1>22. ASSUME NEW c \in Calls, UserStoreOpens(c) PROVE UsersTyped'
  BY <1>0, <1>1, <1>3, <1>4, <1>22, OneMoves DEF UserStoreOpens, UsersTyped, tables
<1>23. ASSUME NEW c \in Calls, UserStoreCaches(c) PROVE UsersTyped'
  BY <1>0, <1>1, <1>3, <1>4, <1>23, OneMoves, OneFinishes DEF UserStoreCaches, Carries, UsersTyped, tables
<1>24. ASSUME NEW c \in Calls, ApiLogin(c) PROVE UsersTyped'
  <2>1. CASE UNCHANGED call
    BY <1>1, <1>2, <1>3, <1>4, <1>24, <2>1 DEF ApiLogin, UsersTyped, tables
  <2>2. CASE ~UNCHANGED call
    <3>1. PICK u \in Ids, i \in Sources : call' = [call EXCEPT ![c] = [at |-> "verify", u |-> u, v |-> 0, then |-> i]]
      BY <1>24, <2>2 DEF ApiLogin
    <3>2. Sound([at |-> "verify", u |-> u, v |-> 0, then |-> i])
      BY DEF Sound
    <3>3. CallsOK'
      BY <1>0, <3>1, <3>2, CallMoves DEF Own
    <3> QED BY <1>1, <1>3, <1>4, <1>24, <3>3 DEF ApiLogin, UsersTyped, tables
  <2> QED BY <2>1, <2>2
<1>25. ASSUME NEW c \in Calls, LoginFails(c) PROVE UsersTyped'
  BY <1>0, <1>1, <1>3, <1>4, <1>25, OneFinishes DEF LoginFails, UsersTyped, tables
<1>26. ASSUME NEW c \in Calls, LoginSucceeds(c) PROVE UsersTyped'
  <2>1. call[c].u \in Ids /\ call[c] = [at |-> call[c].at, u |-> call[c].u, v |-> call[c].v, then |-> call[c].then] /\ call[c].v \in Nat
    BY <1>0, <1>26 DEF CallsOK, LoginSucceeds
  <2>2. Sound([at |-> "signin", u |-> call[c].u, v |-> call[c].v, then |-> "idle"])
    BY <2>1 DEF Sound
  <2>3. [call[c] EXCEPT !.at = "signin", !.then = "idle"] = [at |-> "signin", u |-> call[c].u, v |-> call[c].v, then |-> "idle"]
    <3>1. [call[c] EXCEPT !.at = "signin", !.then = "idle"] = [[call[c] EXCEPT !.at = "signin"] EXCEPT !.then = "idle"]
      OBVIOUS
    <3>2. [call[c] EXCEPT !.at = "signin"] = [at |-> "signin", u |-> call[c].u, v |-> call[c].v, then |-> call[c].then]
      BY <2>1
    <3>3. [[at |-> "signin", u |-> call[c].u, v |-> call[c].v, then |-> call[c].then] EXCEPT !.then = "idle"]
            = [at |-> "signin", u |-> call[c].u, v |-> call[c].v, then |-> "idle"]
      OBVIOUS
    <3> QED BY <3>1, <3>2, <3>3
  <2>4. call' = [call EXCEPT ![c] = [call[c] EXCEPT !.at = "signin", !.then = "idle"]]
    BY <1>0, <1>26 DEF LoginSucceeds, CallsOK
  <2>5. CallsOK'
    BY <1>0, <2>2, <2>3, <2>4, CallMoves DEF Own
  <2> QED BY <1>1, <1>3, <1>4, <1>26, <2>5 DEF LoginSucceeds, UsersTyped, tables
<1>27. ASSUME CreateUser PROVE UsersTyped'
  <2>1. PeopleOK'
    <3>1. PICK u \in Ids, admin \in BOOLEAN : people' = [people EXCEPT ![u] = Row("created", admin)]
      BY <1>27 DEF CreateUser
    <3>2. Row("created", admin) \in People
      BY <1>0, PersonChanges
    <3> QED BY <1>0, <3>1, <3>2, PersonChanges DEF PeopleOK
  <2> QED BY <1>2, <1>3, <1>4, <1>27, <2>1 DEF CreateUser, UsersTyped
<1>28. ASSUME ApiPasswordResetRequest PROVE UsersTyped'
  <2>1. ResetsOK'
    BY <1>0, <1>28 DEF ApiPasswordResetRequest, ResetsOK
  <2> QED BY <1>1, <1>2, <1>3, <1>28, <2>1 DEF ApiPasswordResetRequest, UsersTyped
<1>29. ASSUME NEW t \in SessionIds, ApiLogout(t) PROVE UsersTyped'
  <2>1. SessionsOK'
    BY <1>0, <1>29 DEF ApiLogout, SessionsOK
  <2> QED BY <1>1, <1>2, <1>4, <1>29, <2>1 DEF ApiLogout, UsersTyped
<1>30. ASSUME Expires PROVE UsersTyped'
  <2>1. SessionsOK'
    <3>1. CASE UNCHANGED sessions
      BY <1>3, <3>1
    <3>2. CASE ~UNCHANGED sessions
      <4>1. PICK t \in SessionIds : sessions[t] # Absent /\ sessions' = [sessions EXCEPT ![t].fresh = FALSE]
        BY <1>30, <3>2 DEF Expires
      <4> QED BY <1>0, <4>1 DEF SessionsOK
    <3> QED BY <3>1, <3>2
  <2>2. ResetsOK'
    <3>1. CASE UNCHANGED resets
      BY <1>4, <3>1
    <3>2. CASE ~UNCHANGED resets
      <4>1. PICK k \in ResetIds : resets[k] # Absent /\ resets' = [resets EXCEPT ![k].fresh = FALSE]
        BY <1>30, <3>2 DEF Expires
      <4> QED BY <1>0, <4>1 DEF ResetsOK
    <3> QED BY <3>1, <3>2
  <2> QED BY <1>1, <1>2, <1>30, <2>1, <2>2 DEF Expires, UsersTyped
<1>31. ASSUME Reopens PROVE UsersTyped'
  <2>1. CallsOK'
    BY <1>31 DEF Reopens, CallsOK, Ready
  <2> QED BY <1>1, <1>3, <1>4, <1>31, <2>1 DEF Reopens, UsersTyped, tables
<1>32. ASSUME Clock \/ UNCHANGED userVars PROVE UsersTyped'
  BY <1>1, <1>2, <1>3, <1>4, <1>32 DEF Clock, userVars, UsersTyped, tables
<1> QED
  BY <1>5, <1>6, <1>7, <1>8, <1>9, <1>10, <1>11, <1>12, <1>13, <1>14, <1>15, <1>16, <1>18, <1>19,
     <1>20, <1>21, <1>22, <1>23, <1>24, <1>25, <1>26, <1>27, <1>28, <1>29, <1>30, <1>31, <1>32
  DEF UsersNext

-----------------------------------------------------------------------------
\* At most one founder, whoever else is created.
FounderIsOne ==
    \A u, v \in Ids : people[u].made = "setup" /\ people[v].made = "setup" => u = v

\* What a change of a password has reported is not ahead of the password, and a change
\* under way belongs to an account that came to exist.
ChangesBehind ==
    /\ \A u \in Ids : people[u].ended <= people[u].pw
    /\ \A c \in Calls : call[c].at = "ending" => call[c].v <= people[call[c].u].pw /\ ~Unborn(call[c].u)

Later(v, w) == IF v > w THEN v ELSE w

LEMMA ChangedFields ==
    ASSUME PeopleOK, NEW u \in Ids
    PROVE  /\ \A w \in Ids : w # u => Changed(u)[w] = people[w]
           /\ Changed(u)[u].pw = people[u].pw + 1 /\ Changed(u)[u].ended = people[u].ended /\ Changed(u)[u].made = people[u].made
<1>1. DOMAIN people = Ids /\ people[u] \in People
  BY DEF PeopleOK
<1>2. Changed(u) = [people EXCEPT ![u] = [people[u] EXCEPT !.pw = people[u].pw + 1]]
  BY <1>1 DEF Changed
<1>3. \A n : /\ [people[u] EXCEPT !.pw = n].pw = n /\ [people[u] EXCEPT !.pw = n].ended = people[u].ended
             /\ [people[u] EXCEPT !.pw = n].made = people[u].made
  BY <1>1 DEF People
<1> QED BY <1>1, <1>2, <1>3

LEMMA ReportedFields ==
    ASSUME PeopleOK, NEW u \in Ids, NEW v \in Nat
    PROVE  /\ \A w \in Ids : w # u => Reported(u, v)[w] = people[w]
           /\ Reported(u, v)[u].pw = people[u].pw /\ Reported(u, v)[u].made = people[u].made
           /\ Reported(u, v)[u].ended = Later(v, people[u].ended)
<1>1. DOMAIN people = Ids /\ people[u] \in People
  BY DEF PeopleOK
<1>2. Reported(u, v) = [people EXCEPT ![u] = [people[u] EXCEPT !.ended = Later(v, people[u].ended)]]
  BY <1>1 DEF Reported, Later
<1>3. \A n : /\ [people[u] EXCEPT !.ended = n].ended = n /\ [people[u] EXCEPT !.ended = n].pw = people[u].pw
             /\ [people[u] EXCEPT !.ended = n].made = people[u].made
  BY <1>1 DEF People
<1> QED BY <1>1, <1>2, <1>3

LEMMA Passwords == PeopleOK => DOMAIN people = Ids /\ \A u \in Ids : people[u].pw \in Nat /\ people[u].ended \in Nat
BY DEF PeopleOK, People

LEMMA NewPerson == \A how, admin : Row(how, admin).made = how /\ Row(how, admin).pw = 0 /\ Row(how, admin).ended = 0
BY DEF Row

LEMMA UsersBegin == UsersInit => FounderIsOne /\ ChangesBehind /\ SessionsEnd /\ ResetOnce
<1> SUFFICES ASSUME UsersInit PROVE FounderIsOne /\ ChangesBehind /\ SessionsEnd /\ ResetOnce
  OBVIOUS
<1>1. \A u \in Ids : /\ people[u].pw = 0 /\ people[u].ended = 0
                     /\ people[u].made = "unborn" \/ (people[u].made = "setup" /\ u = First)
  BY DEF UsersInit, Rows0, Row
<1>2. FounderIsOne
  BY <1>1 DEF FounderIsOne
<1>3. ChangesBehind
  <2>1. \A c \in Calls : call[c].at = "idle"
    BY DEF UsersInit, Ready
  <2> QED BY <1>1, <2>1 DEF ChangesBehind
<1>4. First \in Ids
  BY UsersAssumption DEF First
<1>5. SessionsEnd
  <2> SUFFICES ASSUME NEW t \in SessionIds, sessions[t] # Absent
               PROVE  sessions[t].ver >= people[sessions[t].u].ended
    BY DEF SessionsEnd
  <2>1. sessions[t] = [u |-> First, ver |-> 0, fresh |-> TRUE]
    BY DEF UsersInit
  <2> QED BY <1>1, <1>4, <2>1
<1>6. ResetOnce
  BY DEF UsersInit, ResetOnce
<1> QED BY <1>2, <1>3, <1>5, <1>6

AccountsInv == UsersTyped /\ FounderIsOne /\ ChangesBehind /\ SessionsEnd /\ ResetOnce

\* A step after which nobody's password, report or birth differs and no session is new.
LEMMA AccountsStay ==
    ASSUME AccountsInv, UsersTyped',
           \A u \in Ids : /\ people'[u].pw = people[u].pw /\ people'[u].ended = people[u].ended
                          /\ people'[u].made = "setup" => people[u].made = "setup"
                          /\ people'[u].made = "unborn" => people[u].made = "unborn",
           \A c \in Calls : call'[c].at = "ending" => call[c].at = "ending" /\ call'[c].u = call[c].u /\ call'[c].v = call[c].v,
           \A t \in SessionIds : sessions'[t] # Absent => /\ sessions[t] # Absent /\ sessions'[t].u = sessions[t].u
                                                          /\ sessions'[t].ver = sessions[t].ver,
           \A k \in ResetIds : resets'[k] # Absent => resets'[k].used = 0 \/ (resets[k] # Absent /\ resets'[k].used = resets[k].used)
    PROVE  AccountsInv'
<1>1. \A t \in SessionIds : sessions[t] # Absent => sessions[t].u \in Ids
  BY DEF AccountsInv, UsersTyped, SessionsOK
<1>2. \A c \in Calls : call[c].at = "ending" => call[c].u \in Ids
  BY DEF AccountsInv, UsersTyped, CallsOK
<1>3. FounderIsOne'
  BY DEF AccountsInv, FounderIsOne
<1>4. ChangesBehind'
  BY <1>2 DEF AccountsInv, ChangesBehind, Unborn
<1>5. SessionsEnd'
  BY <1>1 DEF AccountsInv, SessionsEnd
<1>6. ResetOnce'
  BY DEF AccountsInv, ResetOnce
<1> QED BY <1>3, <1>4, <1>5, <1>6 DEF AccountsInv

LEMMA AccountsKept == AccountsInv /\ [UsersNext]_userVars => AccountsInv'
<1> SUFFICES ASSUME AccountsInv, [UsersNext]_userVars PROVE AccountsInv'
  OBVIOUS
<1>0. PeopleOK /\ CallsOK /\ SessionsOK /\ ResetsOK /\ UsersTyped'
  BY UsersTypedKept DEF AccountsInv, UsersTyped
<1>t. \A t \in SessionIds : sessions[t] # Absent => sessions[t].u \in Ids /\ sessions[t].ver \in Nat
  BY <1>0 DEF SessionsOK
<1>c. \A c \in Calls : call[c].at = "ending" => call[c].u \in Ids /\ call[c].v \in Nat
  BY <1>0 DEF CallsOK
<1>1. ASSUME UNCHANGED people
      PROVE  \A u \in Ids : /\ people'[u].pw = people[u].pw /\ people'[u].ended = people[u].ended
                            /\ people'[u].made = "setup" => people[u].made = "setup"
                            /\ people'[u].made = "unborn" => people[u].made = "unborn"
  BY <1>1
<1>2. ASSUME NEW c \in Calls, NEW next, Own(c, next), next.at # "ending"
      PROVE  \A d \in Calls : call'[d].at = "ending" => call[d].at = "ending" /\ call'[d].u = call[d].u /\ call'[d].v = call[d].v
  BY <1>0, <1>2 DEF Own, CallsOK
<1>3. ASSUME NEW c \in Calls, NEW at, Moves2(c, at), at # "ending"
      PROVE  \A d \in Calls : call'[d].at = "ending" => call[d].at = "ending" /\ call'[d].u = call[d].u /\ call'[d].v = call[d].v
  BY <1>0, <1>3 DEF Moves2, CallsOK
<1>4. ASSUME NEW c \in Calls, Finishes(c)
      PROVE  \A d \in Calls : call'[d].at = "ending" => call[d].at = "ending" /\ call'[d].u = call[d].u /\ call'[d].v = call[d].v
  BY <1>2, <1>4 DEF Finishes, Own, Ready
<1>5. ASSUME NEW c \in Calls, LoginUser(c) PROVE AccountsInv'
  <2>1. CASE UNCHANGED sessions
    BY <1>0, <1>1, <1>4, <1>5, <2>1, AccountsStay DEF LoginUser
  <2>2. CASE ~UNCHANGED sessions
    <3>1. PICK t \in SessionIds : sessions' = [sessions EXCEPT ![t] = [u |-> call[c].u, ver |-> people[call[c].u].pw, fresh |-> TRUE]]
      BY <1>5, <2>2 DEF LoginUser
    <3>2. call[c].u \in Ids
      BY <1>0, <1>5 DEF CallsOK, LoginUser
    <3>3. SessionsEnd'
      <4> SUFFICES ASSUME NEW s \in SessionIds, sessions'[s] # Absent
                   PROVE  sessions'[s].ver >= people[sessions'[s].u].ended
        BY <1>5 DEF LoginUser, SessionsEnd
      <4>1. CASE s = t
        <5>1. sessions'[s] = [u |-> call[c].u, ver |-> people[call[c].u].pw, fresh |-> TRUE]
          BY <1>0, <3>1, <4>1 DEF SessionsOK
        <5>2. people[call[c].u].ended <= people[call[c].u].pw
          BY <3>2 DEF AccountsInv, ChangesBehind
        <5> QED BY <1>0, <3>2, <5>1, <5>2, Passwords
      <4>2. CASE s # t
        <5>1. sessions'[s] = sessions[s]
          BY <1>0, <3>1, <4>2 DEF SessionsOK
        <5> QED BY <5>1 DEF AccountsInv, SessionsEnd
      <4> QED BY <4>1, <4>2
    <3>4. FounderIsOne' /\ ResetOnce'
      BY <1>5 DEF AccountsInv, FounderIsOne, ResetOnce, LoginUser
    <3>5. ChangesBehind'
      BY <1>4, <1>5 DEF AccountsInv, ChangesBehind, LoginUser, Unborn
    <3> QED BY <1>0, <3>3, <3>4, <3>5 DEF AccountsInv
  <2> QED BY <2>1, <2>2
<1>7. ASSUME NEW c \in Calls,
             \/ LoginUserID(c) \/ ApiSetup(c) \/ DeleteDropsHandle(c) \/ DeleteRemovesHome(c) \/ ProfileReads(c)
             \/ MirrorCachedUser(c) \/ UserRequest(c) \/ UserStoreLooks(c) \/ UserStoreOpens(c) \/ UserStoreCaches(c)
             \/ ApiLogin(c) \/ LoginFails(c) \/ LoginSucceeds(c)
      PROVE AccountsInv'
  <2>1. UNCHANGED tables
    BY <1>7 DEF LoginUserID, ApiSetup, DeleteDropsHandle, DeleteRemovesHome, ProfileReads, MirrorCachedUser, UserRequest,
         UserStoreLooks, UserStoreOpens, UserStoreCaches, ApiLogin, LoginFails, LoginSucceeds
  <2>2. \A d \in Calls : call'[d].at = "ending" => call[d].at = "ending" /\ call'[d].u = call[d].u /\ call'[d].v = call[d].v
    <3>1. CASE LoginUserID(c)
      BY <1>0, <3>1 DEF LoginUserID, CallsOK, Ready
    <3>2. CASE ApiSetup(c) \/ DeleteDropsHandle(c) \/ UserStoreOpens(c)
      BY <1>3, <3>2 DEF ApiSetup, DeleteDropsHandle, UserStoreOpens
    <3>3. CASE DeleteRemovesHome(c) \/ LoginFails(c)
      BY <1>4, <3>3 DEF DeleteRemovesHome, LoginFails
    <3>4. CASE ProfileReads(c)
      BY <1>0, <1>4, <3>4 DEF ProfileReads, CallsOK
    <3>5. CASE MirrorCachedUser(c) \/ UserStoreCaches(c)
      BY <1>3, <1>4, <3>5 DEF MirrorCachedUser, UserStoreCaches, Carries
    <3>6. CASE UserRequest(c)
      BY <1>0, <3>6 DEF UserRequest, Opens, CallsOK
    <3>7. CASE UserStoreLooks(c)
      <4>1. CASE Carries(c)
        BY <1>3, <1>4, <4>1 DEF Carries
      <4>2. CASE ~Carries(c)
        BY <1>0, <3>7, <4>2 DEF UserStoreLooks, CallsOK
      <4> QED BY <4>1, <4>2
    <3>8. CASE ApiLogin(c)
      BY <1>0, <3>8 DEF ApiLogin, CallsOK
    <3>9. CASE LoginSucceeds(c)
      BY <1>0, <3>9 DEF LoginSucceeds, CallsOK
    <3> QED BY <1>7, <3>1, <3>2, <3>3, <3>4, <3>5, <3>6, <3>7, <3>8, <3>9
  <2> QED BY <1>0, <1>1, <2>1, <2>2, AccountsStay DEF tables
<1>8. ASSUME NEW c \in Calls, SetupCreates(c) PROVE AccountsInv'
  <2>1. CASE UsersExist
    BY <1>0, <1>1, <1>4, <1>8, <2>1, AccountsStay DEF SetupCreates, CreateInitialAdminIfNone
  <2>2. CASE ~UsersExist
    <3>1. PICK u \in Ids : Unborn(u) /\ people' = [people EXCEPT ![u] = Row("setup", TRUE)] /\ Opens(c, u, "signin")
      BY <1>8, <2>2 DEF SetupCreates, CreateInitialAdminIfNone
    <3>2. people'[u].made = "setup" /\ people'[u].pw = 0 /\ people'[u].ended = 0 /\ \A w \in Ids : w # u => people'[w] = people[w]
      BY <1>0, <3>1, NewPerson, Passwords
    <3>3. FounderIsOne'
      <4>1. \A w \in Ids : people[w].made # "setup"
        BY <2>2 DEF UsersExist, Live
      <4> QED BY <3>2, <4>1 DEF FounderIsOne
    <3>4. \A d \in Calls : call'[d].at = "ending" => call[d].at = "ending" /\ call'[d].u = call[d].u /\ call'[d].v = call[d].v
      BY <1>0, <3>1 DEF Opens, CallsOK
    <3>5. ChangesBehind'
      <4>1. \A w \in Ids : people'[w].ended <= people'[w].pw
        BY <3>2 DEF AccountsInv, ChangesBehind
      <4>2. \A d \in Calls : call[d].at = "ending" => call[d].u # u
        BY <3>1 DEF AccountsInv, ChangesBehind
      <4> QED BY <1>c, <3>2, <3>4, <4>1, <4>2 DEF AccountsInv, ChangesBehind, Unborn
    <3>6. SessionsEnd'
      BY <1>8, <1>t, <3>2 DEF AccountsInv, SessionsEnd, SetupCreates
    <3>7. ResetOnce'
      BY <1>8 DEF AccountsInv, ResetOnce, SetupCreates
    <3> QED BY <1>0, <3>3, <3>5, <3>6, <3>7 DEF AccountsInv
  <2> QED BY <2>1, <2>2
<1>9. ASSUME NEW c \in Calls, ApiAdminPassword(c) PROVE AccountsInv'
  <2>1. PICK u \in Ids : /\ Live(u) /\ people' = Changed(u)
                         /\ call' = [call EXCEPT ![c] = [at |-> "ending", u |-> u, v |-> people[u].pw + 1, then |-> "idle"]]
    BY <1>9 DEF ApiAdminPassword
  <2>2. /\ \A w \in Ids : w # u => people'[w] = people[w]
        /\ people'[u].pw = people[u].pw + 1 /\ people'[u].ended = people[u].ended /\ people'[u].made = people[u].made
    BY <1>0, <2>1, ChangedFields
  <2>3. FounderIsOne'
    BY <2>2 DEF AccountsInv, FounderIsOne
  <2>4. ChangesBehind'
    <3>1. \A w \in Ids : people'[w].ended <= people'[w].pw
      BY <1>0, <2>2, Passwords DEF AccountsInv, ChangesBehind
    <3>2. ASSUME NEW d \in Calls, call'[d].at = "ending" PROVE call'[d].v <= people'[call'[d].u].pw /\ people'[call'[d].u].made # "unborn"
      <4>1. CASE d = c
        BY <1>0, <2>1, <2>2, <4>1, Passwords DEF Live, CallsOK
      <4>2. CASE d # c
        <5>1. call'[d] = call[d] /\ call[d].at = "ending"
          BY <1>0, <2>1, <3>2, <4>2 DEF CallsOK
        <5>2. call[d].v <= people[call[d].u].pw /\ people[call[d].u].made # "unborn"
          BY <5>1 DEF AccountsInv, ChangesBehind, Unborn
        <5> QED BY <1>0, <1>c, <2>2, <5>1, <5>2, Passwords
      <4> QED BY <4>1, <4>2
    <3> QED BY <3>1, <3>2 DEF ChangesBehind, Unborn
  <2>5. SessionsEnd' /\ ResetOnce'
    BY <1>9, <1>t, <2>2 DEF AccountsInv, SessionsEnd, ResetOnce, ApiAdminPassword
  <2> QED BY <1>0, <2>3, <2>4, <2>5 DEF AccountsInv
<1>10. ASSUME NEW c \in Calls, PasswordEndsSessions(c) PROVE AccountsInv'
  <2> DEFINE u == call[c].u  v == call[c].v
  <2>1. u \in Ids /\ v \in Nat /\ v <= people[u].pw
    BY <1>c, <1>10 DEF AccountsInv, ChangesBehind, PasswordEndsSessions
  <2>2. people' = Reported(u, v) /\ sessions' = WithoutSessions(u) /\ UNCHANGED resets /\ Finishes(c)
    BY <1>10 DEF PasswordEndsSessions, EndedSessions
  <2> HIDE DEF u, v
  <2>3. /\ \A w \in Ids : w # u => people'[w] = people[w]
        /\ people'[u].pw = people[u].pw /\ people'[u].made = people[u].made /\ people'[u].ended = Later(v, people[u].ended)
    BY <1>0, <2>1, <2>2, ReportedFields
  <2>4. FounderIsOne' /\ ResetOnce'
    BY <2>2, <2>3 DEF AccountsInv, FounderIsOne, ResetOnce
  <2>5. ChangesBehind'
    <3>1. \A w \in Ids : people'[w].ended <= people'[w].pw
      BY <1>0, <2>1, <2>3, Passwords DEF AccountsInv, ChangesBehind, Later
    <3> QED BY <1>4, <1>c, <2>2, <2>3, <3>1 DEF AccountsInv, ChangesBehind, Unborn
  <2>6. SessionsEnd'
    BY <1>0, <1>t, <2>2, <2>3, SessionsGo DEF AccountsInv, SessionsEnd
  <2> QED BY <1>0, <2>4, <2>5, <2>6 DEF AccountsInv
<1>11. ASSUME NEW c \in Calls, ApiAdminDelete(c) PROVE AccountsInv'
  <2>1. PICK u \in Ids :
           /\ Live(u) /\ people' = [people EXCEPT ![u].made = "deleted"]
           /\ sessions' = WithoutSessions(u)
           /\ resets' = [k \in ResetIds |-> IF resets[k] # Absent /\ resets[k].u = u THEN Absent ELSE resets[k]]
           /\ call' = [call EXCEPT ![c] = [at |-> "dropping", u |-> u, v |-> 0, then |-> "idle"]]
    BY <1>11 DEF ApiAdminDelete
  <2>2. /\ \A w \in Ids : w # u => people'[w] = people[w]
        /\ people'[u].pw = people[u].pw /\ people'[u].ended = people[u].ended /\ people'[u].made = "deleted"
    BY <1>0, <2>1 DEF PeopleOK, People
  <2>3. \A d \in Calls : call'[d].at = "ending" => call[d].at = "ending" /\ call'[d].u = call[d].u /\ call'[d].v = call[d].v
    BY <1>0, <2>1 DEF CallsOK
  <2>4. \A t \in SessionIds : sessions'[t] # Absent => sessions'[t] = sessions[t]
    BY <1>0, <2>1, SessionsGo
  <2>5. \A k \in ResetIds : resets'[k] # Absent => resets'[k] = resets[k]
    BY <1>0, <2>1
  <2> QED BY <1>0, <2>2, <2>3, <2>4, <2>5, AccountsStay
<1>12. ASSUME NEW c \in Calls, UsePasswordResetToken(c) PROVE AccountsInv'
  <2>1. PICK k \in ResetIds :
           /\ Redeemable(k)
           /\ people' = [Changed(resets[k].u) EXCEPT ![resets[k].u].ended = people[resets[k].u].pw + 1]
           /\ sessions' = WithoutSessions(resets[k].u)
           /\ call' = [call EXCEPT ![c] = [at |-> "signin", u |-> resets[k].u, v |-> 0, then |-> "idle"]]
           /\ resets' = [resets EXCEPT ![k].used = @ + 1]
    BY <1>12 DEF UsePasswordResetToken
  <2> DEFINE u == resets[k].u
  <2>2. resets[k] \in [u: Ids, used: Nat, fresh: BOOLEAN] /\ resets[k].used = 0
    BY <1>0, <2>1 DEF ResetsOK, Redeemable
  <2>3. u \in Ids
    BY <2>2
  <2>4. /\ \A w \in Ids : w # u => people'[w] = people[w]
        /\ people'[u].pw = people[u].pw + 1 /\ people'[u].made = people[u].made /\ people'[u].ended = people[u].pw + 1
    <3>1. Changed(u) \in [Ids -> People]
      BY <1>0, <2>3, PersonChanges
    <3>2. people' = [Changed(u) EXCEPT ![u] = [Changed(u)[u] EXCEPT !.ended = people[u].pw + 1]]
      BY <2>1, <3>1
    <3>3. \A n : [Changed(u)[u] EXCEPT !.ended = n].ended = n /\ [Changed(u)[u] EXCEPT !.ended = n].pw = Changed(u)[u].pw
                 /\ [Changed(u)[u] EXCEPT !.ended = n].made = Changed(u)[u].made
      BY <2>3, <3>1 DEF People
    <3>4. /\ \A w \in Ids : w # u => Changed(u)[w] = people[w]
          /\ Changed(u)[u].pw = people[u].pw + 1 /\ Changed(u)[u].made = people[u].made
      BY <1>0, <2>3, ChangedFields
    <3> QED BY <2>3, <3>1, <3>2, <3>3, <3>4
  <2>5. FounderIsOne'
    BY <2>4 DEF AccountsInv, FounderIsOne
  <2>6. ChangesBehind'
    <3>1. \A w \in Ids : people'[w].ended <= people'[w].pw
      BY <1>0, <2>4, Passwords DEF AccountsInv, ChangesBehind
    <3>2. ASSUME NEW d \in Calls, call'[d].at = "ending" PROVE call'[d].v <= people'[call'[d].u].pw /\ people'[call'[d].u].made # "unborn"
      <4>1. call'[d] = call[d] /\ call[d].at = "ending"
        BY <1>0, <2>1, <3>2 DEF CallsOK
      <4>2. call[d].v <= people[call[d].u].pw /\ people[call[d].u].made # "unborn"
        BY <4>1 DEF AccountsInv, ChangesBehind, Unborn
      <4> QED BY <1>0, <1>c, <2>4, <4>1, <4>2, Passwords
    <3> QED BY <3>1, <3>2 DEF ChangesBehind, Unborn
  <2>7. SessionsEnd'
    BY <1>0, <1>t, <2>1, <2>4, SessionsGo DEF AccountsInv, SessionsEnd
  <2>8. ResetOnce'
    <3>1. resets'[k].used = 1 /\ \A j \in ResetIds : j # k => resets'[j] = resets[j]
      BY <1>0, <2>1, <2>2 DEF ResetsOK
    <3> QED BY <3>1 DEF AccountsInv, ResetOnce
  <2> QED BY <1>0, <2>5, <2>6, <2>7, <2>8 DEF AccountsInv
<1>13. ASSUME NEW c \in Calls, ApiProfile(c) \/ ProfileBackup(c) PROVE AccountsInv'
  <2>1. \A u \in Ids : people'[u].pw = people[u].pw /\ people'[u].ended = people[u].ended /\ people'[u].made = people[u].made
    <3>1. CASE ApiProfile(c)
      BY <1>0, <3>1 DEF ApiProfile, PeopleOK, People
    <3>2. CASE ProfileBackup(c)
      BY <1>0, <3>2 DEF ProfileBackup, PeopleOK, People
    <3> QED BY <1>13, <3>1, <3>2
  <2>2. \A d \in Calls : call'[d].at = "ending" => call[d].at = "ending" /\ call'[d].u = call[d].u /\ call'[d].v = call[d].v
    BY <1>0, <1>13 DEF ApiProfile, ProfileBackup, CallsOK
  <2>3. UNCHANGED <<sessions, resets>>
    BY <1>13 DEF ApiProfile, ProfileBackup
  <2> QED BY <1>0, <2>1, <2>2, <2>3, AccountsStay
<1>14. ASSUME CreateUser PROVE AccountsInv'
  <2>1. PICK u \in Ids, admin \in BOOLEAN : Unborn(u) /\ people' = [people EXCEPT ![u] = Row("created", admin)]
    BY <1>14 DEF CreateUser
  <2>2. people'[u].made = "created" /\ people'[u].pw = 0 /\ people'[u].ended = 0 /\ \A w \in Ids : w # u => people'[w] = people[w]
    BY <1>0, <2>1, NewPerson, Passwords
  <2>3. FounderIsOne'
    BY <2>2 DEF AccountsInv, FounderIsOne
  <2>4. ChangesBehind'
    <3>1. \A w \in Ids : people'[w].ended <= people'[w].pw
      BY <2>2 DEF AccountsInv, ChangesBehind
    <3>2. \A d \in Calls : call[d].at = "ending" => call[d].u # u
      BY <2>1 DEF AccountsInv, ChangesBehind
    <3> QED BY <1>c, <1>14, <2>2, <3>1, <3>2 DEF AccountsInv, ChangesBehind, Unborn, CreateUser
  <2>5. SessionsEnd' /\ ResetOnce'
    BY <1>14, <1>t, <2>2 DEF AccountsInv, SessionsEnd, ResetOnce, CreateUser
  <2> QED BY <1>0, <2>3, <2>4, <2>5 DEF AccountsInv
<1>15. ASSUME ApiPasswordResetRequest PROVE AccountsInv'
  <2>1. \A k \in ResetIds : resets'[k] # Absent => resets'[k].used = 0 \/ (resets[k] # Absent /\ resets'[k].used = resets[k].used)
    BY <1>0, <1>15 DEF ApiPasswordResetRequest, ResetsOK
  <2> QED BY <1>0, <1>1, <1>15, <2>1, AccountsStay DEF ApiPasswordResetRequest
<1>16. ASSUME NEW t \in SessionIds, ApiLogout(t) PROVE AccountsInv'
  BY <1>0, <1>1, <1>16, AccountsStay DEF ApiLogout, SessionsOK
<1>17. ASSUME Expires PROVE AccountsInv'
  <2>1. \A t \in SessionIds : sessions'[t] # Absent => /\ sessions[t] # Absent /\ sessions'[t].u = sessions[t].u
                                                       /\ sessions'[t].ver = sessions[t].ver
    BY <1>0, <1>17 DEF Expires, SessionsOK
  <2>2. \A k \in ResetIds : resets'[k] # Absent => resets[k] # Absent /\ resets'[k].used = resets[k].used
    BY <1>0, <1>17 DEF Expires, ResetsOK
  <2> QED BY <1>0, <1>1, <1>17, <2>1, <2>2, AccountsStay DEF Expires
<1>18. ASSUME Reopens \/ Clock \/ UNCHANGED userVars PROVE AccountsInv'
  <2>1. UNCHANGED tables
    BY <1>18 DEF Reopens, Clock, userVars, tables
  <2>2. \A d \in Calls : call'[d].at = "ending" => call[d].at = "ending" /\ call'[d].u = call[d].u /\ call'[d].v = call[d].v
    BY <1>18 DEF Reopens, Clock, userVars, Ready
  <2> QED BY <1>0, <1>1, <2>1, <2>2, AccountsStay DEF tables
<1> QED
  BY <1>5, <1>7, <1>8, <1>9, <1>10, <1>11, <1>12, <1>13, <1>14, <1>15, <1>16, <1>17, <1>18 DEF UsersNext

LEMMA AccountsAlways == UsersSpec => []AccountsInv
<1>1. UsersInit => AccountsInv
  BY UsersInitially, UsersBegin DEF AccountsInv
<1> QED BY <1>1, AccountsKept, PTL DEF UsersSpec

\* Two first-run requests that both found an empty installation create one administrator
\* between them, for any number of accounts and requests (users.go, CreateInitialAdminIfNone).
THEOREM FounderOnly == UsersSpec => []OneFounder
<1>1. AccountsInv => OneFounder
  <2> SUFFICES ASSUME AccountsInv PROVE OneFounder
    OBVIOUS
  <2> DEFINE S == {u \in Ids : people[u].made = "setup" /\ Live(u)}
  <2>1. CASE S = {}
    BY <2>1, FS_EmptySet DEF OneFounder
  <2>2. CASE S # {}
    <3>1. PICK u \in Ids : u \in S
      BY <2>2
    <3>2. S = {u}
      BY <3>1 DEF AccountsInv, FounderIsOne
    <3> HIDE DEF S
    <3>3. Cardinality(S) = 1
      BY <3>2, FS_Singleton
    <3> QED BY <3>3 DEF OneFounder, S
  <2> QED BY <2>1, <2>2
<1> QED BY <1>1, AccountsAlways, PTL

\* Once a password change is reported complete no session made under an older password is
\* left: a login between the two statements of the change has read the new password, whatever
\* number of requests, changes and resets cross (users.go, UpdateUserPasswordHash).
THEOREM ChangesEndSessions == UsersSpec => []SessionsEnd
<1>1. AccountsInv => SessionsEnd
  BY DEF AccountsInv
<1> QED BY <1>1, AccountsAlways, PTL

\* A reset link changes a password at most once, whoever follows it beside whom
\* (password_reset.go, UsePasswordResetToken).
THEOREM LinksAreUsedOnce == UsersSpec => []ResetOnce
<1>1. AccountsInv => ResetOnce
  BY DEF AccountsInv
<1> QED BY <1>1, AccountsAlways, PTL

-----------------------------------------------------------------------------
(* The handles of the user databases *)

\* A request between its first look at the cache and its second.
Opening(c) == call[c].at \in {"opening", "caching"}

\* A request that opens a database is not the one whose handle is cached: it found none, and
\* only its own second look could make it so.  Its handle stays open until then.
HandlesInv ==
    /\ DOMAIN cached = Ids
    /\ \A c \in Calls : Opening(c) => cached[call[c].u] # c
    /\ \A c \in Calls : call[c].at = "caching" => <<call[c].u, c>> \in opened
    /\ \A h \in opened : h = <<h[1], h[2]>> /\ h[1] \in Ids /\ h[2] # Absent
    /\ OneHandle

\* What requests that open no database leave alone.
OpenersStay ==
    /\ UNCHANGED <<cached, opened>>
    /\ \A d \in Calls : /\ Opening(d)' => call'[d].at = call[d].at /\ call'[d].u = call[d].u
                        /\ call[d].at = "caching" => call'[d].at = "caching" /\ call'[d].u = call[d].u

LEMMA HandlesStay == ASSUME HandlesInv, OpenersStay PROVE HandlesInv'
<1>1. \A d \in Calls : Opening(d)' => Opening(d) /\ call'[d].u = call[d].u
  BY DEF OpenersStay, Opening
<1>2. \A d \in Calls : call'[d].at = "caching" => call[d].at = "caching" /\ call'[d].u = call[d].u
  BY DEF OpenersStay, Opening
<1>3. OneHandle'
  BY DEF HandlesInv, OpenersStay, OneHandle
<1> QED BY <1>1, <1>2, <1>3 DEF HandlesInv, OpenersStay

LEMMA HandlesInitially == UsersInit => HandlesInv
<1> SUFFICES ASSUME UsersInit PROVE HandlesInv
  OBVIOUS
<1>1. \A c \in Calls : call[c].at = "idle"
  BY DEF UsersInit, Ready
<1>2. DOMAIN cached = Ids /\ opened = {} /\ \A u \in Ids : cached[u] = Absent
  BY DEF UsersInit
<1> QED BY <1>1, <1>2 DEF HandlesInv, Opening, OneHandle

LEMMA HandlesKept == UsersTyped /\ HandlesInv /\ [UsersNext]_userVars => HandlesInv'
<1> SUFFICES ASSUME UsersTyped, HandlesInv, [UsersNext]_userVars PROVE HandlesInv'
  OBVIOUS
<1>0. CallsOK
  BY DEF UsersTyped
<1>1. ASSUME NEW c \in Calls, NEW next, Own(c, next), next.at \notin {"opening", "caching"}, call[c].at # "caching"
      PROVE  \A d \in Calls : /\ Opening(d)' => call'[d].at = call[d].at /\ call'[d].u = call[d].u
                              /\ call[d].at = "caching" => call'[d].at = "caching" /\ call'[d].u = call[d].u
  BY <1>0, <1>1 DEF Own, CallsOK, Opening
<1>2. ASSUME NEW c \in Calls, NEW at, Moves2(c, at), at \notin {"opening", "caching"}, call[c].at # "caching"
      PROVE  \A d \in Calls : /\ Opening(d)' => call'[d].at = call[d].at /\ call'[d].u = call[d].u
                              /\ call[d].at = "caching" => call'[d].at = "caching" /\ call'[d].u = call[d].u
  BY <1>0, <1>2 DEF Moves2, CallsOK, Opening
<1>3. ASSUME NEW c \in Calls, Finishes(c), call[c].at # "caching"
      PROVE  \A d \in Calls : /\ Opening(d)' => call'[d].at = call[d].at /\ call'[d].u = call[d].u
                              /\ call[d].at = "caching" => call'[d].at = "caching" /\ call'[d].u = call[d].u
  BY <1>1, <1>3 DEF Finishes, Own, Ready
<1>4. ASSUME NEW c \in Calls, NEW u, NEW then, Opens(c, u, then), call[c].at # "caching"
      PROVE  \A d \in Calls : /\ Opening(d)' => call'[d].at = call[d].at /\ call'[d].u = call[d].u
                              /\ call[d].at = "caching" => call'[d].at = "caching" /\ call'[d].u = call[d].u
  BY <1>1, <1>4 DEF Opens, Own
<1>5. ASSUME NEW c \in Calls,
             \/ LoginUser(c) \/ LoginUserID(c) \/ ApiSetup(c) \/ SetupCreates(c) \/ ApiAdminPassword(c) \/ PasswordEndsSessions(c)
             \/ ApiAdminDelete(c) \/ DeleteRemovesHome(c) \/ UsePasswordResetToken(c) \/ ApiProfile(c) \/ ProfileBackup(c)
             \/ ProfileReads(c) \/ MirrorCachedUser(c) \/ UserRequest(c) \/ ApiLogin(c) \/ LoginFails(c) \/ LoginSucceeds(c)
      PROVE  HandlesInv'
  <2>1. UNCHANGED <<cached, opened>>
    BY <1>5 DEF LoginUser, LoginUserID, ApiSetup, SetupCreates, ApiAdminPassword, PasswordEndsSessions, ApiAdminDelete,
         DeleteRemovesHome, UsePasswordResetToken, ApiProfile, ProfileBackup, ProfileReads, MirrorCachedUser, UserRequest,
         ApiLogin, LoginFails, LoginSucceeds, stores
  <2>2. \A d \in Calls : /\ Opening(d)' => call'[d].at = call[d].at /\ call'[d].u = call[d].u
                         /\ call[d].at = "caching" => call'[d].at = "caching" /\ call'[d].u = call[d].u
    <3>1. CASE LoginUser(c) \/ PasswordEndsSessions(c) \/ DeleteRemovesHome(c) \/ LoginFails(c)
      BY <1>3, <3>1 DEF LoginUser, PasswordEndsSessions, DeleteRemovesHome, LoginFails
    <3>2. CASE LoginUserID(c)
      BY <1>0, <3>2 DEF LoginUserID, CallsOK, Ready, Opening
    <3>3. CASE ApiSetup(c)
      BY <1>2, <3>3 DEF ApiSetup
    <3>4. CASE SetupCreates(c)
      BY <1>3, <1>4, <3>4 DEF SetupCreates, CreateInitialAdminIfNone
    <3>5. CASE ApiAdminPassword(c)
      BY <1>0, <3>5 DEF ApiAdminPassword, CallsOK, Opening
    <3>6. CASE ApiAdminDelete(c)
      BY <1>0, <3>6 DEF ApiAdminDelete, CallsOK, Opening
    <3>7. CASE UsePasswordResetToken(c)
      BY <1>0, <3>7 DEF UsePasswordResetToken, CallsOK, Opening
    <3>8. CASE ApiProfile(c)
      BY <1>0, <3>8 DEF ApiProfile, CallsOK, Opening
    <3>9. CASE ProfileBackup(c)
      BY <1>0, <3>9 DEF ProfileBackup, CallsOK, Opening
    <3>10. CASE ProfileReads(c)
      BY <1>0, <1>3, <3>10 DEF ProfileReads, CallsOK, Opening
    <3>11. CASE MirrorCachedUser(c)
      BY <1>2, <1>3, <3>11 DEF MirrorCachedUser
    <3>12. CASE UserRequest(c)
      BY <1>4, <3>12 DEF UserRequest
    <3>13. CASE ApiLogin(c)
      BY <1>0, <3>13 DEF ApiLogin, CallsOK, Opening
    <3>14. CASE LoginSucceeds(c)
      BY <1>0, <3>14 DEF LoginSucceeds, CallsOK, Opening
    <3> QED BY <1>5, <3>1, <3>2, <3>3, <3>4, <3>5, <3>6, <3>7, <3>8, <3>9, <3>10, <3>11, <3>12, <3>13, <3>14
  <2> QED BY <2>1, <2>2, HandlesStay DEF OpenersStay
<1>6. ASSUME NEW c \in Calls, DeleteDropsHandle(c) PROVE HandlesInv'
  <2> DEFINE u == call[c].u
  <2>1. u \in Ids /\ opened' = opened \ {<<u, cached[u]>>} /\ cached' = [cached EXCEPT ![u] = Absent] /\ Moves2(c, "removing")
    BY <1>0, <1>6 DEF DeleteDropsHandle, CallsOK
  <2>2. \A d \in Calls : /\ Opening(d)' => call'[d].at = call[d].at /\ call'[d].u = call[d].u
                         /\ call[d].at = "caching" => call'[d].at = "caching" /\ call'[d].u = call[d].u
    BY <1>2, <1>6, <2>1 DEF DeleteDropsHandle
  <2> HIDE DEF u
  <2>3. DOMAIN cached' = Ids /\ cached'[u] = Absent /\ \A w \in Ids : w # u => cached'[w] = cached[w]
    BY <2>1 DEF HandlesInv
  <2>4. ASSUME NEW d \in Calls, Opening(d)' PROVE cached'[call'[d].u] # d
    <3>1. Opening(d) /\ call'[d].u = call[d].u /\ call[d].u \in Ids
      BY <1>0, <2>2, <2>4 DEF Opening, CallsOK
    <3> QED BY <2>3, <3>1, UsersAssumption DEF HandlesInv
  <2>5. ASSUME NEW d \in Calls, call'[d].at = "caching" PROVE <<call'[d].u, d>> \in opened'
    <3>1. call[d].at = "caching" /\ call'[d].u = call[d].u /\ Opening(d)
      BY <2>2, <2>5 DEF Opening
    <3>2. cached[call[d].u] # d /\ <<call[d].u, d>> \in opened
      BY <3>1 DEF HandlesInv
    <3> QED BY <2>1, <3>1, <3>2
  <2>6. OneHandle'
    <3>1. ASSUME NEW h \in opened' PROVE cached'[h[1]] = h[2] \/ (h[2] \in Calls /\ call'[h[2]].at = "caching" /\ call'[h[2]].u = h[1])
      <4>1. h \in opened /\ h # <<u, cached[u]>> /\ h = <<h[1], h[2]>> /\ h[1] \in Ids
        BY <2>1, <3>1 DEF HandlesInv
      <4>2. cached[h[1]] = h[2] \/ (h[2] \in Calls /\ call[h[2]].at = "caching" /\ call[h[2]].u = h[1])
        BY <4>1 DEF HandlesInv, OneHandle
      <4> QED BY <2>2, <2>3, <4>1, <4>2
    <3>2. ASSUME NEW w \in Ids, cached'[w] # Absent PROVE <<w, cached'[w]>> \in opened'
      BY <2>1, <2>3, <3>2 DEF HandlesInv, OneHandle
    <3> QED BY <3>1, <3>2 DEF OneHandle
  <2>7. \A h \in opened' : h = <<h[1], h[2]>> /\ h[1] \in Ids /\ h[2] # Absent
    BY <2>1 DEF HandlesInv
  <2> QED BY <2>3, <2>4, <2>5, <2>6, <2>7 DEF HandlesInv
<1>7. ASSUME NEW c \in Calls, UserStoreLooks(c) PROVE HandlesInv'
  <2>1. UNCHANGED <<cached, opened>> /\ call[c].at = "looked" /\ call[c].u \in Ids
    BY <1>0, <1>7 DEF UserStoreLooks, stores, CallsOK
  <2>2. CASE Carries(c)
    BY <1>2, <1>3, <2>1, <2>2, HandlesStay DEF Carries, OpenersStay
  <2>3. CASE ~Carries(c)
    <3>1. cached[call[c].u] = Absent /\ call' = [call EXCEPT ![c].at = "opening", ![c].v = people[call[c].u].pref]
      BY <1>7, <2>3 DEF UserStoreLooks
    <3>2. call'[c].at = "opening" /\ call'[c].u = call[c].u /\ \A d \in Calls : d # c => call'[d] = call[d]
      BY <1>0, <3>1 DEF CallsOK
    <3>3. \A d \in Calls : Opening(d)' => cached'[call'[d].u] # d
      BY <2>1, <3>1, <3>2, UsersAssumption DEF HandlesInv, Opening
    <3>4. \A d \in Calls : call'[d].at = "caching" <=> call[d].at = "caching"
      BY <2>1, <3>2
    <3>5. OneHandle'
      BY <2>1, <3>2, <3>4 DEF HandlesInv, OneHandle
    <3> QED BY <2>1, <3>2, <3>3, <3>4, <3>5 DEF HandlesInv
  <2> QED BY <2>2, <2>3
<1>8. ASSUME NEW c \in Calls, UserStoreOpens(c) PROVE HandlesInv'
  <2>1. /\ call[c].at = "opening" /\ call[c].u \in Ids /\ Moves2(c, "caching") /\ cached' = cached
        /\ opened' = opened \cup {<<call[c].u, c>>}
    BY <1>0, <1>8 DEF UserStoreOpens, CallsOK
  <2>2. call'[c].at = "caching" /\ call'[c].u = call[c].u /\ \A d \in Calls : d # c => call'[d] = call[d]
    BY <1>0, <2>1 DEF CallsOK, Moves2
  <2>3. \A d \in Calls : Opening(d)' => Opening(d) /\ call'[d].u = call[d].u
    BY <2>1, <2>2 DEF Opening
  <2>4. ASSUME NEW h \in opened' PROVE cached'[h[1]] = h[2] \/ (h[2] \in Calls /\ call'[h[2]].at = "caching" /\ call'[h[2]].u = h[1])
    <3>1. CASE h = <<call[c].u, c>>
      BY <2>2, <3>1
    <3>2. CASE h \in opened
      <4>1. cached[h[1]] = h[2] \/ (h[2] \in Calls /\ call[h[2]].at = "caching" /\ call[h[2]].u = h[1])
        BY <3>2 DEF HandlesInv, OneHandle
      <4> QED BY <2>1, <2>2, <4>1
    <3> QED BY <2>1, <2>4, <3>1, <3>2
  <2>5. OneHandle'
    BY <2>1, <2>4 DEF HandlesInv, OneHandle
  <2>6. \A d \in Calls : call'[d].at = "caching" => <<call'[d].u, d>> \in opened'
    BY <2>1, <2>2 DEF HandlesInv
  <2>7. \A h \in opened' : h = <<h[1], h[2]>> /\ h[1] \in Ids /\ h[2] # Absent
    BY <2>1, UsersAssumption DEF HandlesInv
  <2> QED BY <2>1, <2>3, <2>5, <2>6, <2>7 DEF HandlesInv
<1>9. ASSUME NEW c \in Calls, UserStoreCaches(c) PROVE HandlesInv'
  <2> DEFINE u == call[c].u
  <2>1. call[c].at = "caching" /\ u \in Ids /\ CachesFirst(c) /\ Carries(c)
    BY <1>0, <1>9 DEF UserStoreCaches, CallsOK
  <2>2. call'[c].at \notin {"opening", "caching"} /\ \A d \in Calls : d # c => call'[d] = call[d]
    BY <1>0, <2>1 DEF CallsOK, Carries, Moves2, Finishes, Ready
  <2>3. <<u, c>> \in opened /\ cached[u] # c
    BY <2>1 DEF HandlesInv, Opening
  <2>4. CASE cached[u] # Absent
    <3>1. cached' = cached /\ opened' = opened \ {<<u, c>>}
      BY <2>1, <2>4 DEF CachesFirst
    <3> HIDE DEF u
    <3>2. ASSUME NEW h \in opened' PROVE cached'[h[1]] = h[2] \/ (h[2] \in Calls /\ call'[h[2]].at = "caching" /\ call'[h[2]].u = h[1])
      <4>1. h \in opened /\ h # <<u, c>> /\ h = <<h[1], h[2]>> /\ h[1] \in Ids
        BY <3>1, <3>2 DEF HandlesInv
      <4>2. cached[h[1]] = h[2] \/ (h[2] \in Calls /\ call[h[2]].at = "caching" /\ call[h[2]].u = h[1])
        BY <4>1 DEF HandlesInv, OneHandle
      <4>3. h[2] = c /\ call[h[2]].u = h[1] => h = <<u, c>>
        BY <4>1 DEF u
      <4> QED BY <2>2, <3>1, <4>1, <4>2, <4>3
    <3>3. ASSUME NEW w \in Ids, cached'[w] # Absent PROVE <<w, cached'[w]>> \in opened'
      BY <2>3, <3>1, <3>3 DEF HandlesInv, OneHandle
    <3>4. \A d \in Calls : Opening(d)' => cached'[call'[d].u] # d
      BY <2>2, <3>1 DEF HandlesInv, Opening
    <3>5. \A d \in Calls : call'[d].at = "caching" => <<call'[d].u, d>> \in opened'
      BY <2>2, <3>1 DEF HandlesInv
    <3>6. \A h \in opened' : h = <<h[1], h[2]>> /\ h[1] \in Ids /\ h[2] # Absent
      BY <3>1 DEF HandlesInv
    <3> QED BY <3>1, <3>2, <3>3, <3>4, <3>5, <3>6 DEF HandlesInv, OneHandle
  <2>5. CASE cached[u] = Absent
    <3>1. cached' = [cached EXCEPT ![u] = c] /\ opened' = opened
      BY <2>1, <2>5 DEF CachesFirst
    <3>2. DOMAIN cached' = Ids /\ cached'[u] = c /\ \A w \in Ids : w # u => cached'[w] = cached[w]
      BY <2>1, <3>1 DEF HandlesInv
    <3> HIDE DEF u
    <3>3. ASSUME NEW h \in opened PROVE cached'[h[1]] = h[2] \/ (h[2] \in Calls /\ call'[h[2]].at = "caching" /\ call'[h[2]].u = h[1])
      <4>1. h = <<h[1], h[2]>> /\ h[1] \in Ids
        BY <3>3 DEF HandlesInv
      <4>2. cached[h[1]] = h[2] \/ (h[2] \in Calls /\ call[h[2]].at = "caching" /\ call[h[2]].u = h[1])
        BY <3>3 DEF HandlesInv, OneHandle
      <4>3. CASE h[2] \in Calls /\ call[h[2]].at = "caching" /\ call[h[2]].u = h[1]
        BY <2>2, <3>2, <4>1, <4>3 DEF u
      <4>4. CASE cached[h[1]] = h[2] /\ h[1] = u
        <5>1. h[2] = Absent
          BY <2>5, <4>4
        <5> QED BY <5>1, <3>3 DEF HandlesInv
      <4>5. CASE cached[h[1]] = h[2] /\ h[1] # u
        BY <3>2, <4>1, <4>5
      <4> QED BY <4>2, <4>3, <4>4, <4>5
    <3>4. ASSUME NEW w \in Ids, cached'[w] # Absent PROVE <<w, cached'[w]>> \in opened'
      BY <2>3, <3>1, <3>2, <3>4 DEF HandlesInv, OneHandle
    <3>5. \A d \in Calls : Opening(d)' => cached'[call'[d].u] # d
      BY <1>0, <2>2, <3>2 DEF HandlesInv, Opening, CallsOK
    <3>6. \A d \in Calls : call'[d].at = "caching" => <<call'[d].u, d>> \in opened'
      BY <2>2, <3>1 DEF HandlesInv
    <3> QED BY <3>1, <3>2, <3>3, <3>4, <3>5, <3>6 DEF HandlesInv, OneHandle
  <2> QED BY <2>4, <2>5
<1>10. ASSUME Reopens PROVE HandlesInv'
  <2>1. /\ cached' = [u \in Ids |-> IF Live(u) THEN Boot ELSE Absent]
        /\ opened' = {<<u, Boot>> : u \in {v \in Ids : Live(v)}}
        /\ \A c \in Calls : call'[c].at = "idle"
    BY <1>10 DEF Reopens, Ready
  <2>2. \A h \in opened' : h = <<h[1], h[2]>> /\ h[1] \in Ids /\ h[2] # Absent /\ cached'[h[1]] = h[2]
    BY <2>1, UsersAssumption
  <2>3. \A u \in Ids : cached'[u] # Absent => <<u, cached'[u]>> \in opened'
    BY <2>1
  <2>4. \A c \in Calls : ~Opening(c)' /\ call'[c].at # "caching"
    BY <2>1 DEF Opening
  <2> QED BY <2>1, <2>2, <2>3, <2>4 DEF HandlesInv, OneHandle
<1>11. ASSUME CreateUser \/ ApiPasswordResetRequest \/ (\E t \in SessionIds : ApiLogout(t)) \/ Expires \/ Clock \/ UNCHANGED userVars
       PROVE  HandlesInv'
  <2>1. UNCHANGED <<cached, opened, call>>
    BY <1>11 DEF CreateUser, ApiPasswordResetRequest, ApiLogout, Expires, Clock, userVars, stores
  <2> QED BY <2>1, HandlesStay DEF OpenersStay, Opening
<1> QED BY <1>5, <1>6, <1>7, <1>8, <1>9, <1>10, <1>11 DEF UsersNext

\* Every open database handle is the cached one or in the hands of the request
\* that opened it, and the cache holds no closed handle (userStore, DeleteUser).
THEOREM HandlesAreKept == UsersSpec => []OneHandle
<1>1. UsersInit => HandlesInv
  BY HandlesInitially
<1>2. HandlesInv /\ UsersTyped /\ [UsersNext]_userVars => HandlesInv'
  BY HandlesKept
<1>3. HandlesInv => OneHandle
  BY DEF HandlesInv
<1>4. AccountsInv => UsersTyped
  BY DEF AccountsInv
<1> QED BY <1>1, <1>2, <1>3, <1>4, AccountsAlways, PTL DEF UsersSpec

-----------------------------------------------------------------------------
(* The login throttle *)

\* The failures are listed oldest first.
Aged(ages) == ages \in Seq(Nat) /\ \A m, n \in 1..Len(ages) : m <= n => ages[m] >= ages[n]
Stale(ages) == {n \in DOMAIN ages : ages[n] >= WindowLen}
Recent(ages) == Len(Inside(ages))
\* Attempts that were let through and have not been recorded yet.
Tried(u) == {c \in Calls : call[c].at = "verify" /\ call[c].u = u}

\* What is stale is a beginning of the list.
LEMMA StaleFirst ==
    ASSUME NEW ages, Aged(ages)
    PROVE  \E k \in 0..Len(ages) : Stale(ages) = 1..k /\ Cardinality(Stale(ages)) = k
<1> DEFINE fresh == {n \in Nat : n >= 1 /\ n \notin Stale(ages)}
<1>1. DOMAIN ages = 1..Len(ages) /\ Len(ages) \in Nat /\ \A n \in 1..Len(ages) : ages[n] \in Nat
  BY DEF Aged
<1>2. Len(ages) + 1 \in fresh /\ fresh \subseteq Nat
  BY <1>1 DEF Stale
<1>3. IsWellFoundedOn(OpToRel(<, Nat), Nat)
  BY NatLessThanWellFounded
<1>4. PICK first \in fresh : \A n \in fresh : ~(<<n, first>> \in OpToRel(<, Nat))
  BY <1>2, <1>3, WFMin
<1>5. \A n \in fresh : n < first => <<n, first>> \in OpToRel(<, Nat)
  BY <1>2 DEF OpToRel
<1>6. \A n \in fresh : first <= n
  <2>1. first \in Nat /\ \A n \in fresh : n \in Nat /\ ~(n < first)
    BY <1>2, <1>4, <1>5
  <2> HIDE DEF fresh
  <2> QED BY <2>1
<1>7. first - 1 \in 0..Len(ages)
  BY <1>1, <1>2, <1>6
<1>8. Stale(ages) = 1..(first - 1)
  <2>1. \A n \in 1..(first - 1) : n \in Stale(ages)
    BY <1>6, <1>2
  <2>2. ASSUME NEW n \in Stale(ages) PROVE n \in 1..(first - 1)
    <3>1. n \in 1..Len(ages) /\ ages[n] >= WindowLen
      BY <1>1, <2>2 DEF Stale
    <3>2. CASE first <= n
      <4>1. first \in 1..Len(ages) /\ ages[first] >= ages[n] /\ ages[first] \in Nat /\ ages[n] \in Nat
        BY <1>1, <1>2, <3>1, <3>2 DEF Aged
      <4>2. first \in Stale(ages)
        BY <1>1, <3>1, <4>1, UsersAssumption DEF Stale
      <4> QED BY <1>2, <4>2
    <3> QED BY <1>2, <3>1, <3>2
  <2> QED BY <2>1, <2>2
<1>9. Cardinality(1..(first - 1)) = first - 1
  <2>1. 1 \in Int /\ first - 1 \in Int
    BY <1>2
  <2>2. Cardinality(1..(first - 1)) = IF 1 > first - 1 THEN 0 ELSE (first - 1) - 1 + 1
    BY <2>1, FS_Interval
  <2> QED BY <1>7, <2>2
<1> QED BY <1>7, <1>8, <1>9

\* What the window keeps: the rest of the list.
LEMMA InsideIs ==
    ASSUME NEW ages, Aged(ages)
    PROVE  /\ Recent(ages) \in 0..Len(ages) /\ Aged(Inside(ages))
           /\ \A n \in 1..Recent(ages) : Inside(ages)[n] < WindowLen
           /\ Stale(ages) = 1..(Len(ages) - Recent(ages))
<1>1. PICK k \in 0..Len(ages) : Stale(ages) = 1..k /\ Cardinality(Stale(ages)) = k
  BY StaleFirst
<1>2. ages \in Seq(Nat) /\ Len(ages) \in Nat /\ DOMAIN ages = 1..Len(ages)
  BY DEF Aged
<1>3. Inside(ages) = SubSeq(ages, k + 1, Len(ages))
  BY <1>1 DEF Inside, Stale
<1>4. /\ Inside(ages) \in Seq(Nat) /\ Len(Inside(ages)) = Len(ages) - k
      /\ \A n \in 1..(Len(ages) - k) : Inside(ages)[n] = ages[n + k]
  <2> DEFINE rest == SubSeq(ages, k + 1, Len(ages))
  <2>1. k + 1 \in Int /\ Len(ages) \in Int /\ \A n \in (k + 1)..Len(ages) : ages[n] \in Nat
    BY <1>2
  <2>2. /\ rest \in Seq(Nat) /\ Len(rest) = IF k + 1 <= Len(ages) THEN Len(ages) - (k + 1) + 1 ELSE 0
        /\ \A n \in 1..(Len(ages) - (k + 1) + 1) : rest[n] = ages[k + 1 + n - 1]
    BY <2>1, SubSeqProperties
  <2> HIDE DEF rest
  <2>3. Len(rest) = Len(ages) - k
    <3>1. \A len \in Nat : \A j \in 0..len : (IF j + 1 <= len THEN len - (j + 1) + 1 ELSE 0) = len - j
      OBVIOUS
    <3> QED BY <1>1, <1>2, <2>2, <3>1
  <2>4. ASSUME NEW n \in 1..(Len(ages) - k) PROVE rest[n] = ages[n + k]
    <3>1. n \in 1..(Len(ages) - (k + 1) + 1) /\ k + 1 + n - 1 = n + k
      BY <1>1, <1>2, <2>4
    <3> QED BY <2>2, <3>1
  <2> QED BY <1>3, <2>2, <2>3, <2>4 DEF rest
<1>5. \A n \in 1..(Len(ages) - k) : n + k \in 1..Len(ages) /\ n + k \notin Stale(ages)
  BY <1>1, <1>2
<1>6. \A n \in 1..(Len(ages) - k) : Inside(ages)[n] < WindowLen
  BY <1>2, <1>4, <1>5, UsersAssumption DEF Stale
<1>7. Aged(Inside(ages))
  BY <1>2, <1>4, <1>5 DEF Aged
<1> QED BY <1>1, <1>2, <1>4, <1>6, <1>7 DEF Recent

\* Failures in the window are at its end: if there is one, the newest is.
LEMMA RecentAtEnd ==
    ASSUME NEW ages, Aged(ages), Recent(ages) > 0
    PROVE  Len(ages) > 0 /\ ages[Len(ages)] \in Nat /\ ages[Len(ages)] < WindowLen
<1>1. Recent(ages) \in 0..Len(ages) /\ Stale(ages) = 1..(Len(ages) - Recent(ages))
  BY InsideIs
<1>2. Len(ages) \in Nat /\ DOMAIN ages = 1..Len(ages) /\ \A n \in 1..Len(ages) : ages[n] \in Nat
  BY DEF Aged
<1>3. Len(ages) > 0 /\ Len(ages) \notin Stale(ages)
  BY <1>1, <1>2
<1> QED BY <1>2, <1>3, UsersAssumption DEF Stale

\* The record of an address: a full window was locked by its newest failure, and what may
\* still be added to it was let through before.
RecordIs(rec, tried) ==
    /\ Aged(rec.fails) /\ rec.lock \in Int
    /\ Recent(rec.fails) >= MaxPerEmail => rec.lock = WindowLen - rec.fails[Len(rec.fails)]
    /\ Recent(rec.fails) + Cardinality(tried) <= MaxPerEmail - 1 + Cardinality(Calls)
ThrottleInv ==
    /\ DOMAIN byEmail = Ids
    /\ \A u \in Ids : byEmail[u] # Absent => RecordIs(byEmail[u], Tried(u))

\* Sets of requests are counted.
LEMMA TriedFinite ==
    ASSUME IsFiniteSet(Calls), NEW T \in SUBSET Calls, NEW S \in SUBSET T
    PROVE  Cardinality(S) \in Nat /\ Cardinality(T) \in Nat /\ Cardinality(S) <= Cardinality(T)
<1>1. IsFiniteSet(T)
  BY FS_Subset
<1> QED BY <1>1, FS_Subset, FS_CardinalityType

\* Fewer attempts in flight keep a record as it is.
LEMMA RecordStays ==
    ASSUME IsFiniteSet(Calls), NEW rec, NEW T \in SUBSET Calls, NEW S \in SUBSET T, RecordIs(rec, T)
    PROVE  RecordIs(rec, S)
<1>1. Cardinality(S) \in Nat /\ Cardinality(T) \in Nat /\ Cardinality(S) <= Cardinality(T)
  BY TriedFinite
<1>2. Cardinality(Calls) \in Nat
  BY FS_CardinalityType
<1>3. Recent(rec.fails) \in Nat
  BY InsideIs DEF RecordIs, Aged
<1> QED BY <1>1, <1>2, <1>3, UsersAssumption DEF RecordIs

\* Steps that let nobody through and record nothing.
LEMMA ThrottleStays ==
    ASSUME IsFiniteSet(Calls), ThrottleInv, DOMAIN byEmail' = Ids,
           \A u \in Ids : byEmail'[u] = byEmail[u] \/ byEmail'[u] = Absent,
           \A c \in Calls : call'[c].at = "verify" => call[c].at = "verify" /\ call'[c].u = call[c].u
    PROVE  ThrottleInv'
<1>1. ASSUME NEW u \in Ids, byEmail'[u] # Absent PROVE RecordIs(byEmail'[u], Tried(u)')
  <2>1. byEmail'[u] = byEmail[u] /\ RecordIs(byEmail[u], Tried(u))
    BY <1>1 DEF ThrottleInv
  <2>2. Tried(u)' \subseteq Tried(u) /\ Tried(u) \subseteq Calls
    BY DEF Tried
  <2>3. RecordIs(byEmail[u], Tried(u)')
    BY <2>1, <2>2, RecordStays
  <2> QED BY <2>1, <2>3
<1> QED BY <1>1 DEF ThrottleInv

\* An attempt that fails is recorded: the window gains it, the attempts in flight lose it.
LEMMA FailureRecorded ==
    ASSUME IsFiniteSet(Calls), NEW T \in SUBSET Calls, NEW c \in T, NEW old,
           RecordIs(old, T) \/ (old.fails = <<>> /\ old.lock \in Int)
    PROVE  LET fails == Append(Inside(old.fails), 0)
           IN  RecordIs([fails |-> fails, lock |-> IF LocksAt(Len(fails)) THEN WindowLen ELSE old.lock], T \ {c})
<1> DEFINE fails == Append(Inside(old.fails), 0)
           new == [fails |-> fails, lock |-> IF LocksAt(Len(fails)) THEN WindowLen ELSE old.lock]
<1>0. Aged(old.fails) /\ old.lock \in Int
  <2>1. Aged(<<>>)
    BY DEF Aged
  <2>2. CASE RecordIs(old, T)
    BY <2>2 DEF RecordIs
  <2> QED BY <2>1, <2>2
<1>1. /\ Recent(old.fails) \in Nat /\ Aged(Inside(old.fails)) /\ Recent(old.fails) = Len(Inside(old.fails))
      /\ \A n \in 1..Recent(old.fails) : Inside(old.fails)[n] < WindowLen
  <2>1. Len(old.fails) \in Nat
    BY <1>0 DEF Aged
  <2>2. /\ Recent(old.fails) \in 0..Len(old.fails) /\ Aged(Inside(old.fails))
        /\ \A n \in 1..Recent(old.fails) : Inside(old.fails)[n] < WindowLen
    BY <1>0, InsideIs
  <2> QED BY <2>1, <2>2 DEF Recent
<1>2. /\ Aged(fails) /\ Len(fails) = Recent(old.fails) + 1 /\ fails[Len(fails)] = 0
      /\ \A n \in 1..Len(fails) : fails[n] < WindowLen
  <2> DEFINE rest == Inside(old.fails)
  <2>1. /\ rest \in Seq(Nat) /\ Len(rest) = Recent(old.fails) /\ Len(rest) \in Nat
        /\ \A n \in 1..Len(rest) : rest[n] \in Nat /\ rest[n] < WindowLen
        /\ \A m, n \in 1..Len(rest) : m <= n => rest[m] >= rest[n]
    BY <1>1 DEF Aged
  <2>2. fails = Append(rest, 0)
    OBVIOUS
  <2> HIDE DEF rest, fails
  <2>3. /\ fails \in Seq(Nat) /\ Len(fails) = Len(rest) + 1 /\ fails[Len(rest) + 1] = 0
        /\ \A n \in 1..Len(rest) : fails[n] = rest[n]
    BY <2>1, <2>2
  <2>4. \A n \in 1..Len(fails) : n = Len(rest) + 1 \/ n \in 1..Len(rest)
    BY <2>1, <2>3
  <2>5. \A n \in 1..Len(fails) : fails[n] \in Nat /\ fails[n] < WindowLen
    BY <2>1, <2>3, <2>4, UsersAssumption
  <2>6. ASSUME NEW m \in 1..Len(fails), NEW n \in 1..Len(fails), m <= n PROVE fails[m] >= fails[n]
    <3>1. CASE n = Len(rest) + 1
      BY <2>3, <2>5, <3>1
    <3>2. CASE n \in 1..Len(rest)
      <4>1. m \in 1..Len(rest)
        BY <2>1, <2>6, <3>2
      <4> QED BY <2>1, <2>3, <2>6, <3>2, <4>1
    <3> QED BY <2>4, <3>1, <3>2
  <2>7. Aged(fails)
    BY <2>3, <2>6 DEF Aged
  <2> QED BY <2>1, <2>3, <2>5, <2>7
<1>3. Stale(fails) = {}
  <2> HIDE DEF fails
  <2>1. DOMAIN fails = 1..Len(fails) /\ \A n \in 1..Len(fails) : fails[n] \in Nat
    BY <1>2 DEF Aged
  <2> QED BY <1>2, <2>1, UsersAssumption DEF Stale
<1>4. Recent(fails) = Recent(old.fails) + 1
  <2> HIDE DEF fails
  <2>1. Recent(fails) \in 0..Len(fails) /\ Stale(fails) = 1..(Len(fails) - Recent(fails)) /\ Len(fails) \in Nat
    BY <1>1, <1>2, InsideIs
  <2>2. 1 \notin 1..(Len(fails) - Recent(fails))
    BY <1>3, <2>1
  <2> QED BY <1>2, <2>1, <2>2
<1>5. Cardinality(T \ {c}) = Cardinality(T) - 1 /\ Cardinality(T) \in Nat /\ Cardinality(Calls) \in Nat
      /\ Cardinality(T) <= Cardinality(Calls)
  <2>1. IsFiniteSet(T)
    BY FS_Subset
  <2>2. Cardinality(T \ {c}) = Cardinality(T) - 1
    BY <2>1, FS_RemoveElement
  <2>3. Cardinality(T) \in Nat /\ Cardinality(Calls) \in Nat /\ Cardinality(T) <= Cardinality(Calls)
    BY TriedFinite
  <2> QED BY <2>2, <2>3
<1>6. Recent(old.fails) + Cardinality(T) <= MaxPerEmail - 1 + Cardinality(Calls)
  <2>1. CASE RecordIs(old, T)
    BY <2>1 DEF RecordIs
  <2>2. CASE old.fails = <<>>
    <3>1. Recent(old.fails) = 0
      BY <1>0, <2>2, InsideIs
    <3> QED BY <1>5, <3>1, UsersAssumption
  <2> QED BY <2>1, <2>2
<1>7. Recent(fails) + Cardinality(T \ {c}) <= MaxPerEmail - 1 + Cardinality(Calls)
  BY <1>1, <1>4, <1>5, <1>6, UsersAssumption
<1>8. new.fails = fails /\ new.lock = IF Len(fails) >= MaxPerEmail THEN WindowLen ELSE old.lock
  BY DEF LocksAt
<1>9. new.lock \in Int
  BY <1>0, <1>8, UsersAssumption
<1>10. Recent(fails) >= MaxPerEmail => new.lock = WindowLen - fails[Len(fails)]
  BY <1>1, <1>2, <1>4, <1>8, UsersAssumption
<1>11. RecordIs(new, T \ {c})
  BY <1>2, <1>7, <1>8, <1>9, <1>10 DEF RecordIs
<1> QED BY <1>11

\* A record that no lockout holds has room in its window.
LEMMA UnlockedHasRoom ==
    ASSUME NEW rec, NEW T, RecordIs(rec, T), rec.lock < 0
    PROVE  Recent(rec.fails) <= MaxPerEmail - 1
<1>1. Aged(rec.fails) /\ Recent(rec.fails) \in Nat
  BY InsideIs DEF RecordIs, Aged
<1>2. SUFFICES ASSUME Recent(rec.fails) >= MaxPerEmail PROVE FALSE
  BY <1>1, UsersAssumption
<1>3. rec.lock = WindowLen - rec.fails[Len(rec.fails)]
  BY <1>2 DEF RecordIs
<1>4. rec.fails[Len(rec.fails)] \in Nat /\ rec.fails[Len(rec.fails)] < WindowLen
  BY <1>1, <1>2, RecentAtEnd, UsersAssumption
<1> QED BY <1>3, <1>4, UsersAssumption

\* Growing older, failures leave the window and the lockout of the newest runs down with it.
Grown(ages) == [n \in DOMAIN ages |-> Older1(ages[n])]
LEMMA RecordAges ==
    ASSUME IsFiniteSet(Calls), NEW T \in SUBSET Calls, NEW rec, RecordIs(rec, T)
    PROVE  RecordIs([fails |-> Grown(rec.fails), lock |-> IF rec.lock < 0 THEN -1 ELSE rec.lock - 1], T)
<1> DEFINE s == rec.fails
           t == Grown(s)
           new == [fails |-> t, lock |-> IF rec.lock < 0 THEN -1 ELSE rec.lock - 1]
<1>1. Aged(s) /\ s \in Seq(Nat) /\ Len(s) \in Nat /\ DOMAIN s = 1..Len(s) /\ \A n \in 1..Len(s) : s[n] \in Nat
  BY DEF RecordIs, Aged
<1>2. \A a \in Nat : Older1(a) \in Nat /\ Older1(a) >= a /\ (a < WindowLen => Older1(a) = a + 1)
  BY UsersAssumption DEF Older1
<1>3. \A a, b \in Nat : a >= b => Older1(a) >= Older1(b)
  BY UsersAssumption DEF Older1
<1>4. t \in Seq(Nat) /\ Len(t) = Len(s) /\ \A n \in 1..Len(s) : t[n] = Older1(s[n])
  <2>1. t = [n \in 1..Len(s) |-> Older1(s[n])]
    BY <1>1 DEF Grown
  <2>2. \A n \in 1..Len(s) : Older1(s[n]) \in Nat
    BY <1>1, <1>2
  <2>3. t \in Seq(Nat) /\ Len(t) = Len(s)
    BY <1>1, <2>1, <2>2
  <2> QED BY <2>1, <2>3
<1>5. Aged(t)
  BY <1>1, <1>3, <1>4 DEF Aged
<1>6. /\ Recent(s) \in 0..Len(s) /\ Stale(s) = 1..(Len(s) - Recent(s))
      /\ Recent(t) \in 0..Len(s) /\ Stale(t) = 1..(Len(s) - Recent(t))
  BY <1>1, <1>4, <1>5, InsideIs
<1>7. Stale(s) \subseteq Stale(t)
  <2>1. SUFFICES ASSUME NEW n \in Stale(s) PROVE n \in Stale(t)
    OBVIOUS
  <2>2. n \in 1..Len(s) /\ s[n] >= WindowLen /\ s[n] \in Nat
    BY <1>1, <2>1 DEF Stale
  <2>3. Older1(s[n]) \in Nat /\ Older1(s[n]) >= s[n] /\ t[n] = Older1(s[n])
    BY <1>2, <1>4, <2>2
  <2>4. t[n] >= WindowLen
    BY <2>2, <2>3, UsersAssumption
  <2>5. DOMAIN t = 1..Len(s)
    BY <1>4
  <2> QED BY <2>2, <2>4, <2>5 DEF Stale
<1>8. Recent(t) <= Recent(s)
  <2>1. SUFFICES ASSUME Recent(t) > Recent(s) PROVE FALSE
    BY <1>1, <1>6
  <2>2. Len(s) - Recent(s) \in 1..(Len(s) - Recent(s)) /\ Len(s) - Recent(s) \notin 1..(Len(s) - Recent(t))
    BY <1>1, <1>6, <2>1
  <2> QED BY <1>6, <1>7, <2>2
<1>9. Recent(t) >= MaxPerEmail => new.lock = WindowLen - t[Len(t)]
  <2>1. SUFFICES ASSUME Recent(t) >= MaxPerEmail PROVE rec.lock >= 0 /\ rec.lock - 1 = WindowLen - t[Len(t)]
    BY DEF RecordIs
  <2>2. rec.lock = WindowLen - s[Len(s)]
    BY <1>1, <1>6, <1>8, <2>1, UsersAssumption DEF RecordIs
  <2>3. Len(s) > 0 /\ s[Len(s)] \in Nat /\ s[Len(s)] < WindowLen
    BY <1>1, <1>6, <1>8, <2>1, RecentAtEnd, UsersAssumption
  <2>4. t[Len(t)] = s[Len(s)] + 1
    <3> HIDE DEF t
    <3>1. Len(s) \in 1..Len(s)
      BY <1>1, <2>3
    <3>2. t[Len(t)] = Older1(s[Len(s)])
      BY <1>4, <3>1
    <3> QED BY <1>2, <2>3, <3>2
  <2> QED BY <2>2, <2>3, <2>4, UsersAssumption
<1>10. Recent(t) + Cardinality(T) <= MaxPerEmail - 1 + Cardinality(Calls)
  <2>1. Cardinality(T) \in Nat /\ Cardinality(Calls) \in Nat
    BY TriedFinite
  <2>2. Recent(s) + Cardinality(T) <= MaxPerEmail - 1 + Cardinality(Calls)
    BY DEF RecordIs
  <2> QED BY <1>1, <1>6, <1>8, <2>1, <2>2, UsersAssumption
<1>11. new.fails = t /\ new.lock \in Int
  BY DEF RecordIs
<1>12. RecordIs(new, T)
  BY <1>5, <1>9, <1>10, <1>11 DEF RecordIs
<1> QED BY <1>12

\* The throttle starts empty.
LEMMA ThrottleInitially == UsersInit => ThrottleInv
BY DEF UsersInit, ThrottleInv

\* The table of addresses is emptied when it grows too large, and never otherwise.
LEMMA BoundsKept ==
    ASSUME NEW recs, DOMAIN recs = Ids
    PROVE  /\ DOMAIN Bounded(recs) = Ids
           /\ \A u \in Ids : Bounded(recs)[u] = recs[u] \/ Bounded(recs)[u] = Absent
BY DEF Bounded

\* pruneLocked forgets records, it changes none.
LEMMA PruningKeeps ==
    ASSUME DOMAIN byEmail = Ids
    PROVE  DOMAIN PrunedEmail = Ids /\ \A u \in Ids : PrunedEmail[u] = byEmail[u] \/ PrunedEmail[u] = Absent
<1> DEFINE young == [u \in Ids |->
                        IF /\ byEmail[u] # Absent /\ byEmail[u].lock < 0
                           /\ byEmail[u].fails = <<>> \/ Last(byEmail[u].fails) > WindowLen
                        THEN Absent ELSE byEmail[u]]
<1>1. DOMAIN young = Ids /\ \A u \in Ids : young[u] = byEmail[u] \/ young[u] = Absent
  OBVIOUS
<1>2. PrunedEmail = Bounded(young)
  BY DEF PrunedEmail
<1> HIDE DEF young
<1> QED BY <1>1, <1>2, BoundsKept

\* allow lets an attempt through only while no lockout holds.
LEMMA LoginKeepsThrottle ==
    ASSUME IsFiniteSet(Calls), CallsOK, ThrottleInv, NEW c \in Calls, ApiLogin(c)
    PROVE  ThrottleInv'
<1>1. byEmail' = PrunedEmail /\ DOMAIN byEmail = Ids
  BY DEF ApiLogin, RefusedAttempt, ThrottleInv
<1>2. DOMAIN byEmail' = Ids /\ \A u \in Ids : byEmail'[u] = byEmail[u] \/ byEmail'[u] = Absent
  BY <1>1, PruningKeeps
<1>3. CASE UNCHANGED call
  BY <1>2, <1>3, ThrottleStays
<1>4. CASE ~UNCHANGED call
  <2>1. PICK u \in Ids, i \in Sources :
           /\ ~Locked(PrunedEmail, u)
           /\ call' = [call EXCEPT ![c] = [at |-> "verify", u |-> u, v |-> 0, then |-> i]]
    BY <1>4 DEF ApiLogin
  <2>2. /\ call'[c].at = "verify" /\ call'[c].u = u
        /\ \A d \in Calls \ {c} : call'[d] = call[d]
    BY <2>1 DEF CallsOK
  <2>3. ASSUME NEW w \in Ids, byEmail'[w] # Absent PROVE RecordIs(byEmail'[w], Tried(w)')
    <3>1. byEmail'[w] = byEmail[w] /\ RecordIs(byEmail[w], Tried(w))
      BY <1>2, <2>3 DEF ThrottleInv
    <3>2. Tried(w) \subseteq Calls /\ Tried(w)' \subseteq Calls
      BY DEF Tried
    <3>3. CASE w # u
      <4>1. Tried(w)' \subseteq Tried(w)
        BY <2>2, <3>3 DEF Tried
      <4> QED BY <3>1, <3>2, <4>1, RecordStays
    <3>4. CASE w = u
      <4>1. byEmail[u].lock < 0
        BY <1>1, <2>1, <2>3, <3>1, <3>4 DEF Locked, RecordIs
      <4>2. Recent(byEmail[u].fails) <= MaxPerEmail - 1
        BY <3>1, <3>4, <4>1, UnlockedHasRoom
      <4>3. Cardinality(Tried(w)') <= Cardinality(Calls) /\ Cardinality(Tried(w)') \in Nat /\ Cardinality(Calls) \in Nat
        BY <3>2, TriedFinite
      <4>4. Recent(byEmail[u].fails) \in Nat
        BY <3>1, <3>4, InsideIs DEF RecordIs, Aged
      <4>5. Recent(byEmail[u].fails) + Cardinality(Tried(w)') <= MaxPerEmail - 1 + Cardinality(Calls)
        BY <4>2, <4>3, <4>4, UsersAssumption
      <4> QED BY <3>1, <3>4, <4>5 DEF RecordIs
    <3> QED BY <3>3, <3>4
  <2> QED BY <1>2, <2>3 DEF ThrottleInv
<1> QED BY <1>3, <1>4

\* recordFailure locks the record that its failure fills.
LEMMA FailureKeepsThrottle ==
    ASSUME IsFiniteSet(Calls), CallsOK, ThrottleInv, NEW c \in Calls, LoginFails(c)
    PROVE  ThrottleInv'
<1> DEFINE u == call[c].u
           old == IF byEmail[u] = Absent THEN [fails |-> <<>>, lock |-> -1] ELSE byEmail[u]
           fails == Append(Inside(old.fails), 0)
           rec == [fails |-> fails, lock |-> IF LocksAt(Len(fails)) THEN WindowLen ELSE old.lock]
<1>1. u \in Ids /\ call[c].at = "verify" /\ DOMAIN byEmail = Ids
  BY DEF LoginFails, CallsOK, ThrottleInv
<1>2. byEmail' = Bounded([byEmail EXCEPT ![u] = rec])
  BY DEF LoginFails, RecordFailure
<1>3. DOMAIN byEmail' = Ids /\ \A w \in Ids : byEmail'[w] = Absent \/ byEmail'[w] = IF w = u THEN rec ELSE byEmail[w]
  <2>1. DOMAIN [byEmail EXCEPT ![u] = rec] = Ids
    BY <1>1
  <2>2. \A w \in Ids : [byEmail EXCEPT ![u] = rec][w] = IF w = u THEN rec ELSE byEmail[w]
    BY <1>1
  <2> HIDE DEF rec
  <2> QED BY <1>2, <2>1, <2>2, BoundsKept
<1>4. \A d \in Calls : call'[d].at = "verify" => d # c /\ call[d] = call'[d]
  BY DEF LoginFails, Finishes, Ready, CallsOK
<1>5. RecordIs(rec, Tried(u) \ {c})
  <2>1. c \in Tried(u) /\ Tried(u) \subseteq Calls
    BY <1>1 DEF Tried
  <2>2. RecordIs(old, Tried(u)) \/ (old.fails = <<>> /\ old.lock \in Int)
    BY <1>1 DEF ThrottleInv
  <2> HIDE DEF old
  <2> QED BY <2>1, <2>2, FailureRecorded
<1>6. ASSUME NEW w \in Ids, byEmail'[w] # Absent PROVE RecordIs(byEmail'[w], Tried(w)')
  <2> HIDE DEF rec
  <2>1. Tried(w)' \subseteq Tried(w) \ {c} /\ Tried(w) \subseteq Calls
    BY <1>4 DEF Tried
  <2>2. CASE w = u
    <3>1. Tried(u) \ {c} \subseteq Calls /\ RecordIs(rec, Tried(u) \ {c}) /\ Tried(w)' \subseteq Tried(u) \ {c}
      BY <1>5, <2>1, <2>2
    <3>2. RecordIs(rec, Tried(w)')
      BY <3>1, RecordStays
    <3> QED BY <1>3, <1>6, <2>2, <3>2
  <2>3. CASE w # u
    <3>1. byEmail'[w] = byEmail[w] /\ RecordIs(byEmail[w], Tried(w))
      BY <1>3, <1>6, <2>3 DEF ThrottleInv
    <3> QED BY <2>1, <3>1, RecordStays
  <2> QED BY <2>2, <2>3
<1> QED BY <1>3, <1>6 DEF ThrottleInv

\* Time keeps the lockout and the newest failure in step.
LEMMA ClockKeepsThrottle == ASSUME IsFiniteSet(Calls), ThrottleInv, Clock PROVE ThrottleInv'
<1>1. DOMAIN byEmail' = Ids /\ UNCHANGED call
  BY DEF Clock
<1>2. ASSUME NEW u \in Ids, byEmail'[u] # Absent PROVE RecordIs(byEmail'[u], Tried(u)')
  <2>1. /\ byEmail[u] # Absent
        /\ byEmail'[u] = [fails |-> Grown(byEmail[u].fails),
                          lock |-> IF byEmail[u].lock < 0 THEN -1 ELSE byEmail[u].lock - 1]
    BY <1>2 DEF Clock, Grown
  <2>2. RecordIs(byEmail[u], Tried(u)) /\ Tried(u) \subseteq Calls /\ Tried(u)' = Tried(u)
    BY <1>1, <2>1 DEF ThrottleInv, Tried
  <2> QED BY <2>1, <2>2, RecordAges
<1> QED BY <1>1, <1>2 DEF ThrottleInv

\* The other steps: a success or a restart forgets records, and only allow lets an attempt through.
LEMMA ThrottleKept ==
    ASSUME IsFiniteSet(Calls), UsersTyped, ThrottleInv, [UsersNext]_userVars
    PROVE  ThrottleInv'
<1>0. CallsOK /\ DOMAIN byEmail = Ids
  BY DEF UsersTyped, ThrottleInv
<1> DEFINE LetsNobody == \A d \in Calls : call'[d].at = "verify" => call[d].at = "verify" /\ call'[d].u = call[d].u
<1>1. ASSUME NEW c \in Calls, NEW next, Own(c, next), next.at # "verify" PROVE LetsNobody
  BY <1>0, <1>1 DEF Own, CallsOK
<1>2. ASSUME NEW c \in Calls, NEW at, Moves2(c, at), at # "verify" PROVE LetsNobody
  BY <1>0, <1>2 DEF Moves2, CallsOK
<1>3. ASSUME NEW c \in Calls, Finishes(c) PROVE LetsNobody
  BY <1>1, <1>3 DEF Finishes, Own, Ready
<1>4. ASSUME NEW c \in Calls, NEW u, NEW then, Opens(c, u, then) PROVE LetsNobody
  BY <1>1, <1>4 DEF Opens, Own
<1>5. ASSUME NEW c \in Calls, Carries(c) PROVE LetsNobody
  BY <1>2, <1>3, <1>5 DEF Carries
<1>6. ASSUME NEW c \in Calls,
             \/ LoginUser(c) \/ LoginUserID(c) \/ ApiSetup(c) \/ SetupCreates(c) \/ ApiAdminPassword(c) \/ PasswordEndsSessions(c)
             \/ ApiAdminDelete(c) \/ DeleteDropsHandle(c) \/ DeleteRemovesHome(c) \/ UsePasswordResetToken(c) \/ ApiProfile(c)
             \/ ProfileBackup(c) \/ ProfileReads(c) \/ MirrorCachedUser(c) \/ UserRequest(c) \/ UserStoreLooks(c)
             \/ UserStoreOpens(c) \/ UserStoreCaches(c)
      PROVE  ThrottleInv'
  <2>1. UNCHANGED byEmail
    BY <1>6 DEF LoginUser, LoginUserID, ApiSetup, SetupCreates, ApiAdminPassword, PasswordEndsSessions, ApiAdminDelete,
         DeleteDropsHandle, DeleteRemovesHome, UsePasswordResetToken, ApiProfile, ProfileBackup, ProfileReads, MirrorCachedUser,
         UserRequest, UserStoreLooks, UserStoreOpens, UserStoreCaches, throttle
  <2>2. LetsNobody
    <3>1. CASE LoginUser(c) \/ PasswordEndsSessions(c) \/ DeleteRemovesHome(c)
      BY <1>3, <3>1 DEF LoginUser, PasswordEndsSessions, DeleteRemovesHome
    <3>2. CASE LoginUserID(c)
      BY <1>0, <3>2 DEF LoginUserID, CallsOK, Ready
    <3>3. CASE ApiSetup(c) \/ DeleteDropsHandle(c) \/ UserStoreOpens(c)
      BY <1>2, <3>3 DEF ApiSetup, DeleteDropsHandle, UserStoreOpens
    <3>4. CASE SetupCreates(c)
      BY <1>3, <1>4, <3>4 DEF SetupCreates, CreateInitialAdminIfNone
    <3>5. CASE ApiAdminPassword(c)
      BY <1>0, <3>5 DEF ApiAdminPassword, CallsOK
    <3>6. CASE ApiAdminDelete(c)
      BY <1>0, <3>6 DEF ApiAdminDelete, CallsOK
    <3>7. CASE UsePasswordResetToken(c)
      BY <1>0, <3>7 DEF UsePasswordResetToken, CallsOK
    <3>8. CASE ApiProfile(c)
      BY <1>0, <3>8 DEF ApiProfile, CallsOK
    <3>9. CASE ProfileBackup(c)
      BY <1>0, <3>9 DEF ProfileBackup, CallsOK
    <3>10. CASE ProfileReads(c)
      BY <1>0, <1>3, <3>10 DEF ProfileReads, CallsOK
    <3>11. CASE MirrorCachedUser(c)
      BY <1>2, <1>3, <3>11 DEF MirrorCachedUser
    <3>12. CASE UserRequest(c)
      BY <1>4, <3>12 DEF UserRequest
    <3>13. CASE UserStoreLooks(c)
      BY <1>0, <1>5, <3>13 DEF UserStoreLooks, CallsOK
    <3>14. CASE UserStoreCaches(c)
      BY <1>5, <3>14 DEF UserStoreCaches
    <3> QED BY <1>6, <3>1, <3>2, <3>3, <3>4, <3>5, <3>6, <3>7, <3>8, <3>9, <3>10, <3>11, <3>12, <3>13, <3>14
  <2> QED BY <1>0, <2>1, <2>2, ThrottleStays
<1>7. ASSUME NEW c \in Calls, LoginSucceeds(c) PROVE ThrottleInv'
  <2>1. DOMAIN byEmail' = Ids /\ \A u \in Ids : byEmail'[u] = byEmail[u] \/ byEmail'[u] = Absent
    BY <1>0, <1>7 DEF LoginSucceeds
  <2>2. LetsNobody
    BY <1>0, <1>7 DEF LoginSucceeds, CallsOK
  <2> QED BY <2>1, <2>2, ThrottleStays
<1>8. ASSUME Reopens PROVE ThrottleInv'
  BY <1>8 DEF Reopens, ThrottleInv
<1>9. ASSUME CreateUser \/ ApiPasswordResetRequest \/ (\E t \in SessionIds : ApiLogout(t)) \/ Expires \/ UNCHANGED userVars
      PROVE  ThrottleInv'
  <2>1. UNCHANGED <<byEmail, call>>
    BY <1>9 DEF CreateUser, ApiPasswordResetRequest, ApiLogout, Expires, userVars, throttle
  <2> QED BY <1>0, <2>1, ThrottleStays
<1>10. ASSUME NEW c \in Calls, ApiLogin(c) PROVE ThrottleInv'
  BY <1>0, <1>10, LoginKeepsThrottle
<1>11. ASSUME NEW c \in Calls, LoginFails(c) PROVE ThrottleInv'
  BY <1>0, <1>11, FailureKeepsThrottle
<1>12. Clock => ThrottleInv'
  BY ClockKeepsThrottle
<1> QED BY <1>6, <1>7, <1>8, <1>9, <1>10, <1>11, <1>12 DEF UsersNext

\* What the records keep to bounds their windows.
LEMMA AttemptsStayBounded == ASSUME IsFiniteSet(Calls), ThrottleInv PROVE AttemptsBounded
<1>1. SUFFICES ASSUME NEW u \in Ids, byEmail[u] # Absent
               PROVE  Recent(byEmail[u].fails) <= MaxPerEmail - 1 + Cardinality(Calls)
  BY DEF AttemptsBounded, Recent
<1>2. RecordIs(byEmail[u], Tried(u)) /\ Tried(u) \subseteq Calls
  BY <1>1 DEF ThrottleInv, Tried
<1>3. Cardinality(Tried(u)) \in Nat /\ Cardinality(Calls) \in Nat
  BY <1>2, TriedFinite
<1>4. Recent(byEmail[u].fails) \in Nat
  BY <1>2, InsideIs DEF RecordIs, Aged
<1> QED BY <1>2, <1>3, <1>4, UsersAssumption DEF RecordIs

\* What accounts, sessions, links, handles and attempts keep to at all times.
THEOREM UsersAreSafe == ASSUME IsFiniteSet(Calls) PROVE UsersSpec => []UsersSafe
<1>1. UsersInit => ThrottleInv
  BY ThrottleInitially
<1>2. UsersTyped /\ ThrottleInv /\ [UsersNext]_userVars => ThrottleInv'
  BY ThrottleKept
<1>3. ThrottleInv => AttemptsBounded
  BY AttemptsStayBounded
<1>4. AccountsInv => UsersTyped
  BY DEF AccountsInv
<1>5. OneFounder /\ SessionsEnd /\ ResetOnce /\ OneHandle /\ AttemptsBounded => UsersSafe
  BY DEF UsersSafe
<1> QED BY <1>1, <1>2, <1>3, <1>4, <1>5, AccountsAlways, FounderOnly, ChangesEndSessions, LinksAreUsedOnce, HandlesAreKept,
     PTL DEF UsersSpec

-----------------------------------------------------------------------------
(* Folders, their runs and the jobs on them *)

\* The rows: no two folders share a role, and what a folder holds is of its generation.
RowShape(r) == DOMAIN r = {"there", "mode", "role", "search", "validity", "stored", "rebuild"}
RowsInv ==
    /\ DOMAIN folders = Names /\ \A n \in Names : RowShape(folders[n])
    /\ OneFolderPerRole /\ RowOfItsGeneration

\* A row that may be stored under n: its role is free, what it holds is of its generation.
RowFits(n, row) ==
    /\ RowShape(row)
    /\ row.there /\ row.role # "" => \A m \in Local \ {n} : folders[m].role # row.role
    /\ row.there /\ row.stored # 0 => row.stored = row.validity

LEMMA RowStored ==
    ASSUME RowsInv, NEW n, NEW row, folders' = [folders EXCEPT ![n] = row], n \in Names => RowFits(n, row)
    PROVE  RowsInv'
<1>1. DOMAIN folders' = Names /\ \A m \in Names : folders'[m] = IF m = n THEN row ELSE folders[m]
  BY DEF RowsInv
<1>2. \A m \in Local' : m \in Names /\ (m # n => m \in Local) /\ (m = n => row.there)
  BY <1>1 DEF Local
<1>3. OneFolderPerRole'
  <2>1. SUFFICES ASSUME NEW m \in Local', NEW k \in Local', folders'[m].role = folders'[k].role, folders'[m].role # ""
                 PROVE  m = k
    BY DEF OneFolderPerRole
  <2>2. CASE m = n
    BY <1>1, <1>2, <2>1, <2>2 DEF RowFits
  <2>3. CASE k = n
    BY <1>1, <1>2, <2>1, <2>3 DEF RowFits
  <2>4. CASE m # n /\ k # n
    BY <1>1, <1>2, <2>1, <2>4 DEF RowsInv, OneFolderPerRole
  <2> QED BY <2>2, <2>3, <2>4
<1>4. RowOfItsGeneration'
  BY <1>1, <1>2 DEF RowsInv, RowOfItsGeneration, RowFits
<1>5. \A m \in Names : RowShape(folders'[m])
  BY <1>1 DEF RowsInv, RowFits
<1> QED BY <1>1, <1>3, <1>4, <1>5 DEF RowsInv

\* A row whose mode, flags or rebuild change, or whose messages go.
LEMMA SameRole ==
    ASSUME RowsInv, NEW n \in Names, NEW row, RowShape(row), row.there = folders[n].there, row.role = folders[n].role,
           row.stored \in {0, row.validity} \/ (row.stored = folders[n].stored /\ row.validity = folders[n].validity)
    PROVE  RowFits(n, row)
<1>1. row.there => n \in Local
  BY DEF Local
<1>2. row.there /\ row.role # "" => \A m \in Local \ {n} : folders[m].role # row.role
  BY <1>1 DEF RowsInv, OneFolderPerRole
<1>3. row.there /\ row.stored # 0 => row.stored = row.validity
  BY <1>1 DEF RowsInv, RowOfItsGeneration
<1> QED BY <1>2, <1>3 DEF RowFits

LEMMA GetOrCreateFits == ASSUME RowsInv, NEW n \in Names, NEW special PROVE RowFits(n, GetOrCreate(n, special))
<1> DEFINE role == IF special # "" THEN special ELSE NamedRole[n]
<1> DEFINE taken == \E m \in Local \ {n} : role # "" /\ folders[m].role = role
<1> DEFINE fresh == [NoRow EXCEPT !.there = TRUE, !.search = TRUE, !.role = IF taken THEN "" ELSE role,
                                  !.mode = IF n = InboxName THEN "auto" ELSE "manual"]
<1> DEFINE row == IF folders[n].there THEN folders[n] ELSE fresh
<1> DEFINE new == IF row.role = "" /\ ~taken THEN [row EXCEPT !.role = role] ELSE row
<1>1. GetOrCreate(n, special) = new
  BY DEF GetOrCreate
<1>2. RowShape(fresh) /\ fresh.there /\ fresh.stored = 0 /\ fresh.role = IF taken THEN "" ELSE role
  BY DEF NoRow, RowShape
<1>3. RowShape(folders[n])
  BY DEF RowsInv
<1> HIDE DEF fresh, taken, role
<1>4. RowFits(n, row)
  <2>1. CASE folders[n].there
    BY <2>1, <1>3, SameRole
  <2>2. CASE ~folders[n].there
    BY <2>2, <1>2 DEF RowFits, taken
  <2> QED BY <2>1, <2>2
<1>5. CASE row.role = "" /\ ~taken
  <2> HIDE DEF row
  <2>1. RowShape([row EXCEPT !.role = role]) /\ [row EXCEPT !.role = role].role = role
        /\ [row EXCEPT !.role = role].stored = row.stored /\ [row EXCEPT !.role = role].validity = row.validity
        /\ [row EXCEPT !.role = role].there = row.there
    BY <1>4 DEF RowFits, RowShape
  <2>2. role # "" => \A m \in Local \ {n} : folders[m].role # role
    BY <1>5 DEF taken
  <2>3. new = [row EXCEPT !.role = role]
    BY <1>5
  <2> QED BY <1>1, <1>4, <2>1, <2>2, <2>3 DEF RowFits
<1>6. CASE ~(row.role = "" /\ ~taken)
  BY <1>1, <1>4, <1>6
<1> QED BY <1>5, <1>6

LEMMA RowsInitially == FoldersInit => RowsInv
<1> SUFFICES ASSUME FoldersInit PROVE RowsInv
  OBVIOUS
<1>1. DOMAIN folders = Names /\ \A n \in Names : folders[n] = NoRow
  BY DEF FoldersInit
<1>2. ~NoRow.there /\ RowShape(NoRow)
  BY DEF NoRow, RowShape
<1>3. Local = {}
  BY <1>1, <1>2 DEF Local
<1> QED BY <1>1, <1>2, <1>3 DEF RowsInv, OneFolderPerRole, RowOfItsGeneration

LEMMA RowsSame == ASSUME RowsInv, DOMAIN folders' = Names, \A n \in Names : folders'[n] = folders[n] PROVE RowsInv'
BY DEF RowsInv, OneFolderPerRole, RowOfItsGeneration, Local

LEMMA RowsStay == ASSUME RowsInv, UNCHANGED folders PROVE RowsInv'
BY RowsSame DEF RowsInv

\* UpdateMailboxSettings and UpdateMailboxSyncMode.
LEMMA SettingsFit ==
    ASSUME RowsInv, NEW n, NEW want, SettingsAccepted(n, want), UpdateSettings(n, want) PROVE RowsInv'
<1> DEFINE row == [folders[n] EXCEPT !.mode = want.mode, !.role = want.role, !.search = want.search]
<1>1. n \in Names /\ folders[n].there
  BY DEF SettingsAccepted, Local
<1>2. RowShape(folders[n])
  BY <1>1 DEF RowsInv
<1>3. folders' = [folders EXCEPT ![n] = row]
  BY <1>1, <1>2 DEF UpdateSettings, RowsInv, RowShape
<1>4. /\ RowShape(row) /\ row.there = folders[n].there /\ row.role = want.role
      /\ row.stored = folders[n].stored /\ row.validity = folders[n].validity
  BY <1>2 DEF RowShape
<1>5. row.stored # 0 => row.stored = row.validity
  BY <1>1, <1>4 DEF RowsInv, RowOfItsGeneration, Local
<1>6. RowFits(n, row)
  BY <1>4, <1>5 DEF RowFits, SettingsAccepted
<1> HIDE DEF row
<1> QED BY <1>3, <1>6, RowStored

LEMMA RowsKept == RowsInv /\ [FoldersNext]_folderVars => RowsInv'
<1> SUFFICES ASSUME RowsInv, [FoldersNext]_folderVars PROVE RowsInv'
  OBVIOUS
<1>0. DOMAIN folders = Names /\ \A n \in Names : RowShape(folders[n])
  BY DEF RowsInv
<1>1. ASSUME NEW j \in Slots, RowStep(j) PROVE RowsInv'
  <2> DEFINE n == Head(slots[j].todo)
  <2> DEFINE special == IF slots[j].kind = "create" THEN "" ELSE SpecialUse[n]
  <2>1. folders' = [folders EXCEPT ![n] = GetOrCreate(n, special)]
    BY <1>1 DEF RowStep
  <2> HIDE DEF n, special
  <2>2. n \in Names => RowFits(n, GetOrCreate(n, special))
    BY GetOrCreateFits
  <2> QED BY <2>1, <2>2, RowStored
<1>2. ASSUME NEW j \in Slots, Record(j) PROVE RowsInv'
  <2> DEFINE n == slots[j].name
  <2> DEFINE seen == slots[j].seen
  <2>1. folders' = [folders EXCEPT ![n] = RecordStatus(n, slots[j].known, seen)]
    BY <1>2 DEF Record
  <2> HIDE DEF n
  <2>2. ASSUME n \in Names PROVE RowFits(n, RecordStatus(n, slots[j].known, seen))
    <3>1. RowFits(n, folders[n])
      BY <1>0, <2>2, SameRole
    <3>2. RecordStatus(n, slots[j].known, seen) = folders[n]
          \/ (RecordStatus(n, slots[j].known, seen) = [folders[n] EXCEPT !.validity = seen] /\ folders[n].validity = 0 /\ n \in Local)
      BY DEF RecordStatus, InitializeStatus
    <3>3. ASSUME folders[n].validity = 0, n \in Local PROVE RowFits(n, [folders[n] EXCEPT !.validity = seen])
      <4>1. folders[n].stored = 0
        BY <3>3 DEF RowsInv, RowOfItsGeneration
      <4>2. /\ RowShape([folders[n] EXCEPT !.validity = seen]) /\ [folders[n] EXCEPT !.validity = seen].stored = folders[n].stored
            /\ [folders[n] EXCEPT !.validity = seen].there = folders[n].there
            /\ [folders[n] EXCEPT !.validity = seen].role = folders[n].role
        BY <1>0, <2>2 DEF RowShape
      <4> QED BY <2>2, <4>1, <4>2, SameRole
    <3> QED BY <3>1, <3>2, <3>3
  <2> QED BY <2>1, <2>2, RowStored
<1>3. ASSUME NEW j \in Slots, SelectFolder(j) PROVE RowsInv'
  <2> DEFINE n == slots[j].name
  <2>1. folders' = [folders EXCEPT ![n] = GetOrCreate(n, "")]
    BY <1>3 DEF SelectFolder, Moves
  <2> HIDE DEF n
  <2> QED BY <2>1, GetOrCreateFits, RowStored
<1>4. ASSUME NEW j \in Slots, ResetStep(j) PROVE RowsInv'
  <2> DEFINE n == slots[j].name
  <2> DEFINE seen == slots[j].seen
  <2>1. folders' = [folders EXCEPT ![n] = ResetGenerationRow(n, seen)]
    BY <1>4 DEF ResetStep, Moves
  <2> HIDE DEF n, seen
  <2>2. ASSUME n \in Names PROVE RowFits(n, ResetGenerationRow(n, seen))
    <3>1. CASE MustReset(n, seen)
      <4> DEFINE row == [folders[n] EXCEPT !.validity = seen, !.stored = 0, !.rebuild = TRUE]
      <4>1. RowShape(row) /\ row.stored = 0 /\ row.there = folders[n].there /\ row.role = folders[n].role
        BY <1>0, <2>2 DEF RowShape
      <4>2. ResetGenerationRow(n, seen) = row
        BY <3>1 DEF ResetGenerationRow
      <4> HIDE DEF row
      <4> QED BY <2>2, <4>1, <4>2, SameRole
    <3>2. CASE ~MustReset(n, seen)
      <4> DEFINE row == [folders[n] EXCEPT !.validity = seen]
      <4>1. RowShape(row) /\ row.stored = folders[n].stored /\ row.there = folders[n].there /\ row.role = folders[n].role
            /\ row.validity = seen
        BY <1>0, <2>2 DEF RowShape
      <4>2. ResetGenerationRow(n, seen) = row
        BY <3>2 DEF ResetGenerationRow
      <4>3. folders[n].stored \in {0, seen}
        BY <3>2 DEF MustReset
      <4> HIDE DEF row
      <4> QED BY <2>2, <4>1, <4>2, <4>3, SameRole
    <3> QED BY <3>1, <3>2
  <2> QED BY <2>1, <2>2, RowStored
<1>5. ASSUME NEW j \in Slots, FetchStep(j) PROVE RowsInv'
  <2> DEFINE n == slots[j].name
  <2> DEFINE row == [folders[n] EXCEPT !.stored = slots[j].seen, !.rebuild = FALSE]
  <2>1. n \in Names => folders' = [folders EXCEPT ![n] = row]
    BY <1>0, <1>5 DEF FetchStep, Moves, RowShape
  <2>2. n \in Names => RowShape(row) /\ row.stored = row.validity /\ row.there = folders[n].there /\ row.role = folders[n].role
    BY <1>0, <1>5 DEF FetchStep, RowShape
  <2>3. n \notin Names => DOMAIN folders' = Names /\ \A m \in Names : folders'[m] = folders[m]
    BY <1>0, <1>5 DEF FetchStep, Moves
  <2> HIDE DEF n, row
  <2> QED BY <2>1, <2>2, <2>3, SameRole, RowStored, RowsSame
<1>6. ASSUME NEW j \in Slots, UpdateStep(j) \/ SetupStep(j) PROVE RowsInv'
  BY <1>6, SettingsFit, RowsStay DEF UpdateStep, SetupStep
<1>7. ASSUME NEW j \in Slots, BodyStep(j) PROVE RowsInv'
  <2>1. DOMAIN folders' = Names /\ \A n \in Names : folders'[n] = folders[n] \/ folders'[n] = [folders[n] EXCEPT !.stored = 0]
    BY <1>7 DEF BodyStep
  <2>2. \A n \in Names : /\ RowShape(folders'[n]) /\ folders'[n].there = folders[n].there /\ folders'[n].role = folders[n].role
                         /\ folders'[n].validity = folders[n].validity /\ folders'[n].stored \in {0, folders[n].stored}
    BY <1>0, <2>1 DEF RowShape
  <2> QED BY <2>1, <2>2 DEF RowsInv, OneFolderPerRole, RowOfItsGeneration, Local
<1>8. ASSUME NEW j \in Slots, DropAccount(j) PROVE RowsInv'
  <2>1. folders' = [n \in Names |-> NoRow]
    BY <1>8 DEF DropAccount
  <2> QED BY <2>1 DEF RowsInv, RowShape, NoRow, OneFolderPerRole, RowOfItsGeneration, Local
<1>9. ASSUME NEW n \in Names, NEW mode, SetMode(n, mode) PROVE RowsInv'
  <2> DEFINE row == [folders[n] EXCEPT !.mode = mode]
  <2>1. folders' = [folders EXCEPT ![n] = row]
    BY <1>9 DEF SetMode
  <2>2. /\ RowShape(row) /\ row.stored = folders[n].stored /\ row.validity = folders[n].validity
        /\ row.there = folders[n].there /\ row.role = folders[n].role
    BY <1>0 DEF RowShape
  <2> HIDE DEF row
  <2> QED BY <2>1, <2>2, SameRole, RowStored
<1>10. ASSUME NEW j \in Slots,
              \/ MakeFolder(j) \/ ListRemote(j) \/ RowsDone(j) \/ Probe(j) \/ NextFolder(j) \/ OpenRun(j) \/ PlanStatus(j)
              \/ CountStep(j) \/ MarkDeleting(j) \/ Reserve(j) \/ ProgressFails(j) \/ StepFails(j) \/ FinishRun(j)
              \/ Release(j) \/ CancelMarks(j)
       PROVE  UNCHANGED folders
  BY <1>10 DEF MakeFolder, ListRemote, RowsDone, Probe, NextFolder, OpenRun, PlanStatus, CountStep, MarkDeleting, Reserve,
       ProgressFails, StepFails, FinishRun, Release, CancelMarks, Moves
<1>11. ASSUME NEW j \in Slots, FolderStep(j) PROVE RowsInv'
  BY <1>1, <1>2, <1>3, <1>4, <1>5, <1>6, <1>7, <1>8, <1>10, <1>11, RowsStay DEF FolderStep
<1>12. ASSUME FolderRequest PROVE RowsInv'
  <2>1. (\E n \in Names, mode \in {"auto", "never"} : SetMode(n, mode)) \/ UNCHANGED folders
    BY <1>12 DEF FolderRequest, RefreshStarts, AutoSyncStarts, AsksDeletion, CreateFolder, SyncStarts, RecoveryStarts,
         MaintenanceStarts, AsksSettings, AsksCancel
  <2> QED BY <1>9, <2>1, RowsStay
<1>13. ASSUME BackoffEnds \/ Reap \/ ShutsDown \/ Restarts \/ (\E r \in RunIds : RunAges(r)) \/ (\E n \in Names : Renumber(n))
              \/ UNCHANGED folderVars
       PROVE  RowsInv'
  <2>1. UNCHANGED folders
    BY <1>13 DEF BackoffEnds, Reap, ShutsDown, Restarts, RunAges, Renumber, folderVars
  <2> QED BY <2>1, RowsStay
<1> QED BY <1>11, <1>12, <1>13 DEF FoldersNext

-----------------------------------------------------------------------------
\* The jobs: which places reserve nothing, and where a deletion can be.
JobShape(s) == DOMAIN s = {"kind", "at", "todo", "plan", "name", "known", "seen", "run", "holds", "out", "stop", "want"}
Unheld == {"none", "list", "make", "row", "probe", "record", "next", "update", "mark", "reserve", "interrupt"}
JobOK(s) ==
    /\ JobShape(s)
    /\ s.kind = "none" => s.at = "none"
    /\ s.at \in Unheld => s.holds = {}
    /\ s.at = "mark" => s.kind = "delete"
    /\ s.kind = "delete" => s.at \in {"mark", "reserve", "open", "body", "drop", "finish", "release"}
Owner(s) == s.kind = "delete" /\ s.at \notin {"mark", "finish", "release"}
JobsInv ==
    /\ DOMAIN slots = Slots /\ \A j \in Slots : JobOK(slots[j])
    /\ deleting \in BOOLEAN
    /\ HeldHasOwner /\ MarkHasOwner

\* One job moves: what it releases it held, what it reserves it holds, and it clears the
\* mark of a deletion that it ends.
LEMMA JobMoves ==
    ASSUME JobsInv, NEW j \in Slots, NEW next, Becoming(j, next), JobOK(next), deleting' \in BOOLEAN,
           held' \subseteq (held \ slots[j].holds) \cup next.holds,
           deleting' => Owner(next) \/ (deleting /\ ~Owner(slots[j]))
    PROVE  JobsInv'
<1>1. DOMAIN slots' = Slots /\ slots'[j] = next /\ \A k \in Slots : k # j => slots'[k] = slots[k]
  BY DEF JobsInv, Becoming
<1>2. HeldHasOwner'
  <2>1. SUFFICES ASSUME NEW n \in held' PROVE \E k \in Slots : n \in slots'[k].holds
    BY DEF HeldHasOwner
  <2>2. CASE n \in next.holds
    BY <1>1, <2>2
  <2>3. CASE n \in held \ slots[j].holds
    <3>1. PICK k \in Slots : n \in slots[k].holds
      BY <2>3 DEF JobsInv, HeldHasOwner
    <3> QED BY <1>1, <2>3, <3>1
  <2> QED BY <2>1, <2>2, <2>3
<1>3. MarkHasOwner'
  <2>1. SUFFICES ASSUME deleting' PROVE \E k \in Slots : Owner(slots'[k])
    BY DEF MarkHasOwner, Owner
  <2>2. CASE Owner(next)
    BY <1>1, <2>2
  <2>3. CASE deleting /\ ~Owner(slots[j])
    <3>1. PICK k \in Slots : Owner(slots[k])
      BY <2>3 DEF JobsInv, MarkHasOwner, Owner
    <3> QED BY <1>1, <2>3, <3>1
  <2> QED BY <2>1, <2>2, <2>3
<1>4. \A k \in Slots : JobOK(slots'[k])
  BY <1>1 DEF JobsInv
<1> QED BY <1>1, <1>2, <1>3, <1>4 DEF JobsInv

LEMMA FreeIsOK == JobOK(Free) /\ Free.kind = "none" /\ Free.at = "none" /\ Free.holds = {} /\ JobShape(Free)
BY DEF JobOK, JobShape, Free, Unheld

LEMMA JobsInitially == FoldersInit => JobsInv
<1> SUFFICES ASSUME FoldersInit PROVE JobsInv
  OBVIOUS
<1>1. DOMAIN slots = Slots /\ (\A j \in Slots : slots[j] = Free) /\ held = {} /\ deleting = FALSE
  BY DEF FoldersInit
<1> QED BY <1>1, FreeIsOK DEF JobsInv, HeldHasOwner, MarkHasOwner

\* A job goes on with what it holds, takes a free slot, or ends and held nothing.
LEMMA JobGoes ==
    ASSUME JobsInv, NEW j \in Slots, NEW next, Becoming(j, next), JobShape(next), next.kind = slots[j].kind,
           next.holds = slots[j].holds, slots[j].at # "none", UNCHANGED <<held, deleting>>,
           slots[j].at \in Unheld \/ next.at \notin Unheld, next.at # "mark",
           slots[j].kind = "delete" => next.at \in {"body", "drop"} \/ (slots[j].at = "finish" /\ next.at = "release")
    PROVE  JobsInv'
<1>1. JobOK(slots[j]) /\ deleting \in BOOLEAN
  BY DEF JobsInv
<1>2. JobOK(next)
  BY <1>1 DEF JobOK
<1>3. deleting' => Owner(next) \/ (deleting /\ ~Owner(slots[j]))
  BY DEF Owner
<1> QED BY <1>1, <1>2, <1>3, JobMoves

LEMMA JobStarts ==
    ASSUME JobsInv, NEW j \in Slots, NEW task, Takes(j, task), JobShape(task), task.kind # "none", task.holds = {},
           task.at = "mark" <=> task.kind = "delete", task.at \in Unheld, UNCHANGED <<held, deleting>>
    PROVE  JobsInv'
<1>1. JobOK(slots[j]) /\ deleting \in BOOLEAN /\ slots[j].kind = "none" /\ Becoming(j, task)
  BY DEF JobsInv, Takes
<1>2. JobOK(task)
  BY DEF JobOK
<1>3. slots[j].holds = {} /\ ~Owner(slots[j])
  BY <1>1 DEF JobOK, Unheld, Owner
<1> QED BY <1>1, <1>2, <1>3, JobMoves

LEMMA JobEnds ==
    ASSUME JobsInv, NEW j \in Slots, Becoming(j, Free), slots[j].at \in Unheld, slots[j].kind # "delete",
           UNCHANGED <<held, deleting>>
    PROVE  JobsInv'
<1>1. JobOK(slots[j]) /\ deleting \in BOOLEAN
  BY DEF JobsInv
<1>2. slots[j].holds = {} /\ ~Owner(slots[j])
  BY <1>1 DEF JobOK, Owner
<1> QED BY <1>1, <1>2, FreeIsOK, JobMoves

\* Flags of jobs change.
LEMMA JobsAlike ==
    ASSUME JobsInv, DOMAIN slots' = Slots, UNCHANGED <<held, deleting>>,
           \A j \in Slots : /\ JobShape(slots'[j]) /\ slots'[j].kind = slots[j].kind /\ slots'[j].at = slots[j].at
                            /\ slots'[j].holds = slots[j].holds
    PROVE  JobsInv'
<1>1. \A j \in Slots : JobOK(slots'[j])
  BY DEF JobsInv, JobOK
<1>2. HeldHasOwner'
  BY DEF JobsInv, HeldHasOwner
<1>3. MarkHasOwner'
  BY DEF JobsInv, MarkHasOwner
<1> QED BY <1>1, <1>2, <1>3 DEF JobsInv

LEMMA JobsKept == JobsInv /\ [FoldersNext]_folderVars => JobsInv'
<1> SUFFICES ASSUME JobsInv, [FoldersNext]_folderVars PROVE JobsInv'
  OBVIOUS
<1>0. DOMAIN slots = Slots /\ deleting \in BOOLEAN /\ \A j \in Slots : JobOK(slots[j])
  BY DEF JobsInv
<1>1. ASSUME NEW j \in Slots, NEW at, slots[j].at \in Unheld \ {"none", "mark", "reserve"}, at \in Unheld, at # "mark",
             UNCHANGED <<held, deleting>>,
             NEW next, Becoming(j, next), JobShape(next), next.kind = slots[j].kind, next.holds = slots[j].holds, next.at = at
      PROVE  JobsInv'
  <2>1. slots[j].kind # "delete"
    BY <1>0, <1>1 DEF JobOK, Unheld
  <2> QED BY <1>1, <2>1, JobGoes
<1>2. ASSUME NEW j \in Slots, MakeFolder(j) PROVE JobsInv'
  <2>1. slots[j].at = "make" /\ UNCHANGED <<held, deleting>> /\ JobOK(slots[j])
    BY <1>0, <1>2 DEF MakeFolder
  <2>2. CASE Becoming(j, [slots[j] EXCEPT !.at = "row"])
    <3> DEFINE next == [slots[j] EXCEPT !.at = "row"]
    <3>1. JobShape(next) /\ next.kind = slots[j].kind /\ next.holds = slots[j].holds /\ next.at = "row"
      BY <2>1 DEF JobOK, JobShape
    <3> HIDE DEF next
    <3> QED BY <1>1, <2>1, <2>2, <3>1 DEF Unheld, next
  <2>3. CASE Becoming(j, Free)
    BY <2>1, <2>3, JobEnds DEF JobOK, Unheld
  <2> QED BY <1>2, <2>2, <2>3 DEF MakeFolder, EndsJob
<1>3. ASSUME NEW j \in Slots, ListRemote(j) PROVE JobsInv'
  <2>1. slots[j].at = "list" /\ UNCHANGED <<held, deleting>> /\ JobOK(slots[j])
    BY <1>0, <1>3 DEF ListRemote
  <2> DEFINE next == [slots[j] EXCEPT !.at = "row", !.todo = IF OnServer = {} THEN <<InboxName>> ELSE Sorted(OnServer)]
  <2>2. JobShape(next) /\ next.kind = slots[j].kind /\ next.holds = slots[j].holds /\ next.at = "row"
    BY <2>1 DEF JobOK, JobShape
  <2>3. Becoming(j, next)
    BY <1>3 DEF ListRemote
  <2> HIDE DEF next
  <2> QED BY <1>1, <2>1, <2>2, <2>3 DEF Unheld
<1>4. ASSUME NEW j \in Slots, RowStep(j) PROVE JobsInv'
  <2> DEFINE n == Head(slots[j].todo)
  <2> DEFINE row == GetOrCreate(n, IF slots[j].kind = "create" THEN "" ELSE SpecialUse[n])
  <2> DEFINE listed == [slots[j] EXCEPT !.todo = Tail(@), !.plan = IF EffectiveMode(n, row) = "auto" THEN Append(@, n) ELSE @]
  <2> DEFINE met == [slots[j] EXCEPT !.at = "probe", !.todo = Tail(@), !.name = n, !.known = row.validity]
  <2>1. slots[j].at = "row" /\ UNCHANGED <<held, deleting>> /\ JobOK(slots[j])
    BY <1>0, <1>4 DEF RowStep
  <2>2. Becoming(j, listed) \/ Becoming(j, met)
    BY <1>4 DEF RowStep
  <2> HIDE DEF n, row
  <2>3. JobShape(listed) /\ listed.kind = slots[j].kind /\ listed.holds = slots[j].holds /\ listed.at = "row"
    BY <2>1 DEF JobOK, JobShape
  <2>4. JobShape(met) /\ met.kind = slots[j].kind /\ met.holds = slots[j].holds /\ met.at = "probe"
    BY <2>1 DEF JobOK, JobShape
  <2> HIDE DEF listed, met
  <2> QED BY <1>1, <2>1, <2>2, <2>3, <2>4 DEF Unheld
<1>5. ASSUME NEW j \in Slots, RowsDone(j) PROVE JobsInv'
  <2>1. slots[j].at = "row" /\ UNCHANGED <<held, deleting>> /\ JobOK(slots[j])
    BY <1>0, <1>5 DEF RowsDone
  <2> DEFINE next == [slots[j] EXCEPT !.at = "next"]
  <2>2. Becoming(j, next) \/ Becoming(j, Free)
    BY <1>5 DEF RowsDone, EndsJob
  <2>3. JobShape(next) /\ next.kind = slots[j].kind /\ next.holds = slots[j].holds /\ next.at = "next"
    BY <2>1 DEF JobOK, JobShape
  <2> HIDE DEF next
  <2>4. CASE Becoming(j, next)
    BY <1>1, <2>1, <2>3, <2>4 DEF Unheld
  <2>5. CASE Becoming(j, Free)
    BY <2>1, <2>5, JobEnds DEF JobOK, Unheld
  <2> QED BY <2>2, <2>4, <2>5
<1>6. ASSUME NEW j \in Slots, Probe(j) PROVE JobsInv'
  <2>1. slots[j].at = "probe" /\ UNCHANGED <<held, deleting>> /\ JobOK(slots[j])
    BY <1>0, <1>6 DEF Probe
  <2> DEFINE found == [slots[j] EXCEPT !.at = "record", !.seen = remote[slots[j].name]]
  <2> DEFINE not == [slots[j] EXCEPT !.at = "row"]
  <2>2. Becoming(j, found) \/ Becoming(j, not)
    BY <1>6 DEF Probe
  <2>3. JobShape(found) /\ found.kind = slots[j].kind /\ found.holds = slots[j].holds /\ found.at = "record"
    BY <2>1 DEF JobOK, JobShape
  <2>4. JobShape(not) /\ not.kind = slots[j].kind /\ not.holds = slots[j].holds /\ not.at = "row"
    BY <2>1 DEF JobOK, JobShape
  <2> HIDE DEF found, not
  <2> QED BY <1>1, <2>1, <2>2, <2>3, <2>4 DEF Unheld
<1>7. ASSUME NEW j \in Slots, Record(j) PROVE JobsInv'
  <2>1. slots[j].at = "record" /\ UNCHANGED <<held, deleting>> /\ JobOK(slots[j])
    BY <1>0, <1>7 DEF Record
  <2> DEFINE next == [slots[j] EXCEPT !.at = "row"]
  <2>2. Becoming(j, next)
    BY <1>7 DEF Record
  <2>3. JobShape(next) /\ next.kind = slots[j].kind /\ next.holds = slots[j].holds /\ next.at = "row"
    BY <2>1 DEF JobOK, JobShape
  <2> HIDE DEF next
  <2> QED BY <1>1, <2>1, <2>2, <2>3 DEF Unheld
<1>8. ASSUME NEW j \in Slots, NextFolder(j) PROVE JobsInv'
  <2> DEFINE n == Head(slots[j].plan)
  <2> DEFINE passed == [slots[j] EXCEPT !.plan = Tail(@)]
  <2> DEFINE taken == [slots[j] EXCEPT !.at = "open", !.plan = Tail(@), !.name = n, !.holds = {n}, !.out = "ok"]
  <2>1. slots[j].at = "next" /\ UNCHANGED deleting /\ JobOK(slots[j]) /\ slots[j].holds = {} /\ slots[j].kind \notin {"none", "delete"}
    BY <1>0, <1>8 DEF NextFolder, JobOK, Unheld
  <2>2. \/ Becoming(j, Free) /\ UNCHANGED held
        \/ Becoming(j, passed) /\ UNCHANGED held
        \/ Becoming(j, taken) /\ held' = held \cup {n}
    BY <1>8 DEF NextFolder, EndsJob
  <2> HIDE DEF n
  <2>3. JobShape(passed) /\ passed.kind = slots[j].kind /\ passed.holds = slots[j].holds /\ passed.at = "next"
    BY <2>1 DEF JobOK, JobShape
  <2>4. JobShape(taken) /\ taken.kind = slots[j].kind /\ taken.holds = {n} /\ taken.at = "open"
    BY <2>1 DEF JobOK, JobShape
  <2> HIDE DEF passed, taken
  <2>5. CASE Becoming(j, Free) /\ UNCHANGED held
    BY <2>1, <2>5, JobEnds DEF Unheld
  <2>6. CASE Becoming(j, passed) /\ UNCHANGED held
    BY <1>1, <2>1, <2>3, <2>6 DEF Unheld
  <2>7. CASE Becoming(j, taken) /\ held' = held \cup {n}
    <3>1. JobOK(taken) /\ ~Owner(slots[j])
      BY <2>1, <2>4 DEF JobOK, Unheld, Owner
    <3> QED BY <1>0, <2>1, <2>4, <2>7, <3>1, JobMoves
  <2> QED BY <2>2, <2>5, <2>6, <2>7
<1>9. ASSUME NEW j \in Slots, OpenRun(j) PROVE JobsInv'
  <2> DEFINE at == IF slots[j].kind \in SyncKinds THEN "select" ELSE IF slots[j].kind = "toggle" THEN "setup" ELSE "body"
  <2> DEFINE next == [slots[j] EXCEPT !.run = NextRun, !.at = at]
  <2>1. slots[j].at = "open" /\ UNCHANGED <<held, deleting>> /\ JobOK(slots[j]) /\ Becoming(j, next)
    BY <1>0, <1>9 DEF OpenRun
  <2>2. at \in {"select", "setup", "body"} /\ (slots[j].kind = "delete" => at = "body")
    BY DEF SyncKinds
  <2> HIDE DEF at
  <2>3. JobShape(next) /\ next.kind = slots[j].kind /\ next.holds = slots[j].holds /\ next.at = at
    BY <2>1 DEF JobOK, JobShape
  <2> HIDE DEF next
  <2> QED BY <2>1, <2>2, <2>3, JobGoes DEF Unheld
<1>10. ASSUME NEW j \in Slots, NEW step, NEW table, Moves(j, step, table), slots[j].at \in {"select", "reset", "count", "fetch"},
              step \in {"finish", "status", "count", "fetch"}
       PROVE  JobsInv'
  <2> DEFINE next == [slots[j] EXCEPT !.at = step]
  <2>1. UNCHANGED <<held, deleting>> /\ JobOK(slots[j]) /\ Becoming(j, next)
    BY <1>0, <1>10 DEF Moves
  <2>2. JobShape(next) /\ next.kind = slots[j].kind /\ next.holds = slots[j].holds /\ next.at = step
    BY <2>1 DEF JobOK, JobShape
  <2>3. slots[j].kind # "delete"
    BY <1>10, <2>1 DEF JobOK
  <2> HIDE DEF next
  <2> QED BY <1>10, <2>1, <2>2, <2>3, JobGoes DEF Unheld
<1>11. ASSUME NEW j \in Slots, SelectFolder(j) \/ ResetStep(j) \/ CountStep(j) \/ FetchStep(j) PROVE JobsInv'
  BY <1>10, <1>11 DEF SelectFolder, ResetStep, CountStep, FetchStep
<1>12. ASSUME NEW j \in Slots, PlanStatus(j) PROVE JobsInv'
  <2> DEFINE next == [slots[j] EXCEPT !.at = "reset", !.seen = remote[slots[j].name]]
  <2>1. slots[j].at = "status" /\ UNCHANGED <<held, deleting>> /\ JobOK(slots[j]) /\ Becoming(j, next)
    BY <1>0, <1>12 DEF PlanStatus
  <2>2. JobShape(next) /\ next.kind = slots[j].kind /\ next.holds = slots[j].holds /\ next.at = "reset"
    BY <2>1 DEF JobOK, JobShape
  <2>3. slots[j].kind # "delete"
    BY <2>1 DEF JobOK
  <2> HIDE DEF next
  <2> QED BY <2>1, <2>2, <2>3, JobGoes DEF Unheld
<1>13. ASSUME NEW j \in Slots, UpdateStep(j) \/ CancelMarks(j) PROVE JobsInv'
  <2>1. slots[j].at \in {"update", "interrupt"} /\ UNCHANGED <<held, deleting>> /\ Becoming(j, Free) /\ JobOK(slots[j])
    BY <1>0, <1>13 DEF UpdateStep, CancelMarks
  <2>2. slots[j].kind # "delete"
    BY <2>1 DEF JobOK
  <2> QED BY <2>1, <2>2, JobEnds DEF Unheld
<1>14. ASSUME NEW j \in Slots, MarkDeleting(j) PROVE JobsInv'
  <2> DEFINE next == [slots[j] EXCEPT !.at = "reserve"]
  <2>1. slots[j].at = "mark" /\ deleting' = TRUE /\ UNCHANGED held /\ JobOK(slots[j]) /\ Becoming(j, next)
    BY <1>0, <1>14 DEF MarkDeleting
  <2>2. JobShape(next) /\ next.kind = slots[j].kind /\ next.holds = slots[j].holds /\ next.at = "reserve"
    BY <2>1 DEF JobOK, JobShape
  <2>3. next.kind = "delete" /\ slots[j].holds = {}
    BY <2>1, <2>2 DEF JobOK, Unheld
  <2> HIDE DEF next
  <2>4. JobOK(next) /\ Owner(next)
    BY <2>1, <2>2, <2>3 DEF JobOK, Unheld, Owner
  <2> QED BY <2>1, <2>2, <2>3, <2>4, JobMoves
<1>15. ASSUME NEW j \in Slots, Reserve(j) PROVE JobsInv'
  <2> DEFINE keys == IF slots[j].kind # "delete" THEN {slots[j].name}
                     ELSE IF slots[j].todo = <<>> THEN {WholeAccount} ELSE ToSet(slots[j].todo)
  <2> DEFINE next == [slots[j] EXCEPT !.at = "open", !.holds = keys]
  <2>1. slots[j].at = "reserve" /\ JobOK(slots[j]) /\ slots[j].holds = {}
    BY <1>0, <1>15 DEF Reserve, JobOK, Unheld
  <2>2. \/ held' = held \cup keys /\ UNCHANGED deleting /\ Becoming(j, next)
        \/ deleting' = ClearsMark(j) /\ Becoming(j, Free) /\ UNCHANGED held
    BY <1>15 DEF Reserve
  <2> HIDE DEF keys
  <2>3. JobShape(next) /\ next.kind = slots[j].kind /\ next.holds = keys /\ next.at = "open"
    BY <2>1 DEF JobOK, JobShape
  <2> HIDE DEF next
  <2>4. CASE held' = held \cup keys /\ UNCHANGED deleting /\ Becoming(j, next)
    <3>1. JobOK(next) /\ (Owner(slots[j]) => Owner(next))
      BY <2>1, <2>3 DEF JobOK, Unheld, Owner
    <3> QED BY <1>0, <2>1, <2>3, <2>4, <3>1, JobMoves
  <2>5. CASE deleting' = ClearsMark(j) /\ Becoming(j, Free) /\ UNCHANGED held
    <3>1. deleting' \in BOOLEAN /\ (deleting' => deleting /\ ~Owner(slots[j]))
      BY <1>0, <2>5 DEF ClearsMark, Owner
    <3> QED BY <2>1, <2>5, <3>1, FreeIsOK, JobMoves
  <2> QED BY <2>2, <2>4, <2>5
<1>16. ASSUME NEW j \in Slots, ProgressFails(j) PROVE JobsInv'
  <2>1. held' = held \ slots[j].holds /\ deleting' = ClearsMark(j) /\ Becoming(j, Free)
    BY <1>16 DEF ProgressFails
  <2>2. deleting' \in BOOLEAN /\ (deleting' => deleting /\ ~Owner(slots[j]))
    BY <1>0, <2>1 DEF ClearsMark, Owner
  <2> QED BY <2>1, <2>2, FreeIsOK, JobMoves
<1>17. ASSUME NEW j \in Slots, SetupStep(j) PROVE JobsInv'
  <2> DEFINE done == [slots[j] EXCEPT !.at = "body"]
  <2> DEFINE refused == [slots[j] EXCEPT !.at = "finish", !.out = "failed"]
  <2>1. slots[j].at = "setup" /\ UNCHANGED <<held, deleting>> /\ JobOK(slots[j]) /\ (Becoming(j, done) \/ Becoming(j, refused))
    BY <1>0, <1>17 DEF SetupStep
  <2>2. JobShape(done) /\ done.kind = slots[j].kind /\ done.holds = slots[j].holds /\ done.at = "body"
    BY <2>1 DEF JobOK, JobShape
  <2>3. JobShape(refused) /\ refused.kind = slots[j].kind /\ refused.holds = slots[j].holds /\ refused.at = "finish"
    BY <2>1 DEF JobOK, JobShape
  <2>4. slots[j].kind # "delete"
    BY <2>1 DEF JobOK
  <2> HIDE DEF done, refused
  <2> QED BY <2>1, <2>2, <2>3, <2>4, JobGoes DEF Unheld
<1>18. ASSUME NEW j \in Slots, BodyStep(j) PROVE JobsInv'
  <2> DEFINE at == IF slots[j].kind = "delete" THEN "drop" ELSE "finish"
  <2> DEFINE next == [slots[j] EXCEPT !.at = at]
  <2>1. slots[j].at = "body" /\ UNCHANGED <<held, deleting>> /\ JobOK(slots[j]) /\ Becoming(j, next)
    BY <1>0, <1>18 DEF BodyStep
  <2>2. at \in {"drop", "finish"} /\ (slots[j].kind = "delete" => at = "drop")
    OBVIOUS
  <2> HIDE DEF at
  <2>3. JobShape(next) /\ next.kind = slots[j].kind /\ next.holds = slots[j].holds /\ next.at = at
    BY <2>1 DEF JobOK, JobShape
  <2> HIDE DEF next
  <2> QED BY <2>1, <2>2, <2>3, JobGoes DEF Unheld
<1>19. ASSUME NEW j \in Slots, DropAccount(j) PROVE JobsInv'
  <2> DEFINE next == [slots[j] EXCEPT !.at = "finish"]
  <2>1. slots[j].at = "drop" /\ UNCHANGED held /\ deleting' = FALSE /\ JobOK(slots[j]) /\ Becoming(j, next)
    BY <1>0, <1>19 DEF DropAccount
  <2>2. JobShape(next) /\ next.kind = slots[j].kind /\ next.holds = slots[j].holds /\ next.at = "finish"
    BY <2>1 DEF JobOK, JobShape
  <2> HIDE DEF next
  <2>3. JobOK(next)
    BY <2>1, <2>2 DEF JobOK, Unheld
  <2> QED BY <2>1, <2>2, <2>3, JobMoves
<1>20. ASSUME NEW j \in Slots, StepFails(j) PROVE JobsInv'
  <2>1. JobOK(slots[j]) /\ UNCHANGED held
    BY <1>0, <1>20 DEF StepFails
  <2>2. CASE slots[j].at \in {"list", "make", "row"}
    <3>1. Becoming(j, Free) /\ UNCHANGED deleting
      BY <1>20, <2>2 DEF StepFails, EndsJob
    <3> QED BY <2>1, <2>2, <3>1, JobEnds DEF JobOK, Unheld
  <2>3. CASE slots[j].at \notin {"list", "make", "row"}
    <3> DEFINE at == IF slots[j].at = "open" THEN "release" ELSE "finish"
    <3> DEFINE out == IF slots[j].stop /\ slots[j].kind \in SyncKinds THEN "interrupted" ELSE "failed"
    <3> DEFINE next == [slots[j] EXCEPT !.at = at, !.out = out]
    <3>1. Becoming(j, next) /\ deleting' = ClearsMark(j)
      BY <1>20, <2>3 DEF StepFails
    <3>2. at \in {"release", "finish"} /\ slots[j].at \in {"open", "select", "status", "reset", "count", "fetch", "body", "drop"}
      BY <1>20, <2>3 DEF StepFails
    <3> HIDE DEF at, out
    <3>3. JobShape(next) /\ next.kind = slots[j].kind /\ next.holds = slots[j].holds /\ next.at = at
      BY <2>1 DEF JobOK, JobShape
    <3> HIDE DEF next
    <3>4. JobOK(next)
      BY <2>1, <3>2, <3>3 DEF JobOK, Unheld
    <3>5. deleting' \in BOOLEAN /\ (deleting' => deleting /\ ~Owner(slots[j]))
      BY <1>0, <3>1 DEF ClearsMark, Owner
    <3> QED BY <2>1, <3>1, <3>3, <3>4, <3>5, JobMoves
  <2> QED BY <2>2, <2>3
<1>21. ASSUME NEW j \in Slots, FinishRun(j) PROVE JobsInv'
  <2> DEFINE next == [slots[j] EXCEPT !.at = "release"]
  <2>1. slots[j].at = "finish" /\ UNCHANGED <<held, deleting>> /\ JobOK(slots[j]) /\ Becoming(j, next)
    BY <1>0, <1>21 DEF FinishRun
  <2>2. JobShape(next) /\ next.kind = slots[j].kind /\ next.holds = slots[j].holds /\ next.at = "release"
    BY <2>1 DEF JobOK, JobShape
  <2> HIDE DEF next
  <2> QED BY <2>1, <2>2, JobGoes DEF Unheld
<1>22. ASSUME NEW j \in Slots, Release(j) PROVE JobsInv'
  <2> DEFINE next == [slots[j] EXCEPT !.at = "next", !.holds = {}, !.run = 0]
  <2>1. slots[j].at = "release" /\ UNCHANGED deleting /\ held' = held \ slots[j].holds /\ JobOK(slots[j]) /\ ~Owner(slots[j])
    BY <1>0, <1>22 DEF Release, ReleasesFolder, Owner
  <2>2. (slots[j].kind \in SyncKinds /\ Becoming(j, next)) \/ Becoming(j, Free)
    BY <1>22 DEF Release
  <2>3. JobShape(next) /\ next.kind = slots[j].kind /\ next.holds = {} /\ next.at = "next"
    BY <2>1 DEF JobOK, JobShape
  <2> HIDE DEF next
  <2>4. slots[j].kind \in SyncKinds => JobOK(next)
    BY <2>3 DEF JobOK, SyncKinds
  <2> QED BY <1>0, <2>1, <2>2, <2>3, <2>4, FreeIsOK, JobMoves
<1>23. ASSUME NEW j \in Slots, FolderStep(j) PROVE JobsInv'
  BY <1>2, <1>3, <1>4, <1>5, <1>6, <1>7, <1>8, <1>9, <1>11, <1>12, <1>13, <1>14, <1>15, <1>16, <1>17, <1>18, <1>19, <1>20,
     <1>21, <1>22, <1>23 DEF FolderStep
<1>24. ASSUME NEW j \in Slots, RefreshStarts(j) PROVE JobsInv'
  <2> DEFINE task == [Free EXCEPT !.kind = "refresh", !.at = "list"]
  <2>1. Takes(j, task) /\ UNCHANGED <<held, deleting>>
    BY <1>24 DEF RefreshStarts
  <2>2. JobShape(task) /\ task.kind = "refresh" /\ task.at = "list" /\ task.holds = {}
    BY FreeIsOK DEF JobShape
  <2> HIDE DEF task
  <2> QED BY <2>1, <2>2, JobStarts DEF Unheld
<1>25. ASSUME NEW j \in Slots, AutoSyncStarts(j) PROVE JobsInv'
  <2> DEFINE task == [Free EXCEPT !.kind = "auto", !.at = "list"]
  <2>1. Takes(j, task) /\ UNCHANGED <<held, deleting>>
    BY <1>25 DEF AutoSyncStarts
  <2>2. JobShape(task) /\ task.kind = "auto" /\ task.at = "list" /\ task.holds = {}
    BY FreeIsOK DEF JobShape
  <2> HIDE DEF task
  <2> QED BY <2>1, <2>2, JobStarts DEF Unheld
<1>26. ASSUME NEW j \in Slots, AsksDeletion(j) PROVE JobsInv'
  <2> DEFINE task == [Free EXCEPT !.kind = "delete", !.at = "mark", !.todo = Sorted(Local)]
  <2>1. Takes(j, task) /\ UNCHANGED <<held, deleting>>
    BY <1>26 DEF AsksDeletion
  <2>2. JobShape(task) /\ task.kind = "delete" /\ task.at = "mark" /\ task.holds = {}
    BY FreeIsOK DEF JobShape
  <2> HIDE DEF task
  <2> QED BY <2>1, <2>2, JobStarts DEF Unheld
<1>27. ASSUME NEW j \in Slots, NEW n \in Names, CreateFolder(j, n) PROVE JobsInv'
  <2> DEFINE task == [Free EXCEPT !.kind = "create", !.at = "make", !.todo = <<n>>]
  <2>1. Takes(j, task) /\ UNCHANGED <<held, deleting>>
    BY <1>27 DEF CreateFolder
  <2>2. JobShape(task) /\ task.kind = "create" /\ task.at = "make" /\ task.holds = {}
    BY FreeIsOK DEF JobShape
  <2> HIDE DEF task
  <2> QED BY <2>1, <2>2, JobStarts DEF Unheld
<1>28. ASSUME NEW j \in Slots, NEW n \in Names, SyncStarts(j, n) \/ RecoveryStarts(j, n) PROVE JobsInv'
  <2> DEFINE task(kind) == [Free EXCEPT !.kind = kind, !.at = "next", !.plan = <<n>>]
  <2>1. UNCHANGED <<held, deleting>> /\ (Takes(j, task("sync")) \/ Takes(j, task("recover")))
    BY <1>28 DEF SyncStarts, RecoveryStarts
  <2>2. \A kind : JobShape(task(kind)) /\ task(kind).kind = kind /\ task(kind).at = "next" /\ task(kind).holds = {}
    BY FreeIsOK DEF JobShape
  <2> HIDE DEF task
  <2> QED BY <2>1, <2>2, JobStarts DEF Unheld
<1>29. ASSUME NEW j \in Slots, NEW n \in Names, MaintenanceStarts(j, n) PROVE JobsInv'
  <2> DEFINE task == [Free EXCEPT !.kind = "purge", !.at = "reserve", !.name = n]
  <2>1. Takes(j, task) /\ UNCHANGED <<held, deleting>>
    BY <1>29 DEF MaintenanceStarts
  <2>2. JobShape(task) /\ task.kind = "purge" /\ task.at = "reserve" /\ task.holds = {}
    BY FreeIsOK DEF JobShape
  <2> HIDE DEF task
  <2> QED BY <2>1, <2>2, JobStarts DEF Unheld
<1>30. ASSUME NEW j \in Slots, NEW n \in Names, NEW want \in Wanted, AsksSettings(j, n, want) PROVE JobsInv'
  <2> DEFINE kind == IF want.search # folders[n].search THEN "toggle" ELSE "settings"
  <2> DEFINE at == IF want.search # folders[n].search THEN "reserve" ELSE "update"
  <2> DEFINE task == [Free EXCEPT !.name = n, !.want = want, !.kind = kind, !.at = at]
  <2>1. Takes(j, task) /\ UNCHANGED <<held, deleting>>
    BY <1>30 DEF AsksSettings
  <2>2. kind \in {"toggle", "settings"} /\ at \in {"reserve", "update"}
    OBVIOUS
  <2> HIDE DEF kind, at
  <2>3. JobShape(task) /\ task.kind = kind /\ task.at = at /\ task.holds = {}
    BY FreeIsOK DEF JobShape
  <2> HIDE DEF task
  <2> QED BY <2>1, <2>2, <2>3, JobStarts DEF Unheld
<1>31. ASSUME NEW j \in Slots, NEW r \in RunIds, AsksCancel(j, r) PROVE JobsInv'
  <2> DEFINE task == [Free EXCEPT !.kind = "cancel", !.at = "interrupt", !.run = r]
  <2>1. /\ UNCHANGED <<held, deleting>> /\ slots[j].kind = "none" /\ JobOK(slots[j])
        /\ DOMAIN slots' = Slots /\ slots'[j] = task
        /\ \A q \in Slots \ {j} : slots'[q] = slots[q] \/ slots'[q] = [slots[q] EXCEPT !.stop = TRUE]
    BY <1>0, <1>31 DEF AsksCancel
  <2>2. JobShape(task) /\ task.kind = "cancel" /\ task.at = "interrupt" /\ task.holds = {}
    BY FreeIsOK DEF JobShape
  <2> HIDE DEF task
  <2>3. \A q \in Slots \ {j} : /\ JobOK(slots'[q]) /\ slots'[q].kind = slots[q].kind /\ slots'[q].at = slots[q].at
                               /\ slots'[q].holds = slots[q].holds
    BY <1>0, <2>1 DEF JobOK, JobShape
  <2>4. JobOK(task) /\ slots[j].holds = {}
    BY <2>1, <2>2 DEF JobOK, Unheld
  <2>5. HeldHasOwner'
    BY <2>1, <2>3, <2>4 DEF JobsInv, HeldHasOwner
  <2>6. MarkHasOwner'
    BY <2>1, <2>3 DEF JobsInv, MarkHasOwner
  <2> QED BY <1>0, <2>1, <2>3, <2>4, <2>5, <2>6 DEF JobsInv
<1>32. ASSUME NEW n \in Names, NEW mode, SetMode(n, mode) PROVE UNCHANGED <<slots, held, deleting>>
  BY <1>32 DEF SetMode
<1>33. ASSUME UNCHANGED <<slots, held, deleting>> PROVE JobsInv'
  BY <1>33 DEF JobsInv, HeldHasOwner, MarkHasOwner
<1>34. ASSUME FolderRequest PROVE JobsInv'
  BY <1>24, <1>25, <1>26, <1>27, <1>28, <1>29, <1>30, <1>31, <1>32, <1>33, <1>34 DEF FolderRequest
<1>35. ASSUME ShutsDown PROVE JobsInv'
  <2>1. /\ UNCHANGED <<held, deleting>> /\ DOMAIN slots' = Slots
        /\ \A j \in Slots : slots'[j] = [slots[j] EXCEPT !.stop = slots[j].kind # "none"]
    BY <1>35 DEF ShutsDown
  <2>2. \A j \in Slots : /\ JobShape(slots'[j]) /\ slots'[j].kind = slots[j].kind /\ slots'[j].at = slots[j].at
                         /\ slots'[j].holds = slots[j].holds
    BY <1>0, <2>1 DEF JobOK, JobShape
  <2> QED BY <2>1, <2>2, JobsAlike
<1>36. ASSUME Restarts PROVE JobsInv'
  <2>1. DOMAIN slots' = Slots /\ (\A j \in Slots : slots'[j] = Free) /\ held' = {} /\ deleting' = FALSE
    BY <1>36 DEF Restarts
  <2> QED BY <2>1, FreeIsOK DEF JobsInv, HeldHasOwner, MarkHasOwner
<1>37. ASSUME BackoffEnds \/ Reap \/ (\E r \in RunIds : RunAges(r)) \/ (\E n \in Names : Renumber(n)) \/ UNCHANGED folderVars
       PROVE  UNCHANGED <<slots, held, deleting>>
  BY <1>37 DEF BackoffEnds, Reap, RunAges, Renumber, folderVars
<1> QED BY <1>23, <1>33, <1>34, <1>35, <1>36, <1>37 DEF FoldersNext

\* Roles and generations name one folder, and every reservation and every mark of a deletion
\* has a job that will clear it, for any number of folders, jobs, runs, requests and faults
\* (store/mailboxes.go, syncer/runner.go, web/api_account.go).
THEOREM FoldersAreSafe == FoldersSpec => []FoldersSafe
<1>1. RowsInv /\ JobsInv => FoldersSafe
  BY DEF RowsInv, JobsInv, FoldersSafe
<1> QED BY <1>1, RowsInitially, RowsKept, JobsInitially, JobsKept, PTL DEF FoldersSpec

-----------------------------------------------------------------------------
\* The rows of the runs; NextRun is the first that no run has.
RunShape(r) == DOMAIN r = {"status", "stale"}
RunsInv == DOMAIN runs = RunIds /\ \A r \in RunIds : RunShape(runs[r])
Stays(f, g) == \A r \in RunIds : f[r].status = "interrupted" => g[r].status \in {"interrupted", "gone"}

LEMMA NextRunIsFree == ASSUME RunLeft PROVE NextRun \in RunIds /\ runs[NextRun].status = "none"
<1> DEFINE R == {r \in RunIds : runs[r].status = "none"}
<1>1. RunIds \subseteq Nat
  BY FoldersAssumption, FS_CardinalityType
<1>2. IsWellFoundedOn(OpToRel(<, Nat), Nat)
  BY NatLessThanWellFounded
<1>3. PICK r \in R : \A q \in R : ~ (<<q, r>> \in OpToRel(<, Nat))
  BY <1>1, <1>2, WFMin DEF RunLeft
<1>4. \A q \in RunIds : q < r => runs[q].status # "none"
  BY <1>1, <1>3 DEF OpToRel
<1> QED BY <1>3, <1>4 DEF NextRun

LEMMA RunsMove ==
    ASSUME RunsInv
    PROVE  /\ \A r, out : /\ DOMAIN Finished(runs, r, out) = RunIds /\ \A q \in RunIds : RunShape(Finished(runs, r, out)[q])
                          /\ Stays(runs, Finished(runs, r, out))
           /\ \A r : /\ DOMAIN Touched(runs, r) = RunIds /\ \A q \in RunIds : RunShape(Touched(runs, r)[q])
                     /\ Stays(runs, Touched(runs, r))
           /\ \A which : /\ DOMAIN Interrupted(runs, which) = RunIds
                         /\ \A q \in RunIds : RunShape(Interrupted(runs, which)[q])
                         /\ Stays(runs, Interrupted(runs, which))
<1>1. ASSUME NEW r, NEW out
      PROVE  /\ DOMAIN Finished(runs, r, out) = RunIds /\ \A q \in RunIds : RunShape(Finished(runs, r, out)[q])
             /\ Stays(runs, Finished(runs, r, out))
  BY DEF RunsInv, RunShape, Finished, Stays
<1>2. ASSUME NEW r
      PROVE  /\ DOMAIN Touched(runs, r) = RunIds /\ \A q \in RunIds : RunShape(Touched(runs, r)[q])
             /\ Stays(runs, Touched(runs, r))
  BY DEF RunsInv, RunShape, Touched, Stays
<1>3. ASSUME NEW which
      PROVE  /\ DOMAIN Interrupted(runs, which) = RunIds /\ \A q \in RunIds : RunShape(Interrupted(runs, which)[q])
             /\ Stays(runs, Interrupted(runs, which))
  BY DEF RunsInv, RunShape, Interrupted, Stays
<1> QED BY <1>1, <1>2, <1>3

LEMMA RunsKept == RunsInv /\ [FoldersNext]_folderVars => RunsInv' /\ Stays(runs, runs')
<1> SUFFICES ASSUME RunsInv, [FoldersNext]_folderVars PROVE RunsInv' /\ Stays(runs, runs')
  OBVIOUS
<1>1. ASSUME runs' = runs \/ (\E r : runs' = Touched(runs, r)) \/ (\E r, out : runs' = Finished(runs, r, out))
             \/ (\E which : runs' = Interrupted(runs, which))
      PROVE  RunsInv' /\ Stays(runs, runs')
  <2>1. CASE runs' = runs
    BY <2>1 DEF RunsInv, Stays
  <2>2. CASE runs' # runs
    BY <1>1, <2>2, RunsMove DEF RunsInv
  <2> QED BY <2>1, <2>2
<1>2. ASSUME NEW j \in Slots, OpenRun(j) PROVE RunsInv' /\ Stays(runs, runs')
  <2>1. runs' = [runs EXCEPT ![NextRun] = [status |-> "running", stale |-> FALSE]] /\ RunLeft
    BY <1>2 DEF OpenRun, Created
  <2>2. runs[NextRun].status = "none" /\ NextRun \in RunIds
    BY <2>1, NextRunIsFree
  <2> QED BY <2>1, <2>2 DEF RunsInv, RunShape, Stays
<1>3. ASSUME NEW j \in Slots, DropAccount(j) PROVE RunsInv' /\ Stays(runs, runs')
  <2>1. runs' = [r \in RunIds |-> IF runs[r].status = "none" THEN runs[r] ELSE [status |-> "gone", stale |-> FALSE]]
    BY <1>3 DEF DropAccount
  <2> QED BY <2>1 DEF RunsInv, RunShape, Stays
<1>4. ASSUME NEW r \in RunIds, RunAges(r) PROVE RunsInv' /\ Stays(runs, runs')
  BY <1>4 DEF RunAges, RunsInv, RunShape, Stays
<1>5. ASSUME NEW j \in Slots, FolderStep(j), ~OpenRun(j), ~DropAccount(j)
      PROVE  runs' = runs \/ (\E r : runs' = Touched(runs, r)) \/ (\E r, out : runs' = Finished(runs, r, out))
             \/ (\E which : runs' = Interrupted(runs, which))
  BY <1>5 DEF FolderStep, MakeFolder, ListRemote, RowStep, RowsDone, Probe, Record, NextFolder, SelectFolder, PlanStatus,
     ResetStep, CountStep, FetchStep, UpdateStep, MarkDeleting, Reserve, ProgressFails, SetupStep, BodyStep, StepFails,
     FinishRun, Release, CancelMarks, Moves
<1>6. ASSUME FolderRequest PROVE runs' = runs
  BY <1>6 DEF FolderRequest, RefreshStarts, AutoSyncStarts, AsksDeletion, CreateFolder, SyncStarts, RecoveryStarts,
     MaintenanceStarts, AsksSettings, AsksCancel, SetMode
<1>7. ASSUME BackoffEnds \/ Reap \/ ShutsDown \/ Restarts \/ (\E n \in Names : Renumber(n)) \/ UNCHANGED folderVars
      PROVE  runs' = runs \/ (\E which : runs' = Interrupted(runs, which))
  BY <1>7 DEF BackoffEnds, Reap, ShutsDown, Restarts, Renumber, folderVars
<1> QED BY <1>1, <1>2, <1>3, <1>4, <1>5, <1>6, <1>7 DEF FoldersNext

\* A run that was interrupted, by its user, the reaper or a shutdown, keeps that outcome
\* although its worker still ends and reports (FinishSyncRun, InterruptStaleSyncRuns).
THEOREM InterruptedRunsStay == FoldersSpec => InterruptedStays
<1>1. FoldersInit => RunsInv
  BY DEF FoldersInit, RunsInv, RunShape
<1>2. RunsInv /\ [FoldersNext]_folderVars =>
        [\A r \in RunIds : runs[r].status = "interrupted" => runs'[r].status \in {"interrupted", "gone"}]_folderVars
  BY RunsKept DEF Stays
<1>3. RunsInv /\ [FoldersNext]_folderVars => RunsInv'
  BY RunsKept
<1> QED BY <1>1, <1>2, <1>3, PTL DEF FoldersSpec, InterruptedStays
=============================================================================
