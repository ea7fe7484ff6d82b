-------------------------- MODULE TransferProofs --------------------------
(* Why a move or a copy is applied at most once and its outcome is recorded rightly:
   the safety of Transfers, for every number of callers, rows, attempts and
   disturbances. *)
EXTENDS Transfers, SequenceTheorems, FiniteSetTheorems, WellFoundedInduction, TLAPS

-----------------------------------------------------------------------------
(* The inductive invariant *)

\* The callers that hold a claim: the command is under way or its outcome is
\* still to be recorded.
Claimed(c) ==
    \/ call[c].pc \in {"remote", "fail", "finish"}
    \/ call[c].pc \in {"succeed", "applied", "settle"} /\ call[c].at > 0

\* No copy on the server is of row i.
Untransferred(i) == \A x \in copies : x.row /= i

\* A boundary or UID is not later than what mailbox d has reached.
NotAfter(b, d) == b.gen <= gen[d] /\ (b.gen = gen[d] => b.uid <= uidNext[d])

\* A caller works on a row of its kind, and a copy on one to its destination; it has
\* read no attempt that has not begun, and has an attempt of its own once it claims.
OnRow(c) ==
    /\ call[c].id \in DOMAIN journal
    /\ RowOf(c).kind = call[c].kind
    /\ call[c].kind = "copy" => RowOf(c).dest = call[c].dest
    /\ call[c].seen.attempt <= RowOf(c).attempt
    /\ call[c].pc = "resolve" => call[c].kind = "copy"
    /\ call[c].pc \in {"read", "boundary", "setBoundary", "check", "resolve", "reopen", "claim"} => call[c].at = 0
    /\ call[c].pc \in {"remote", "fail", "finish", "applied", "settle"} => call[c].at > 0

\* The claim is the last attempt of the row, nobody may reconcile it, and the row
\* has not failed; before the answer nothing of it is at the server.
ClaimOf(c) ==
    /\ Claimed(c) =>
        /\ RowOf(c).dispatched /\ RowOf(c).owner = epoch
        /\ RowOf(c).attempt = call[c].at /\ ~RowOf(c).finished
        /\ RowOf(c).state /= "failed"
    /\ call[c].pc \in {"remote", "fail"} => Untransferred(call[c].id)

\* A caller that checks an attempt, as long as it is the last one: the attempt is
\* over, and once the proof is made nothing of it is at the server.
CheckOf(c) ==
    LET r == RowOf(c)
    IN call[c].pc \in {"check", "reopen"} /\ r.state = "pending" /\ r.dispatched
            /\ r.attempt = call[c].seen.attempt =>
        /\ CanReconcile(r)
        /\ call[c].pc = "reopen" => Untransferred(call[c].id)

\* The boundary of a copy is stored before its first attempt, and the caller knows it.
BoundaryOf(c) ==
    /\ call[c].pc = "setBoundary" => call[c].uid /= None /\ NotAfter(call[c].uid, call[c].dest)
    /\ call[c].pc \in {"check", "reopen", "claim", "remote"} /\ call[c].kind = "copy" =>
        RowOf(c).boundary /= None /\ RowOf(c).boundary = call[c].seen.boundary

\* A caller that takes the move for done is right.
SourceOf(c) ==
    /\ call[c].pc \in {"succeed", "applied"} /\ call[c].kind = "move" => ~source
    /\ call[c].pc \in {"complete", "delete"} => ~source

CallerInv(c) == call[c].pc /= "idle" => OnRow(c) /\ ClaimOf(c) /\ CheckOf(c) /\ BoundaryOf(c) /\ SourceOf(c)

\* A row: its owner has run; a copy's boundary is not later than its destination;
\* before the first attempt, after a proof and after a failure nothing of it is at
\* the server; a move that is done has emptied the source.
RowInv(i) ==
    LET r == journal[i]
    IN /\ r.owner <= epoch
       /\ r.kind = "copy" /\ r.boundary /= None => NotAfter(r.boundary, r.dest)
       /\ r.state = "pending" /\ ~r.dispatched => Untransferred(i)
       /\ r.state = "failed" => Untransferred(i)
       /\ r.kind = "move" /\ r.state \in {"succeeded", "consumed"} => ~source

\* A copy of a row: a move's has emptied the source, a copy's lies in the row's
\* destination behind its boundary.
CopyInv(x) ==
    x.row /= 0 =>
        /\ x.row \in DOMAIN journal
        /\ journal[x.row].kind = "move" => ~source
        /\ journal[x.row].kind = "copy" =>
            LET b == journal[x.row].boundary
            IN /\ x.dest = journal[x.row].dest
               /\ b /= None
               /\ b.gen = gen[x.dest] => b.uid <= x.uid

\* No two callers hold the same claim, and no two copies are of one row.
ClaimsUnique ==
    \A c, d \in Callers : Claimed(c) /\ Claimed(d) /\ call[c].id = call[d].id => c = d
CopiesUnique == \A x, y \in copies : x.row = y.row /\ x.row /= 0 => x = y

\* Whatever tells that the message has left its source mailbox is right.
SourceLeft == ~local \/ expunged /= "no" \/ gen[Source] > 1 => ~source

TransferInv ==
    /\ TypeOK
    /\ \A c \in Callers : CallerInv(c)
    /\ \A i \in DOMAIN journal : RowInv(i)
    /\ \A x \in copies : CopyInv(x)
    /\ ClaimsUnique /\ CopiesUnique /\ SourceLeft

-----------------------------------------------------------------------------
(* Types *)

Pcs == {"idle", "read", "boundary", "setBoundary", "check", "resolve", "reopen", "claim", "remote",
        "fail", "finish", "succeed", "applied", "settle", "store", "retire", "complete", "delete"}
Snapshots == [owner : 0..MaxEpoch, attempt : 0..MaxAttempts, boundary : Uids, uid : Uids]

LEMMA NoneIsUid == None \in Uids
BY DEF None, Uids

LEMMA FreshTypes ==
    /\ \A k \in Kinds, d \in Dests : Row(k, d) \in Rows /\ Snapshot(Row(k, d)) \in Snapshots
    /\ NoCall \in Calls
<1>1. ASSUME NEW k \in Kinds, NEW d \in Dests PROVE Row(k, d) \in Rows
  BY NoneIsUid, TransfersAssumption DEF Row, Rows
<1>2. ASSUME NEW k \in Kinds, NEW d \in Dests PROVE Snapshot(Row(k, d)) \in Snapshots
  BY NoneIsUid, TransfersAssumption DEF Row, Snapshot, Snapshots
<1>3. NoCall \in Calls
  <2>1. "move" \in Kinds /\ Archive \in Dests
    BY DEF Kinds, Dests
  <2> QED BY <1>2, <2>1, NoneIsUid, TransfersAssumption DEF NoCall, Calls, Snapshots
<1> QED BY <1>1, <1>2, <1>3

LEMMA SnapshotType == \A r \in Rows : Snapshot(r) \in Snapshots
BY DEF Snapshot, Snapshots, Rows

\* Storing a row of the journal changes this row and nothing else.
LEMMA RowStored ==
    ASSUME journal \in Seq(Rows), NEW i \in DOMAIN journal, NEW r \in Rows, SetRow(i, r)
    PROVE  /\ journal' \in Seq(Rows) /\ Len(journal') = Len(journal)
           /\ DOMAIN journal' = DOMAIN journal
           /\ journal'[i] = r
           /\ \A j \in DOMAIN journal : j # i => journal'[j] = journal[j]
<1>1. DOMAIN journal = 1..Len(journal)
  BY LenProperties
<1>2. journal' = [journal EXCEPT ![i] = r]
  BY DEF SetRow
<1>3. /\ journal' \in Seq(Rows) /\ Len(journal') = Len(journal)
      /\ \A j \in 1..Len(journal) : journal'[j] = IF j = i THEN r ELSE journal[j]
  BY <1>1, <1>2, ExceptSeq
<1>4. DOMAIN journal' = 1..Len(journal')
  BY <1>3, LenProperties
<1> QED BY <1>1, <1>3, <1>4

LEMMA RowAdded ==
    ASSUME journal \in Seq(Rows), NEW r \in Rows, journal' = Append(journal, r)
    PROVE  /\ journal' \in Seq(Rows) /\ Len(journal') = Len(journal) + 1
           /\ Len(journal) \in Nat
           /\ DOMAIN journal = 1..Len(journal) /\ DOMAIN journal' = 1..(Len(journal) + 1)
           /\ journal'[Len(journal) + 1] = r
           /\ \A j \in DOMAIN journal : journal'[j] = journal[j]
<1>1. DOMAIN journal = 1..Len(journal) /\ Len(journal) \in Nat
  BY LenProperties
<1>2. /\ journal' \in Seq(Rows) /\ Len(journal') = Len(journal) + 1
      /\ \A j \in 1..Len(journal) : journal'[j] = journal[j]
      /\ journal'[Len(journal) + 1] = r
  BY <1>1, AppendProperties
<1>3. DOMAIN journal' = 1..Len(journal')
  BY <1>2, LenProperties
<1> QED BY <1>1, <1>2, <1>3

\* A caller that goes on changes its own locals and nobody else's.
LEMMA CallerGoes ==
    ASSUME call \in [Callers -> Calls], NEW c \in Callers, NEW k \in Calls, NEW where \in Pcs,
           GoWith(c, where, k)
    PROVE  /\ call' \in [Callers -> Calls]
           /\ \A d \in Callers : d # c => call'[d] = call[d]
           /\ call'[c] \in Calls /\ call'[c].pc = where
           /\ where # "idle" =>
                /\ call'[c].kind = k.kind /\ call'[c].dest = k.dest /\ call'[c].id = k.id
                /\ call'[c].seen = k.seen /\ call'[c].at = k.at /\ call'[c].uid = k.uid
                /\ call'[c].known = k.known /\ call'[c].canceled = k.canceled
<1> DEFINE n == [k EXCEPT !.pc = where]
<1>1. n \in Calls /\ n.pc = where
  BY DEF Calls, Pcs
<1>2. /\ n.kind = k.kind /\ n.dest = k.dest /\ n.id = k.id /\ n.seen = k.seen /\ n.at = k.at
      /\ n.uid = k.uid /\ n.known = k.known /\ n.canceled = k.canceled
  BY DEF Calls
<1>3. NoCall \in Calls /\ NoCall.pc = "idle"
  BY FreshTypes DEF NoCall
<1>4. call' = [call EXCEPT ![c] = IF where = "idle" THEN NoCall ELSE n]
  BY DEF GoWith
<1> HIDE DEF n
<1> QED BY <1>1, <1>2, <1>3, <1>4

-----------------------------------------------------------------------------
(* Steps that change at most the state and the UID of one row *)

\* What such a step leaves of a row.
SameClaim(r, q) ==
    /\ q.kind = r.kind /\ q.dest = r.dest /\ q.dispatched = r.dispatched /\ q.owner = r.owner
    /\ q.attempt = r.attempt /\ q.finished = r.finished /\ q.boundary = r.boundary

\* A caller either stands still or goes on to a place where it is right.
Onward(d) ==
    \/ call'[d] = call[d]
    \/ CallerInv(d)' /\ (Claimed(d)' => Claimed(d) /\ call'[d].id = call[d].id)

LEMMA StateStored ==
    ASSUME TransferInv, UNCHANGED <<source, gen, copies, uidNext, epoch>>,
           journal' \in Seq(Rows), Len(journal') = Len(journal), DOMAIN journal' = DOMAIN journal,
           call' \in [Callers -> Calls], faults' \in 0..MaxFaults,
           local' \in BOOLEAN, arrived' \subseteq Uids, expunged' \in {"no", "kept", "consumed"},
           SourceLeft',
           \A i \in DOMAIN journal : SameClaim(journal[i], journal'[i]),
           \A i \in DOMAIN journal : journal'[i].state = "pending" => journal[i].state = "pending",
           \A i \in DOMAIN journal : journal'[i].state = "failed" /\ journal[i].state # "failed" =>
                Untransferred(i) /\ \A d \in Callers : Claimed(d)' => call'[d].id # i,
           \A i \in DOMAIN journal : journal'[i].kind = "move" /\ journal'[i].state \in {"succeeded", "consumed"} => ~source,
           \A d \in Callers : Onward(d)
    PROVE  TransferInv'
<1> USE DEF TransferInv
<1>1. TypeOK'
  BY DEF TypeOK
<1>2. ASSUME NEW d \in Callers PROVE CallerInv(d)'
  <2>1. CASE call'[d] = call[d]
    <3>1. CASE call[d].pc = "idle"
      BY <2>1, <3>1 DEF CallerInv
    <3>2. CASE call[d].pc # "idle"
      <4>1. call[d].id \in DOMAIN journal
        BY <3>2 DEF CallerInv, OnRow
      <4>2. SameClaim(RowOf(d), RowOf(d)') /\ (RowOf(d)'.state = "pending" => RowOf(d).state = "pending")
        BY <2>1, <4>1 DEF RowOf
      <4>3. OnRow(d)'
        BY <2>1, <3>2, <4>1, <4>2 DEF CallerInv, OnRow, SameClaim
      <4>4. ClaimOf(d)'
        BY <2>1, <3>2, <4>1, <4>2 DEF CallerInv, ClaimOf, Claimed, SameClaim, RowOf, Untransferred
      <4>5. CheckOf(d)'
        BY <2>1, <3>2, <4>1, <4>2, SMTT(30) DEF CallerInv, CheckOf, SameClaim, Untransferred, CanReconcile, RowOf
      <4>6. BoundaryOf(d)' /\ SourceOf(d)'
        BY <2>1, <3>2, <4>1, <4>2 DEF CallerInv, BoundaryOf, SourceOf, SameClaim, NotAfter
      <4> QED BY <4>3, <4>4, <4>5, <4>6 DEF CallerInv
    <3> QED BY <3>1, <3>2
  <2>2. CASE CallerInv(d)'
    BY <2>2
  <2> QED BY <2>1, <2>2 DEF Onward
<1>3. ASSUME NEW i \in (DOMAIN journal)' PROVE RowInv(i)'
  BY <1>3 DEF RowInv, SameClaim, NotAfter, Untransferred
<1>4. ASSUME NEW x \in copies' PROVE CopyInv(x)'
  BY <1>4 DEF CopyInv, SameClaim
<1>5. ClaimsUnique'
  <2>1. ASSUME NEW d \in Callers, Claimed(d)' PROVE Claimed(d) /\ call'[d].id = call[d].id
    BY <2>1 DEF Onward, Claimed
  <2> QED BY <2>1 DEF ClaimsUnique
<1>6. CopiesUnique'
  BY DEF CopiesUnique
<1> QED BY <1>1, <1>2, <1>3, <1>4, <1>5, <1>6

\* What is known of a caller that works.
LEMMA CallerWorks ==
    ASSUME TransferInv, NEW c \in Callers, call[c].pc # "idle"
    PROVE  /\ call \in [Callers -> Calls] /\ call[c] \in Calls
           /\ journal \in Seq(Rows) /\ Len(journal) <= MaxRows
           /\ call[c].id \in DOMAIN journal /\ RowOf(c) \in Rows /\ RowOf(c) = journal[call[c].id]
           /\ OnRow(c) /\ ClaimOf(c) /\ CheckOf(c) /\ BoundaryOf(c) /\ SourceOf(c)
           /\ RowInv(call[c].id)
<1>1. journal \in Seq(Rows) /\ call \in [Callers -> Calls] /\ Len(journal) <= MaxRows
  BY DEF TransferInv, TypeOK
<1>2. OnRow(c) /\ ClaimOf(c) /\ CheckOf(c) /\ BoundaryOf(c) /\ SourceOf(c)
  BY DEF TransferInv, CallerInv
<1>3. call[c].id \in DOMAIN journal
  BY <1>2 DEF OnRow
<1>4. RowOf(c) \in Rows
  BY <1>1, <1>3, ElementOfSeq, LenProperties DEF RowOf
<1>5. RowInv(call[c].id)
  BY <1>3 DEF TransferInv
<1> QED BY <1>1, <1>2, <1>3, <1>4, <1>5 DEF RowOf

\* Nothing changes but the place and the locals of one caller.
LEMMA CallerOnly ==
    ASSUME TransferInv, UNCHANGED <<journal, source, gen, copies, uidNext, local, arrived, expunged, epoch>>,
           faults' \in 0..MaxFaults,
           NEW c \in Callers, call' \in [Callers -> Calls],
           \A d \in Callers : d # c => call'[d] = call[d],
           call'[c].pc # "idle" =>
                CallerInv(c)' /\ (Claimed(c)' => Claimed(c) /\ call'[c].id = call[c].id)
    PROVE  TransferInv'
<1>1. \A d \in Callers : Onward(d)
  <2>1. call'[c].pc = "idle" => CallerInv(c)' /\ ~Claimed(c)'
    BY DEF CallerInv, Claimed
  <2> QED BY <2>1 DEF Onward
<1>2. /\ journal \in Seq(Rows) /\ local' \in BOOLEAN /\ arrived' \subseteq Uids
      /\ expunged' \in {"no", "kept", "consumed"}
  BY DEF TransferInv, TypeOK
<1>3. SourceLeft'
  BY DEF TransferInv, SourceLeft
<1>4. \A i \in DOMAIN journal :
        journal[i].kind = "move" /\ journal[i].state \in {"succeeded", "consumed"} => ~source
  BY DEF TransferInv, RowInv
<1>5. \A i \in DOMAIN journal : SameClaim(journal[i], journal'[i])
  BY DEF SameClaim
<1> QED BY <1>1, <1>2, <1>3, <1>4, <1>5, StateStored

LEMMA ReadKept == ASSUME TransferInv, NEW c \in Callers, ReadTransfer(c) PROVE TransferInv'
<1> DEFINE k == [call[c] EXCEPT !.seen = Snapshot(RowOf(c))]
           where == IF RowOf(c).state = "gone" THEN "idle"
                    ELSE AfterRead(RowOf(c), call[c].kind, call[c].dest)
<1>1. call[c].pc = "read" /\ GoWith(c, where, k) /\ UNCHANGED <<journal, serverVars, mirrorVars, envVars>>
  BY DEF ReadTransfer, Working
<1>2. /\ call \in [Callers -> Calls] /\ call[c] \in Calls /\ RowOf(c) \in Rows
      /\ OnRow(c) /\ RowInv(call[c].id) /\ RowOf(c) = journal[call[c].id]
  BY <1>1, CallerWorks
<1>3. k \in Calls /\ k.seen = Snapshot(RowOf(c)) /\ k.kind = call[c].kind /\ k.dest = call[c].dest /\ k.id = call[c].id
      /\ k.at = call[c].at /\ k.uid = call[c].uid
  BY <1>2, SnapshotType DEF Calls, Snapshots
<1>4. /\ where \in {"idle", "complete", "resolve", "boundary", "claim", "check"}
      /\ where = "complete" => call[c].kind = "move" /\ RowOf(c).state \in {"succeeded", "consumed"}
      /\ where = "check" => RowOf(c).dispatched /\ CanReconcile(RowOf(c))
      /\ where = "resolve" => call[c].kind = "copy"
      /\ where \in {"claim", "check"} /\ call[c].kind = "copy" => RowOf(c).boundary # None
  BY <1>2 DEF AfterRead, Undecided, Calls, Kinds
<1> HIDE DEF where, k
<1>5. /\ call' \in [Callers -> Calls] /\ call'[c].pc = where
      /\ \A d \in Callers : d # c => call'[d] = call[d]
      /\ where # "idle" =>
            /\ call'[c].kind = call[c].kind /\ call'[c].dest = call[c].dest /\ call'[c].id = call[c].id
            /\ call'[c].seen = Snapshot(RowOf(c)) /\ call'[c].at = call[c].at
  <2>1. where \in Pcs
    BY <1>4 DEF Pcs
  <2> QED BY <1>1, <1>2, <1>3, <2>1, CallerGoes
<1>6. ASSUME call'[c].pc # "idle" PROVE CallerInv(c)' /\ ~Claimed(c)'
  <2>1. RowOf(c)' = RowOf(c) /\ (DOMAIN journal)' = DOMAIN journal
    BY <1>1, <1>5, <1>6 DEF RowOf
  <2>2. OnRow(c)'
    BY <1>1, <1>2, <1>4, <1>5, <1>6, <2>1 DEF OnRow, Snapshot, Rows
  <2>3. ClaimOf(c)' /\ ~Claimed(c)'
    BY <1>4, <1>5, <1>6 DEF ClaimOf, Claimed
  <2>4. CheckOf(c)'
    BY <1>1, <1>4, <1>5, <1>6, <2>1 DEF CheckOf, CanReconcile, envVars
  <2>5. BoundaryOf(c)'
    BY <1>4, <1>5, <1>6, <2>1 DEF BoundaryOf, Snapshot
  <2>6. SourceOf(c)'
    BY <1>1, <1>2, <1>4, <1>5, <1>6, <2>1 DEF SourceOf, RowInv, OnRow, serverVars
  <2> QED BY <2>2, <2>3, <2>4, <2>5, <2>6 DEF CallerInv
<1>7. UNCHANGED <<journal, source, gen, copies, uidNext, local, arrived, expunged, epoch>> /\ faults' \in 0..MaxFaults
  BY <1>1 DEF serverVars, mirrorVars, envVars, TransferInv, TypeOK
<1> QED BY <1>5, <1>6, <1>7, CallerOnly

\* The places a caller may go to while the journal and the server stand still.
MayGo(c, where, u) ==
    /\ where \in {"setBoundary", "reopen", "succeed", "settle", "store", "retire", "idle"}
    /\ where = "setBoundary" => call[c].pc = "boundary" /\ u # None /\ NotAfter(u, call[c].dest)
    /\ where = "reopen" =>
        /\ call[c].pc = "check"
        /\ RowOf(c).state = "pending" /\ RowOf(c).attempt = call[c].seen.attempt => Untransferred(call[c].id)
    /\ where = "succeed" => call[c].pc \in {"check", "resolve"} /\ (call[c].kind = "move" => ~source)
    /\ where = "settle" => call[c].pc = "succeed" /\ call[c].at > 0

LEMMA CallerGoesOn ==
    ASSUME TransferInv, NEW c \in Callers, call[c].pc # "idle", NEW where, NEW k \in Calls,
           UNCHANGED <<journal, serverVars, mirrorVars, epoch>>, faults' \in 0..MaxFaults,
           GoWith(c, where, k), MayGo(c, where, k.uid),
           k.kind = call[c].kind, k.dest = call[c].dest, k.id = call[c].id,
           k.seen = call[c].seen, k.at = call[c].at
    PROVE  TransferInv'
<1>1. /\ call \in [Callers -> Calls] /\ call[c] \in Calls /\ RowOf(c) \in Rows
      /\ OnRow(c) /\ ClaimOf(c) /\ CheckOf(c) /\ BoundaryOf(c)
  BY CallerWorks
<1>2. where \in Pcs
  BY DEF MayGo, Pcs
<1>3. /\ call' \in [Callers -> Calls] /\ call'[c].pc = where
      /\ \A d \in Callers : d # c => call'[d] = call[d]
      /\ where # "idle" =>
            /\ call'[c].kind = call[c].kind /\ call'[c].dest = call[c].dest /\ call'[c].id = call[c].id
            /\ call'[c].seen = call[c].seen /\ call'[c].at = call[c].at /\ call'[c].uid = k.uid
  BY <1>1, <1>2, CallerGoes
<1>4. ASSUME where # "idle" PROVE CallerInv(c)' /\ (Claimed(c)' => Claimed(c))
  <2>1. RowOf(c)' = RowOf(c) /\ (DOMAIN journal)' = DOMAIN journal
    BY <1>3, <1>4 DEF RowOf
  <2>2. OnRow(c)'
    BY <1>1, <1>3, <1>4, <2>1 DEF OnRow, MayGo, Calls
  <2>3. Claimed(c)' => Claimed(c)
    BY <1>1, <1>3, <1>4 DEF OnRow, Claimed, MayGo
  <2>4. ClaimOf(c)'
    BY <1>1, <1>3, <1>4, <2>1, <2>3 DEF ClaimOf, MayGo, envVars
  <2>5. CheckOf(c)'
    BY <1>1, <1>3, <1>4, <2>1 DEF CheckOf, CanReconcile, MayGo, serverVars, Untransferred
  <2>6. BoundaryOf(c)'
    BY <1>1, <1>3, <1>4, <2>1 DEF BoundaryOf, MayGo, NotAfter, serverVars
  <2>7. SourceOf(c)'
    BY <1>1, <1>3, <1>4 DEF SourceOf, MayGo, serverVars
  <2> QED BY <2>2, <2>3, <2>4, <2>5, <2>6, <2>7 DEF CallerInv
<1> QED BY <1>3, <1>4, CallerOnly DEF serverVars, mirrorVars

LEMMA SameFaults == TransferInv /\ UNCHANGED faults => faults' \in 0..MaxFaults
BY DEF TransferInv, TypeOK

LEMMA BoundarySnapshotKept ==
    ASSUME TransferInv, NEW c \in Callers, SnapshotMailboxAppendBoundary(c) PROVE TransferInv'
<1> DEFINE k == [call[c] EXCEPT !.uid = NextUid(c)]
<1>1. call[c].pc = "boundary" /\ GoWith(c, "setBoundary", k) /\ UNCHANGED <<journal, serverVars, mirrorVars, envVars>>
  BY DEF SnapshotMailboxAppendBoundary, Working
<1>2. call[c] \in Calls
  BY <1>1, CallerWorks
<1>3. NextUid(c) \in Uids /\ NextUid(c) # None /\ NotAfter(NextUid(c), call[c].dest)
  <2>1. gen[call[c].dest] \in 1..2 /\ uidNext[call[c].dest] \in 1..(MaxUid + 1)
    BY <1>2 DEF TransferInv, TypeOK, Calls
  <2> QED BY <2>1 DEF NextUid, Uids, None, NotAfter
<1>4. /\ k \in Calls /\ k.uid = NextUid(c) /\ k.kind = call[c].kind /\ k.dest = call[c].dest
      /\ k.id = call[c].id /\ k.seen = call[c].seen /\ k.at = call[c].at
  BY <1>2, <1>3 DEF Calls
<1>5. MayGo(c, "setBoundary", k.uid)
  BY <1>1, <1>3, <1>4 DEF MayGo
<1> HIDE DEF k
<1> QED BY <1>1, <1>4, <1>5, CallerGoesOn, SameFaults DEF envVars

LEMMA CheckMoveKept == ASSUME TransferInv, NEW c \in Callers, CheckMove(c) PROVE TransferInv'
<1> DEFINE where == IF gen[Source] /= 1 THEN "idle" ELSE IF source THEN "reopen" ELSE "succeed"
<1>1. /\ call[c].pc = "check" /\ call[c].kind = "move" /\ GoWith(c, where, call[c])
      /\ UNCHANGED <<journal, serverVars, mirrorVars, envVars>>
  BY DEF CheckMove, Working, Go
<1>2. call[c] \in Calls /\ OnRow(c) /\ RowOf(c) = journal[call[c].id]
  BY <1>1, CallerWorks
<1>3. source => Untransferred(call[c].id)
  BY <1>1, <1>2 DEF TransferInv, CopyInv, Untransferred, OnRow, TypeOK, Calls
<1>4. MayGo(c, where, call[c].uid)
  BY <1>1, <1>3 DEF MayGo
<1> HIDE DEF where
<1> QED BY <1>1, <1>2, <1>4, CallerGoesOn, SameFaults DEF envVars

\* The copy that was found, with its UID.
LEMMA FoundCopy ==
    ASSUME TransferInv, NEW c \in Callers, call[c].pc # "idle", Single(c), NEW where, Found(c, where)
    PROVE  \E u \in Uids : GoWith(c, where, [call[c] EXCEPT !.uid = u, !.known = TRUE])
<1> DEFINE x == CHOOSE x \in Exact(c) : TRUE
<1>1. Exact(c) # {}
  BY FS_EmptySet DEF Single
<1>2. x \in copies
  BY <1>1 DEF Exact, Candidates
<1>3. [gen |-> gen[x.dest], uid |-> x.uid] \in Uids
  <2>1. x.dest \in Dests /\ x.uid \in 1..MaxUid /\ gen \in [Dests \cup {Source} -> 1..2]
    BY <1>2 DEF TransferInv, TypeOK
  <2>2. x.uid \in 1..(MaxUid + 1) /\ gen[x.dest] \in 1..2
    BY <2>1, TransfersAssumption
  <2> QED BY <2>2 DEF Uids
<1>4. GoWith(c, where, [call[c] EXCEPT !.uid = [gen |-> gen[x.dest], uid |-> x.uid], !.known = TRUE])
  BY DEF Found
<1> QED BY <1>3, <1>4

LEMMA CheckCopyKept == ASSUME TransferInv, NEW c \in Callers, CheckCopy(c) PROVE TransferInv'
<1>1. call[c].pc = "check" /\ call[c].kind = "copy" /\ UNCHANGED <<journal, serverVars, mirrorVars, envVars>>
  BY DEF CheckCopy, Working
<1>2. /\ call[c] \in Calls /\ OnRow(c) /\ BoundaryOf(c) /\ RowOf(c) = journal[call[c].id]
      /\ faults' \in 0..MaxFaults
  BY <1>1, CallerWorks, SameFaults DEF envVars
<1>3. CASE Single(c)
  <2>1. PICK u \in Uids : GoWith(c, "succeed", [call[c] EXCEPT !.uid = u, !.known = TRUE])
    BY <1>1, <1>3, FoundCopy DEF CheckCopy
  <2>2. MayGo(c, "succeed", u)
    BY <1>1 DEF MayGo
  <2> DEFINE k == [call[c] EXCEPT !.uid = u, !.known = TRUE]
  <2>3. /\ k \in Calls /\ k.kind = call[c].kind /\ k.dest = call[c].dest /\ k.id = call[c].id
        /\ k.seen = call[c].seen /\ k.at = call[c].at /\ k.uid = u
    BY <1>2 DEF Calls
  <2> HIDE DEF k
  <2>4. GoWith(c, "succeed", k)
    BY <2>1 DEF k
  <2> QED BY <1>1, <1>2, <2>2, <2>3, <2>4, CallerGoesOn DEF envVars
<1>4. CASE ~Single(c)
  <2> DEFINE where == IF ProvedAbsent(c) THEN "reopen" ELSE "idle"
  <2>1. GoWith(c, where, call[c])
    BY <1>4 DEF CheckCopy, Go
  <2>2. ProvedAbsent(c) => Untransferred(call[c].id)
    <3> SUFFICES ASSUME ProvedAbsent(c), NEW x \in copies, x.row = call[c].id PROVE FALSE
      BY DEF Untransferred
    <3>1. x.row # 0 /\ CopyInv(x) /\ journal[x.row].kind = "copy"
      BY <1>1, <1>2 DEF TransferInv, OnRow, Calls
    <3>2. x.dest = call[c].dest /\ journal[x.row].boundary = call[c].seen.boundary
      BY <1>1, <1>2, <3>1 DEF CopyInv, OnRow, BoundaryOf
    <3>3. call[c].seen.boundary.uid <= x.uid
      BY <3>1, <3>2 DEF CopyInv, ProvedAbsent, SameGeneration
    <3>4. x.uid \in Int /\ call[c].seen.boundary.uid \in Int
      BY <1>2 DEF TransferInv, TypeOK, Calls, Uids, None
    <3>5. x \in PostBoundary(c, Candidates(c))
      BY <3>2, <3>3, <3>4 DEF PostBoundary, Candidates
    <3> QED BY <3>5 DEF ProvedAbsent
  <2>3. MayGo(c, where, call[c].uid)
    BY <1>1, <2>2 DEF MayGo
  <2> HIDE DEF where
  <2> QED BY <1>1, <1>2, <2>1, <2>3, CallerGoesOn DEF envVars
<1> QED BY <1>3, <1>4

LEMMA ResolveKept == ASSUME TransferInv, NEW c \in Callers, ResolveSucceededCopyDestination(c) PROVE TransferInv'
<1>1. call[c].pc = "resolve" /\ UNCHANGED <<journal, serverVars, mirrorVars, envVars>>
  BY DEF ResolveSucceededCopyDestination, Working
<1>2. call[c] \in Calls /\ faults' \in 0..MaxFaults /\ call[c].seen.uid \in Uids /\ call[c].kind # "move"
  BY <1>1, CallerWorks, SameFaults DEF envVars, Calls, OnRow
<1>3. ASSUME NEW u \in Uids, NEW where \in {"store", "succeed"},
             GoWith(c, where, [call[c] EXCEPT !.uid = u, !.known = TRUE])
      PROVE  TransferInv'
  <2> DEFINE k == [call[c] EXCEPT !.uid = u, !.known = TRUE]
  <2>1. MayGo(c, where, u)
    BY <1>1, <1>2, <1>3 DEF MayGo
  <2>2. /\ k \in Calls /\ k.kind = call[c].kind /\ k.dest = call[c].dest /\ k.id = call[c].id
        /\ k.seen = call[c].seen /\ k.at = call[c].at /\ k.uid = u
    BY <1>2 DEF Calls
  <2> HIDE DEF k
  <2>3. GoWith(c, where, k)
    BY <1>3 DEF k
  <2> QED BY <1>1, <1>2, <2>1, <2>2, <2>3, CallerGoesOn DEF envVars
<1>4. CASE GoWith(c, "idle", call[c])
  <2>1. MayGo(c, "idle", call[c].uid)
    BY DEF MayGo
  <2> QED BY <1>1, <1>2, <1>4, <2>1, CallerGoesOn DEF envVars
<1>5. CASE call[c].seen.uid = None /\ Single(c) /\ Found(c, "succeed")
  <2>1. PICK u \in Uids : GoWith(c, "succeed", [call[c] EXCEPT !.uid = u, !.known = TRUE])
    BY <1>1, <1>5, FoundCopy
  <2> QED BY <1>1, <1>3, <2>1
<1> QED BY <1>2, <1>3, <1>4, <1>5 DEF ResolveSucceededCopyDestination, Go

LEMMA StoreCopiedKept == ASSUME TransferInv, NEW c \in Callers, StoreCopiedMessage(c) PROVE TransferInv'
<1>1. call[c].pc = "store" /\ UNCHANGED <<journal, serverVars, mirrorVars, envVars>>
  BY DEF StoreCopiedMessage, Working
<1>2. call[c] \in Calls /\ faults' \in 0..MaxFaults
  BY <1>1, CallerWorks, SameFaults DEF envVars
<1>3. PICK where \in {"retire", "idle"} : GoWith(c, where, call[c])
  BY DEF StoreCopiedMessage, Go
<1>4. MayGo(c, where, call[c].uid)
  BY <1>3 DEF MayGo
<1> QED BY <1>1, <1>2, <1>3, <1>4, CallerGoesOn DEF envVars

LEMMA AbortKept == ASSUME TransferInv, NEW c \in Callers, Abort(c) PROVE TransferInv'
<1>1. /\ call[c].pc # "idle" /\ GoWith(c, AfterMarkError(c), call[c])
      /\ UNCHANGED <<journal, serverVars, mirrorVars, epoch>>
  BY DEF Abort, Go
<1>2. call[c] \in Calls /\ faults' \in 0..MaxFaults
  BY <1>1, CallerWorks, TransfersAssumption DEF Abort, Disturb, TransferInv, TypeOK
<1>3. MayGo(c, AfterMarkError(c), call[c].uid)
  BY DEF MayGo, AfterMarkError
<1> QED BY <1>1, <1>2, <1>3, CallerGoesOn

LEMMA CancelKept == ASSUME TransferInv, NEW c \in Callers, Cancel(c) PROVE TransferInv'
<1> DEFINE k == [call[c] EXCEPT !.canceled = TRUE]
<1>1. /\ call[c].pc # "idle" /\ call' = [call EXCEPT ![c] = k]
      /\ UNCHANGED <<journal, serverVars, mirrorVars, epoch>> /\ faults' \in 0..MaxFaults
  BY TransfersAssumption DEF Cancel, Disturb, TransferInv, TypeOK
<1>2. /\ call \in [Callers -> Calls] /\ call[c] \in Calls
      /\ OnRow(c) /\ ClaimOf(c) /\ CheckOf(c) /\ BoundaryOf(c) /\ SourceOf(c)
  BY <1>1, CallerWorks
<1>3. /\ k \in Calls /\ k.pc = call[c].pc /\ k.kind = call[c].kind /\ k.dest = call[c].dest /\ k.id = call[c].id
      /\ k.seen = call[c].seen /\ k.at = call[c].at /\ k.uid = call[c].uid
  BY <1>2 DEF Calls
<1> HIDE DEF k
<1>4. call' \in [Callers -> Calls] /\ call'[c] = k /\ \A d \in Callers : d # c => call'[d] = call[d]
  BY <1>1, <1>2, <1>3
<1>5. RowOf(c)' = RowOf(c) /\ (DOMAIN journal)' = DOMAIN journal
  BY <1>1, <1>3, <1>4 DEF RowOf
<1>6. OnRow(c)' /\ BoundaryOf(c)' /\ SourceOf(c)' /\ (Claimed(c)' <=> Claimed(c))
  BY <1>1, <1>2, <1>3, <1>4, <1>5 DEF OnRow, BoundaryOf, SourceOf, Claimed, NotAfter, serverVars
<1>7. ClaimOf(c)'
  BY <1>1, <1>2, <1>3, <1>4, <1>5, <1>6 DEF ClaimOf, Untransferred, serverVars
<1>8. CheckOf(c)'
  BY <1>1, <1>2, <1>3, <1>4, <1>5 DEF CheckOf, CanReconcile, Untransferred, serverVars
<1>9. CallerInv(c)' /\ (Claimed(c)' => Claimed(c) /\ call'[c].id = call[c].id)
  BY <1>3, <1>4, <1>6, <1>7, <1>8 DEF CallerInv
<1> QED BY <1>1, <1>4, <1>9, CallerOnly DEF serverVars, mirrorVars

-----------------------------------------------------------------------------
(* The outcome of a row, and what the caller does next *)

\* The state of row i becomes that of r; the callers are where they may be.
LEMMA OutcomeStored ==
    ASSUME TransferInv, UNCHANGED <<serverVars, epoch>>, faults' \in 0..MaxFaults,
           NEW i \in DOMAIN journal, NEW r \in Rows, SetRow(i, r), SameClaim(journal[i], r),
           r.state = "pending" => journal[i].state = "pending",
           r.state = "failed" /\ journal[i].state # "failed" =>
                Untransferred(i) /\ \A d \in Callers : Claimed(d)' => call'[d].id # i,
           r.kind = "move" /\ r.state \in {"succeeded", "consumed"} => ~source,
           local' \in BOOLEAN, arrived' \subseteq Uids, expunged' \in {"no", "kept", "consumed"},
           SourceLeft',
           call' \in [Callers -> Calls], \A d \in Callers : Onward(d)
    PROVE  TransferInv'
<1>1. /\ journal' \in Seq(Rows) /\ Len(journal') = Len(journal) /\ DOMAIN journal' = DOMAIN journal
      /\ journal'[i] = r /\ \A j \in DOMAIN journal : j # i => journal'[j] = journal[j]
  BY RowStored DEF TransferInv, TypeOK
<1>2. \A j \in DOMAIN journal : SameClaim(journal[j], journal'[j])
  BY <1>1 DEF SameClaim
<1>3. \A j \in DOMAIN journal : journal'[j].state = "pending" => journal[j].state = "pending"
  BY <1>1
<1>4. \A j \in DOMAIN journal : journal'[j].state = "failed" /\ journal[j].state # "failed" =>
        Untransferred(j) /\ \A d \in Callers : Claimed(d)' => call'[d].id # j
  BY <1>1
<1>5. \A j \in DOMAIN journal :
        journal'[j].kind = "move" /\ journal'[j].state \in {"succeeded", "consumed"} => ~source
  BY <1>1 DEF TransferInv, RowInv
<1> QED BY <1>1, <1>2, <1>3, <1>4, <1>5, StateStored DEF serverVars

\* The same without a change of the journal.
LEMMA MirrorChanged ==
    ASSUME TransferInv, UNCHANGED <<journal, serverVars, epoch>>, faults' \in 0..MaxFaults,
           local' \in BOOLEAN, arrived' \subseteq Uids, expunged' \in {"no", "kept", "consumed"},
           SourceLeft',
           call' \in [Callers -> Calls], \A d \in Callers : Onward(d)
    PROVE  TransferInv'
<1>1. journal \in Seq(Rows)
  BY DEF TransferInv, TypeOK
<1>2. \A i \in DOMAIN journal :
        journal[i].kind = "move" /\ journal[i].state \in {"succeeded", "consumed"} => ~source
  BY DEF TransferInv, RowInv
<1>3. \A i \in DOMAIN journal : SameClaim(journal[i], journal'[i])
  BY DEF SameClaim
<1> QED BY <1>1, <1>2, <1>3, StateStored DEF serverVars

\* A caller that has no claim any more goes on with its row as it is or as its
\* outcome was stored.
LEMMA CallerGoesAfter ==
    ASSUME TransferInv, NEW c \in Callers, call[c].pc # "idle", UNCHANGED serverVars,
           \A i \in DOMAIN journal : SameClaim(journal[i], journal'[i]), DOMAIN journal' = DOMAIN journal,
           NEW where \in {"idle", "store", "complete", "delete"}, Go(c, where),
           where \in {"complete", "delete"} => ~source
    PROVE  /\ call' \in [Callers -> Calls] /\ \A d \in Callers : Onward(d)
           /\ ~Claimed(c)' /\ \A d \in Callers : d # c => call'[d] = call[d]
<1>1. call \in [Callers -> Calls] /\ call[c] \in Calls /\ OnRow(c)
  BY CallerWorks
<1>2. where \in Pcs /\ GoWith(c, where, call[c])
  BY DEF Pcs, Go
<1>3. /\ call' \in [Callers -> Calls] /\ call'[c].pc = where
      /\ \A d \in Callers : d # c => call'[d] = call[d]
      /\ where # "idle" =>
            /\ call'[c].kind = call[c].kind /\ call'[c].dest = call[c].dest /\ call'[c].id = call[c].id
            /\ call'[c].seen = call[c].seen /\ call'[c].at = call[c].at
  BY <1>1, <1>2, CallerGoes
<1>4. ~Claimed(c)'
  BY <1>3 DEF Claimed
<1>5. CallerInv(c)'
  <2>1. CASE where = "idle"
    BY <1>3, <2>1 DEF CallerInv
  <2>2. CASE where # "idle"
    <3>1. SameClaim(RowOf(c), RowOf(c)')
      BY <1>1, <1>3, <2>2 DEF RowOf, OnRow
    <3>2. OnRow(c)'
      BY <1>1, <1>3, <2>2, <3>1 DEF OnRow, SameClaim
    <3>3. ClaimOf(c)' /\ CheckOf(c)' /\ BoundaryOf(c)'
      BY <1>3, <1>4 DEF ClaimOf, CheckOf, BoundaryOf
    <3>4. SourceOf(c)'
      BY <1>3 DEF SourceOf, serverVars
    <3> QED BY <3>2, <3>3, <3>4 DEF CallerInv
  <2> QED BY <2>1, <2>2
<1> QED BY <1>3, <1>4, <1>5 DEF Onward

LEMMA MirrorTypes ==
    TransferInv => local \in BOOLEAN /\ arrived \subseteq Uids /\ expunged \in {"no", "kept", "consumed"}
BY DEF TransferInv, TypeOK

LEMMA CallersStay ==
    TransferInv /\ UNCHANGED call => call' \in [Callers -> Calls] /\ \A d \in Callers : Onward(d)
BY DEF TransferInv, TypeOK, Onward

\* Changing the state of a row, and possibly its UID.
LEMMA StateChanged ==
    ASSUME NEW r \in Rows, NEW u \in Uids, NEW st \in {"pending", "succeeded", "consumed", "failed", "gone"}
    PROVE  /\ [r EXCEPT !.state = st] \in Rows /\ [r EXCEPT !.state = st].state = st
           /\ SameClaim(r, [r EXCEPT !.state = st])
           /\ [r EXCEPT !.state = st, !.uid = u] \in Rows /\ [r EXCEPT !.state = st, !.uid = u].state = st
           /\ SameClaim(r, [r EXCEPT !.state = st, !.uid = u])
BY DEF Rows, SameClaim

LEMMA MarkSucceededKept == ASSUME TransferInv, NEW c \in Callers, MarkMessageTransferSucceeded(c) PROVE TransferInv'
<1>1. call[c].pc \in {"succeed", "applied"} /\ UNCHANGED <<serverVars, mirrorVars, envVars>>
  BY DEF MarkMessageTransferSucceeded, Working
<1>2. /\ call[c] \in Calls /\ OnRow(c) /\ SourceOf(c) /\ call[c].id \in DOMAIN journal
      /\ RowOf(c) \in Rows /\ RowOf(c) = journal[call[c].id]
      /\ faults' \in 0..MaxFaults
  BY <1>1, CallerWorks, SameFaults DEF envVars
<1>3. CASE ~Open(RowOf(c))
  <2>1. UNCHANGED journal /\ GoWith(c, AfterMarkError(c), call[c])
    BY <1>3 DEF MarkMessageTransferSucceeded, Go
  <2>2. MayGo(c, AfterMarkError(c), call[c].uid)
    BY DEF MayGo, AfterMarkError
  <2> QED BY <1>1, <1>2, <2>1, <2>2, CallerGoesOn DEF envVars
<1>4. CASE Open(RowOf(c))
  <2> DEFINE sure == call[c].known /\ call[c].pc = "succeed"
             r == Succeeded(RowOf(c), call[c].uid, sure)
             where == IF call[c].pc = "applied" THEN "idle"
                      ELSE IF call[c].kind = "move" THEN "complete" ELSE "store"
  <2>1. SetRow(call[c].id, r) /\ Go(c, where)
    BY <1>4 DEF MarkMessageTransferSucceeded
  <2>2. r \in Rows /\ SameClaim(RowOf(c), r) /\ r.state \in {"succeeded", "consumed"}
    <3> DEFINE st == IF RowOf(c).state = "consumed" THEN "consumed" ELSE "succeeded"
               u == IF sure THEN call[c].uid ELSE RowOf(c).uid
    <3>1. r = [RowOf(c) EXCEPT !.state = st, !.uid = u]
      BY DEF Succeeded
    <3>2. u \in Uids
      BY <1>2 DEF Calls, Rows
    <3>3. st \in {"succeeded", "consumed"}
      OBVIOUS
    <3> HIDE DEF u, r, st
    <3>4. RowOf(c) \in Rows
      BY <1>2
    <3>5. st \in {"pending", "succeeded", "consumed", "failed", "gone"}
      BY <3>3
    <3>6. r \in Rows /\ r.state = st /\ SameClaim(RowOf(c), r)
      BY <3>1, <3>2, <3>4, <3>5 DEF Rows, SameClaim
    <3> QED BY <3>3, <3>6
  <2>3. call[c].kind = "move" => ~source
    BY <1>1, <1>2 DEF SourceOf, OnRow
  <2>4. where \in {"idle", "store", "complete"} /\ (where = "complete" => ~source)
    BY <2>3
  <2>5. r.kind = "move" => ~source
    BY <1>2, <2>2, <2>3 DEF OnRow, SameClaim
  <2> HIDE DEF r, where
  <2>6. /\ DOMAIN journal' = DOMAIN journal /\ \A i \in DOMAIN journal : SameClaim(journal[i], journal'[i])
    <3>1. /\ DOMAIN journal' = DOMAIN journal /\ journal'[call[c].id] = r
          /\ \A j \in DOMAIN journal : j # call[c].id => journal'[j] = journal[j]
      BY <1>2, <2>1, <2>2, RowStored DEF TransferInv, TypeOK
    <3> QED BY <1>2, <2>2, <3>1 DEF SameClaim
  <2>7. call' \in [Callers -> Calls] /\ \A d \in Callers : Onward(d)
    BY <1>1, <2>1, <2>4, <2>6, CallerGoesAfter
  <2>8. SourceLeft'
    BY <1>1 DEF TransferInv, SourceLeft, serverVars, mirrorVars
  <2>9. local' \in BOOLEAN /\ arrived' \subseteq Uids /\ expunged' \in {"no", "kept", "consumed"}
    BY <1>1, MirrorTypes DEF mirrorVars
  <2>10. r.state # "pending" /\ r.state # "failed"
    BY <2>2
  <2> QED BY <1>1, <1>2, <2>1, <2>2, <2>5, <2>7, <2>8, <2>9, <2>10, OutcomeStored DEF envVars
<1> QED BY <1>3, <1>4

LEMMA MarkFailedKept == ASSUME TransferInv, NEW c \in Callers, MarkMessageTransferFailed(c) PROVE TransferInv'
<1> DEFINE r == Failed(RowOf(c))
<1>1. /\ call[c].pc = "fail" /\ SetRow(call[c].id, r) /\ Go(c, "idle")
      /\ UNCHANGED <<serverVars, mirrorVars, envVars>>
  BY DEF MarkMessageTransferFailed, Working
<1>2. /\ call[c] \in Calls /\ ClaimOf(c) /\ call[c].id \in DOMAIN journal
      /\ RowOf(c) \in Rows /\ RowOf(c) = journal[call[c].id] /\ RowInv(call[c].id)
      /\ faults' \in 0..MaxFaults
  BY <1>1, CallerWorks, SameFaults DEF envVars
<1>3. /\ r \in Rows /\ SameClaim(RowOf(c), r) /\ r.state # "pending"
      /\ r.state \in {"succeeded", "consumed"} => RowOf(c).state = r.state
  <2>1. [RowOf(c) EXCEPT !.state = "failed"] \in Rows /\ SameClaim(RowOf(c), [RowOf(c) EXCEPT !.state = "failed"])
        /\ [RowOf(c) EXCEPT !.state = "failed"].state = "failed"
    BY <1>2, NoneIsUid, StateChanged
  <2>2. SameClaim(RowOf(c), RowOf(c))
    BY DEF SameClaim
  <2> QED BY <1>2, <2>1, <2>2 DEF Failed
<1> HIDE DEF r
<1>4. /\ DOMAIN journal' = DOMAIN journal /\ \A i \in DOMAIN journal : SameClaim(journal[i], journal'[i])
  <2>1. /\ DOMAIN journal' = DOMAIN journal /\ journal'[call[c].id] = r
        /\ \A j \in DOMAIN journal : j # call[c].id => journal'[j] = journal[j]
    BY <1>1, <1>2, <1>3, RowStored DEF TransferInv, TypeOK
  <2> QED BY <1>2, <1>3, <2>1 DEF SameClaim
<1>5. /\ call' \in [Callers -> Calls] /\ \A d \in Callers : Onward(d)
      /\ ~Claimed(c)' /\ \A d \in Callers : d # c => call'[d] = call[d]
  BY <1>1, <1>4, CallerGoesAfter
<1>6. Untransferred(call[c].id) /\ \A d \in Callers : Claimed(d)' => call'[d].id # call[c].id
  <2>1. Untransferred(call[c].id) /\ Claimed(c)
    BY <1>1, <1>2 DEF ClaimOf, Claimed
  <2>2. \A d \in Callers : d # c /\ Claimed(d) => call[d].id # call[c].id
    BY <2>1 DEF TransferInv, ClaimsUnique
  <2> QED BY <1>5, <2>1, <2>2 DEF Claimed
<1>7. r.kind = "move" /\ r.state \in {"succeeded", "consumed"} => ~source
  BY <1>2, <1>3 DEF RowInv, SameClaim
<1>8. SourceLeft'
  BY <1>1 DEF TransferInv, SourceLeft, serverVars, mirrorVars
<1>9. local' \in BOOLEAN /\ arrived' \subseteq Uids /\ expunged' \in {"no", "kept", "consumed"}
  BY <1>1, MirrorTypes DEF mirrorVars
<1> QED BY <1>1, <1>2, <1>3, <1>5, <1>6, <1>7, <1>8, <1>9, OutcomeStored DEF envVars

\* A row that succeeded, or whose source is gone, is consumed.
LEMMA ConsumedRow ==
    ASSUME TransferInv, NEW i \in DOMAIN journal, Consume(i),
           ~source \/ journal[i].state \in {"succeeded", "consumed"}
    PROVE  \E r \in Rows :
             /\ SetRow(i, r) /\ SameClaim(journal[i], r) /\ r.state = "consumed"
             /\ r.kind = "move" => ~source
             /\ DOMAIN journal' = DOMAIN journal
             /\ \A j \in DOMAIN journal : SameClaim(journal[j], journal'[j])
<1> DEFINE r == [journal[i] EXCEPT !.state = "consumed"]
<1>1. journal \in Seq(Rows) /\ journal[i] \in Rows
  BY ElementOfSeq, LenProperties DEF TransferInv, TypeOK
<1>2. r \in Rows /\ SameClaim(journal[i], r) /\ r.state = "consumed"
  BY <1>1, NoneIsUid, StateChanged
<1>3. r.kind = "move" => ~source
  BY <1>2 DEF TransferInv, RowInv, SameClaim
<1>4. SetRow(i, r)
  BY DEF Consume
<1> HIDE DEF r
<1>5. /\ DOMAIN journal' = DOMAIN journal /\ journal'[i] = r
      /\ \A j \in DOMAIN journal : j # i => journal'[j] = journal[j]
  BY <1>1, <1>2, <1>4, RowStored
<1> QED BY <1>2, <1>3, <1>4, <1>5 DEF SameClaim

-----------------------------------------------------------------------------
(* The first and the last row of some *)

LEMMA LeastExists ==
    ASSUME NEW T \in SUBSET Nat, T # {}
    PROVE  \E n \in T : \A m \in T : n <= m
<1>1. IsWellFoundedOn(OpToRel(<, Nat), Nat)
  BY NatLessThanWellFounded
<1>2. PICK n \in T : \A m \in T : ~(<<m, n>> \in OpToRel(<, Nat))
  BY <1>1, WFMin
<1>3. ASSUME NEW m \in T PROVE n <= m
  <2>1. ~(m < n)
    BY <1>2 DEF OpToRel
  <2> QED BY <2>1
<1> QED BY <1>3

LEMMA MinIsMember == ASSUME NEW T \in SUBSET Nat, T # {} PROVE Min(T) \in T
BY LeastExists DEF Min

\* The greatest is the one with the least distance to the bound.
LEMMA MaxIsMember ==
    ASSUME NEW b \in Nat, NEW T \in SUBSET (1..b), T # {}
    PROVE  Max(T) \in T
<1> DEFINE U == {b - n : n \in T}
<1>1. U \in SUBSET Nat /\ U # {}
  <2>1. \A n \in T : b - n \in Nat
    OBVIOUS
  <2> QED BY <2>1
<1>2. PICK u \in U : \A v \in U : u <= v
  BY <1>1, LeastExists
<1>3. PICK n \in T : u = b - n
  BY <1>2
<1>4. ASSUME NEW m \in T PROVE n >= m
  <2>1. b - n <= b - m
    BY <1>2, <1>3
  <2> QED BY <2>1
<1> QED BY <1>4 DEF Max

LEMMA RowNumbers == TransferInv => Len(journal) \in Nat /\ DOMAIN journal = 1..Len(journal)
BY LenProperties DEF TransferInv, TypeOK

LEMMA FirstRow == ASSUME TransferInv, NEW T \in SUBSET (DOMAIN journal), T # {} PROVE Min(T) \in T
BY RowNumbers, MinIsMember

LEMMA LastRow == ASSUME TransferInv, NEW T \in SUBSET (DOMAIN journal), T # {} PROVE Max(T) \in T
BY RowNumbers, MaxIsMember

-----------------------------------------------------------------------------
(* Arrivals and the end of a transfer *)

\* What consuming at most one row does to the journal.
ConsumedOne ==
    /\ DOMAIN journal' = DOMAIN journal
    /\ \A j \in DOMAIN journal : SameClaim(journal[j], journal'[j])
    /\ \/ UNCHANGED journal
       \/ \E i \in DOMAIN journal, r \in Rows :
            /\ SetRow(i, r) /\ SameClaim(journal[i], r) /\ r.state = "consumed"
            /\ r.kind = "move" => ~source

LEMMA NothingConsumed == UNCHANGED journal => ConsumedOne
BY DEF ConsumedOne, SameClaim

LEMMA ConsumedKept ==
    ASSUME TransferInv, UNCHANGED <<serverVars, epoch>>, faults' \in 0..MaxFaults, ConsumedOne,
           local' \in BOOLEAN, arrived' \subseteq Uids, expunged' \in {"no", "kept", "consumed"},
           SourceLeft',
           call' \in [Callers -> Calls], \A d \in Callers : Onward(d)
    PROVE  TransferInv'
<1>1. CASE UNCHANGED journal
  BY <1>1, MirrorChanged
<1>2. ASSUME NEW i \in DOMAIN journal, NEW r \in Rows, SetRow(i, r), SameClaim(journal[i], r),
             r.state = "consumed", r.kind = "move" => ~source
      PROVE  TransferInv'
  BY <1>2, OutcomeStored
<1> QED BY <1>1, <1>2 DEF ConsumedOne

LEMMA ClassifyEffect ==
    ASSUME TransferInv, NEW u \in Uids, NEW alike \in BOOLEAN, Classify(u, alike)
    PROVE  /\ ConsumedOne
           /\ arrived' \subseteq Uids /\ expunged' \in {"no", "kept", "consumed"}
           /\ expunged' # "no" => expunged # "no"
<1> DEFINE rows == Matches(u, alike)
<1>1. rows \in SUBSET (DOMAIN journal) /\ \A i \in rows : journal[i].state = "succeeded"
  BY DEF Matches
<1>2. PendingMoves \in SUBSET (DOMAIN journal)
  BY DEF PendingMoves
<1>3. expunged # "no" => ~source
  BY DEF TransferInv, SourceLeft
<1>4. arrived \subseteq Uids /\ expunged \in {"no", "kept", "consumed"}
  BY MirrorTypes
<1>5. CASE /\ rows /= {} /\ Consume(Min(rows)) /\ arrived' = arrived \cup {u}
           /\ expunged' = IF journal[Min(rows)].kind = "move" /\ expunged = "kept"
                          THEN "consumed" ELSE expunged
  <2>1. Min(rows) \in rows
    BY <1>1, <1>5, FirstRow
  <2>2. ConsumedOne
    BY <1>1, <1>5, <2>1, ConsumedRow DEF ConsumedOne
  <2> QED BY <1>4, <1>5, <2>2
<1>6. CASE /\ rows = {} /\ alike /\ expunged = "kept" /\ expunged' = "consumed"
           /\ arrived' = arrived \cup {u}
           /\ IF PendingMoves = {} THEN UNCHANGED journal ELSE Consume(Min(PendingMoves))
  <2>1. ConsumedOne
    <3>1. CASE PendingMoves = {}
      BY <1>6, <3>1, NothingConsumed
    <3>2. CASE PendingMoves # {}
      <4>1. Min(PendingMoves) \in DOMAIN journal
        BY <1>2, <3>2, FirstRow
      <4> QED BY <1>3, <1>6, <3>2, <4>1, ConsumedRow DEF ConsumedOne
    <3> QED BY <3>1, <3>2
  <2> QED BY <1>4, <1>6, <2>1
<1>7. CASE /\ rows = {} /\ ~(alike /\ expunged = "kept")
           /\ arrived' \in {arrived, arrived \cup {u}} /\ UNCHANGED <<journal, expunged>>
  BY <1>4, <1>7, NothingConsumed
<1> QED BY <1>5, <1>6, <1>7 DEF Classify

LEMMA TerminalizeEffect ==
    ASSUME TransferInv, NEW c \in Callers, call[c].pc # "idle", NEW where, Terminalize(c, where)
    PROVE  ConsumedOne /\ (Go(c, "idle") \/ Go(c, where))
<1>1. call[c].id \in DOMAIN journal /\ RowOf(c) = journal[call[c].id]
  BY CallerWorks
<1>2. CASE RowOf(c).state \in {"succeeded", "consumed"} /\ Consume(call[c].id) /\ Go(c, where)
  BY <1>1, <1>2, ConsumedRow DEF ConsumedOne
<1>3. CASE Go(c, "idle") /\ UNCHANGED journal
  BY <1>3, NothingConsumed
<1> QED BY <1>2, <1>3 DEF Terminalize

LEMMA ClassifyArrivalKept == ASSUME TransferInv, ClassifyArrival PROVE TransferInv'
<1>1. UNCHANGED <<serverVars, local, call, envVars>>
  BY DEF ClassifyArrival
<1>2. PICK x \in copies, alike \in BOOLEAN : Classify([gen |-> gen[Inbox], uid |-> x.uid], alike)
  BY DEF ClassifyArrival
<1>3. [gen |-> gen[Inbox], uid |-> x.uid] \in Uids
  <2>1. x.uid \in 1..MaxUid /\ gen \in [Dests \cup {Source} -> 1..2] /\ Inbox \in Dests
    BY DEF TransferInv, TypeOK, Dests
  <2>2. x.uid \in 1..(MaxUid + 1) /\ gen[Inbox] \in 1..2
    BY <2>1, TransfersAssumption
  <2> QED BY <2>2 DEF Uids
<1>4. /\ ConsumedOne /\ arrived' \subseteq Uids /\ expunged' \in {"no", "kept", "consumed"}
      /\ expunged' # "no" => expunged # "no"
  BY <1>2, <1>3, ClassifyEffect
<1>5. SourceLeft' /\ local' \in BOOLEAN
  BY <1>1, <1>4, MirrorTypes DEF TransferInv, SourceLeft, serverVars
<1>6. call' \in [Callers -> Calls] /\ \A d \in Callers : Onward(d)
  BY <1>1, CallersStay
<1> QED BY <1>1, <1>4, <1>5, <1>6, ConsumedKept, SameFaults DEF envVars

LEMMA RetireCopyKept == ASSUME TransferInv, NEW c \in Callers, RetireCopy(c) PROVE TransferInv'
<1>1. call[c].pc = "retire" /\ UNCHANGED <<serverVars, local, envVars>>
  BY DEF RetireCopy, Working
<1>2. call[c].uid \in Uids
  BY <1>1, CallerWorks DEF Calls
<1>3. /\ ConsumedOne /\ arrived' \subseteq Uids /\ expunged' \in {"no", "kept", "consumed"}
      /\ expunged' # "no" => expunged # "no"
      /\ Go(c, "idle")
  <2>1. CASE Terminalize(c, "idle") /\ UNCHANGED <<arrived, expunged>>
    BY <1>1, <2>1, TerminalizeEffect, MirrorTypes
  <2>2. CASE Classify(call[c].uid, TRUE) /\ Go(c, "idle")
    BY <1>2, <2>2, ClassifyEffect
  <2>3. CASE Go(c, "idle") /\ UNCHANGED <<journal, arrived, expunged>>
    BY <2>3, MirrorTypes, NothingConsumed
  <2> QED BY <2>1, <2>2, <2>3 DEF RetireCopy
<1>4. call' \in [Callers -> Calls] /\ \A d \in Callers : Onward(d)
  BY <1>1, <1>3, CallerGoesAfter DEF ConsumedOne
<1>5. SourceLeft' /\ local' \in BOOLEAN
  BY <1>1, <1>3, MirrorTypes DEF TransferInv, SourceLeft, serverVars
<1> QED BY <1>1, <1>3, <1>4, <1>5, ConsumedKept, SameFaults DEF envVars

LEMMA CompleteMovedKept == ASSUME TransferInv, NEW c \in Callers, CompleteMovedMessage(c) PROVE TransferInv'
<1>1. call[c].pc = "complete" /\ UNCHANGED <<serverVars, mirrorVars, envVars>>
  BY DEF CompleteMovedMessage, Working
<1>2. ~source
  BY <1>1, CallerWorks DEF SourceOf
<1>3. ConsumedOne /\ (Go(c, "idle") \/ Go(c, "delete"))
  <2>1. CASE Terminalize(c, "delete")
    BY <1>1, <2>1, TerminalizeEffect
  <2>2. CASE Go(c, "delete") /\ UNCHANGED journal
    BY <2>2, NothingConsumed
  <2> QED BY <2>1, <2>2 DEF CompleteMovedMessage
<1>4. call' \in [Callers -> Calls] /\ \A d \in Callers : Onward(d)
  BY <1>1, <1>2, <1>3, CallerGoesAfter DEF ConsumedOne
<1>5. /\ SourceLeft' /\ local' \in BOOLEAN
      /\ arrived' \subseteq Uids /\ expunged' \in {"no", "kept", "consumed"}
  BY <1>1, MirrorTypes DEF TransferInv, SourceLeft, serverVars, mirrorVars
<1> QED BY <1>1, <1>3, <1>4, <1>5, ConsumedKept, SameFaults DEF envVars

LEMMA CleanupMovedKept == ASSUME TransferInv, NEW c \in Callers, CleanupMovedMessage(c) PROVE TransferInv'
<1>1. /\ call[c].pc = "delete" /\ Go(c, "idle") /\ local' = FALSE
      /\ UNCHANGED <<journal, serverVars, arrived, expunged, envVars>>
  BY DEF CleanupMovedMessage, Working
<1>2. ~source
  BY <1>1, CallerWorks DEF SourceOf
<1>3. ConsumedOne
  BY <1>1, NothingConsumed
<1>4. call' \in [Callers -> Calls] /\ \A d \in Callers : Onward(d)
  BY <1>1, <1>3, CallerGoesAfter DEF ConsumedOne
<1>5. SourceLeft' /\ local' \in BOOLEAN /\ arrived' \subseteq Uids /\ expunged' \in {"no", "kept", "consumed"}
  BY <1>1, <1>2, MirrorTypes DEF SourceLeft, serverVars
<1> QED BY <1>1, <1>3, <1>4, <1>5, ConsumedKept, SameFaults DEF envVars

-----------------------------------------------------------------------------
(* Synchronisation, and the age of a row *)

LEMMA RecordExpungedEffect ==
    ASSUME TransferInv, ~source, RecordExpunged
    PROVE  /\ expunged' \in {"no", "kept", "consumed"}
           /\ \/ UNCHANGED journal
              \/ \E i \in DOMAIN journal, r \in Rows :
                    /\ SetRow(i, r) /\ SameClaim(journal[i], r)
                    /\ r.state \notin {"pending", "failed"}
<1> DEFINE i == Max(Evidence)
           st == IF journal[i].state /= "pending" THEN journal[i].state
                 ELSE IF journal[i].dest = Inbox THEN "succeeded" ELSE "consumed"
           r == [journal[i] EXCEPT !.state = st]
<1>1. expunged \in {"no", "kept", "consumed"}
  BY MirrorTypes
<1>2. CASE Evidence = {}
  BY <1>1, <1>2 DEF RecordExpunged
<1>3. CASE Evidence # {}
  <2>1. /\ Evidence \in SUBSET (DOMAIN journal)
        /\ \A j \in Evidence : journal[j].state \in {"consumed", "succeeded", "pending"}
    BY DEF Evidence
  <2>2. i \in Evidence
    BY <1>3, <2>1, LastRow
  <2>3. journal[i] \in Rows
    BY <2>1, <2>2, ElementOfSeq, LenProperties DEF TransferInv, TypeOK
  <2>4. st \in {"succeeded", "consumed"}
    BY <2>1, <2>2
  <2>5. SetRow(i, r) /\ UNCHANGED expunged
    BY <1>3 DEF RecordExpunged
  <2> HIDE DEF i, st
  <2>6. r \in Rows /\ SameClaim(journal[i], r) /\ r.state = st
    BY <2>3, <2>4 DEF Rows, SameClaim
  <2> HIDE DEF r
  <2> QED BY <1>1, <2>1, <2>2, <2>4, <2>5, <2>6
<1> QED BY <1>2, <1>3

LEMMA SourceMissingKept ==
    ASSUME TransferInv, NEW removed \in BOOLEAN, SourceMissing(removed) PROVE TransferInv'
<1>1. /\ ~source /\ RecordExpunged /\ local' \in BOOLEAN
      /\ UNCHANGED <<serverVars, arrived, call, envVars>>
  BY DEF SourceMissing
<1>2. /\ expunged' \in {"no", "kept", "consumed"}
      /\ \/ UNCHANGED journal
         \/ \E i \in DOMAIN journal, r \in Rows :
               /\ SetRow(i, r) /\ SameClaim(journal[i], r)
               /\ r.state \notin {"pending", "failed"}
  BY <1>1, RecordExpungedEffect
<1>3. SourceLeft' /\ arrived' \subseteq Uids
  BY <1>1, MirrorTypes DEF SourceLeft, serverVars
<1>4. call' \in [Callers -> Calls] /\ (\A d \in Callers : Onward(d)) /\ faults' \in 0..MaxFaults
  BY <1>1, CallersStay, SameFaults DEF envVars
<1>5. UNCHANGED <<serverVars, epoch>>
  BY <1>1 DEF envVars
<1>6. CASE UNCHANGED journal
  BY <1>1, <1>2, <1>3, <1>4, <1>5, <1>6, MirrorChanged
<1>7. ASSUME NEW i \in DOMAIN journal, NEW r \in Rows, SetRow(i, r), SameClaim(journal[i], r),
             r.state \notin {"pending", "failed"}
      PROVE  TransferInv'
  BY <1>1, <1>2, <1>3, <1>4, <1>5, <1>7, OutcomeStored
<1> QED BY <1>2, <1>6, <1>7

LEMMA SourceResetKept == ASSUME TransferInv, SourceReset PROVE TransferInv'
<1>1. /\ gen[Source] > 1 /\ local' = FALSE
      /\ UNCHANGED <<journal, serverVars, arrived, expunged, call, envVars>>
  BY DEF SourceReset
<1>2. SourceLeft' /\ local' \in BOOLEAN /\ arrived' \subseteq Uids /\ expunged' \in {"no", "kept", "consumed"}
  BY <1>1, MirrorTypes DEF TransferInv, SourceLeft, serverVars
<1>3. call' \in [Callers -> Calls] /\ (\A d \in Callers : Onward(d)) /\ faults' \in 0..MaxFaults
  BY <1>1, CallersStay, SameFaults DEF envVars
<1> QED BY <1>1, <1>2, <1>3, MirrorChanged DEF envVars

LEMMA ExpireKept == ASSUME TransferInv, NEW i, Expire(i) PROVE TransferInv'
<1> DEFINE r == [journal[i] EXCEPT !.state = "gone"]
<1>1. /\ i \in DOMAIN journal /\ SetRow(i, r)
      /\ UNCHANGED <<serverVars, mirrorVars, call, envVars>>
  BY DEF Expire
<1>2. journal[i] \in Rows
  BY <1>1, ElementOfSeq, LenProperties DEF TransferInv, TypeOK
<1>3. r \in Rows /\ SameClaim(journal[i], r) /\ r.state = "gone"
  BY <1>2 DEF Rows, SameClaim
<1> HIDE DEF r
<1>4. SourceLeft' /\ local' \in BOOLEAN /\ arrived' \subseteq Uids /\ expunged' \in {"no", "kept", "consumed"}
  BY <1>1, MirrorTypes DEF TransferInv, SourceLeft, serverVars, mirrorVars
<1>5. call' \in [Callers -> Calls] /\ (\A d \in Callers : Onward(d)) /\ faults' \in 0..MaxFaults
  BY <1>1, CallersStay, SameFaults DEF envVars
<1> QED BY <1>1, <1>3, <1>4, <1>5, OutcomeStored DEF envVars

-----------------------------------------------------------------------------
(* What other clients and the server do *)

LEMMA ServerChanges ==
    ASSUME TransferInv, UNCHANGED <<journal, mirrorVars, epoch>>, faults' \in 0..MaxFaults,
           call' \in [Callers -> Calls], \A d \in Callers : Onward(d),
           source' \in BOOLEAN, source' => source,
           gen' \in [Dests \cup {Source} -> 1..2], gen'[Source] > 1 => ~source',
           uidNext' \in [Dests -> 1..(MaxUid + 1)],
           copies' \subseteq [dest : Dests, uid : 1..MaxUid, exact : BOOLEAN, row : 0..MaxRows],
           \A x \in copies' : x \in copies \/ x.row = 0,
           \A b \in Uids, d \in Dests : NotAfter(b, d) => NotAfter(b, d)',
           \A b \in Uids, d \in Dests : NotAfter(b, d) /\ b.gen = gen'[d] => b.gen = gen[d]
    PROVE  TransferInv'
<1>1. TypeOK'
  BY DEF TransferInv, TypeOK, mirrorVars
<1>2. \A i \in DOMAIN journal : journal[i] \in Rows
  BY ElementOfSeq, LenProperties DEF TransferInv, TypeOK
<1>3. \A i : Untransferred(i) /\ i # 0 => Untransferred(i)'
  BY DEF Untransferred
<1>4. 0 \notin DOMAIN journal
  BY RowNumbers
<1>5. ASSUME NEW c \in Callers PROVE CallerInv(c)'
  <2>1. CASE call'[c] = call[c] /\ call[c].pc # "idle"
    <3>1. /\ call[c] \in Calls /\ OnRow(c) /\ ClaimOf(c) /\ CheckOf(c) /\ BoundaryOf(c) /\ SourceOf(c)
          /\ call[c].id \in DOMAIN journal
      BY <2>1, CallerWorks
    <3>2. RowOf(c)' = RowOf(c)
      BY <2>1 DEF RowOf
    <3>3. OnRow(c)' /\ (Claimed(c)' => Claimed(c))
      BY <2>1, <3>1, <3>2 DEF OnRow, Claimed
    <3>4. Untransferred(call[c].id) => Untransferred(call[c].id)'
      BY <1>4, <2>1, <3>1 DEF Untransferred
    <3>5. ClaimOf(c)'
      BY <2>1, <3>1, <3>2, <3>3, <3>4 DEF ClaimOf
    <3>6. CheckOf(c)'
      BY <2>1, <3>1, <3>2, <3>4 DEF CheckOf, CanReconcile
    <3>7. call[c].uid \in Uids /\ call[c].dest \in Dests
      BY <3>1 DEF Calls
    <3>8. BoundaryOf(c)'
      BY <2>1, <3>1, <3>2, <3>7 DEF BoundaryOf
    <3>9. SourceOf(c)'
      BY <2>1, <3>1 DEF SourceOf
    <3> QED BY <3>3, <3>5, <3>6, <3>8, <3>9 DEF CallerInv
  <2>2. CASE call'[c] = call[c] /\ call[c].pc = "idle"
    BY <2>2 DEF CallerInv
  <2> QED BY <2>1, <2>2 DEF Onward
<1>6. ASSUME NEW i \in (DOMAIN journal)' PROVE RowInv(i)'
  <2>1. RowInv(i) /\ journal[i] \in Rows /\ i # 0
    BY <1>2, <1>4, <1>6 DEF TransferInv
  <2>2. journal[i].boundary \in Uids /\ journal[i].dest \in Dests
    BY <2>1 DEF Rows
  <2>3. Untransferred(i) => Untransferred(i)'
    BY <1>3, <2>1
  <2> QED BY <2>1, <2>2, <2>3 DEF RowInv
<1>7. ASSUME NEW x \in copies' PROVE CopyInv(x)'
  <2>1. CASE x.row = 0
    BY <2>1 DEF CopyInv
  <2>2. CASE x.row # 0
    <3>1. x \in copies /\ CopyInv(x) /\ x.row \in DOMAIN journal
      BY <2>2 DEF TransferInv, CopyInv
    <3>2. journal[x.row] \in Rows /\ RowInv(x.row)
      BY <1>2, <3>1 DEF TransferInv
    <3> DEFINE b == journal[x.row].boundary
    <3>3. ASSUME journal[x.row].kind = "copy", b.gen = gen'[x.dest]
          PROVE  b.uid <= x.uid
      <4>1. b # None /\ x.dest = journal[x.row].dest
        BY <2>2, <3>1, <3>3 DEF CopyInv
      <4>2. NotAfter(b, x.dest) /\ b \in Uids /\ x.dest \in Dests
        BY <3>2, <3>3, <4>1 DEF RowInv, Rows
      <4>3. b.gen = gen[x.dest]
        BY <3>3, <4>2
      <4> QED BY <2>2, <3>1, <3>3, <4>3 DEF CopyInv
    <3> QED BY <2>2, <3>1, <3>3 DEF CopyInv
  <2> QED BY <2>1, <2>2
<1>8. ClaimsUnique'
  <2>1. ASSUME NEW d \in Callers, Claimed(d)' PROVE Claimed(d) /\ call'[d].id = call[d].id
    BY <2>1 DEF Onward, Claimed
  <2> QED BY <2>1 DEF ClaimsUnique, TransferInv
<1>9. CopiesUnique'
  BY DEF CopiesUnique, TransferInv
<1>10. SourceLeft'
  BY DEF SourceLeft, TransferInv, mirrorVars
<1> QED BY <1>1, <1>5, <1>6, <1>7, <1>8, <1>9, <1>10 DEF TransferInv

LEMMA ServerTypes ==
    TransferInv =>
        /\ source \in BOOLEAN /\ gen \in [Dests \cup {Source} -> 1..2] /\ uidNext \in [Dests -> 1..(MaxUid + 1)]
        /\ copies \subseteq [dest : Dests, uid : 1..MaxUid, exact : BOOLEAN, row : 0..MaxRows]
        /\ gen[Source] > 1 => ~source
        /\ faults \in 0..MaxFaults
BY DEF TransferInv, TypeOK, SourceLeft

LEMMA DisturbBound == ASSUME TransferInv, NEW kind, Disturb(kind) PROVE faults' \in 0..MaxFaults
BY ServerTypes, TransfersAssumption DEF Disturb

LEMMA ClientDeletesKept == ASSUME TransferInv, ClientDeletes PROVE TransferInv'
<1>1. /\ UNCHANGED <<journal, gen, uidNext, mirrorVars, call, epoch>>
      /\ source' \in BOOLEAN /\ (source' => source) /\ copies' \subseteq copies
  <2>1. source \in BOOLEAN
    BY ServerTypes
  <2>2. CASE source /\ source' = FALSE /\ UNCHANGED copies
    BY <2>2 DEF ClientDeletes
  <2>3. CASE (\E x \in copies : copies' = copies \ {x}) /\ UNCHANGED source
    BY <2>1, <2>3 DEF ClientDeletes
  <2> QED BY <2>2, <2>3 DEF ClientDeletes
<1> faults' \in 0..MaxFaults
  BY DisturbBound DEF ClientDeletes
<1>2. \A b \in Uids, d \in Dests : NotAfter(b, d)' = NotAfter(b, d)
  BY <1>1 DEF NotAfter
<1>3. call' \in [Callers -> Calls] /\ \A d \in Callers : Onward(d)
  BY <1>1, CallersStay
<1> QED BY <1>1, <1>2, <1>3, ServerTypes, ServerChanges

LEMMA ClientCopiesKept == ASSUME TransferInv, NEW d \in Dests, ClientCopies(d) PROVE TransferInv'
<1>1. /\ UNCHANGED <<journal, source, gen, mirrorVars, call, epoch>> /\ faults' \in 0..MaxFaults
      /\ uidNext[d] <= MaxUid
      /\ copies' = copies \cup {[dest |-> d, uid |-> uidNext[d], exact |-> TRUE, row |-> 0]}
      /\ uidNext' = [uidNext EXCEPT ![d] = @ + 1]
  BY DisturbBound DEF ClientCopies
<1>2. /\ uidNext' \in [Dests -> 1..(MaxUid + 1)]
      /\ \A m \in Dests : uidNext[m] <= uidNext'[m]
  BY <1>1, ServerTypes, TransfersAssumption
<1>3. \A b \in Uids, m \in Dests : NotAfter(b, m) => NotAfter(b, m)'
  <2>1. ASSUME NEW b \in Uids, NEW m \in Dests, NotAfter(b, m) PROVE NotAfter(b, m)'
    <3>1. b.uid \in Int /\ uidNext[m] \in Int /\ uidNext'[m] \in Int
      BY <1>2, ServerTypes, TransfersAssumption DEF Uids, None
    <3> QED BY <1>1, <1>2, <2>1, <3>1 DEF NotAfter
  <2> QED BY <2>1
<1>4. call' \in [Callers -> Calls] /\ \A c \in Callers : Onward(c)
  BY <1>1, CallersStay
<1>5. copies' \subseteq [dest : Dests, uid : 1..MaxUid, exact : BOOLEAN, row : 0..MaxRows]
  <2>1. uidNext[d] \in 1..MaxUid /\ 0 \in 0..MaxRows
    BY <1>1, ServerTypes, TransfersAssumption
  <2> DEFINE x == [dest |-> d, uid |-> uidNext[d], exact |-> TRUE, row |-> 0]
  <2>2. x \in [dest : Dests, uid : 1..MaxUid, exact : BOOLEAN, row : 0..MaxRows]
    BY <2>1
  <2> HIDE DEF x
  <2>3. copies' = copies \cup {x}
    BY <1>1 DEF x
  <2> QED BY <2>2, <2>3, ServerTypes
<1>6. \A x \in copies' : x \in copies \/ x.row = 0
  BY <1>1
<1> QED BY <1>1, <1>2, <1>3, <1>4, <1>5, <1>6, ServerTypes, ServerChanges

LEMMA NewGenerationKept ==
    ASSUME TransferInv, NEW m \in Dests \cup {Source}, NewGeneration(m) PROVE TransferInv'
<1>1. /\ UNCHANGED <<journal, mirrorVars, call, epoch>> /\ faults' \in 0..MaxFaults
      /\ gen[m] = 1 /\ gen' = [gen EXCEPT ![m] = 2]
      /\ source' = (source /\ m /= Source)
      /\ copies' \subseteq copies
      /\ \/ UNCHANGED uidNext
         \/ uidNext' = [uidNext EXCEPT ![m] = 1]
  BY DisturbBound DEF NewGeneration
<1>2. /\ gen' \in [Dests \cup {Source} -> 1..2] /\ gen'[m] = 2
      /\ \A d \in Dests : d # m => gen'[d] = gen[d]
  BY <1>1, ServerTypes
<1>3. /\ uidNext' \in [Dests -> 1..(MaxUid + 1)]
      /\ \A d \in Dests : d # m => uidNext'[d] = uidNext[d]
  BY <1>1, ServerTypes, TransfersAssumption
<1>4. ASSUME NEW b \in Uids, NEW d \in Dests, NotAfter(b, d)
      PROVE  NotAfter(b, d)' /\ (b.gen = gen'[d] => b.gen = gen[d])
  <2>1. b.gen \in Int /\ gen[d] \in 1..2
    BY ServerTypes DEF Uids, None
  <2>2. CASE d = m
    BY <1>1, <1>2, <1>4, <2>1, <2>2 DEF NotAfter
  <2>3. CASE d # m
    BY <1>2, <1>3, <1>4, <2>3 DEF NotAfter
  <2> QED BY <2>2, <2>3
<1>5. call' \in [Callers -> Calls] /\ \A c \in Callers : Onward(c)
  BY <1>1, CallersStay
<1>6. source' \in BOOLEAN /\ (source' => source) /\ (gen'[Source] > 1 => ~source')
  BY <1>1, <1>2, ServerTypes
<1> QED BY <1>1, <1>2, <1>3, <1>4, <1>5, <1>6, ServerTypes, ServerChanges

-----------------------------------------------------------------------------
(* The claim and the remote command *)

\* A caller whose row is as it was, while the server stands still.
LEMMA OtherRow ==
    ASSUME TransferInv, UNCHANGED <<serverVars, epoch>>, NEW d \in Callers, call'[d] = call[d],
           call[d].pc # "idle" =>
              call[d].id \in DOMAIN journal' /\ journal'[call[d].id] = journal[call[d].id]
    PROVE  CallerInv(d)'
<1>1. CASE call[d].pc = "idle"
  BY <1>1 DEF CallerInv
<1>2. CASE call[d].pc # "idle"
  <2>1. OnRow(d) /\ ClaimOf(d) /\ CheckOf(d) /\ BoundaryOf(d) /\ SourceOf(d)
    BY <1>2, CallerWorks
  <2>2. RowOf(d)' = RowOf(d)
    BY <1>2 DEF RowOf
  <2>3. OnRow(d)'
    BY <1>2, <2>1, <2>2 DEF OnRow
  <2>4. ClaimOf(d)'
    BY <2>1, <2>2 DEF ClaimOf, Claimed, Untransferred, serverVars
  <2>5. CheckOf(d)'
    BY <2>1, <2>2 DEF CheckOf, CanReconcile, Untransferred, serverVars
  <2>6. BoundaryOf(d)' /\ SourceOf(d)'
    BY <2>1, <2>2 DEF BoundaryOf, SourceOf, NotAfter, serverVars
  <2> QED BY <2>3, <2>4, <2>5, <2>6 DEF CallerInv
<1> QED BY <1>1, <1>2

\* A step of caller c that changes the claim or the boundary of its row: what has
\* to be shown of the row and of the callers that work on it.
LEMMA ClaimStored ==
    ASSUME TransferInv, UNCHANGED <<serverVars, mirrorVars, envVars>>,
           NEW c \in Callers, NEW i \in DOMAIN journal, NEW r \in Rows, SetRow(i, r),
           r.kind = journal[i].kind, r.dest = journal[i].dest, r.state = journal[i].state,
           journal[i].boundary # None => r.boundary = journal[i].boundary,
           call' \in [Callers -> Calls], \A d \in Callers : d # c => call'[d] = call[d],
           CallerInv(c)', RowInv(i)',
           \A d \in Callers : d # c /\ call[d].pc # "idle" /\ call[d].id = i => CallerInv(d)',
           \A d \in Callers : d # c /\ Claimed(c)' /\ Claimed(d) => call[d].id # call'[c].id
    PROVE  TransferInv'
<1>1. /\ journal' \in Seq(Rows) /\ Len(journal') = Len(journal) /\ DOMAIN journal' = DOMAIN journal
      /\ journal'[i] = r /\ \A j \in DOMAIN journal : j # i => journal'[j] = journal[j]
  BY RowStored DEF TransferInv, TypeOK
<1>2. TypeOK'
  BY <1>1 DEF TransferInv, TypeOK, serverVars, mirrorVars, envVars
<1>3. ASSUME NEW d \in Callers PROVE CallerInv(d)'
  <2>1. CASE d = c
    BY <2>1
  <2>2. CASE d # c /\ call[d].pc # "idle" /\ call[d].id = i
    BY <2>2
  <2>3. CASE d # c /\ (call[d].pc = "idle" \/ call[d].id # i)
    <3>1. call[d].pc # "idle" => call[d].id \in DOMAIN journal
      BY CallerWorks
    <3> QED BY <1>1, <2>3, <3>1, OtherRow DEF envVars
  <2> QED BY <2>1, <2>2, <2>3
<1>4. ASSUME NEW j \in (DOMAIN journal)' PROVE RowInv(j)'
  <2>1. CASE j # i
    BY <1>1, <1>4, <2>1 DEF TransferInv, RowInv, Untransferred, NotAfter, serverVars, envVars
  <2> QED BY <2>1
<1>5. ASSUME NEW x \in copies' PROVE CopyInv(x)'
  BY <1>1, <1>5 DEF TransferInv, CopyInv, serverVars
<1>6. ClaimsUnique'
  <2>1. \A d \in Callers : d # c => (Claimed(d)' <=> Claimed(d))
    BY DEF Claimed
  <2>2. \A d, e \in Callers : Claimed(d) /\ Claimed(e) /\ call[d].id = call[e].id => d = e
    BY DEF TransferInv, ClaimsUnique
  <2> QED BY <2>1, <2>2 DEF ClaimsUnique
<1>7. CopiesUnique' /\ SourceLeft'
  BY DEF TransferInv, CopiesUnique, SourceLeft, serverVars, mirrorVars
<1> QED BY <1>2, <1>3, <1>4, <1>5, <1>6, <1>7 DEF TransferInv

\* Finishing the attempt of the row that the caller works on.
LEMMA FinishKept == ASSUME TransferInv, NEW c \in Callers, FinishMessageTransferDispatch(c) PROVE TransferInv'
<1>0. PICK i : i = call[c].id
  OBVIOUS
<1> DEFINE q == journal[i]
           mine == q.state = "pending" /\ q.dispatched /\ q.owner = epoch /\ q.attempt = call[c].at
           r == IF mine THEN [q EXCEPT !.finished = TRUE] ELSE q
<1>1. /\ call[c].pc \in {"finish", "settle"} /\ SetRow(i, r) /\ GoWith(c, "idle", call[c])
      /\ UNCHANGED <<serverVars, mirrorVars, envVars>>
  BY <1>0 DEF FinishMessageTransferDispatch, Working, RowOf, Go
<1>2. /\ call \in [Callers -> Calls] /\ call[c] \in Calls /\ OnRow(c) /\ i \in DOMAIN journal /\ q \in Rows
      /\ RowInv(i)
  BY <1>0, <1>1, CallerWorks
<1>3. Claimed(c)
  BY <1>1, <1>2 DEF Claimed, OnRow
<1>4. /\ r \in Rows /\ r.kind = q.kind /\ r.dest = q.dest /\ r.state = q.state /\ r.boundary = q.boundary
      /\ r.attempt = q.attempt /\ r.owner = q.owner /\ r.dispatched = q.dispatched
      /\ q.finished => r.finished
  BY <1>2 DEF Rows
<1> HIDE DEF r
<1>5. call' \in [Callers -> Calls] /\ call'[c].pc = "idle" /\ \A d \in Callers : d # c => call'[d] = call[d]
  <2>1. "idle" \in Pcs
    BY DEF Pcs
  <2> QED BY <1>1, <1>2, <2>1, CallerGoes
<1>6. CallerInv(c)' /\ ~Claimed(c)'
  BY <1>5 DEF CallerInv, Claimed
<1>7. journal'[i] = r /\ DOMAIN journal' = DOMAIN journal
  BY <1>1, <1>2, <1>4, RowStored DEF TransferInv, TypeOK
<1>8. RowInv(i)'
  BY <1>1, <1>2, <1>4, <1>7 DEF RowInv, Untransferred, NotAfter, serverVars, envVars
<1>9. ASSUME NEW d \in Callers, d # c, call[d].pc # "idle", call[d].id = i PROVE CallerInv(d)'
  <2>1. OnRow(d) /\ ClaimOf(d) /\ CheckOf(d) /\ BoundaryOf(d) /\ SourceOf(d) /\ call'[d] = call[d]
    BY <1>5, <1>9, CallerWorks
  <2>2. ~Claimed(d)
    BY <1>0, <1>3, <1>9 DEF TransferInv, ClaimsUnique
  <2>3. RowOf(d) = q /\ RowOf(d)' = r
    BY <1>7, <1>9, <2>1 DEF RowOf
  <2>4. OnRow(d)'
    BY <1>4, <1>7, <1>9, <2>1, <2>3 DEF OnRow
  <2>5. ClaimOf(d)'
    BY <1>1, <2>1, <2>2 DEF ClaimOf, Claimed, Untransferred, serverVars
  <2>6. CheckOf(d)'
    BY <1>1, <1>4, <2>1, <2>3 DEF CheckOf, CanReconcile, Untransferred, serverVars, envVars
  <2>7. BoundaryOf(d)' /\ SourceOf(d)'
    BY <1>1, <1>4, <2>1, <2>3 DEF BoundaryOf, SourceOf, NotAfter, serverVars
  <2> QED BY <2>4, <2>5, <2>6, <2>7 DEF CallerInv
<1> QED BY <1>1, <1>2, <1>4, <1>5, <1>6, <1>8, <1>9, ClaimStored

\* The boundary is stored in a row that has none and no attempt.
LEMMA BoundaryKept ==
    ASSUME TransferInv, NEW c \in Callers, SetMessageTransferDestinationSnapshot(c) PROVE TransferInv'
<1>0. PICK i : i = call[c].id
  OBVIOUS
<1> DEFINE q == journal[i]
           r == WithBoundary(q, call[c].uid)
           where == IF r.state = "gone" \/ r.boundary = None THEN "idle" ELSE Undecided(r)
           k == [call[c] EXCEPT !.seen = Snapshot(r), !.uid = None]
<1>1. /\ call[c].pc = "setBoundary" /\ SetRow(i, r) /\ GoWith(c, where, k)
      /\ UNCHANGED <<serverVars, mirrorVars, envVars>>
  BY <1>0 DEF SetMessageTransferDestinationSnapshot, Working, RowOf
<1>2. /\ call \in [Callers -> Calls] /\ call[c] \in Calls /\ OnRow(c) /\ BoundaryOf(c)
      /\ i \in DOMAIN journal /\ q \in Rows /\ RowInv(i) /\ RowOf(c) = q
  BY <1>0, <1>1, CallerWorks
<1>3. call[c].uid \in Uids /\ call[c].uid # None /\ NotAfter(call[c].uid, call[c].dest)
  BY <1>1, <1>2 DEF BoundaryOf, Calls
<1>4. /\ r \in Rows /\ r.kind = q.kind /\ r.dest = q.dest /\ r.state = q.state
      /\ r.attempt = q.attempt /\ r.owner = q.owner /\ r.dispatched = q.dispatched /\ r.finished = q.finished
      /\ \/ r = q
         \/ q.state = "pending" /\ ~q.dispatched /\ q.boundary = None /\ r.boundary = call[c].uid
  BY <1>2, <1>3 DEF WithBoundary, Rows
<1> HIDE DEF r
<1>5. /\ k \in Calls /\ k.seen = Snapshot(r) /\ k.kind = call[c].kind /\ k.dest = call[c].dest /\ k.id = i
      /\ k.at = call[c].at
  <2>1. Snapshot(r) \in Snapshots
    BY <1>4, SnapshotType
  <2> QED BY <1>0, <1>2, <2>1, NoneIsUid DEF Calls, Snapshots
<1>6. /\ where \in {"idle", "claim", "check"}
      /\ where # "idle" => r.boundary # None
      /\ where = "check" => CanReconcile(r)
  BY DEF Undecided
<1> HIDE DEF where, k
<1>7. /\ call' \in [Callers -> Calls] /\ call'[c].pc = where
      /\ \A d \in Callers : d # c => call'[d] = call[d]
      /\ where # "idle" =>
            /\ call'[c].kind = call[c].kind /\ call'[c].dest = call[c].dest /\ call'[c].id = i
            /\ call'[c].seen = Snapshot(r) /\ call'[c].at = call[c].at
  <2>1. where \in Pcs
    BY <1>6 DEF Pcs
  <2> QED BY <1>1, <1>2, <1>5, <2>1, CallerGoes
<1>8. journal'[i] = r /\ DOMAIN journal' = DOMAIN journal
  BY <1>1, <1>2, <1>4, RowStored DEF TransferInv, TypeOK
<1>9. RowInv(i)'
  BY <1>1, <1>2, <1>3, <1>4, <1>8 DEF RowInv, OnRow, Untransferred, NotAfter, serverVars, envVars
<1>10. CallerInv(c)' /\ ~Claimed(c)'
  <2>1. CASE where = "idle"
    BY <1>7, <2>1 DEF CallerInv, Claimed
  <2>2. CASE where # "idle"
    <3>1. RowOf(c)' = r
      BY <1>7, <1>8, <2>2 DEF RowOf
    <3>2. OnRow(c)'
      BY <1>1, <1>2, <1>4, <1>6, <1>7, <1>8, <2>2, <3>1 DEF OnRow, Snapshot, Rows
    <3>3. ClaimOf(c)' /\ ~Claimed(c)'
      BY <1>6, <1>7, <2>2 DEF ClaimOf, Claimed
    <3>4. CheckOf(c)'
      BY <1>1, <1>6, <1>7, <2>2, <3>1 DEF CheckOf, CanReconcile, envVars
    <3>5. BoundaryOf(c)' /\ SourceOf(c)'
      BY <1>6, <1>7, <2>2, <3>1 DEF BoundaryOf, SourceOf, Snapshot
    <3> QED BY <3>2, <3>3, <3>4, <3>5 DEF CallerInv
  <2> QED BY <2>1, <2>2
<1>11. ASSUME NEW d \in Callers, d # c, call[d].pc # "idle", call[d].id = i PROVE CallerInv(d)'
  <2>1. OnRow(d) /\ ClaimOf(d) /\ CheckOf(d) /\ BoundaryOf(d) /\ SourceOf(d) /\ call'[d] = call[d]
    BY <1>7, <1>11, CallerWorks
  <2>2. RowOf(d) = q /\ RowOf(d)' = r
    BY <1>8, <1>11, <2>1 DEF RowOf
  <2>3. CASE r = q
    BY <1>1, <1>2, <1>8, <1>11, <2>1, <2>3, OtherRow DEF envVars
  <2>4. CASE q.state = "pending" /\ ~q.dispatched /\ q.boundary = None
    <3>1. OnRow(d)'
      BY <1>4, <1>8, <1>11, <2>1, <2>2 DEF OnRow
    <3>2. ClaimOf(d)'
      BY <2>1, <2>2, <2>4 DEF ClaimOf, Claimed
    <3>3. CheckOf(d)'
      BY <1>4, <2>2, <2>4 DEF CheckOf
    <3>4. BoundaryOf(d)' /\ SourceOf(d)'
      BY <1>1, <2>1, <2>2, <2>4 DEF BoundaryOf, SourceOf, NotAfter, serverVars
    <3> QED BY <3>1, <3>2, <3>3, <3>4 DEF CallerInv
  <2> QED BY <1>4, <2>3, <2>4
<1>12. q.boundary # None => r.boundary = q.boundary
  BY <1>4
<1> QED BY <1>1, <1>2, <1>4, <1>7, <1>9, <1>10, <1>11, <1>12, ClaimStored

\* An attempt is taken back only if nothing of it is at the server.
LEMMA ReopenKept ==
    ASSUME TransferInv, NEW c \in Callers, ReopenMessageTransferDispatchAfterProof(c) PROVE TransferInv'
<1>0. PICK i : i = call[c].id
  OBVIOUS
<1> DEFINE q == journal[i]
           r == [q EXCEPT !.dispatched = FALSE, !.owner = 0, !.finished = FALSE]
<1>1. call[c].pc = "reopen" /\ UNCHANGED <<serverVars, mirrorVars, envVars>>
  BY DEF ReopenMessageTransferDispatchAfterProof, Working
<1>2. /\ call \in [Callers -> Calls] /\ call[c] \in Calls
      /\ OnRow(c) /\ CheckOf(c) /\ BoundaryOf(c) /\ i \in DOMAIN journal /\ q \in Rows /\ RowInv(i) /\ RowOf(c) = q
  BY <1>0, <1>1, CallerWorks
<1>3. CASE UNCHANGED journal /\ Go(c, "idle")
  <2>1. MayGo(c, "idle", call[c].uid) /\ GoWith(c, "idle", call[c])
    BY <1>3 DEF MayGo, Go
  <2> QED BY <1>1, <1>2, <1>3, <2>1, CallerGoesOn, SameFaults DEF envVars
<1>4. CASE StillTheAttempt(q, call[c].seen) /\ SetRow(i, r) /\ Go(c, "claim")
  <2>1. q.state = "pending" /\ q.dispatched /\ CanReconcile(q) /\ Untransferred(i)
    BY <1>0, <1>1, <1>2, <1>4 DEF StillTheAttempt, CheckOf
  <2>2. /\ r \in Rows /\ r.kind = q.kind /\ r.dest = q.dest /\ r.state = q.state /\ r.boundary = q.boundary
        /\ r.attempt = q.attempt /\ r.owner = 0 /\ ~r.dispatched
    <3>1. 0 \in 0..MaxEpoch
      BY TransfersAssumption
    <3>2. q \in Rows
      BY <1>2
    <3> HIDE DEF q
    <3> QED BY <3>1, <3>2 DEF Rows
  <2> HIDE DEF r
  <2>3. /\ call' \in [Callers -> Calls] /\ call'[c].pc = "claim"
        /\ \A d \in Callers : d # c => call'[d] = call[d]
        /\ call'[c].kind = call[c].kind /\ call'[c].dest = call[c].dest /\ call'[c].id = i
        /\ call'[c].seen = call[c].seen /\ call'[c].at = call[c].at
    <3>1. "claim" \in Pcs /\ GoWith(c, "claim", call[c])
      BY <1>4 DEF Pcs, Go
    <3> QED BY <1>0, <1>2, <3>1, CallerGoes
  <2>4. journal'[i] = r /\ DOMAIN journal' = DOMAIN journal
    BY <1>2, <1>4, <2>2, RowStored DEF TransferInv, TypeOK
  <2>5. RowInv(i)'
    <3>1. r.owner <= epoch
      BY <2>2 DEF TransferInv, TypeOK
    <3> QED BY <1>1, <1>2, <2>1, <2>2, <2>4, <3>1 DEF RowInv, Untransferred, NotAfter, serverVars, envVars
  <2>6. CallerInv(c)' /\ ~Claimed(c)'
    <3>1. RowOf(c)' = r
      BY <2>3, <2>4 DEF RowOf
    <3>2. OnRow(c)'
      BY <1>1, <1>2, <2>2, <2>3, <2>4, <3>1 DEF OnRow
    <3>3. ClaimOf(c)' /\ ~Claimed(c)' /\ CheckOf(c)'
      BY <2>3 DEF ClaimOf, Claimed, CheckOf
    <3>4. BoundaryOf(c)' /\ SourceOf(c)'
      BY <1>1, <1>2, <2>2, <2>3, <3>1 DEF BoundaryOf, SourceOf
    <3> QED BY <3>2, <3>3, <3>4 DEF CallerInv
  <2>7. ASSUME NEW d \in Callers, d # c, call[d].pc # "idle", call[d].id = i PROVE CallerInv(d)'
    <3>1. OnRow(d) /\ ClaimOf(d) /\ BoundaryOf(d) /\ SourceOf(d) /\ call'[d] = call[d]
      BY <2>3, <2>7, CallerWorks
    <3>2. RowOf(d) = q /\ RowOf(d)' = r
      BY <2>4, <2>7, <3>1 DEF RowOf
    <3>3. ~Claimed(d)
      BY <2>1, <3>1, <3>2 DEF ClaimOf, CanReconcile
    <3>4. OnRow(d)'
      BY <2>2, <2>4, <2>7, <3>1, <3>2 DEF OnRow
    <3>5. ClaimOf(d)' /\ CheckOf(d)'
      BY <2>2, <3>1, <3>2, <3>3 DEF ClaimOf, CheckOf, Claimed
    <3>6. BoundaryOf(d)' /\ SourceOf(d)'
      BY <1>1, <2>2, <3>1, <3>2 DEF BoundaryOf, SourceOf, NotAfter, serverVars
    <3> QED BY <3>4, <3>5, <3>6 DEF CallerInv
  <2>8. q.boundary # None => r.boundary = q.boundary
    BY <2>2
  <2> QED BY <1>1, <1>2, <1>4, <2>2, <2>3, <2>5, <2>6, <2>7, <2>8, ClaimStored
<1> QED BY <1>0, <1>2, <1>3, <1>4 DEF ReopenMessageTransferDispatchAfterProof

\* A row is claimed only while no attempt of it is open.
LEMMA ClaimKept ==
    ASSUME TransferInv, NEW c \in Callers, ClaimMessageTransferDispatch(c) PROVE TransferInv'
<1>0. PICK i : i = call[c].id
  OBVIOUS
<1> DEFINE q == journal[i]
           r == [q EXCEPT !.dispatched = TRUE, !.owner = epoch, !.attempt = @ + 1, !.finished = FALSE]
           k == [call[c] EXCEPT !.at = q.attempt + 1]
<1>1. call[c].pc = "claim" /\ UNCHANGED <<serverVars, mirrorVars, envVars>>
  BY DEF ClaimMessageTransferDispatch, Working
<1>2. /\ call \in [Callers -> Calls] /\ call[c] \in Calls
      /\ OnRow(c) /\ BoundaryOf(c) /\ i \in DOMAIN journal /\ q \in Rows /\ RowInv(i) /\ RowOf(c) = q
  BY <1>0, <1>1, CallerWorks
<1>3. CASE UNCHANGED journal /\ Go(c, "idle")
  <2>1. MayGo(c, "idle", call[c].uid) /\ GoWith(c, "idle", call[c])
    BY <1>3 DEF MayGo, Go
  <2> QED BY <1>1, <1>2, <1>3, <2>1, CallerGoesOn, SameFaults DEF envVars
<1>4. CASE Claimable(q) /\ q.attempt < MaxAttempts /\ SetRow(i, r) /\ GoWith(c, "remote", k)
  <2>1. q.state = "pending" /\ ~q.dispatched /\ Untransferred(i)
    BY <1>2, <1>4 DEF Claimable, RowInv
  <2>2. q.attempt \in Nat /\ q.attempt + 1 \in 0..MaxAttempts /\ epoch \in 0..MaxEpoch
    <3>1. q.attempt \in 0..MaxAttempts
      BY <1>2 DEF Rows
    <3>2. epoch \in 1..MaxEpoch
      BY DEF TransferInv, TypeOK
    <3> QED BY <1>4, <3>1, <3>2, TransfersAssumption
  <2>3. /\ r \in Rows /\ r.kind = q.kind /\ r.dest = q.dest /\ r.state = q.state /\ r.boundary = q.boundary
        /\ r.attempt = q.attempt + 1 /\ r.owner = epoch /\ r.dispatched /\ ~r.finished
    BY <1>2, <2>2 DEF Rows
  <2>4. /\ k \in Calls /\ k.seen = call[c].seen /\ k.kind = call[c].kind /\ k.dest = call[c].dest /\ k.id = i
        /\ k.at = q.attempt + 1
    BY <1>0, <1>2, <2>2 DEF Calls
  <2> HIDE DEF r, k
  <2>5. /\ call' \in [Callers -> Calls] /\ call'[c].pc = "remote"
        /\ \A d \in Callers : d # c => call'[d] = call[d]
        /\ call'[c].kind = call[c].kind /\ call'[c].dest = call[c].dest /\ call'[c].id = i
        /\ call'[c].seen = call[c].seen /\ call'[c].at = q.attempt + 1
    <3>1. "remote" \in Pcs
      BY DEF Pcs
    <3> QED BY <1>2, <1>4, <2>4, <3>1, CallerGoes
  <2>6. journal'[i] = r /\ DOMAIN journal' = DOMAIN journal
    BY <1>2, <1>4, <2>3, RowStored DEF TransferInv, TypeOK
  <2>7. RowInv(i)'
    <3>1. r.owner <= epoch
      BY <2>3 DEF TransferInv, TypeOK
    <3> QED BY <1>1, <1>2, <2>1, <2>3, <2>6, <3>1 DEF RowInv, Untransferred, NotAfter, serverVars, envVars
  <2>8. CallerInv(c)'
    <3>1. RowOf(c)' = r
      BY <2>5, <2>6 DEF RowOf
    <3>2. OnRow(c)'
      <4>1. call[c].seen.attempt \in Int
        BY <1>2 DEF Calls
      <4> QED BY <1>2, <2>2, <2>3, <2>5, <2>6, <3>1, <4>1 DEF OnRow
    <3>3. ClaimOf(c)'
      BY <1>1, <2>1, <2>3, <2>5, <3>1 DEF ClaimOf, Untransferred, serverVars, envVars
    <3>4. CheckOf(c)'
      BY <2>5 DEF CheckOf
    <3>5. BoundaryOf(c)' /\ SourceOf(c)'
      BY <1>1, <1>2, <2>3, <2>5, <3>1 DEF BoundaryOf, SourceOf
    <3> QED BY <3>2, <3>3, <3>4, <3>5 DEF CallerInv
  <2>9. ASSUME NEW d \in Callers, d # c, call[d].pc # "idle", call[d].id = i
        PROVE  CallerInv(d)' /\ ~Claimed(d)
    <3>1. /\ OnRow(d) /\ ClaimOf(d) /\ BoundaryOf(d) /\ SourceOf(d) /\ call'[d] = call[d]
          /\ call[d] \in Calls
      BY <2>5, <2>9, CallerWorks
    <3>2. RowOf(d) = q /\ RowOf(d)' = r
      BY <2>6, <2>9, <3>1 DEF RowOf
    <3>3. ~Claimed(d)
      BY <2>1, <3>1, <3>2 DEF ClaimOf
    <3>4. call[d].seen.attempt <= q.attempt /\ call[d].seen.attempt \in Int
      BY <3>1, <3>2 DEF OnRow, Calls
    <3>5. OnRow(d)'
      BY <2>2, <2>3, <2>6, <2>9, <3>1, <3>2, <3>4 DEF OnRow
    <3>6. ClaimOf(d)'
      BY <3>1, <3>3 DEF ClaimOf, Claimed
    <3>7. CheckOf(d)'
      BY <2>2, <2>3, <3>1, <3>2, <3>4 DEF CheckOf
    <3>8. BoundaryOf(d)' /\ SourceOf(d)'
      BY <1>1, <2>3, <3>1, <3>2 DEF BoundaryOf, SourceOf, NotAfter, serverVars
    <3> QED BY <3>3, <3>5, <3>6, <3>7, <3>8 DEF CallerInv
  <2>10. \A d \in Callers : d # c /\ Claimed(d) => call[d].id # call'[c].id
    BY <2>5, <2>9 DEF Claimed
  <2>11. q.boundary # None => r.boundary = q.boundary
    BY <2>3
  <2> QED BY <1>1, <1>2, <1>4, <2>3, <2>5, <2>7, <2>8, <2>9, <2>10, <2>11, ClaimStored
<1> QED BY <1>0, <1>2, <1>3, <1>4 DEF ClaimMessageTransferDispatch

\* The answer of the server, or its absence: the caller keeps its claim.
LEMMA AnswerGoes ==
    ASSUME TransferInv, NEW c \in Callers, call[c].pc = "remote", UNCHANGED <<journal, epoch>>,
           NEW where \in {"fail", "finish", "succeed", "applied"}, NEW k \in Calls, GoWith(c, where, k),
           k.kind = call[c].kind, k.dest = call[c].dest, k.id = call[c].id,
           k.seen = call[c].seen, k.at = call[c].at,
           where = "fail" => UNCHANGED copies,
           where \in {"succeed", "applied"} /\ call[c].kind = "move" => ~source'
    PROVE  /\ call' \in [Callers -> Calls] /\ \A d \in Callers : d # c => call'[d] = call[d]
           /\ CallerInv(c)' /\ call'[c].id = call[c].id /\ call'[c].pc # "remote"
<1>1. /\ call \in [Callers -> Calls] /\ call[c] \in Calls /\ OnRow(c) /\ ClaimOf(c)
  BY CallerWorks
<1>2. where \in Pcs
  BY DEF Pcs
<1>3. /\ call' \in [Callers -> Calls] /\ call'[c].pc = where
      /\ \A d \in Callers : d # c => call'[d] = call[d]
      /\ call'[c].kind = call[c].kind /\ call'[c].dest = call[c].dest /\ call'[c].id = call[c].id
      /\ call'[c].seen = call[c].seen /\ call'[c].at = call[c].at
  BY <1>1, <1>2, CallerGoes
<1>4. RowOf(c)' = RowOf(c) /\ (DOMAIN journal)' = DOMAIN journal
  BY <1>3 DEF RowOf
<1>5. OnRow(c)'
  BY <1>1, <1>3, <1>4 DEF OnRow
<1>6. ClaimOf(c)'
  BY <1>1, <1>3, <1>4 DEF ClaimOf, Claimed, Untransferred
<1>7. CheckOf(c)' /\ BoundaryOf(c)' /\ SourceOf(c)'
  BY <1>3 DEF CheckOf, BoundaryOf, SourceOf
<1> QED BY <1>3, <1>5, <1>6, <1>7 DEF CallerInv

\* The command is executed: the first copy of its row, of which nobody else can
\* be proving the absence.
LEMMA LandsKept ==
    ASSUME TransferInv, NEW c \in Callers, call[c].pc = "remote", NEW exact \in BOOLEAN, Lands(c, exact),
           UNCHANGED <<journal, gen, mirrorVars, epoch>>, faults' \in 0..MaxFaults,
           source' \in BOOLEAN, source' => source, call[c].kind = "move" => ~source',
           call' \in [Callers -> Calls], \A d \in Callers : d # c => call'[d] = call[d],
           CallerInv(c)', call'[c].id = call[c].id, call'[c].pc # "remote"
    PROVE  TransferInv'
<1>0. PICK i, m : i = call[c].id /\ m = call[c].dest
  OBVIOUS
<1>1. /\ call[c] \in Calls /\ OnRow(c) /\ ClaimOf(c) /\ BoundaryOf(c)
      /\ i \in DOMAIN journal /\ RowOf(c) = journal[i] /\ journal[i] \in Rows /\ RowInv(i) /\ m \in Dests
      /\ journal \in Seq(Rows) /\ Len(journal) <= MaxRows
  BY <1>0, CallerWorks DEF Calls
<1>2. /\ Claimed(c) /\ Untransferred(i) /\ ~CanReconcile(journal[i]) /\ journal[i].dispatched
      /\ journal[i].state # "failed"
  BY <1>0, <1>1 DEF Claimed, ClaimOf, CanReconcile
<1>3. PICK x : x = [dest |-> m, uid |-> uidNext[m], exact |-> exact, row |-> i]
  OBVIOUS
<1>4. uidNext[m] <= MaxUid /\ copies' = copies \cup {x} /\ uidNext' = [uidNext EXCEPT ![m] = @ + 1]
  BY <1>0, <1>3 DEF Lands
<1>5. uidNext \in [Dests -> 1..(MaxUid + 1)] /\ MaxUid \in Nat /\ MaxRows \in Nat
  BY ServerTypes, TransfersAssumption
<1>6. /\ uidNext' \in [Dests -> 1..(MaxUid + 1)] /\ \A d \in Dests : uidNext[d] <= uidNext'[d]
  BY <1>1, <1>4, <1>5
<1>7. x \in [dest : Dests, uid : 1..MaxUid, exact : BOOLEAN, row : 0..MaxRows]
  <2>1. uidNext[m] \in 1..MaxUid
    BY <1>1, <1>4, <1>5
  <2>2. i \in 0..MaxRows
    BY <1>1, <1>5, RowNumbers
  <2> QED BY <1>1, <1>3, <2>1, <2>2
<1>8. TypeOK'
  <2>1. copies' \subseteq [dest : Dests, uid : 1..MaxUid, exact : BOOLEAN, row : 0..MaxRows]
    BY <1>4, <1>7, ServerTypes
  <2> QED BY <1>6, <2>1 DEF TransferInv, TypeOK, mirrorVars
<1>9. \A b \in Uids, d \in Dests : NotAfter(b, d) => NotAfter(b, d)'
  <2>1. ASSUME NEW b \in Uids, NEW d \in Dests, NotAfter(b, d) PROVE NotAfter(b, d)'
    <3>1. b.uid \in Int /\ uidNext[d] \in Int /\ uidNext'[d] \in Int
      BY <1>5, <1>6 DEF Uids, None
    <3> QED BY <1>6, <2>1, <3>1 DEF NotAfter
  <2> QED BY <2>1
<1>10. \A j : j # i => (Untransferred(j)' <=> Untransferred(j))
  BY <1>3, <1>4 DEF Untransferred
<1>11. ASSUME NEW d \in Callers, d # c PROVE CallerInv(d)'
  <2>1. CASE call[d].pc = "idle"
    BY <1>11, <2>1 DEF CallerInv
  <2>2. CASE call[d].pc # "idle"
    <3>1. /\ call[d] \in Calls /\ OnRow(d) /\ ClaimOf(d) /\ CheckOf(d) /\ BoundaryOf(d) /\ SourceOf(d)
          /\ call'[d] = call[d] /\ RowOf(d)' = RowOf(d)
      BY <1>11, <2>2, CallerWorks DEF RowOf
    <3>2. call[d].id = i => ~Claimed(d)
      BY <1>0, <1>2, <1>11 DEF TransferInv, ClaimsUnique
    <3>3. OnRow(d)'
      BY <3>1 DEF OnRow
    <3>4. ClaimOf(d)'
      <4>1. call[d].id # i => (Untransferred(call[d].id)' <=> Untransferred(call[d].id))
        BY <1>3, <1>4, <3>1 DEF Untransferred
      <4> QED BY <3>1, <3>2, <4>1 DEF ClaimOf, Claimed
    <3>5. CheckOf(d)'
      <4>1. CASE call[d].id = i
        <5>1. ~CanReconcile(RowOf(d)) /\ ~CanReconcile(RowOf(d))'
          BY <1>2, <3>1, <4>1 DEF RowOf, CanReconcile
        <5> QED BY <3>1, <5>1 DEF CheckOf
      <4>2. CASE call[d].id # i
        <5>1. Untransferred(call[d].id)' <=> Untransferred(call[d].id)
          BY <1>3, <1>4, <3>1, <4>2 DEF Untransferred
        <5> QED BY <3>1, <5>1 DEF CheckOf, CanReconcile
      <4> QED BY <4>1, <4>2
    <3>6. call[d].uid \in Uids /\ call[d].dest \in Dests
      BY <3>1 DEF Calls
    <3>7. BoundaryOf(d)' /\ SourceOf(d)'
      BY <1>9, <3>1, <3>6 DEF BoundaryOf, SourceOf
    <3> QED BY <3>3, <3>4, <3>5, <3>7 DEF CallerInv
  <2> QED BY <2>1, <2>2
<1>12. ASSUME NEW j \in (DOMAIN journal)' PROVE RowInv(j)'
  <2>1. RowInv(j) /\ journal[j] \in Rows
    BY <1>1, <1>12, ElementOfSeq, LenProperties DEF TransferInv
  <2>2. journal[j].boundary \in Uids /\ journal[j].dest \in Dests
    BY <2>1 DEF Rows
  <2>3. /\ journal[j].state = "pending" /\ ~journal[j].dispatched => Untransferred(j)'
        /\ journal[j].state = "failed" => Untransferred(j)'
    BY <1>2, <1>10, <2>1 DEF RowInv
  <2> QED BY <1>9, <2>1, <2>2, <2>3 DEF RowInv
<1>13. ASSUME NEW y \in copies' PROVE CopyInv(y)'
  <2>1. CASE y \in copies
    BY <2>1 DEF TransferInv, CopyInv
  <2>2. CASE y = x
    <3>1. x.dest = m /\ x.uid = uidNext[m] /\ x.row = i
      BY <1>3
    <3>2. journal[i].kind = "move" => ~source'
      BY <1>1 DEF OnRow
    <3>3. journal[i].kind = "copy" =>
            /\ m = journal[i].dest /\ journal[i].boundary # None /\ NotAfter(journal[i].boundary, m)
      BY <1>0, <1>1 DEF OnRow, BoundaryOf, RowInv
    <3> QED BY <1>1, <2>2, <3>1, <3>2, <3>3 DEF CopyInv, NotAfter
  <2> QED BY <1>4, <2>1, <2>2
<1>14. ClaimsUnique'
  <2>1. \A d \in Callers : d # c => (Claimed(d)' <=> Claimed(d))
    BY DEF Claimed
  <2>2. \A d, e \in Callers : Claimed(d) /\ Claimed(e) /\ call[d].id = call[e].id => d = e
    BY DEF TransferInv, ClaimsUnique
  <2> QED BY <1>2, <2>1, <2>2 DEF ClaimsUnique
<1>15. CopiesUnique'
  <2>1. x.row = i
    BY <1>3
  <2> QED BY <1>2, <1>4, <2>1 DEF TransferInv, CopiesUnique, Untransferred
<1>16. SourceLeft'
  BY DEF TransferInv, SourceLeft, mirrorVars
<1> QED BY <1>8, <1>11, <1>12, <1>13, <1>14, <1>15, <1>16 DEF TransferInv

\* The ways a caller leaves "remote".
Answers(c, where, k) ==
    /\ GoWith(c, where, k) /\ k \in Calls
    /\ k.kind = call[c].kind /\ k.dest = call[c].dest /\ k.id = call[c].id
    /\ k.seen = call[c].seen /\ k.at = call[c].at

LEMMA AnswerKinds ==
    ASSUME TransferInv, NEW c \in Callers, call[c].pc = "remote"
    PROVE  /\ \A where : Go(c, where) => Answers(c, where, call[c])
           /\ NextUid(c) \in Uids
           /\ \A where : \A u \in Uids, sure \in BOOLEAN :
                Answered(c, where, u, sure) => \E k \in Calls : Answers(c, where, k)
<1>1. call[c] \in Calls
  BY CallerWorks
<1>2. \A where : Go(c, where) => Answers(c, where, call[c])
  BY <1>1 DEF Go, Answers
<1>3. NextUid(c) \in Uids
  <2>1. gen[call[c].dest] \in 1..2 /\ uidNext[call[c].dest] \in 1..(MaxUid + 1)
    BY <1>1, ServerTypes DEF Calls
  <2> QED BY <2>1 DEF NextUid, Uids
<1>4. ASSUME NEW u \in Uids, NEW sure \in BOOLEAN, NEW where, Answered(c, where, u, sure)
      PROVE  \E k \in Calls : Answers(c, where, k)
  <2> DEFINE k == [call[c] EXCEPT !.uid = u, !.known = sure]
  <2>1. /\ k \in Calls /\ k.kind = call[c].kind /\ k.dest = call[c].dest /\ k.id = call[c].id
        /\ k.seen = call[c].seen /\ k.at = call[c].at
    BY <1>1 DEF Calls
  <2>2. GoWith(c, where, k)
    BY <1>4 DEF Answered
  <2> HIDE DEF k
  <2> QED BY <2>1, <2>2 DEF Answers
<1> QED BY <1>2, <1>3, <1>4

\* The command leaves nothing at the destination; a move may find the source gone.
LEMMA UnappliedKept ==
    ASSUME TransferInv, NEW c \in Callers, call[c].pc = "remote", Unapplied,
           UNCHANGED <<journal, gen, mirrorVars, epoch>>, faults' \in 0..MaxFaults,
           source' \in BOOLEAN, source' => source,
           call' \in [Callers -> Calls], \A d \in Callers : d # c => call'[d] = call[d],
           CallerInv(c)', call'[c].id = call[c].id
    PROVE  TransferInv'
<1>1. call[c].pc = "remote" => Claimed(c)
  BY DEF Claimed
<1>2. \A d \in Callers : Onward(d)
  BY <1>1 DEF Onward
<1>3. \A b \in Uids, d \in Dests : NotAfter(b, d)' = NotAfter(b, d)
  BY DEF NotAfter, Unapplied
<1>4. \A b \in Uids, d \in Dests : NotAfter(b, d) /\ b.gen = gen'[d] => b.gen = gen[d]
  OBVIOUS
<1>5. copies' = copies /\ uidNext' = uidNext
  BY DEF Unapplied
<1> QED BY <1>2, <1>3, <1>4, <1>5, ServerTypes, ServerChanges

LEMMA MoveRemoteKept == ASSUME TransferInv, NEW c \in Callers, MoveMessageWithReceipt(c) PROVE TransferInv'
<1>1. call[c].pc = "remote" /\ call[c].kind = "move" /\ UNCHANGED <<journal, gen, mirrorVars, epoch>>
  BY DEF MoveMessageWithReceipt
<1>2. source \in BOOLEAN /\ faults \in 0..MaxFaults
  BY ServerTypes
<1>3. CASE /\ source /\ source' = FALSE /\ Lands(c, TRUE) /\ UNCHANGED faults
           /\ \/ Answered(c, "succeed", NextUid(c), TRUE)
              \/ Answered(c, "succeed", None, FALSE)
              \/ Go(c, LostMove(c))
  <2>1. PICK where \in {"finish", "succeed"}, k \in Calls : Answers(c, where, k)
    BY <1>1, <1>3, AnswerKinds, NoneIsUid, CallerWorks DEF LostMove
  <2>2. /\ call' \in [Callers -> Calls] /\ \A d \in Callers : d # c => call'[d] = call[d]
        /\ CallerInv(c)' /\ call'[c].id = call[c].id /\ call'[c].pc # "remote"
    BY <1>1, <1>3, <2>1, AnswerGoes DEF Answers
  <2> QED BY <1>1, <1>2, <1>3, <2>2, LandsKept
<1>4. CASE /\ Unapplied
           /\ \/ Go(c, "fail") /\ UNCHANGED <<source, faults>>
              \/ Go(c, LostMove(c)) /\ UNCHANGED <<source, faults>>
              \/ Disturb("client") /\ source /\ source' = FALSE /\ Answered(c, "succeed", None, FALSE)
  <2>1. faults' \in 0..MaxFaults /\ source' \in BOOLEAN /\ (source' => source)
    <3>1. Disturb("client") => faults' \in 0..MaxFaults
      BY DisturbBound
    <3>2. \/ UNCHANGED <<source, faults>>
          \/ Disturb("client") /\ source' = FALSE
      BY <1>4
    <3>3. faults' \in 0..MaxFaults
      BY <1>2, <3>1, <3>2
    <3>4. CASE UNCHANGED source
      BY <1>2, <3>3, <3>4
    <3>5. CASE source' = FALSE
      BY <3>3, <3>5
    <3> QED BY <3>2, <3>4, <3>5
  <2>2. PICK where \in {"fail", "finish", "succeed"}, k \in Calls :
            Answers(c, where, k) /\ (where = "succeed" => ~source')
    BY <1>1, <1>4, AnswerKinds, NoneIsUid, CallerWorks DEF LostMove
  <2>3. UNCHANGED copies
    BY <1>4 DEF Unapplied
  <2>4. /\ call' \in [Callers -> Calls] /\ \A d \in Callers : d # c => call'[d] = call[d]
        /\ CallerInv(c)' /\ call'[c].id = call[c].id
    BY <1>1, <2>2, <2>3, AnswerGoes DEF Answers
  <2> QED BY <1>1, <1>4, <2>1, <2>4, UnappliedKept
<1> QED BY <1>3, <1>4 DEF MoveMessageWithReceipt

LEMMA AppendKept == ASSUME TransferInv, NEW c \in Callers, AppendMessage(c) PROVE TransferInv'
<1>1. call[c].pc = "remote" /\ call[c].kind = "copy" /\ UNCHANGED <<journal, source, gen, mirrorVars, envVars>>
  BY DEF AppendMessage
<1>2. source \in BOOLEAN /\ faults' \in 0..MaxFaults
  BY <1>1, ServerTypes, SameFaults DEF envVars
<1>3. ASSUME NEW exact \in BOOLEAN, Lands(c, exact),
             \/ Answered(c, "succeed", NextUid(c), TRUE)
             \/ exact /\ Answered(c, "succeed", NextUid(c), FALSE)
             \/ Go(c, "applied")
             \/ Go(c, "finish")
      PROVE  TransferInv'
  <2>1. PICK where \in {"finish", "succeed", "applied"}, k \in Calls : Answers(c, where, k)
    BY <1>1, <1>3, AnswerKinds, CallerWorks
  <2>2. /\ call' \in [Callers -> Calls] /\ \A d \in Callers : d # c => call'[d] = call[d]
        /\ CallerInv(c)' /\ call'[c].id = call[c].id /\ call'[c].pc # "remote"
    BY <1>1, <2>1, AnswerGoes DEF Answers, envVars
  <2> QED BY <1>1, <1>2, <1>3, <2>2, LandsKept DEF envVars
<1>4. CASE Unapplied /\ (Go(c, "fail") \/ Go(c, "finish"))
  <2>1. PICK where \in {"fail", "finish"} : Answers(c, where, call[c])
    BY <1>1, <1>4, AnswerKinds
  <2>2. UNCHANGED copies
    BY <1>4 DEF Unapplied
  <2>3. /\ call' \in [Callers -> Calls] /\ \A d \in Callers : d # c => call'[d] = call[d]
        /\ CallerInv(c)' /\ call'[c].id = call[c].id
    BY <1>1, <2>1, <2>2, AnswerGoes DEF Answers, envVars
  <2> QED BY <1>1, <1>2, <1>4, <2>3, UnappliedKept DEF envVars
<1> QED BY <1>3, <1>4 DEF AppendMessage

-----------------------------------------------------------------------------
(* Staging a row, and the end of a process *)

LEMMA StageKept ==
    ASSUME TransferInv, NEW c \in Callers, NEW k \in Kinds, NEW d \in Dests, StageMessageTransfer(c, k, d)
    PROVE  TransferInv'
<1> DEFINE rows == Reusable(k, d)
<1>0. PICK i : i = IF rows = {} THEN Len(journal) + 1 ELSE Max(rows)
  OBVIOUS
<1> DEFINE l == [NoCall EXCEPT !.kind = k, !.dest = d, !.id = i]
<1>1. /\ call[c].pc = "idle" /\ i <= MaxRows /\ GoWith(c, "read", l)
      /\ journal' = IF rows = {} THEN Append(journal, Row(k, d)) ELSE journal
      /\ UNCHANGED <<serverVars, mirrorVars, envVars>>
  BY <1>0 DEF StageMessageTransfer
<1>2. journal \in Seq(Rows) /\ call \in [Callers -> Calls] /\ Len(journal) \in Nat /\ DOMAIN journal = 1..Len(journal)
  BY RowNumbers DEF TransferInv, TypeOK
<1>3. rows \in SUBSET (DOMAIN journal) /\ \A j \in rows : journal[j].kind = k /\ (k = "copy" => journal[j].dest = d)
  BY DEF Reusable
<1>4. rows # {} => i \in rows
  BY <1>0, <1>3, LastRow
<1>5. i \in 1..MaxRows
  BY <1>0, <1>1, <1>2, <1>3, <1>4, TransfersAssumption
<1>6. /\ l \in Calls /\ l.kind = k /\ l.dest = d /\ l.id = i /\ l.at = 0 /\ l.seen.attempt = 0
  <2>1. NoCall \in Calls /\ NoCall.at = 0 /\ NoCall.seen.attempt = 0
    BY FreshTypes DEF NoCall, Snapshot, Row
  <2> HIDE DEF rows
  <2> QED BY <1>5, <2>1 DEF Calls
<1> HIDE DEF l, rows
<1>7. /\ call' \in [Callers -> Calls] /\ call'[c].pc = "read"
      /\ \A e \in Callers : e # c => call'[e] = call[e]
      /\ call'[c].kind = k /\ call'[c].dest = d /\ call'[c].id = i
      /\ call'[c].at = 0 /\ call'[c].seen.attempt = 0
  <2>1. "read" \in Pcs
    BY DEF Pcs
  <2> QED BY <1>1, <1>2, <1>6, <2>1, CallerGoes
<1>8. ~Claimed(c)' /\ ClaimOf(c)' /\ CheckOf(c)' /\ BoundaryOf(c)' /\ SourceOf(c)'
  BY <1>7 DEF Claimed, ClaimOf, CheckOf, BoundaryOf, SourceOf
<1>9. CASE rows # {}
  <2>1. UNCHANGED journal /\ i \in DOMAIN journal /\ journal[i].kind = k /\ (k = "copy" => journal[i].dest = d)
    BY <1>1, <1>3, <1>4, <1>9
  <2>2. journal[i].attempt \in 0..MaxAttempts
    <3>1. journal[i] \in Rows
      BY <1>2, <2>1, ElementOfSeq
    <3> QED BY <3>1 DEF Rows
  <2>3. OnRow(c)'
    BY <1>7, <2>1, <2>2 DEF OnRow, RowOf
  <2>4. CallerInv(c)' /\ ~Claimed(c)'
    BY <1>8, <2>3 DEF CallerInv
  <2>5. UNCHANGED <<journal, source, gen, copies, uidNext, local, arrived, expunged, epoch>> /\ faults' \in 0..MaxFaults
    BY <1>1, <2>1, SameFaults DEF serverVars, mirrorVars, envVars
  <2> QED BY <1>7, <2>4, <2>5, CallerOnly
<1>10. CASE rows = {}
  <2>1. Row(k, d) \in Rows /\ journal' = Append(journal, Row(k, d)) /\ i = Len(journal) + 1
    BY <1>0, <1>1, <1>10, FreshTypes
  <2>2. /\ journal' \in Seq(Rows) /\ Len(journal') = i /\ DOMAIN journal' = 1..i
        /\ journal'[i] = Row(k, d) /\ i \notin DOMAIN journal /\ DOMAIN journal' = DOMAIN journal \cup {i}
        /\ \A j \in DOMAIN journal : journal'[j] = journal[j]
    <3>1. /\ journal' \in Seq(Rows) /\ Len(journal') = Len(journal) + 1
          /\ DOMAIN journal' = 1..(Len(journal) + 1) /\ journal'[Len(journal) + 1] = Row(k, d)
          /\ \A j \in DOMAIN journal : journal'[j] = journal[j]
      BY <1>2, <2>1, RowAdded
    <3> QED BY <1>2, <2>1, <3>1
  <2>3. TypeOK'
    BY <1>1, <1>7, <2>2 DEF TransferInv, TypeOK, serverVars, mirrorVars, envVars
  <2>4. CallerInv(c)'
    <3>1. RowOf(c)' = Row(k, d)
      BY <1>7, <2>2 DEF RowOf
    <3>2. OnRow(c)'
      BY <1>7, <2>2, <3>1 DEF OnRow, Row
    <3> QED BY <1>8, <3>2 DEF CallerInv
  <2>5. ASSUME NEW e \in Callers PROVE CallerInv(e)'
    <3>1. CASE e = c
      BY <2>4, <3>1
    <3>2. CASE e # c
      <4>1. call[e].pc # "idle" => call[e].id \in DOMAIN journal
        BY CallerWorks
      <4> QED BY <1>1, <1>7, <2>2, <3>2, <4>1, OtherRow DEF envVars
    <3> QED BY <3>1, <3>2
  <2>6. ASSUME NEW j \in (DOMAIN journal)' PROVE RowInv(j)'
    <3>1. CASE j \in DOMAIN journal
      BY <1>1, <2>2, <3>1 DEF TransferInv, RowInv, Untransferred, NotAfter, serverVars, envVars
    <3>2. CASE j = i
      <4>1. \A x \in copies : x.row # i
        BY <1>5, <2>2 DEF TransferInv, CopyInv
      <4>2. Untransferred(i)'
        BY <1>1, <4>1 DEF Untransferred, serverVars
      <4>3. epoch' \in 1..MaxEpoch
        BY <2>3 DEF TypeOK
      <4>4. /\ journal'[i].owner = 0 /\ journal'[i].boundary = None /\ journal'[i].state = "pending"
        BY <2>2 DEF Row
      <4> QED BY <3>2, <4>2, <4>3, <4>4 DEF RowInv
    <3> QED BY <2>2, <2>6, <3>1, <3>2
  <2>7. ASSUME NEW x \in copies' PROVE CopyInv(x)'
    BY <1>1, <2>2, <2>7 DEF TransferInv, CopyInv, serverVars
  <2>8. ClaimsUnique'
    <3>1. \A e \in Callers : e # c => (Claimed(e)' <=> Claimed(e))
      BY <1>7 DEF Claimed
    <3> QED BY <1>7, <1>8, <3>1 DEF TransferInv, ClaimsUnique
  <2>9. CopiesUnique' /\ SourceLeft'
    BY <1>1 DEF TransferInv, CopiesUnique, SourceLeft, serverVars, mirrorVars
  <2> QED BY <2>3, <2>5, <2>6, <2>7, <2>8, <2>9 DEF TransferInv
<1> QED BY <1>9, <1>10

\* The next process finds no caller at work; the attempts of the last one are over.
LEMMA CrashKept == ASSUME TransferInv, Crash PROVE TransferInv'
<1>1. /\ epoch < MaxEpoch /\ epoch' = epoch + 1 /\ call' = [c \in Callers |-> NoCall]
      /\ UNCHANGED <<journal, serverVars, mirrorVars>> /\ faults' \in 0..MaxFaults
  BY DisturbBound DEF Crash
<1>2. epoch \in 1..MaxEpoch /\ epoch' \in 1..MaxEpoch /\ epoch <= epoch'
  BY <1>1, TransfersAssumption DEF TransferInv, TypeOK
<1>3. call' \in [Callers -> Calls] /\ \A c \in Callers : call'[c].pc = "idle"
  <2>1. NoCall \in Calls /\ NoCall.pc = "idle"
    BY FreshTypes DEF NoCall
  <2> QED BY <1>1, <2>1
<1>4. TypeOK'
  BY <1>1, <1>2, <1>3 DEF TransferInv, TypeOK, serverVars, mirrorVars
<1>5. ASSUME NEW i \in (DOMAIN journal)' PROVE RowInv(i)'
  <2>1. RowInv(i) /\ journal[i].owner \in 0..MaxEpoch /\ journal'[i] = journal[i]
    <3>1. RowInv(i) /\ journal'[i] = journal[i]
      BY <1>1, <1>5 DEF TransferInv
    <3>2. journal[i] \in Rows
      BY <1>1, <1>5, ElementOfSeq, LenProperties DEF TransferInv, TypeOK
    <3> QED BY <3>1, <3>2 DEF Rows
  <2>2. journal[i].owner <= epoch'
    BY <1>1, <1>2, <2>1, TransfersAssumption DEF RowInv
  <2> QED BY <1>1, <2>1, <2>2 DEF RowInv, Untransferred, NotAfter, serverVars
<1>6. \A c \in Callers : CallerInv(c)' /\ ~Claimed(c)'
  BY <1>3 DEF CallerInv, Claimed
<1>7. ASSUME NEW x \in copies' PROVE CopyInv(x)'
  BY <1>1, <1>7 DEF TransferInv, CopyInv, serverVars
<1>8. ClaimsUnique'
  BY <1>6 DEF ClaimsUnique
<1>9. CopiesUnique' /\ SourceLeft'
  BY <1>1 DEF TransferInv, CopiesUnique, SourceLeft, serverVars, mirrorVars
<1> QED BY <1>4, <1>5, <1>6, <1>7, <1>8, <1>9 DEF TransferInv

-----------------------------------------------------------------------------
(* Every step *)

LEMMA TransfersInitially == Init => TransferInv
<1> SUFFICES ASSUME Init PROVE TransferInv
  OBVIOUS
<1>1. NoCall \in Calls /\ NoCall.pc = "idle"
  BY FreshTypes DEF NoCall
<1>2. call \in [Callers -> Calls] /\ \A c \in Callers : call[c].pc = "idle"
  BY <1>1 DEF Init
<1>3. journal \in Seq(Rows) /\ Len(journal) = 0 /\ DOMAIN journal = {}
  BY EmptySeq, LenProperties DEF Init
<1>4. TypeOK
  BY <1>2, <1>3, TransfersAssumption DEF Init, TypeOK
<1>5. \A c \in Callers : CallerInv(c) /\ ~Claimed(c)
  BY <1>2 DEF CallerInv, Claimed
<1>6. SourceLeft
  BY DEF Init, SourceLeft
<1> QED BY <1>3, <1>4, <1>5, <1>6 DEF Init, TransferInv, ClaimsUnique, CopiesUnique

LEMMA StutterKept == TransferInv /\ UNCHANGED vars => TransferInv'
<1> SUFFICES ASSUME TransferInv, UNCHANGED vars PROVE TransferInv'
  OBVIOUS
<1>1. UNCHANGED <<journal, serverVars, mirrorVars, call, envVars>>
  BY DEF vars
<1>2. ConsumedOne /\ SourceLeft'
  BY <1>1, NothingConsumed DEF TransferInv, SourceLeft, serverVars, mirrorVars
<1>3. local' \in BOOLEAN /\ arrived' \subseteq Uids /\ expunged' \in {"no", "kept", "consumed"}
  BY <1>1, MirrorTypes DEF mirrorVars
<1> QED BY <1>1, <1>2, <1>3, CallersStay, SameFaults, ConsumedKept DEF envVars

LEMMA TransferStep == TransferInv /\ [Next]_vars => TransferInv'
<1> SUFFICES ASSUME TransferInv, [Next]_vars PROVE TransferInv'
  OBVIOUS
<1>1. ASSUME NEW c \in Callers,
             \/ \E k \in Kinds, d \in Dests : StageMessageTransfer(c, k, d)
             \/ ReadTransfer(c)
             \/ SnapshotMailboxAppendBoundary(c) \/ SetMessageTransferDestinationSnapshot(c)
             \/ CheckMove(c) \/ CheckCopy(c) \/ ResolveSucceededCopyDestination(c)
             \/ ReopenMessageTransferDispatchAfterProof(c)
             \/ ClaimMessageTransferDispatch(c)
             \/ MoveMessageWithReceipt(c) \/ AppendMessage(c)
             \/ MarkMessageTransferSucceeded(c) \/ MarkMessageTransferFailed(c)
             \/ FinishMessageTransferDispatch(c)
             \/ StoreCopiedMessage(c) \/ RetireCopy(c)
             \/ CompleteMovedMessage(c) \/ CleanupMovedMessage(c)
             \/ Abort(c) \/ Cancel(c)
      PROVE  TransferInv'
  BY <1>1, StageKept, ReadKept, BoundarySnapshotKept, BoundaryKept, CheckMoveKept, CheckCopyKept,
     ResolveKept, ReopenKept, ClaimKept, MoveRemoteKept, AppendKept, MarkSucceededKept, MarkFailedKept,
     FinishKept, StoreCopiedKept, RetireCopyKept, CompleteMovedKept, CleanupMovedKept, AbortKept, CancelKept
<1>2. CASE \/ Crash \/ ClassifyArrival \/ SourceReset
           \/ \E removed \in BOOLEAN : SourceMissing(removed)
           \/ \E i \in 1..MaxRows : Expire(i)
  BY <1>2, CrashKept, ClassifyArrivalKept, SourceResetKept, SourceMissingKept, ExpireKept
<1>3. CASE \/ ClientDeletes \/ \E d \in Dests : ClientCopies(d)
           \/ \E m \in Dests \cup {Source} : NewGeneration(m)
  BY <1>3, ClientDeletesKept, ClientCopiesKept, NewGenerationKept
<1>4. CASE UNCHANGED vars
  BY <1>4, StutterKept
<1> QED BY <1>1, <1>2, <1>3, <1>4 DEF Next

\* What the invariant says of the journal, the mirror and the server.
LEMMA TransferInvSafe == TransferInv => TransfersSafe
<1> SUFFICES ASSUME TransferInv PROVE TransfersSafe
  OBVIOUS
<1>1. TypeOK
  BY DEF TransferInv
<1>2. OneCopyPerTransfer
  <2> SUFFICES ASSUME NEW i \in DOMAIN journal PROVE Cardinality({x \in copies : x.row = i}) <= 1
    BY DEF OneCopyPerTransfer
  <2> DEFINE C == {x \in copies : x.row = i}
  <2>1. i # 0
    BY RowNumbers
  <2>2. \A x, y \in C : x = y
    BY <2>1 DEF TransferInv, CopiesUnique
  <2>3. CASE C = {}
    <3>1. Cardinality({}) = 0
      BY FS_EmptySet
    <3> HIDE DEF C
    <3>2. Cardinality(C) <= 1
      BY <2>3, <3>1
    <3> QED BY <3>2 DEF C
  <2>4. CASE C # {}
    <3> HIDE DEF C
    <3>1. PICK x \in C : C = {x}
      BY <2>2, <2>4
    <3>2. Cardinality(C) = 1
      BY <3>1, FS_Singleton
    <3>3. Cardinality(C) <= 1
      BY <3>2
    <3> QED BY <3>3 DEF C
  <2> QED BY <2>3, <2>4
<1>3. KeptWhileOnServer
  BY <1>1 DEF TransferInv, SourceLeft, KeptWhileOnServer, TypeOK
<1>4. MovedIsGone /\ FailedLeftNothing
  BY DEF TransferInv, RowInv, Untransferred, MovedIsGone, FailedLeftNothing
<1>5. ClaimHeld
  BY DEF TransferInv, CallerInv, ClaimOf, Claimed, ClaimHeld
<1> QED BY <1>1, <1>2, <1>3, <1>4, <1>5 DEF TransfersSafe

LEMMA TransfersAlways == Spec => []TransferInv
BY TransfersInitially, TransferStep, PTL DEF Spec

\* However callers, lost answers, crashes, other clients and recreated mailboxes
\* interleave: a row leaves at most one message at its destination, the claimant is
\* alone at the server, a failed row left nothing there, and a message that the
\* server still has stays in the mirror.
THEOREM TransfersAreSafe == Spec => []TransfersSafe
BY TransfersAlways, TransferInvSafe, PTL

-----------------------------------------------------------------------------
(* The outcome of a row *)

\* A row may go from state `now` to state `next`.
MayBecome(now, next) ==
    /\ now = "succeeded" => next \in {"succeeded", "consumed"}
    /\ now = "consumed" => next \in {"consumed", "gone"}
    /\ now = "failed" => next \in {"failed", "gone"}

RowsFinal == \A i \in DOMAIN journal : MayBecome(journal[i].state, journal'[i].state)

LEMMA RowFinal ==
    ASSUME NEW i, NEW r, SetRow(i, r), MayBecome(journal[i].state, r.state) PROVE RowsFinal
BY DEF SetRow, RowsFinal, MayBecome

LEMMA JournalFinal == UNCHANGED journal => RowsFinal
BY DEF RowsFinal, MayBecome

LEMMA ConsumeFinal ==
    ASSUME TransferInv, NEW i \in DOMAIN journal, Consume(i), journal[i].state # "failed" PROVE RowsFinal
<1> DEFINE r == [journal[i] EXCEPT !.state = "consumed"]
<1>1. journal[i] \in Rows
  BY ElementOfSeq, LenProperties DEF TransferInv, TypeOK
<1>2. SetRow(i, r) /\ r.state = "consumed"
  BY <1>1 DEF Consume, Rows
<1> HIDE DEF r
<1> QED BY <1>2, RowFinal DEF MayBecome

LEMMA ClassifyFinal ==
    ASSUME TransferInv, NEW u, NEW alike \in BOOLEAN, Classify(u, alike) PROVE RowsFinal
<1> DEFINE rows == Matches(u, alike)
<1>1. rows \in SUBSET (DOMAIN journal) /\ \A i \in rows : journal[i].state = "succeeded"
  BY DEF Matches
<1>2. PendingMoves \in SUBSET (DOMAIN journal) /\ \A i \in PendingMoves : journal[i].state = "pending"
  BY DEF PendingMoves
<1>3. CASE rows /= {} /\ Consume(Min(rows))
  <2>1. Min(rows) \in rows
    BY <1>1, <1>3, FirstRow
  <2> QED BY <1>1, <1>3, <2>1, ConsumeFinal
<1>4. CASE PendingMoves # {} /\ Consume(Min(PendingMoves))
  <2>1. Min(PendingMoves) \in PendingMoves
    BY <1>2, <1>4, FirstRow
  <2> QED BY <1>2, <1>4, <2>1, ConsumeFinal
<1>5. CASE UNCHANGED journal
  BY <1>5, JournalFinal
<1> QED BY <1>3, <1>4, <1>5 DEF Classify

LEMMA TerminalizeFinal ==
    ASSUME TransferInv, NEW c \in Callers, call[c].pc # "idle", NEW where, Terminalize(c, where) PROVE RowsFinal
<1>1. call[c].id \in DOMAIN journal /\ RowOf(c) = journal[call[c].id]
  BY CallerWorks
<1>2. CASE RowOf(c).state \in {"succeeded", "consumed"} /\ Consume(call[c].id)
  BY <1>1, <1>2, ConsumeFinal
<1>3. CASE UNCHANGED journal
  BY <1>3, JournalFinal
<1> QED BY <1>2, <1>3 DEF Terminalize

\* A caller changes the state of its row only towards an outcome.
LEMMA CallerFinal ==
    ASSUME TransferInv, NEW c \in Callers, call[c].pc # "idle",
           \/ SetMessageTransferDestinationSnapshot(c) \/ ReopenMessageTransferDispatchAfterProof(c)
           \/ ClaimMessageTransferDispatch(c) \/ FinishMessageTransferDispatch(c)
           \/ MarkMessageTransferSucceeded(c) \/ MarkMessageTransferFailed(c)
    PROVE  RowsFinal
<1> DEFINE i == call[c].id
           q == journal[i]
<1>1. q \in Rows /\ RowOf(c) = q
  BY CallerWorks
<1>2. ASSUME NEW r, SetRow(i, r), r.state = q.state PROVE RowsFinal
  BY <1>2, RowFinal DEF MayBecome
<1> HIDE DEF q
<1>3. CASE SetMessageTransferDestinationSnapshot(c)
  <2>1. WithBoundary(q, call[c].uid).state = q.state
    BY <1>1 DEF WithBoundary, Rows
  <2> QED BY <1>1, <1>2, <1>3, <2>1 DEF SetMessageTransferDestinationSnapshot
<1>4. CASE ReopenMessageTransferDispatchAfterProof(c)
  <2> DEFINE r == [q EXCEPT !.dispatched = FALSE, !.owner = 0, !.finished = FALSE]
  <2>1. r.state = q.state
    BY <1>1 DEF Rows
  <2>2. SetRow(i, r) \/ UNCHANGED journal
    BY <1>1, <1>4 DEF ReopenMessageTransferDispatchAfterProof
  <2> HIDE DEF r
  <2> QED BY <1>2, <2>1, <2>2, JournalFinal
<1>5. CASE ClaimMessageTransferDispatch(c)
  <2> DEFINE r == [q EXCEPT !.dispatched = TRUE, !.owner = epoch, !.attempt = @ + 1, !.finished = FALSE]
  <2>1. r.state = q.state
    BY <1>1 DEF Rows
  <2>2. SetRow(i, r) \/ UNCHANGED journal
    BY <1>1, <1>5 DEF ClaimMessageTransferDispatch
  <2> HIDE DEF r
  <2> QED BY <1>2, <2>1, <2>2, JournalFinal
<1>6. CASE FinishMessageTransferDispatch(c)
  <2> DEFINE mine == q.state = "pending" /\ q.dispatched /\ q.owner = epoch /\ q.attempt = call[c].at
             r == IF mine THEN [q EXCEPT !.finished = TRUE] ELSE q
  <2>1. r.state = q.state
    BY <1>1 DEF Rows
  <2>2. SetRow(i, r)
    BY <1>1, <1>6 DEF FinishMessageTransferDispatch
  <2> HIDE DEF r
  <2> QED BY <1>2, <2>1, <2>2
<1>7. CASE MarkMessageTransferSucceeded(c)
  <2> DEFINE sure == call[c].known /\ call[c].pc = "succeed"
             r == Succeeded(q, call[c].uid, sure)
  <2>1. Open(q) => MayBecome(q.state, r.state)
    BY <1>1 DEF Open, Succeeded, Rows, MayBecome
  <2>2. (Open(q) /\ SetRow(i, r)) \/ UNCHANGED journal
    BY <1>1, <1>7 DEF MarkMessageTransferSucceeded
  <2> HIDE DEF r
  <2> QED BY <2>1, <2>2, JournalFinal, RowFinal DEF q
<1>8. CASE MarkMessageTransferFailed(c)
  <2>1. MayBecome(q.state, Failed(q).state)
    BY <1>1 DEF Failed, Rows, MayBecome
  <2>2. SetRow(i, Failed(q))
    BY <1>1, <1>8 DEF MarkMessageTransferFailed
  <2> QED BY <2>1, <2>2, RowFinal DEF q
<1> QED BY <1>3, <1>4, <1>5, <1>6, <1>7, <1>8

\* So does synchronisation, and a row that ages is settled.
LEMMA SyncFinal ==
    ASSUME TransferInv, RecordExpunged \/ \E i : Expire(i) PROVE RowsFinal
<1>1. ASSUME NEW i, Expire(i) PROVE RowsFinal
  <2> DEFINE r == [journal[i] EXCEPT !.state = "gone"]
  <2>1. i \in DOMAIN journal /\ journal[i].state \in {"failed", "consumed"} /\ SetRow(i, r)
    BY <1>1 DEF Expire
  <2>2. journal[i] \in Rows
    BY <2>1, ElementOfSeq, LenProperties DEF TransferInv, TypeOK
  <2>3. r.state = "gone"
    BY <2>2 DEF Rows
  <2> HIDE DEF r
  <2> QED BY <2>1, <2>3, RowFinal DEF MayBecome
<1>2. CASE RecordExpunged
  <2> DEFINE i == Max(Evidence)
             st == IF journal[i].state /= "pending" THEN journal[i].state
                   ELSE IF journal[i].dest = Inbox THEN "succeeded" ELSE "consumed"
             r == [journal[i] EXCEPT !.state = st]
  <2>1. CASE Evidence = {}
    BY <1>2, <2>1, JournalFinal DEF RecordExpunged
  <2>2. CASE Evidence # {}
    <3>1. Evidence \in SUBSET (DOMAIN journal)
      BY DEF Evidence
    <3>2. journal[i] \in Rows
      <4>1. i \in Evidence
        BY <2>2, <3>1, LastRow
      <4> QED BY <3>1, <4>1, ElementOfSeq, LenProperties DEF TransferInv, TypeOK
    <3>3. SetRow(i, r)
      BY <1>2, <2>2 DEF RecordExpunged
    <3>4. MayBecome(journal[i].state, st)
      BY DEF MayBecome
    <3> HIDE DEF i, st
    <3>5. r.state = st
      BY <3>2 DEF Rows
    <3> HIDE DEF r
    <3> QED BY <3>3, <3>4, <3>5, RowFinal
  <2> QED BY <2>1, <2>2
<1> QED BY <1>1, <1>2

LEMMA StepFinal == TransferInv /\ [Next]_vars => RowsFinal
<1> SUFFICES ASSUME TransferInv, [Next]_vars PROVE RowsFinal
  OBVIOUS
<1>1. ASSUME NEW c \in Callers, NEW k \in Kinds, NEW d \in Dests, StageMessageTransfer(c, k, d)
      PROVE  RowsFinal
  <2>1. UNCHANGED journal \/ journal' = Append(journal, Row(k, d))
    BY <1>1 DEF StageMessageTransfer
  <2>2. CASE journal' = Append(journal, Row(k, d))
    <3>1. \A j \in DOMAIN journal : journal'[j] = journal[j]
      BY <2>2, RowAdded, FreshTypes DEF TransferInv, TypeOK
    <3> QED BY <3>1 DEF RowsFinal, MayBecome
  <2> QED BY <2>1, <2>2, JournalFinal
<1>2. ASSUME NEW c \in Callers,
             \/ SetMessageTransferDestinationSnapshot(c) \/ ReopenMessageTransferDispatchAfterProof(c)
             \/ ClaimMessageTransferDispatch(c) \/ FinishMessageTransferDispatch(c)
             \/ MarkMessageTransferSucceeded(c) \/ MarkMessageTransferFailed(c)
      PROVE  RowsFinal
  <2>1. call[c].pc # "idle"
    BY <1>2 DEF SetMessageTransferDestinationSnapshot, ReopenMessageTransferDispatchAfterProof,
                ClaimMessageTransferDispatch, FinishMessageTransferDispatch,
                MarkMessageTransferSucceeded, MarkMessageTransferFailed, Working
  <2> QED BY <1>2, <2>1, CallerFinal
<1>3. ASSUME NEW c \in Callers, RetireCopy(c) \/ CompleteMovedMessage(c) PROVE RowsFinal
  <2>1. call[c].pc # "idle"
    BY <1>3 DEF RetireCopy, CompleteMovedMessage, Working
  <2>2. \/ Terminalize(c, "idle") \/ Terminalize(c, "delete")
        \/ Classify(call[c].uid, TRUE) \/ UNCHANGED journal
    BY <1>3 DEF RetireCopy, CompleteMovedMessage
  <2> QED BY <2>1, <2>2, TerminalizeFinal, ClassifyFinal, JournalFinal
<1>4. ASSUME NEW c \in Callers,
             \/ ReadTransfer(c) \/ SnapshotMailboxAppendBoundary(c) \/ CheckMove(c) \/ CheckCopy(c)
             \/ ResolveSucceededCopyDestination(c) \/ MoveMessageWithReceipt(c) \/ AppendMessage(c)
             \/ StoreCopiedMessage(c) \/ CleanupMovedMessage(c) \/ Abort(c) \/ Cancel(c)
      PROVE  RowsFinal
  BY <1>4, JournalFinal
     DEF ReadTransfer, SnapshotMailboxAppendBoundary, CheckMove, CheckCopy, ResolveSucceededCopyDestination,
         MoveMessageWithReceipt, AppendMessage, StoreCopiedMessage, CleanupMovedMessage, Abort, Cancel
<1>5. CASE \/ ClassifyArrival \/ \E removed \in BOOLEAN : SourceMissing(removed)
           \/ \E i \in 1..MaxRows : Expire(i)
  BY <1>5, ClassifyFinal, SyncFinal DEF ClassifyArrival, SourceMissing
<1>6. CASE \/ Crash \/ SourceReset \/ ClientDeletes \/ \E d \in Dests : ClientCopies(d)
           \/ \E m \in Dests \cup {Source} : NewGeneration(m)
  BY <1>6, JournalFinal DEF Crash, SourceReset, ClientDeletes, ClientCopies, NewGeneration
<1>7. CASE UNCHANGED vars
  BY <1>7, JournalFinal DEF vars
<1> QED BY <1>1, <1>2, <1>3, <1>4, <1>5, <1>6, <1>7 DEF Next

\* The outcome of a transfer is final: no late answer, retry, synchronisation or
\* arrival makes a success of a failure or a failure of a success, and no settled
\* row is opened again.
THEOREM OutcomesAreFinal == Spec => OutcomeFinal
<1>1. TransferInv /\ [Next]_vars => RowsFinal
  BY StepFinal
<1>2. RowsFinal => [\A i \in DOMAIN journal :
                      LET now == journal[i].state
                          next == journal'[i].state
                      IN /\ now = "succeeded" => next \in {"succeeded", "consumed"}
                         /\ now = "consumed" => next \in {"consumed", "gone"}
                         /\ now = "failed" => next \in {"failed", "gone"}]_vars
  BY DEF RowsFinal, MayBecome
<1> QED BY <1>1, <1>2, TransfersAlways, PTL DEF Spec, OutcomeFinal

====
