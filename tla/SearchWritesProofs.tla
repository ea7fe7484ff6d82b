------------------------- MODULE SearchWritesProofs -------------------------
(***************************************************************************)
(* Proofs about the search writes, for every set of operations and users,  *)
(* every request, size and limit, and both ways to divide the indexes, and *)
(* about the search documents of a mailbox, for any number of messages.    *)
(***************************************************************************)
EXTENDS SearchWrites, Indexing, FiniteSetTheorems, SequenceTheorems,
        NaturalsInduction, WellFoundedInduction, TLAPS

-----------------------------------------------------------------------------
(* Queues: what the operators on them do to their members *)

Members(q) == {q[k] : k \in 1..Len(q)}
Distinct(q) == \A i, k \in 1..Len(q) : q[i] = q[k] => i = k

\* A queue without one of its positions, place by place.
LEMMA RemoveAtPlaces ==
    ASSUME NEW S, NEW q \in Seq(S), NEW i \in 1..Len(q)
    PROVE  /\ RemoveAt(q, i) \in Seq(S)
           /\ Len(RemoveAt(q, i)) = Len(q) - 1
           /\ \A k \in 1..(Len(q) - 1) : RemoveAt(q, i)[k] = IF k < i THEN q[k] ELSE q[k + 1]
<1> DEFINE a == SubSeq(q, 1, i - 1)
           b == SubSeq(q, i + 1, Len(q))
           r == a \o b
<1>1. Len(q) \in Nat /\ i \in Nat /\ \A k \in 1..Len(q) : q[k] \in S
  OBVIOUS
<1>2. a \in Seq(S) /\ Len(a) = i - 1 /\ \A k \in 1..(i - 1) : a[k] = q[k]
  BY <1>1
<1>3. b \in Seq(S) /\ Len(b) = Len(q) - i /\ \A k \in 1..(Len(q) - i) : b[k] = q[i + k]
  BY <1>1
<1>4. RemoveAt(q, i) = r
  BY DEF RemoveAt
<1> HIDE DEF a, b
<1>5. /\ r \in Seq(S) /\ Len(r) = Len(q) - 1
      /\ \A k \in 1..(Len(q) - 1) : r[k] = IF k <= i - 1 THEN a[k] ELSE b[k - (i - 1)]
  <2>1. /\ r \in Seq(S) /\ Len(r) = Len(a) + Len(b)
        /\ \A k \in 1..(Len(a) + Len(b)) : r[k] = IF k <= Len(a) THEN a[k] ELSE b[k - Len(a)]
    BY <1>2, <1>3, ConcatProperties
  <2> QED BY <1>1, <1>2, <1>3, <2>1
<1> HIDE DEF r
<1>6. ASSUME NEW k \in 1..(Len(q) - 1)
      PROVE  r[k] = IF k < i THEN q[k] ELSE q[k + 1]
  <2>1. CASE k < i
    BY <1>1, <1>2, <1>5, <2>1
  <2>2. CASE k >= i
    <3>1. k - (i - 1) \in 1..(Len(q) - i) /\ i + (k - (i - 1)) = k + 1
      BY <1>1, <2>2
    <3>2. b[k - (i - 1)] = q[k + 1]
      BY <1>3, <3>1
    <3> QED BY <1>1, <1>5, <2>2, <3>2
  <2> QED BY <1>1, <2>1, <2>2
<1> QED BY <1>4, <1>5, <1>6

\* Removing a position removes its member and no other.
LEMMA RemoveAtMembers ==
    ASSUME NEW S, NEW q \in Seq(S), Distinct(q), NEW i \in 1..Len(q)
    PROVE  /\ RemoveAt(q, i) \in Seq(S)
           /\ Distinct(RemoveAt(q, i))
           /\ Members(RemoveAt(q, i)) = Members(q) \ {q[i]}
<1> DEFINE r == RemoveAt(q, i)
<1>1. /\ r \in Seq(S) /\ Len(r) = Len(q) - 1 /\ Len(q) \in Nat
      /\ \A k \in 1..(Len(q) - 1) : r[k] = IF k < i THEN q[k] ELSE q[k + 1]
  BY RemoveAtPlaces
<1> HIDE DEF r
<1>2. Distinct(r)
  BY <1>1 DEF Distinct
<1>3. ASSUME NEW x \in Members(r) PROVE x \in Members(q) \ {q[i]}
  BY <1>1, <1>3 DEF Members, Distinct
<1>4. ASSUME NEW x \in Members(q) \ {q[i]} PROVE x \in Members(r)
  <2>1. PICK k \in 1..Len(q) : x = q[k] /\ k /= i
    BY <1>4 DEF Members
  <2>2. CASE k < i
    BY <1>1, <2>1, <2>2 DEF Members
  <2>3. CASE k > i
    <3>1. k - 1 \in 1..(Len(q) - 1) /\ r[k - 1] = q[k]
      BY <1>1, <2>1, <2>3
    <3> QED BY <1>1, <2>1, <3>1 DEF Members
  <2> QED BY <1>1, <2>1, <2>2, <2>3
<1> QED BY <1>1, <1>2, <1>3, <1>4 DEF r

\* A newcomer goes to the end.
LEMMA AppendMembers ==
    ASSUME NEW S, NEW q \in Seq(S), Distinct(q), NEW x \in S, x \notin Members(q)
    PROVE  /\ Append(q, x) \in Seq(S)
           /\ Distinct(Append(q, x))
           /\ Members(Append(q, x)) = Members(q) \cup {x}
<1>1. /\ Append(q, x) \in Seq(S) /\ Len(Append(q, x)) = Len(q) + 1 /\ Len(q) \in Nat
      /\ \A k \in 1..Len(q) : Append(q, x)[k] = q[k]
      /\ Append(q, x)[Len(q) + 1] = x
  OBVIOUS
<1> QED BY <1>1 DEF Distinct, Members

\* The first leaves a queue that has one.
LEMMA TailMembers ==
    ASSUME NEW S, NEW q \in Seq(S), Distinct(q), q /= <<>>
    PROVE  /\ Tail(q) \in Seq(S)
           /\ Distinct(Tail(q))
           /\ Head(q) \in Members(q)
           /\ Members(Tail(q)) = Members(q) \ {Head(q)}
<1>1. /\ Tail(q) \in Seq(S) /\ Len(Tail(q)) = Len(q) - 1 /\ Len(q) \in Nat \ {0}
      /\ \A k \in 1..(Len(q) - 1) : Tail(q)[k] = q[k + 1]
      /\ Head(q) = q[1]
  OBVIOUS
<1>2. Distinct(Tail(q)) /\ Head(q) \in Members(q)
  BY <1>1 DEF Distinct, Members
<1>3. ASSUME NEW x \in Members(Tail(q)) PROVE x \in Members(q) \ {Head(q)}
  BY <1>1, <1>3 DEF Members, Distinct
<1>4. ASSUME NEW x \in Members(q) \ {Head(q)} PROVE x \in Members(Tail(q))
  <2>1. PICK k \in 1..Len(q) : x = q[k] /\ k /= 1
    BY <1>1, <1>4 DEF Members
  <2>2. k - 1 \in 1..(Len(q) - 1) /\ Tail(q)[k - 1] = q[k]
    BY <1>1, <2>1
  <2> QED BY <1>1, <2>1, <2>2 DEF Members
<1> QED BY <1>1, <1>2, <1>3, <1>4

\* A member has a position.
LEMMA IndexInMembers ==
    ASSUME NEW S, NEW q \in Seq(S), NEW x \in Members(q)
    PROVE  IndexIn(q, x) \in 1..Len(q) /\ q[IndexIn(q, x)] = x
BY DEF Members, IndexIn

-----------------------------------------------------------------------------
(* The inductive invariant *)

\* Places an operation is in between its Acquire and the end of its Release.
Admitting == {"waiting", "project", "map", "lock", "lockWait", "locked", "batch", "unlock", "release"}

\* The wait queue holds the operations that wait for a lease, once each, and an
\* operation that got past it holds its lease until it gives it back.
QueueInv ==
    /\ Distinct(waiters)
    /\ Members(waiters) = {w \in Writers : Queued(w)}
    /\ \A w \in leased : pc[w] \in Admitting
    /\ \A w \in Writers : pc[w] \in Admitting \ {"waiting"} => w \in leased

\* The operation holds its index's writer lock, or the lock has been passed to it.
Owns(w) == pc[w] \in {"locked", "batch", "unlock"} \/ w \in granted

\* One owner per lock, and a queue of exactly the others that want it.
LockInv ==
    /\ \A w \in granted : pc[w] = "lockWait"
    /\ \A w \in Writers : Owns(w) => held[IndexOf(w)]
    /\ \A v, w \in Writers : Owns(v) /\ Owns(w) /\ IndexOf(v) = IndexOf(w) => v = w
    /\ \A i \in Indexes :
          /\ Distinct(lockWaiters[i])
          /\ Members(lockWaiters[i]) =
                {w \in Writers : pc[w] = "lockWait" /\ w \notin granted /\ IndexOf(w) = i}

WritesInv == TypeOK /\ QueueInv /\ LockInv

\* The counters are the leases, and no grant went over a limit.
CountInv ==
    /\ activeWrites = Cardinality(leased) /\ activeWrites <= MaxActive
    /\ \A u \in Users : /\ activeUsers[u] = Cardinality({w \in leased : UserOf[w] = u})
                        /\ activeUsers[u] <= 1

\* An operation is in the wait group from its start to its end, and the indexes
\* are closed when the group is empty and can no longer grow.
CloseInv ==
    /\ \A w \in Writers : pc[w] /= "idle" => w \in writes
    /\ closed => closing /\ writes = {}

-----------------------------------------------------------------------------
(* Type correctness *)

\* What holds of the constants, piece by piece.
LEMMA Constants ==
    /\ \A w \in Writers : UserOf[w] \in Users /\ UserOf[w] \in Nat /\ IndexOf(w) \in Indexes
    /\ \A w \in Writers : Requests[w] \subseteq Request
    /\ \A r \in Request : r.bytes \in Nat
    /\ NoRequest \in Request
    /\ \A a, b \in Nat : Plus(a, b) \in Nat /\ Minus(a, b) \in Nat
BY SearchConstants
DEF SearchConstants, Users, Indexes, IndexOf, Request, NoRequest, Foreground, Plus, Minus

\* Every initial state has the declared types.
LEMMA InitType == Init => TypeOK
<1> SUFFICES ASSUME Init PROVE TypeOK
  OBVIOUS
<1>1. age \in [Writers -> 0..Foreground]
  BY DEF Init, Foreground
<1>2. pc \in [Writers -> PCs] /\ request \in [Writers -> Request] /\ bytes \in [Writers -> Nat]
  BY Constants DEF Init, PCs
<1>3. <<>> \in Seq(Writers)
  OBVIOUS
<1>4. lockWaiters \in [Indexes -> Seq(Writers)] /\ waiters \in Seq(Writers)
  BY <1>3 DEF Init
<1> QED BY <1>1, <1>2, <1>4 DEF Init, TypeOK

\* A step to one of the places keeps the type of pc.
LEMMA PlaceType ==
    ASSUME TypeOK, NEW w \in Writers, NEW place \in PCs, GoTo(w, place)
    PROVE  /\ pc' \in [Writers -> PCs]
           /\ pc'[w] = place
           /\ \A v \in Writers \ {w} : pc'[v] = pc[v]
BY DEF TypeOK, GoTo

\* An age in range keeps the type of age.
LEMMA AgeType ==
    ASSUME TypeOK, NEW w \in Writers
    PROVE  /\ 0 \in 0..Foreground
           /\ \A a \in 0..Foreground : [age EXCEPT ![w] = a] \in [Writers -> 0..Foreground]
BY DEF TypeOK, Foreground

\* A waiter that dispatchLocked admits is one of the queue.
LEMMA CandidateQueued ==
    ASSUME NEW i \in Candidates
    PROVE  i \in DOMAIN waiters
BY DEF Candidates, Runnable

\* One round of dispatchLocked.
LEMMA DispatchType == WritesInv /\ DispatchLocked => TypeOK'
<1> SUFFICES ASSUME WritesInv, DispatchLocked PROVE TypeOK'
  OBVIOUS
<1> USE DEF opVars, coordVars, lockVars, svcVars, WritesInv
<1>1. CASE Admissible
  <2> DEFINE i == CHOOSE i \in Candidates : TRUE
             w == waiters[i]
  <2>1. i \in DOMAIN waiters
    BY <1>1, CandidateQueued DEF Admissible
  <2>2. /\ waiters' = RemoveAt(waiters, i) /\ leased' = leased \cup {w}
        /\ activeWrites' = activeWrites + 1 /\ activeBytes' = Plus(activeBytes, bytes[w])
        /\ activeUsers' = [activeUsers EXCEPT ![UserOf[w]] = @ + 1]
        /\ UNCHANGED <<bytes, age, dispatching, opVars, lockVars, svcVars>>
    BY <1>1 DEF DispatchLocked
  <2> HIDE DEF i
  <2>3. i \in 1..Len(waiters) /\ w \in Writers
    BY <2>1 DEF TypeOK
  <2>4. waiters' \in Seq(Writers)
    BY <2>2, <2>3, RemoveAtPlaces DEF TypeOK
  <2>5. activeUsers[UserOf[w]] \in Nat /\ UserOf[w] \in Users /\ bytes[w] \in Nat
    BY <2>3, Constants DEF TypeOK
  <2> HIDE DEF w
  <2>6. activeBytes' \in Nat /\ activeUsers' \in [Users -> Nat] /\ leased' \subseteq Writers
    <3>1. activeBytes \in Nat /\ activeUsers \in [Users -> Nat] /\ leased \subseteq Writers
      BY DEF TypeOK
    <3>2. activeBytes' \in Nat
      BY <2>2, <2>5, <3>1, Constants
    <3>3. [activeUsers EXCEPT ![UserOf[w]] = @ + 1] \in [Users -> Nat]
      BY <2>5, <3>1
    <3> QED BY <2>2, <2>3, <3>1, <3>2, <3>3
  <2>7. activeWrites' \in Nat
    <3>1. activeWrites \in Nat
      BY DEF TypeOK
    <3> QED BY <2>2, <3>1
  <2>8. UNCHANGED <<pc, request, ctxDone, bytes, age, dispatching, held, lockWaiters, granted,
                    writes, closing, closed>>
    BY <2>2
  <2> QED BY <2>4, <2>6, <2>7, <2>8 DEF TypeOK
<1>2. CASE ~Admissible
  BY <1>2 DEF DispatchLocked, TypeOK
<1> QED BY <1>1, <1>2

\* The coordinator's calls.
LEMMA CoordinatorType ==
    ASSUME WritesInv, NEW w \in Writers,
           \/ BeginWrite(w) \/ Acquire(w) \/ ReceiveLease(w) \/ CancelWaiter(w)
           \/ Project(w) \/ MapBatch(w) \/ Release(w) \/ WriteDone(w)
    PROVE  TypeOK'
<1> USE Constants DEF opVars, coordVars, lockVars, svcVars, WritesInv
<1>a. ASSUME NEW b \in Nat, UpdateBytes(w, b)
      PROVE  /\ bytes' \in [Writers -> Nat] /\ activeBytes' \in Nat /\ dispatching' \in BOOLEAN
             /\ UNCHANGED <<waiters, age, leased, activeWrites, activeUsers>>
  <2>1. ReconciledBytes(w, b) \in Nat
    BY DEF ReconciledBytes, TypeOK
  <2> QED BY <1>a, <2>1 DEF UpdateBytes, TypeOK
<1>1. CASE BeginWrite(w)
  <2>1. PICK r \in Requests[w] :
           request' = [request EXCEPT ![w] = r] /\ bytes' = [bytes EXCEPT ![w] = r.bytes]
    BY <1>1 DEF BeginWrite
  <2>2. r \in Request /\ r.bytes \in Nat
    OBVIOUS
  <2>3. request' \in [Writers -> Request] /\ bytes' \in [Writers -> Nat]
    BY <2>1, <2>2 DEF TypeOK
  <2>4. pc' \in [Writers -> PCs] /\ writes' \subseteq Writers
    BY <1>1, PlaceType DEF BeginWrite, PCs, TypeOK
  <2>5. UNCHANGED <<ctxDone, waiters, age, leased, activeWrites, activeBytes, activeUsers, dispatching,
                    lockVars, closing, closed>>
    BY <1>1 DEF BeginWrite
  <2> QED BY <2>3, <2>4, <2>5 DEF TypeOK
<1>2. CASE Acquire(w)
  <2>1. waiters' \in Seq(Writers) /\ dispatching' \in BOOLEAN
    <3>1. Append(waiters, w) \in Seq(Writers) /\ waiters \in Seq(Writers) /\ dispatching \in BOOLEAN
      BY DEF TypeOK
    <3>2. \/ waiters' = waiters /\ dispatching' = dispatching
          \/ waiters' = Append(waiters, w) /\ dispatching' = TRUE
      BY <1>2 DEF Acquire
    <3> QED BY <3>1, <3>2
  <2>2. age' \in [Writers -> 0..Foreground]
    BY <1>2, AgeType DEF Acquire, TypeOK
  <2>3. pc' \in [Writers -> PCs]
    BY <1>2, PlaceType DEF Acquire, PCs, AfterNoLease
  <2> QED BY <1>2, <2>1, <2>2, <2>3 DEF Acquire, TypeOK
<1>3. CASE ReceiveLease(w)
  BY <1>3, PlaceType DEF ReceiveLease, TypeOK, PCs
<1>4. CASE CancelWaiter(w)
  <2>1. waiters' \in Seq(Writers)
    <3>1. CASE w \in leased
      BY <1>4, <3>1 DEF CancelWaiter, TypeOK
    <3>2. CASE w \notin leased
      <4>1. w \in Members(waiters)
        BY <1>4, <3>2 DEF CancelWaiter, QueueInv, Queued
      <4> QED BY <1>4, <3>2, <4>1, IndexInMembers, RemoveAtPlaces DEF CancelWaiter, TypeOK
    <3> QED BY <3>1, <3>2
  <2> QED BY <1>4, <2>1, PlaceType DEF CancelWaiter, ThenDispatch, TypeOK, PCs, AfterNoLease
<1>5. CASE Project(w)
  BY <1>5, <1>a, PlaceType, SearchConstants DEF SearchConstants, Project, TypeOK, PCs
<1>6. CASE MapBatch(w)
  BY <1>6, <1>a, PlaceType, SearchConstants DEF SearchConstants, MapBatch, TypeOK, PCs
<1>7. CASE Release(w)
  BY <1>7, PlaceType DEF Release, TypeOK, PCs
<1>8. CASE WriteDone(w)
  <2>1. age' \in [Writers -> 0..Foreground]
    BY <1>8, AgeType DEF WriteDone
  <2>2. request' \in [Writers -> Request] /\ bytes' \in [Writers -> Nat]
    BY <1>8 DEF WriteDone, TypeOK
  <2>3. pc' \in [Writers -> PCs]
    BY <1>8, PlaceType DEF WriteDone, PCs
  <2> QED BY <1>8, <2>1, <2>2, <2>3 DEF WriteDone, TypeOK
<1> QED BY <1>1, <1>2, <1>3, <1>4, <1>5, <1>6, <1>7, <1>8

\* The writer lock and the batch.
LEMMA LockType ==
    ASSUME WritesInv, NEW w \in Writers,
           \/ LockWriter(w) \/ LockGranted(w) \/ CancelLockWait(w)
           \/ StartOperation(w) \/ BatchReturns(w) \/ Unlock(w)
    PROVE  TypeOK'
<1> USE Constants DEF opVars, coordVars, lockVars, svcVars, WritesInv
<1> DEFINE i == IndexOf(w)
<1>0. i \in Indexes /\ lockWaiters[i] \in Seq(Writers)
  BY DEF TypeOK
<1>1. CASE LockWriter(w)
  <2>1. lockWaiters' \in [Indexes -> Seq(Writers)]
    <3>1. Append(lockWaiters[i], w) \in Seq(Writers)
      BY <1>0
    <3> QED BY <1>0, <1>1, <3>1 DEF LockWriter, TypeOK
  <2>2. held' \in [Indexes -> BOOLEAN] /\ granted' \subseteq Writers
    BY <1>0, <1>1 DEF LockWriter, TypeOK
  <2>3. pc' \in [Writers -> PCs]
    BY <1>1, PlaceType DEF LockWriter, PCs
  <2> QED BY <1>1, <2>1, <2>2, <2>3 DEF LockWriter, TypeOK
<1>2. CASE LockGranted(w)
  BY <1>2, PlaceType DEF LockGranted, TypeOK, PCs
<1>3. CASE CancelLockWait(w)
  <2>1. lockWaiters' \in [Indexes -> Seq(Writers)] /\ granted' \subseteq Writers
    <3>1. CASE w \in granted
      BY <1>3, <3>1 DEF CancelLockWait, TypeOK
    <3>2. CASE w \notin granted
      <4>1. w \in Members(lockWaiters[i])
        BY <1>0, <1>3, <3>2 DEF CancelLockWait, LockInv
      <4>2. RemoveAt(lockWaiters[i], IndexIn(lockWaiters[i], w)) \in Seq(Writers)
        BY <1>0, <4>1, IndexInMembers, RemoveAtPlaces
      <4> QED BY <1>3, <3>2, <4>2 DEF CancelLockWait, TypeOK
    <3> QED BY <3>1, <3>2
  <2> QED BY <1>3, <2>1, PlaceType DEF CancelLockWait, TypeOK, PCs
<1>4. CASE StartOperation(w)
  BY <1>4, PlaceType DEF StartOperation, TypeOK, PCs
<1>5. CASE BatchReturns(w)
  BY <1>5, PlaceType DEF BatchReturns, TypeOK, PCs
<1>6. CASE Unlock(w)
  <2>1. lockWaiters[i] /= <<>> =>
            Head(lockWaiters[i]) \in Writers /\ Tail(lockWaiters[i]) \in Seq(Writers)
    BY <1>0
  <2>2. held' \in [Indexes -> BOOLEAN] /\ HeldAfterUnlock(i) \in BOOLEAN
    BY <1>6 DEF Unlock, HeldAfterUnlock, TypeOK
  <2>3. lockWaiters' \in [Indexes -> Seq(Writers)] /\ granted' \subseteq Writers
    BY <1>6, <2>1 DEF Unlock, TypeOK
  <2> QED BY <1>6, <2>2, <2>3, PlaceType DEF Unlock, TypeOK, PCs
<1> QED BY <1>1, <1>2, <1>3, <1>4, <1>5, <1>6

\* Every step keeps the declared types.
LEMMA NextType == WritesInv /\ [Next]_vars => TypeOK'
<1> SUFFICES ASSUME WritesInv, [Next]_vars PROVE TypeOK'
  OBVIOUS
<1> USE DEF opVars, coordVars, lockVars, svcVars, WritesInv
<1>1. ASSUME NEW w \in Writers, ContextDone(w) PROVE TypeOK'
  BY <1>1 DEF ContextDone, TypeOK
<1>4. ASSUME NEW w \in Writers, AgingIntervalPasses(w) PROVE TypeOK'
  <2>1. age[w] + 1 \in 0..Foreground
    BY <1>4 DEF AgingIntervalPasses, TypeOK, Foreground
  <2>2. age' \in [Writers -> 0..Foreground]
    BY <1>4, <2>1, AgeType DEF AgingIntervalPasses
  <2> QED BY <1>4, <2>2 DEF AgingIntervalPasses, TypeOK
<1>2. CASE Close \/ CloseAfterWrites
  BY <1>2 DEF Close, CloseAfterWrites, TypeOK
<1>3. CASE UNCHANGED vars
  BY <1>3 DEF vars, TypeOK
<1> QED
  BY <1>1, <1>2, <1>3, <1>4, DispatchType, CoordinatorType, LockType DEF Next, Operation, Stopped

-----------------------------------------------------------------------------
(* The queue of the coordinator *)

\* An operation that moves from place to place keeps the queue as it is, if it
\* did not wait in it and holds a lease exactly where it should.
LEMMA QueueKept ==
    ASSUME TypeOK, QueueInv, NEW w \in Writers, NEW place \in PCs \ {"waiting"}, GoTo(w, place),
           UNCHANGED <<waiters, leased>>, ~Queued(w), w \in leased <=> place \in Admitting
    PROVE  QueueInv'
<1>1. pc'[w] = place /\ \A v \in Writers \ {w} : pc'[v] = pc[v]
  BY PlaceType
<1>2. leased \subseteq Writers
  BY DEF TypeOK
<1>3. {v \in Writers : Queued(v)}' = {v \in Writers : Queued(v)}
  BY <1>1 DEF Queued
<1>4. Distinct(waiters)' /\ Members(waiters)' = Members(waiters)
  BY DEF QueueInv, Members, Distinct
<1>5. \A v \in leased' : pc'[v] \in Admitting
  BY <1>1, <1>2 DEF QueueInv
<1>6. \A v \in Writers : pc'[v] \in Admitting \ {"waiting"} => v \in leased'
  BY <1>1 DEF QueueInv
<1> QED BY <1>3, <1>4, <1>5, <1>6 DEF QueueInv

\* A step that touches neither the places nor the queue.
LEMMA QueueUntouched == QueueInv /\ UNCHANGED <<pc, waiters, leased>> => QueueInv'
BY DEF QueueInv, Members, Distinct, Queued

\* A newcomer joins the queue.
LEMMA AcquireQueue == ASSUME WritesInv, NEW w \in Writers, Acquire(w) PROVE QueueInv'
<1> USE DEF WritesInv
<1>1. pc[w] = "acquire" /\ w \notin leased /\ ~Queued(w) /\ leased' = leased
  BY DEF Acquire, QueueInv, Admitting, Queued
<1>2. CASE w \in ctxDone
  <2>1. GoTo(w, "done") /\ UNCHANGED <<waiters, leased>>
    BY <1>1, <1>2 DEF Acquire, AfterNoLease
  <2> QED BY <1>1, <2>1, QueueKept DEF PCs, Admitting
<1>3. CASE w \notin ctxDone
  <2>1. waiters' = Append(waiters, w) /\ GoTo(w, "waiting")
    BY <1>3 DEF Acquire
  <2>2. pc'[w] = "waiting" /\ \A v \in Writers \ {w} : pc'[v] = pc[v]
    BY <2>1, PlaceType DEF PCs
  <2>3. w \notin Members(waiters) /\ waiters \in Seq(Writers) /\ Distinct(waiters)
    BY <1>1 DEF QueueInv, TypeOK
  <2>4. Distinct(waiters') /\ Members(waiters') = Members(waiters) \cup {w}
    BY <2>1, <2>3, AppendMembers
  <2>5. {v \in Writers : Queued(v)}' = {v \in Writers : Queued(v)} \cup {w}
    BY <1>1, <2>2 DEF Queued
  <2>6. /\ \A v \in leased' : pc'[v] \in Admitting
        /\ \A v \in Writers : pc'[v] \in Admitting \ {"waiting"} => v \in leased'
    BY <1>1, <2>2 DEF QueueInv, TypeOK
  <2> QED BY <2>4, <2>5, <2>6 DEF QueueInv, Members, Distinct
<1> QED BY <1>2, <1>3

\* A canceled waiter leaves the queue, or has a lease to give back.
LEMMA CancelQueue == ASSUME WritesInv, NEW w \in Writers, CancelWaiter(w) PROVE QueueInv'
<1> USE DEF WritesInv
<1>1. pc[w] = "waiting" /\ leased' = leased
  BY DEF CancelWaiter
<1>2. CASE w \in leased
  <2>1. GoTo(w, "release") /\ UNCHANGED <<waiters, leased>> /\ ~Queued(w)
    BY <1>1, <1>2 DEF CancelWaiter, Queued
  <2> QED BY <1>2, <2>1, QueueKept DEF PCs, Admitting
<1>3. CASE w \notin leased
  <2>1. waiters' = RemoveAt(waiters, IndexIn(waiters, w)) /\ GoTo(w, "done")
    BY <1>3 DEF CancelWaiter, AfterNoLease
  <2>2. pc'[w] = "done" /\ \A v \in Writers \ {w} : pc'[v] = pc[v]
    BY <2>1, PlaceType DEF PCs
  <2>3. w \in Members(waiters) /\ waiters \in Seq(Writers) /\ Distinct(waiters)
    BY <1>1, <1>3 DEF QueueInv, Queued, TypeOK
  <2>4. Distinct(waiters') /\ Members(waiters') = Members(waiters) \ {w}
    BY <2>1, <2>3, IndexInMembers, RemoveAtMembers
  <2>5. {v \in Writers : Queued(v)}' = {v \in Writers : Queued(v)} \ {w}
    BY <1>1, <2>2 DEF Queued
  <2>6. /\ \A v \in leased' : pc'[v] \in Admitting
        /\ \A v \in Writers : pc'[v] \in Admitting \ {"waiting"} => v \in leased'
    BY <1>1, <1>3, <2>2 DEF QueueInv, TypeOK, Admitting
  <2> QED BY <2>4, <2>5, <2>6 DEF QueueInv, Members, Distinct
<1> QED BY <1>2, <1>3

\* What one round of dispatchLocked does when it admits a waiter.
LEMMA Grant ==
    ASSUME WritesInv, DispatchLocked, Admissible
    PROVE  \E i \in 1..Len(waiters) :
              LET w == waiters[i] IN
              /\ w \in Writers /\ Queued(w) /\ activeUsers[UserOf[w]] = 0
              /\ waiters' = RemoveAt(waiters, i) /\ leased' = leased \cup {w}
              /\ activeWrites < MaxActive /\ activeWrites' = activeWrites + 1
              /\ activeUsers' = [activeUsers EXCEPT ![UserOf[w]] = @ + 1]
              /\ UNCHANGED <<pc, dispatching>>
<1> DEFINE i == CHOOSE i \in Candidates : TRUE
<1>1. i \in Candidates
  BY DEF Admissible
<1>2. i \in DOMAIN waiters /\ activeUsers[UserOf[waiters[i]]] = 0
  BY <1>1 DEF Candidates, Runnable
<1>3. LET w == waiters[i] IN
      /\ waiters' = RemoveAt(waiters, i) /\ leased' = leased \cup {w}
      /\ activeWrites < MaxActive /\ activeWrites' = activeWrites + 1
      /\ activeUsers' = [activeUsers EXCEPT ![UserOf[w]] = @ + 1]
      /\ UNCHANGED <<pc, dispatching>>
  BY DEF DispatchLocked, Admissible, opVars
<1> HIDE DEF i
<1>4. i \in 1..Len(waiters) /\ waiters[i] \in Writers
  BY <1>2 DEF WritesInv, TypeOK
<1>5. Queued(waiters[i])
  <2>1. waiters[i] \in Members(waiters)
    BY <1>4 DEF Members
  <2> QED BY <2>1 DEF WritesInv, QueueInv
<1> QED BY <1>2, <1>3, <1>4, <1>5

\* dispatchLocked takes the admitted waiter out of the queue.
LEMMA DispatchQueue == WritesInv /\ DispatchLocked => QueueInv'
<1> SUFFICES ASSUME WritesInv, DispatchLocked PROVE QueueInv'
  OBVIOUS
<1> USE DEF WritesInv
<1>1. CASE Admissible
  <2>1. PICK i \in 1..Len(waiters) :
              /\ waiters[i] \in Writers /\ Queued(waiters[i])
              /\ waiters' = RemoveAt(waiters, i) /\ leased' = leased \cup {waiters[i]}
              /\ pc' = pc
    BY <1>1, Grant
  <2>2. waiters \in Seq(Writers) /\ Distinct(waiters)
    BY DEF TypeOK, QueueInv
  <2>3. Distinct(waiters') /\ Members(waiters') = Members(waiters) \ {waiters[i]}
    BY <2>1, <2>2, RemoveAtMembers
  <2>4. {v \in Writers : Queued(v)}' = {v \in Writers : Queued(v)} \ {waiters[i]}
    BY <2>1 DEF Queued
  <2>5. /\ \A v \in leased' : pc'[v] \in Admitting
        /\ \A v \in Writers : pc'[v] \in Admitting \ {"waiting"} => v \in leased'
    BY <2>1 DEF QueueInv, Queued, Admitting
  <2> QED BY <2>3, <2>4, <2>5 DEF QueueInv, Members, Distinct
<1>2. CASE ~Admissible
  BY <1>2, QueueUntouched DEF DispatchLocked, opVars
<1> QED BY <1>1, <1>2

\* The lease goes back.
LEMMA ReleaseQueue == ASSUME WritesInv, NEW w \in Writers, Release(w) PROVE QueueInv'
<1> USE DEF WritesInv
<1>1. pc[w] = "release" /\ GoTo(w, "done") /\ leased' = leased \ {w} /\ waiters' = waiters
  BY DEF Release
<1>2. pc'[w] = "done" /\ \A v \in Writers \ {w} : pc'[v] = pc[v]
  BY <1>1, PlaceType DEF PCs
<1>3. {v \in Writers : Queued(v)}' = {v \in Writers : Queued(v)}
  BY <1>1, <1>2 DEF Queued
<1>4. /\ \A v \in leased' : pc'[v] \in Admitting
      /\ \A v \in Writers : pc'[v] \in Admitting \ {"waiting"} => v \in leased'
  BY <1>1, <1>2 DEF QueueInv, TypeOK, Admitting
<1>5. Distinct(waiters)' /\ Members(waiters)' = Members(waiters)
  BY <1>1 DEF QueueInv, Members, Distinct
<1> QED BY <1>3, <1>4, <1>5 DEF QueueInv

\* The places an operation moves between when it does not wait for a lease.
LEMMA MovesQueue ==
    ASSUME WritesInv, NEW w \in Writers,
           \/ BeginWrite(w) \/ ReceiveLease(w) \/ Project(w) \/ MapBatch(w) \/ LockWriter(w)
           \/ LockGranted(w) \/ CancelLockWait(w) \/ StartOperation(w) \/ BatchReturns(w)
           \/ Unlock(w) \/ WriteDone(w)
    PROVE  QueueInv'
<1> USE DEF WritesInv, Admitting, PCs
<1>1. CASE BeginWrite(w) \/ WriteDone(w)
  <2>1. PICK place \in {"acquire", "idle"} : GoTo(w, place)
    BY <1>1 DEF BeginWrite, WriteDone
  <2>2. pc[w] \in {"idle", "done"} /\ UNCHANGED <<waiters, leased>>
    BY <1>1 DEF BeginWrite, WriteDone
  <2>3. w \notin leased /\ ~Queued(w)
    BY <2>2 DEF QueueInv, Queued
  <2> QED BY <2>1, <2>2, <2>3, QueueKept
<1>2. CASE ~(BeginWrite(w) \/ WriteDone(w))
  <2> DEFINE Holding == Admitting \ {"waiting"}
  <2>1. UNCHANGED <<waiters, leased>>
    BY <1>2 DEF ReceiveLease, Project, MapBatch, UpdateBytes, LockWriter, LockGranted, CancelLockWait,
                StartOperation, BatchReturns, Unlock, coordVars
  <2>2. PICK place \in Holding : GoTo(w, place)
    BY <1>2 DEF ReceiveLease, Project, MapBatch, LockWriter, LockGranted, CancelLockWait,
                StartOperation, BatchReturns, Unlock
  <2>3. w \in leased
    BY <1>2 DEF QueueInv, ReceiveLease, Project, MapBatch, LockWriter, LockGranted, CancelLockWait,
                StartOperation, BatchReturns, Unlock
  <2>4. ~Queued(w)
    BY <2>3 DEF Queued
  <2> QED BY <2>1, <2>2, <2>3, <2>4, QueueKept
<1> QED BY <1>1, <1>2

\* No step breaks the queue.
LEMMA NextQueue == WritesInv /\ [Next]_vars => QueueInv'
<1> SUFFICES ASSUME WritesInv, [Next]_vars PROVE QueueInv'
  OBVIOUS
<1>1. ASSUME NEW w \in Writers, ContextDone(w) \/ AgingIntervalPasses(w) PROVE QueueInv'
  BY <1>1, QueueUntouched DEF ContextDone, AgingIntervalPasses, coordVars, opVars, WritesInv
<1>2. CASE Close \/ CloseAfterWrites \/ UNCHANGED vars
  BY <1>2, QueueUntouched DEF Close, CloseAfterWrites, vars, opVars, coordVars, WritesInv
<1> QED BY <1>1, <1>2, AcquireQueue, CancelQueue, DispatchQueue, ReleaseQueue, MovesQueue
        DEF Next, Operation, Stopped

-----------------------------------------------------------------------------
(* The writer locks *)

Holding == {"locked", "batch", "unlock"}

\* A step that leaves the locks alone, and whose operation neither takes nor
\* gives up one.
LEMMA LocksKept ==
    ASSUME TypeOK, LockInv, NEW w \in Writers, NEW place \in PCs \ {"lockWait"}, GoTo(w, place),
           UNCHANGED lockVars, pc[w] /= "lockWait", pc[w] \in Holding <=> place \in Holding
    PROVE  LockInv'
<1>1. pc'[w] = place /\ \A v \in Writers \ {w} : pc'[v] = pc[v]
  BY PlaceType
<1>2. held' = held /\ lockWaiters' = lockWaiters /\ granted' = granted /\ granted \subseteq Writers
  BY DEF lockVars, TypeOK
<1>3. \A v \in Writers : Owns(v)' <=> Owns(v)
  BY <1>1, <1>2 DEF Owns, Holding
<1>4. \A i \in Indexes :
         {v \in Writers : pc[v] = "lockWait" /\ v \notin granted /\ IndexOf(v) = i}'
           = {v \in Writers : pc[v] = "lockWait" /\ v \notin granted /\ IndexOf(v) = i}
  BY <1>1, <1>2
<1>5. \A i \in Indexes : Distinct(lockWaiters[i])' /\ Members(lockWaiters[i])' = Members(lockWaiters[i])
  BY <1>2 DEF LockInv, Distinct, Members
<1>6. \A v \in granted' : pc'[v] = "lockWait"
  BY <1>1, <1>2 DEF LockInv
<1>7. \A v \in Writers : Owns(v)' => held'[IndexOf(v)]
  BY <1>2, <1>3 DEF LockInv
<1>8. \A v, u \in Writers : Owns(v)' /\ Owns(u)' /\ IndexOf(v) = IndexOf(u) => v = u
  BY <1>3 DEF LockInv
<1> QED BY <1>4, <1>5, <1>6, <1>7, <1>8 DEF LockInv, IndexOf, Indexes

\* A step that touches neither the places nor the locks.
LEMMA LocksUntouched == LockInv /\ UNCHANGED <<pc, lockVars>> => LockInv'
BY DEF LockInv, Members, Distinct, Owns, lockVars, IndexOf, Indexes

\* lockWriter: the free lock is taken, or the operation queues for it.
LEMMA LockWriterLocks == ASSUME WritesInv, NEW w \in Writers, LockWriter(w) PROVE LockInv'
<1> USE DEF WritesInv
<1> DEFINE i == IndexOf(w)
<1>1. pc[w] = "lock" /\ w \notin granted /\ i \in Indexes /\ ~Owns(w)
  BY Constants DEF LockWriter, LockInv, Owns
<1>2. CASE w \in ctxDone
  <2>1. GoTo(w, "release") /\ UNCHANGED lockVars
    BY <1>2 DEF LockWriter
  <2> QED BY <1>1, <2>1, LocksKept DEF PCs, Holding
<1>3. CASE w \notin ctxDone /\ ~held[i] /\ lockWaiters[i] = <<>>
  <2>1. /\ held' = [held EXCEPT ![i] = TRUE] /\ GoTo(w, "locked")
        /\ lockWaiters' = lockWaiters /\ granted' = granted
    BY <1>3 DEF LockWriter
  <2>2. pc'[w] = "locked" /\ \A v \in Writers \ {w} : pc'[v] = pc[v]
    BY <2>1, PlaceType DEF PCs
  <2>3. held' = [held EXCEPT ![i] = TRUE] /\ held'[i] /\ \A k \in Indexes : held[k] => held'[k]
    BY <1>1, <2>1 DEF TypeOK
  <2>4. \A v \in Writers \ {w} : Owns(v)' <=> Owns(v)
    BY <2>1, <2>2 DEF Owns
  <2>5. \A v \in Writers : Owns(v) => IndexOf(v) /= i
    BY <1>3 DEF LockInv
  <2>6. \A k \in Indexes :
           {v \in Writers : pc[v] = "lockWait" /\ v \notin granted /\ IndexOf(v) = k}'
             = {v \in Writers : pc[v] = "lockWait" /\ v \notin granted /\ IndexOf(v) = k}
    BY <1>1, <2>1, <2>2
  <2>7. \A k \in Indexes : Distinct(lockWaiters[k])' /\ Members(lockWaiters[k])' = Members(lockWaiters[k])
    BY <2>1 DEF LockInv, Distinct, Members
  <2>8. \A v \in granted' : pc'[v] = "lockWait"
    BY <1>1, <2>1, <2>2 DEF LockInv, TypeOK
  <2>9. \A v \in Writers : Owns(v)' => held'[IndexOf(v)]
    BY <2>3, <2>4, Constants DEF LockInv
  <2>10. \A v, u \in Writers : Owns(v)' /\ Owns(u)' /\ IndexOf(v) = IndexOf(u) => v = u
    BY <2>4, <2>5 DEF LockInv
  <2> QED BY <2>6, <2>7, <2>8, <2>9, <2>10 DEF LockInv, IndexOf, Indexes
<1>4. CASE w \notin ctxDone /\ (held[i] \/ lockWaiters[i] /= <<>>)
  <2>1. /\ lockWaiters' = [lockWaiters EXCEPT ![i] = Append(@, w)] /\ GoTo(w, "lockWait")
        /\ held' = held /\ granted' = granted
    BY <1>4 DEF LockWriter
  <2>2. pc'[w] = "lockWait" /\ \A v \in Writers \ {w} : pc'[v] = pc[v]
    BY <2>1, PlaceType DEF PCs
  <2>3. \A v \in Writers : Owns(v)' <=> Owns(v)
    BY <1>1, <2>1, <2>2 DEF Owns
  <2>4. /\ lockWaiters[i] \in Seq(Writers) /\ Distinct(lockWaiters[i])
        /\ w \notin Members(lockWaiters[i])
    BY <1>1 DEF TypeOK, LockInv
  <2>5. /\ lockWaiters'[i] = Append(lockWaiters[i], w)
        /\ \A k \in Indexes \ {i} : lockWaiters'[k] = lockWaiters[k]
    BY <1>1, <2>1 DEF TypeOK
  <2>6. /\ Distinct(lockWaiters'[i])
        /\ Members(lockWaiters'[i]) = Members(lockWaiters[i]) \cup {w}
    BY <2>4, <2>5, AppendMembers
  <2>7. ASSUME NEW k \in Indexes
        PROVE  /\ Distinct(lockWaiters'[k])
               /\ Members(lockWaiters'[k]) =
                    {v \in Writers : pc'[v] = "lockWait" /\ v \notin granted' /\ IndexOf(v) = k}
    <3>1. CASE k = i
      BY <1>1, <2>1, <2>2, <2>6, <3>1 DEF LockInv
    <3>2. CASE k /= i
      <4>1. Distinct(lockWaiters'[k]) /\ Members(lockWaiters'[k]) = Members(lockWaiters[k])
        BY <2>5, <3>2 DEF LockInv
      <4> QED BY <1>1, <2>1, <2>2, <3>2, <4>1 DEF LockInv
    <3> QED BY <3>1, <3>2
  <2>8. \A v \in granted' : pc'[v] = "lockWait"
    BY <1>1, <2>1, <2>2 DEF LockInv, TypeOK
  <2>9. \A v \in Writers : Owns(v)' => held'[IndexOf(v)]
    BY <2>1, <2>3 DEF LockInv
  <2>10. \A v, u \in Writers : Owns(v)' /\ Owns(u)' /\ IndexOf(v) = IndexOf(u) => v = u
    BY <2>3 DEF LockInv
  <2> QED BY <2>7, <2>8, <2>9, <2>10 DEF LockInv, Members, Distinct, IndexOf, Indexes
<1> QED BY <1>2, <1>3, <1>4

\* A waiter whose lock was passed to it goes on, to its batch or to give it back.
LEMMA GrantedLocks ==
    ASSUME WritesInv, NEW w \in Writers, NEW place \in {"locked", "unlock"}, w \in granted,
           GoTo(w, place), granted' = granted \ {w}, UNCHANGED <<held, lockWaiters>>
    PROVE  LockInv'
<1> USE DEF WritesInv
<1>1. pc[w] = "lockWait" /\ pc'[w] = place /\ \A v \in Writers \ {w} : pc'[v] = pc[v]
  BY PlaceType DEF PCs, LockInv
<1>2. granted \subseteq Writers /\ held' = held /\ lockWaiters' = lockWaiters
  BY DEF TypeOK
<1>3. \A v \in Writers : Owns(v)' <=> Owns(v)
  BY <1>1, <1>2 DEF Owns
<1>4. \A k \in Indexes :
         {v \in Writers : pc[v] = "lockWait" /\ v \notin granted /\ IndexOf(v) = k}'
           = {v \in Writers : pc[v] = "lockWait" /\ v \notin granted /\ IndexOf(v) = k}
  BY <1>1, <1>2
<1>5. \A k \in Indexes : Distinct(lockWaiters[k])' /\ Members(lockWaiters[k])' = Members(lockWaiters[k])
  BY <1>2 DEF LockInv, Distinct, Members
<1>6. \A v \in granted' : pc'[v] = "lockWait"
  BY <1>1, <1>2 DEF LockInv
<1>7. \A v \in Writers : Owns(v)' => held'[IndexOf(v)]
  BY <1>2, <1>3 DEF LockInv
<1>8. \A v, u \in Writers : Owns(v)' /\ Owns(u)' /\ IndexOf(v) = IndexOf(u) => v = u
  BY <1>3 DEF LockInv
<1> QED BY <1>4, <1>5, <1>6, <1>7, <1>8 DEF LockInv, IndexOf, Indexes

\* writerLock.cancelWaiter.
LEMMA CancelLocks == ASSUME WritesInv, NEW w \in Writers, CancelLockWait(w) PROVE LockInv'
<1> USE DEF WritesInv
<1> DEFINE i == IndexOf(w)
           q == lockWaiters[i]
<1>1. pc[w] = "lockWait" /\ i \in Indexes /\ held' = held
  BY Constants DEF CancelLockWait
<1>2. CASE w \in granted
  BY <1>1, <1>2, GrantedLocks DEF CancelLockWait
<1>3. CASE w \notin granted
  <2>1. /\ lockWaiters' = [lockWaiters EXCEPT ![i] = RemoveAt(@, IndexIn(@, w))]
        /\ GoTo(w, "release") /\ granted' = granted
    BY <1>3 DEF CancelLockWait
  <2>2. pc'[w] = "release" /\ \A v \in Writers \ {w} : pc'[v] = pc[v]
    BY <2>1, PlaceType DEF PCs
  <2>3. \A v \in Writers : Owns(v)' <=> Owns(v)
    BY <1>1, <1>3, <2>1, <2>2 DEF Owns
  <2>4. q \in Seq(Writers) /\ Distinct(q) /\ w \in Members(q)
    BY <1>1, <1>3 DEF TypeOK, LockInv
  <2>5. lockWaiters'[i] = RemoveAt(q, IndexIn(q, w))
    BY <1>1, <2>1 DEF TypeOK
  <2>6. \A k \in Indexes \ {i} : lockWaiters'[k] = lockWaiters[k]
    BY <1>1, <2>1 DEF TypeOK
  <2>7. Distinct(lockWaiters'[i]) /\ Members(lockWaiters'[i]) = Members(q) \ {w}
    BY <2>4, <2>5, IndexInMembers, RemoveAtMembers
  <2>8. ASSUME NEW k \in Indexes
        PROVE  /\ Distinct(lockWaiters'[k])
               /\ Members(lockWaiters'[k]) =
                    {v \in Writers : pc'[v] = "lockWait" /\ v \notin granted' /\ IndexOf(v) = k}
    <3>1. CASE k = i
      BY <1>1, <2>1, <2>2, <2>7, <3>1 DEF LockInv
    <3>2. CASE k /= i
      <4>1. Distinct(lockWaiters'[k]) /\ Members(lockWaiters'[k]) = Members(lockWaiters[k])
        BY <2>6, <3>2 DEF LockInv
      <4> QED BY <1>1, <2>1, <2>2, <3>2, <4>1 DEF LockInv
    <3> QED BY <3>1, <3>2
  <2>9. \A v \in granted' : pc'[v] = "lockWait"
    BY <1>3, <2>1, <2>2 DEF LockInv, TypeOK
  <2>10. \A v \in Writers : Owns(v)' => held'[IndexOf(v)]
    BY <1>1, <2>3 DEF LockInv
  <2>11. \A v, u \in Writers : Owns(v)' /\ Owns(u)' /\ IndexOf(v) = IndexOf(u) => v = u
    BY <2>3 DEF LockInv
  <2> QED BY <2>8, <2>9, <2>10, <2>11 DEF LockInv, Members, Distinct, IndexOf, Indexes
<1> QED BY <1>2, <1>3

\* writerLock.Unlock: the first waiter becomes the owner, or the lock is free.
LEMMA UnlockLocks == ASSUME WritesInv, NEW w \in Writers, Unlock(w) PROVE LockInv'
<1> USE DEF WritesInv
<1> DEFINE i == IndexOf(w)
           q == lockWaiters[i]
<1>1. pc[w] = "unlock" /\ i \in Indexes /\ q \in Seq(Writers) /\ Distinct(q) /\ Owns(w) /\ w \notin granted
  BY Constants DEF Unlock, TypeOK, LockInv, Owns
<1>2. GoTo(w, "release") /\ held' = [held EXCEPT ![i] = q /= <<>>]
  BY DEF Unlock, HeldAfterUnlock
<1>3. pc'[w] = "release" /\ \A v \in Writers \ {w} : pc'[v] = pc[v]
  BY <1>2, PlaceType DEF PCs
<1>4. \A v \in Writers \ {w} : Owns(v) => IndexOf(v) /= i
  BY <1>1 DEF LockInv
<1>5. held'[i] = (q /= <<>>) /\ \A k \in Indexes \ {i} : held'[k] = held[k]
  BY <1>1, <1>2 DEF TypeOK
<1>6. CASE q = <<>>
  <2>1. lockWaiters' = lockWaiters /\ granted' = granted
    BY <1>6 DEF Unlock
  <2>2. ~Owns(w)' /\ \A v \in Writers \ {w} : Owns(v)' <=> Owns(v)
    BY <1>1, <1>3, <2>1 DEF Owns
  <2>3. \A k \in Indexes :
           {v \in Writers : pc[v] = "lockWait" /\ v \notin granted /\ IndexOf(v) = k}'
             = {v \in Writers : pc[v] = "lockWait" /\ v \notin granted /\ IndexOf(v) = k}
    BY <1>1, <1>3, <2>1
  <2>4. \A k \in Indexes : Distinct(lockWaiters[k])' /\ Members(lockWaiters[k])' = Members(lockWaiters[k])
    BY <2>1 DEF LockInv, Distinct, Members
  <2>5. \A v \in granted' : pc'[v] = "lockWait"
    BY <1>1, <1>3, <2>1 DEF LockInv, TypeOK
  <2>6. \A v \in Writers : Owns(v)' => held'[IndexOf(v)]
    BY <1>4, <1>5, <2>2, Constants DEF LockInv
  <2>7. \A v, u \in Writers : Owns(v)' /\ Owns(u)' /\ IndexOf(v) = IndexOf(u) => v = u
    BY <2>2 DEF LockInv
  <2> QED BY <2>3, <2>4, <2>5, <2>6, <2>7 DEF LockInv, IndexOf, Indexes
<1>7. CASE q /= <<>>
  <2>0. PICK h \in Writers : h = Head(q)
    BY <1>1, <1>7
  <2>1. granted' = granted \cup {h} /\ lockWaiters' = [lockWaiters EXCEPT ![i] = Tail(@)]
    BY <1>7, <2>0 DEF Unlock
  <2>2. h \in Members(q) /\ Distinct(Tail(q)) /\ Members(Tail(q)) = Members(q) \ {h}
    BY <1>1, <1>7, <2>0, TailMembers
  <2>3. h \in Writers /\ pc[h] = "lockWait" /\ h \notin granted /\ IndexOf(h) = i /\ h /= w
    BY <1>1, <2>2 DEF LockInv
  <2>4. lockWaiters'[i] = Tail(q)
    BY <1>1, <2>1 DEF TypeOK
  <2>5. \A k \in Indexes \ {i} : lockWaiters'[k] = lockWaiters[k]
    BY <1>1, <2>1 DEF TypeOK
  <2>6. ~Owns(w)' /\ Owns(h)' /\ \A v \in Writers \ {w, h} : Owns(v)' <=> Owns(v)
    <3>1. ~Owns(w)'
      BY <1>1, <1>3, <2>1, <2>3 DEF Owns
    <3>2. Owns(h)'
      BY <2>1 DEF Owns
    <3>3. ASSUME NEW v \in Writers \ {w, h} PROVE Owns(v)' <=> Owns(v)
      BY <1>3, <2>1 DEF Owns
    <3> QED BY <3>1, <3>2, <3>3
  <2>7. ASSUME NEW k \in Indexes
        PROVE  /\ Distinct(lockWaiters'[k])
               /\ Members(lockWaiters'[k]) =
                    {v \in Writers : pc'[v] = "lockWait" /\ v \notin granted' /\ IndexOf(v) = k}
    <3>1. CASE k = i
      <4>1. Distinct(lockWaiters'[k]) /\ Members(lockWaiters'[k]) = Members(q) \ {h}
        BY <2>2, <2>4, <3>1
      <4> QED BY <1>1, <1>3, <2>1, <3>1, <4>1 DEF LockInv
    <3>2. CASE k /= i
      <4>1. Distinct(lockWaiters'[k]) /\ Members(lockWaiters'[k]) = Members(lockWaiters[k])
        BY <2>5, <3>2 DEF LockInv
      <4> QED BY <1>1, <1>3, <2>1, <2>3, <3>2, <4>1 DEF LockInv
    <3> QED BY <3>1, <3>2
  <2>8. \A v \in granted' : pc'[v] = "lockWait"
    BY <1>1, <1>3, <2>1, <2>3 DEF LockInv, TypeOK
  <2>9. \A v \in Writers : Owns(v)' => held'[IndexOf(v)]
    BY <1>4, <1>5, <1>7, <2>3, <2>6, Constants DEF LockInv
  <2>10. \A v, u \in Writers : Owns(v)' /\ Owns(u)' /\ IndexOf(v) = IndexOf(u) => v = u
    BY <1>4, <2>3, <2>6 DEF LockInv
  <2> QED BY <2>7, <2>8, <2>9, <2>10 DEF LockInv, Members, Distinct, IndexOf, Indexes
<1> QED BY <1>6, <1>7

\* The steps of an operation that neither take nor give up a lock.
LEMMA MovesLocks ==
    ASSUME WritesInv, NEW w \in Writers,
           \/ BeginWrite(w) \/ Acquire(w) \/ ReceiveLease(w) \/ CancelWaiter(w) \/ Project(w)
           \/ MapBatch(w) \/ StartOperation(w) \/ BatchReturns(w) \/ Release(w) \/ WriteDone(w)
    PROVE  LockInv'
<1> DEFINE Outside == PCs \ (Holding \cup {"lockWait"})
<1>1. UNCHANGED lockVars
  BY DEF BeginWrite, Acquire, ReceiveLease, CancelWaiter, Project, MapBatch, StartOperation,
         BatchReturns, Release, WriteDone
<1>2. CASE StartOperation(w) \/ BatchReturns(w)
  <2>1. PICK place \in Holding : GoTo(w, place)
    BY <1>2 DEF StartOperation, BatchReturns, Holding
  <2>2. pc[w] \in Holding
    BY <1>2 DEF StartOperation, BatchReturns, Holding
  <2> QED BY <1>1, <2>1, <2>2, LocksKept DEF WritesInv, PCs, Holding
<1>3. CASE ~(StartOperation(w) \/ BatchReturns(w))
  <2>1. PICK place \in Outside : GoTo(w, place)
    BY <1>3 DEF BeginWrite, Acquire, ReceiveLease, CancelWaiter, Project, MapBatch, Release,
                WriteDone, AfterNoLease, PCs, Holding
  <2>2. pc[w] \notin Holding /\ pc[w] /= "lockWait"
    BY <1>3 DEF BeginWrite, Acquire, ReceiveLease, CancelWaiter, Project, MapBatch, Release,
                WriteDone, PCs, Holding
  <2> QED BY <1>1, <2>1, <2>2, LocksKept DEF WritesInv
<1> QED BY <1>2, <1>3

\* No step gives an index a second owner.
LEMMA NextLock == WritesInv /\ [Next]_vars => LockInv'
<1> SUFFICES ASSUME WritesInv, [Next]_vars PROVE LockInv'
  OBVIOUS
<1>1. ASSUME NEW w \in Writers, ContextDone(w) \/ AgingIntervalPasses(w) PROVE LockInv'
  BY <1>1, LocksUntouched DEF ContextDone, AgingIntervalPasses, opVars, WritesInv
<1>2. CASE DispatchLocked \/ Close \/ CloseAfterWrites \/ UNCHANGED vars
  BY <1>2, LocksUntouched DEF DispatchLocked, Close, CloseAfterWrites, vars, opVars, WritesInv
<1>3. ASSUME NEW w \in Writers, LockGranted(w) PROVE LockInv'
  BY <1>3, GrantedLocks DEF LockGranted
<1> QED BY <1>1, <1>2, <1>3, LockWriterLocks, CancelLocks, UnlockLocks, MovesLocks
        DEF Next, Operation, Stopped

-----------------------------------------------------------------------------
(* The counters and the wait group *)

\* One more, one less, and no two members of a set counted as one.
LEMMA Counting ==
    ASSUME NEW S, IsFiniteSet(S)
    PROVE  /\ Cardinality(S) \in Nat
           /\ \A x : x \notin S => Cardinality(S \cup {x}) = Cardinality(S) + 1
           /\ \A x \in S : Cardinality(S \ {x}) = Cardinality(S) - 1 /\ Cardinality(S) >= 1
           /\ Cardinality(S) <= 1 => \A x, y \in S : x = y
<1>1. Cardinality(S) \in Nat
  BY FS_CardinalityType
<1>2. \A x : x \notin S => Cardinality(S \cup {x}) = Cardinality(S) + 1
  BY FS_AddElement
<1>3. ASSUME NEW x \in S
      PROVE  Cardinality(S \ {x}) = Cardinality(S) - 1 /\ Cardinality(S) >= 1
  <2>1. Cardinality(S \ {x}) = Cardinality(S) - 1 /\ IsFiniteSet(S \ {x})
    BY FS_RemoveElement
  <2>2. Cardinality(S \ {x}) \in Nat
    BY <2>1, FS_CardinalityType
  <2> QED BY <1>1, <2>1, <2>2
<1>4. ASSUME Cardinality(S) <= 1, NEW x \in S, NEW y \in S, x /= y PROVE FALSE
  <2>1. IsFiniteSet(S \ {x}) /\ Cardinality(S \ {x}) = Cardinality(S) - 1
    BY FS_RemoveElement
  <2>2. Cardinality(S \ {x}) \in Nat
    BY <2>1, FS_CardinalityType
  <2>3. Cardinality(S \ {x}) = 0
    BY <1>1, <1>4, <2>1, <2>2
  <2>4. S \ {x} = {}
    BY <2>1, <2>3, FS_EmptySet
  <2> QED BY <1>4, <2>4
<1> QED BY <1>1, <1>2, <1>3, <1>4

\* The leases of one user.
LeasesOf(u) == {w \in leased : UserOf[w] = u}

\* Leases are finitely many.
LEMMA FiniteLeases ==
    ASSUME TypeOK PROVE IsFiniteSet(leased) /\ \A u : IsFiniteSet(LeasesOf(u))
<1>1. leased \subseteq Writers /\ IsFiniteSet(Writers) /\ \A u : LeasesOf(u) \subseteq Writers
  BY SearchConstants DEF TypeOK, SearchConstants, LeasesOf
<1> QED BY <1>1, FS_Subset

\* A grant counts one lease more, of a user that had none.
LEMMA DispatchCount == WritesInv /\ CountInv /\ DispatchLocked => CountInv'
<1> SUFFICES ASSUME WritesInv, CountInv, DispatchLocked PROVE CountInv'
  OBVIOUS
<1>1. CASE Admissible
  <2>1. PICK w \in Writers :
              /\ w \notin leased /\ activeUsers[UserOf[w]] = 0 /\ leased' = leased \cup {w}
              /\ activeWrites < MaxActive /\ activeWrites' = activeWrites + 1
              /\ activeUsers' = [activeUsers EXCEPT ![UserOf[w]] = @ + 1]
    BY <1>1, Grant DEF Queued
  <2>2. activeWrites \in Nat /\ MaxActive \in Nat /\ activeUsers \in [Users -> Nat] /\ UserOf[w] \in Users
    BY SearchConstants, Constants DEF SearchConstants, WritesInv, TypeOK
  <2>3. activeWrites' = Cardinality(leased') /\ activeWrites' <= MaxActive
    BY <2>1, <2>2, FiniteLeases, Counting DEF CountInv, WritesInv
  <2>4. ASSUME NEW u \in Users
        PROVE  activeUsers'[u] = Cardinality(LeasesOf(u)') /\ activeUsers'[u] <= 1
    <3>1. CASE u = UserOf[w]
      <4>1. LeasesOf(u)' = LeasesOf(u) \cup {w} /\ w \notin LeasesOf(u)
        BY <2>1, <3>1 DEF LeasesOf
      <4>2. Cardinality(LeasesOf(u)') = Cardinality(LeasesOf(u)) + 1
        BY <4>1, FiniteLeases, Counting DEF WritesInv
      <4>3. Cardinality(LeasesOf(u)) = 0 /\ activeUsers'[u] = 1
        BY <2>1, <2>2, <3>1 DEF CountInv, LeasesOf
      <4> QED BY <4>2, <4>3
    <3>2. CASE u /= UserOf[w]
      <4>1. LeasesOf(u)' = LeasesOf(u) /\ activeUsers'[u] = activeUsers[u]
        BY <2>1, <2>2, <3>2 DEF LeasesOf
      <4> QED BY <4>1 DEF CountInv, LeasesOf
    <3> QED BY <3>1, <3>2
  <2> QED BY <2>3, <2>4 DEF CountInv, LeasesOf
<1>2. CASE ~Admissible
  BY <1>2 DEF DispatchLocked, CountInv
<1> QED BY <1>1, <1>2

\* A lease given back is counted out once.
LEMMA ReleaseCount == ASSUME WritesInv, CountInv, NEW w \in Writers, Release(w) PROVE CountInv'
<1>1. /\ w \in leased /\ leased' = leased \ {w} /\ activeWrites' = Minus(activeWrites, 1)
      /\ activeUsers' = [activeUsers EXCEPT ![UserOf[w]] = Minus(@, 1)]
  BY DEF Release, WritesInv, QueueInv, Admitting
<1>2. activeWrites \in Nat /\ MaxActive \in Nat /\ activeUsers \in [Users -> Nat] /\ UserOf[w] \in Users
  BY SearchConstants, Constants DEF SearchConstants, WritesInv, TypeOK
<1>3. activeWrites' = Cardinality(leased') /\ activeWrites' <= MaxActive
  <2>1. Cardinality(leased') = Cardinality(leased) - 1 /\ Cardinality(leased) >= 1
    BY <1>1, FiniteLeases, Counting DEF WritesInv
  <2> QED BY <1>1, <1>2, <2>1 DEF CountInv, Minus
<1>4. ASSUME NEW u \in Users
      PROVE  activeUsers'[u] = Cardinality(LeasesOf(u)') /\ activeUsers'[u] <= 1
  <2>1. CASE u = UserOf[w]
    <3>1. LeasesOf(u)' = LeasesOf(u) \ {w} /\ w \in LeasesOf(u)
      BY <1>1, <2>1 DEF LeasesOf
    <3>2. Cardinality(LeasesOf(u)') = Cardinality(LeasesOf(u)) - 1 /\ Cardinality(LeasesOf(u)) >= 1
      BY <3>1, FiniteLeases, Counting DEF WritesInv
    <3>3. activeUsers[u] = Cardinality(LeasesOf(u)) /\ activeUsers[u] <= 1
      BY DEF CountInv, LeasesOf
    <3>4. activeUsers'[u] = Minus(activeUsers[u], 1)
      BY <1>1, <1>2, <2>1
    <3> QED BY <1>2, <3>2, <3>3, <3>4 DEF Minus
  <2>2. CASE u /= UserOf[w]
    <3>1. LeasesOf(u)' = LeasesOf(u) /\ activeUsers'[u] = activeUsers[u]
      BY <1>1, <1>2, <2>2 DEF LeasesOf
    <3> QED BY <3>1 DEF CountInv, LeasesOf
  <2> QED BY <2>1, <2>2
<1> QED BY <1>3, <1>4 DEF CountInv, LeasesOf

\* Nothing else touches the counters.
LEMMA NextCount == WritesInv /\ CountInv /\ [Next]_vars => CountInv'
<1> SUFFICES ASSUME WritesInv, CountInv, [Next]_vars PROVE CountInv'
  OBVIOUS
<1> DEFINE Still == UNCHANGED <<leased, activeWrites, activeUsers>>
<1>1. ASSUME NEW w \in Writers, Operation(w), ~Release(w) PROVE Still
  BY <1>1 DEF Operation, BeginWrite, Acquire, ReceiveLease, CancelWaiter, Project, MapBatch,
              UpdateBytes, LockWriter, LockGranted, CancelLockWait, StartOperation, BatchReturns,
              Unlock, WriteDone, coordVars
<1>2. ASSUME NEW w \in Writers, ContextDone(w) \/ AgingIntervalPasses(w) PROVE Still
  BY <1>2 DEF ContextDone, AgingIntervalPasses, coordVars
<1>3. CASE Close \/ CloseAfterWrites \/ UNCHANGED vars
  <2>1. Still
    BY <1>3 DEF Close, CloseAfterWrites, vars, coordVars
  <2> QED BY <2>1 DEF CountInv
<1>4. Still => CountInv'
  BY DEF CountInv
<1> QED BY <1>1, <1>2, <1>3, <1>4, DispatchCount, ReleaseCount DEF Next, Stopped

\* The wait group counts everybody who is at work, until nobody can be.
LEMMA NextClose == WritesInv /\ CloseInv /\ [Next]_vars => CloseInv'
<1> SUFFICES ASSUME WritesInv, CloseInv, [Next]_vars PROVE CloseInv'
  OBVIOUS
<1>1. ASSUME NEW w \in Writers, Operation(w), ~BeginWrite(w), ~WriteDone(w) PROVE CloseInv'
  <2>1. pc[w] /= "idle" /\ UNCHANGED <<writes, closing, closed>>
    BY <1>1 DEF Operation, Acquire, ReceiveLease, CancelWaiter, Project, MapBatch, LockWriter,
                LockGranted, CancelLockWait, StartOperation, BatchReturns, Unlock, Release, svcVars
  <2>2. PICK place \in PCs : GoTo(w, place)
    BY <1>1 DEF Operation, Acquire, ReceiveLease, CancelWaiter, Project, MapBatch, LockWriter,
                LockGranted, CancelLockWait, StartOperation, BatchReturns, Unlock, Release, PCs,
                AfterNoLease
  <2>3. \A v \in Writers \ {w} : pc'[v] = pc[v]
    BY <2>2, PlaceType DEF WritesInv
  <2> QED BY <2>1, <2>3 DEF CloseInv
<1>2. ASSUME NEW w \in Writers, BeginWrite(w) PROVE CloseInv'
  <2>1. ~closing /\ writes' = writes \cup {w} /\ UNCHANGED <<closing, closed>> /\ GoTo(w, "acquire")
    BY <1>2 DEF BeginWrite
  <2>2. \A v \in Writers \ {w} : pc'[v] = pc[v]
    BY <2>1, PlaceType DEF WritesInv, PCs
  <2> QED BY <2>1, <2>2 DEF CloseInv
<1>3. ASSUME NEW w \in Writers, WriteDone(w) PROVE CloseInv'
  <2>1. writes' = writes \ {w} /\ UNCHANGED <<closing, closed>> /\ GoTo(w, "idle")
    BY <1>3 DEF WriteDone
  <2>2. pc'[w] = "idle" /\ \A v \in Writers \ {w} : pc'[v] = pc[v]
    BY <2>1, PlaceType DEF WritesInv, PCs
  <2> QED BY <2>1, <2>2 DEF CloseInv
<1>4. ASSUME NEW w \in Writers, ContextDone(w) \/ AgingIntervalPasses(w) PROVE CloseInv'
  BY <1>4 DEF ContextDone, AgingIntervalPasses, opVars, svcVars, CloseInv
<1>5. CASE DispatchLocked \/ Close \/ CloseAfterWrites \/ UNCHANGED vars
  BY <1>5 DEF DispatchLocked, Close, CloseAfterWrites, WritesDrained, vars, opVars, svcVars, CloseInv
<1> QED BY <1>1, <1>2, <1>3, <1>4, <1>5 DEF Next, Stopped

-----------------------------------------------------------------------------
(* Theorems *)

\* Everything that the coordinator, the locks and the wait group keep.
FullInv == WritesInv /\ CountInv /\ CloseInv

\* In the beginning nobody waits, holds or counts.
LEMMA InitInv == Init => FullInv
<1> SUFFICES ASSUME Init PROVE FullInv
  OBVIOUS
<1>1. TypeOK
  BY InitType
<1>2. Members(<<>>) = {} /\ Distinct(<<>>)
  BY DEF Members, Distinct
<1>3. pc = [w \in Writers |-> "idle"] /\ leased = {} /\ granted = {} /\ waiters = <<>>
      /\ lockWaiters = [i \in Indexes |-> <<>>] /\ ~closed
      /\ activeWrites = 0 /\ activeUsers = [u \in Users |-> 0]
  BY DEF Init
<1>4. QueueInv
  BY <1>2, <1>3 DEF QueueInv, Queued, Admitting
<1>5. LockInv
  BY <1>2, <1>3 DEF LockInv, Owns
<1>6. CountInv
  <2>1. \A u \in Users : {w \in leased : UserOf[w] = u} = {} /\ activeUsers[u] = 0
    BY <1>3
  <2>2. Cardinality({}) = 0 /\ 0 <= MaxActive
    BY FS_EmptySet, SearchConstants DEF SearchConstants
  <2> QED BY <1>3, <2>1, <2>2 DEF CountInv
<1>7. CloseInv
  BY <1>3 DEF CloseInv
<1> QED BY <1>1, <1>4, <1>5, <1>6, <1>7 DEF FullInv, WritesInv

\* It is inductive.
LEMMA FullInductive == Spec => []FullInv
<1>1. FullInv /\ [Next]_vars => FullInv'
  BY NextType, NextQueue, NextLock, NextCount, NextClose DEF FullInv, WritesInv
<1> QED BY <1>1, InitInv, PTL DEF Spec

\* Operations, queues, counters and locks keep to their types: in particular no
\* counter of the coordinator is ever counted below zero
\* (write_coordinator.go, search.go).
THEOREM TypeCorrect == Spec => []TypeOK
<1>1. FullInv => TypeOK
  BY DEF FullInv, WritesInv
<1> QED BY <1>1, FullInductive, PTL

\* No two batches run on one index at once, whoever gives up and when: the
\* writer lock has one owner, and it is passed on, never dropped, by Unlock and
\* cancelWaiter (search.go).
THEOREM OneBatch == Spec => []OneBatchPerIndex
<1>1. FullInv => OneBatchPerIndex
  BY DEF FullInv, WritesInv, LockInv, Owns, OneBatchPerIndex
<1> QED BY <1>1, FullInductive, PTL

\* dispatchLocked admits at most MaxActive writes and never two of one user,
\* whatever the order of grants, cancellations and releases
\* (write_coordinator.go).
THEOREM Bounded == Spec => []AdmissionBounded
<1>1. FullInv => AdmissionBounded
  <2> SUFFICES ASSUME FullInv PROVE AdmissionBounded
    OBVIOUS
  <2>1. Cardinality(leased) <= MaxActive
    BY DEF FullInv, CountInv
  <2>2. ASSUME NEW v \in leased, NEW w \in leased, UserOf[v] = UserOf[w] PROVE v = w
    <3>1. UserOf[w] \in Users /\ v \in LeasesOf(UserOf[w]) /\ w \in LeasesOf(UserOf[w])
      BY <2>2, Constants DEF FullInv, WritesInv, TypeOK, LeasesOf
    <3>2. Cardinality(LeasesOf(UserOf[w])) <= 1
      BY <3>1 DEF FullInv, CountInv, LeasesOf
    <3> QED BY <3>1, <3>2, FiniteLeases, Counting DEF FullInv, WritesInv
  <2> QED BY <2>1, <2>2 DEF AdmissionBounded
<1> QED BY <1>1, FullInductive, PTL

\* closeAfterWrites closes the indexes only when no operation is left at any
\* place, and none starts afterwards (search.go).
THEOREM CloseQuiet == Spec => []ClosedWhenQuiet
<1>1. FullInv => ClosedWhenQuiet
  BY DEF FullInv, CloseInv, ClosedWhenQuiet
<1> QED BY <1>1, FullInductive, PTL

-----------------------------------------------------------------------------
(* Sums over finite sets: what MapThenSumSet computes *)

\* A set of numbers that has members has a least one.
LEMMA LeastOf ==
    ASSUME NEW N \in SUBSET Nat, N # {}
    PROVE  \E n \in N : \A m \in N : n <= m
<1>1. IsWellFoundedOn(OpToRel(<, Nat), Nat)
  BY NatLessThanWellFounded
<1>2. PICK n \in N : \A m \in N : ~(<<m, n>> \in OpToRel(<, Nat))
  BY <1>1, WFMin
<1>3. \A m \in N : m < n => <<m, n>> \in OpToRel(<, Nat)
  BY DEF OpToRel
<1>4. n \in Nat /\ \A m \in N : m \in Nat /\ ~(m < n)
  BY <1>2, <1>3
<1>5. \A m \in N : n <= m
  BY <1>4
<1> QED BY <1>5

\* The member the fold takes next, and the sum it computes.
Chosen(s) == CHOOSE x \in s : TRUE
Total(f, S) == MapThenSumSet(LAMBDA x : f[x], S)
\* The recursive function of MapThenFoldSet, on a set of sets.
Adds(g, f, Sets) == g = [s \in Sets |-> IF s = {} THEN 0 ELSE f[Chosen(s)] + g[s \ {Chosen(s)}]]

\* The same values on T.
Alike(f, e, T) == \A x \in T : f[x] = e[x]

\* The fold takes members of its set.
LEMMA ChosenIs == ASSUME NEW s, s # {} PROVE Chosen(s) \in s
BY DEF Chosen

\* One member less, one counted less.
LEMMA OneLess ==
    ASSUME NEW S, IsFiniteSet(S), NEW s \in SUBSET S, NEW x \in s
    PROVE  /\ s \ {x} \in SUBSET S /\ Cardinality(s) \in Nat /\ Cardinality(s) >= 1
           /\ Cardinality(s \ {x}) = Cardinality(s) - 1 /\ Cardinality(s \ {x}) \in Nat
<1>1. IsFiniteSet(s) /\ s \ {x} \in SUBSET S
  BY FS_Subset
<1>2. Cardinality(s) \in Nat /\ Cardinality(s \ {x}) = Cardinality(s) - 1 /\ Cardinality(s) >= 1
  BY <1>1, Counting
<1> QED BY <1>1, <1>2

\* There is such a function on the subsets of a finite set: as far as some size, then one further.
LEMMA AddsExists == ASSUME NEW f, NEW S, IsFiniteSet(S) PROVE \E g : Adds(g, f, SUBSET S)
<1> DEFINE Small(n) == {s \in SUBSET S : Cardinality(s) <= n}
           none == {n \in Nat : ~\E g : Adds(g, f, Small(n))}
<1>1. \A s \in SUBSET S : Cardinality(s) \in Nat /\ (Cardinality(s) = 0 <=> s = {})
  BY FS_Subset, FS_EmptySet, FS_CardinalityType
<1>2. 0 \notin none
  <2>1. \A s \in Small(0) : s = {}
    BY <1>1
  <2>2. Adds([s \in Small(0) |-> 0], f, Small(0))
    BY <2>1 DEF Adds
  <2> QED BY <2>2
<1>3. ASSUME NEW n \in Nat, n > 0, n - 1 \notin none PROVE n \notin none
  <2>1. PICK h : Adds(h, f, Small(n - 1))
    BY <1>3
  <2> DEFINE g == [s \in Small(n) |-> IF s = {} THEN 0 ELSE f[Chosen(s)] + h[s \ {Chosen(s)}]]
  <2>2. ASSUME NEW s \in Small(n), s # {} PROVE g[s \ {Chosen(s)}] = h[s \ {Chosen(s)}]
    <3> DEFINE t == s \ {Chosen(s)}
    <3>1. t \in SUBSET S /\ Cardinality(s) \in Nat /\ Cardinality(t) = Cardinality(s) - 1
      BY <2>2, ChosenIs, OneLess
    <3>2. t \in Small(n) /\ t \in Small(n - 1)
      BY <1>3, <2>2, <3>1
    <3> HIDE DEF t
    <3>3. g[t] = IF t = {} THEN 0 ELSE f[Chosen(t)] + h[t \ {Chosen(t)}]
      BY <3>2
    <3>4. h[t] = IF t = {} THEN 0 ELSE f[Chosen(t)] + h[t \ {Chosen(t)}]
      BY <2>1, <3>2 DEF Adds
    <3> QED BY <3>3, <3>4 DEF t
  <2>3. g = [s \in Small(n) |-> IF s = {} THEN 0 ELSE f[Chosen(s)] + g[s \ {Chosen(s)}]]
    <3> DEFINE k == [s \in Small(n) |-> IF s = {} THEN 0 ELSE f[Chosen(s)] + g[s \ {Chosen(s)}]]
    <3>1. \A s \in Small(n) : g[s] = k[s]
      <4>1. SUFFICES ASSUME NEW s \in Small(n) PROVE g[s] = k[s]
        OBVIOUS
      <4>2. CASE s = {}
        BY <4>2
      <4>3. CASE s # {}
        <5>1. g[s \ {Chosen(s)}] = h[s \ {Chosen(s)}]
          BY <2>2, <4>3
        <5>2. k[s] = f[Chosen(s)] + g[s \ {Chosen(s)}]
          BY <4>3
        <5>3. g[s] = f[Chosen(s)] + h[s \ {Chosen(s)}]
          BY <4>3
        <5> HIDE DEF g, k
        <5> QED BY <5>1, <5>2, <5>3
      <4> QED BY <4>2, <4>3
    <3>2. DOMAIN g = Small(n) /\ DOMAIN k = Small(n) /\ g = [s \in Small(n) |-> g[s]] /\ k = [s \in Small(n) |-> k[s]]
      OBVIOUS
    <3> HIDE DEF g, k, Small
    <3>3. g = k
      BY <3>1, <3>2
    <3> QED BY <3>3 DEF k
  <2> HIDE DEF g, Small
  <2>4. Adds(g, f, Small(n))
    BY <2>3 DEF Adds
  <2> QED BY <2>4
<1>4. none = {}
  <2>1. SUFFICES ASSUME none # {} PROVE FALSE
    OBVIOUS
  <2>2. PICK n \in none : \A m \in none : n <= m
    <3>1. none \in SUBSET Nat
      OBVIOUS
    <3> HIDE DEF none
    <3> QED BY <2>1, <3>1, LeastOf
  <2>3. n \in Nat
    BY <2>2
  <2> HIDE DEF none
  <2>4. n > 0
    BY <1>2, <2>2, <2>3
  <2>5. n - 1 \in none
    BY <1>3, <2>2, <2>3, <2>4
  <2> QED BY <2>2, <2>3, <2>4, <2>5
<1>5. Small(Cardinality(S)) = SUBSET S
  BY <1>1, FS_Subset
<1>6. Cardinality(S) \in Nat
  BY <1>1
<1>7. \E g : Adds(g, f, Small(Cardinality(S)))
  BY <1>4, <1>6
<1> HIDE DEF Small, none
<1> QED BY <1>5, <1>7

\* What it is at a set depends on nothing but the values on that set.
LEMMA AddsOne ==
    ASSUME NEW S, NEW T, NEW f, NEW e, NEW g, NEW h,
           IsFiniteSet(S), T \subseteq S, Adds(g, f, SUBSET S), Adds(h, e, SUBSET T), Alike(f, e, T)
    PROVE  g[T] = h[T]
<1> DEFINE differ == {s \in SUBSET T : g[s] # h[s]}
           sizes == {Cardinality(s) : s \in differ}
<1>0. IsFiniteSet(T)
  BY FS_Subset
<1>1. \A s \in SUBSET T : Cardinality(s) \in Nat
  BY <1>0, FS_Subset, FS_CardinalityType
<1>2. ASSUME NEW s \in SUBSET T, s # {}, g[s \ {Chosen(s)}] = h[s \ {Chosen(s)}] PROVE g[s] = h[s]
  <2>1. Chosen(s) \in s /\ s \in SUBSET S /\ f[Chosen(s)] = e[Chosen(s)]
    BY <1>2, ChosenIs DEF Alike
  <2>2. g[s] = f[Chosen(s)] + g[s \ {Chosen(s)}] /\ h[s] = e[Chosen(s)] + h[s \ {Chosen(s)}]
    BY <1>2, <2>1 DEF Adds
  <2> QED BY <1>2, <2>1, <2>2
<1>3. g[{}] = h[{}]
  BY DEF Adds
<1>4. differ = {}
  <2>1. SUFFICES ASSUME sizes # {} PROVE FALSE
    OBVIOUS
  <2>2. sizes \in SUBSET Nat
    BY <1>1
  <2>3. PICK n \in sizes : \A m \in sizes : n <= m
    <3> HIDE DEF sizes
    <3> QED BY <2>1, <2>2, LeastOf
  <2>4. PICK s \in differ : n = Cardinality(s)
    BY <2>3
  <2>5. s \in SUBSET T /\ s # {} /\ g[s] # h[s]
    BY <1>3, <2>4
  <2>6. s \ {Chosen(s)} \in SUBSET T /\ Cardinality(s \ {Chosen(s)}) = n - 1 /\ n \in Nat
    BY <1>0, <2>4, <2>5, ChosenIs, OneLess
  <2>7. s \ {Chosen(s)} \notin differ
    <3>1. n - 1 \notin sizes
      BY <2>3, <2>6
    <3> HIDE DEF differ
    <3> QED BY <2>6, <3>1
  <2> QED BY <1>2, <2>5, <2>6, <2>7
<1> QED BY <1>4

\* MapThenSumSet is that function at its set.
LEMMA TotalIs == ASSUME NEW f, NEW S, IsFiniteSet(S) PROVE \E g : Adds(g, f, SUBSET S) /\ Total(f, S) = g[S]
<1> DEFINE iter == CHOOSE h : Adds(h, f, SUBSET S)
<1>1. Adds(iter, f, SUBSET S)
  BY AddsExists
<1>2. Total(f, S) = iter[S]
  BY DEF Total, MapThenSumSet, MapThenFoldSet, Adds, Chosen
<1> QED BY <1>1, <1>2

\* Equal values, equal totals; and it may be read off a larger set.
LEMMA TotalSame ==
    ASSUME NEW S, IsFiniteSet(S), NEW T, T \subseteq S, NEW f, NEW e, Alike(f, e, T),
           NEW g, Adds(g, f, SUBSET S)
    PROVE  g[T] = Total(e, T)
<1>1. IsFiniteSet(T)
  BY FS_Subset
<1>2. \E h : Adds(h, e, SUBSET T) /\ Total(e, T) = h[T]
  BY <1>1, TotalIs
<1>3. PICK h : Adds(h, e, SUBSET T) /\ Total(e, T) = h[T]
  BY <1>2
<1>4. Adds(h, e, SUBSET T)
  BY <1>3
<1>5. g[T] = h[T]
  BY <1>4, AddsOne
<1> QED BY <1>3, <1>5

\* Numbers add up to numbers, to no more than as many times the largest.
LEMMA AddsBounded ==
    ASSUME NEW S, IsFiniteSet(S), NEW f, NEW top \in Nat, \A x \in S : f[x] \in 0..top, NEW g, Adds(g, f, SUBSET S)
    PROVE  \A s \in SUBSET S : g[s] \in Nat /\ g[s] <= top * Cardinality(s)
<1> DEFINE Fine(s) == g[s] \in Nat /\ g[s] <= top * Cardinality(s)
           sizes == {Cardinality(s) : s \in {t \in SUBSET S : ~Fine(t)}}
<1>1. \A s \in SUBSET S : Cardinality(s) \in Nat
  BY FS_Subset, FS_CardinalityType
<1>2. Fine({})
  <2>1. g[{}] = 0 /\ Cardinality({}) = 0
    BY FS_EmptySet DEF Adds
  <2> QED BY <2>1
<1>3. ASSUME NEW s \in SUBSET S, s # {}, Fine(s \ {Chosen(s)}) PROVE Fine(s)
  <2> DEFINE x == Chosen(s)
             n == Cardinality(s \ {x})
  <2>1. x \in s /\ f[x] \in 0..top
    BY <1>3, ChosenIs
  <2>2. Cardinality(s) = n + 1 /\ n \in Nat
    <3>1. Cardinality(s) \in Nat /\ Cardinality(s \ {x}) = Cardinality(s) - 1 /\ Cardinality(s \ {x}) \in Nat
      BY <1>3, <2>1, OneLess
    <3> QED BY <3>1
  <2>3. g[s] = f[x] + g[s \ {x}]
    BY <1>3 DEF Adds
  <2>4. g[s \ {x}] \in Nat /\ g[s \ {x}] <= top * n
    BY <1>3
  <2> HIDE DEF x, n
  <2>5. top * (n + 1) = top * n + top /\ top * n \in Nat
    BY <2>2
  <2>6. g[s] \in Nat /\ g[s] <= top * (n + 1)
    <3> DEFINE p == top * n
    <3>1. g[s \ {x}] \in Nat /\ g[s \ {x}] <= p /\ p \in Nat
      BY <2>4, <2>5
    <3> HIDE DEF p
    <3>2. g[s] \in Nat /\ g[s] <= p + top
      BY <2>1, <2>3, <3>1
    <3> QED BY <2>5, <3>2 DEF p
  <2> QED BY <2>2, <2>6
<1>4. sizes = {}
  <2>1. SUFFICES ASSUME sizes # {} PROVE FALSE
    OBVIOUS
  <2>2. sizes \in SUBSET Nat
    BY <1>1
  <2>3. PICK n \in sizes : \A m \in sizes : n <= m
    <3> HIDE DEF sizes
    <3> QED BY <2>1, <2>2, LeastOf
  <2>4. PICK s \in SUBSET S : ~Fine(s) /\ n = Cardinality(s)
    BY <2>3
  <2> HIDE DEF Fine
  <2>5. s # {} /\ s \ {Chosen(s)} \in SUBSET S /\ Cardinality(s \ {Chosen(s)}) = n - 1 /\ n \in Nat
    BY <1>2, <2>4, ChosenIs, OneLess
  <2>6. Fine(s \ {Chosen(s)})
    <3>1. n - 1 \notin sizes
      BY <2>3, <2>5
    <3> QED BY <2>5, <3>1
  <2> QED BY <1>3, <2>4, <2>5, <2>6
<1> QED BY <1>4

\* Named, for the provers to match: numbers on S; a sum that starts with any member.
Numbers(f, S) == \A x \in S : f[x] \in Nat
AnyFirst(g, f, S) == \A s \in SUBSET S : \A y \in s : g[s] = f[y] + g[s \ {y}]

\* Whichever member goes first, the sum is the same.
LEMMA AddsAny ==
    ASSUME NEW S, NEW f, NEW g, IsFiniteSet(S), Adds(g, f, SUBSET S), Numbers(f, S), Numbers(g, SUBSET S)
    PROVE  AnyFirst(g, f, S)
<1> DEFINE Fine(s) == \A y \in s : g[s] = f[y] + g[s \ {y}]
           sizes == {Cardinality(s) : s \in {t \in SUBSET S : ~Fine(t)}}
<1>1. \A s \in SUBSET S : Cardinality(s) \in Nat
  BY FS_Subset, FS_CardinalityType
<1>2. ASSUME NEW s \in SUBSET S, \A x \in s : Fine(s \ {x}) PROVE Fine(s)
  <2>1. SUFFICES ASSUME NEW y \in s PROVE g[s] = f[y] + g[s \ {y}]
    OBVIOUS
  <2> DEFINE x == Chosen(s)
  <2>2. x \in s
    BY <2>1, ChosenIs
  <2>3. g[s] = f[x] + g[s \ {x}]
    BY <2>1 DEF Adds
  <2> HIDE DEF x
  <2>4. CASE x = y
    BY <2>3, <2>4
  <2>5. CASE x # y
    <3>1. g[s \ {x}] = f[y] + g[(s \ {x}) \ {y}]
      BY <1>2, <2>1, <2>2, <2>5
    <3>2. g[s \ {y}] = f[x] + g[(s \ {y}) \ {x}]
      BY <1>2, <2>1, <2>2, <2>5
    <3>3. (s \ {x}) \ {y} = (s \ {y}) \ {x}
      OBVIOUS
    <3>4. x \in S /\ y \in S /\ (s \ {y}) \ {x} \in SUBSET S
      BY <2>1, <2>2
    <3>5. f[x] \in Nat /\ f[y] \in Nat /\ g[(s \ {y}) \ {x}] \in Nat
      BY <3>4 DEF Numbers
    <3>6. g[s] = f[x] + (f[y] + g[(s \ {y}) \ {x}])
      BY <2>3, <3>1, <3>3
    <3> QED BY <3>2, <3>5, <3>6
  <2> QED BY <2>4, <2>5
<1>3. sizes = {}
  <2>1. SUFFICES ASSUME sizes # {} PROVE FALSE
    OBVIOUS
  <2>2. sizes \in SUBSET Nat
    BY <1>1
  <2>3. PICK n \in sizes : \A m \in sizes : n <= m
    <3> HIDE DEF sizes
    <3> QED BY <2>1, <2>2, LeastOf
  <2>4. PICK s \in SUBSET S : ~Fine(s) /\ n = Cardinality(s)
    BY <2>3
  <2> HIDE DEF Fine
  <2>5. ASSUME NEW x \in s PROVE Fine(s \ {x})
    <3>1. s \ {x} \in SUBSET S /\ Cardinality(s \ {x}) = n - 1 /\ n \in Nat
      BY <2>4, OneLess
    <3>2. n - 1 \notin sizes
      BY <2>3, <3>1
    <3> QED BY <3>1, <3>2
  <2> QED BY <1>2, <2>4, <2>5
<1> QED BY <1>3 DEF AnyFirst

\* What a total is.
LEMMA Totals ==
    ASSUME NEW S, IsFiniteSet(S), NEW f, NEW top \in Nat, \A x \in S : f[x] \in 0..top
    PROVE  /\ Total(f, S) \in Nat /\ Total(f, S) <= top * Cardinality(S)
           /\ S = {} => Total(f, S) = 0
           /\ \A y \in S : Total(f, S) = f[y] + Total(f, S \ {y})
<1>1. PICK g : Adds(g, f, SUBSET S) /\ Total(f, S) = g[S]
  BY TotalIs
<1>2. Adds(g, f, SUBSET S)
  BY <1>1
<1>3. \A s \in SUBSET S : g[s] \in Nat /\ g[s] <= top * Cardinality(s)
  BY <1>2, AddsBounded
<1>4. \A s \in SUBSET S : \A y \in s : g[s] = f[y] + g[s \ {y}]
  <2>1. Numbers(f, S)
    BY DEF Numbers
  <2>2. Numbers(g, SUBSET S)
    BY <1>3 DEF Numbers
  <2>3. AnyFirst(g, f, S)
    BY <1>2, <2>1, <2>2, AddsAny
  <2> QED BY <2>3 DEF AnyFirst
<1>5. \A y \in S : g[S \ {y}] = Total(f, S \ {y})
  <2>1. SUFFICES ASSUME NEW y \in S PROVE g[S \ {y}] = Total(f, S \ {y})
    OBVIOUS
  <2>2. S \ {y} \subseteq S /\ Alike(f, f, S \ {y})
    BY DEF Alike
  <2> QED BY <1>2, <2>2, TotalSame
<1>6. S = {} => g[S] = 0
  BY <1>2 DEF Adds
<1> QED BY <1>1, <1>3, <1>4, <1>5, <1>6

\* Sizes that agree on a set add up to the same there.
LEMMA TotalsAlike ==
    ASSUME NEW S, IsFiniteSet(S), NEW f, NEW e, Alike(f, e, S)
    PROVE  Total(f, S) = Total(e, S)
<1>1. PICK g : Adds(g, f, SUBSET S) /\ Total(f, S) = g[S]
  BY TotalIs
<1>2. Adds(g, f, SUBSET S) /\ S \in SUBSET S
  BY <1>1
<1>3. g[S] = Total(e, S)
  BY <1>2, TotalSame
<1> QED BY <1>1, <1>3

-----------------------------------------------------------------------------
(* The bytes of the leases *)

\* So many bytes as the limit admits at one time fit into a word.
Fits(top) ==
    /\ top \in Nat /\ top * MaxActive <= MaxWord
    /\ \A w \in Writers : \A r \in Requests[w] : r.bytes <= top
    /\ \A b \in Sizes : b <= top

\* No lease is larger than top, and the active bytes are the leases'.
BytesInv(top) ==
    /\ \A w \in Writers : bytes[w] \in 0..top /\ request[w].bytes <= top
    /\ activeBytes = Total(bytes, leased)

\* A full set of leases adds up to a word.
LEMMA SumsFit ==
    ASSUME NEW top, Fits(top), NEW S, IsFiniteSet(S), Cardinality(S) <= MaxActive,
           NEW f, \A x \in S : f[x] \in 0..top
    PROVE  Total(f, S) <= MaxWord /\ Total(f, S) \in Nat
<1>1. Total(f, S) \in Nat /\ Total(f, S) <= top * Cardinality(S) /\ Cardinality(S) \in Nat
  BY Totals, FS_CardinalityType DEF Fits
<1>2. \A a, b, c \in Nat : a <= b => c * a <= c * b /\ c * a \in Nat /\ c * b \in Nat
  OBVIOUS
<1>3. top * Cardinality(S) <= top * MaxActive /\ top * Cardinality(S) \in Nat /\ top * MaxActive \in Nat
  BY <1>1, <1>2, SearchConstants DEF Fits
<1> QED BY <1>1, <1>3, SearchConstants DEF Fits

\* A grant adds the bytes of a waiter that had no lease.
LEMMA GrantedBytes ==
    ASSUME WritesInv, DispatchLocked, Admissible
    PROVE  \E w \in Writers : /\ w \notin leased /\ leased' = leased \cup {w}
                             /\ activeBytes' = Plus(activeBytes, bytes[w])
<1> DEFINE i == CHOOSE i \in Candidates : TRUE
<1>1. i \in Candidates
  BY DEF Admissible
<1>2. i \in DOMAIN waiters
  BY <1>1 DEF Candidates, Runnable
<1>3. leased' = leased \cup {waiters[i]} /\ activeBytes' = Plus(activeBytes, bytes[waiters[i]])
  BY DEF DispatchLocked, Admissible, opVars
<1> HIDE DEF i
<1>4. waiters[i] \in Writers /\ waiters[i] \in Members(waiters)
  BY <1>2 DEF WritesInv, TypeOK, Members
<1>5. waiters[i] \notin leased
  BY <1>4 DEF WritesInv, QueueInv, Queued
<1> QED BY <1>3, <1>4, <1>5

\* A grant adds the bytes of its lease, without saturating.
LEMMA GrantBytes ==
    ASSUME WritesInv, CountInv, NEW top, Fits(top), BytesInv(top), CountInv', DispatchLocked
    PROVE  BytesInv(top)'
<1>1. CASE ~Admissible
  <2>1. UNCHANGED <<bytes, request, activeBytes, leased>>
    BY <1>1 DEF DispatchLocked, opVars
  <2> QED BY <2>1 DEF BytesInv
<1>2. CASE Admissible
  <2>1. PICK w \in Writers : /\ w \notin leased /\ leased' = leased \cup {w}
                             /\ activeBytes' = Plus(activeBytes, bytes[w])
    BY <1>2, GrantedBytes
  <2>2. UNCHANGED <<bytes, request>>
    BY <1>2 DEF DispatchLocked, opVars
  <2>3. IsFiniteSet(leased') /\ Cardinality(leased') <= MaxActive /\ leased' \subseteq Writers
    <3>1. IsFiniteSet(leased) /\ leased \subseteq Writers
      BY FiniteLeases DEF WritesInv, TypeOK
    <3>2. IsFiniteSet(leased')
      BY <2>1, <3>1, FS_AddElement
    <3> QED BY <2>1, <3>1, <3>2 DEF CountInv
  <2>4. \A x \in leased' : bytes[x] \in 0..top
    BY <2>3 DEF BytesInv
  <2>5. Total(bytes, leased') <= MaxWord /\ Total(bytes, leased') \in Nat
    BY <2>3, <2>4, SumsFit
  <2>6. Total(bytes, leased') = bytes[w] + Total(bytes, leased' \ {w})
    BY <2>1, <2>3, <2>4, Totals DEF Fits
  <2>7. leased' \ {w} = leased
    BY <2>1
  <2>8. activeBytes' = Total(bytes, leased')
    <3>1. bytes[w] \in Nat /\ activeBytes \in Nat
      BY DEF WritesInv, TypeOK
    <3>2. activeBytes + bytes[w] = Total(bytes, leased')
      <4>1. activeBytes = Total(bytes, leased' \ {w})
        BY <2>7 DEF BytesInv
      <4> QED BY <2>6, <3>1, <4>1
    <3> QED BY <2>1, <2>5, <3>2, SearchConstants DEF Plus
  <2> QED BY <2>2, <2>8 DEF BytesInv
<1> QED BY <1>1, <1>2

\* A lease given back takes its bytes along.
LEMMA ReleaseBytes ==
    ASSUME WritesInv, NEW top, Fits(top), BytesInv(top), NEW w \in Writers, Release(w)
    PROVE  BytesInv(top)'
<1>1. /\ w \in leased /\ leased' = leased \ {w} /\ activeBytes' = Minus(activeBytes, bytes[w])
      /\ UNCHANGED <<bytes, request>>
  BY DEF Release, WritesInv, QueueInv, Admitting
<1>2. IsFiniteSet(leased) /\ IsFiniteSet(leased') /\ leased' \subseteq Writers /\ leased \subseteq Writers
  <2>1. IsFiniteSet(leased) /\ leased \subseteq Writers
    BY FiniteLeases DEF WritesInv, TypeOK
  <2> QED BY <1>1, <2>1, FS_RemoveElement
<1>3. /\ \A x \in leased : bytes[x] \in 0..top
      /\ \A x \in leased' : bytes[x] \in 0..top
  BY <1>2 DEF BytesInv
<1>4. Total(bytes, leased) = bytes[w] + Total(bytes, leased') /\ Total(bytes, leased') \in Nat
  BY <1>1, <1>2, <1>3, Totals DEF Fits
<1>5. activeBytes' = Total(bytes, leased')
  BY <1>1, <1>3, <1>4 DEF Minus, BytesInv
<1> QED BY <1>1, <1>5 DEF BytesInv

\* A lease that turns out to need b takes its reservation back and b instead.
LEMMA UpdateKeepsBytes ==
    ASSUME WritesInv, CountInv, NEW top, Fits(top), BytesInv(top), NEW w \in leased, NEW b \in 0..top,
           UpdateBytes(w, b), UNCHANGED request
    PROVE  BytesInv(top)'
<1>1. IsFiniteSet(leased) /\ leased \subseteq Writers /\ bytes \in [Writers -> Nat] /\ Cardinality(leased) <= MaxActive
  BY FiniteLeases DEF WritesInv, TypeOK, CountInv
<1>2. bytes' = [bytes EXCEPT ![w] = b] /\ leased' = leased
  BY DEF UpdateBytes
<1>3. bytes'[w] = b /\ \A x \in Writers : bytes'[x] \in 0..top
  BY <1>1, <1>2 DEF BytesInv
<1>4. /\ \A x \in leased : bytes[x] \in 0..top
      /\ \A x \in leased : bytes'[x] \in 0..top
      /\ \A x \in leased \ {w} : bytes[x] \in 0..top
  BY <1>1, <1>3 DEF BytesInv
<1>5. IsFiniteSet(leased \ {w}) /\ Alike(bytes', bytes, leased \ {w})
  BY <1>1, <1>2, FS_RemoveElement DEF Alike
<1>6. Total(bytes, leased) = bytes[w] + Total(bytes, leased \ {w}) /\ Total(bytes, leased \ {w}) \in Nat
  BY <1>1, <1>4, <1>5, Totals DEF Fits
<1>7. Total(bytes', leased) = b + Total(bytes', leased \ {w})
  BY <1>1, <1>3, <1>4, Totals DEF Fits
<1>8. Total(bytes', leased \ {w}) = Total(bytes, leased \ {w})
  BY <1>5, TotalsAlike
<1>9. Total(bytes', leased) <= MaxWord
  BY <1>1, <1>4, SumsFit
<1>10. activeBytes' = Total(bytes', leased')
  <2>1. CASE b = bytes[w]
    BY <1>2, <1>6, <1>7, <1>8, <2>1 DEF UpdateBytes, BytesInv
  <2>2. CASE b # bytes[w]
    <3>1. activeBytes' = Plus(Minus(activeBytes, bytes[w]), b)
      BY <2>2 DEF UpdateBytes, ReconciledBytes
    <3>2. Minus(activeBytes, bytes[w]) = Total(bytes, leased \ {w})
      BY <1>4, <1>6 DEF Minus, BytesInv
    <3> QED BY <1>2, <1>6, <1>7, <1>8, <1>9, <3>1, <3>2, SearchConstants DEF Plus
  <2> QED BY <2>1, <2>2
<1> QED BY <1>3, <1>10 DEF BytesInv

\* The size of an operation without a lease counts nowhere.
LEMMA BytesApart ==
    ASSUME WritesInv, NEW top, Fits(top), BytesInv(top), NEW w \in Writers, w \notin leased, NEW b \in 0..top,
           bytes' = [bytes EXCEPT ![w] = b], NEW r, request' = [request EXCEPT ![w] = r], r.bytes <= top,
           UNCHANGED <<activeBytes, leased>>
    PROVE  BytesInv(top)'
<1>1. IsFiniteSet(leased) /\ leased \subseteq Writers /\ bytes \in [Writers -> Nat] /\ request \in [Writers -> Request]
  BY FiniteLeases DEF WritesInv, TypeOK
<1>2. Alike(bytes', bytes, leased)
  BY <1>1 DEF Alike
<1>3. Total(bytes', leased') = activeBytes'
  BY <1>1, <1>2, TotalsAlike DEF BytesInv
<1>4. \A x \in Writers : bytes'[x] \in 0..top /\ request'[x].bytes <= top
  BY <1>1 DEF BytesInv
<1> QED BY <1>3, <1>4 DEF BytesInv

\* Every step keeps the sum, when it keeps the number of leases.
LEMMA NextBytes ==
    ASSUME NEW top, Fits(top), WritesInv, CountInv, CountInv', BytesInv(top), [Next]_vars
    PROVE  BytesInv(top)'
<1> DEFINE Still == UNCHANGED <<bytes, request, activeBytes, leased>>
<1>0. Still => BytesInv(top)'
  BY DEF BytesInv
<1>1. ASSUME NEW w \in Writers, BeginWrite(w) PROVE BytesInv(top)'
  <2>1. PICK r \in Requests[w] : request' = [request EXCEPT ![w] = r] /\ bytes' = [bytes EXCEPT ![w] = r.bytes]
    BY <1>1 DEF BeginWrite
  <2>2. w \notin leased /\ UNCHANGED <<activeBytes, leased>>
    BY <1>1 DEF BeginWrite, WritesInv, QueueInv, Admitting
  <2>3. r.bytes \in 0..top /\ r.bytes <= top
    <3>1. r.bytes <= top
      BY <2>1 DEF Fits
    <3>2. r \in Request
      BY <2>1, Constants
    <3>3. r.bytes \in Nat
      BY <3>2 DEF Request
    <3> QED BY <3>1, <3>3 DEF Fits
  <2> QED BY <2>1, <2>2, <2>3, BytesApart
<1>2. ASSUME NEW w \in Writers, WriteDone(w) PROVE BytesInv(top)'
  <2>1. request' = [request EXCEPT ![w] = NoRequest] /\ bytes' = [bytes EXCEPT ![w] = 0]
    BY <1>2 DEF WriteDone
  <2>2. w \notin leased /\ UNCHANGED <<activeBytes, leased>>
    BY <1>2 DEF WriteDone, WritesInv, QueueInv, Admitting
  <2>3. NoRequest.bytes <= top /\ 0 \in 0..top
    BY DEF Fits, NoRequest
  <2> QED BY <2>1, <2>2, <2>3, BytesApart
<1>3. ASSUME NEW w \in Writers, Project(w) PROVE BytesInv(top)'
  <2>1. w \in leased /\ UNCHANGED request
    BY <1>3 DEF Project, WritesInv, QueueInv, Admitting
  <2>2. CASE UNCHANGED coordVars
    BY <1>0, <2>1, <2>2 DEF coordVars
  <2>3. CASE \E b \in Sizes : UpdateBytes(w, b)
    <3>1. PICK b \in Sizes : UpdateBytes(w, b)
      BY <2>3
    <3>2. b \in 0..top
      BY <3>1, SearchConstants DEF Fits
    <3> QED BY <2>1, <3>1, <3>2, UpdateKeepsBytes
  <2> QED BY <1>3, <2>2, <2>3 DEF Project
<1>4. ASSUME NEW w \in Writers, MapBatch(w) PROVE BytesInv(top)'
  <2>1. w \in leased /\ UNCHANGED request
    BY <1>4 DEF MapBatch, WritesInv, QueueInv, Admitting
  <2>2. CASE UNCHANGED coordVars
    BY <1>0, <2>1, <2>2 DEF coordVars
  <2>3. CASE \E b \in Sizes : UpdateBytes(w, b)
    <3>1. PICK b \in Sizes : UpdateBytes(w, b)
      BY <2>3
    <3>2. b \in 0..top
      BY <3>1, SearchConstants DEF Fits
    <3> QED BY <2>1, <3>1, <3>2, UpdateKeepsBytes
  <2> QED BY <1>4, <2>2, <2>3 DEF MapBatch
<1>5. ASSUME NEW w \in Writers, Operation(w),
             ~BeginWrite(w), ~WriteDone(w), ~Project(w), ~MapBatch(w), ~Release(w)
      PROVE  Still
  BY <1>5 DEF Operation, Acquire, ReceiveLease, CancelWaiter, LockWriter, LockGranted, CancelLockWait, StartOperation,
              BatchReturns, Unlock, coordVars
<1>6. ASSUME NEW w \in Writers, ContextDone(w) \/ AgingIntervalPasses(w) PROVE Still
  BY <1>6 DEF ContextDone, AgingIntervalPasses, coordVars, opVars
<1>7. ASSUME Close \/ CloseAfterWrites \/ UNCHANGED vars PROVE Still
  BY <1>7 DEF Close, CloseAfterWrites, vars, coordVars, opVars
<1>8. ASSUME NEW w \in Writers, Release(w) PROVE BytesInv(top)'
  BY <1>8, ReleaseBytes
<1>9. DispatchLocked => BytesInv(top)'
  BY GrantBytes
<1> QED BY <1>0, <1>1, <1>2, <1>3, <1>4, <1>5, <1>6, <1>7, <1>8, <1>9 DEF Next, Stopped

\* The coordinator's counters are exactly the leases that exist, whatever meets a grant and
\* however sizes are reconciled, as long as the sizes admitted at one time fit into a word.
THEOREM CountersExact ==
    ASSUME NEW top, Fits(top) PROVE Spec => []AccountingExact
<1>1. Init => BytesInv(top)
  <2> SUFFICES ASSUME Init PROVE BytesInv(top)
    OBVIOUS
  <2>1. activeBytes = 0 /\ leased = {} /\ \A w \in Writers : bytes[w] = 0 /\ request[w].bytes = 0
    BY DEF Init, NoRequest
  <2>2. Total(bytes, {}) = 0
    <3>1. IsFiniteSet({}) /\ \A x \in {} : bytes[x] \in 0..top
      BY FS_EmptySet
    <3> QED BY <3>1, Totals DEF Fits
  <2> QED BY <2>1, <2>2 DEF BytesInv, Fits
<1>2. FullInv /\ FullInv' /\ BytesInv(top) /\ [Next]_vars => BytesInv(top)'
  BY NextBytes DEF FullInv
<1>3. FullInv /\ BytesInv(top) => AccountingExact
  BY DEF FullInv, CountInv, BytesInv, AccountingExact, Total
<1> QED BY <1>1, <1>2, <1>3, FullInductive, PTL DEF Spec

-----------------------------------------------------------------------------
(* No lost wake-up *)

\* Whether a waiter can be admitted depends on the queue, the counters, and the
\* requests, bytes and ages of those who queue.
LEMMA AdmissibleSame ==
    ASSUME waiters \in Seq(Writers),
           UNCHANGED <<waiters, age, activeWrites, activeBytes, activeUsers>>,
           \A w \in Members(waiters) : request'[w] = request[w] /\ bytes'[w] = bytes[w]
    PROVE  Admissible' = Admissible
<1>1. \A i \in DOMAIN waiters : waiters[i] \in Members(waiters)
  BY DEF Members
<1>2. Runnable' = Runnable /\ Runnable \subseteq DOMAIN waiters
  BY DEF Runnable
<1>3. ASSUME NEW i \in DOMAIN waiters, NEW k \in DOMAIN waiters
      PROVE  RanksAbove(i, k)' = RanksAbove(i, k)
  BY <1>1 DEF RanksAbove, Priority
<1>4. ASSUME NEW i \in DOMAIN waiters
      PROVE  BytesAvailable(bytes[waiters[i]])' = BytesAvailable(bytes[waiters[i]])
  BY <1>1 DEF BytesAvailable
<1>5. Candidates' = Candidates
  BY <1>2, <1>3, <1>4 DEF Candidates
<1> QED BY <1>5 DEF Admissible

\* A lease that keeps its size changes nothing that others look at.
LEMMA SameSize ==
    ASSUME TypeOK, NEW w \in Writers, NEW b \in Nat, UpdateBytes(w, b), ~dispatching'
    PROVE  UNCHANGED <<bytes, waiters, age, activeWrites, activeBytes, activeUsers>>
BY DEF UpdateBytes, TypeOK

\* Room for the best waiter appears under the coordinator's mutex, which is
\* kept to dispatch, or by a waiter's aging and nothing else
\* (write_coordinator.go: dispatchLocked after Acquire, cancel, release and
\* updateBytes).
THEOREM NoLostWakeUp == Spec => WakesWhenRoom
<1> DEFINE Wake == ~dispatching /\ ~Admissible /\ ~dispatching' /\ Admissible' => age' /= age
<1>1. FullInv /\ [Next]_vars => [Wake]_vars
  <2> SUFFICES ASSUME FullInv, [Next]_vars, ~dispatching, ~dispatching', age' = age
               PROVE  Admissible' = Admissible
    OBVIOUS
  <2>0. waiters \in Seq(Writers) /\ \A w \in Members(waiters) : Queued(w)
    BY DEF FullInv, WritesInv, TypeOK, QueueInv
  <2>1. UNCHANGED <<request, bytes, waiters, activeWrites, activeBytes, activeUsers>>
          => Admissible' = Admissible
    BY <2>0, AdmissibleSame
  <2>2. ASSUME NEW w \in Writers, BeginWrite(w) \/ WriteDone(w)
        PROVE  Admissible' = Admissible
    <3>1. ~Queued(w) /\ UNCHANGED <<waiters, activeWrites, activeBytes, activeUsers>>
      BY <2>2 DEF BeginWrite, WriteDone, Queued
    <3>2. \A v \in Writers \ {w} : request'[v] = request[v] /\ bytes'[v] = bytes[v]
      BY <2>2 DEF BeginWrite, WriteDone, FullInv, WritesInv, TypeOK
    <3>3. \A v \in Members(waiters) : v \in Writers \ {w}
      BY <2>0, <3>1 DEF FullInv, WritesInv, QueueInv
    <3> QED BY <2>0, <3>1, <3>2, <3>3, AdmissibleSame
  <2>3. ASSUME NEW w \in Writers, Project(w) \/ MapBatch(w)
        PROVE  Admissible' = Admissible
    <3>1. UNCHANGED coordVars \/ \E b \in Nat : UpdateBytes(w, b)
      BY <2>3, SearchConstants DEF SearchConstants, Project, MapBatch
    <3>2. request' = request
      BY <2>3 DEF Project, MapBatch
    <3>3. UNCHANGED <<bytes, waiters, activeWrites, activeBytes, activeUsers>>
      BY <3>1, SameSize DEF coordVars, FullInv, WritesInv
    <3> QED BY <2>1, <3>2, <3>3
  <2>4. ASSUME NEW w \in Writers, Acquire(w) \/ CancelWaiter(w) \/ Release(w)
        PROVE  Admissible' = Admissible
    <3>1. UNCHANGED <<request, bytes, waiters, activeWrites, activeBytes, activeUsers>>
      BY <2>4 DEF Acquire, CancelWaiter, Release, ThenDispatch
    <3> QED BY <2>1, <3>1
  <2>5. ASSUME NEW w \in Writers,
               \/ ReceiveLease(w) \/ LockWriter(w) \/ LockGranted(w) \/ CancelLockWait(w)
               \/ StartOperation(w) \/ BatchReturns(w) \/ Unlock(w) \/ ContextDone(w)
        PROVE  Admissible' = Admissible
    <3>1. UNCHANGED <<request, coordVars>>
      BY <2>5 DEF ReceiveLease, LockWriter, LockGranted, CancelLockWait, StartOperation,
                  BatchReturns, Unlock, ContextDone
    <3> QED BY <2>1, <3>1 DEF coordVars
  <2>6. ASSUME NEW w \in Writers PROVE ~AgingIntervalPasses(w)
    <3>1. ASSUME AgingIntervalPasses(w) PROVE FALSE
      <4>1. age \in [Writers -> 0..Foreground] /\ age' = [age EXCEPT ![w] = @ + 1]
        BY <3>1 DEF AgingIntervalPasses, FullInv, WritesInv, TypeOK
      <4> QED BY <4>1 DEF Foreground
    <3> QED BY <3>1
  <2>7. CASE Close \/ CloseAfterWrites \/ UNCHANGED vars
    <3>1. UNCHANGED <<request, coordVars>>
      BY <2>7 DEF Close, CloseAfterWrites, vars, opVars
    <3> QED BY <2>1, <3>1 DEF coordVars
  <2>8. ~DispatchLocked
    BY DEF DispatchLocked
  <2> QED BY <2>2, <2>3, <2>4, <2>5, <2>6, <2>7, <2>8 DEF Next, Operation, Stopped
<1> QED BY <1>1, FullInductive, PTL DEF Spec, WakesWhenRoom

-----------------------------------------------------------------------------
(* Search documents: what is verified is covered *)

\* Records of the model: documents, what an item of a batch and the two at work hold.
Docs == {"none", "plain", "full"}
Items == [id : Letters, keep : BOOLEAN]

ItemTask(t) ==
    \/ t.pc = "import" /\ t.kind = "sync" /\ DOMAIN t = {"pc", "kind", "items"} /\ t.items \subseteq Items
    \/ /\ t.pc = "fill" /\ t.kind # "sync" /\ DOMAIN t = {"pc", "kind", "after", "items"}
       /\ t.items \subseteq Items /\ t.after \in Nat
TaskShape(t) ==
    \/ t = Nothing
    \/ t.pc \in {"wait", "delete", "end"}
    \/ t.pc = "hide" /\ DOMAIN t = {"pc", "kind", "after"}
    \/ ItemTask(t)
    \/ t.pc = "mark" /\ DOMAIN t = {"pc", "from"} /\ ItemTask(t.from)
WorkerShape(w) ==
    \/ w = Nothing
    \/ w.pc = "list" /\ DOMAIN w = {"pc", "stop"}
    \/ /\ w.pc \in {"page", "index", "mark"}
       /\ DOMAIN w = {"pc", "stop", "page", "wrapped", "todo", "items", "enriched", "deferred"}
       /\ w.items \subseteq Items

\* Rows, documents and jobs have their types; no id comes back, and while a job is at work
\* the attachment worker is not.
DocTables ==
    /\ stored \subseteq Letters /\ raws \subseteq Letters /\ past \cap stored = {} /\ removing \subseteq past
    /\ DOMAIN docs = Letters /\ \A m \in Letters : docs[m] \in Docs
    /\ DOMAIN box = {"include", "purged", "known"}
    /\ TaskShape(task) /\ WorkerShape(worker)
    /\ task # Nothing /\ task.pc # "wait" => worker = Nothing

\* A purge works on a mailbox that is marked purged, hiding on one that is hidden.
Marks ==
    /\ task.pc = "delete" => box.purged
    /\ task.pc = "hide" => ~box.include

\* What is written and not yet marked has its document, and a job that fills the mailbox
\* has documented what it has passed.
Written == task.pc = "mark" => \A i \in task.from.items : i.id \in stored => docs[i.id] # "none"
Passed(t) == t.pc = "fill" => \A m \in stored \ incoming : m <= t.after => docs[m] # "none" \/ m \in IdsOf(t.items)
Filled ==
    /\ Passed(task)
    /\ task.pc = "mark" => Passed(task.from)

DocsInv == DocTables /\ Marks /\ Written /\ Filled /\ DocumentsSafe

\* What an item does to the worker.
LEMMA TakenShape ==
    ASSUME WorkerShape(worker), worker.pc = "page", NEW items \in SUBSET Items
    PROVE  LET w == TakenBy(items) IN
           /\ DOMAIN w = DOMAIN worker /\ w.pc \in {"page", "index"} /\ w.items \subseteq Items
  BY DEF WorkerShape, TakenBy, Nothing

\* What the first transaction of a job makes of the state of the mailbox.
LEMMA BoxPrepared ==
    ASSUME DocTables
    PROVE  /\ DOMAIN PurgeMarked = DOMAIN box /\ PurgeMarked.purged /\ PurgeMarked.include = box.include
           /\ DOMAIN RepairPrepared = DOMAIN box /\ RepairPrepared.include = box.include
           /\ box.purged => ~RepairPrepared.known
           /\ ~box.purged => RepairPrepared = box
<1>1. DOMAIN box = {"include", "purged", "known"}
  BY DEF DocTables
<1>2. CASE box.purged
  BY <1>1, <1>2 DEF PurgeMarked, RepairPrepared
<1>3. CASE ~box.purged
  BY <1>1, <1>3 DEF PurgeMarked, RepairPrepared
<1> QED BY <1>2, <1>3

\* The tables, item by item of the worker and of the job.
LEMMA TablesKept == ASSUME DocTables, [IndexingNext]_indexVars PROVE DocTables'
<1>1. CASE WorkerLists
  BY <1>1 DEF DocTables, WorkerLists, Nothing, WorkerShape
<1>2. CASE WorkerIndexes
  BY <1>2 DEF DocTables, WorkerIndexes, IndexMessages, Documented, KindOf, Nothing, WorkerShape, Docs
<1>3. CASE WorkerMarks
  BY <1>3 DEF DocTables, WorkerMarks, MarkIndexed, Settled, Nothing, WorkerShape, Docs
<1>4. CASE WorkerItem
  <2>1. DocTables /\ UNCHANGED <<stored, task>> /\ worker.pc = "page"
    BY <1>4 DEF WorkerItem, WorkerSkips, WorkerEnriches, WorkerDefers, mail
  <2>2. WorkerShape(worker')
    <3>1. CASE WorkerSkips(Head(worker.todo))
      BY <2>1, <3>1 DEF WorkerSkips, DocTables, WorkerShape, Nothing
    <3>2. CASE WorkerEnriches(Head(worker.todo))
      <4>1. PICK items : items = IF Visible THEN {Item(Head(worker.todo), FALSE)} ELSE {}
        OBVIOUS
      <4>2. items \in SUBSET Items
        BY <2>1, <3>2, <4>1 DEF WorkerEnriches, Item, Items, DocTables
      <4>3. worker' = [TakenBy(items) EXCEPT !.enriched = @ + 1]
        BY <3>2, <4>1 DEF WorkerEnriches
      <4> QED BY <2>1, <4>2, <4>3, TakenShape DEF DocTables, WorkerShape, Nothing
    <3>3. CASE WorkerDefers(Head(worker.todo))
      <4>1. PICK items : items = {Item(Head(worker.todo), TRUE)}
        OBVIOUS
      <4>2. items \in SUBSET Items
        BY <2>1, <3>3, <4>1 DEF WorkerDefers, Item, Items, DocTables
      <4>3. worker' = [TakenBy(items) EXCEPT !.deferred = @ + 1]
        BY <3>3, <4>1 DEF WorkerDefers
      <4> QED BY <2>1, <4>2, <4>3, TakenShape DEF DocTables, WorkerShape, Nothing
    <3> QED BY <1>4, <3>1, <3>2, <3>3 DEF WorkerItem
  <2>3. task = Nothing \/ task.pc = "wait"
    BY <2>1 DEF DocTables, Nothing
  <2> QED BY <1>4, <2>1, <2>2, <2>3 DEF DocTables, WorkerItem, WorkerSkips, WorkerEnriches, WorkerDefers, mail, Docs
<1>5. CASE WorkerEnds \/ WorkerFails \/ AlarmRings
  BY <1>5 DEF DocTables, WorkerEnds, WorkerFails, AlarmRings, StartAttachmentIndex, mail, WorkerShape
<1>6. CASE TaskSetsUp
  <2>1. CASE task.kind = "sync"
    BY <1>6, <2>1, BoxPrepared DEF DocTables, TaskSetsUp, TaskShape, ItemTask
  <2>2. CASE task.kind \in {"purge", "rebuild"}
    BY <1>6, <2>2, BoxPrepared DEF DocTables, TaskSetsUp, TaskShape
  <2>3. CASE task.kind \in {"enable", "disable"}
    BY <1>6, <2>3, BoxPrepared DEF DocTables, TaskSetsUp, TaskShape, ItemTask
  <2> QED BY <1>6, <2>1, <2>2, <2>3 DEF TaskSetsUp
<1>7. CASE RepairBegins
  BY <1>7 DEF DocTables, RepairBegins, RepairPrepared, mail, Nothing, TaskShape, ItemTask
<1>8. CASE TaskIndexes
  BY <1>8 DEF DocTables, TaskIndexes, IndexMessages, Documented, KindOf, Nothing, TaskShape, Docs
<1>9. CASE TaskMarks
  BY <1>9 DEF DocTables, TaskMarks, MarkIndexed, Settled, Nothing, TaskShape, ItemTask, Docs
<1>10. CASE FillEnds
  BY <1>10 DEF DocTables, FillEnds, mail, Nothing, TaskShape
<1>11. CASE TaskEnds \/ TaskFails \/ IndexCrash \/ (\E kind \in Kinds : TaskStarts(kind))
  BY <1>11
  DEF DocTables, TaskEnds, TaskFails, IndexCrash, TaskStarts, StartAttachmentIndex, mail, TaskShape, WorkerShape
<1>12. ASSUME NEW m \in Letters, FillNext(m) PROVE DocTables'
  <2>1. /\ task.pc = "fill" /\ task.kind # "sync" /\ DOMAIN task = {"pc", "kind", "after", "items"}
        /\ task.items \subseteq Items /\ m \in Nat
    BY <1>12, IndexingAssumption DEF FillNext, DocTables, TaskShape, ItemTask, Nothing
  <2>2. PICK keep \in BOOLEAN : task' = [task EXCEPT !.after = m, !.items = @ \cup {Item(m, keep)}]
    <3>1. \/ task' = [task EXCEPT !.after = m, !.items = @ \cup {Item(m, FALSE)}]
          \/ task' = [task EXCEPT !.after = m, !.items = @ \cup {Item(m, TRUE)}]
      BY <1>12 DEF FillNext
    <3> QED BY <3>1
  <2>3. ItemTask(task') /\ task # Nothing /\ task.pc # "wait"
    <3>1. Item(m, keep) \in Items
      BY <1>12 DEF Item, Items
    <3>2. /\ DOMAIN task' = DOMAIN task /\ task'.pc = "fill" /\ task'.kind = task.kind
          /\ task'.after = m /\ task'.items = task.items \cup {Item(m, keep)}
      BY <2>1, <2>2
    <3> QED BY <2>1, <3>1, <3>2 DEF ItemTask, Nothing
  <2> QED BY <1>12, <2>1, <2>3 DEF FillNext, DocTables, TaskShape, WorkerShape, Nothing
<1>13. CASE (\E m \in Letters : HideNext(m)) \/ (\E m \in Letters : PurgeDeletes(m))
  BY <1>13 DEF DocTables, HideNext, PurgeDeletes, Nothing, TaskShape, ItemTask, Docs
<1>14. ASSUME NEW m \in Letters, Import(m) PROVE DocTables'
  <2>1. task.pc = "import" /\ ItemTask(task)
    BY <1>14 DEF Import, DocTables, TaskShape, Nothing
  <2>2. PICK more \in SUBSET Items : task' = [task EXCEPT !.items = more]
    <3>1. CASE Visible
      <4>1. task.items \subseteq Items
        BY <2>1 DEF ItemTask
      <4>2. Item(m, FALSE) \in Items
        BY <1>14 DEF Item, Items
      <4> QED BY <1>14, <3>1, <4>1, <4>2 DEF Import
    <3>2. CASE ~Visible
      BY <1>14, <2>1, <3>2 DEF Import, ItemTask
    <3> QED BY <3>1, <3>2
  <2>3. ItemTask(task')
    BY <2>1, <2>2 DEF ItemTask
  <2> QED BY <1>14, <2>1, <2>3 DEF Import, DocTables, TaskShape, Nothing, wakes
<1>15. CASE (\E m \in Letters : RowDeleted(m)) \/ (\E m \in Letters : DocumentDeleted(m)) \/ HealIndexes
  BY <1>15 DEF DocTables, RowDeleted, DocumentDeleted, HealIndexes, Docs
<1>16. CASE UNCHANGED <<stored, raws, past, removing, docs, box, task, worker>>
  BY <1>16 DEF DocTables
<1> QED
  BY <1>1, <1>2, <1>3, <1>4, <1>5, <1>6, <1>7, <1>8, <1>9, <1>10, <1>11, <1>12, <1>13, <1>14, <1>15, <1>16
  DEF IndexingNext, WorkerStep, TaskStep, indexVars, mail, TimePasses, HealChecks, HealReads

\* Only a purge deletes by page and only hiding walks a hidden mailbox: the flags change while no such job is at work.
LEMMA MarksKept == ASSUME DocTables, Marks, [IndexingNext]_indexVars PROVE Marks'
<1>1. CASE TaskSetsUp
  <2>1. CASE task.kind = "sync"
    BY <1>1, <2>1, BoxPrepared DEF Marks, TaskSetsUp
  <2>2. CASE task.kind \in {"purge", "rebuild"}
    BY <1>1, <2>2, BoxPrepared DEF Marks, TaskSetsUp
  <2>3. CASE task.kind \in {"enable", "disable"}
    BY <1>1, <2>3, BoxPrepared DEF Marks, TaskSetsUp, DocTables
  <2> QED BY <1>1, <2>1, <2>2, <2>3 DEF TaskSetsUp
<1>2. CASE RepairBegins \/ FillEnds
  BY <1>2 DEF Marks, RepairBegins, FillEnds
<1>3. CASE TaskIndexes \/ TaskMarks
  BY <1>3 DEF Marks, TaskIndexes, TaskMarks, Item, Nothing, DocTables, TaskShape, ItemTask
<1>4. CASE TaskEnds \/ TaskFails \/ IndexCrash \/ (\E kind \in Kinds : TaskStarts(kind))
  BY <1>4 DEF Marks, TaskEnds, TaskFails, IndexCrash, TaskStarts, StartAttachmentIndex, Nothing
<1>5. CASE (\E m \in Letters : FillNext(m)) \/ (\E m \in Letters : HideNext(m)) \/ (\E m \in Letters : Import(m))
  BY <1>5 DEF Marks, FillNext, HideNext, Import, Nothing, DocTables, TaskShape, ItemTask
<1>6. CASE UNCHANGED <<box, task>>
  BY <1>6 DEF Marks
<1> QED
  BY <1>1, <1>2, <1>3, <1>4, <1>5, <1>6
  DEF IndexingNext, WorkerStep, TaskStep, indexVars, WorkerLists, WorkerItem, WorkerIndexes, WorkerMarks,
      WorkerEnds, WorkerFails, AlarmRings, TimePasses, HealChecks, HealIndexes, PurgeDeletes, HealReads,
      RowDeleted, DocumentDeleted

\* A document is written before its marking begins, and only a job or a deletion takes one away.
LEMMA WrittenKept == ASSUME DocTables, Written, [IndexingNext]_indexVars PROVE Written'
<1>1. CASE WorkerItem \/ WorkerIndexes \/ WorkerMarks
  BY <1>1 DEF Written, WorkerItem, WorkerIndexes, WorkerMarks, Item, Nothing, DocTables
<1>2. CASE TaskSetsUp \/ RepairBegins \/ FillEnds
  BY <1>2 DEF Written, TaskSetsUp, RepairBegins, FillEnds
<1>3. CASE TaskIndexes
  BY <1>3 DEF Written, TaskIndexes, IndexMessages, Documented, KindOf, IdsOf, DocTables
<1>4. CASE TaskMarks
  BY <1>4 DEF Written, TaskMarks, Nothing, DocTables, TaskShape, ItemTask
<1>5. CASE TaskEnds \/ TaskFails \/ IndexCrash \/ (\E kind \in Kinds : TaskStarts(kind))
  BY <1>5 DEF Written, TaskEnds, TaskFails, IndexCrash, TaskStarts, StartAttachmentIndex, Nothing
<1>6. CASE \/ (\E m \in Letters : FillNext(m)) \/ (\E m \in Letters : HideNext(m))
           \/ (\E m \in Letters : PurgeDeletes(m)) \/ (\E m \in Letters : Import(m))
  BY <1>6 DEF Written, FillNext, HideNext, PurgeDeletes, Import, Nothing, DocTables, TaskShape, ItemTask, Items
<1>7. CASE HealIndexes \/ (\E m \in Letters : RowDeleted(m)) \/ (\E m \in Letters : DocumentDeleted(m))
  BY <1>7 DEF Written, HealIndexes, RowDeleted, DocumentDeleted, DocTables
<1>8. CASE UNCHANGED <<stored, docs, task>>
  BY <1>8 DEF Written
<1> QED
  BY <1>1, <1>2, <1>3, <1>4, <1>5, <1>6, <1>7, <1>8
  DEF IndexingNext, WorkerStep, TaskStep, indexVars, mail, WorkerLists, WorkerEnds, WorkerFails, AlarmRings,
      TimePasses, HealChecks, HealReads

\* A filling job goes by ascending id, so what it has passed is written or in its hands.
LEMMA FilledKept == ASSUME DocTables, Written, Filled, [IndexingNext]_indexVars PROVE Filled'
<1>1. CASE WorkerItem \/ WorkerIndexes \/ WorkerMarks
  BY <1>1 DEF Filled, WorkerItem, WorkerIndexes, WorkerMarks, Item, Nothing, Passed, DocTables
<1>2. CASE TaskSetsUp \/ RepairBegins \/ FillEnds
  BY <1>2, IndexingAssumption DEF Filled, TaskSetsUp, RepairBegins, FillEnds, mail, Passed, DocTables
<1>3. CASE TaskIndexes
  BY <1>3 DEF Filled, TaskIndexes, IndexMessages, Documented, Passed, DocTables
<1>4. CASE TaskMarks
  <2>1. task.pc = "mark" /\ ItemTask(task.from) /\ task' = [task.from EXCEPT !.items = {}]
    BY <1>4 DEF TaskMarks, DocTables, TaskShape, ItemTask, Nothing
  <2>2. task'.pc = task.from.pc /\ task'.items = {} /\ (task.from.pc = "fill" => task'.after = task.from.after)
    BY <2>1
  <2>3. task.from.pc = "fill" => incoming' = incoming
    BY <1>4, <2>1 DEF TaskMarks, ItemTask
  <2> QED BY <1>4, <2>1, <2>2, <2>3 DEF TaskMarks, MarkIndexed, Settled, IdsOf, ItemTask, DocTables, Written,
      Filled, Passed
<1>5. CASE TaskEnds \/ TaskFails \/ IndexCrash \/ (\E kind \in Kinds : TaskStarts(kind))
  BY <1>5 DEF Filled, TaskEnds, TaskFails, IndexCrash, TaskStarts, StartAttachmentIndex, Nothing, Passed
<1>6. ASSUME NEW m \in Letters, FillNext(m) PROVE Filled'
  <2>1. task.pc = "fill" /\ DOMAIN task = {"pc", "kind", "after", "items"} /\ task.after \in Nat /\ m \in Nat
    BY <1>6, IndexingAssumption DEF FillNext, DocTables, TaskShape, ItemTask, Nothing
  <2>2. PICK keep \in BOOLEAN : task' = [task EXCEPT !.after = m, !.items = @ \cup {Item(m, keep)}]
    <3>1. \/ task' = [task EXCEPT !.after = m, !.items = @ \cup {Item(m, FALSE)}]
          \/ task' = [task EXCEPT !.after = m, !.items = @ \cup {Item(m, TRUE)}]
      BY <1>6 DEF FillNext
    <3> QED BY <3>1
  <2>3. task'.pc = "fill" /\ task'.after = m /\ task'.items = task.items \cup {Item(m, keep)}
    BY <2>1, <2>2
  <2>4. \A x \in stored \ incoming : x <= m => x <= task.after \/ x = m
    BY <1>6, <2>1, IndexingAssumption DEF FillNext, DocTables
  <2>5. UNCHANGED <<stored, incoming, docs>>
    BY <1>6 DEF FillNext
  <2>6. IdsOf(task.items) \subseteq IdsOf(task'.items) /\ m \in IdsOf(task'.items)
    <3>1. Item(m, keep) \in task'.items /\ Item(m, keep).id = m
      BY <2>3 DEF Item
    <3> QED BY <2>3, <3>1 DEF IdsOf
  <2> QED BY <2>1, <2>3, <2>4, <2>5, <2>6 DEF Filled, Passed
<1>7. CASE (\E m \in Letters : HideNext(m)) \/ (\E m \in Letters : PurgeDeletes(m)) \/ (\E m \in Letters : Import(m))
  BY <1>7 DEF Filled, HideNext, PurgeDeletes, Import, Nothing, Passed, DocTables, TaskShape, ItemTask
<1>8. CASE HealIndexes \/ (\E m \in Letters : RowDeleted(m)) \/ (\E m \in Letters : DocumentDeleted(m))
  BY <1>8 DEF Filled, HealIndexes, RowDeleted, DocumentDeleted, Passed, DocTables
<1>9. CASE UNCHANGED <<stored, incoming, docs, task>>
  BY <1>9 DEF Filled, Passed
<1> QED
  BY <1>1, <1>2, <1>3, <1>4, <1>5, <1>6, <1>7, <1>8, <1>9
  DEF IndexingNext, WorkerStep, TaskStep, indexVars, mail, WorkerLists, WorkerEnds, WorkerFails, AlarmRings,
      TimePasses, HealChecks, HealReads

\* A mailbox becomes verified only when nothing is pending, and loses the mark before a document is withdrawn.
LEMMA CoverageKept ==
    ASSUME DocTables, Marks, Written, Filled, VerifiedIsCovered, [IndexingNext]_indexVars
    PROVE  VerifiedIsCovered'
<1>1. CASE WorkerItem
  BY <1>1 DEF VerifiedIsCovered, WorkerItem, WorkerSkips, WorkerEnriches, WorkerDefers, mail, Visible
<1>2. CASE WorkerIndexes
  BY <1>2 DEF VerifiedIsCovered, WorkerIndexes, IndexMessages, Documented, KindOf, DocTables
<1>3. CASE WorkerMarks
  BY <1>3 DEF VerifiedIsCovered, WorkerMarks, MarkIndexed, Settled, DocTables
<1>4. CASE TaskSetsUp
  <2>1. CASE task.kind = "sync"
    BY <1>4, <2>1, BoxPrepared DEF VerifiedIsCovered, TaskSetsUp
  <2>2. CASE task.kind \in {"purge", "rebuild"}
    BY <1>4, <2>2, BoxPrepared DEF VerifiedIsCovered, TaskSetsUp
  <2>3. CASE task.kind \in {"enable", "disable"}
    BY <1>4, <2>3, BoxPrepared DEF VerifiedIsCovered, TaskSetsUp, DocTables
  <2> QED BY <1>4, <2>1, <2>2, <2>3 DEF TaskSetsUp
<1>5. CASE RepairBegins \/ FillEnds
  BY <1>5 DEF VerifiedIsCovered, RepairBegins, FillEnds, RepairPrepared, ActiveWhenDrained, Drained, mail, IdsOf,
      DocTables, Filled, Passed
<1>6. CASE TaskIndexes
  BY <1>6 DEF VerifiedIsCovered, TaskIndexes, IndexMessages, Documented, KindOf, DocTables
<1>7. CASE TaskMarks
  BY <1>7 DEF VerifiedIsCovered, TaskMarks, MarkIndexed, Settled, IdsOf, DocTables, Written
<1>8. CASE (\E m \in Letters : HideNext(m)) \/ (\E m \in Letters : PurgeDeletes(m)) \/ (\E m \in Letters : Import(m))
  BY <1>8 DEF VerifiedIsCovered, HideNext, PurgeDeletes, Import, Item, Visible, Marks
<1>9. CASE HealIndexes \/ (\E m \in Letters : RowDeleted(m)) \/ (\E m \in Letters : DocumentDeleted(m))
  BY <1>9 DEF VerifiedIsCovered, HealIndexes, RowDeleted, DocumentDeleted, DocTables
<1>10. CASE UNCHANGED <<stored, incoming, docs, box>>
  BY <1>10 DEF VerifiedIsCovered
<1> QED
  BY <1>1, <1>2, <1>3, <1>4, <1>5, <1>6, <1>7, <1>8, <1>9, <1>10
  DEF IndexingNext, WorkerStep, TaskStep, indexVars, mail, WorkerLists, WorkerEnds, WorkerFails, AlarmRings,
      TimePasses, TaskEnds, TaskFails, HealChecks, IndexCrash, FillNext, HealReads, TaskStarts

\* A batch writes documents of rows it has seen, and a deleted row has its document's deletion ahead.
LEMMA NoOrphansKept == ASSUME DocTables, NoOrphanDocument, [IndexingNext]_indexVars PROVE NoOrphanDocument'
<1>1. CASE WorkerLists \/ WorkerItem
  BY <1>1 DEF NoOrphanDocument, WorkerLists, WorkerItem, WorkerSkips, WorkerEnriches, WorkerDefers, mail, DocTables
<1>2. CASE WorkerIndexes
  BY <1>2 DEF NoOrphanDocument, WorkerIndexes, IndexMessages, Documented
<1>3. CASE WorkerMarks
  BY <1>3 DEF NoOrphanDocument, WorkerMarks, MarkIndexed, Settled
<1>4. CASE WorkerEnds \/ WorkerFails \/ AlarmRings
  BY <1>4 DEF NoOrphanDocument, WorkerEnds, WorkerFails, AlarmRings, StartAttachmentIndex, mail, Nothing
<1>5. CASE TaskSetsUp \/ RepairBegins \/ FillEnds
  BY <1>5 DEF NoOrphanDocument, TaskSetsUp, RepairBegins, FillEnds, mail
<1>6. CASE TaskIndexes
  BY <1>6 DEF NoOrphanDocument, TaskIndexes, IndexMessages, Documented
<1>7. CASE TaskMarks
  BY <1>7 DEF NoOrphanDocument, TaskMarks, MarkIndexed, Settled
<1>8. CASE TaskEnds \/ TaskFails
  BY <1>8 DEF NoOrphanDocument, TaskEnds, TaskFails, StartAttachmentIndex, mail, Nothing, DocTables
<1>9. CASE IndexCrash \/ (\E kind \in Kinds : TaskStarts(kind))
  BY <1>9 DEF NoOrphanDocument, IndexCrash, TaskStarts, mail, Nothing, DocTables, WorkerShape
<1>10. CASE \/ (\E m \in Letters : FillNext(m)) \/ (\E m \in Letters : HideNext(m))
            \/ (\E m \in Letters : PurgeDeletes(m)) \/ (\E m \in Letters : Import(m))
  BY <1>10 DEF NoOrphanDocument, FillNext, HideNext, PurgeDeletes, Import, DocTables
<1>11. CASE HealIndexes \/ (\E m \in Letters : RowDeleted(m)) \/ (\E m \in Letters : DocumentDeleted(m))
  BY <1>11 DEF NoOrphanDocument, HealIndexes, RowDeleted, DocumentDeleted, DocTables
<1>12. CASE UNCHANGED <<stored, docs, removing, excused, task, worker>>
  BY <1>12 DEF NoOrphanDocument
<1> QED
  BY <1>1, <1>2, <1>3, <1>4, <1>5, <1>6, <1>7, <1>8, <1>9, <1>10, <1>11, <1>12
  DEF IndexingNext, WorkerStep, TaskStep, indexVars, mail, TimePasses, HealChecks, HealReads

\* Where a server starts.
LEMMA DocsInitially == IndexingInit => DocsInv
  BY IndexingAssumption DEF IndexingInit, DocsInv, DocTables, Docs, TaskShape, WorkerShape, Nothing, Marks,
      Written, Filled, Passed, DocumentsSafe, VerifiedIsCovered, NoOrphanDocument

\* Every step keeps the invariant.
LEMMA DocsKept == DocsInv /\ [IndexingNext]_indexVars => DocsInv'
  BY TablesKept, MarksKept, WrittenKept, FilledKept, CoverageKept, NoOrphansKept DEF DocsInv, DocumentsSafe

(***************************************************************************)
(* A mailbox whose coverage counts as verified has a document for every    *)
(* message whose import is complete, and a document outlives its row only  *)
(* while its deletion or the batch that wrote it is under way, or when a   *)
(* failure or a crash cut that batch off: for any number of messages,      *)
(* imports, jobs, alarms, deletions, failures and crashes.                 *)
(***************************************************************************)
THEOREM DocumentsAreSafe == IndexingSpec => []DocumentsSafe
<1>1. DocsInv => DocumentsSafe
  BY DEF DocsInv
<1> QED BY <1>1, DocsInitially, DocsKept, PTL DEF IndexingSpec

=============================================================================
