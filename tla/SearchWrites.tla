---------------------------- MODULE SearchWrites ----------------------------
(***************************************************************************)
(* Writes to the Bleve indexes: every operation joins the service's wait   *)
(* group, waits for a lease of the process-wide write coordinator (a limit *)
(* on writes and bytes, one lease per user, priorities that age), takes    *)
(* the FIFO writer lock of its index, runs the batch in a goroutine that   *)
(* outlives a canceled caller, and gives everything back in order.         *)
(*                                                                         *)
(* The coordinator's mutex is held from the statement that changes its     *)
(* state to the end of dispatchLocked: `dispatching' is that critical      *)
(* section, one step per grant, and every other step that needs the mutex  *)
(* waits for it.  Time is the number of aging intervals a waiter is old.   *)
(***************************************************************************)
EXTENDS Integers, Sequences, FiniteSets, SequencesExt

CONSTANTS
    Writers,         \* write operations in progress at one time
    UserOf,          \* the user whose index an operation writes
    Requests,        \* what an operation may ask for: priority, bytes, indexing
    Cancelable,      \* operations whose caller may give up
    Sizes,           \* sizes a batch turns out to have
    MaxActive,       \* bleveWriteCoordinatorConfig.MaxActive
    MaxActiveBytes,  \* bleveWriteCoordinatorConfig.MaxActiveBytes
    MaxWord,         \* math.MaxUint64
    PerUser          \* one index per user, or one combined index

Foreground == 2   \* bleveWriteForeground; normal is 1, background 0

Request == [priority: 0..Foreground, bytes: Nat, indexing: BOOLEAN]

ASSUME SearchConstants ==
    /\ IsFiniteSet(Writers)
    /\ UserOf \in [Writers -> Nat]
    /\ Requests \in [Writers -> SUBSET Request]
    /\ Cancelable \subseteq Writers
    /\ Sizes \subseteq Nat
    /\ MaxActive \in Nat \ {0}
    /\ MaxActiveBytes \in Nat \ {0}
    /\ MaxWord \in Nat
    /\ PerUser \in BOOLEAN

VARIABLES
    pc,            \* each operation's place
    request,       \* bleveWriteRequest of an operation
    bytes,         \* lease.bytes, the request's bytes before the grant
    ctxDone,       \* operations whose context is done
    \* bleveWriteCoordinator
    waiters,       \* in order of their sequence numbers
    age,           \* aging intervals since queuedAt
    leased,        \* operations that hold a lease, received or in the ready channel
    activeWrites, activeBytes, activeUsers,
    dispatching,   \* mu is held, in dispatchLocked
    \* writerLock, by index
    held, lockWaiters,
    granted,       \* lock waiters whose ready channel is closed
    \* Service
    writes,        \* the wait group
    closing, closed

opVars    == <<pc, request, ctxDone>>
coordVars == <<bytes, waiters, age, leased, activeWrites, activeBytes, activeUsers, dispatching>>
lockVars  == <<held, lockWaiters, granted>>
svcVars   == <<writes, closing, closed>>
vars == <<opVars, coordVars, lockVars, svcVars>>

Users == {UserOf[w] : w \in Writers}

\* writerForUser: the key of the index an operation writes.
IndexOf(w) == IF PerUser THEN UserOf[w] ELSE 0
Indexes == {IndexOf(w) : w \in Writers}

PCs == {"idle", "acquire", "waiting", "project", "map", "lock", "lockWait",
        "locked", "batch", "unlock", "release", "done"}

NoRequest == [priority |-> 0, bytes |-> 0, indexing |-> FALSE]

Init ==
    /\ pc = [w \in Writers |-> "idle"]
    /\ request = [w \in Writers |-> NoRequest]
    /\ bytes = [w \in Writers |-> 0]
    /\ ctxDone = {}
    /\ waiters = <<>>
    /\ age = [w \in Writers |-> 0]
    /\ leased = {}
    /\ activeWrites = 0 /\ activeBytes = 0
    /\ activeUsers = [u \in Users |-> 0]
    /\ dispatching = FALSE
    /\ held = [i \in Indexes |-> FALSE]
    /\ lockWaiters = [i \in Indexes |-> <<>>]
    /\ granted = {}
    /\ writes = {} /\ closing = FALSE /\ closed = FALSE

GoTo(w, place) == pc' = [pc EXCEPT ![w] = place]

\* The position of w in a queue.
IndexIn(seq, w) == CHOOSE i \in DOMAIN seq : seq[i] = w
Queued(w) == pc[w] = "waiting" /\ w \notin leased

-----------------------------------------------------------------------------
(* The coordinator *)

\* saturatingAdd, and the subtraction that stops at zero.
Plus(a, b)  == IF a + b > MaxWord THEN MaxWord ELSE a + b
Minus(a, b) == IF a >= b THEN a - b ELSE 0

\* Mutant: the user's other lease is not looked at.
AnyWaiter == DOMAIN waiters

\* bestCandidateLocked: the highest priority after aging, then the oldest.
Priority(w) ==
    LET p == request[w].priority + age[w] IN IF p > Foreground THEN Foreground ELSE p
Runnable == {i \in DOMAIN waiters : activeUsers[UserOf[waiters[i]]] = 0}
RanksAbove(i, k) ==
    LET p == Priority(waiters[i])
        q == Priority(waiters[k])
    IN p > q \/ (p = q /\ i <= k)

BytesAvailable(b) ==
    \/ activeWrites = 0
    \/ b <= MaxActiveBytes /\ activeBytes <= MaxActiveBytes - b

\* Mutant: smaller jobs fill the bytes the best candidate is waiting for.
FillingCandidates ==
    LET fits == {i \in Runnable : BytesAvailable(bytes[waiters[i]])}
    IN {i \in fits : \A k \in fits : RanksAbove(i, k)}

\* The waiter to admit next, if there is one: the best one or nobody.
Candidates ==
    {i \in Runnable : /\ \A k \in Runnable : RanksAbove(i, k)
                      /\ BytesAvailable(bytes[waiters[i]])}

Admissible == activeWrites < MaxActive /\ Candidates /= {}

\* dispatchLocked: one round of its loop, or its end.
DispatchLocked ==
    /\ dispatching
    /\ \/ /\ Admissible
          /\ LET i == CHOOSE i \in Candidates : TRUE
                 w == waiters[i]
             IN /\ waiters' = RemoveAt(waiters, i)
                /\ leased' = leased \cup {w}
                /\ activeWrites' = activeWrites + 1
                /\ activeBytes' = Plus(activeBytes, bytes[w])
                /\ activeUsers' = [activeUsers EXCEPT ![UserOf[w]] = @ + 1]
          /\ UNCHANGED <<bytes, age, dispatching>>
       \/ /\ ~Admissible
          /\ dispatching' = FALSE
          /\ UNCHANGED <<bytes, waiters, age, leased, activeWrites, activeBytes, activeUsers>>
    /\ UNCHANGED <<opVars, lockVars, svcVars>>

\* One more aging interval; nobody who queued earlier is younger.
AgingIntervalPasses(w) ==
    /\ ~dispatching
    /\ Queued(w) /\ age[w] < Foreground
    /\ \A i \in 1..(IndexIn(waiters, w) - 1) : age[waiters[i]] > age[w]
    /\ age' = [age EXCEPT ![w] = @ + 1]
    /\ UNCHANGED <<bytes, waiters, leased, activeWrites, activeBytes, activeUsers, dispatching>>
    /\ UNCHANGED <<opVars, lockVars, svcVars>>

\* beginWrite, and the index handle that indexForUser returned before it.
BeginWrite(w) ==
    /\ pc[w] = "idle" /\ ~closing
    /\ writes' = writes \cup {w}
    /\ \E r \in Requests[w] :
          /\ request' = [request EXCEPT ![w] = r]
          /\ bytes' = [bytes EXCEPT ![w] = r.bytes]
    /\ GoTo(w, "acquire")
    /\ UNCHANGED <<ctxDone, waiters, age, leased, activeWrites, activeBytes, activeUsers, dispatching>>
    /\ UNCHANGED <<lockVars, closing, closed>>

\* The caller gives up; an operation notices at its next check.
ContextDone(w) ==
    /\ w \in Cancelable /\ pc[w] /= "idle" /\ w \notin ctxDone
    /\ ctxDone' = ctxDone \cup {w}
    /\ UNCHANGED <<pc, request, coordVars, lockVars, svcVars>>

\* beginWriterOperation leaves the wait group when Acquire fails.
AfterNoLease == "done"

Acquire(w) ==
    /\ pc[w] = "acquire"
    /\ \/ /\ w \in ctxDone
          /\ GoTo(w, AfterNoLease)
          /\ UNCHANGED <<waiters, age, dispatching>>
       \/ /\ w \notin ctxDone
          /\ ~dispatching
          /\ waiters' = Append(waiters, w)
          /\ age' = [age EXCEPT ![w] = 0]
          /\ dispatching' = TRUE
          /\ GoTo(w, "waiting")
    /\ UNCHANGED <<request, ctxDone, bytes, leased, activeWrites, activeBytes, activeUsers>>
    /\ UNCHANGED <<lockVars, svcVars>>

\* The lease arrives.  It goes back at once if the context is done.
ReceiveLease(w) ==
    /\ pc[w] = "waiting" /\ w \in leased
    /\ GoTo(w, IF w \in ctxDone THEN "release"
               ELSE IF request[w].indexing THEN "project" ELSE "lock")
    /\ UNCHANGED <<request, ctxDone, coordVars, lockVars, svcVars>>

\* Mutant: a canceled waiter leaves without a dispatch.
LeaveSilently == UNCHANGED dispatching

\* Leaving the queue can make room for the next: the mutex is kept to dispatch.
ThenDispatch == dispatching' = TRUE

\* ctx.Done: a waiter that was granted meanwhile has a lease to give back.
CancelWaiter(w) ==
    /\ pc[w] = "waiting" /\ w \in ctxDone
    /\ ~dispatching
    /\ \/ /\ w \in leased
          /\ GoTo(w, "release")
          /\ UNCHANGED <<waiters, dispatching>>
       \/ /\ w \notin leased
          /\ waiters' = RemoveAt(waiters, IndexIn(waiters, w))
          /\ ThenDispatch
          /\ GoTo(w, AfterNoLease)
    /\ UNCHANGED <<request, ctxDone, bytes, age, leased, activeWrites, activeBytes, activeUsers>>
    /\ UNCHANGED <<lockVars, svcVars>>

\* Mutant: the reservation is not taken back.
GrownBytes(w, b) == Plus(activeBytes, b)

\* What the active bytes become when lease w turns out to need b.
ReconciledBytes(w, b) == Plus(Minus(activeBytes, bytes[w]), b)

UpdateBytes(w, b) ==
    /\ ~dispatching
    /\ bytes' = [bytes EXCEPT ![w] = b]
    /\ activeBytes' = IF b = bytes[w] THEN activeBytes ELSE ReconciledBytes(w, b)
    /\ dispatching' = (b /= bytes[w])
    /\ UNCHANGED <<waiters, age, leased, activeWrites, activeUsers>>

Release(w) ==
    /\ pc[w] = "release"
    /\ ~dispatching
    /\ leased' = leased \ {w}
    /\ activeWrites' = Minus(activeWrites, 1)
    /\ activeBytes' = Minus(activeBytes, bytes[w])
    /\ activeUsers' = [activeUsers EXCEPT ![UserOf[w]] = Minus(@, 1)]
    /\ dispatching' = TRUE
    /\ GoTo(w, "done")
    /\ UNCHANGED <<request, ctxDone, bytes, waiters, age, lockVars, svcVars>>

-----------------------------------------------------------------------------
(* One operation *)

\* prepareNextMessageIndexChunk after admission: the projection fails, or the
\* reservation shrinks to the chunk's size.
Project(w) ==
    /\ pc[w] = "project"
    /\ \/ /\ w \in ctxDone
          /\ GoTo(w, "release") /\ UNCHANGED coordVars
       \/ /\ \E b \in {b \in Sizes : b <= request[w].bytes} : UpdateBytes(w, b)
          /\ GoTo(w, "map")
    /\ UNCHANGED <<request, ctxDone, lockVars, svcVars>>

\* commitPreparedMessageChunk: Bleve refuses a document, or the lease grows or
\* shrinks to the size of the mapped batch.
MapBatch(w) ==
    /\ pc[w] = "map"
    /\ \/ GoTo(w, "release") /\ UNCHANGED coordVars
       \/ /\ w \notin ctxDone
          /\ \E b \in Sizes : UpdateBytes(w, b)
          /\ GoTo(w, "lock")
    /\ UNCHANGED <<request, ctxDone, lockVars, svcVars>>

\* lockWriter and acquireOrQueue.
LockWriter(w) ==
    LET i == IndexOf(w)
    IN /\ pc[w] = "lock"
       /\ \/ w \in ctxDone /\ GoTo(w, "release") /\ UNCHANGED lockVars
          \/ /\ w \notin ctxDone
             /\ ~held[i] /\ lockWaiters[i] = <<>>
             /\ held' = [held EXCEPT ![i] = TRUE]
             /\ GoTo(w, "locked")
             /\ UNCHANGED <<lockWaiters, granted>>
          \/ /\ w \notin ctxDone
             /\ held[i] \/ lockWaiters[i] /= <<>>
             /\ lockWaiters' = [lockWaiters EXCEPT ![i] = Append(@, w)]
             /\ GoTo(w, "lockWait")
             /\ UNCHANGED <<held, granted>>
       /\ UNCHANGED <<request, ctxDone, coordVars, svcVars>>

LockGranted(w) ==
    /\ pc[w] = "lockWait" /\ w \in granted
    /\ granted' = granted \ {w}
    /\ GoTo(w, "locked")
    /\ UNCHANGED <<request, ctxDone, coordVars, held, lockWaiters, svcVars>>

\* writerLock.cancelWaiter: a waiter that was granted unlocks for the next one.
CancelLockWait(w) ==
    LET i == IndexOf(w)
    IN /\ pc[w] = "lockWait" /\ w \in ctxDone
       /\ \/ /\ w \in granted
             /\ granted' = granted \ {w}
             /\ GoTo(w, "unlock")
             /\ UNCHANGED lockWaiters
          \/ /\ w \notin granted
             /\ lockWaiters' = [lockWaiters EXCEPT ![i] = RemoveAt(@, IndexIn(@, w))]
             /\ GoTo(w, "release")
             /\ UNCHANGED granted
       /\ UNCHANGED <<request, ctxDone, coordVars, held, svcVars>>

\* runAdmittedWriterOperation: the goroutine starts the batch unless the
\* context is already done.
StartOperation(w) ==
    /\ pc[w] = "locked"
    /\ GoTo(w, IF w \in ctxDone THEN "unlock" ELSE "batch")
    /\ UNCHANGED <<request, ctxDone, coordVars, lockVars, svcVars>>

\* index.Batch returns, whether or not a caller still waits for it.
BatchReturns(w) ==
    /\ pc[w] = "batch"
    /\ GoTo(w, "unlock")
    /\ UNCHANGED <<request, ctxDone, coordVars, lockVars, svcVars>>

\* Mutant: the lock is marked free although the first waiter gets it.
FreedLock(i) == FALSE

\* writerLock.Unlock: the lock passes to the first waiter and stays held.
HeldAfterUnlock(i) == lockWaiters[i] /= <<>>

Unlock(w) ==
    LET i == IndexOf(w)
    IN /\ pc[w] = "unlock"
       /\ held' = [held EXCEPT ![i] = HeldAfterUnlock(i)]
       /\ \/ lockWaiters[i] = <<>> /\ UNCHANGED <<lockWaiters, granted>>
          \/ /\ lockWaiters[i] /= <<>>
             /\ granted' = granted \cup {Head(lockWaiters[i])}
             /\ lockWaiters' = [lockWaiters EXCEPT ![i] = Tail(@)]
       /\ GoTo(w, "release")
       /\ UNCHANGED <<request, ctxDone, coordVars, svcVars>>

\* s.writes.Done(), the last thing an operation does.
WriteDone(w) ==
    /\ pc[w] = "done"
    /\ writes' = writes \ {w}
    /\ request' = [request EXCEPT ![w] = NoRequest]
    /\ bytes' = [bytes EXCEPT ![w] = 0]
    /\ age' = [age EXCEPT ![w] = 0]
    /\ ctxDone' = ctxDone \ {w}
    /\ GoTo(w, "idle")
    /\ UNCHANGED <<waiters, leased, activeWrites, activeBytes, activeUsers, dispatching>>
    /\ UNCHANGED <<lockVars, closing, closed>>

-----------------------------------------------------------------------------
(* Close *)

Close ==
    /\ ~closing
    /\ closing' = TRUE
    /\ UNCHANGED <<opVars, coordVars, lockVars, writes, closed>>

\* Mutant: the indexes are closed when no batch runs.
QuietWrites == \A w \in Writers : pc[w] /= "batch"

\* closeAfterWrites waits for the wait group.
WritesDrained == writes = {}

CloseAfterWrites ==
    /\ closing /\ ~closed
    /\ WritesDrained
    /\ closed' = TRUE
    /\ UNCHANGED <<opVars, coordVars, lockVars, writes, closing>>

\* After Close no operation begins.
Stopped == closing /\ (\A w \in Writers : pc[w] = "idle") /\ UNCHANGED vars

Operation(w) ==
    \/ BeginWrite(w) \/ Acquire(w) \/ ReceiveLease(w) \/ CancelWaiter(w)
    \/ Project(w) \/ MapBatch(w) \/ LockWriter(w) \/ LockGranted(w) \/ CancelLockWait(w)
    \/ StartOperation(w) \/ BatchReturns(w) \/ Unlock(w) \/ Release(w) \/ WriteDone(w)

Next ==
    \/ \E w \in Writers : Operation(w) \/ ContextDone(w) \/ AgingIntervalPasses(w)
    \/ DispatchLocked
    \/ Close \/ CloseAfterWrites \/ Stopped

Spec == Init /\ [][Next]_vars

\* Go's mutex does not starve a goroutine, a Bleve batch returns (one that does
\* not ends the process, see SearchRecovery), and time passes.
Fairness ==
    /\ \A w \in Writers : /\ SF_vars(Operation(w) /\ pc[w] /= "idle")
                          /\ SF_vars(AgingIntervalPasses(w))
    /\ WF_vars(DispatchLocked)
    /\ WF_vars(CloseAfterWrites)

FairSpec == Spec /\ Fairness

-----------------------------------------------------------------------------
(* Properties *)

\* Type invariant: the coordinator, the locks and the operations keep to their
\* declared values (write_coordinator.go, search.go).
TypeOK ==
    /\ pc \in [Writers -> PCs]
    /\ request \in [Writers -> Request]
    /\ bytes \in [Writers -> Nat] /\ age \in [Writers -> 0..Foreground]
    /\ ctxDone \subseteq Writers /\ leased \subseteq Writers
    /\ granted \subseteq Writers /\ writes \subseteq Writers
    /\ waiters \in Seq(Writers)
    /\ activeWrites \in Nat /\ activeBytes \in Nat /\ activeUsers \in [Users -> Nat]
    /\ held \in [Indexes -> BOOLEAN] /\ lockWaiters \in [Indexes -> Seq(Writers)]
    /\ dispatching \in BOOLEAN /\ closing \in BOOLEAN /\ closed \in BOOLEAN

\* The coordinator's counters are exactly the leases that exist: none leaks when
\* a cancellation meets a grant, none is released twice, and reconciling a
\* lease's size neither loses nor invents bytes.
AccountingExact ==
    /\ activeWrites = Cardinality(leased)
    /\ activeBytes = MapThenSumSet(LAMBDA w : bytes[w], leased)
    /\ \A u \in Users : activeUsers[u] = Cardinality({w \in leased : UserOf[w] = u})

\* At most MaxActive leases, and never two for one user's index.
AdmissionBounded ==
    /\ Cardinality(leased) <= MaxActive
    /\ \A v, w \in leased : UserOf[v] = UserOf[w] => v = w

\* No two batches run on one index at the same time, however callers give up:
\* the goroutine keeps the writer lock until Bleve returns.
OneBatchPerIndex ==
    \A v, w \in Writers :
        /\ pc[v] \in {"locked", "batch", "unlock"} /\ pc[w] \in {"locked", "batch", "unlock"}
        /\ IndexOf(v) = IndexOf(w)
        => v = w

\* An index is closed only when nothing is left that could still write to it or
\* touch the coordinator; no operation starts later.
ClosedWhenQuiet == closed => \A w \in Writers : pc[w] = "idle"

\* No lost wake-up: while nobody holds the mutex, room for the best waiter can
\* only have appeared because a waiter aged, which dispatches nothing; a lease
\* that ends, shrinks or is canceled is followed by a dispatch.
WakesWhenRoom ==
    [][~dispatching /\ ~Admissible /\ ~dispatching' /\ Admissible' => age' /= age]_vars

\* Every queued write is admitted or canceled: a large batch is not starved by
\* smaller ones nor a background one by foreground work.
Admitted == \A w \in Writers : Queued(w) ~> ~Queued(w)

\* Close completes: every operation leaves the wait group.
CloseCompletes == closing ~> closed

\* What goes on under the scheduler of Go: nobody waits for ever, the closer included.
WritersProgress == Admitted /\ CloseCompletes
=============================================================================
