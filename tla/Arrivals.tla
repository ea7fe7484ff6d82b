---- MODULE Arrivals ----
(* New messages of an Inbox, held back until it is known whether they were
   delivered or moved there: store/inbox_arrivals.go, syncer/arrival.go and
   syncer/arrival_scheduler.go, for one account.

   Every arrival has its own content, so a transfer, a tombstone or a source
   row of that content is a field of the arrival.  What really happened is the
   arrival's kind: a delivery, a copy by another client (the source stays), a
   move by another client or a move by this program (the source is gone from
   the server).  Time is counted in ticks; the clock stops at the horizon, and
   a later deadline stands for that moment. *)
EXTENDS Naturals, FiniteSets

CONSTANTS
    Arrived,          \* the messages that appear in the Inbox, by id
    Horizon,          \* bound: the clock
    HoldTime,         \* inboxArrivalHoldDuration
    RetryTime,        \* inboxArrivalRetryDelay
    TombstoneTTL,     \* expungedFingerprintTTL
    FinalizeBatch,    \* maxInboxArrivalFinalizeBatch, maxDueInboxArrivalBatch
    MaxArrivalFaults  \* bound: failed calls and restarts

ASSUME ArrivalsAssumption ==
    /\ Arrived \subseteq Nat /\ IsFiniteSet(Arrived)
    /\ MaxArrivalFaults \in Nat
    /\ {Horizon, HoldTime, RetryTime, TombstoneTTL, FinalizeBatch} \subseteq Nat \ {0}

VARIABLES
    now,        \* the clock
    kind,       \* what really happened
    arrival,    \* pending_inbox_arrivals: state, created_at, available_at
    sourceRow,  \* the local row of the source message
    tomb,       \* expunged_message_fingerprints: created_at, or 0 for none
    transfer,   \* the move of this program: dispatched, succeeded, consumed, none
    gate,       \* another mailbox of the account is being rebuilt (live arrivals pass a rebuild of the Inbox)
    entry,      \* inboxArrivalSchedule: due (0 for none), generation, running
    timers,     \* timers that were started and have not been stopped
    sequence,   \* nextSequence
    calls,      \* ScheduleInboxArrival calls about to be made, by deadline
    fin,        \* the finalizer
    probed,     \* arrivals whose possible sources were looked up on the server
    late,       \* arrivals held too long before or after the tombstone of their source
    missed,     \* a deadline no call was made for
    arrivalFaults

arrVars == <<now, kind, arrival, sourceRow, tomb, transfer, gate, entry, timers, sequence, calls,
             fin, probed, late, missed, arrivalFaults>>
rows == <<kind, arrival, sourceRow, tomb, transfer, gate>>
plan == <<entry, timers, sequence>>

ArrivalKinds == {"delivered", "copied", "moved", "local"}
NotYet == [state |-> "none", created |-> 0, due |-> 0]
NoEntry == [due |-> 0, gen |-> 0, running |-> FALSE, retry |-> FALSE]
IdleFin == [pc |-> "idle", at |-> 0, batch |-> {}, defer |-> {}, gen |-> 0, next |-> 0]
Soonest(S) == CHOOSE n \in S : \A m \in S : n <= m
AtMost(n) == Soonest({n, Horizon})
Fault == arrivalFaults < MaxArrivalFaults /\ arrivalFaults' = arrivalFaults + 1
IsPending(a) == arrival[a].state = "pending"
Gone(a) == kind[a] \in {"moved", "local"}

---------------------------------------------------------------------------
(* Classification, inside a transaction. *)

\* A tombstone counts while it is young, while the move it belongs to is
\* unresolved, or while an arrival of about its age is pending.
UsableWhileYoung(a, t) == tomb[a] # 0 /\ t < tomb[a] + TombstoneTTL
Usable(a, t) ==
    /\ tomb[a] # 0
    /\ \/ t < tomb[a] + TombstoneTTL
       \/ transfer[a] = "dispatched"
       \/ /\ IsPending(a)
          /\ arrival[a].created <= tomb[a] + TombstoneTTL
          /\ tomb[a] <= arrival[a].created + TombstoneTTL

\* pruneArrivalCorrelationRows forgets the others.
Pruned(t) == [a \in Arrived |-> IF Usable(a, t) THEN tomb[a] ELSE 0]

\* classifyArrivalWithoutDelivery: a finished transfer first, then a tombstone.
Classify(a, t) ==
    CASE transfer[a] = "succeeded" -> "local"
      [] Usable(a, t) /\ transfer[a] = "dispatched" -> "local"
      [] Usable(a, t) -> "external"
      [] OTHER -> "pending"
Matched(S, t) == {a \in S : Classify(a, t) # "pending"}
ConsumedTransfers(S, t) == [a \in Arrived |-> IF a \in S /\ Classify(a, t) = "local" THEN "consumed" ELSE transfer[a]]

---------------------------------------------------------------------------
(* Synchronisation and the moves. *)

\* Inbox sync stores a message and holds or classifies it; the deadline is
\* passed to the scheduler after the commit.
HoldOrClassifyInboxArrival(a) ==
    LET c == Classify(a, now) IN
    /\ arrival[a] = NotYet
    /\ \A b \in Arrived : b < a => arrival[b] # NotYet
    /\ arrival' = [arrival EXCEPT ![a] =
          [state |-> c, created |-> now, due |-> IF c = "pending" THEN AtMost(now + HoldTime) ELSE now]]
    /\ tomb' = [Pruned(now) EXCEPT ![a] = IF c = "pending" THEN Pruned(now)[a] ELSE 0]
    /\ transfer' = ConsumedTransfers({a}, now)
    /\ late' = IF Gone(a) /\ ~sourceRow[a] /\ c = "pending" THEN late \cup {a} ELSE late
    /\ calls' = IF c = "pending" THEN calls \cup {AtMost(now + HoldTime)} ELSE calls
    /\ UNCHANGED <<now, kind, sourceRow, gate, entry, timers, sequence, fin, probed, missed, arrivalFaults>>

\* Sync of the source mailbox finds the message gone: the row is deleted and a
\* tombstone recorded.
SourceExpunged(a) ==
    /\ Gone(a)
    /\ sourceRow[a]
    /\ sourceRow' = [sourceRow EXCEPT ![a] = FALSE]
    /\ tomb' = [tomb EXCEPT ![a] = now]
    /\ late' = IF IsPending(a) /\ now > arrival[a].created + TombstoneTTL THEN late \cup {a} ELSE late
    /\ UNCHANGED <<now, kind, arrival, transfer, gate, entry, timers, sequence, calls, fin, probed,
                   missed, arrivalFaults>>

\* The answer to this program's MOVE is recorded.
MarkTransferSucceeded(a) ==
    /\ transfer[a] = "dispatched"
    /\ transfer' = [transfer EXCEPT ![a] = "succeeded"]
    /\ UNCHANGED <<now, kind, arrival, sourceRow, tomb, gate, entry, timers, sequence, calls, fin, probed,
                   late, missed, arrivalFaults>>

\* The rebuild of a mailbox ends: the arrivals of the account become eligible
\* and the earliest deadline is read and scheduled.
Eligible(a) == IsPending(a) /\ ~gate
NextDueOf(S) == IF S = {} THEN 0 ELSE Soonest({arrival[a].due : a \in S})

FinalizeGenerationRebuild ==
    /\ gate
    /\ gate' = FALSE
    /\ LET next == NextDueOf({a \in Arrived : IsPending(a)}) IN
       \/ /\ calls' = IF next = 0 THEN calls ELSE calls \cup {next}
          /\ UNCHANGED <<missed, arrivalFaults>>
       \/ /\ Fault
          /\ missed' = TRUE
          /\ UNCHANGED calls
    /\ UNCHANGED <<now, kind, arrival, sourceRow, tomb, transfer, entry, timers, sequence, fin, probed, late>>

---------------------------------------------------------------------------
(* The scheduler. *)

\* armLocked: the old timer is stopped, unless it has already fired and its
\* function waits for the mutex.
Armed(e) ==
    /\ sequence' = sequence + 1
    /\ entry' = [e EXCEPT !.gen = sequence + 1, !.running = FALSE]
    /\ timers' = {t \in timers : t.at <= now} \cup
                 {[gen |-> sequence + 1, at |-> IF e.due > now THEN e.due ELSE now]}

\* schedule keeps the earliest deadline; a running finalizer only takes note.
Improves(due) == entry.due = 0 \/ due < entry.due
ScheduleInboxArrival(due) ==
    /\ due \in calls
    /\ calls' = calls \ {due}
    /\ IF ~Improves(due) THEN UNCHANGED plan
       ELSE IF entry.running
       THEN entry' = [entry EXCEPT !.due = due] /\ UNCHANGED <<timers, sequence>>
       ELSE Armed([entry EXCEPT !.due = due])
    /\ UNCHANGED <<now, fin, probed, late, missed, arrivalFaults>>
    /\ UNCHANGED rows

\* fire: a timer of another generation, or a second one, does nothing.
Current(t) == t.gen = entry.gen /\ ~entry.running
FireTimer(t) ==
    /\ t \in timers
    /\ t.at <= now
    /\ timers' = timers \ {t}
    /\ IF Current(t)
       THEN /\ entry' = [entry EXCEPT !.running = TRUE, !.due = 0, !.retry = FALSE]
            /\ fin' = [IdleFin EXCEPT !.pc = "list", !.at = now, !.gen = t.gen]
       ELSE UNCHANGED <<entry, fin>>
    /\ UNCHANGED <<now, sequence, calls, probed, late, missed, arrivalFaults>>
    /\ UNCHANGED rows

---------------------------------------------------------------------------
(* The finalizer. *)

\* The first due arrivals, ORDER BY available_at, id LIMIT.
Before(a, b) == arrival[a].due < arrival[b].due \/ (arrival[a].due = arrival[b].due /\ a < b)
DueBatch ==
    LET due == {a \in Arrived : Eligible(a) /\ arrival[a].due <= fin.at} IN
    {a \in due : Cardinality({b \in due : Before(b, a)}) < FinalizeBatch}

ListDueInboxArrivals ==
    /\ fin.pc = "list"
    /\ fin' = [fin EXCEPT !.batch = DueBatch, !.pc = IF DueBatch = {} THEN "finalize" ELSE "probe"]
    /\ UNCHANGED <<now, calls, probed, late, missed, arrivalFaults>>
    /\ UNCHANGED rows /\ UNCHANGED plan

\* probeExternalInboxMoves: for each arrival the possible source is looked up
\* on the server.  An absent one becomes a tombstone; one that could not be
\* looked up makes the arrival wait.
Absent(a) == sourceRow[a] /\ Gone(a)
ProbeExternalInboxMoves ==
    /\ fin.pc = "probe"
    /\ \E unsure \in SUBSET {a \in fin.batch : sourceRow[a]} :
         LET sure == fin.batch \ unsure IN
         /\ IF unsure = {} THEN UNCHANGED arrivalFaults ELSE Fault
         /\ tomb' = [a \in Arrived |->
               IF a \in sure /\ Absent(a) THEN now ELSE tomb[a]]
         /\ probed' = probed \cup sure
         /\ fin' = [fin EXCEPT !.pc = IF unsure = {} THEN "finalize" ELSE "defer", !.defer = unsure]
    /\ UNCHANGED <<now, kind, arrival, sourceRow, transfer, gate, calls, late, missed>>
    /\ UNCHANGED plan

\* DeferPendingInboxArrivalProbes.
DeferredUntil == AtMost(fin.at + RetryTime)
DeferPendingInboxArrivalProbes ==
    /\ fin.pc = "defer"
    /\ arrival' = [a \in Arrived |->
          IF a \in fin.defer /\ IsPending(a) THEN [arrival[a] EXCEPT !.due = DeferredUntil] ELSE arrival[a]]
    /\ fin' = [fin EXCEPT !.pc = "finalize"]
    /\ UNCHANGED <<now, kind, sourceRow, tomb, transfer, gate, calls, probed, late, missed, arrivalFaults>>
    /\ UNCHANGED plan

\* FinalizeDueInboxArrivals, one transaction: the due arrivals are read again
\* and classified again, with the time the pass began; what is still unmatched becomes a delivery event.
\* Deferred arrivals have a later deadline, unless that is past the horizon.
FinalizeDueInboxArrivals ==
    /\ fin.pc = "finalize"
    /\ LET D == {a \in DueBatch : fin.at < Horizon \/ a \notin fin.defer}
           M == Matched(D, fin.at) IN
         /\ arrival' = [a \in Arrived |->
               IF a \in D THEN [arrival[a] EXCEPT !.state = IF a \in M THEN Classify(a, fin.at) ELSE "delivery"]
               ELSE arrival[a]]
         /\ tomb' = [a \in Arrived |-> IF a \in M THEN 0 ELSE Pruned(fin.at)[a]]
         /\ transfer' = ConsumedTransfers(M, fin.at)
    /\ fin' = [fin EXCEPT !.pc = "next"]
    /\ UNCHANGED <<now, kind, sourceRow, gate, calls, probed, late, missed, arrivalFaults>>
    /\ UNCHANGED plan

\* The end of fire: the next deadline, or the one noted meanwhile; none ends
\* the entry.
Rearm(due, retry) ==
    LET noted == IF entry.due # 0 /\ (due = 0 \/ entry.due <= due) THEN entry.due ELSE due IN
    IF noted = 0 THEN entry' = NoEntry /\ UNCHANGED <<timers, sequence>>
    ELSE Armed([entry EXCEPT !.due = noted, !.retry = retry])
AfterPass(due, retry) == Rearm(due, retry)

NextPendingInboxArrivalDue ==
    /\ fin.pc = "next"
    /\ fin' = [fin EXCEPT !.pc = "rearm", !.next = NextDueOf({a \in Arrived : Eligible(a)})]
    /\ UNCHANGED <<now, calls, probed, late, missed, arrivalFaults>>
    /\ UNCHANGED rows /\ UNCHANGED plan

FirePassed ==
    /\ fin.pc = "rearm"
    /\ AfterPass(fin.next, FALSE)
    /\ fin' = IdleFin
    /\ UNCHANGED <<now, calls, probed, late, missed, arrivalFaults>>
    /\ UNCHANGED rows

\* Any step of the pass fails: the pass is repeated later.
FinalizeFails ==
    /\ fin.pc \notin {"idle", "rearm"}
    /\ Fault
    /\ AfterPass(AtMost(now + RetryTime), TRUE)
    /\ fin' = IdleFin
    /\ UNCHANGED <<now, calls, probed, late, missed>>
    /\ UNCHANGED rows

\* A restart loses timers and calls; RecoverPendingInboxArrivals schedules the
\* earliest deadline of the account.
RecoverPendingInboxArrivals ==
    /\ Fault
    /\ LET next == NextDueOf({a \in Arrived : Eligible(a)}) IN
       calls' = IF next = 0 THEN {} ELSE {next}
    /\ entry' = NoEntry /\ timers' = {} /\ sequence' = 0
    /\ fin' = IdleFin
    /\ missed' = FALSE
    /\ UNCHANGED <<now, probed, late>>
    /\ UNCHANGED rows

\* Time passes, while the server is asked too; the transactions of a pass that
\* follow take less than a tick.
ArrivalTick ==
    /\ now < Horizon
    /\ fin.pc \in {"idle", "probe"}
    /\ now' = now + 1
    /\ UNCHANGED <<calls, fin, probed, late, missed, arrivalFaults>>
    /\ UNCHANGED rows /\ UNCHANGED plan

---------------------------------------------------------------------------
ArrivalsInit ==
    /\ now = 1
    /\ kind \in [Arrived -> ArrivalKinds]
    /\ arrival = [a \in Arrived |-> NotYet]
    /\ sourceRow = [a \in Arrived |-> kind[a] # "delivered"]
    /\ tomb = [a \in Arrived |-> 0]
    /\ transfer = [a \in Arrived |-> IF kind[a] = "local" THEN "dispatched" ELSE "none"]
    /\ gate \in BOOLEAN
    /\ entry = NoEntry /\ timers = {} /\ sequence = 0 /\ calls = {}
    /\ fin = IdleFin /\ probed = {} /\ late = {} /\ missed = FALSE
    /\ arrivalFaults = 0

FinalizerStep ==
    ListDueInboxArrivals \/ ProbeExternalInboxMoves \/ DeferPendingInboxArrivalProbes
      \/ FinalizeDueInboxArrivals \/ NextPendingInboxArrivalDue \/ FirePassed
SchedulerTurn == (\E due \in calls : ScheduleInboxArrival(due)) \/ (\E t \in timers : FireTimer(t))

ArrivalsNext ==
    \/ \E a \in Arrived :
          HoldOrClassifyInboxArrival(a) \/ SourceExpunged(a) \/ MarkTransferSucceeded(a)
    \/ FinalizeGenerationRebuild
    \/ SchedulerTurn \/ FinalizerStep \/ FinalizeFails
    \/ RecoverPendingInboxArrivals
    \/ ArrivalTick

ArrivalsSpec == ArrivalsInit /\ [][ArrivalsNext]_arrVars

---------------------------------------------------------------------------
\* Whenever an arrival is pending and may be finalized, somebody will: a call
\* is about to schedule it, the finalizer runs, or a timer of the current
\* generation is set no later than its deadline (or than the retry of a failed
\* pass).  Deadlines noted while a timer function runs are not lost.
PendingHasTimer ==
    \A a \in Arrived :
        Eligible(a) /\ ~missed /\ calls = {} /\ ~entry.running =>
            \E t \in timers : /\ t.gen = entry.gen
                              /\ \/ entry.retry
                                 \/ t.at <= arrival[a].due \/ t.at <= now

\* One pass per account at a time: a timer that fired late, of a schedule that
\* was replaced meanwhile, does not start a second one beside the first.
OnePassAtATime == [][fin'.pc = "list" /\ fin' # fin => fin.pc = "idle"]_arrVars

\* A message that was moved into the Inbox is not announced as new mail, once
\* its source was looked up: neither a slow synchronisation, nor tombstones that
\* expire while the arrival is deferred, nor a late answer to the move make it
\* a delivery.  It may become one when the two mailboxes were synchronised too
\* far apart for the tombstone to be believed.
MovedNotAnnounced ==
    \A a \in Arrived : Gone(a) /\ arrival[a].state = "delivery" => a \in late \/ a \notin probed

\* Mail that is really new is announced, never taken for a move.
NewIsAnnounced ==
    \A a \in Arrived : ~Gone(a) => arrival[a].state \in {"none", "pending", "delivery"}

\* What the finalizer keeps to at all times: no pending arrival is forgotten, and
\* each is told apart as a move or as new mail.
ArrivalsSafe == PendingHasTimer /\ MovedNotAnnounced /\ NewIsAnnounced
====
