---- MODULE Reminders ----
(* Local snoozes of one user, the reminder events they turn into and the
   scheduler that does it on time: store/snoozes.go, web/api_snoozes.go,
   web/snooze_scheduler.go and the part of api_message.go that acknowledges a
   resurfaced conversation.

   A snooze row belongs to a conversation key and names the message it was
   made from.  Both can drift apart, because a message may get another
   conversation key later.  Time is counted in ticks. *)
EXTENDS Naturals, FiniteSets

CONSTANTS
    Msgs, Threads,      \* messages and conversation keys
    MaxTime,            \* bound: the clock
    MaxUntil,           \* bound: the latest time a snooze is set for
    MaxSnoozes,         \* bound: snooze requests
    MaxRethreads,       \* bound: changes of a conversation key
    MaxDbFaults,        \* bound: failed reads and transactions
    ProcessLimit,       \* snoozeSchedulerProcessLimit
    IdleInterval,       \* snoozeSchedulerIdleInterval
    ErrorBackoff        \* snoozeSchedulerErrorBackoff

ASSUME RemindersAssumption ==
    /\ {MaxTime, MaxUntil, MaxSnoozes, MaxRethreads, MaxDbFaults} \subseteq Nat
    /\ {ProcessLimit, IdleInterval, ErrorBackoff} \subseteq Nat \ {0}
    /\ IsFiniteSet(Threads) /\ Threads # {}

VARIABLES
    clock,
    threadOf,     \* messages.thread_key
    snoozes,      \* message_snoozes: conversation -> row or NoSnooze
    reminders,    \* snooze_reminder_events
    lastReminder, \* AUTOINCREMENT of snooze_reminder_events
    inflight,     \* requests that committed and have not notified yet
    wake,         \* snoozeSchedulerWake, a channel with one slot
    timer,        \* when the timer fires; Off once it has
    sched,        \* the scheduler goroutine
    unheard,      \* a committed snooze whose request failed before it notified
    snoozeCount, rethreads, dbFaults

remVars == <<clock, threadOf, snoozes, reminders, lastReminder, inflight, wake, timer, sched,
             unheard, snoozeCount, rethreads, dbFaults>>
store == <<threadOf, snoozes, reminders, lastReminder>>
budget == <<snoozeCount, rethreads, dbFaults>>

NoSnooze == [msg |-> "none"]
Off == MaxTime + 1
Snoozed(t) == snoozes[t] # NoSnooze
Pending(t) == Snoozed(t) /\ ~snoozes[t].reminded
Later(a, b) == IF a > b THEN a ELSE b
LeastOf(S) == CHOOSE n \in S : \A m \in S : n <= m

---------------------------------------------------------------------------
(* The store. *)

\* deleteSnoozeReminderEventsForThread: the events of every message that has
\* the conversation key now.
DeleteReminderEvents(t) == {r \in reminders : threadOf[r.msg] # t}

\* SnoozeMessage: a row the message has under another key goes, the events of
\* the conversation go, and the row of the conversation is written with the
\* next generation.
Generation(t) == IF Snoozed(t) THEN snoozes[t].gen + 1 ELSE 1

UpsertSnooze(m, t, until) ==
    [u \in Threads |->
        CASE u = t -> [msg |-> m, gen |-> Generation(t), until |-> until, reminded |-> FALSE]
          [] Snoozed(u) /\ u # t /\ snoozes[u].msg = m -> NoSnooze
          [] OTHER -> snoozes[u]]

\* PUT /api/messages/{id}/snooze.  The row is committed before the request
\* reads it back and notifies; past times are rejected.
SnoozeMessage(m, until) ==
    /\ snoozeCount < MaxSnoozes
    /\ until > clock
    /\ snoozes' = UpsertSnooze(m, threadOf[m], until)
    /\ reminders' = DeleteReminderEvents(threadOf[m])
    /\ inflight' = inflight + 1
    /\ snoozeCount' = snoozeCount + 1
    /\ UNCHANGED <<clock, threadOf, lastReminder, wake, timer, sched, unheard, rethreads, dbFaults>>

\* DELETE .../snooze: rows by message or by conversation; the handler notifies
\* when a row was removed.
UnsnoozeMessage(m) ==
    /\ \E t \in Threads : Snoozed(t) /\ (t = threadOf[m] \/ snoozes[t].msg = m)
    /\ snoozes' = [t \in Threads |->
          IF Snoozed(t) /\ (t = threadOf[m] \/ snoozes[t].msg = m) THEN NoSnooze ELSE snoozes[t]]
    /\ reminders' = DeleteReminderEvents(threadOf[m])
    /\ inflight' = inflight + 1
    /\ UNCHANGED <<clock, threadOf, lastReminder, wake, timer, sched, unheard>>
    /\ UNCHANGED budget

\* Opening a resurfaced conversation acknowledges it; a snooze that is still
\* in the future stays.
AcknowledgeDue(m) ==
    LET t == threadOf[m] IN
    /\ Snoozed(t)
    /\ snoozes[t].until <= clock
    /\ snoozes' = [snoozes EXCEPT ![t] = NoSnooze]
    /\ reminders' = DeleteReminderEvents(t)
    /\ inflight' = inflight + 1
    /\ UNCHANGED <<clock, threadOf, lastReminder, wake, timer, sched, unheard>>
    /\ UNCHANGED budget

\* A new message of the conversation cancels its snooze.  The synchroniser
\* does not wake the scheduler: a cancellation only removes rows.
CancelSnoozeForNewMessage(m) ==
    LET t == threadOf[m] IN
    /\ Snoozed(t) \/ DeleteReminderEvents(t) # reminders
    /\ snoozes' = [snoozes EXCEPT ![t] = NoSnooze]
    /\ reminders' = DeleteReminderEvents(t)
    /\ UNCHANGED <<clock, threadOf, lastReminder, inflight, wake, timer, sched, unheard>>
    /\ UNCHANGED budget

\* Thread headers fetched later give a message another conversation key.
UpdateMessageThreadHeaders(m, t) ==
    /\ rethreads < MaxRethreads
    /\ t # threadOf[m]
    /\ threadOf' = [threadOf EXCEPT ![m] = t]
    /\ rethreads' = rethreads + 1
    /\ UNCHANGED <<clock, snoozes, reminders, lastReminder, inflight, wake, timer, sched, unheard,
                   snoozeCount, dbFaults>>

---------------------------------------------------------------------------
(* After the commit of a request. *)

\* notifySnoozeStateChanged: a token in the channel, unless one is there.
NotifySnoozeStateChanged ==
    /\ inflight > 0
    /\ inflight' = inflight - 1
    /\ wake' = TRUE
    /\ UNCHANGED <<clock, timer, sched, unheard>>
    /\ UNCHANGED store /\ UNCHANGED budget

\* The request is gone when the row is read back: the handler answers with an
\* error and does not notify.
ReadBackFails ==
    /\ inflight > 0
    /\ dbFaults < MaxDbFaults
    /\ dbFaults' = dbFaults + 1
    /\ inflight' = inflight - 1
    /\ unheard' = TRUE
    /\ UNCHANGED <<clock, wake, timer, sched, snoozeCount, rethreads>>
    /\ UNCHANGED store

---------------------------------------------------------------------------
(* The scheduler. *)

\* The loop wakes up on its timer or on a token; a token also stops the timer.
WakeUp ==
    /\ sched.pc = "wait"
    /\ \/ timer <= clock /\ timer' = Off /\ UNCHANGED wake
       \/ wake /\ wake' = FALSE /\ timer' = Off
    /\ sched' = [pc |-> "record", now |-> clock, next |-> 0, err |-> FALSE]
    /\ unheard' = FALSE
    /\ UNCHANGED <<clock, inflight>>
    /\ UNCHANGED store /\ UNCHANGED budget

\* RecordDueSnoozeReminderEvents, one transaction: the first due rows that are
\* not reminded; INSERT OR IGNORE of the event of that message and generation;
\* the row is marked.
Due(now) == {t \in Threads : Pending(t) /\ snoozes[t].until <= now}
HasEvent(t) == \E r \in reminders : r.msg = snoozes[t].msg /\ r.gen = snoozes[t].gen

Batches(now) ==
    {B \in SUBSET Due(now) :
        /\ Cardinality(B) <= ProcessLimit
        /\ Cardinality(B) < ProcessLimit => B = Due(now)
        /\ \A t \in B, u \in Due(now) \ B : snoozes[t].until <= snoozes[u].until}

\* The new events take consecutive identifiers in some order.
NewEvents(N) ==
    {{[id |-> lastReminder + f[t], msg |-> snoozes[t].msg, gen |-> snoozes[t].gen] : t \in N} :
        f \in {g \in [N -> 1..Cardinality(N)] : \A a, b \in N : g[a] = g[b] => a = b}}

RecordDue ==
    /\ sched.pc = "record"
    /\ \E B \in Batches(sched.now) :
         LET N == {t \in B : ~HasEvent(t)} IN
         /\ \E E \in NewEvents(N) : reminders' = reminders \cup E
         /\ lastReminder' = lastReminder + Cardinality(N)
         /\ snoozes' = [t \in Threads |-> IF t \in B THEN [snoozes[t] EXCEPT !.reminded = TRUE] ELSE snoozes[t]]
    /\ sched' = [sched EXCEPT !.pc = "next"]
    /\ UNCHANGED <<clock, threadOf, inflight, wake, timer, unheard>>
    /\ UNCHANGED budget

\* A failed transaction, or a failed read of the users.
RecordFails ==
    /\ sched.pc \in {"record", "next"}
    /\ dbFaults < MaxDbFaults
    /\ dbFaults' = dbFaults + 1
    /\ sched' = [sched EXCEPT !.pc = "reset", !.err = TRUE]
    /\ UNCHANGED <<clock, inflight, wake, timer, unheard, snoozeCount, rethreads>>
    /\ UNCHANGED store

\* NextPendingSnoozeDue.
NextDueOfLater ==
    LET W == {snoozes[t].until : t \in {u \in Threads : Pending(u) /\ snoozes[u].until > sched.now}}
    IN IF W = {} THEN 0 ELSE LeastOf(W)
NextDue ==
    LET W == {snoozes[t].until : t \in {u \in Threads : Pending(u)}}
    IN IF W = {} THEN 0 ELSE LeastOf(W)

NextPendingSnoozeDue ==
    /\ sched.pc = "next"
    /\ sched' = [sched EXCEPT !.pc = "reset", !.next = NextDue]
    /\ UNCHANGED <<clock, inflight, wake, timer, unheard>>
    /\ UNCHANGED store /\ UNCHANGED budget

\* timer.Reset: idle, backoff, or until the next due time.  The clock stops at
\* MaxTime, and a later deadline stands for that moment.
Deadline ==
    IF sched.err THEN clock + ErrorBackoff
    ELSE IF sched.next = 0 THEN clock + IdleInterval
    ELSE Later(sched.next, clock)
DelayToNextOnly == IF sched.next = 0 THEN Off ELSE Later(sched.next, clock)
Delay == LeastOf({Deadline, MaxTime})

Reset ==
    /\ sched.pc = "reset"
    /\ timer' = Delay
    /\ sched' = [sched EXCEPT !.pc = "wait"]
    /\ UNCHANGED <<clock, inflight, wake, unheard>>
    /\ UNCHANGED store /\ UNCHANGED budget

\* A restart: startSnoozeScheduler begins with a timer that has fired.
SchedulerStart ==
    /\ timer' = 0
    /\ sched' = [pc |-> "wait", now |-> 0, next |-> 0, err |-> FALSE]
    /\ wake' = FALSE
    /\ inflight' = 0
    /\ unheard' = FALSE
    /\ dbFaults < MaxDbFaults
    /\ dbFaults' = dbFaults + 1
    /\ UNCHANGED <<clock, snoozeCount, rethreads>>
    /\ UNCHANGED store

Tick ==
    /\ clock < MaxTime
    /\ clock' = clock + 1
    /\ UNCHANGED <<inflight, wake, timer, sched, unheard>>
    /\ UNCHANGED store /\ UNCHANGED budget

---------------------------------------------------------------------------
RemindersInit ==
    /\ clock = 0
    /\ threadOf = [m \in Msgs |-> CHOOSE t \in Threads : TRUE]
    /\ snoozes = [t \in Threads |-> NoSnooze]
    /\ reminders = {} /\ lastReminder = 0
    /\ inflight = 0 /\ wake = FALSE /\ timer = 0 /\ unheard = FALSE
    /\ sched = [pc |-> "wait", now |-> 0, next |-> 0, err |-> FALSE]
    /\ snoozeCount = 0 /\ rethreads = 0 /\ dbFaults = 0

SchedulerStep == WakeUp \/ RecordDue \/ NextPendingSnoozeDue \/ Reset

RemindersNext ==
    \/ \E m \in Msgs :
          \/ \E until \in 1..MaxUntil : SnoozeMessage(m, until)
          \/ UnsnoozeMessage(m) \/ AcknowledgeDue(m) \/ CancelSnoozeForNewMessage(m)
          \/ \E t \in Threads : UpdateMessageThreadHeaders(m, t)
    \/ NotifySnoozeStateChanged \/ ReadBackFails
    \/ SchedulerStep \/ RecordFails \/ SchedulerStart
    \/ Tick

\* Time passes, a request that committed answers, the scheduler runs.
RemindersFairness ==
    /\ WF_remVars(Tick)
    /\ WF_remVars(NotifySnoozeStateChanged)
    /\ WF_remVars(SchedulerStep)

RemindersSpec == RemindersInit /\ [][RemindersNext]_remVars /\ RemindersFairness

---------------------------------------------------------------------------
\* The shape of the state: identifiers below the counter, generations from 1.
RemindersTypeOK ==
    /\ clock \in 0..MaxTime
    /\ threadOf \in [Msgs -> Threads]
    /\ \A t \in Threads : Snoozed(t) =>
          /\ snoozes[t].msg \in Msgs /\ snoozes[t].until \in 1..MaxUntil
          /\ snoozes[t].gen \in 1..MaxSnoozes /\ snoozes[t].reminded \in BOOLEAN
    /\ \A r \in reminders : r.msg \in Msgs /\ r.id \in 1..lastReminder
    /\ inflight \in Nat /\ wake \in BOOLEAN
    /\ sched.pc \in {"wait", "record", "next", "reset"}

\* The store keeps one row per message, so that UNIQUE(user_id, message_id)
\* never fails a snooze, although keys of messages change.
OneRowPerMessage ==
    \A t, u \in Threads : Snoozed(t) /\ Snoozed(u) /\ snoozes[t].msg = snoozes[u].msg => t = u

\* A snooze that becomes reminded gets an event of its own, newer than every
\* event a browser can have seen: INSERT OR IGNORE never meets a leftover event
\* of an earlier snooze of the same message and generation.
FreshEventPerReminder ==
    [][\A t \in Threads :
         Pending(t) /\ snoozes'[t] # NoSnooze /\ snoozes'[t].reminded
           => \E r \in reminders' : /\ r.msg = snoozes[t].msg /\ r.gen = snoozes[t].gen
                                    /\ r.id > lastReminder]_remVars

\* While the scheduler sleeps its timer is not later than the earliest pending
\* snooze, unless a request is about to wake it, failed before it could, or
\* the last pass failed: no interleaving of a request with a pass loses a wake-up.
ArmedForNext ==
    sched.pc = "wait" /\ ~wake /\ inflight = 0 /\ ~unheard /\ ~sched.err
      => \A t \in Threads : Pending(t) => timer <= Later(snoozes[t].until, clock)

\* A pending snooze is reminded, replaced or removed in the end, whatever
\* requests fail and however often the server restarts.
RemindedEventually ==
    \A t \in Threads : Pending(t) ~> ~Pending(t)

\* What the snoozes of a user keep to at all times: one row per message, and a
\* timer that is never later than the next of them.
RemindersSafe == RemindersTypeOK /\ OneRowPerMessage /\ ArmedForNext
====
