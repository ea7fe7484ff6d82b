---- MODULE NotifyProofs ----
(* Why the notification feeds keep their safety promises: reminders are armed and
   get an event of their own (Reminders), web push skips no event for a browser and
   leaves none untold (WebPush), and no arrival in an Inbox is forgotten or, being a
   move, announced (Arrivals). *)
EXTENDS WebPush, Reminders, Arrivals, WellFoundedInduction, FiniteSetTheorems, TLAPS

-----------------------------------------------------------------------------
(* The least and the greatest of a set of numbers *)

LEMMA LeastExists ==
    ASSUME NEW T \in SUBSET Nat, T # {}
    PROVE  \E n \in T : \A m \in T : n <= m
<1>1. IsWellFoundedOn(OpToRel(<, Nat), Nat)
  BY NatLessThanWellFounded
<1>2. PICK n \in T : \A m \in T : ~(<<m, n>> \in OpToRel(<, Nat))
  BY <1>1, WFMin
<1>3. ASSUME NEW m \in T PROVE n <= m
  <2>1. ~(m < n)
    BY <1>2 DEF OpToRel
  <2> QED BY <2>1
<1> QED BY <1>3

LEMMA LeastOfSet ==
    ASSUME NEW T \in SUBSET Nat, T # {}
    PROVE  LeastOf(T) \in T /\ \A m \in T : LeastOf(T) <= m
BY LeastExists DEF LeastOf

\* The greatest is the one with the least distance to the bound.
LEMMA GreatestOfSet ==
    ASSUME NEW T \in SUBSET Nat, NEW b \in Nat, \A n \in T : n <= b
    PROVE  /\ T = {} => MaxOf(T) = 0
           /\ T # {} => MaxOf(T) \in T
           /\ \A n \in T : n <= MaxOf(T)
<1>1. CASE T = {}
  BY <1>1 DEF MaxOf
<1>2. CASE T # {}
  <2> DEFINE U == {b - n : n \in T}
  <2>1. U \in SUBSET Nat /\ U # {}
    <3>1. \A n \in T : b - n \in Nat
      OBVIOUS
    <3> QED BY <1>2, <3>1
  <2>2. PICK u \in U : \A v \in U : u <= v
    BY <2>1, LeastExists
  <2>3. PICK n \in T : u = b - n
    BY <2>2
  <2>4. ASSUME NEW m \in T PROVE m <= n
    <3>1. b - m \in U
      BY <2>4
    <3>2. b - n <= b - m
      BY <2>2, <2>3, <3>1
    <3> QED BY <3>2
  <2>5. \E x \in T : \A m \in T : m <= x
    BY <2>4
  <2> QED BY <1>2, <2>5 DEF MaxOf
<1> QED BY <1>1, <1>2

-----------------------------------------------------------------------------
(* Reminders *)

RowsOfSnoozes == [msg : Msgs, gen : 1..MaxSnoozes, until : 1..MaxUntil, reminded : BOOLEAN]
RemindersTypes ==
    /\ clock \in 0..MaxTime
    /\ threadOf \in [Msgs -> Threads]
    /\ snoozes \in [Threads -> {NoSnooze} \cup RowsOfSnoozes]
    /\ \A r \in reminders : r.msg \in Msgs /\ r.id \in 1..lastReminder
    /\ lastReminder \in Nat
    /\ inflight \in Nat /\ wake \in BOOLEAN /\ unheard \in BOOLEAN
    /\ timer \in Nat
    /\ sched \in [pc : {"wait", "record", "next", "reset"}, now : Nat, next : Nat, err : BOOLEAN]
    /\ snoozeCount \in Nat
    /\ \A t \in Threads : Snoozed(t) => snoozes[t].gen <= snoozeCount

\* A pending snooze has no event of its message, not even of an earlier snooze.
NoLeftover == \A t \in Threads : Pending(t) => \A r \in reminders : r.msg # snoozes[t].msg

\* Nothing tells the scheduler that the rows changed since it read them.
NothingHeard == ~wake /\ inflight = 0 /\ ~unheard /\ ~sched.err

\* Then the deadline it has read and not yet set is that of the next snooze.
DeadlineRead ==
    sched.pc = "reset" /\ NothingHeard =>
        \A t \in Threads : Pending(t) => sched.next # 0 /\ sched.next <= snoozes[t].until

RemindersInv == RemindersTypes /\ OneRowPerMessage /\ NoLeftover /\ DeadlineRead /\ ArmedForNext

LEMMA RowIsSnooze == \A row \in RowsOfSnoozes : row # NoSnooze
<1> SUFFICES ASSUME NEW row \in RowsOfSnoozes PROVE row # NoSnooze
  OBVIOUS
<1>1. "gen" \in DOMAIN row
  BY DEF RowsOfSnoozes
<1>2. "gen" \notin DOMAIN NoSnooze
  BY DEF NoSnooze
<1> QED BY <1>1, <1>2

LEMMA RemindersInitially == RemindersInit => RemindersInv
<1> SUFFICES ASSUME RemindersInit PROVE RemindersInv
  OBVIOUS
<1> USE RemindersAssumption DEF RemindersInit, Snoozed, Pending
<1>1. RemindersTypes
  <2>1. clock \in 0..MaxTime /\ snoozeCount \in Nat /\ inflight \in Nat /\ timer \in Nat /\ lastReminder \in Nat
    OBVIOUS
  <2>2. threadOf \in [Msgs -> Threads]
    <3>1. (CHOOSE t \in Threads : TRUE) \in Threads
      OBVIOUS
    <3> QED BY <3>1
  <2>3. snoozes \in [Threads -> {NoSnooze} \cup RowsOfSnoozes] /\ \A t \in Threads : ~Snoozed(t)
    OBVIOUS
  <2>4. reminders = {} /\ wake \in BOOLEAN /\ unheard \in BOOLEAN
    OBVIOUS
  <2>5. sched \in [pc : {"wait", "record", "next", "reset"}, now : Nat, next : Nat, err : BOOLEAN]
    OBVIOUS
  <2> QED BY <2>1, <2>2, <2>3, <2>4, <2>5 DEF RemindersTypes
<1>2. \A t \in Threads : ~Snoozed(t)
  OBVIOUS
<1>3. OneRowPerMessage /\ NoLeftover /\ DeadlineRead /\ ArmedForNext
  BY <1>2 DEF OneRowPerMessage, NoLeftover, DeadlineRead, ArmedForNext
<1> QED BY <1>1, <1>3 DEF RemindersInv

\* A request that only takes rows and events away.
LEMMA RowsRemoved ==
    ASSUME RemindersInv, snoozes' \in [Threads -> {NoSnooze} \cup RowsOfSnoozes],
           \A t \in Threads : snoozes'[t] \in {snoozes[t], NoSnooze},
           reminders' \subseteq reminders, inflight' \in Nat, inflight <= inflight',
           UNCHANGED <<clock, threadOf, lastReminder, wake, timer, sched, unheard, snoozeCount>>
    PROVE  RemindersInv'
<1>1. \A t \in Threads : Snoozed(t)' => Snoozed(t) /\ snoozes'[t] = snoozes[t]
  BY DEF Snoozed
<1>2. \A t \in Threads : Pending(t)' => Pending(t) /\ snoozes'[t] = snoozes[t]
  BY <1>1 DEF Pending
<1>3. RemindersTypes'
  BY <1>1 DEF RemindersInv, RemindersTypes
<1>4. OneRowPerMessage'
  BY <1>1 DEF RemindersInv, OneRowPerMessage
<1>5. NoLeftover'
  BY <1>2 DEF RemindersInv, NoLeftover
<1>6. NothingHeard' => NothingHeard
  BY DEF NothingHeard, RemindersInv, RemindersTypes
<1>7. DeadlineRead'
  BY <1>2, <1>6 DEF RemindersInv, DeadlineRead
<1>8. ArmedForNext'
  BY <1>2, <1>6 DEF RemindersInv, ArmedForNext, NothingHeard
<1> QED BY <1>3, <1>4, <1>5, <1>7, <1>8 DEF RemindersInv

\* A step that leaves the rows and the events alone.
LEMMA RowsStay ==
    ASSUME RemindersInv, RemindersTypes', UNCHANGED <<snoozes, reminders>>, DeadlineRead', ArmedForNext'
    PROVE  RemindersInv'
<1>1. \A t \in Threads : (Snoozed(t)' <=> Snoozed(t)) /\ (Pending(t)' <=> Pending(t))
  BY DEF Snoozed, Pending
<1> QED BY <1>1 DEF RemindersInv, OneRowPerMessage, NoLeftover

LEMMA SnoozeKept ==
    ASSUME RemindersInv, NEW m \in Msgs, NEW until \in 1..MaxUntil, SnoozeMessage(m, until)
    PROVE  RemindersInv'
<1> USE RemindersAssumption
<1> DEFINE t == threadOf[m]
           fresh == [msg |-> m, gen |-> Generation(t), until |-> until, reminded |-> FALSE]
<1>1. t \in Threads /\ threadOf' = threadOf
  BY DEF RemindersInv, RemindersTypes, SnoozeMessage
<1>2. Generation(t) \in 1..MaxSnoozes /\ Generation(t) <= snoozeCount + 1
  BY <1>1, RowIsSnooze DEF Generation, RemindersInv, RemindersTypes, SnoozeMessage, Snoozed, RowsOfSnoozes
<1>3. fresh \in RowsOfSnoozes
  BY <1>2 DEF RowsOfSnoozes
<1>4. snoozes' = UpsertSnooze(m, t, until) /\ reminders' = DeleteReminderEvents(t)
  BY DEF SnoozeMessage
<1>5. snoozes'[t] = fresh
  BY <1>1, <1>4 DEF UpsertSnooze
<1>6. ASSUME NEW u \in Threads, u # t
      PROVE  snoozes'[u] = IF Snoozed(u) /\ snoozes[u].msg = m THEN NoSnooze ELSE snoozes[u]
  BY <1>4, <1>6 DEF UpsertSnooze
<1> HIDE DEF t, fresh
<1>7. \A u \in Threads : u # t /\ Snoozed(u)' => Snoozed(u) /\ snoozes'[u] = snoozes[u] /\ snoozes[u].msg # m
  BY <1>6 DEF Snoozed
<1>8. fresh.msg = m /\ fresh.gen <= snoozeCount + 1 /\ fresh.reminded = FALSE
  BY <1>2 DEF fresh
<1>9. snoozes' \in [Threads -> {NoSnooze} \cup RowsOfSnoozes]
  <2>1. \A u \in Threads : snoozes'[u] \in {NoSnooze} \cup RowsOfSnoozes
    BY <1>3, <1>5, <1>6 DEF RemindersInv, RemindersTypes
  <2>2. snoozes' = [u \in Threads |-> snoozes'[u]]
    BY <1>4 DEF UpsertSnooze
  <2> QED BY <2>1, <2>2
<1>10. /\ UNCHANGED <<clock, lastReminder, wake, timer, sched, unheard>>
       /\ inflight' = inflight + 1 /\ snoozeCount' = snoozeCount + 1
  BY DEF SnoozeMessage
<1>11. reminders' \subseteq reminders /\ \A r \in reminders' : r.msg # m
  BY <1>4 DEF DeleteReminderEvents, t
<1>12. RemindersTypes'
  <2>1. \A u \in Threads : Snoozed(u)' => snoozes'[u].gen <= snoozeCount'
    <3>1. \A u \in Threads : Snoozed(u) => snoozes[u].gen <= snoozeCount /\ snoozes[u].gen \in Nat
      BY DEF RemindersInv, RemindersTypes, RowsOfSnoozes, Snoozed
    <3> QED BY <1>5, <1>7, <1>8, <1>10, <3>1 DEF RemindersInv, RemindersTypes
  <2> QED BY <1>1, <1>9, <1>10, <1>11, <2>1 DEF RemindersInv, RemindersTypes
<1>13. OneRowPerMessage'
  BY <1>5, <1>7, <1>8 DEF RemindersInv, OneRowPerMessage
<1>14. NoLeftover'
  BY <1>5, <1>7, <1>8, <1>11 DEF RemindersInv, NoLeftover, Pending
<1>15. inflight' # 0
  BY <1>10 DEF RemindersInv, RemindersTypes
<1>16. DeadlineRead' /\ ArmedForNext'
  BY <1>15 DEF DeadlineRead, ArmedForNext, NothingHeard
<1> QED BY <1>12, <1>13, <1>14, <1>16 DEF RemindersInv

\* The rows of a batch turn into reminders, and each gets a new event of its own.
LEMMA RecordFacts ==
    ASSUME RemindersInv, RecordDue
    PROVE  \E B \in SUBSET Threads :
              /\ \A t \in B : Pending(t)
              /\ snoozes' = [t \in Threads |-> IF t \in B THEN [snoozes[t] EXCEPT !.reminded = TRUE] ELSE snoozes[t]]
              /\ lastReminder' \in Nat /\ lastReminder <= lastReminder'
              /\ reminders \subseteq reminders'
              /\ \A r \in reminders' \ reminders : r.id \in 1..lastReminder' /\ \E t \in B : r.msg = snoozes[t].msg
              /\ \A t \in B : \E r \in reminders' : /\ r.msg = snoozes[t].msg /\ r.gen = snoozes[t].gen
                                                    /\ r.id > lastReminder
<1> USE RemindersAssumption
<1>1. PICK B \in Batches(sched.now) :
        LET N == {t \in B : ~HasEvent(t)} IN
        /\ \E E \in NewEvents(N) : reminders' = reminders \cup E
        /\ lastReminder' = lastReminder + Cardinality(N)
        /\ snoozes' = [t \in Threads |-> IF t \in B THEN [snoozes[t] EXCEPT !.reminded = TRUE] ELSE snoozes[t]]
  BY DEF RecordDue
<1>2. B \in SUBSET Threads /\ \A t \in B : Pending(t)
  BY <1>1 DEF Batches, Due
<1>3. {t \in B : ~HasEvent(t)} = B
  BY <1>2 DEF RemindersInv, NoLeftover, HasEvent
<1>4. Cardinality(B) \in Nat
  BY <1>2, FS_Subset, FS_CardinalityType
<1>5. PICK E \in NewEvents(B) : reminders' = reminders \cup E
  BY <1>1, <1>3
<1>6. PICK f \in [B -> 1..Cardinality(B)] :
        E = {[id |-> lastReminder + f[t], msg |-> snoozes[t].msg, gen |-> snoozes[t].gen] : t \in B}
  BY <1>5 DEF NewEvents
<1>7. lastReminder' = lastReminder + Cardinality(B)
  BY <1>1, <1>3
<1>8. lastReminder \in Nat
  BY DEF RemindersInv, RemindersTypes
<1>9. \A t \in B : f[t] \in 1..Cardinality(B)
  OBVIOUS
<1>10. \A r \in E : r.id \in 1..lastReminder' /\ \E t \in B : r.msg = snoozes[t].msg
  <2> SUFFICES ASSUME NEW r \in E PROVE r.id \in 1..lastReminder' /\ \E t \in B : r.msg = snoozes[t].msg
    OBVIOUS
  <2>1. PICK t \in B : r = [id |-> lastReminder + f[t], msg |-> snoozes[t].msg, gen |-> snoozes[t].gen]
    BY <1>6
  <2>2. r.id = lastReminder + f[t] /\ r.msg = snoozes[t].msg
    BY <2>1
  <2>3. r.id \in 1..lastReminder'
    BY <1>4, <1>7, <1>8, <1>9, <2>2
  <2> QED BY <2>2, <2>3
<1>11. ASSUME NEW t \in B
       PROVE  \E r \in E : r.msg = snoozes[t].msg /\ r.gen = snoozes[t].gen /\ r.id > lastReminder
  <2> DEFINE e == [id |-> lastReminder + f[t], msg |-> snoozes[t].msg, gen |-> snoozes[t].gen]
  <2>1. e \in E
    BY <1>6
  <2>2. e.id > lastReminder
    BY <1>4, <1>8, <1>9
  <2>3. e.msg = snoozes[t].msg /\ e.gen = snoozes[t].gen
    OBVIOUS
  <2> QED BY <2>1, <2>2, <2>3
<1>12. lastReminder' \in Nat /\ lastReminder <= lastReminder'
  BY <1>4, <1>7, <1>8
<1>13. reminders \subseteq reminders' /\ \A r \in reminders' \ reminders : r \in E
  BY <1>5
<1>14. \A t \in B : \E r \in reminders' : r.msg = snoozes[t].msg /\ r.gen = snoozes[t].gen /\ r.id > lastReminder
  BY <1>5, <1>11
<1>15. snoozes' = [t \in Threads |-> IF t \in B THEN [snoozes[t] EXCEPT !.reminded = TRUE] ELSE snoozes[t]]
  BY <1>1
<1> QED BY <1>2, <1>10, <1>12, <1>13, <1>14, <1>15

LEMMA RecordKept == ASSUME RemindersInv, RecordDue PROVE RemindersInv'
<1>1. PICK B \in SUBSET Threads :
        /\ \A t \in B : Pending(t)
        /\ snoozes' = [t \in Threads |-> IF t \in B THEN [snoozes[t] EXCEPT !.reminded = TRUE] ELSE snoozes[t]]
        /\ lastReminder' \in Nat /\ lastReminder <= lastReminder'
        /\ reminders \subseteq reminders'
        /\ \A r \in reminders' \ reminders : r.id \in 1..lastReminder' /\ \E t \in B : r.msg = snoozes[t].msg
  BY RecordFacts
<1>2. /\ UNCHANGED <<clock, threadOf, inflight, wake, timer, unheard, snoozeCount>>
      /\ sched.pc = "record" /\ sched' = [sched EXCEPT !.pc = "next"]
  BY DEF RecordDue, budget
<1>3. \A t \in B : snoozes[t] \in RowsOfSnoozes
  BY <1>1 DEF RemindersInv, RemindersTypes, Pending, Snoozed
<1>4. \A t \in B : /\ snoozes'[t] = [snoozes[t] EXCEPT !.reminded = TRUE] /\ snoozes'[t] \in RowsOfSnoozes
                   /\ snoozes'[t].msg = snoozes[t].msg /\ snoozes'[t].gen = snoozes[t].gen /\ snoozes'[t].reminded
  BY <1>1, <1>3 DEF RowsOfSnoozes
<1>5. \A t \in Threads \ B : snoozes'[t] = snoozes[t]
  BY <1>1
<1>6. \A t \in Threads : /\ Snoozed(t)' <=> Snoozed(t)
                         /\ Pending(t)' <=> Pending(t) /\ t \notin B
                         /\ Snoozed(t) => snoozes'[t].msg = snoozes[t].msg /\ snoozes'[t].gen = snoozes[t].gen
  BY <1>1, <1>4, <1>5, RowIsSnooze DEF Snoozed, Pending
<1>7. snoozes' \in [Threads -> {NoSnooze} \cup RowsOfSnoozes]
  BY <1>1, <1>4, <1>5 DEF RemindersInv, RemindersTypes
<1>8. \A r \in reminders' : r.msg \in Msgs /\ r.id \in 1..lastReminder'
  <2>1. \A t \in B : snoozes[t].msg \in Msgs
    BY <1>3 DEF RowsOfSnoozes
  <2> QED BY <1>1, <2>1 DEF RemindersInv, RemindersTypes
<1>9. sched'.pc = "next" /\ sched' \in [pc : {"wait", "record", "next", "reset"}, now : Nat, next : Nat, err : BOOLEAN]
  BY <1>2 DEF RemindersInv, RemindersTypes
<1>10. RemindersTypes'
  BY <1>1, <1>2, <1>6, <1>7, <1>8, <1>9 DEF RemindersInv, RemindersTypes
<1>11. OneRowPerMessage'
  BY <1>6 DEF RemindersInv, OneRowPerMessage
<1>12. NoLeftover'
  <2> SUFFICES ASSUME NEW t \in Threads, Pending(t)', NEW r \in reminders' PROVE r.msg # snoozes'[t].msg
    BY DEF NoLeftover
  <2>1. Pending(t) /\ t \notin B /\ snoozes'[t] = snoozes[t]
    BY <1>5, <1>6
  <2>2. CASE r \in reminders
    BY <2>1, <2>2 DEF RemindersInv, NoLeftover
  <2>3. CASE r \notin reminders
    <3>1. PICK u \in B : r.msg = snoozes[u].msg
      BY <1>1, <2>3
    <3> QED BY <1>1, <2>1, <3>1 DEF RemindersInv, OneRowPerMessage, Pending
  <2> QED BY <2>2, <2>3
<1>13. DeadlineRead' /\ ArmedForNext'
  BY <1>9 DEF DeadlineRead, ArmedForNext
<1> QED BY <1>10, <1>11, <1>12, <1>13 DEF RemindersInv

\* What the scheduler has read is the deadline of the next pending snooze.
LEMMA NextDueIsLeast ==
    ASSUME RemindersInv
    PROVE  /\ NextDue \in Nat
           /\ \A t \in Threads : Pending(t) => NextDue # 0 /\ NextDue <= snoozes[t].until
<1> DEFINE W == {snoozes[t].until : t \in {u \in Threads : Pending(u)}}
<1>1. \A t \in Threads : Pending(t) => snoozes[t].until \in 1..MaxUntil
  BY DEF RemindersInv, RemindersTypes, Pending, Snoozed, RowsOfSnoozes
<1>2. W \in SUBSET Nat /\ \A n \in W : n # 0
  BY <1>1
<1>3. CASE W = {}
  <2>1. \A t \in Threads : ~Pending(t)
    BY <1>3
  <2> QED BY <1>3, <2>1 DEF NextDue
<1>4. CASE W # {}
  <2>1. NextDue = LeastOf(W)
    BY <1>4 DEF NextDue
  <2>2. LeastOf(W) \in W /\ \A n \in W : LeastOf(W) <= n
    BY <1>2, <1>4, LeastOfSet
  <2>3. \A t \in Threads : Pending(t) => snoozes[t].until \in W
    OBVIOUS
  <2> HIDE DEF W
  <2> QED BY <1>2, <2>1, <2>2, <2>3
<1> QED BY <1>3, <1>4

LEMMA ResetKept == ASSUME RemindersInv, Reset PROVE RemindersInv'
<1> USE RemindersAssumption
<1>1. /\ sched.pc = "reset" /\ timer' = Delay /\ sched' = [sched EXCEPT !.pc = "wait"]
      /\ UNCHANGED <<clock, inflight, wake, unheard, threadOf, snoozes, reminders, lastReminder, snoozeCount>>
  BY DEF Reset, store, budget
<1>2. clock \in Nat /\ sched.next \in Nat /\ sched \in [pc : {"wait", "record", "next", "reset"}, now : Nat, next : Nat, err : BOOLEAN]
  BY DEF RemindersInv, RemindersTypes
<1>3. Deadline \in Nat
  BY <1>2 DEF Deadline, Later
<1>4. Delay \in Nat /\ Delay <= Deadline
  <2>1. {Deadline, MaxTime} \in SUBSET Nat
    BY <1>3
  <2> QED BY <2>1, LeastOfSet DEF Delay
<1>5. sched'.pc = "wait" /\ sched'.err = sched.err /\ sched'.next = sched.next
      /\ sched' \in [pc : {"wait", "record", "next", "reset"}, now : Nat, next : Nat, err : BOOLEAN]
  BY <1>1, <1>2
<1>6. RemindersTypes'
  BY <1>1, <1>4, <1>5 DEF RemindersInv, RemindersTypes, Snoozed
<1>7. DeadlineRead'
  BY <1>5 DEF DeadlineRead
<1>8. ArmedForNext'
  <2> SUFFICES ASSUME NothingHeard, NEW t \in Threads, Pending(t)
               PROVE  timer' <= Later(snoozes[t].until, clock)
    BY <1>1, <1>5 DEF ArmedForNext, NothingHeard, Pending, Snoozed
  <2>1. sched.next # 0 /\ sched.next <= snoozes[t].until
    BY <1>1 DEF RemindersInv, DeadlineRead
  <2>2. snoozes[t].until \in Nat
    BY DEF RemindersInv, RemindersTypes, Pending, Snoozed, RowsOfSnoozes
  <2>3. Deadline = Later(sched.next, clock)
    BY <2>1 DEF Deadline, NothingHeard
  <2> QED BY <1>1, <1>2, <1>3, <1>4, <2>1, <2>2, <2>3 DEF Later
<1> QED BY <1>1, <1>6, <1>7, <1>8, RowsStay

LEMMA RemindersKept == RemindersInv /\ [RemindersNext]_remVars => RemindersInv'
<1> SUFFICES ASSUME RemindersInv, [RemindersNext]_remVars PROVE RemindersInv'
  OBVIOUS
<1> USE RemindersAssumption
<1>1. ASSUME NEW m \in Msgs, NEW until \in 1..MaxUntil, SnoozeMessage(m, until) PROVE RemindersInv'
  BY <1>1, SnoozeKept
<1>2. ASSUME NEW m \in Msgs, UnsnoozeMessage(m) PROVE RemindersInv'
  <2>1. /\ snoozes' = [t \in Threads |->
                 IF Snoozed(t) /\ (t = threadOf[m] \/ snoozes[t].msg = m) THEN NoSnooze ELSE snoozes[t]]
        /\ reminders' \subseteq reminders /\ inflight' = inflight + 1
        /\ UNCHANGED <<clock, threadOf, lastReminder, wake, timer, sched, unheard, snoozeCount>>
    BY <1>2 DEF UnsnoozeMessage, DeleteReminderEvents, budget
  <2>2. \A t \in Threads : snoozes'[t] \in {snoozes[t], NoSnooze}
    BY <2>1
  <2>3. snoozes' \in [Threads -> {NoSnooze} \cup RowsOfSnoozes]
    BY <2>1 DEF RemindersInv, RemindersTypes
  <2>4. inflight' \in Nat /\ inflight <= inflight'
    BY <2>1 DEF RemindersInv, RemindersTypes
  <2> QED BY <2>1, <2>2, <2>3, <2>4, RowsRemoved
<1>3. ASSUME NEW m \in Msgs, AcknowledgeDue(m) \/ CancelSnoozeForNewMessage(m) PROVE RemindersInv'
  <2>1. /\ snoozes' = [snoozes EXCEPT ![threadOf[m]] = NoSnooze]
        /\ reminders' \subseteq reminders /\ (inflight' = inflight + 1 \/ inflight' = inflight)
        /\ UNCHANGED <<clock, threadOf, lastReminder, wake, timer, sched, unheard, snoozeCount>>
    BY <1>3 DEF AcknowledgeDue, CancelSnoozeForNewMessage, DeleteReminderEvents, budget
  <2>2. \A t \in Threads : snoozes'[t] \in {snoozes[t], NoSnooze}
    BY <2>1 DEF RemindersInv, RemindersTypes
  <2>3. snoozes' \in [Threads -> {NoSnooze} \cup RowsOfSnoozes]
    BY <2>1 DEF RemindersInv, RemindersTypes
  <2>4. inflight' \in Nat /\ inflight <= inflight'
    BY <2>1 DEF RemindersInv, RemindersTypes
  <2> QED BY <2>1, <2>2, <2>3, <2>4, RowsRemoved
<1>4. ASSUME NEW m \in Msgs, NEW t \in Threads, UpdateMessageThreadHeaders(m, t) PROVE RemindersInv'
  <2>1. /\ threadOf' = [threadOf EXCEPT ![m] = t]
        /\ UNCHANGED <<clock, snoozes, reminders, lastReminder, inflight, wake, timer, sched, unheard, snoozeCount>>
    BY <1>4 DEF UpdateMessageThreadHeaders
  <2>2. RemindersTypes'
    BY <2>1 DEF RemindersInv, RemindersTypes, Snoozed
  <2>3. DeadlineRead' /\ ArmedForNext'
    BY <2>1 DEF RemindersInv, DeadlineRead, ArmedForNext, NothingHeard, Pending, Snoozed
  <2> QED BY <2>1, <2>2, <2>3, RowsStay
<1>5. CASE NotifySnoozeStateChanged \/ ReadBackFails
  <2>1. /\ inflight > 0 /\ inflight' = inflight - 1
        /\ UNCHANGED <<clock, timer, sched, threadOf, snoozes, reminders, lastReminder, snoozeCount>>
        /\ (wake' = TRUE /\ unheard' = unheard) \/ (unheard' = TRUE /\ wake' = wake)
    BY <1>5 DEF NotifySnoozeStateChanged, ReadBackFails, store, budget
  <2>2. RemindersTypes'
    <3>1. inflight' \in Nat
      BY <2>1 DEF RemindersInv, RemindersTypes
    <3>2. wake' \in BOOLEAN /\ unheard' \in BOOLEAN
      BY <2>1 DEF RemindersInv, RemindersTypes
    <3> QED BY <2>1, <3>1, <3>2 DEF RemindersInv, RemindersTypes, Snoozed
  <2>3. DeadlineRead' /\ ArmedForNext'
    BY <2>1 DEF DeadlineRead, ArmedForNext, NothingHeard
  <2> QED BY <2>1, <2>2, <2>3, RowsStay
<1>6. CASE WakeUp
  <2>1. /\ sched' = [pc |-> "record", now |-> clock, next |-> 0, err |-> FALSE] /\ timer' = Off
        /\ unheard' = FALSE /\ wake' \in {wake, FALSE}
        /\ UNCHANGED <<clock, inflight, threadOf, snoozes, reminders, lastReminder, snoozeCount>>
    BY <1>6 DEF WakeUp, store, budget
  <2>2. RemindersTypes'
    <3>1. wake' \in BOOLEAN /\ unheard' \in BOOLEAN
      BY <2>1 DEF RemindersInv, RemindersTypes
    <3>2. timer' \in Nat /\ clock \in Nat
      BY <2>1 DEF RemindersInv, RemindersTypes, Off
    <3>3. sched' \in [pc : {"wait", "record", "next", "reset"}, now : Nat, next : Nat, err : BOOLEAN]
      BY <2>1, <3>2
    <3> QED BY <2>1, <3>1, <3>2, <3>3 DEF RemindersInv, RemindersTypes, Snoozed
  <2>3. DeadlineRead' /\ ArmedForNext'
    BY <2>1 DEF DeadlineRead, ArmedForNext
  <2> QED BY <2>1, <2>2, <2>3, RowsStay
<1>7. CASE RecordDue
  BY <1>7, RecordKept
<1>8. CASE RecordFails
  <2>1. /\ sched' = [sched EXCEPT !.pc = "reset", !.err = TRUE]
        /\ UNCHANGED <<clock, timer, wake, unheard, inflight, threadOf, snoozes, reminders, lastReminder, snoozeCount>>
    BY <1>8 DEF RecordFails, store
  <2>2. sched'.pc = "reset" /\ sched'.err = TRUE
    BY <2>1 DEF RemindersInv, RemindersTypes
  <2>3. RemindersTypes'
    BY <2>1 DEF RemindersInv, RemindersTypes, Snoozed
  <2>4. DeadlineRead' /\ ArmedForNext'
    BY <2>2 DEF DeadlineRead, ArmedForNext, NothingHeard
  <2> QED BY <2>1, <2>3, <2>4, RowsStay
<1>9. CASE NextPendingSnoozeDue
  <2>1. /\ sched' = [sched EXCEPT !.pc = "reset", !.next = NextDue]
        /\ UNCHANGED <<clock, timer, wake, unheard, inflight, threadOf, snoozes, reminders, lastReminder, snoozeCount>>
    BY <1>9 DEF NextPendingSnoozeDue, store, budget
  <2>2. NextDue \in Nat /\ \A t \in Threads : Pending(t) => NextDue # 0 /\ NextDue <= snoozes[t].until
    BY NextDueIsLeast
  <2>3. sched'.pc = "reset" /\ sched'.next = NextDue
    BY <2>1 DEF RemindersInv, RemindersTypes
  <2>4. RemindersTypes'
    BY <2>1, <2>2 DEF RemindersInv, RemindersTypes, Snoozed
  <2>5. DeadlineRead' /\ ArmedForNext'
    BY <2>1, <2>2, <2>3 DEF DeadlineRead, ArmedForNext, Pending, Snoozed
  <2> QED BY <2>1, <2>4, <2>5, RowsStay
<1>10. CASE Reset
  BY <1>10, ResetKept
<1>11. CASE SchedulerStart
  <2>1. /\ timer' = 0 /\ sched' = [pc |-> "wait", now |-> 0, next |-> 0, err |-> FALSE]
        /\ wake' = FALSE /\ inflight' = 0 /\ unheard' = FALSE
        /\ UNCHANGED <<clock, threadOf, snoozes, reminders, lastReminder, snoozeCount>>
    BY <1>11 DEF SchedulerStart, store
  <2>2. RemindersTypes'
    BY <2>1 DEF RemindersInv, RemindersTypes, Snoozed
  <2>3. \A t \in Threads : Pending(t) => 0 <= Later(snoozes[t].until, clock)
    BY DEF RemindersInv, RemindersTypes, Pending, Snoozed, RowsOfSnoozes, Later
  <2>4. DeadlineRead' /\ ArmedForNext'
    BY <2>1, <2>3 DEF DeadlineRead, ArmedForNext, Pending, Snoozed
  <2> QED BY <2>1, <2>2, <2>4, RowsStay
<1>12. CASE Tick
  <2>1. /\ clock' = clock + 1 /\ clock < MaxTime
        /\ UNCHANGED <<inflight, wake, timer, sched, unheard, threadOf, snoozes, reminders, lastReminder, snoozeCount>>
    BY <1>12 DEF Tick, store, budget
  <2>2. RemindersTypes'
    BY <2>1 DEF RemindersInv, RemindersTypes, Snoozed
  <2>3. DeadlineRead'
    BY <2>1 DEF RemindersInv, DeadlineRead, NothingHeard, Pending, Snoozed
  <2>4. \A t \in Threads : Pending(t) => snoozes[t].until \in Nat
    BY DEF RemindersInv, RemindersTypes, Pending, Snoozed, RowsOfSnoozes
  <2>5. clock \in Nat /\ timer \in Nat
    BY DEF RemindersInv, RemindersTypes
  <2>6. \A t \in Threads : Pending(t) /\ timer <= Later(snoozes[t].until, clock)
                            => timer' <= Later(snoozes'[t].until, clock')
    BY <2>1, <2>4, <2>5 DEF Later
  <2>7. ArmedForNext'
    BY <2>1, <2>6 DEF RemindersInv, ArmedForNext, Pending, Snoozed
  <2> QED BY <2>1, <2>2, <2>3, <2>7, RowsStay
<1>13. CASE UNCHANGED remVars
  BY <1>13 DEF remVars, RemindersInv, RemindersTypes, OneRowPerMessage, NoLeftover, DeadlineRead,
               ArmedForNext, NothingHeard, Pending, Snoozed
<1> QED BY <1>1, <1>2, <1>3, <1>4, <1>5, <1>6, <1>7, <1>8, <1>9, <1>10, <1>11, <1>12, <1>13
        DEF RemindersNext, SchedulerStep

LEMMA RemindersAlways == RemindersSpec => []RemindersInv
BY RemindersInitially, RemindersKept, PTL DEF RemindersSpec

\* One row per message, so that no snooze fails on it, and while the scheduler
\* sleeps its timer is never later than the next pending snooze
\* (store/snoozes.go:49, web/snooze_scheduler.go:55), for every number of requests,
\* failures and restarts.
THEOREM RemindersAreSafe == RemindersSpec => []RemindersSafe
<1>1. RemindersInv => RemindersSafe
  <2> SUFFICES ASSUME RemindersInv PROVE RemindersTypeOK
    BY DEF RemindersInv, RemindersSafe
  <2>1. \A t \in Threads : Snoozed(t) => snoozes[t] \in RowsOfSnoozes
    BY DEF RemindersInv, RemindersTypes, Snoozed
  <2> QED BY <2>1 DEF RemindersInv, RemindersTypes, RemindersTypeOK, RowsOfSnoozes
<1> QED BY <1>1, RemindersAlways, PTL

\* A snooze that becomes reminded gets an event newer than all before it: no event of
\* an earlier snooze is left that INSERT OR IGNORE could meet (store/snoozes.go:355).
THEOREM ReminderIsFresh == RemindersSpec => FreshEventPerReminder
<1> DEFINE Fresh == \A t \in Threads :
              Pending(t) /\ snoozes'[t] # NoSnooze /\ snoozes'[t].reminded
                => \E r \in reminders' : /\ r.msg = snoozes[t].msg /\ r.gen = snoozes[t].gen
                                         /\ r.id > lastReminder
<1>1. RemindersInv /\ [RemindersNext]_remVars => [Fresh]_remVars
  <2> SUFFICES ASSUME RemindersInv, [RemindersNext]_remVars, NEW t \in Threads,
                      Pending(t), snoozes'[t] # NoSnooze, snoozes'[t].reminded
               PROVE  \E r \in reminders' : /\ r.msg = snoozes[t].msg /\ r.gen = snoozes[t].gen
                                            /\ r.id > lastReminder
    OBVIOUS
  <2>1. snoozes'[t] # snoozes[t]
    BY DEF Pending
  <2>2. CASE RecordDue
    <3>1. PICK B \in SUBSET Threads :
            /\ snoozes' = [u \in Threads |-> IF u \in B THEN [snoozes[u] EXCEPT !.reminded = TRUE] ELSE snoozes[u]]
            /\ \A u \in B : \E r \in reminders' : /\ r.msg = snoozes[u].msg /\ r.gen = snoozes[u].gen
                                                  /\ r.id > lastReminder
      BY <2>2, RecordFacts
    <3>2. t \in B
      BY <2>1, <3>1
    <3> QED BY <3>1, <3>2
  <2>3. ASSUME NEW m \in Msgs, NEW until \in 1..MaxUntil, SnoozeMessage(m, until) PROVE FALSE
    <3>1. snoozes'[t] \in {[msg |-> m, gen |-> Generation(t), until |-> until, reminded |-> FALSE], NoSnooze, snoozes[t]}
      BY <2>3 DEF SnoozeMessage, UpsertSnooze
    <3> QED BY <2>1, <3>1
  <2>4. ASSUME NEW m \in Msgs, UnsnoozeMessage(m) \/ AcknowledgeDue(m) \/ CancelSnoozeForNewMessage(m) PROVE FALSE
    <3>1. snoozes'[t] \in {NoSnooze, snoozes[t]}
      BY <2>4 DEF UnsnoozeMessage, AcknowledgeDue, CancelSnoozeForNewMessage, RemindersInv, RemindersTypes
    <3> QED BY <2>1, <3>1
  <2>5. CASE UNCHANGED snoozes
    BY <2>1, <2>5
  <2>6. ASSUME NotifySnoozeStateChanged \/ ReadBackFails \/ WakeUp \/ NextPendingSnoozeDue \/ Reset \/ RecordFails
               \/ SchedulerStart \/ Tick \/ (\E m \in Msgs, u \in Threads : UpdateMessageThreadHeaders(m, u)) \/ UNCHANGED remVars
        PROVE  UNCHANGED snoozes
    BY <2>6 DEF NotifySnoozeStateChanged, ReadBackFails, WakeUp, NextPendingSnoozeDue, Reset, RecordFails,
                SchedulerStart, Tick, UpdateMessageThreadHeaders, store, remVars
  <2> QED BY <2>2, <2>3, <2>4, <2>5, <2>6 DEF RemindersNext, SchedulerStep
<1>2. RemindersSpec => [][RemindersNext]_remVars
  BY DEF RemindersSpec
<1>3. RemindersSpec => [][Fresh]_remVars
  BY <1>1, <1>2, RemindersAlways, PTL
<1> QED BY <1>3 DEF FreshEventPerReminder

-----------------------------------------------------------------------------
(* Web push *)

PusherPlaces == {"idle", "start", "lock", "loop", "send", "advance", "drop", "decide"}
ListedRows == [at : Endpoints, key : Nat, from : Nat]
Pushers == [pc : PusherPlaces, rows : SUBSET ListedRows, at : Endpoints \cup {"none"}, key : Nat,
            from : Nat, upto : Nat, retry : BOOLEAN, attempt : Nat]
Subscriptions == [key : 1..MaxKeys, cursor : [Kinds -> Nat]]

Delivers(k) == pusher[k].pc \in {"loop", "send", "advance", "drop"}
AtRow(k) == pusher[k].pc \in {"send", "advance", "drop"}

FeedTypes ==
    /\ feed \in [Kinds -> SUBSET Nat] /\ lastEvent \in [Kinds -> Nat] /\ untold \subseteq Kinds
    /\ \A k \in Kinds : \A id \in feed[k] : 1 <= id /\ id <= lastEvent[k]
WorkerTypes ==
    /\ running \in [Kinds -> BOOLEAN] /\ dirty \in [Kinds -> BOOLEAN]
    /\ pusher \in [Kinds -> Pushers]
    /\ deliveryLock \in Kinds \cup {"free"}
    /\ pushFaults \in Nat /\ pushFaults <= MaxPushFaults
    /\ \A k \in Kinds : /\ running[k] = (pusher[k].pc # "idle")
                        /\ deliveryLock = k <=> Delivers(k)
BrowserTypes ==
    /\ subs \in [Endpoints -> {NoSub} \cup Subscriptions]
    /\ browser \in [Endpoints -> 0..MaxKeys]
    /\ seen \in [Endpoints -> [Kinds -> SUBSET Nat]]
    /\ baseline \in [Endpoints -> [Kinds -> Nat]]

\* A row has the keys of its browser and cursors within the feeds.
RowsFollow ==
    \A e \in Endpoints : Subscribed(e) =>
        /\ subs[e].key = browser[e]
        /\ \A k \in Kinds : subs[e].cursor[k] <= lastEvent[k]

\* What a worker knows of a row it has listed and not finished.  Keys that differ
\* were changed during this delivery, which is one disturbance more than the attempts.
KnowsRow(k, r) ==
    /\ 1 <= r.key /\ r.key <= browser[r.at] /\ r.from <= lastEvent[k]
    /\ subs[r.at].key = r.key => subs[r.at].cursor[k] = r.from
    /\ Subscribed(r.at) => \A id \in feed[k] : id > subs[r.at].cursor[k] => id > r.from
    /\ subs[r.at].key # r.key => pusher[k].attempt < pushFaults
CurrentRow(k) == [at |-> pusher[k].at, key |-> pusher[k].key, from |-> pusher[k].from]
KnowsRows(k) ==
    /\ pusher[k].rows # {} => Delivers(k)
    /\ \A r, s \in pusher[k].rows : r.at = s.at => r = s
    /\ \A r \in pusher[k].rows : KnowsRow(k, r)
    /\ AtRow(k) => /\ pusher[k].at \in Endpoints /\ KnowsRow(k, CurrentRow(k))
                   /\ \A r \in pusher[k].rows : r.at # pusher[k].at

\* The push under way reaches as far as the feed did; what came later is untold or
\* marked, and an accepted push was shown by a browser that still has its keys.
KnowsPush(k) ==
    AtRow(k) =>
        /\ pusher[k].from < pusher[k].upto /\ pusher[k].upto <= lastEvent[k]
        /\ \A id \in feed[k] : id > pusher[k].upto => k \in untold \/ dirty[k]
        /\ pusher[k].pc = "advance" /\ browser[pusher[k].at] = pusher[k].key =>
               \A id \in 1..pusher[k].upto : id > pusher[k].from => id \in seen[pusher[k].at][k]

\* Every attempt, and every retry to come, had a disturbance of its own.
AttemptsPaid(k) ==
    /\ pusher[k].attempt <= pushFaults
    /\ pusher[k].retry /\ pusher[k].pc # "lock" => pusher[k].attempt < pushFaults
    /\ pusher[k].pc = "idle" => ~dirty[k] /\ ~pusher[k].retry

\* Somebody is about to look at the row of browser e.
Tells(e, k) ==
    \/ k \in untold \/ dirty[k] \/ pusher[k].pc \in {"start", "lock"} \/ pusher[k].retry
    \/ \E r \in pusher[k].rows : r.at = e
    \/ AtRow(k) /\ pusher[k].at = e
NobodyForgotten(k) ==
    MaxPushFaults <= PushMaxRetryAttempts =>
        \A e \in Endpoints : BehindNow(e, k) => <<e, k>> \in refusals \/ Tells(e, k)

WorkerInv(k) == KnowsRows(k) /\ KnowsPush(k) /\ AttemptsPaid(k) /\ NobodyForgotten(k)
PushInv ==
    /\ FeedTypes /\ WorkerTypes /\ BrowserTypes /\ RowsFollow /\ CursorCovered
    /\ \A k \in Kinds : WorkerInv(k)

LEMMA RowIsSubscription == \A row \in Subscriptions : row # NoSub /\ row.key # 0
<1> SUFFICES ASSUME NEW row \in Subscriptions PROVE row # NoSub /\ row.key # 0
  OBVIOUS
<1>1. row.key \in 1..MaxKeys
  BY DEF Subscriptions
<1> QED BY <1>1, PushAssumption DEF NoSub

LEMMA PushIsSafe == PushInv => NothingSkipped
<1> SUFFICES ASSUME PushInv PROVE NothingSkipped
  OBVIOUS
<1>1. PushTypeOK
  <2>1. \A k \in Kinds : pusher[k].pc \in PusherPlaces
    BY DEF PushInv, WorkerTypes, Pushers
  <2> QED BY <2>1 DEF PushInv, FeedTypes, WorkerTypes, BrowserTypes, Subscriptions, PusherPlaces, Delivers, PushTypeOK
<1>2. QuietMeansTold
  <2> SUFFICES ASSUME MaxPushFaults <= PushMaxRetryAttempts, NEW e \in Endpoints, NEW k \in Kinds,
                      ~running[k], k \notin untold, BehindNow(e, k)
               PROVE  <<e, k>> \in refusals
    BY DEF QuietMeansTold
  <2>1. pusher[k].pc = "idle"
    BY DEF PushInv, WorkerTypes
  <2>2. ~dirty[k] /\ ~pusher[k].retry /\ pusher[k].rows = {} /\ ~AtRow(k)
    BY <2>1 DEF PushInv, WorkerInv, AttemptsPaid, KnowsRows, Delivers, AtRow
  <2> QED BY <2>1, <2>2 DEF PushInv, WorkerInv, NobodyForgotten, Tells
<1> QED BY <1>1, <1>2 DEF PushInv, NothingSkipped

LEMMA PushInitially == PushInit => PushInv
<1> SUFFICES ASSUME PushInit PROVE PushInv
  OBVIOUS
<1> USE PushAssumption
<1>1. FeedTypes /\ BrowserTypes
  BY DEF PushInit, FeedTypes, BrowserTypes
<1>2. IdlePusher \in Pushers /\ IdlePusher.pc = "idle" /\ IdlePusher.rows = {} /\ IdlePusher.attempt = 0 /\ ~IdlePusher.retry
  BY DEF IdlePusher, Pushers, PusherPlaces
<1>3. pusher = [k \in Kinds |-> IdlePusher] /\ pushFaults = 0 /\ \A k \in Kinds : ~dirty[k] /\ ~running[k]
  BY DEF PushInit
<1>4. \A k \in Kinds : pusher[k] = IdlePusher /\ ~Delivers(k) /\ ~AtRow(k)
  BY <1>2, <1>3 DEF Delivers, AtRow
<1>5. WorkerTypes
  <2>1. deliveryLock = "free" /\ "free" \notin Kinds
    BY DEF PushInit, Kinds
  <2>2. running \in [Kinds -> BOOLEAN] /\ dirty \in [Kinds -> BOOLEAN]
    BY DEF PushInit
  <2>3. \A k \in Kinds : running[k] = FALSE /\ pusher[k].pc = "idle"
    BY <1>2, <1>4 DEF PushInit
  <2>4. \A k \in Kinds : running[k] = (pusher[k].pc # "idle")
    BY <2>3
  <2>5. \A k \in Kinds : deliveryLock = k <=> Delivers(k)
    BY <1>2, <1>4, <2>1
  <2>6. pusher \in [Kinds -> Pushers] /\ pushFaults \in Nat /\ pushFaults <= MaxPushFaults
    BY <1>2, <1>3
  <2> QED BY <2>1, <2>2, <2>4, <2>5, <2>6 DEF WorkerTypes
<1>6. \A e \in Endpoints : ~Subscribed(e)
  BY DEF PushInit, Subscribed
<1>7. RowsFollow /\ CursorCovered
  BY <1>6 DEF RowsFollow, CursorCovered
<1>8. \A k \in Kinds : WorkerInv(k)
  BY <1>2, <1>3, <1>4, <1>6 DEF WorkerInv, KnowsRows, KnowsPush, AttemptsPaid, NobodyForgotten, BehindNow
<1> QED BY <1>1, <1>5, <1>7, <1>8 DEF PushInv

\* A worker whose own variables stay, while rows keep their keys and its cursors, or
\* go: at the cost of a disturbance if the worker delivers.
LEMMA WorkerUndisturbed ==
    ASSUME PushInv, NEW k \in Kinds,
           BrowserTypes', pushFaults' \in Nat,
           pusher'[k] = pusher[k], dirty'[k] = dirty[k], lastEvent'[k] = lastEvent[k],
           feed'[k] \subseteq feed[k], k \in untold => k \in untold',
           browser' = browser, pushFaults <= pushFaults', refusals \subseteq refusals',
           \A e \in Endpoints : seen[e][k] \subseteq seen'[e][k],
           \A e \in Endpoints :
               \/ /\ subs'[e] # NoSub <=> subs[e] # NoSub
                  /\ subs'[e].key = subs[e].key
                  /\ subs[e] # NoSub => subs'[e].cursor[k] = subs[e].cursor[k]
               \/ /\ subs'[e] = NoSub
                  /\ Delivers(k) => pushFaults < pushFaults'
    PROVE  WorkerInv(k)'
<1> USE DEF PushInv, WorkerInv
<1>0. pusher[k] \in Pushers /\ pushFaults \in Nat /\ pusher[k].attempt \in Nat
  BY DEF WorkerTypes, Pushers
<1>1. (AtRow(k)' <=> AtRow(k)) /\ (Delivers(k)' <=> Delivers(k))
  BY DEF AtRow, Delivers
<1>2. ASSUME NEW r \in ListedRows, KnowsRow(k, r), Delivers(k) PROVE KnowsRow(k, r)'
  <2>0. r.at \in Endpoints /\ r.key \in Nat
    BY DEF ListedRows
  <2>1. CASE ~Subscribed(r.at)' /\ pushFaults < pushFaults'
    <3>1. subs'[r.at].key = 0 /\ 1 <= r.key
      BY <1>2, <2>1 DEF Subscribed, NoSub, KnowsRow
    <3>2. pusher[k].attempt < pushFaults'
      BY <1>0, <2>1 DEF AttemptsPaid
    <3> QED BY <1>2, <2>0, <2>1, <3>1, <3>2 DEF KnowsRow
  <2>2. CASE /\ Subscribed(r.at)' <=> Subscribed(r.at)
             /\ subs'[r.at].key = subs[r.at].key
             /\ Subscribed(r.at) => subs'[r.at].cursor[k] = subs[r.at].cursor[k]
    <3>1. subs[r.at].key = r.key => Subscribed(r.at)
      BY <1>2, <2>0 DEF Subscribed, NoSub, KnowsRow
    <3>2. pusher[k].attempt < pushFaults => pusher[k].attempt < pushFaults'
      BY <1>0
    <3>3. subs'[r.at].key = r.key => subs'[r.at].cursor[k] = r.from
      BY <1>2, <2>2, <3>1 DEF KnowsRow
    <3>4. Subscribed(r.at)' => \A id \in feed'[k] : id > subs'[r.at].cursor[k] => id > r.from
      BY <1>2, <2>2 DEF KnowsRow
    <3> QED BY <1>2, <2>2, <3>2, <3>3, <3>4 DEF KnowsRow
  <2>3. \/ /\ Subscribed(r.at)' <=> Subscribed(r.at)
           /\ subs'[r.at].key = subs[r.at].key
           /\ Subscribed(r.at) => subs'[r.at].cursor[k] = subs[r.at].cursor[k]
        \/ ~Subscribed(r.at)' /\ (Delivers(k) => pushFaults < pushFaults')
    BY <2>0 DEF Subscribed
  <2> QED BY <1>2, <2>1, <2>2, <2>3
<1>3. KnowsRows(k)'
  <2>1. \A r \in pusher[k].rows : r \in ListedRows
    BY <1>0 DEF Pushers
  <2>2. AtRow(k) => CurrentRow(k) \in ListedRows /\ CurrentRow(k)' = CurrentRow(k) /\ Delivers(k)
    BY <1>0 DEF CurrentRow, ListedRows, KnowsRows, Pushers, AtRow, Delivers
  <2> QED BY <1>1, <1>2, <2>1, <2>2 DEF KnowsRows
<1>4. KnowsPush(k)'
  BY <1>1 DEF KnowsPush, KnowsRows
<1>5. AttemptsPaid(k)'
  BY <1>0 DEF AttemptsPaid
<1>6. NobodyForgotten(k)'
  <2>1. ASSUME NEW e \in Endpoints, BehindNow(e, k)' PROVE BehindNow(e, k)
    <3>1. Subscribed(e)' /\ Subscribed(e) /\ subs'[e].cursor[k] = subs[e].cursor[k]
      BY <2>1 DEF BehindNow, Subscribed
    <3>2. PICK id \in feed'[k] : id > subs'[e].cursor[k]
      BY <2>1 DEF BehindNow, EventsAfter
    <3>3. id \in EventsAfter(k, subs[e].cursor[k])
      BY <3>1, <3>2 DEF EventsAfter
    <3> QED BY <3>1, <3>3 DEF BehindNow
  <2>2. \A e \in Endpoints : Tells(e, k) => Tells(e, k)'
    BY <1>1 DEF Tells
  <2> QED BY <2>1, <2>2 DEF NobodyForgotten
<1> QED BY <1>3, <1>4, <1>5, <1>6

\* A step of the worker of feed k, with what it may do to the rows.
LEMMA WorkerMoves ==
    ASSUME PushInv, NEW k \in Kinds, NEW next \in Pushers, pusher' = [pusher EXCEPT ![k] = next],
           BrowserTypes', RowsFollow', CursorCovered',
           running' \in [Kinds -> BOOLEAN], dirty' \in [Kinds -> BOOLEAN],
           running'[k] <=> next.pc # "idle",
           deliveryLock' = k <=> next.pc \in {"loop", "send", "advance", "drop"},
           deliveryLock' \in Kinds \cup {"free"},
           \A j \in Kinds \ {k} : /\ running'[j] = running[j] /\ dirty'[j] = dirty[j]
                                  /\ deliveryLock' = j <=> deliveryLock = j
                                  /\ j \in untold => j \in untold',
           untold' \subseteq Kinds, UNCHANGED <<feed, lastEvent, browser>>,
           pushFaults' \in Nat, pushFaults <= pushFaults', pushFaults' <= MaxPushFaults, refusals \subseteq refusals',
           \A j \in Kinds \ {k}, e \in Endpoints : seen[e][j] \subseteq seen'[e][j],
           \A j \in Kinds \ {k}, e \in Endpoints :
               \/ /\ subs'[e] # NoSub <=> subs[e] # NoSub
                  /\ subs'[e].key = subs[e].key
                  /\ subs[e] # NoSub => subs'[e].cursor[j] = subs[e].cursor[j]
               \/ /\ subs'[e] = NoSub
                  /\ ~Delivers(j),
           WorkerInv(k)'
    PROVE  PushInv'
<1>1. pusher'[k] = next /\ \A j \in Kinds \ {k} : pusher'[j] = pusher[j]
  BY DEF PushInv, WorkerTypes
<1>2. FeedTypes'
  BY DEF PushInv, FeedTypes
<1>3. WorkerTypes'
  <2>1. pusher' \in [Kinds -> Pushers]
    BY DEF PushInv, WorkerTypes
  <2>2. \A j \in Kinds : running'[j] = (pusher'[j].pc # "idle")
    <3>1. running'[k] = (pusher'[k].pc # "idle")
      BY <1>1
    <3>2. ASSUME NEW j \in Kinds \ {k} PROVE running'[j] = (pusher'[j].pc # "idle")
      <4>1. running[j] = (pusher[j].pc # "idle")
        BY DEF PushInv, WorkerTypes
      <4>2. running'[j] = running[j] /\ pusher'[j] = pusher[j]
        BY <1>1
      <4> QED BY <4>1, <4>2
    <3> QED BY <3>1, <3>2
  <2>3. \A j \in Kinds : deliveryLock' = j <=> Delivers(j)'
    BY <1>1 DEF PushInv, WorkerTypes, Delivers
  <2> QED BY <2>1, <2>2, <2>3 DEF WorkerTypes
<1>4. ASSUME NEW j \in Kinds \ {k} PROVE WorkerInv(j)'
  BY <1>1, WorkerUndisturbed
<1> QED BY <1>2, <1>3, <1>4 DEF PushInv

\* The same for a step that leaves the rows alone.
LEMMA WorkerMovesAlone ==
    ASSUME PushInv, NEW k \in Kinds, NEW next \in Pushers, pusher' = [pusher EXCEPT ![k] = next],
           running' \in [Kinds -> BOOLEAN], dirty' \in [Kinds -> BOOLEAN],
           running'[k] <=> next.pc # "idle",
           deliveryLock' = k <=> next.pc \in {"loop", "send", "advance", "drop"},
           deliveryLock' \in Kinds \cup {"free"},
           \A j \in Kinds \ {k} : /\ running'[j] = running[j] /\ dirty'[j] = dirty[j]
                                  /\ deliveryLock' = j <=> deliveryLock = j
                                  /\ j \in untold => j \in untold',
           untold' \subseteq Kinds, UNCHANGED <<feed, lastEvent, browser, subs, seen, baseline>>,
           pushFaults' \in Nat, pushFaults <= pushFaults', pushFaults' <= MaxPushFaults, refusals \subseteq refusals',
           WorkerInv(k)'
    PROVE  PushInv'
<1>1. BrowserTypes' /\ RowsFollow' /\ CursorCovered'
  BY DEF PushInv, BrowserTypes, RowsFollow, CursorCovered, Subscribed
<1> QED BY <1>1, WorkerMoves

LEMMA NotifyKept == ASSUME PushInv, NEW k \in Kinds, NotifyAsync(k) PROVE PushInv'
<1> USE PushAssumption
<1> DEFINE next == IF running[k] THEN pusher[k] ELSE [pusher[k] EXCEPT !.pc = "start"]
<1>1. /\ untold' = untold \ {k} /\ running' = [running EXCEPT ![k] = TRUE]
      /\ dirty' = [dirty EXCEPT ![k] = dirty[k] \/ running[k]]
      /\ UNCHANGED <<feed, lastEvent, subs, deliveryLock, browser, seen, baseline, pushFaults, refusals>>
  BY DEF NotifyAsync, Scheduled, PushInv, WorkerTypes
<1>2. pusher[k] \in Pushers /\ pusher \in [Kinds -> Pushers] /\ (running[k] <=> pusher[k].pc # "idle")
  BY DEF PushInv, WorkerTypes
<1>3. pusher' = [pusher EXCEPT ![k] = next]
  BY <1>2 DEF NotifyAsync, Scheduled
<1>4. /\ next \in Pushers /\ next.pc # "idle" /\ next.rows = pusher[k].rows /\ next.attempt = pusher[k].attempt
      /\ next.retry = pusher[k].retry
      /\ IF running[k] THEN next = pusher[k] ELSE next.pc = "start"
  BY <1>2 DEF Pushers, PusherPlaces
<1> HIDE DEF next
<1>5. pusher'[k] = next
  BY <1>2, <1>3
<1>6. (dirty'[k] <=> dirty[k] \/ running[k]) /\ dirty' \in [Kinds -> BOOLEAN] /\ running' \in [Kinds -> BOOLEAN] /\ running'[k]
  BY <1>1 DEF PushInv, WorkerTypes
<1>7. WorkerInv(k)'
  <2>1. CASE running[k]
    <3>1. pusher'[k] = pusher[k] /\ dirty'[k]
      BY <1>4, <1>5, <1>6, <2>1
    <3>2. KnowsRows(k)'
      BY <1>1, <3>1 DEF PushInv, WorkerInv, KnowsRows, KnowsRow, CurrentRow, Delivers, AtRow, Subscribed
    <3>3. KnowsPush(k)' /\ AttemptsPaid(k)'
      BY <1>1, <1>2, <2>1, <3>1 DEF PushInv, WorkerInv, KnowsPush, AttemptsPaid, AtRow
    <3>4. NobodyForgotten(k)'
      BY <3>1 DEF NobodyForgotten, Tells
    <3> QED BY <3>2, <3>3, <3>4 DEF WorkerInv
  <2>2. CASE ~running[k]
    <3>1. pusher'[k].pc = "start" /\ pusher[k].pc = "idle"
      BY <1>2, <1>4, <1>5, <2>2
    <3>2. pusher[k].rows = {} /\ ~pusher[k].retry
      BY <3>1 DEF PushInv, WorkerInv, KnowsRows, AttemptsPaid, Delivers
    <3>3. ~AtRow(k)' /\ pusher'[k].rows = {} /\ ~pusher'[k].retry /\ pusher'[k].attempt = pusher[k].attempt
      BY <1>4, <1>5, <3>1, <3>2 DEF AtRow
    <3>4. KnowsRows(k)' /\ KnowsPush(k)'
      BY <3>3 DEF KnowsRows, KnowsPush
    <3>5. AttemptsPaid(k)'
      BY <1>1, <3>1, <3>3 DEF PushInv, WorkerInv, AttemptsPaid
    <3>6. NobodyForgotten(k)'
      BY <3>1 DEF NobodyForgotten, Tells
    <3> QED BY <3>4, <3>5, <3>6 DEF WorkerInv
  <2> QED BY <2>1, <2>2
<1>8. deliveryLock' = k <=> next.pc \in {"loop", "send", "advance", "drop"}
  <2>1. deliveryLock = k <=> pusher[k].pc \in {"loop", "send", "advance", "drop"}
    BY DEF PushInv, WorkerTypes, Delivers
  <2>2. ~running[k] => pusher[k].pc = "idle"
    BY <1>2
  <2> QED BY <1>1, <1>4, <2>1, <2>2
<1>9. \A j \in Kinds \ {k} : /\ running'[j] = running[j] /\ dirty'[j] = dirty[j]
                             /\ deliveryLock' = j <=> deliveryLock = j
                             /\ j \in untold => j \in untold'
  BY <1>1 DEF PushInv, WorkerTypes
<1>10. untold' \subseteq Kinds /\ deliveryLock' \in Kinds \cup {"free"}
       /\ pushFaults' \in Nat /\ pushFaults <= pushFaults' /\ pushFaults' <= MaxPushFaults /\ refusals \subseteq refusals'
  BY <1>1 DEF PushInv, WorkerTypes, FeedTypes
<1>11. running'[k] <=> next.pc # "idle"
  BY <1>4, <1>6
<1> QED BY <1>1, <1>3, <1>4, <1>6, <1>7, <1>8, <1>9, <1>10, <1>11, WorkerMovesAlone

\* What the steps of a delivery may count on.
LEMMA WorkerFacts ==
    ASSUME PushInv, NEW k \in Kinds
    PROVE  /\ pusher \in [Kinds -> Pushers] /\ pusher[k] \in Pushers
           /\ running[k] <=> pusher[k].pc # "idle"
           /\ deliveryLock = k <=> pusher[k].pc \in {"loop", "send", "advance", "drop"}
           /\ running \in [Kinds -> BOOLEAN] /\ dirty \in [Kinds -> BOOLEAN]
           /\ deliveryLock \in Kinds \cup {"free"} /\ "free" \notin Kinds
           /\ pushFaults \in Nat /\ pushFaults <= MaxPushFaults /\ untold \subseteq Kinds
           /\ pusher[k].attempt \in Nat /\ pusher[k].from \in Nat /\ pusher[k].upto \in Nat /\ pusher[k].key \in Nat
           /\ pusher[k].rows \subseteq ListedRows /\ pusher[k].retry \in BOOLEAN
BY DEF PushInv, FeedTypes, WorkerTypes, Delivers, Pushers, Kinds

\* A step of a worker that keeps running.
LEMMA WorkerWorks ==
    ASSUME PushInv, NEW k \in Kinds, NEW next \in Pushers, pusher' = [pusher EXCEPT ![k] = next],
           pusher[k].pc # "idle", next.pc # "idle",
           dirty' = dirty \/ dirty' = [dirty EXCEPT ![k] = FALSE],
           next.pc \in {"loop", "send", "advance", "drop"} =>
               (Delivers(k) /\ deliveryLock' = deliveryLock) \/ (deliveryLock = "free" /\ deliveryLock' = k),
           next.pc \notin {"loop", "send", "advance", "drop"} =>
               (~Delivers(k) /\ deliveryLock' = deliveryLock) \/ (Delivers(k) /\ deliveryLock' = "free"),
           UNCHANGED <<feed, lastEvent, untold, subs, running, browser, seen, baseline>>,
           pushFaults' = pushFaults \/ (pushFaults < MaxPushFaults /\ pushFaults' = pushFaults + 1),
           refusals \subseteq refusals', WorkerInv(k)'
    PROVE  PushInv'
<1> USE WorkerFacts, PushAssumption
<1>1. running' \in [Kinds -> BOOLEAN] /\ dirty' \in [Kinds -> BOOLEAN]
  OBVIOUS
<1>2. running'[k] <=> next.pc # "idle"
  OBVIOUS
<1>3. /\ deliveryLock' = k <=> next.pc \in {"loop", "send", "advance", "drop"}
      /\ deliveryLock' \in Kinds \cup {"free"}
  BY DEF Delivers
<1>4. \A j \in Kinds \ {k} : /\ running'[j] = running[j] /\ dirty'[j] = dirty[j]
                             /\ deliveryLock' = j <=> deliveryLock = j
                             /\ j \in untold => j \in untold'
  BY DEF Delivers
<1>5. pushFaults' \in Nat /\ pushFaults <= pushFaults' /\ pushFaults' <= MaxPushFaults
  OBVIOUS
<1>6. untold' \subseteq Kinds
  OBVIOUS
<1>7. UNCHANGED <<feed, lastEvent, browser, subs, seen, baseline>>
  OBVIOUS
<1> HIDE WorkerFacts, PushAssumption
<1> QED BY <1>1, <1>2, <1>3, <1>4, <1>5, <1>6, <1>7, WorkerMovesAlone

LEMMA StartKept == ASSUME PushInv, NEW k \in Kinds, Start(k) PROVE PushInv'
<1> DEFINE next == [pusher[k] EXCEPT !.pc = "lock"]
<1> USE WorkerFacts
<1>1. /\ dirty' = [dirty EXCEPT ![k] = FALSE] /\ pusher[k].pc = "start" /\ pusher' = [pusher EXCEPT ![k] = next]
      /\ UNCHANGED <<feed, lastEvent, untold, subs, running, deliveryLock, browser, seen, baseline, pushFaults, refusals>>
  BY DEF Start, ClearDirty
<1>2. next \in Pushers /\ next.pc = "lock" /\ next.rows = pusher[k].rows /\ next.attempt = pusher[k].attempt
  BY DEF Pushers, PusherPlaces
<1> HIDE DEF next
<1>3. pusher'[k] = next
  BY <1>1
<1>4. pusher[k].rows = {} /\ ~AtRow(k)'
  BY <1>1, <1>2, <1>3 DEF PushInv, WorkerInv, KnowsRows, Delivers, AtRow
<1>5. KnowsRows(k)' /\ KnowsPush(k)'
  BY <1>2, <1>3, <1>4 DEF KnowsRows, KnowsPush
<1>6. AttemptsPaid(k)'
  BY <1>1, <1>2, <1>3 DEF PushInv, WorkerInv, AttemptsPaid
<1>7. NobodyForgotten(k)'
  BY <1>2, <1>3 DEF NobodyForgotten, Tells
<1>8. WorkerInv(k)'
  BY <1>5, <1>6, <1>7 DEF WorkerInv
<1> QED BY <1>1, <1>2, <1>8, WorkerWorks DEF Delivers

LEMMA DeliverKept == ASSUME PushInv, NEW k \in Kinds, Deliver(k) PROVE PushInv'
<1> DEFINE next == [pusher[k] EXCEPT !.pc = "loop", !.rows = RowsNow(k), !.retry = FALSE]
<1> USE WorkerFacts
<1>1. /\ deliveryLock = "free" /\ deliveryLock' = k /\ pusher[k].pc = "lock"
      /\ pusher' = [pusher EXCEPT ![k] = next]
      /\ UNCHANGED <<feed, lastEvent, untold, subs, running, dirty, browser, seen, baseline, pushFaults, refusals>>
  BY DEF Deliver
<1>2. \A e \in Endpoints : Subscribed(e) => /\ subs[e] \in Subscriptions /\ subs[e].key \in Nat /\ subs[e].key = browser[e]
                                            /\ 1 <= subs[e].key /\ subs[e].cursor[k] \in Nat
                                            /\ subs[e].cursor[k] <= lastEvent[k]
  BY PushAssumption DEF PushInv, BrowserTypes, RowsFollow, Subscribed, Subscriptions
<1>3. RowsNow(k) \subseteq ListedRows
  BY <1>2 DEF RowsNow, ListedRows
<1>4. /\ next \in Pushers /\ next.pc = "loop" /\ next.rows = RowsNow(k) /\ next.attempt = pusher[k].attempt
      /\ next.retry = FALSE
  <2> HIDE WorkerFacts
  <2>1. pusher[k] \in Pushers
    BY WorkerFacts
  <2> QED BY <1>3, <2>1 DEF Pushers, PusherPlaces
<1> HIDE DEF next
<1>5. pusher'[k] = next
  BY <1>1
<1>6. Delivers(k)' /\ ~AtRow(k)'
  BY <1>4, <1>5 DEF Delivers, AtRow
<1>7. ASSUME NEW r \in RowsNow(k) PROVE KnowsRow(k, r)'
  <2>1. PICK e \in Endpoints : Subscribed(e) /\ r = [at |-> e, key |-> subs[e].key, from |-> subs[e].cursor[k]]
    BY DEF RowsNow
  <2>2. r.at = e /\ r.key = subs[e].key /\ r.from = subs[e].cursor[k]
    BY <2>1
  <2> QED BY <1>1, <1>2, <2>1, <2>2 DEF KnowsRow
<1>8. \A r, s \in RowsNow(k) : r.at = s.at => r = s
  BY DEF RowsNow
<1>9. KnowsRows(k)' /\ KnowsPush(k)'
  BY <1>4, <1>5, <1>6, <1>7, <1>8 DEF KnowsRows, KnowsPush
<1>10. AttemptsPaid(k)'
  BY <1>1, <1>4, <1>5 DEF PushInv, WorkerInv, AttemptsPaid
<1>11. NobodyForgotten(k)'
  <2>1. ASSUME NEW e \in Endpoints, Subscribed(e) PROVE \E r \in RowsNow(k) : r.at = e
    <3>1. [at |-> e, key |-> subs[e].key, from |-> subs[e].cursor[k]] \in RowsNow(k)
      BY <2>1 DEF RowsNow
    <3> QED BY <3>1
  <2>2. \A e \in Endpoints : BehindNow(e, k)' => Subscribed(e)
    BY <1>1 DEF BehindNow, Subscribed
  <2>3. \A e \in Endpoints : BehindNow(e, k)' => \E r \in pusher'[k].rows : r.at = e
    BY <1>4, <1>5, <2>1, <2>2
  <2> QED BY <2>3 DEF NobodyForgotten, Tells
<1>12. WorkerInv(k)'
  BY <1>9, <1>10, <1>11 DEF WorkerInv
<1> QED BY <1>1, <1>4, <1>12, WorkerWorks DEF Delivers

LEMMA NextRowKept == ASSUME PushInv, NEW k \in Kinds, NextRow(k) PROVE PushInv'
<1> USE WorkerFacts
<1>1. /\ pusher[k].pc = "loop"
      /\ UNCHANGED <<feed, lastEvent, untold, subs, running, dirty, deliveryLock, browser, seen, baseline, pushFaults, refusals>>
  BY DEF NextRow
<1>2. PICK r \in pusher[k].rows :
        pusher' = IF EventsAfter(k, r.from) = {} THEN [pusher EXCEPT ![k].rows = @ \ {r}]
                   ELSE [pusher EXCEPT ![k].rows = @ \ {r}, ![k].at = r.at, ![k].key = r.key,
                            ![k].from = r.from, ![k].upto = FeedCursor(k), ![k].pc = "send"]
  BY DEF NextRow
<1>3. r \in ListedRows /\ r.at \in Endpoints /\ r.key \in Nat /\ r.from \in Nat
  BY DEF ListedRows
<1>4. \A t \in pusher[k].rows : KnowsRow(k, t)
  BY DEF PushInv, WorkerInv, KnowsRows
<1>5. \A t \in pusher[k].rows : t # r => t.at # r.at
  BY DEF PushInv, WorkerInv, KnowsRows
<1>6. CASE EventsAfter(k, r.from) = {}
  <2> DEFINE next == [pusher[k] EXCEPT !.rows = @ \ {r}]
  <2>1. pusher' = [pusher EXCEPT ![k] = next]
    BY <1>2, <1>6
  <2>2. /\ next \in Pushers /\ next.pc = "loop" /\ next.rows = pusher[k].rows \ {r}
        /\ next.attempt = pusher[k].attempt /\ next.retry = pusher[k].retry
    BY <1>1 DEF Pushers, PusherPlaces
  <2> HIDE DEF next
  <2>3. pusher'[k] = next
    BY <2>1
  <2>4. Delivers(k)' /\ ~AtRow(k)' /\ ~AtRow(k)
    BY <1>1, <2>2, <2>3 DEF Delivers, AtRow
  <2>5. \A t \in pusher[k].rows : KnowsRow(k, t)'
    BY <1>1, <1>4, <2>2, <2>3 DEF KnowsRow, Subscribed
  <2>6. KnowsRows(k)'
    BY <2>2, <2>3, <2>4, <2>5 DEF PushInv, WorkerInv, KnowsRows
  <2>7. KnowsPush(k)' /\ AttemptsPaid(k)'
    BY <1>1, <2>2, <2>3, <2>4 DEF PushInv, WorkerInv, KnowsPush, AttemptsPaid
  <2>8. NobodyForgotten(k)'
    <3> SUFFICES ASSUME MaxPushFaults <= PushMaxRetryAttempts, NEW e \in Endpoints, BehindNow(e, k)'
                 PROVE  <<e, k>> \in refusals' \/ Tells(e, k)'
      BY DEF NobodyForgotten
    <3>1. BehindNow(e, k)
      BY <1>1 DEF BehindNow, EventsAfter, Subscribed
    <3>2. e # r.at
      <4> SUFFICES ASSUME e = r.at PROVE FALSE
        OBVIOUS
      <4>1. PICK id \in feed[k] : id > subs[e].cursor[k]
        BY <3>1 DEF BehindNow, EventsAfter
      <4>2. id > r.from
        BY <1>4, <3>1, <4>1 DEF KnowsRow, BehindNow
      <4> QED BY <1>6, <4>2 DEF EventsAfter
    <3>3. <<e, k>> \in refusals \/ Tells(e, k)
      BY <3>1 DEF PushInv, WorkerInv, NobodyForgotten
    <3>4. Tells(e, k) => Tells(e, k)'
      BY <1>1, <2>2, <2>3, <2>4, <3>2 DEF Tells
    <3> QED BY <1>1, <3>3, <3>4
  <2>9. WorkerInv(k)'
    BY <2>6, <2>7, <2>8 DEF WorkerInv
  <2> QED BY <1>1, <2>1, <2>2, <2>9, WorkerWorks DEF Delivers
<1>7. CASE EventsAfter(k, r.from) # {}
  <2> DEFINE next == [pusher[k] EXCEPT !.rows = @ \ {r}, !.at = r.at, !.key = r.key,
                                      !.from = r.from, !.upto = FeedCursor(k), !.pc = "send"]
  <2>1. pusher' = [pusher EXCEPT ![k] = next]
    BY <1>2, <1>7
  <2>2. /\ FeedCursor(k) \in Nat /\ FeedCursor(k) <= lastEvent[k] /\ r.from < FeedCursor(k)
        /\ \A id \in feed[k] : id <= FeedCursor(k)
    <3>1. feed[k] \in SUBSET Nat /\ lastEvent[k] \in Nat /\ \A id \in feed[k] : id <= lastEvent[k]
      BY DEF PushInv, FeedTypes
    <3>2. feed[k] # {} /\ \E id \in feed[k] : id > r.from
      BY <1>7 DEF EventsAfter
    <3>3. MaxOf(feed[k]) \in feed[k] /\ \A id \in feed[k] : id <= MaxOf(feed[k])
      BY <3>1, <3>2, GreatestOfSet
    <3> QED BY <1>3, <3>1, <3>2, <3>3 DEF FeedCursor
  <2>3. /\ next \in Pushers /\ next.pc = "send" /\ next.rows = pusher[k].rows \ {r}
        /\ next.at = r.at /\ next.key = r.key /\ next.from = r.from /\ next.upto = FeedCursor(k)
        /\ next.attempt = pusher[k].attempt /\ next.retry = pusher[k].retry
    <3> HIDE WorkerFacts
    <3>1. pusher[k] \in Pushers
      BY WorkerFacts
    <3> QED BY <1>3, <2>2, <3>1 DEF Pushers, PusherPlaces
  <2> HIDE DEF next
  <2>4. pusher'[k] = next
    BY <2>1
  <2>5. Delivers(k)' /\ AtRow(k)' /\ ~AtRow(k)
    BY <1>1, <2>3, <2>4 DEF Delivers, AtRow
  <2>6. \A t \in pusher[k].rows : KnowsRow(k, t)'
    BY <1>1, <1>4, <2>3, <2>4 DEF KnowsRow, Subscribed
  <2>7. KnowsRow(k, CurrentRow(k))'
    <3>1. KnowsRow(k, r)'
      BY <2>6
    <3>2. pusher'[k].at = r.at /\ pusher'[k].key = r.key /\ pusher'[k].from = r.from
      BY <2>3, <2>4
    <3> QED BY <3>1, <3>2 DEF KnowsRow, CurrentRow
  <2>8. KnowsRows(k)'
    <3>1. pusher'[k].rows \subseteq pusher[k].rows
      BY <2>3, <2>4
    <3>2. \A t, u \in pusher'[k].rows : t.at = u.at => t = u
      BY <3>1 DEF PushInv, WorkerInv, KnowsRows
    <3>3. pusher'[k].at \in Endpoints /\ \A t \in pusher'[k].rows : t.at # pusher'[k].at
      BY <1>3, <1>5, <2>3, <2>4
    <3> QED BY <2>5, <2>6, <2>7, <3>1, <3>2, <3>3 DEF KnowsRows
  <2>9. KnowsPush(k)'
    <3>1. pusher'[k].from < pusher'[k].upto /\ pusher'[k].upto <= lastEvent'[k] /\ pusher'[k].pc # "advance"
      BY <1>1, <2>2, <2>3, <2>4
    <3>2. \A id \in feed'[k] : ~(id > pusher'[k].upto)
      BY <1>1, <2>2, <2>3, <2>4 DEF PushInv, FeedTypes
    <3> QED BY <3>1, <3>2 DEF KnowsPush
  <2>10. AttemptsPaid(k)'
    BY <1>1, <2>3, <2>4 DEF PushInv, WorkerInv, AttemptsPaid
  <2>11. NobodyForgotten(k)'
    <3> SUFFICES ASSUME MaxPushFaults <= PushMaxRetryAttempts, NEW e \in Endpoints, BehindNow(e, k)'
                 PROVE  <<e, k>> \in refusals' \/ Tells(e, k)'
      BY DEF NobodyForgotten
    <3>1. BehindNow(e, k)
      BY <1>1 DEF BehindNow, EventsAfter, Subscribed
    <3>2. <<e, k>> \in refusals \/ Tells(e, k)
      BY <3>1 DEF PushInv, WorkerInv, NobodyForgotten
    <3>3. Tells(e, k) => Tells(e, k)'
      BY <1>1, <2>3, <2>4, <2>5 DEF Tells
    <3> QED BY <1>1, <3>2, <3>3
  <2>12. WorkerInv(k)'
    BY <2>8, <2>9, <2>10, <2>11 DEF WorkerInv
  <2> QED BY <1>1, <2>1, <2>3, <2>12, WorkerWorks DEF Delivers
<1> QED BY <1>6, <1>7

\* A worker that has finished a row without the row or the feed changing, for
\* one of the reasons that leave nobody forgotten.
LEMMA RowFinished ==
    ASSUME PushInv, NEW k \in Kinds, NEW again \in BOOLEAN, RowDone(k, again), AtRow(k),
           UNCHANGED <<feed, lastEvent, untold, subs, running, dirty, deliveryLock, browser, seen, baseline>>,
           \/ again /\ pushFaults < MaxPushFaults /\ pushFaults' = pushFaults + 1 /\ refusals' = refusals
           \/ /\ pushFaults < MaxPushFaults /\ pushFaults' = pushFaults + 1
              /\ refusals' = refusals \cup {<<pusher[k].at, k>>}
    PROVE  PushInv'
<1> USE WorkerFacts
<1> DEFINE next == [IdlePusher EXCEPT !.pc = "loop", !.rows = pusher[k].rows,
                       !.retry = pusher[k].retry \/ again, !.attempt = pusher[k].attempt]
<1>1. pusher' = [pusher EXCEPT ![k] = next]
  BY DEF RowDone
<1>2. /\ next \in Pushers /\ next.pc = "loop" /\ next.rows = pusher[k].rows /\ next.attempt = pusher[k].attempt
      /\ next.retry = (pusher[k].retry \/ again)
  BY DEF IdlePusher, Pushers, PusherPlaces
<1> HIDE DEF next
<1>3. pusher'[k] = next
  BY <1>1
<1>4. Delivers(k) /\ Delivers(k)' /\ ~AtRow(k)' /\ pushFaults <= pushFaults'
  BY <1>2, <1>3 DEF Delivers, AtRow
<1>5. \A r \in pusher[k].rows : KnowsRow(k, r)'
  <2>1. \A r \in pusher[k].rows : KnowsRow(k, r)
    BY DEF PushInv, WorkerInv, KnowsRows
  <2>2. pusher'[k].attempt = pusher[k].attempt /\ (pusher[k].attempt < pushFaults => pusher[k].attempt < pushFaults')
    BY <1>2, <1>3, <1>4
  <2> QED BY <2>1, <2>2 DEF KnowsRow, Subscribed
<1>6. KnowsRows(k)' /\ KnowsPush(k)'
  BY <1>2, <1>3, <1>4, <1>5 DEF PushInv, WorkerInv, KnowsRows, KnowsPush
<1>7. AttemptsPaid(k)'
  <2>1. pusher[k].attempt <= pushFaults
    BY DEF PushInv, WorkerInv, AttemptsPaid
  <2> QED BY <1>2, <1>3, <2>1 DEF AttemptsPaid
<1>8. NobodyForgotten(k)'
  <2> SUFFICES ASSUME MaxPushFaults <= PushMaxRetryAttempts, NEW e \in Endpoints, BehindNow(e, k)'
               PROVE  <<e, k>> \in refusals' \/ Tells(e, k)'
    BY DEF NobodyForgotten
  <2>1. BehindNow(e, k)
    BY DEF BehindNow, EventsAfter, Subscribed
  <2>2. <<e, k>> \in refusals \/ Tells(e, k)
    BY <2>1 DEF PushInv, WorkerInv, NobodyForgotten
  <2>3. CASE e = pusher[k].at
    <3>1. <<e, k>> \in refusals' \/ again
      BY <2>3
    <3>2. again => pusher'[k].retry
      BY <1>2, <1>3
    <3> QED BY <3>1, <3>2 DEF Tells
  <2>4. CASE e # pusher[k].at
    <3>1. Tells(e, k) => Tells(e, k)'
      BY <1>2, <1>3, <1>4, <2>4 DEF Tells, AtRow, Delivers
    <3> QED BY <2>2, <3>1
  <2> QED BY <2>3, <2>4
<1>9. WorkerInv(k)'
  BY <1>6, <1>7, <1>8 DEF WorkerInv
<1>10. pusher[k].pc # "idle" /\ refusals \subseteq refusals'
  BY DEF AtRow
<1> QED BY <1>1, <1>2, <1>4, <1>9, <1>10, WorkerWorks

LEMMA FaultKept == ASSUME PushInv, NEW k \in Kinds, DeliveryFault(k) PROVE PushInv'
<1> USE WorkerFacts
<1>1. CASE Failed(k)
  <2>1. /\ RowDone(k, TRUE) /\ AtRow(k) /\ pushFaults < MaxPushFaults /\ pushFaults' = pushFaults + 1
        /\ UNCHANGED <<feed, lastEvent, untold, subs, running, dirty, deliveryLock, browser, seen, baseline, refusals>>
    BY <1>1 DEF Failed, Disturb, AtRow
  <2> QED BY <2>1, RowFinished
<1>2. CASE Refused(k)
  <2>1. /\ RowDone(k, FALSE) /\ AtRow(k) /\ pushFaults < MaxPushFaults /\ pushFaults' = pushFaults + 1
        /\ refusals' = refusals \cup {<<pusher[k].at, k>>}
        /\ UNCHANGED <<feed, lastEvent, untold, subs, running, dirty, deliveryLock, browser, seen, baseline>>
    BY <1>2 DEF Refused, Disturb, AtRow
  <2> QED BY <2>1, RowFinished
<1>3. CASE Timeout(k)
  <2> DEFINE next == [pusher[k] EXCEPT !.rows = {}, !.retry = TRUE]
  <2>1. /\ pusher[k].pc = "loop" /\ pushFaults < MaxPushFaults /\ pushFaults' = pushFaults + 1
        /\ pusher' = [pusher EXCEPT ![k] = next]
        /\ UNCHANGED <<feed, lastEvent, untold, subs, running, dirty, deliveryLock, browser, seen, baseline, refusals>>
    BY <1>3 DEF Timeout, Disturb
  <2>2. next \in Pushers /\ next.pc = "loop" /\ next.rows = {} /\ next.attempt = pusher[k].attempt /\ next.retry = TRUE
    <3> HIDE WorkerFacts
    <3>1. pusher[k] \in Pushers
      BY WorkerFacts
    <3> QED BY <2>1, <3>1 DEF Pushers, PusherPlaces
  <2> HIDE DEF next
  <2>3. pusher'[k] = next
    BY <2>1
  <2>4. Delivers(k) /\ ~AtRow(k)'
    BY <2>1, <2>2, <2>3 DEF Delivers, AtRow
  <2>5. KnowsRows(k)' /\ KnowsPush(k)'
    BY <2>2, <2>3, <2>4 DEF KnowsRows, KnowsPush
  <2>6. pusher[k].attempt <= pushFaults
    BY DEF PushInv, WorkerInv, AttemptsPaid
  <2>7. AttemptsPaid(k)'
    BY <2>1, <2>2, <2>3, <2>6 DEF AttemptsPaid
  <2>8. NobodyForgotten(k)'
    BY <2>2, <2>3 DEF NobodyForgotten, Tells
  <2>9. WorkerInv(k)'
    BY <2>5, <2>7, <2>8 DEF WorkerInv
  <2> QED BY <2>1, <2>2, <2>4, <2>9, WorkerWorks
<1> QED BY <1>1, <1>2, <1>3 DEF DeliveryFault

LEMMA StaleKept == ASSUME PushInv, NEW k \in Kinds, Stale(k) PROVE PushInv'
<1> USE WorkerFacts
<1> DEFINE next == [pusher[k] EXCEPT !.pc = "drop"]
<1>1. /\ pusher[k].pc = "send" /\ pusher' = [pusher EXCEPT ![k] = next]
      /\ pushFaults' = pushFaults \/ (pushFaults < MaxPushFaults /\ pushFaults' = pushFaults + 1)
      /\ UNCHANGED <<feed, lastEvent, untold, subs, running, dirty, deliveryLock, browser, seen, baseline, refusals>>
  BY DEF Stale, Disturb
<1>2. /\ next \in Pushers /\ next.pc = "drop" /\ next.rows = pusher[k].rows /\ next.at = pusher[k].at
      /\ next.key = pusher[k].key /\ next.from = pusher[k].from /\ next.upto = pusher[k].upto
      /\ next.attempt = pusher[k].attempt /\ next.retry = pusher[k].retry
  BY DEF Pushers, PusherPlaces
<1> HIDE DEF next
<1>3. pusher'[k] = next
  BY <1>1
<1>4. Delivers(k) /\ Delivers(k)' /\ AtRow(k) /\ AtRow(k)' /\ pushFaults <= pushFaults' /\ pushFaults' \in Nat
  BY <1>1, <1>2, <1>3 DEF Delivers, AtRow
<1>5. pusher[k].attempt < pushFaults => pusher[k].attempt < pushFaults'
  BY <1>4
<1>6. ASSUME NEW r, KnowsRow(k, r) PROVE KnowsRow(k, r)'
  BY <1>1, <1>2, <1>3, <1>5, <1>6 DEF KnowsRow, Subscribed
<1>7. CurrentRow(k)' = CurrentRow(k)
  BY <1>2, <1>3 DEF CurrentRow
<1>8. KnowsRows(k)'
  <2>1. KnowsRow(k, CurrentRow(k))' 
    BY <1>2, <1>3, <1>4, <1>6, <1>7 DEF PushInv, WorkerInv, KnowsRows, KnowsRow, CurrentRow
  <2> QED BY <1>2, <1>3, <1>4, <1>6, <2>1 DEF PushInv, WorkerInv, KnowsRows
<1>9. KnowsPush(k)'
  BY <1>1, <1>2, <1>3, <1>4 DEF PushInv, WorkerInv, KnowsPush
<1>10. AttemptsPaid(k)'
  BY <1>1, <1>2, <1>3, <1>4, <1>5 DEF PushInv, WorkerInv, AttemptsPaid
<1>11. NobodyForgotten(k)'
  <2>1. \A e \in Endpoints : BehindNow(e, k)' => BehindNow(e, k)
    BY <1>1 DEF BehindNow, EventsAfter, Subscribed
  <2>2. \A e \in Endpoints : Tells(e, k) => Tells(e, k)'
    BY <1>1, <1>2, <1>3, <1>4 DEF Tells
  <2> QED BY <1>1, <2>1, <2>2 DEF PushInv, WorkerInv, NobodyForgotten
<1>12. WorkerInv(k)'
  BY <1>8, <1>9, <1>10, <1>11 DEF WorkerInv
<1> QED BY <1>1, <1>2, <1>4, <1>12, WorkerWorks

LEMMA DeliveredKept == ASSUME PushInv, NEW k \in Kinds, Delivered(k) PROVE PushInv'
<1> USE WorkerFacts
<1> DEFINE next == [pusher[k] EXCEPT !.pc = "decide"]
<1>1. /\ pusher[k].pc = "loop" /\ pusher[k].rows = {} /\ pusher' = [pusher EXCEPT ![k] = next] /\ deliveryLock' = "free"
      /\ UNCHANGED <<feed, lastEvent, untold, subs, running, dirty, browser, seen, baseline, pushFaults, refusals>>
  BY DEF Delivered
<1>2. /\ next \in Pushers /\ next.pc = "decide" /\ next.rows = {}
      /\ next.attempt = pusher[k].attempt /\ next.retry = pusher[k].retry
  BY <1>1 DEF Pushers, PusherPlaces
<1> HIDE DEF next
<1>3. pusher'[k] = next
  BY <1>1
<1>4. Delivers(k) /\ ~AtRow(k) /\ ~AtRow(k)'
  BY <1>1, <1>2, <1>3 DEF Delivers, AtRow
<1>5. KnowsRows(k)' /\ KnowsPush(k)'
  BY <1>2, <1>3, <1>4 DEF KnowsRows, KnowsPush
<1>6. AttemptsPaid(k)'
  BY <1>1, <1>2, <1>3 DEF PushInv, WorkerInv, AttemptsPaid
<1>7. NobodyForgotten(k)'
  <2>1. \A e \in Endpoints : BehindNow(e, k)' => BehindNow(e, k)
    BY <1>1 DEF BehindNow, EventsAfter, Subscribed
  <2>2. \A e \in Endpoints : Tells(e, k) => Tells(e, k)'
    BY <1>1, <1>2, <1>3, <1>4 DEF Tells
  <2> QED BY <1>1, <2>1, <2>2 DEF PushInv, WorkerInv, NobodyForgotten
<1>8. WorkerInv(k)'
  BY <1>5, <1>6, <1>7 DEF WorkerInv
<1> QED BY <1>1, <1>2, <1>4, <1>8, WorkerWorks

\* The worker stands at a row and goes on with it, in another place.
LEMMA RowGoesOn ==
    ASSUME PushInv, NEW k \in Kinds, AtRow(k), AtRow(k)', UNCHANGED <<feed, lastEvent, untold, subs, dirty, browser, pushFaults, refusals>>,
           pusher'[k].rows = pusher[k].rows, pusher'[k].at = pusher[k].at, pusher'[k].key = pusher[k].key,
           pusher'[k].from = pusher[k].from, pusher'[k].upto = pusher[k].upto,
           pusher'[k].attempt = pusher[k].attempt, pusher'[k].retry = pusher[k].retry
    PROVE  KnowsRows(k)' /\ AttemptsPaid(k)' /\ NobodyForgotten(k)'
<1>0. Delivers(k)'
  BY DEF Delivers, AtRow
<1>1. ASSUME NEW r, KnowsRow(k, r) PROVE KnowsRow(k, r)'
  BY <1>1 DEF KnowsRow, Subscribed
<1>2. CurrentRow(k)' = CurrentRow(k)
  BY DEF CurrentRow
<1>3. KnowsRow(k, CurrentRow(k))'
  BY <1>1, <1>2 DEF PushInv, WorkerInv, KnowsRows, KnowsRow
<1>4. KnowsRows(k)'
  BY <1>0, <1>1, <1>3 DEF PushInv, WorkerInv, KnowsRows
<1>5. AttemptsPaid(k)'
  BY DEF PushInv, WorkerInv, AttemptsPaid, AtRow
<1>6. NobodyForgotten(k)'
  <2>1. \A e \in Endpoints : BehindNow(e, k)' => BehindNow(e, k)
    BY DEF BehindNow, EventsAfter, Subscribed
  <2>2. \A e \in Endpoints : Tells(e, k) => Tells(e, k)'
    BY DEF Tells, AtRow
  <2> QED BY <2>1, <2>2 DEF PushInv, WorkerInv, NobodyForgotten
<1> QED BY <1>4, <1>5, <1>6

LEMMA AcceptedKept == ASSUME PushInv, NEW k \in Kinds, Accepted(k) PROVE PushInv'
<1> USE WorkerFacts
<1> DEFINE next == [pusher[k] EXCEPT !.pc = "advance"]
<1> DEFINE at == pusher[k].at
<1> DEFINE shown == {id \in 1..pusher[k].upto : id > pusher[k].from}
<1>1. /\ pusher[k].pc = "send" /\ pusher' = [pusher EXCEPT ![k] = next]
      /\ seen' = IF browser[at] = pusher[k].key THEN [seen EXCEPT ![at][k] = @ \cup shown] ELSE seen
      /\ UNCHANGED <<feed, lastEvent, untold, subs, running, dirty, deliveryLock, browser, baseline, pushFaults, refusals>>
  BY DEF Accepted
<1>2. /\ next \in Pushers /\ next.pc = "advance" /\ next.rows = pusher[k].rows /\ next.at = pusher[k].at
      /\ next.key = pusher[k].key /\ next.from = pusher[k].from /\ next.upto = pusher[k].upto
      /\ next.attempt = pusher[k].attempt /\ next.retry = pusher[k].retry
  BY DEF Pushers, PusherPlaces
<1> HIDE DEF next
<1>3. pusher'[k] = next
  BY <1>1
<1>4. Delivers(k) /\ AtRow(k) /\ AtRow(k)'
  BY <1>1, <1>2, <1>3 DEF Delivers, AtRow
<1>5. at \in Endpoints /\ shown \subseteq Nat
  BY <1>4 DEF PushInv, WorkerInv, KnowsRows
<1>6. seen \in [Endpoints -> [Kinds -> SUBSET Nat]]
  BY DEF PushInv, BrowserTypes
<1> HIDE DEF at, shown
<1>7. /\ seen' \in [Endpoints -> [Kinds -> SUBSET Nat]]
      /\ \A e \in Endpoints, j \in Kinds : seen[e][j] \subseteq seen'[e][j]
      /\ browser[at] = pusher[k].key => shown \subseteq seen'[at][k]
  <2>1. CASE browser[at] = pusher[k].key
    <3>1. seen' = [seen EXCEPT ![at] = [seen[at] EXCEPT ![k] = seen[at][k] \cup shown]]
      BY <1>1, <1>5, <1>6, <2>1
    <3>2. seen[at][k] \cup shown \in SUBSET Nat /\ seen[at] \in [Kinds -> SUBSET Nat]
      <4>1. seen[at] \in [Kinds -> SUBSET Nat]
        BY <1>5, <1>6
      <4>2. seen[at][k] \subseteq Nat
        BY <4>1
      <4> QED BY <1>5, <4>1, <4>2
    <3>3. [seen[at] EXCEPT ![k] = seen[at][k] \cup shown] \in [Kinds -> SUBSET Nat]
      BY <3>2
    <3>4. seen' \in [Endpoints -> [Kinds -> SUBSET Nat]]
      BY <1>6, <3>1, <3>3
    <3>5. \A e \in Endpoints, j \in Kinds :
             seen'[e][j] = IF e = at /\ j = k THEN seen[at][k] \cup shown ELSE seen[e][j]
      BY <1>5, <1>6, <3>1, <3>2
    <3> QED BY <1>5, <3>4, <3>5
  <2>2. CASE browser[at] # pusher[k].key
    BY <1>1, <1>6, <2>2
  <2> QED BY <2>1, <2>2
<1>8. BrowserTypes' /\ RowsFollow' /\ CursorCovered'
  BY <1>1, <1>7 DEF PushInv, BrowserTypes, RowsFollow, CursorCovered, Subscribed
<1>9. KnowsPush(k)'
  <2>1. browser[at] = pusher[k].key => \A id \in 1..pusher[k].upto : id > pusher[k].from => id \in seen'[at][k]
    BY <1>7 DEF shown
  <2>2. /\ pusher[k].from < pusher[k].upto /\ pusher[k].upto <= lastEvent[k]
        /\ \A id \in feed[k] : id > pusher[k].upto => k \in untold \/ dirty[k]
    BY <1>4 DEF PushInv, WorkerInv, KnowsPush
  <2>3. /\ pusher'[k].at = at /\ pusher'[k].key = pusher[k].key /\ pusher'[k].from = pusher[k].from
        /\ pusher'[k].upto = pusher[k].upto /\ browser' = browser
    BY <1>1, <1>2, <1>3 DEF at
  <2> QED BY <1>1, <2>1, <2>2, <2>3 DEF KnowsPush
<1>10. KnowsRows(k)' /\ AttemptsPaid(k)' /\ NobodyForgotten(k)'
  BY <1>1, <1>2, <1>3, <1>4, RowGoesOn
<1>11. WorkerInv(k)'
  BY <1>9, <1>10 DEF WorkerInv
<1>12. UNCHANGED <<feed, lastEvent, untold, running, dirty, deliveryLock, browser, pushFaults, refusals>>
  BY <1>1
<1>13. \A j \in Kinds \ {k} : /\ running'[j] = running[j] /\ dirty'[j] = dirty[j]
                              /\ deliveryLock' = j <=> deliveryLock = j
                              /\ j \in untold => j \in untold'
  BY <1>12
<1>14. running' \in [Kinds -> BOOLEAN] /\ dirty' \in [Kinds -> BOOLEAN] /\ untold' \subseteq Kinds
       /\ pushFaults' \in Nat /\ pushFaults <= pushFaults' /\ pushFaults' <= MaxPushFaults /\ refusals \subseteq refusals'
  BY <1>12
<1>15. running'[k] <=> next.pc # "idle"
  BY <1>1, <1>2
<1>16. deliveryLock' = k <=> next.pc \in {"loop", "send", "advance", "drop"}
  BY <1>1, <1>2, <1>4 DEF Delivers
<1>17. \A j \in Kinds \ {k}, e \in Endpoints :
               \/ /\ subs'[e] # NoSub <=> subs[e] # NoSub
                  /\ subs'[e].key = subs[e].key
                  /\ subs[e] # NoSub => subs'[e].cursor[j] = subs[e].cursor[j]
               \/ /\ subs'[e] = NoSub
                  /\ ~Delivers(j)
  BY <1>1
<1>18. deliveryLock' \in Kinds \cup {"free"} /\ UNCHANGED <<feed, lastEvent, browser>>
  BY <1>1
<1> HIDE WorkerFacts
<1> QED BY <1>1, <1>2, <1>7, <1>8, <1>11, <1>12, <1>13, <1>14, <1>15, <1>16, <1>17, <1>18, WorkerMoves

\* A worker that finishes its row having left it alone, moved its cursor past all
\* that nobody else will announce, or removed it.
LEMMA RowConcluded ==
    ASSUME PushInv, NEW k \in Kinds, NEW again \in BOOLEAN, RowDone(k, again), AtRow(k),
           UNCHANGED <<feed, lastEvent, untold, running, dirty, deliveryLock, browser, seen, baseline, pushFaults, refusals>>,
           BrowserTypes', RowsFollow', CursorCovered',
           \A e \in Endpoints : e # pusher[k].at => subs'[e] = subs[e],
           \/ again /\ pusher[k].attempt < pushFaults /\ subs' = subs
           \/ subs'[pusher[k].at] = NoSub
           \/ /\ subs'[pusher[k].at] # NoSub /\ subs[pusher[k].at] # NoSub
              /\ subs'[pusher[k].at].key = subs[pusher[k].at].key
              /\ \A j \in Kinds \ {k} : subs'[pusher[k].at].cursor[j] = subs[pusher[k].at].cursor[j]
              /\ \A e \in Endpoints : e = pusher[k].at /\ BehindNow(e, k)' => k \in untold \/ dirty[k],
           again => pusher[k].attempt < pushFaults
    PROVE  PushInv'
<1> DEFINE next == [IdlePusher EXCEPT !.pc = "loop", !.rows = pusher[k].rows,
                       !.retry = pusher[k].retry \/ again, !.attempt = pusher[k].attempt]
<1> DEFINE at == pusher[k].at
<1>1. pusher' = [pusher EXCEPT ![k] = next]
  BY DEF RowDone
<1>2. /\ next \in Pushers /\ next.pc = "loop" /\ next.rows = pusher[k].rows /\ next.attempt = pusher[k].attempt
      /\ next.retry = (pusher[k].retry \/ again)
  BY WorkerFacts DEF IdlePusher, Pushers, PusherPlaces
<1> HIDE DEF next
<1>3. pusher'[k] = next
  BY <1>1, WorkerFacts
<1>4. Delivers(k) /\ Delivers(k)' /\ ~AtRow(k)' /\ at \in Endpoints
  BY <1>2, <1>3 DEF Delivers, AtRow, PushInv, WorkerInv, KnowsRows
<1>5. \A r \in pusher[k].rows : KnowsRow(k, r)'
  <2>1. \A r \in pusher[k].rows : KnowsRow(k, r) /\ r.at # at /\ r.at \in Endpoints
    BY WorkerFacts DEF PushInv, WorkerInv, KnowsRows, ListedRows
  <2>2. \A r \in pusher[k].rows : subs'[r.at] = subs[r.at]
    BY <2>1
  <2>3. pusher'[k].attempt = pusher[k].attempt
    BY <1>2, <1>3
  <2> QED BY <2>1, <2>2, <2>3 DEF KnowsRow, Subscribed
<1>6. KnowsRows(k)' /\ KnowsPush(k)'
  BY <1>2, <1>3, <1>4, <1>5 DEF PushInv, WorkerInv, KnowsRows, KnowsPush
<1>7. AttemptsPaid(k)'
  <2>1. pusher[k].attempt <= pushFaults /\ (pusher[k].retry => pusher[k].attempt < pushFaults)
    BY DEF PushInv, WorkerInv, AttemptsPaid, AtRow
  <2> QED BY <1>2, <1>3, <2>1 DEF AttemptsPaid
<1>8. NobodyForgotten(k)'
  <2> SUFFICES ASSUME MaxPushFaults <= PushMaxRetryAttempts, NEW e \in Endpoints, BehindNow(e, k)'
               PROVE  <<e, k>> \in refusals' \/ Tells(e, k)'
    BY DEF NobodyForgotten
  <2>1. CASE e = at
    <3>1. subs'[at] # NoSub
      BY <2>1 DEF BehindNow, Subscribed
    <3>2. again \/ k \in untold \/ dirty[k]
      BY <2>1, <3>1
    <3>3. again => pusher'[k].retry
      BY <1>2, <1>3
    <3> QED BY <3>2, <3>3 DEF Tells
  <2>2. CASE e # at
    <3>1. subs'[e] = subs[e]
      BY <2>2
    <3>2. BehindNow(e, k)
      BY <3>1 DEF BehindNow, EventsAfter, Subscribed
    <3>3. <<e, k>> \in refusals \/ Tells(e, k)
      BY <3>2 DEF PushInv, WorkerInv, NobodyForgotten
    <3>4. Tells(e, k) => Tells(e, k)'
      BY <1>2, <1>3, <1>4, <2>2 DEF Tells, AtRow, Delivers
    <3> QED BY <3>3, <3>4
  <2> QED BY <2>1, <2>2
<1>9. WorkerInv(k)'
  BY <1>6, <1>7, <1>8 DEF WorkerInv
<1>10. \A j \in Kinds \ {k}, e \in Endpoints :
               \/ /\ subs'[e] # NoSub <=> subs[e] # NoSub
                  /\ subs'[e].key = subs[e].key
                  /\ subs[e] # NoSub => subs'[e].cursor[j] = subs[e].cursor[j]
               \/ /\ subs'[e] = NoSub
                  /\ ~Delivers(j)
  <2> SUFFICES ASSUME NEW j \in Kinds \ {k}, NEW e \in Endpoints
               PROVE  \/ /\ subs'[e] # NoSub <=> subs[e] # NoSub
                         /\ subs'[e].key = subs[e].key
                         /\ subs[e] # NoSub => subs'[e].cursor[j] = subs[e].cursor[j]
                      \/ /\ subs'[e] = NoSub
                         /\ ~Delivers(j)
    OBVIOUS
  <2>1. ~Delivers(j)
    BY <1>4 DEF PushInv, WorkerTypes
  <2>2. CASE subs'[e] = subs[e]
    BY <2>2
  <2>3. CASE subs'[e] # subs[e]
    BY <2>1, <2>3
  <2> QED BY <2>2, <2>3
<1>11. /\ UNCHANGED <<feed, lastEvent, untold, running, dirty, deliveryLock, browser, seen, pushFaults, refusals>>
  OBVIOUS
<1>12. \A j \in Kinds \ {k} : /\ running'[j] = running[j] /\ dirty'[j] = dirty[j]
                              /\ deliveryLock' = j <=> deliveryLock = j
                              /\ j \in untold => j \in untold'
  BY <1>11
<1>13. running' \in [Kinds -> BOOLEAN] /\ dirty' \in [Kinds -> BOOLEAN] /\ untold' \subseteq Kinds
       /\ pushFaults' \in Nat /\ pushFaults <= pushFaults' /\ pushFaults' <= MaxPushFaults /\ refusals \subseteq refusals'
  BY <1>11, WorkerFacts
<1>14. running'[k] <=> next.pc # "idle"
  BY <1>2, <1>4, <1>11, WorkerFacts DEF Delivers
<1>15. deliveryLock' = k <=> next.pc \in {"loop", "send", "advance", "drop"}
  BY <1>2, <1>4, <1>11, WorkerFacts DEF Delivers
<1>16. deliveryLock' \in Kinds \cup {"free"} /\ \A j \in Kinds \ {k}, e \in Endpoints : seen[e][j] \subseteq seen'[e][j]
  BY <1>11, WorkerFacts
<1> QED BY <1>1, <1>2, <1>9, <1>10, <1>11, <1>12, <1>13, <1>14, <1>15, <1>16, WorkerMoves

LEMMA AdvanceKept == ASSUME PushInv, NEW k \in Kinds, Advance(k) PROVE PushInv'
<1> DEFINE at == pusher[k].at
<1> DEFINE upto == pusher[k].upto
<1>1. /\ pusher[k].pc = "advance" /\ RowDone(k, ~MayAdvance(k))
      /\ subs' = IF MayAdvance(k) THEN [subs EXCEPT ![at].cursor[k] = upto] ELSE subs
      /\ UNCHANGED <<feed, lastEvent, untold, running, dirty, deliveryLock, browser, seen, baseline, pushFaults, refusals>>
  BY DEF Advance
<1>2. AtRow(k) /\ at \in Endpoints /\ upto \in Nat /\ upto <= lastEvent[k] /\ pusher[k].from < upto
  BY <1>1, WorkerFacts DEF AtRow, PushInv, WorkerInv, KnowsRows, KnowsPush
<1>3. /\ pusher[k].key # 0 /\ pusher[k].key \in Nat
      /\ subs[at].key = pusher[k].key => subs[at].cursor[k] = pusher[k].from
      /\ subs[at].key # pusher[k].key => pusher[k].attempt < pushFaults
  BY <1>2, WorkerFacts DEF PushInv, WorkerInv, KnowsRows, KnowsRow, CurrentRow
<1>4. subs \in [Endpoints -> {NoSub} \cup Subscriptions]
  BY DEF PushInv, BrowserTypes
<1>5. CASE MayAdvance(k)
  <2>1. subs[at] \in Subscriptions /\ subs[at].key = pusher[k].key /\ Subscribed(at)
    BY <1>2, <1>4, <1>5 DEF MayAdvance, SameKeys, Subscribed
  <2> DEFINE new == [subs[at] EXCEPT !.cursor[k] = upto]
  <2>2. subs' = [subs EXCEPT ![at] = new]
    BY <1>1, <1>2, <1>4, <1>5
  <2>3. /\ new \in Subscriptions /\ new.key = subs[at].key /\ new.cursor[k] = upto
        /\ \A j \in Kinds \ {k} : new.cursor[j] = subs[at].cursor[j]
    BY <1>2, <2>1 DEF Subscriptions
  <2>4. new # NoSub
    BY <2>3, RowIsSubscription
  <2> HIDE DEF new
  <2>5. /\ subs'[at] = new /\ \A e \in Endpoints : e # at => subs'[e] = subs[e]
        /\ subs' \in [Endpoints -> {NoSub} \cup Subscriptions]
    BY <1>2, <1>4, <2>2, <2>3
  <2>6. BrowserTypes'
    BY <1>1, <2>5 DEF PushInv, BrowserTypes
  <2>7. RowsFollow'
    <3> SUFFICES ASSUME NEW e \in Endpoints, Subscribed(e)'
                 PROVE  subs'[e].key = browser[e] /\ \A j \in Kinds : subs'[e].cursor[j] <= lastEvent[j]
      BY <1>1 DEF RowsFollow
    <3>1. CASE e = at
      <4>1. subs[at].key = browser[at] /\ \A j \in Kinds : subs[at].cursor[j] <= lastEvent[j]
        BY <1>2, <2>1 DEF PushInv, RowsFollow
      <4> QED BY <1>2, <2>3, <2>5, <3>1, <4>1
    <3>2. CASE e # at
      BY <2>5, <3>2 DEF PushInv, RowsFollow, Subscribed
    <3> QED BY <3>1, <3>2
  <2>8. CursorCovered'
    <3> SUFFICES ASSUME NEW e \in Endpoints, NEW j \in Kinds, Subscribed(e)', NEW id \in feed[j],
                        baseline[e][j] < id, id <= subs'[e].cursor[j]
                 PROVE  id \in seen[e][j]
      BY <1>1 DEF CursorCovered
    <3>1. CASE e = at /\ j = k
      <4>1. id <= upto /\ id \in Nat /\ 1 <= id
        BY <2>3, <2>5, <3>1 DEF PushInv, FeedTypes
      <4>2. CASE id <= pusher[k].from
        BY <1>2, <1>3, <2>1, <3>1, <4>2 DEF PushInv, CursorCovered
      <4>3. CASE id > pusher[k].from
        <5>1. browser[at] = pusher[k].key
          BY <1>2, <2>1 DEF PushInv, RowsFollow
        <5>2. id \in 1..upto
          BY <1>2, <4>1
        <5> QED BY <1>1, <1>2, <3>1, <4>3, <5>1, <5>2 DEF PushInv, WorkerInv, KnowsPush
      <4> QED BY <4>1, <4>2, <4>3, WorkerFacts
    <3>2. CASE ~(e = at /\ j = k)
      <4>1. Subscribed(e) /\ subs'[e].cursor[j] = subs[e].cursor[j]
        BY <2>1, <2>3, <2>5, <3>2 DEF Subscribed
      <4> QED BY <4>1 DEF PushInv, CursorCovered
    <3> QED BY <3>1, <3>2
  <2>9. \A e \in Endpoints : e = at /\ BehindNow(e, k)' => k \in untold \/ dirty[k]
    <3> SUFFICES ASSUME NEW e \in Endpoints, e = at, BehindNow(e, k)' PROVE k \in untold \/ dirty[k]
      OBVIOUS
    <3>1. PICK id \in feed[k] : id > subs'[e].cursor[k]
      BY <1>1 DEF BehindNow, EventsAfter
    <3>2. id > upto
      BY <2>3, <2>5, <3>1
    <3> QED BY <1>2, <3>1, <3>2 DEF PushInv, WorkerInv, KnowsPush
  <2>10. RowDone(k, FALSE) /\ subs'[at] # NoSub /\ subs[at] # NoSub
    BY <1>1, <1>5, <2>1, <2>4, <2>5 DEF RowDone, Subscribed
  <2> QED BY <1>1, <1>2, <2>3, <2>5, <2>6, <2>7, <2>8, <2>9, <2>10, RowConcluded
<1>6. CASE ~MayAdvance(k)
  <2>1. subs' = subs /\ RowDone(k, TRUE)
    BY <1>1, <1>6 DEF RowDone
  <2>2. pusher[k].attempt < pushFaults
    <3>1. subs[at].key = pusher[k].key => Subscribed(at)
      BY <1>3 DEF Subscribed, NoSub
    <3> QED BY <1>2, <1>3, <1>6, <3>1 DEF MayAdvance, SameKeys
  <2>3. BrowserTypes' /\ RowsFollow' /\ CursorCovered'
    BY <1>1, <2>1 DEF PushInv, BrowserTypes, RowsFollow, CursorCovered, Subscribed
  <2> QED BY <1>1, <1>2, <2>1, <2>2, <2>3, RowConcluded
<1> QED BY <1>5, <1>6

LEMMA DropStaleKept == ASSUME PushInv, NEW k \in Kinds, DropStale(k) PROVE PushInv'
<1> DEFINE at == pusher[k].at
<1>1. /\ pusher[k].pc = "drop" /\ RowDone(k, ~MayDrop(k))
      /\ subs' = IF MayDrop(k) THEN [subs EXCEPT ![at] = NoSub] ELSE subs
      /\ UNCHANGED <<feed, lastEvent, untold, running, dirty, deliveryLock, browser, seen, baseline, pushFaults, refusals>>
  BY DEF DropStale
<1>2. AtRow(k) /\ at \in Endpoints
  BY <1>1 DEF AtRow, PushInv, WorkerInv, KnowsRows
<1>3. subs \in [Endpoints -> {NoSub} \cup Subscriptions]
  BY DEF PushInv, BrowserTypes
<1>4. CASE MayDrop(k)
  <2>1. /\ subs'[at] = NoSub /\ \A e \in Endpoints : e # at => subs'[e] = subs[e]
        /\ subs' \in [Endpoints -> {NoSub} \cup Subscriptions]
    BY <1>1, <1>2, <1>3, <1>4
  <2>2. \A e \in Endpoints : Subscribed(e)' => Subscribed(e) /\ subs'[e] = subs[e]
    BY <2>1 DEF Subscribed
  <2>3. BrowserTypes' /\ RowsFollow' /\ CursorCovered'
    BY <1>1, <2>1, <2>2 DEF PushInv, BrowserTypes, RowsFollow, CursorCovered
  <2>4. RowDone(k, FALSE)
    BY <1>1, <1>4 DEF RowDone
  <2> QED BY <1>1, <1>2, <2>1, <2>3, <2>4, RowConcluded
<1>5. CASE ~MayDrop(k)
  <2>1. subs' = subs /\ RowDone(k, TRUE)
    BY <1>1, <1>5 DEF RowDone
  <2>2. pusher[k].attempt < pushFaults
    <3>1. KnowsRow(k, CurrentRow(k)) /\ CurrentRow(k).at = at /\ CurrentRow(k).key = pusher[k].key
      BY <1>2 DEF PushInv, WorkerInv, KnowsRows, CurrentRow
    <3>2. subs[at].key = pusher[k].key => Subscribed(at)
      BY <3>1 DEF Subscribed, NoSub, KnowsRow
    <3> QED BY <1>5, <3>1, <3>2 DEF MayDrop, SameKeys, KnowsRow
  <2>3. BrowserTypes' /\ RowsFollow' /\ CursorCovered'
    BY <1>1, <2>1 DEF PushInv, BrowserTypes, RowsFollow, CursorCovered, Subscribed
  <2> QED BY <1>1, <1>2, <2>1, <2>2, <2>3, RowConcluded
<1> QED BY <1>4, <1>5

LEMMA DecideKept == ASSUME PushInv, NEW k \in Kinds, Decide(k) PROVE PushInv'
<1>1. /\ pusher[k].pc = "decide"
      /\ UNCHANGED <<feed, lastEvent, untold, subs, deliveryLock, browser, seen, baseline, pushFaults, refusals>>
  BY DEF Decide
<1>2. pusher[k].rows = {} /\ ~AtRow(k) /\ ~Delivers(k)
  BY <1>1 DEF PushInv, WorkerInv, KnowsRows, Delivers, AtRow
<1>3. pusher[k].attempt <= pushFaults /\ (pusher[k].retry => pusher[k].attempt < pushFaults)
  BY <1>1 DEF PushInv, WorkerInv, AttemptsPaid
<1>4. /\ IdlePusher \in Pushers /\ IdlePusher.pc = "idle" /\ IdlePusher.rows = {} /\ ~IdlePusher.retry /\ IdlePusher.attempt = 0
  BY DEF IdlePusher, Pushers, PusherPlaces
<1>5. ASSUME NEW next \in Pushers, next.pc = "start", next.rows = {}, ~next.retry, next.attempt <= pushFaults,
             pusher' = [pusher EXCEPT ![k] = next],
             dirty' = dirty \/ dirty' = [dirty EXCEPT ![k] = FALSE], UNCHANGED running
      PROVE  PushInv'
  <2>1. pusher'[k] = next
    BY <1>5, WorkerFacts
  <2>2. ~AtRow(k)'
    BY <1>5, <2>1 DEF AtRow
  <2>3. KnowsRows(k)' /\ KnowsPush(k)'
    BY <1>5, <2>1, <2>2 DEF KnowsRows, KnowsPush
  <2>4. AttemptsPaid(k)'
    BY <1>1, <1>5, <2>1 DEF AttemptsPaid
  <2>5. NobodyForgotten(k)'
    BY <1>5, <2>1 DEF NobodyForgotten, Tells
  <2>6. WorkerInv(k)'
    BY <2>3, <2>4, <2>5 DEF WorkerInv
  <2> QED BY <1>1, <1>2, <1>5, <2>6, WorkerWorks
<1>6. CASE Again(k)
  <2> DEFINE next == [IdlePusher EXCEPT !.pc = "start"]
  <2>1. next \in Pushers /\ next.pc = "start" /\ next.rows = {} /\ ~next.retry /\ next.attempt = 0
    BY DEF IdlePusher, Pushers, PusherPlaces
  <2>2. pusher' = [pusher EXCEPT ![k] = next] /\ dirty' = [dirty EXCEPT ![k] = FALSE] /\ UNCHANGED running
    BY <1>6 DEF Decide, ClearDirty
  <2>3. next.attempt <= pushFaults
    BY <2>1, WorkerFacts
  <2> HIDE DEF next
  <2> QED BY <1>5, <2>1, <2>2, <2>3
<1>7. CASE ~Again(k) /\ Retry(k)
  <2> DEFINE next == [IdlePusher EXCEPT !.pc = "start", !.attempt = pusher[k].attempt + 1]
  <2>1. pusher' = [pusher EXCEPT ![k] = next] /\ UNCHANGED <<running, dirty>>
    BY <1>7 DEF Decide
  <2>2. pusher[k].attempt + 1 \in Nat /\ pusher[k].attempt + 1 <= pushFaults
    BY <1>3, <1>7, WorkerFacts DEF Retry
  <2>3. next \in Pushers /\ next.pc = "start" /\ next.rows = {} /\ ~next.retry /\ next.attempt <= pushFaults
    BY <2>2 DEF IdlePusher, Pushers, PusherPlaces
  <2> HIDE DEF next
  <2> QED BY <1>5, <2>1, <2>3
<1>8. CASE ~Again(k) /\ ~Retry(k)
  <2>1. /\ running' = [running EXCEPT ![k] = FALSE] /\ pusher' = [pusher EXCEPT ![k] = IdlePusher]
        /\ UNCHANGED dirty /\ ~dirty[k]
    BY <1>8 DEF Decide, Again
  <2>2. pusher'[k] = IdlePusher
    BY <2>1, WorkerFacts
  <2>3. ~AtRow(k)'
    BY <1>4, <2>2 DEF AtRow
  <2>4. KnowsRows(k)' /\ KnowsPush(k)'
    BY <1>4, <2>2, <2>3 DEF KnowsRows, KnowsPush
  <2>5. AttemptsPaid(k)'
    BY <1>1, <1>4, <2>1, <2>2, WorkerFacts DEF AttemptsPaid
  <2>6. NobodyForgotten(k)'
    <3> SUFFICES ASSUME MaxPushFaults <= PushMaxRetryAttempts, NEW e \in Endpoints, BehindNow(e, k)'
                 PROVE  <<e, k>> \in refusals' \/ Tells(e, k)'
      BY DEF NobodyForgotten
    <3>1. BehindNow(e, k)
      BY <1>1 DEF BehindNow, EventsAfter, Subscribed
    <3>2. <<e, k>> \in refusals \/ Tells(e, k)
      BY <3>1 DEF PushInv, WorkerInv, NobodyForgotten
    <3>3. ~pusher[k].retry
      BY <1>3, <1>8, WorkerFacts, PushAssumption DEF Retry
    <3>4. Tells(e, k) => k \in untold
      BY <1>1, <1>2, <2>1, <3>3 DEF Tells
    <3> QED BY <1>1, <3>2, <3>4 DEF Tells
  <2>7. WorkerInv(k)'
    BY <2>4, <2>5, <2>6 DEF WorkerInv
  <2>8. \A j \in Kinds \ {k} : /\ running'[j] = running[j] /\ dirty'[j] = dirty[j]
                               /\ deliveryLock' = j <=> deliveryLock = j
                               /\ j \in untold => j \in untold'
    BY <1>1, <2>1, WorkerFacts
  <2>9. running' \in [Kinds -> BOOLEAN] /\ dirty' \in [Kinds -> BOOLEAN] /\ untold' \subseteq Kinds
        /\ pushFaults' \in Nat /\ pushFaults <= pushFaults' /\ pushFaults' <= MaxPushFaults /\ refusals \subseteq refusals'
    BY <1>1, <2>1, WorkerFacts
  <2>10. (running'[k] <=> IdlePusher.pc # "idle") /\ deliveryLock' \in Kinds \cup {"free"}
    BY <1>1, <1>4, <2>1, WorkerFacts
  <2>11. deliveryLock' = k <=> IdlePusher.pc \in {"loop", "send", "advance", "drop"}
    BY <1>1, <1>2, <1>4, WorkerFacts DEF Delivers
  <2> QED BY <1>1, <1>4, <2>1, <2>7, <2>8, <2>9, <2>10, <2>11, WorkerMovesAlone
<1> QED BY <1>6, <1>7, <1>8

\* A feed gets an event; its caller has not told the worker yet.
LEMMA EventKept ==
    ASSUME PushInv, NEW k \in Kinds, lastEvent' = [lastEvent EXCEPT ![k] = @ + 1],
           feed' = [feed EXCEPT ![k] = @ \cup {lastEvent[k] + 1}], untold' = untold \cup {k},
           UNCHANGED <<subs, running, dirty, pusher, deliveryLock, browser, seen, baseline, pushFaults, refusals>>
    PROVE  PushInv'
<1> DEFINE id0 == lastEvent[k] + 1
<1>1. /\ lastEvent[k] \in Nat /\ lastEvent'[k] = id0 /\ \A j \in Kinds \ {k} : lastEvent'[j] = lastEvent[j] /\ feed'[j] = feed[j]
      /\ feed'[k] = feed[k] \cup {id0} /\ feed[k] \subseteq Nat /\ \A id \in feed[k] : 1 <= id /\ id <= lastEvent[k]
      /\ lastEvent' \in [Kinds -> Nat] /\ feed' \in [Kinds -> SUBSET Nat]
  BY DEF PushInv, FeedTypes
<1>2. FeedTypes'
  <2>1. \A j \in Kinds : \A id \in feed'[j] : 1 <= id /\ id <= lastEvent'[j]
    <3> SUFFICES ASSUME NEW j \in Kinds, NEW id \in feed'[j] PROVE 1 <= id /\ id <= lastEvent'[j]
      OBVIOUS
    <3>1. CASE j = k
      BY <1>1, <3>1
    <3>2. CASE j # k
      BY <1>1, <3>2 DEF PushInv, FeedTypes
    <3> QED BY <3>1, <3>2
  <2>2. untold' \subseteq Kinds
    BY WorkerFacts
  <2> QED BY <1>1, <2>1, <2>2 DEF FeedTypes
<1>3. WorkerTypes' /\ BrowserTypes'
  BY DEF PushInv, WorkerTypes, BrowserTypes, Delivers
<1>4. \A e \in Endpoints : Subscribed(e) => \A j \in Kinds : subs[e].cursor[j] \in Nat /\ subs[e].cursor[j] <= lastEvent[j]
  BY DEF PushInv, BrowserTypes, RowsFollow, Subscribed, Subscriptions
<1>5. RowsFollow'
  <2>1. \A j \in Kinds : lastEvent[j] \in Nat /\ lastEvent[j] <= lastEvent'[j] /\ lastEvent'[j] \in Nat
    BY <1>1 DEF PushInv, FeedTypes
  <2>2. ASSUME NEW e \in Endpoints, Subscribed(e), NEW j \in Kinds PROVE subs[e].cursor[j] <= lastEvent'[j]
    BY <1>4, <2>1, <2>2
  <2> QED BY <2>2 DEF PushInv, RowsFollow, Subscribed
<1>6. CursorCovered'
  <2> SUFFICES ASSUME NEW e \in Endpoints, NEW j \in Kinds, Subscribed(e), NEW id \in feed'[j],
                      baseline[e][j] < id, id <= subs[e].cursor[j]
               PROVE  id \in seen[e][j]
    BY DEF CursorCovered, Subscribed
  <2>1. id \in feed[j]
    BY <1>1, <1>4
  <2> QED BY <2>1 DEF PushInv, CursorCovered
<1>7. WorkerInv(k)'
  <2>1. ASSUME NEW r \in ListedRows, KnowsRow(k, r) PROVE KnowsRow(k, r)'
    <3>1. r.from <= lastEvent[k] /\ r.from \in Nat
      BY <2>1 DEF KnowsRow, ListedRows
    <3>2. Subscribed(r.at) => \A id \in feed'[k] : id > subs[r.at].cursor[k] => id > r.from
      BY <1>1, <2>1, <3>1 DEF KnowsRow
    <3>3. r.from <= lastEvent'[k]
      BY <1>1, <3>1
    <3> QED BY <2>1, <3>2, <3>3 DEF KnowsRow, Subscribed
  <2>2. AtRow(k) => CurrentRow(k) \in ListedRows
    BY WorkerFacts DEF PushInv, WorkerInv, KnowsRows, CurrentRow, ListedRows
  <2>3. CurrentRow(k)' = CurrentRow(k) /\ (AtRow(k)' <=> AtRow(k)) /\ (Delivers(k)' <=> Delivers(k))
    BY DEF CurrentRow, AtRow, Delivers
  <2>4. AtRow(k) => KnowsRow(k, CurrentRow(k))'
    <3>1. AtRow(k) => KnowsRow(k, CurrentRow(k))
      BY DEF PushInv, WorkerInv, KnowsRows
    <3>2. ASSUME AtRow(k) PROVE KnowsRow(k, CurrentRow(k))'
      <4>1. PICK r \in ListedRows : r = CurrentRow(k)
        BY <2>2, <3>2
      <4>2. KnowsRow(k, r)'
        BY <2>1, <3>1, <3>2, <4>1
      <4> QED BY <2>3, <4>1, <4>2 DEF KnowsRow
    <3> QED BY <3>2
  <2>5. KnowsRows(k)'
    BY <2>1, <2>3, <2>4, WorkerFacts DEF PushInv, WorkerInv, KnowsRows
  <2>6. KnowsPush(k)'
    <3>1. AtRow(k) => pusher[k].upto <= lastEvent'[k]
      BY <1>1, WorkerFacts DEF PushInv, WorkerInv, KnowsPush
    <3> QED BY <2>3, <3>1 DEF PushInv, WorkerInv, KnowsPush
  <2>7. AttemptsPaid(k)'
    BY DEF PushInv, WorkerInv, AttemptsPaid
  <2>8. NobodyForgotten(k)'
    BY DEF NobodyForgotten, Tells
  <2> QED BY <2>5, <2>6, <2>7, <2>8 DEF WorkerInv
<1>8. ASSUME NEW j \in Kinds \ {k} PROVE WorkerInv(j)'
  <2>1. feed'[j] \subseteq feed[j] /\ lastEvent'[j] = lastEvent[j]
    BY <1>1
  <2>2. pushFaults' \in Nat /\ pushFaults <= pushFaults'
    BY WorkerFacts
  <2> QED BY <1>3, <2>1, <2>2, WorkerUndisturbed
<1> QED BY <1>2, <1>3, <1>5, <1>6, <1>7, <1>8 DEF PushInv

LEMMA WithdrawKept == ASSUME PushInv, WithdrawReminder PROVE PushInv'
<1>1. PICK id \in feed["snooze"] : feed' = [feed EXCEPT !["snooze"] = @ \ {id}]
  BY DEF WithdrawReminder
<1>2. UNCHANGED <<lastEvent, untold, subs, running, dirty, pusher, deliveryLock, browser, seen, baseline, pushFaults, refusals>>
  BY DEF WithdrawReminder
<1>3. feed' \in [Kinds -> SUBSET Nat] /\ \A k \in Kinds : feed'[k] \subseteq feed[k]
  BY <1>1 DEF PushInv, FeedTypes
<1>4. FeedTypes'
  BY <1>2, <1>3 DEF PushInv, FeedTypes
<1>5. WorkerTypes' /\ BrowserTypes' /\ RowsFollow'
  BY <1>2 DEF PushInv, WorkerTypes, BrowserTypes, RowsFollow, Delivers, Subscribed
<1>6. CursorCovered'
  BY <1>2, <1>3 DEF PushInv, CursorCovered, Subscribed
<1>7. ASSUME NEW k \in Kinds PROVE WorkerInv(k)'
  <2>1. pushFaults' \in Nat /\ pushFaults <= pushFaults'
    BY <1>2, WorkerFacts
  <2> QED BY <1>2, <1>3, <1>5, <2>1, WorkerUndisturbed
<1> QED BY <1>4, <1>5, <1>6, <1>7 DEF PushInv

LEMMA UnsubscribeKept == ASSUME PushInv, NEW e \in Endpoints, Unsubscribe(e) PROVE PushInv'
<1>1. /\ subs' = [subs EXCEPT ![e] = NoSub] /\ pushFaults < MaxPushFaults /\ pushFaults' = pushFaults + 1
      /\ UNCHANGED <<feed, lastEvent, untold, running, dirty, pusher, deliveryLock, browser, seen, baseline, refusals>>
  BY DEF Unsubscribe, Disturb
<1>2. subs \in [Endpoints -> {NoSub} \cup Subscriptions]
  BY DEF PushInv, BrowserTypes
<1>3. /\ subs'[e] = NoSub /\ \A x \in Endpoints : x # e => subs'[x] = subs[x]
      /\ subs' \in [Endpoints -> {NoSub} \cup Subscriptions]
  BY <1>1, <1>2
<1>4. \A x \in Endpoints : Subscribed(x)' => Subscribed(x) /\ subs'[x] = subs[x]
  BY <1>3 DEF Subscribed
<1>5. FeedTypes' /\ BrowserTypes' /\ RowsFollow' /\ CursorCovered'
  BY <1>1, <1>3, <1>4 DEF PushInv, FeedTypes, BrowserTypes, RowsFollow, CursorCovered
<1>6. pushFaults' \in Nat /\ pushFaults < pushFaults' /\ pushFaults <= pushFaults' /\ pushFaults' <= MaxPushFaults
  <2>1. pushFaults \in Nat
    BY DEF PushInv, WorkerTypes
  <2> QED BY <1>1, <2>1, PushAssumption
<1>7. WorkerTypes'
  BY <1>1, <1>6 DEF PushInv, WorkerTypes, Delivers
<1>8. ASSUME NEW k \in Kinds PROVE WorkerInv(k)'
  <2>1. \A x \in Endpoints :
            \/ /\ subs'[x] # NoSub <=> subs[x] # NoSub
               /\ subs'[x].key = subs[x].key
               /\ subs[x] # NoSub => subs'[x].cursor[k] = subs[x].cursor[k]
            \/ /\ subs'[x] = NoSub
               /\ Delivers(k) => pushFaults < pushFaults'
    BY <1>3, <1>6
  <2> QED BY <1>1, <1>5, <1>6, <2>1, WorkerUndisturbed
<1> QED BY <1>5, <1>7, <1>8 DEF PushInv

LEMMA PushCrashKept == ASSUME PushInv, PushCrash PROVE PushInv'
<1>1. /\ untold' = Kinds /\ running' = [k \in Kinds |-> FALSE] /\ dirty' = [k \in Kinds |-> FALSE]
      /\ pusher' = [k \in Kinds |-> IdlePusher] /\ deliveryLock' = "free"
      /\ pushFaults < MaxPushFaults /\ pushFaults' = pushFaults + 1
      /\ UNCHANGED <<feed, lastEvent, subs, browser, seen, baseline, refusals>>
  BY DEF PushCrash, Disturb
<1>2. /\ IdlePusher \in Pushers /\ IdlePusher.pc = "idle" /\ IdlePusher.rows = {} /\ ~IdlePusher.retry /\ IdlePusher.attempt = 0
  BY DEF IdlePusher, Pushers, PusherPlaces
<1>3. \A k \in Kinds : pusher'[k] = IdlePusher /\ dirty'[k] = FALSE /\ running'[k] = FALSE
  BY <1>1
<1>4. \A k \in Kinds : ~Delivers(k)' /\ ~AtRow(k)'
  BY <1>2, <1>3 DEF Delivers, AtRow
<1>5. FeedTypes' /\ BrowserTypes' /\ RowsFollow' /\ CursorCovered'
  BY <1>1 DEF PushInv, FeedTypes, BrowserTypes, RowsFollow, CursorCovered, Subscribed
<1>6. pushFaults' \in Nat /\ pushFaults' <= MaxPushFaults /\ 0 <= pushFaults'
  <2>1. pushFaults \in Nat
    BY DEF PushInv, WorkerTypes
  <2> QED BY <1>1, <2>1, PushAssumption
<1>7. WorkerTypes'
  <2>1. "free" \notin Kinds
    BY DEF Kinds
  <2>2. \A k \in Kinds : running'[k] = (pusher'[k].pc # "idle")
    BY <1>2, <1>3
  <2>3. \A k \in Kinds : deliveryLock' = k <=> Delivers(k)'
    BY <1>1, <1>4, <2>1
  <2>4. pusher' \in [Kinds -> Pushers]
    BY <1>1, <1>2
  <2>5. running' \in [Kinds -> BOOLEAN] /\ dirty' \in [Kinds -> BOOLEAN] /\ deliveryLock' \in Kinds \cup {"free"}
    BY <1>1
  <2> QED BY <1>6, <2>2, <2>3, <2>4, <2>5 DEF WorkerTypes
<1>8. ASSUME NEW k \in Kinds PROVE WorkerInv(k)'
  <2>1. KnowsRows(k)' /\ KnowsPush(k)'
    BY <1>2, <1>3, <1>4 DEF KnowsRows, KnowsPush
  <2>2. AttemptsPaid(k)'
    BY <1>2, <1>3, <1>6 DEF AttemptsPaid
  <2>3. NobodyForgotten(k)'
    BY <1>1 DEF NobodyForgotten, Tells
  <2> QED BY <2>1, <2>2, <2>3 DEF WorkerInv
<1> QED BY <1>5, <1>7, <1>8 DEF PushInv

\* A browser registers, or registers again with new keys.  A row that exists keeps
\* its cursors; a new one begins where the feeds are.
LEMMA SubscribeKept == ASSUME PushInv, NEW e \in Endpoints, Subscribe(e) PROVE PushInv'
<1> DEFINE key == browser[e] + 1
<1> DEFINE new == IF Subscribed(e) THEN [subs[e] EXCEPT !.key = key] ELSE Row(key, [k \in Kinds |-> FeedCursor(k)])
<1>1. /\ browser[e] < MaxKeys /\ browser' = [browser EXCEPT ![e] = key]
      /\ IF browser[e] = 0 THEN pushFaults' = pushFaults ELSE pushFaults < MaxPushFaults /\ pushFaults' = pushFaults + 1
      /\ baseline' = IF Subscribed(e) THEN baseline ELSE [baseline EXCEPT ![e] = [k \in Kinds |-> lastEvent[k]]]
      /\ UNCHANGED <<feed, lastEvent, untold, running, dirty, pusher, deliveryLock, seen, refusals>>
  BY DEF Subscribe, Disturb
<1>2. /\ subs \in [Endpoints -> {NoSub} \cup Subscriptions] /\ browser \in [Endpoints -> 0..MaxKeys]
      /\ baseline \in [Endpoints -> [Kinds -> Nat]] /\ seen \in [Endpoints -> [Kinds -> SUBSET Nat]]
      /\ lastEvent \in [Kinds -> Nat]
  BY DEF PushInv, BrowserTypes, FeedTypes
<1>3. browser[e] \in Nat /\ key \in 1..MaxKeys /\ key \in Nat /\ browser[e] < key
  BY <1>1, <1>2, PushAssumption
<1>4. subs' = [subs EXCEPT ![e] = new]
  BY <1>2 DEF Subscribe, SaveSubscription
<1>5. \A k \in Kinds : /\ FeedCursor(k) \in Nat /\ FeedCursor(k) <= lastEvent[k]
                       /\ \A id \in feed[k] : id <= FeedCursor(k)
  <2> SUFFICES ASSUME NEW k \in Kinds
               PROVE  /\ FeedCursor(k) \in Nat /\ FeedCursor(k) <= lastEvent[k]
                      /\ \A id \in feed[k] : id <= FeedCursor(k)
    OBVIOUS
  <2>1. feed[k] \in SUBSET Nat /\ lastEvent[k] \in Nat /\ \A id \in feed[k] : id <= lastEvent[k]
    BY DEF PushInv, FeedTypes
  <2>2. /\ feed[k] = {} => MaxOf(feed[k]) = 0
        /\ feed[k] # {} => MaxOf(feed[k]) \in feed[k]
        /\ \A id \in feed[k] : id <= MaxOf(feed[k])
    BY <2>1, GreatestOfSet
  <2> QED BY <2>1, <2>2 DEF FeedCursor
<1>6. /\ new \in Subscriptions /\ new.key = key
      /\ Subscribed(e) => new.cursor = subs[e].cursor
      /\ ~Subscribed(e) => \A k \in Kinds : new.cursor[k] = FeedCursor(k)
  <2>1. CASE Subscribed(e)
    <3>1. subs[e] \in Subscriptions
      BY <1>2, <2>1 DEF Subscribed
    <3> QED BY <1>3, <2>1, <3>1 DEF Subscriptions
  <2>2. CASE ~Subscribed(e)
    <3>1. [k \in Kinds |-> FeedCursor(k)] \in [Kinds -> Nat]
      BY <1>5
    <3> QED BY <1>3, <2>2, <3>1 DEF Subscriptions, Row
  <2> QED BY <2>1, <2>2
<1>7. new # NoSub
  BY <1>6, RowIsSubscription
<1> HIDE DEF new, key
<1>8. /\ subs'[e] = new /\ \A x \in Endpoints : x # e => subs'[x] = subs[x]
      /\ subs' \in [Endpoints -> {NoSub} \cup Subscriptions]
  BY <1>2, <1>4, <1>6
<1>9. /\ browser'[e] = key /\ \A x \in Endpoints : x # e => browser'[x] = browser[x]
      /\ browser' \in [Endpoints -> 0..MaxKeys]
  BY <1>1, <1>2, <1>3
<1>10. /\ baseline' \in [Endpoints -> [Kinds -> Nat]]
       /\ \A x \in Endpoints : x # e \/ Subscribed(e) => baseline'[x] = baseline[x]
       /\ ~Subscribed(e) => \A k \in Kinds : baseline'[e][k] = lastEvent[k]
  BY <1>1, <1>2
<1>11. pushFaults' \in Nat /\ pushFaults <= pushFaults' /\ pushFaults' <= MaxPushFaults
       /\ (browser[e] # 0 => pushFaults < pushFaults')
  <2>1. pushFaults \in Nat /\ pushFaults <= MaxPushFaults
    BY DEF PushInv, WorkerTypes
  <2> QED BY <1>1, <2>1, PushAssumption
<1>12. FeedTypes' /\ WorkerTypes' /\ BrowserTypes'
  <2>1. FeedTypes'
    BY <1>1 DEF PushInv, FeedTypes
  <2>2. WorkerTypes'
    BY <1>1, <1>11 DEF PushInv, WorkerTypes, Delivers
  <2>3. BrowserTypes'
    BY <1>1, <1>2, <1>8, <1>9, <1>10 DEF BrowserTypes
  <2> QED BY <2>1, <2>2, <2>3
<1>13. \A x \in Endpoints : x # e => (Subscribed(x)' <=> Subscribed(x))
  BY <1>8 DEF Subscribed
<1>14. RowsFollow'
  <2> SUFFICES ASSUME NEW x \in Endpoints, Subscribed(x)'
               PROVE  subs'[x].key = browser'[x] /\ \A k \in Kinds : subs'[x].cursor[k] <= lastEvent[k]
    BY <1>1 DEF RowsFollow
  <2>1. CASE x = e
    <3>1. Subscribed(e) => \A k \in Kinds : subs[e].cursor[k] <= lastEvent[k]
      BY DEF PushInv, RowsFollow
    <3> QED BY <1>5, <1>6, <1>8, <1>9, <2>1, <3>1
  <2>2. CASE x # e
    BY <1>8, <1>9, <1>13, <2>2 DEF PushInv, RowsFollow
  <2> QED BY <2>1, <2>2
<1>15. CursorCovered'
  <2> SUFFICES ASSUME NEW x \in Endpoints, NEW k \in Kinds, Subscribed(x)', NEW id \in feed[k],
                      baseline'[x][k] < id, id <= subs'[x].cursor[k]
               PROVE  id \in seen[x][k]
    BY <1>1 DEF CursorCovered
  <2>1. CASE x = e /\ ~Subscribed(e)
    <3>1. id <= lastEvent[k] /\ id \in Nat /\ lastEvent[k] \in Nat /\ lastEvent[k] < id
      BY <1>10, <2>1 DEF PushInv, FeedTypes
    <3> QED BY <3>1
  <2>2. CASE ~(x = e /\ ~Subscribed(e))
    <3>1. Subscribed(x) /\ baseline'[x] = baseline[x] /\ subs'[x].cursor[k] = subs[x].cursor[k]
      BY <1>6, <1>8, <1>10, <1>13, <2>2
    <3> QED BY <3>1 DEF PushInv, CursorCovered
  <2> QED BY <2>1, <2>2
<1>16. ASSUME NEW k \in Kinds PROVE WorkerInv(k)'
  <2>1. ASSUME NEW r \in ListedRows, KnowsRow(k, r) PROVE KnowsRow(k, r)'
    <3>1. CASE r.at = e
      <4>1. 1 <= r.key /\ r.key <= browser[e] /\ r.key \in Nat /\ r.from <= lastEvent[k]
        BY <2>1, <3>1 DEF KnowsRow, ListedRows
      <4>2. pusher'[k].attempt < pushFaults'
        <5>1. pusher[k].attempt <= pushFaults /\ pusher[k].attempt \in Nat /\ pushFaults \in Nat
          BY WorkerFacts DEF PushInv, WorkerInv, AttemptsPaid
        <5>2. browser[e] # 0
          BY <1>3, <4>1
        <5> QED BY <1>1, <1>11, <5>1, <5>2
      <4>3. subs'[e].key # r.key /\ r.key <= browser'[e]
        BY <1>3, <1>6, <1>8, <1>9, <4>1
      <4>4. \A id \in feed[k] : id > subs'[e].cursor[k] => id > r.from
        <5>1. CASE Subscribed(e)
          BY <1>6, <1>8, <2>1, <3>1, <5>1 DEF KnowsRow
        <5>2. CASE ~Subscribed(e)
          <6>1. \A id \in feed[k] : id \in Nat /\ id <= subs'[e].cursor[k] /\ subs'[e].cursor[k] \in Nat
            BY <1>5, <1>6, <1>8, <5>2 DEF PushInv, FeedTypes
          <6> QED BY <6>1
        <5> QED BY <5>1, <5>2
      <4> QED BY <1>1, <3>1, <4>1, <4>2, <4>3, <4>4 DEF KnowsRow
    <3>2. CASE r.at # e
      <4>1. r.at \in Endpoints
        BY DEF ListedRows
      <4>2. subs'[r.at] = subs[r.at] /\ browser'[r.at] = browser[r.at] /\ (Subscribed(r.at)' <=> Subscribed(r.at))
        BY <1>8, <1>9, <1>13, <3>2, <4>1
      <4>3. pusher[k].attempt < pushFaults => pusher[k].attempt < pushFaults'
        BY <1>11, WorkerFacts
      <4> QED BY <1>1, <2>1, <4>2, <4>3 DEF KnowsRow
    <3> QED BY <3>1, <3>2
  <2>2. CurrentRow(k)' = CurrentRow(k) /\ (AtRow(k)' <=> AtRow(k)) /\ (Delivers(k)' <=> Delivers(k))
    BY <1>1 DEF CurrentRow, AtRow, Delivers
  <2>3. ASSUME AtRow(k) PROVE KnowsRow(k, CurrentRow(k))'
    <3>1. CurrentRow(k) \in ListedRows /\ KnowsRow(k, CurrentRow(k))
      BY <2>3, WorkerFacts DEF PushInv, WorkerInv, KnowsRows, CurrentRow, ListedRows
    <3>2. PICK r \in ListedRows : r = CurrentRow(k)
      BY <3>1
    <3>3. KnowsRow(k, r)'
      BY <2>1, <3>1, <3>2
    <3> QED BY <2>2, <3>2, <3>3 DEF KnowsRow
  <2>4. KnowsRows(k)'
    BY <1>1, <2>1, <2>2, <2>3, WorkerFacts DEF PushInv, WorkerInv, KnowsRows
  <2>5. KnowsPush(k)'
    <3>1. ASSUME AtRow(k), browser'[pusher[k].at] = pusher[k].key PROVE browser[pusher[k].at] = pusher[k].key
      <4>1. pusher[k].at \in Endpoints /\ pusher[k].key <= browser[pusher[k].at]
        BY <3>1 DEF PushInv, WorkerInv, KnowsRows, KnowsRow, CurrentRow
      <4>2. pusher[k].at # e
        BY <1>3, <1>9, <3>1, <4>1
      <4> QED BY <1>9, <3>1, <4>1, <4>2
    <3> QED BY <1>1, <2>2, <3>1 DEF PushInv, WorkerInv, KnowsPush
  <2>6. AttemptsPaid(k)'
    BY <1>1, <1>11, WorkerFacts DEF PushInv, WorkerInv, AttemptsPaid
  <2>7. NobodyForgotten(k)'
    <3>1. ASSUME NEW x \in Endpoints, BehindNow(x, k)' PROVE BehindNow(x, k)
      <4>1. PICK id \in feed[k] : id > subs'[x].cursor[k] /\ Subscribed(x)'
        BY <1>1, <3>1 DEF BehindNow, EventsAfter
      <4>2. CASE x = e /\ ~Subscribed(e)
        <5>1. id \in Nat /\ id <= subs'[x].cursor[k] /\ subs'[x].cursor[k] \in Nat
          BY <1>5, <1>6, <1>8, <4>2 DEF PushInv, FeedTypes
        <5> QED BY <4>1, <5>1
      <4>3. CASE ~(x = e /\ ~Subscribed(e))
        <5>1. Subscribed(x) /\ subs'[x].cursor[k] = subs[x].cursor[k]
          BY <1>6, <1>8, <1>13, <4>1, <4>3
        <5> QED BY <4>1, <5>1 DEF BehindNow, EventsAfter
      <4> QED BY <4>2, <4>3
    <3>2. \A x \in Endpoints : Tells(x, k) => Tells(x, k)'
      BY <1>1, <2>2 DEF Tells
    <3> QED BY <1>1, <3>1, <3>2 DEF PushInv, WorkerInv, NobodyForgotten
  <2> QED BY <2>4, <2>5, <2>6, <2>7 DEF WorkerInv
<1> QED BY <1>12, <1>14, <1>15, <1>16 DEF PushInv

LEMMA PushKept == PushInv /\ [PushNext]_pushVars => PushInv'
<1> SUFFICES ASSUME PushInv, [PushNext]_pushVars PROVE PushInv'
  OBVIOUS
<1>0. "mail" \in Kinds /\ "snooze" \in Kinds
  BY DEF Kinds
<1>1. CASE RecordNewMailEvent
  BY <1>0, <1>1, EventKept DEF RecordNewMailEvent
<1>2. CASE RecordReminderEvent
  BY <1>0, <1>2, EventKept DEF RecordReminderEvent
<1>3. CASE WithdrawReminder
  BY <1>3, WithdrawKept
<1>4. ASSUME NEW e \in Endpoints, Subscribe(e) \/ Unsubscribe(e) PROVE PushInv'
  BY <1>4, SubscribeKept, UnsubscribeKept
<1>5. ASSUME NEW k \in Kinds, NotifyAsync(k) \/ Start(k) \/ Decide(k) \/ DeliveryStep(k) \/ DeliveryFault(k) \/ Advance(k)
      PROVE  PushInv'
  BY <1>5, NotifyKept, StartKept, DecideKept, DeliverKept, NextRowKept, AcceptedKept, StaleKept,
     DropStaleKept, DeliveredKept, FaultKept, AdvanceKept DEF DeliveryStep
<1>6. CASE PushCrash
  BY <1>6, PushCrashKept
<1>7. CASE UNCHANGED pushVars
  <2>1. FeedTypes' /\ WorkerTypes' /\ BrowserTypes' /\ RowsFollow' /\ CursorCovered'
    BY <1>7 DEF pushVars, PushInv, FeedTypes, WorkerTypes, BrowserTypes, RowsFollow, CursorCovered, Subscribed, Delivers
  <2>2. ASSUME NEW k \in Kinds PROVE WorkerInv(k)'
    <3>1. pushFaults' \in Nat /\ pushFaults <= pushFaults'
      BY <1>7, WorkerFacts DEF pushVars
    <3> QED BY <1>7, <2>1, <3>1, WorkerUndisturbed DEF pushVars
  <2> QED BY <2>1, <2>2 DEF PushInv
<1> QED BY <1>0, <1>1, <1>2, <1>3, <1>4, <1>5, <1>6, <1>7
        DEF PushNext, NotifyNewMailWebPushAsync, NotifySnoozeReminderWebPushAsync, RunScheduledNewMailWebPush,
            RunScheduledSnoozeReminderWebPush, NotifyNewMailWebPush, NotifySnoozeReminderWebPush,
            AdvanceNewMailCursor, AdvanceSnoozeReminderCursor

LEMMA PushAlways == PushSpec => []PushInv
<1>1. PushInit => PushInv
  BY PushInitially
<1>2. PushInv /\ [PushNext]_pushVars => PushInv'
  BY PushKept
<1> QED BY <1>1, <1>2, PTL DEF PushSpec

\* No event is skipped for a browser and none is left untold when its feed comes to
\* rest: a cursor passes only what was in a push the browser could decrypt, and a
\* worker stops only when no row is behind or a push was refused for good, whatever
\* keys, registrations, failures and restarts meet the deliveries (webpush_notify.go,
\* webpush_snooze.go, AdvanceWebPushCursor).
THEOREM NothingIsSkipped == PushSpec => []NothingSkipped
BY PushAlways, PushIsSafe, PTL

\* A worker about to remove a row knows that the service rejected the keys of the row.
RejectedFirst ==
    /\ rejected \in [Endpoints -> SUBSET Nat]
    /\ \A k \in Kinds : pusher[k].pc = "drop" => pusher[k].key \in rejected[pusher[k].at]

LEMMA RejectedKept == PushInv /\ RejectedFirst /\ [PushNext]_pushVars => RejectedFirst'
<1> SUFFICES ASSUME PushInv, RejectedFirst, [PushNext]_pushVars PROVE RejectedFirst'
  OBVIOUS
<1>0. "mail" \in Kinds /\ "snooze" \in Kinds /\ pusher \in [Kinds -> Pushers] /\ IdlePusher.pc = "idle"
  BY DEF Kinds, PushInv, WorkerTypes, IdlePusher
<1>1. ASSUME NEW k \in Kinds, NEW next \in Pushers, pusher' = [pusher EXCEPT ![k] = next], next.pc # "drop", rejected' = rejected
      PROVE  RejectedFirst'
  <2>1. pusher'[k] = next /\ \A j \in Kinds \ {k} : pusher'[j] = pusher[j]
    BY <1>0, <1>1
  <2>2. ASSUME NEW j \in Kinds, pusher'[j].pc = "drop" PROVE pusher'[j].key \in rejected[pusher'[j].at]
    <3>1. j # k
      BY <1>1, <2>1, <2>2
    <3>2. pusher'[j] = pusher[j]
      BY <2>1, <3>1
    <3> QED BY <2>2, <3>2 DEF RejectedFirst
  <2> QED BY <1>1, <2>2 DEF RejectedFirst
<1>2. ASSUME UNCHANGED <<pusher, rejected>> PROVE RejectedFirst'
  BY <1>2 DEF RejectedFirst
<1>3. ASSUME NEW k \in Kinds, NEW again \in BOOLEAN, RowDone(k, again), rejected' = rejected PROVE RejectedFirst'
  <2> DEFINE next == [IdlePusher EXCEPT !.pc = "loop", !.rows = pusher[k].rows,
                         !.retry = pusher[k].retry \/ again, !.attempt = pusher[k].attempt]
  <2>1. pusher' = [pusher EXCEPT ![k] = next]
    BY <1>3 DEF RowDone
  <2>2. next \in Pushers /\ next.pc = "loop"
    BY WorkerFacts DEF IdlePusher, Pushers, PusherPlaces
  <2> HIDE DEF next
  <2> QED BY <1>1, <1>3, <2>1, <2>2
<1>4. ASSUME NEW k \in Kinds, Stale(k) PROVE RejectedFirst'
  <2> DEFINE at == pusher[k].at
  <2>1. /\ pusher[k].pc = "send" /\ rejected' = [rejected EXCEPT ![at] = @ \cup {pusher[k].key}]
        /\ pusher' = [pusher EXCEPT ![k].pc = "drop"]
    BY <1>4 DEF Stale
  <2>2. at \in Endpoints /\ pusher[k].key \in Nat
    BY <2>1, WorkerFacts DEF PushInv, WorkerInv, KnowsRows, AtRow
  <2>3. /\ rejected' \in [Endpoints -> SUBSET Nat] /\ pusher[k].key \in rejected'[at]
        /\ \A e \in Endpoints : rejected[e] \subseteq rejected'[e]
    BY <2>1, <2>2 DEF RejectedFirst
  <2>4. /\ pusher'[k].key = pusher[k].key /\ pusher'[k].at = at
        /\ \A j \in Kinds \ {k} : pusher'[j] = pusher[j]
    BY <1>0, <2>1 DEF Pushers
  <2>5. ASSUME NEW j \in Kinds \ {k}, pusher[j].pc = "drop" PROVE pusher[j].key \in rejected'[pusher[j].at]
    <3>1. pusher[j].at \in Endpoints
      BY <2>5 DEF PushInv, WorkerInv, KnowsRows, AtRow
    <3> QED BY <2>3, <2>5, <3>1 DEF RejectedFirst
  <2>6. ASSUME NEW j \in Kinds, pusher'[j].pc = "drop" PROVE pusher'[j].key \in rejected'[pusher'[j].at]
    BY <2>3, <2>4, <2>5, <2>6
  <2> QED BY <2>3, <2>6 DEF RejectedFirst
<1>5. ASSUME NEW k \in Kinds, NotifyAsync(k) PROVE RejectedFirst'
  <2>1. CASE running[k]
    BY <1>2, <1>5, <2>1 DEF NotifyAsync, Scheduled
  <2>2. CASE ~running[k]
    <3> DEFINE next == [pusher[k] EXCEPT !.pc = "start"]
    <3>1. next \in Pushers /\ next.pc = "start" /\ pusher' = [pusher EXCEPT ![k] = next] /\ rejected' = rejected
      BY <1>0, <1>5, <2>2 DEF NotifyAsync, Scheduled, Pushers, PusherPlaces
    <3> HIDE DEF next
    <3> QED BY <1>1, <3>1
  <2> QED BY <2>1, <2>2
<1>6. ASSUME NEW k \in Kinds, Start(k) \/ Decide(k) \/ Deliver(k) \/ NextRow(k) \/ Accepted(k) \/ Delivered(k) \/ Timeout(k)
      PROVE  RejectedFirst'
  <2>1. pusher' \in [Kinds -> Pushers]
    <3>1. PushInv'
      BY <1>6, StartKept, DecideKept, DeliverKept, NextRowKept, AcceptedKept, DeliveredKept, FaultKept DEF DeliveryFault
    <3> QED BY <3>1 DEF PushInv, WorkerTypes
  <2>2. rejected' = rejected /\ \A j \in Kinds \ {k} : pusher'[j] = pusher[j]
    BY <1>0, <1>6 DEF Start, Decide, Deliver, NextRow, Accepted, Delivered, Timeout
  <2>3. pusher'[k].pc # "drop"
    <3>1. Start(k) => pusher'[k].pc = "lock"
      BY <1>0 DEF Start, Pushers
    <3>2. Decide(k) => pusher'[k].pc \in {"start", "idle"}
      BY <1>0 DEF Decide, IdlePusher
    <3>3. Deliver(k) => pusher'[k].pc = "loop"
      BY <1>0 DEF Deliver, Pushers
    <3>4. NextRow(k) => pusher'[k].pc \in {"loop", "send"}
      BY <1>0 DEF NextRow, Pushers
    <3>5. Accepted(k) => pusher'[k].pc = "advance"
      BY <1>0 DEF Accepted, Pushers
    <3>6. Delivered(k) => pusher'[k].pc = "decide"
      BY <1>0 DEF Delivered, Pushers
    <3>7. Timeout(k) => pusher'[k].pc = "loop"
      BY <1>0 DEF Timeout, Pushers
    <3> QED BY <1>6, <3>1, <3>2, <3>3, <3>4, <3>5, <3>6, <3>7
  <2>4. ASSUME NEW j \in Kinds, pusher'[j].pc = "drop" PROVE pusher'[j].key \in rejected[pusher'[j].at]
    BY <2>2, <2>3, <2>4 DEF RejectedFirst
  <2> QED BY <2>2, <2>4 DEF RejectedFirst
<1>7. ASSUME NEW k \in Kinds, Advance(k) \/ DropStale(k) \/ Failed(k) \/ Refused(k) PROVE RejectedFirst'
  BY <1>3, <1>7 DEF Advance, DropStale, Failed, Refused
<1>8. CASE PushCrash
  BY <1>0, <1>8 DEF PushCrash, RejectedFirst
<1>9. CASE \/ RecordNewMailEvent \/ RecordReminderEvent \/ WithdrawReminder \/ UNCHANGED pushVars
           \/ \E e \in Endpoints : Subscribe(e) \/ Unsubscribe(e)
  BY <1>2, <1>9 DEF RecordNewMailEvent, RecordReminderEvent, WithdrawReminder, Subscribe, Unsubscribe, pushVars
<1> QED BY <1>0, <1>4, <1>5, <1>6, <1>7, <1>8, <1>9
        DEF PushNext, NotifyNewMailWebPushAsync, NotifySnoozeReminderWebPushAsync, RunScheduledNewMailWebPush,
            RunScheduledSnoozeReminderWebPush, NotifyNewMailWebPush, NotifySnoozeReminderWebPush, DeliveryStep,
            DeliveryFault, AdvanceNewMailCursor, AdvanceSnoozeReminderCursor

\* The server removes a registration only when the push service rejected the very keys
\* it has: a browser that made new keys meanwhile keeps its row
\* (DeleteWebPushSubscriptionIfCurrent).
THEOREM FreshKeysStay == PushSpec => RemovedWereRejected
<1> DEFINE KeysRejected == \A e \in Endpoints, k \in Kinds :
         Subscribed(e) /\ subs'[e] = NoSub /\ pusher[k].pc = "drop" /\ pusher'[k].pc = "loop"
            => subs[e].key \in rejected[e]
<1>1. PushInv /\ RejectedFirst /\ [PushNext]_pushVars => [KeysRejected]_pushVars
  <2> SUFFICES ASSUME PushInv, RejectedFirst, PushNext, NEW e \in Endpoints, NEW k \in Kinds,
                      Subscribed(e), subs'[e] = NoSub, pusher[k].pc = "drop", pusher'[k].pc = "loop"
               PROVE  subs[e].key \in rejected[e]
    OBVIOUS
  <2>1. pusher \in [Kinds -> Pushers] /\ subs \in [Endpoints -> {NoSub} \cup Subscriptions] /\ IdlePusher.pc = "idle"
    BY DEF PushInv, WorkerTypes, BrowserTypes, IdlePusher
  <2>2. pusher'[k] # pusher[k] /\ subs' # subs
    BY DEF Subscribed
  <2>3. ASSUME NEW x \in Endpoints, Subscribe(x) \/ Unsubscribe(x) PROVE FALSE
    BY <2>2, <2>3 DEF Subscribe, Unsubscribe
  <2>4. ASSUME NEW j \in Kinds, Advance(j) PROVE FALSE
    <3>1. j = k
      BY <2>1, <2>2, <2>4 DEF Advance, RowDone
    <3> QED BY <2>4, <3>1 DEF Advance
  <2>5. ASSUME NEW j \in Kinds, DropStale(j) PROVE subs[e].key \in rejected[e]
    <3>1. j = k
      BY <2>1, <2>2, <2>5 DEF DropStale, RowDone
    <3>2. subs' = [subs EXCEPT ![pusher[k].at] = NoSub] /\ subs[pusher[k].at].key = pusher[k].key
      BY <2>2, <2>5, <3>1 DEF DropStale, MayDrop, SameKeys
    <3>3. e = pusher[k].at
      BY <2>1, <3>2 DEF Subscribed
    <3> QED BY <3>2, <3>3 DEF RejectedFirst
  <2>6. \E j \in Kinds : Advance(j) \/ DropStale(j)
    <3>1. "mail" \in Kinds /\ "snooze" \in Kinds
      BY DEF Kinds
    <3>2. ~RecordNewMailEvent /\ ~RecordReminderEvent /\ ~WithdrawReminder /\ ~PushCrash
      BY <2>2 DEF RecordNewMailEvent, RecordReminderEvent, WithdrawReminder, PushCrash
    <3>3. \A j \in Kinds : ~NotifyAsync(j) /\ ~Start(j) /\ ~Decide(j) /\ ~DeliveryFault(j)
      BY <2>2 DEF NotifyAsync, Start, Decide, DeliveryFault, Failed, Refused, Timeout
    <3>4. \A j \in Kinds : DeliveryStep(j) => DropStale(j)
      BY <2>2 DEF DeliveryStep, Deliver, NextRow, Accepted, Stale, Delivered
    <3> QED BY <2>3, <3>1, <3>2, <3>3, <3>4
            DEF PushNext, NotifyNewMailWebPushAsync, NotifySnoozeReminderWebPushAsync, RunScheduledNewMailWebPush,
                RunScheduledSnoozeReminderWebPush, NotifyNewMailWebPush, NotifySnoozeReminderWebPush,
                AdvanceNewMailCursor, AdvanceSnoozeReminderCursor
  <2> QED BY <2>4, <2>5, <2>6
<1>2. PushInit => RejectedFirst
  BY DEF PushInit, RejectedFirst, IdlePusher
<1>3. PushSpec => [](PushInv /\ RejectedFirst)
  BY <1>2, RejectedKept, PushAlways, PTL DEF PushSpec
<1>4. PushSpec => [][PushNext]_pushVars
  BY DEF PushSpec
<1>5. PushSpec => [][KeysRejected]_pushVars
  BY <1>1, <1>3, <1>4, PTL
<1> QED BY <1>5 DEF RemovedWereRejected

-----------------------------------------------------------------------------
(* Inbox arrivals *)

ArrivalRows == [state : {"none", "pending", "local", "external", "delivery"}, created : Nat, due : Nat]
ArrivalTypes ==
    /\ now \in 1..Horizon
    /\ arrival \in [Arrived -> ArrivalRows]
    /\ sourceRow \in [Arrived -> BOOLEAN]
    /\ tomb \in [Arrived -> Nat]
    /\ transfer \in [Arrived -> {"none", "dispatched", "succeeded", "consumed"}]
    /\ gate \in BOOLEAN /\ missed \in BOOLEAN
    /\ entry \in [due : Nat, gen : Nat, running : BOOLEAN, retry : BOOLEAN]
    /\ timers \subseteq [gen : Nat, at : Nat]
    /\ sequence \in Nat
    /\ calls \subseteq Nat \ {0}
    /\ fin \in [pc : {"idle", "list", "probe", "defer", "finalize", "next", "rearm"},
                at : Nat, batch : SUBSET Arrived, defer : SUBSET Arrived, gen : Nat, next : Nat]

\* Nothing is dated later than the clock, a pending arrival has a deadline, and the
\* entry is running just when the finalizer is.
Clocked ==
    /\ fin.at <= now
    /\ \A a \in Arrived : /\ arrival[a].created <= now
                          /\ IsPending(a) => arrival[a].due # 0
    /\ entry.running <=> fin.pc # "idle"

ArrivalsTyped == ArrivalTypes /\ Clocked

LEMMA SoonestOf ==
    ASSUME NEW S \in SUBSET Nat, S # {}
    PROVE  Soonest(S) \in S /\ \A m \in S : Soonest(S) <= m
BY LeastExists DEF Soonest

LEMMA AtMostIsDeadline ==
    ASSUME NEW n \in Nat \ {0}
    PROVE  AtMost(n) \in Nat \ {0} /\ AtMost(n) <= n /\ (AtMost(n) = n \/ AtMost(n) = Horizon)
<1>1. {n, Horizon} \in SUBSET Nat /\ {n, Horizon} # {} /\ Horizon # 0
  BY ArrivalsAssumption
<1>2. AtMost(n) \in {n, Horizon} /\ \A m \in {n, Horizon} : AtMost(n) <= m
  BY <1>1, SoonestOf DEF AtMost
<1> QED BY <1>1, <1>2

\* The deadline that is read is the earliest one.
LEMMA NextDueIsFirst ==
    ASSUME ArrivalsTyped, NEW S \in SUBSET {a \in Arrived : IsPending(a)}
    PROVE  /\ NextDueOf(S) \in Nat
           /\ \A a \in S : NextDueOf(S) # 0 /\ NextDueOf(S) <= arrival[a].due
<1> DEFINE dues == {arrival[a].due : a \in S}
<1>1. dues \in SUBSET (Nat \ {0})
  BY DEF ArrivalsTyped, ArrivalTypes, ArrivalRows, Clocked
<1>2. CASE S = {}
  BY <1>2 DEF NextDueOf
<1>3. CASE S # {}
  <2>1. dues # {} /\ dues \in SUBSET Nat
    BY <1>1, <1>3
  <2>2. Soonest(dues) \in dues /\ \A m \in dues : Soonest(dues) <= m
    BY <2>1, SoonestOf
  <2> QED BY <1>1, <1>3, <2>2 DEF NextDueOf
<1> QED BY <1>2, <1>3

LEMMA ClassIsState ==
    ASSUME NEW a, NEW t
    PROVE  Classify(a, t) \in {"local", "external", "pending"}
BY DEF Classify, Usable

LEMMA ArrivalsInitially == ArrivalsInit => ArrivalsTyped
<1> SUFFICES ASSUME ArrivalsInit PROVE ArrivalsTyped
  OBVIOUS
<1>1. now = 1 /\ 1 \in 1..Horizon
  BY ArrivalsAssumption DEF ArrivalsInit
<1>2. entry = NoEntry /\ fin = IdleFin /\ timers = {} /\ sequence = 0 /\ calls = {} /\ missed = FALSE
  BY DEF ArrivalsInit
<1>3. arrival \in [Arrived -> ArrivalRows] /\ \A a \in Arrived : arrival[a] = NotYet
  BY DEF ArrivalsInit, ArrivalRows, NotYet
<1>4. /\ sourceRow \in [Arrived -> BOOLEAN] /\ tomb \in [Arrived -> Nat] /\ gate \in BOOLEAN
      /\ transfer \in [Arrived -> {"none", "dispatched", "succeeded", "consumed"}]
  BY DEF ArrivalsInit
<1>5. /\ entry \in [due : Nat, gen : Nat, running : BOOLEAN, retry : BOOLEAN]
      /\ fin \in [pc : {"idle", "list", "probe", "defer", "finalize", "next", "rearm"},
                  at : Nat, batch : SUBSET Arrived, defer : SUBSET Arrived, gen : Nat, next : Nat]
  BY <1>2 DEF NoEntry, IdleFin
<1>6. ArrivalTypes
  BY <1>1, <1>2, <1>3, <1>4, <1>5 DEF ArrivalTypes
<1>7. Clocked
  BY <1>1, <1>2, <1>3 DEF Clocked, IsPending, NotYet, NoEntry, IdleFin
<1> QED BY <1>6, <1>7 DEF ArrivalsTyped

\* What setting a timer does to the schedule.
LEMMA ArmedTyped ==
    ASSUME ArrivalsTyped, NEW e \in [due : Nat, gen : Nat, running : BOOLEAN, retry : BOOLEAN], Armed(e)
    PROVE  /\ entry' \in [due : Nat, gen : Nat, running : BOOLEAN, retry : BOOLEAN]
           /\ timers' \subseteq [gen : Nat, at : Nat] /\ sequence' \in Nat
           /\ ~entry'.running /\ entry'.due = e.due /\ entry'.retry = e.retry
           /\ \E t \in timers' : t.gen = entry'.gen /\ (t.at <= e.due \/ t.at <= now)
<1>1. sequence \in Nat /\ now \in Nat /\ timers \subseteq [gen : Nat, at : Nat]
  BY ArrivalsAssumption DEF ArrivalsTyped, ArrivalTypes
<1>2. entry' = [e EXCEPT !.gen = sequence + 1, !.running = FALSE] /\ sequence' = sequence + 1
  BY DEF Armed
<1>3. sequence + 1 \in Nat
  BY <1>1
<1>4. /\ entry' \in [due : Nat, gen : Nat, running : BOOLEAN, retry : BOOLEAN] /\ sequence' \in Nat
      /\ ~entry'.running /\ entry'.due = e.due /\ entry'.retry = e.retry /\ entry'.gen = sequence + 1
  BY <1>2, <1>3
<1> DEFINE t == [gen |-> sequence + 1, at |-> IF e.due > now THEN e.due ELSE now]
<1>5. t \in timers' /\ timers' \subseteq timers \cup {t}
  BY DEF Armed
<1>6. t \in [gen : Nat, at : Nat] /\ t.gen = sequence + 1 /\ (t.at <= e.due \/ t.at <= now)
  BY <1>1
<1> QED BY <1>1, <1>4, <1>5, <1>6

\* What a failed or finished pass leaves: a deadline and its timer, or nothing.
LEMMA RearmTyped ==
    ASSUME ArrivalsTyped, NEW due \in Nat, NEW retry \in BOOLEAN, Rearm(due, retry)
    PROVE  /\ entry' \in [due : Nat, gen : Nat, running : BOOLEAN, retry : BOOLEAN]
           /\ timers' \subseteq [gen : Nat, at : Nat] /\ sequence' \in Nat /\ ~entry'.running
           /\ \/ due = 0 /\ entry.due = 0 /\ entry'.due = 0
              \/ /\ entry'.due # 0 /\ entry'.retry = retry
                 /\ due # 0 => entry'.due <= due
                 /\ entry.due # 0 => entry'.due <= entry.due
                 /\ \E t \in timers' : t.gen = entry'.gen /\ (t.at <= entry'.due \/ t.at <= now)
<1> DEFINE noted == IF entry.due # 0 /\ (due = 0 \/ entry.due <= due) THEN entry.due ELSE due
<1>1. /\ entry \in [due : Nat, gen : Nat, running : BOOLEAN, retry : BOOLEAN]
      /\ timers \subseteq [gen : Nat, at : Nat] /\ sequence \in Nat
  BY DEF ArrivalsTyped, ArrivalTypes
<1>2. /\ noted \in Nat /\ (noted = 0 => due = 0 /\ entry.due = 0)
      /\ due # 0 => noted <= due
      /\ entry.due # 0 => noted <= entry.due
  BY <1>1
<1>3. CASE noted = 0
  <2>1. entry' = NoEntry /\ timers' = timers /\ sequence' = sequence
    BY <1>3 DEF Rearm
  <2> QED BY <1>1, <1>2, <1>3, <2>1 DEF NoEntry
<1>4. CASE noted # 0
  <2> DEFINE e == [entry EXCEPT !.due = noted, !.retry = retry]
  <2>1. Armed(e)
    BY <1>4 DEF Rearm
  <2>2. e \in [due : Nat, gen : Nat, running : BOOLEAN, retry : BOOLEAN] /\ e.due = noted /\ e.retry = retry
    BY <1>1, <1>2
  <2> HIDE DEF e, noted
  <2> QED BY <1>2, <1>4, <2>1, <2>2, ArmedTyped
<1> QED BY <1>3, <1>4

\* A call that is made keeps or replaces the deadline of the entry.
LEMMA ScheduleTyped ==
    ASSUME ArrivalsTyped, NEW due \in calls, ScheduleInboxArrival(due)
    PROVE  ArrivalsTyped'
<1>1. due \in Nat \ {0} /\ calls' \subseteq Nat \ {0}
  BY DEF ScheduleInboxArrival, ArrivalsTyped, ArrivalTypes
<1>2. /\ entry' \in [due : Nat, gen : Nat, running : BOOLEAN, retry : BOOLEAN]
      /\ timers' \subseteq [gen : Nat, at : Nat] /\ sequence' \in Nat
      /\ entry'.running = entry.running
  <2>1. /\ entry \in [due : Nat, gen : Nat, running : BOOLEAN, retry : BOOLEAN]
        /\ timers \subseteq [gen : Nat, at : Nat] /\ sequence \in Nat
    BY DEF ArrivalsTyped, ArrivalTypes
  <2>2. CASE ~Improves(due)
    BY <2>1, <2>2 DEF ScheduleInboxArrival, plan
  <2>3. CASE Improves(due) /\ entry.running
    BY <1>1, <2>1, <2>3 DEF ScheduleInboxArrival
  <2>4. CASE Improves(due) /\ ~entry.running
    <3> DEFINE e == [entry EXCEPT !.due = due]
    <3>1. Armed(e)
      BY <2>4 DEF ScheduleInboxArrival
    <3>2. e \in [due : Nat, gen : Nat, running : BOOLEAN, retry : BOOLEAN]
      BY <1>1, <2>1
    <3> HIDE DEF e
    <3> QED BY <2>1, <2>4, <3>1, <3>2, ArmedTyped
  <2> QED BY <2>2, <2>3, <2>4
<1>3. UNCHANGED <<now, fin, arrival, sourceRow, tomb, transfer, gate, missed>>
  BY DEF ScheduleInboxArrival, rows
<1>4. ArrivalTypes'
  BY <1>1, <1>2, <1>3 DEF ArrivalsTyped, ArrivalTypes
<1>5. Clocked'
  BY <1>2, <1>3 DEF ArrivalsTyped, Clocked, IsPending
<1> QED BY <1>4, <1>5 DEF ArrivalsTyped

LEMMA PrunedTyped ==
    ASSUME tomb \in [Arrived -> Nat], NEW t
    PROVE  Pruned(t) \in [Arrived -> Nat]
BY DEF Pruned

LEMMA ConsumedTyped ==
    ASSUME ArrivalTypes, NEW S, NEW t
    PROVE  ConsumedTransfers(S, t) \in [Arrived -> {"none", "dispatched", "succeeded", "consumed"}]
BY DEF ConsumedTransfers, ArrivalTypes

LEMMA HoldTyped ==
    ASSUME ArrivalsTyped, NEW a \in Arrived, HoldOrClassifyInboxArrival(a)
    PROVE  ArrivalsTyped'
<1> DEFINE c == Classify(a, now)
           due == AtMost(now + HoldTime)
           row == [state |-> c, created |-> now, due |-> IF c = "pending" THEN due ELSE now]
<1>1. now \in Nat /\ now + HoldTime \in Nat \ {0}
  BY ArrivalsAssumption DEF ArrivalsTyped, ArrivalTypes
<1>2. due \in Nat \ {0}
  BY <1>1, AtMostIsDeadline
<1>3. c \in {"local", "external", "pending"}
  BY ClassIsState
<1>4. /\ arrival' = [arrival EXCEPT ![a] = row]
      /\ calls' = IF c = "pending" THEN calls \cup {due} ELSE calls
      /\ tomb' = [Pruned(now) EXCEPT ![a] = IF c = "pending" THEN Pruned(now)[a] ELSE 0]
      /\ transfer' = ConsumedTransfers({a}, now)
      /\ UNCHANGED <<now, sourceRow, gate, entry, timers, sequence, fin, missed>>
  BY DEF HoldOrClassifyInboxArrival
<1>5. row \in ArrivalRows /\ row.created = now /\ (row.state = "pending" => row.due # 0)
  BY <1>1, <1>2, <1>3 DEF ArrivalRows
<1>6. Pruned(now) \in [Arrived -> Nat]
  BY PrunedTyped DEF ArrivalsTyped, ArrivalTypes
<1>7. transfer' \in [Arrived -> {"none", "dispatched", "succeeded", "consumed"}]
  BY <1>4, ConsumedTyped DEF ArrivalsTyped
<1>8. tomb' \in [Arrived -> Nat] /\ calls' \subseteq Nat \ {0}
  BY <1>2, <1>4, <1>6 DEF ArrivalsTyped, ArrivalTypes
<1> HIDE DEF row, c, due
<1>9. ArrivalTypes'
  BY <1>4, <1>5, <1>7, <1>8 DEF ArrivalsTyped, ArrivalTypes
<1>10. Clocked'
  BY <1>1, <1>4, <1>5 DEF ArrivalsTyped, ArrivalTypes, Clocked, IsPending
<1> QED BY <1>9, <1>10 DEF ArrivalsTyped

\* The pass moves on and the schedule is left alone.
LEMMA PassTyped ==
    ASSUME ArrivalsTyped, UNCHANGED <<now, sourceRow, gate, calls, missed>>, UNCHANGED plan,
           arrival' \in [Arrived -> ArrivalRows], tomb' \in [Arrived -> Nat],
           transfer' \in [Arrived -> {"none", "dispatched", "succeeded", "consumed"}],
           fin' \in [pc : {"idle", "list", "probe", "defer", "finalize", "next", "rearm"},
                     at : Nat, batch : SUBSET Arrived, defer : SUBSET Arrived, gen : Nat, next : Nat],
           fin'.at = fin.at, fin.pc # "idle", fin'.pc # "idle",
           \A a \in Arrived : /\ arrival'[a].created = arrival[a].created
                              /\ arrival'[a].state = "pending" => arrival'[a].due # 0
    PROVE  ArrivalsTyped'
<1>1. ArrivalTypes'
  BY DEF ArrivalsTyped, ArrivalTypes, plan
<1>2. Clocked'
  BY DEF ArrivalsTyped, Clocked, IsPending, plan
<1> QED BY <1>1, <1>2 DEF ArrivalsTyped

\* A pass that ends, well or not, leaves the schedule to Rearm.
LEMMA PassEndTyped ==
    ASSUME ArrivalsTyped, NEW due \in Nat, NEW retry \in BOOLEAN, Rearm(due, retry), fin' = IdleFin,
           UNCHANGED <<now, calls, missed>>, UNCHANGED rows
    PROVE  ArrivalsTyped'
<1>1. /\ entry' \in [due : Nat, gen : Nat, running : BOOLEAN, retry : BOOLEAN]
      /\ timers' \subseteq [gen : Nat, at : Nat] /\ sequence' \in Nat /\ ~entry'.running
  BY RearmTyped
<1>2. fin' \in [pc : {"idle", "list", "probe", "defer", "finalize", "next", "rearm"},
                at : Nat, batch : SUBSET Arrived, defer : SUBSET Arrived, gen : Nat, next : Nat]
      /\ fin'.pc = "idle" /\ fin'.at = 0
  BY DEF IdleFin
<1>3. now \in Nat
  BY DEF ArrivalsTyped, ArrivalTypes
<1>4. ArrivalTypes'
  BY <1>1, <1>2 DEF ArrivalsTyped, ArrivalTypes, rows
<1>5. Clocked'
  BY <1>1, <1>2, <1>3 DEF ArrivalsTyped, Clocked, IsPending, rows
<1> QED BY <1>4, <1>5 DEF ArrivalsTyped

LEMMA ArrivalTypesKept == ArrivalsTyped /\ [ArrivalsNext]_arrVars => ArrivalsTyped'
<1> SUFFICES ASSUME ArrivalsTyped, [ArrivalsNext]_arrVars PROVE ArrivalsTyped'
  OBVIOUS
<1>0. /\ now \in Nat /\ now \in 1..Horizon /\ Horizon \in Nat
      /\ fin \in [pc : {"idle", "list", "probe", "defer", "finalize", "next", "rearm"},
                  at : Nat, batch : SUBSET Arrived, defer : SUBSET Arrived, gen : Nat, next : Nat]
      /\ arrival \in [Arrived -> ArrivalRows] /\ tomb \in [Arrived -> Nat]
      /\ transfer \in [Arrived -> {"none", "dispatched", "succeeded", "consumed"}]
      /\ entry \in [due : Nat, gen : Nat, running : BOOLEAN, retry : BOOLEAN]
      /\ calls \subseteq Nat \ {0}
  BY ArrivalsAssumption DEF ArrivalsTyped, ArrivalTypes
<1>1. ASSUME NEW a \in Arrived, HoldOrClassifyInboxArrival(a) PROVE ArrivalsTyped'
  BY <1>1, HoldTyped
<1>2. ASSUME NEW a \in Arrived, SourceExpunged(a) PROVE ArrivalsTyped'
  <2>1. sourceRow' \in [Arrived -> BOOLEAN] /\ tomb' \in [Arrived -> Nat]
    BY <1>0, <1>2 DEF SourceExpunged, ArrivalsTyped, ArrivalTypes
  <2>2. ArrivalTypes'
    BY <1>2, <2>1 DEF SourceExpunged, ArrivalsTyped, ArrivalTypes
  <2>3. Clocked'
    BY <1>2 DEF SourceExpunged, ArrivalsTyped, Clocked, IsPending
  <2> QED BY <2>2, <2>3 DEF ArrivalsTyped
<1>3. ASSUME NEW a \in Arrived, MarkTransferSucceeded(a) PROVE ArrivalsTyped'
  <2>1. ArrivalTypes'
    BY <1>3 DEF MarkTransferSucceeded, ArrivalsTyped, ArrivalTypes
  <2>2. Clocked'
    BY <1>3 DEF MarkTransferSucceeded, ArrivalsTyped, Clocked, IsPending
  <2> QED BY <2>1, <2>2 DEF ArrivalsTyped
<1>4. CASE FinalizeGenerationRebuild
  <2> DEFINE next == NextDueOf({a \in Arrived : IsPending(a)})
  <2>1. next \in Nat
    BY NextDueIsFirst
  <2>2. UNCHANGED <<now, arrival, sourceRow, tomb, transfer, entry, timers, sequence, fin>> /\ gate' = FALSE
    BY <1>4 DEF FinalizeGenerationRebuild
  <2>3. (calls' = calls \/ (next # 0 /\ calls' = calls \cup {next})) /\ (missed' = missed \/ missed' = TRUE)
    BY <1>4 DEF FinalizeGenerationRebuild
  <2> HIDE DEF next
  <2>4. ArrivalTypes'
    BY <2>1, <2>2, <2>3 DEF ArrivalsTyped, ArrivalTypes
  <2>5. Clocked'
    BY <2>2 DEF ArrivalsTyped, Clocked, IsPending
  <2> QED BY <2>4, <2>5 DEF ArrivalsTyped
<1>5. ASSUME NEW due \in calls, ScheduleInboxArrival(due) PROVE ArrivalsTyped'
  BY <1>5, ScheduleTyped
<1>6. ASSUME NEW t \in timers, FireTimer(t) PROVE ArrivalsTyped'
  <2>1. t.gen \in Nat
    BY DEF ArrivalsTyped, ArrivalTypes
  <2>2. UNCHANGED <<now, arrival, sourceRow, tomb, transfer, gate, sequence, calls, missed>>
        /\ timers' \subseteq timers
    BY <1>6 DEF FireTimer, rows
  <2>3. CASE Current(t)
    <3>1. /\ entry' = [entry EXCEPT !.running = TRUE, !.due = 0, !.retry = FALSE]
          /\ fin' = [IdleFin EXCEPT !.pc = "list", !.at = now, !.gen = t.gen]
      BY <1>6, <2>3 DEF FireTimer
    <3>2. /\ entry' \in [due : Nat, gen : Nat, running : BOOLEAN, retry : BOOLEAN] /\ entry'.running
          /\ fin' \in [pc : {"idle", "list", "probe", "defer", "finalize", "next", "rearm"},
                       at : Nat, batch : SUBSET Arrived, defer : SUBSET Arrived, gen : Nat, next : Nat]
          /\ fin'.pc = "list" /\ fin'.at = now
      BY <1>0, <2>1, <3>1 DEF IdleFin
    <3>3. ArrivalTypes'
      BY <2>2, <3>2 DEF ArrivalsTyped, ArrivalTypes
    <3>4. Clocked'
      BY <1>0, <2>2, <3>2 DEF ArrivalsTyped, Clocked, IsPending
    <3> QED BY <3>3, <3>4 DEF ArrivalsTyped
  <2>4. CASE ~Current(t)
    <3>1. entry' = entry /\ fin' = fin
      BY <1>6, <2>4 DEF FireTimer
    <3>2. ArrivalTypes'
      BY <2>2, <3>1 DEF ArrivalsTyped, ArrivalTypes
    <3>3. Clocked'
      BY <2>2, <3>1 DEF ArrivalsTyped, Clocked, IsPending
    <3> QED BY <3>2, <3>3 DEF ArrivalsTyped
  <2> QED BY <2>3, <2>4
<1>7. \A a \in Arrived : IsPending(a) => arrival[a].due # 0
  BY DEF ArrivalsTyped, Clocked
<1>8. CASE ListDueInboxArrivals
  <2>1. DueBatch \in SUBSET Arrived
    BY DEF DueBatch
  <2>2. UNCHANGED <<now, sourceRow, gate, calls, missed, arrival, tomb, transfer>> /\ UNCHANGED plan
    BY <1>8 DEF ListDueInboxArrivals, rows
  <2>3. fin.pc = "list" /\ fin' = [fin EXCEPT !.batch = DueBatch,
                                             !.pc = IF DueBatch = {} THEN "finalize" ELSE "probe"]
    BY <1>8 DEF ListDueInboxArrivals
  <2> QED BY <1>0, <1>7, <2>1, <2>2, <2>3, PassTyped DEF IsPending
<1>9. CASE ProbeExternalInboxMoves
  <2>1. PICK unsure \in SUBSET {a \in fin.batch : sourceRow[a]} :
           /\ tomb' = [a \in Arrived |-> IF a \in fin.batch \ unsure /\ Absent(a) THEN now ELSE tomb[a]]
           /\ fin' = [fin EXCEPT !.pc = IF unsure = {} THEN "finalize" ELSE "defer", !.defer = unsure]
    BY <1>9 DEF ProbeExternalInboxMoves
  <2>2. unsure \in SUBSET Arrived /\ tomb' \in [Arrived -> Nat]
    BY <1>0, <2>1
  <2>3. fin.pc = "probe" /\ UNCHANGED <<now, sourceRow, gate, calls, missed, arrival, transfer>> /\ UNCHANGED plan
    BY <1>9 DEF ProbeExternalInboxMoves
  <2> QED BY <1>0, <1>7, <2>1, <2>2, <2>3, PassTyped DEF IsPending
<1>10. CASE DeferPendingInboxArrivalProbes
  <2>1. fin.at + RetryTime \in Nat \ {0}
    BY <1>0, ArrivalsAssumption
  <2>2. DeferredUntil \in Nat \ {0}
    BY <2>1, AtMostIsDeadline DEF DeferredUntil
  <2>3. /\ fin.pc = "defer" /\ fin' = [fin EXCEPT !.pc = "finalize"]
        /\ UNCHANGED <<now, sourceRow, gate, calls, missed, tomb, transfer>> /\ UNCHANGED plan
        /\ arrival' = [a \in Arrived |->
              IF a \in fin.defer /\ IsPending(a) THEN [arrival[a] EXCEPT !.due = DeferredUntil] ELSE arrival[a]]
    BY <1>10 DEF DeferPendingInboxArrivalProbes
  <2>4. /\ arrival' \in [Arrived -> ArrivalRows]
        /\ \A a \in Arrived : /\ arrival'[a].created = arrival[a].created
                              /\ arrival'[a].state = "pending" => arrival'[a].due # 0
    BY <1>0, <1>7, <2>2, <2>3 DEF ArrivalRows, IsPending
  <2> QED BY <1>0, <2>3, <2>4, PassTyped
<1>11. CASE FinalizeDueInboxArrivals
  <2> DEFINE D == {a \in DueBatch : fin.at < Horizon \/ a \notin fin.defer}
             M == Matched(D, fin.at)
             state(a) == IF a \in M THEN Classify(a, fin.at) ELSE "delivery"
  <2>1. /\ fin.pc = "finalize" /\ fin' = [fin EXCEPT !.pc = "next"]
        /\ UNCHANGED <<now, sourceRow, gate, calls, missed>> /\ UNCHANGED plan
        /\ arrival' = [a \in Arrived |-> IF a \in D THEN [arrival[a] EXCEPT !.state = state(a)] ELSE arrival[a]]
        /\ tomb' = [a \in Arrived |-> IF a \in M THEN 0 ELSE Pruned(fin.at)[a]]
        /\ transfer' = ConsumedTransfers(M, fin.at)
    BY <1>11 DEF FinalizeDueInboxArrivals
  <2>2. \A a \in Arrived : state(a) \in {"local", "external", "delivery"}
    <3>1. ASSUME NEW a \in M PROVE Classify(a, fin.at) \in {"local", "external"}
      BY <3>1, ClassIsState DEF Matched
    <3> HIDE DEF M
    <3> QED BY <3>1
  <2>3. Pruned(fin.at) \in [Arrived -> Nat]
    BY <1>0, PrunedTyped
  <2>4. transfer' \in [Arrived -> {"none", "dispatched", "succeeded", "consumed"}]
    BY <2>1, ConsumedTyped DEF ArrivalsTyped
  <2> HIDE DEF D, M, state
  <2>5. tomb' \in [Arrived -> Nat]
    BY <2>1, <2>3
  <2>6. /\ arrival' \in [Arrived -> ArrivalRows]
        /\ \A a \in Arrived : /\ arrival'[a].created = arrival[a].created
                              /\ arrival'[a].state = "pending" => arrival'[a].due # 0
    <3>1. ASSUME NEW a \in Arrived
          PROVE  /\ arrival'[a] \in ArrivalRows /\ arrival'[a].created = arrival[a].created
                 /\ arrival'[a].due = arrival[a].due
                 /\ arrival'[a].state = IF a \in D THEN state(a) ELSE arrival[a].state
      <4>1. arrival[a] \in ArrivalRows /\ state(a) \in {"local", "external", "delivery"}
        BY <1>0, <2>2
      <4>2. arrival'[a] = IF a \in D THEN [arrival[a] EXCEPT !.state = state(a)] ELSE arrival[a]
        BY <2>1
      <4> QED BY <4>1, <4>2 DEF ArrivalRows
    <3>2. arrival' \in [Arrived -> ArrivalRows]
      BY <2>1, <3>1
    <3> QED BY <1>7, <2>2, <3>1, <3>2 DEF IsPending
  <2> QED BY <1>0, <2>1, <2>4, <2>5, <2>6, PassTyped
<1>12. CASE NextPendingInboxArrivalDue
  <2>1. NextDueOf({a \in Arrived : Eligible(a)}) \in Nat
    BY NextDueIsFirst DEF Eligible
  <2>2. /\ UNCHANGED <<now, sourceRow, gate, calls, missed, arrival, tomb, transfer>> /\ UNCHANGED plan
        /\ fin.pc = "next" /\ fin' = [fin EXCEPT !.pc = "rearm", !.next = NextDueOf({a \in Arrived : Eligible(a)})]
    BY <1>12 DEF NextPendingInboxArrivalDue, rows
  <2> QED BY <1>0, <1>7, <2>1, <2>2, PassTyped DEF IsPending
<1>13. CASE FirePassed
  BY <1>0, <1>13, PassEndTyped DEF FirePassed, AfterPass
<1>14. CASE FinalizeFails
  <2>1. AtMost(now + RetryTime) \in Nat \ {0}
    BY <1>0, ArrivalsAssumption, AtMostIsDeadline
  <2> QED BY <1>14, <2>1, PassEndTyped DEF FinalizeFails, AfterPass
<1>15. CASE RecoverPendingInboxArrivals
  <2> DEFINE next == NextDueOf({a \in Arrived : Eligible(a)})
  <2>1. next \in Nat
    BY NextDueIsFirst DEF Eligible
  <2>2. /\ calls' = (IF next = 0 THEN {} ELSE {next}) /\ entry' = NoEntry /\ timers' = {} /\ sequence' = 0
        /\ fin' = IdleFin /\ missed' = FALSE
        /\ UNCHANGED <<now, arrival, sourceRow, tomb, transfer, gate>>
    BY <1>15 DEF RecoverPendingInboxArrivals, rows
  <2>3. /\ entry' \in [due : Nat, gen : Nat, running : BOOLEAN, retry : BOOLEAN] /\ ~entry'.running
        /\ fin' \in [pc : {"idle", "list", "probe", "defer", "finalize", "next", "rearm"},
                     at : Nat, batch : SUBSET Arrived, defer : SUBSET Arrived, gen : Nat, next : Nat]
        /\ fin'.pc = "idle" /\ fin'.at = 0
    BY <2>2 DEF NoEntry, IdleFin
  <2> HIDE DEF next
  <2>4. ArrivalTypes'
    BY <2>1, <2>2, <2>3 DEF ArrivalsTyped, ArrivalTypes
  <2>5. Clocked'
    BY <1>0, <2>2, <2>3 DEF ArrivalsTyped, Clocked, IsPending
  <2> QED BY <2>4, <2>5 DEF ArrivalsTyped
<1>16. CASE ArrivalTick
  <2>1. now' = now + 1 /\ now < Horizon /\ UNCHANGED <<calls, fin, missed>> /\ UNCHANGED rows /\ UNCHANGED plan
    BY <1>16 DEF ArrivalTick
  <2>2. now' \in 1..Horizon
    BY <1>0, <2>1
  <2>3. ArrivalTypes'
    BY <2>1, <2>2 DEF ArrivalsTyped, ArrivalTypes, rows, plan
  <2>4. \A a \in Arrived : arrival[a].created \in Nat
    BY <1>0 DEF ArrivalRows
  <2>5. Clocked'
    BY <1>0, <2>1, <2>4 DEF ArrivalsTyped, Clocked, IsPending, rows, plan
  <2> QED BY <2>3, <2>5 DEF ArrivalsTyped
<1>17. CASE UNCHANGED arrVars
  BY <1>17 DEF arrVars, ArrivalsTyped, ArrivalTypes, Clocked, IsPending
<1> QED BY <1>1, <1>2, <1>3, <1>4, <1>5, <1>6, <1>8, <1>9, <1>10, <1>11, <1>12, <1>13, <1>14, <1>15, <1>16, <1>17
        DEF ArrivalsNext, SchedulerTurn, FinalizerStep

-----------------------------------------------------------------------------
(* Somebody awaits every pending arrival. *)

EntryHasTimer ==
    entry.due # 0 /\ ~entry.running =>
        \E t \in timers : t.gen = entry.gen /\ (t.at <= entry.due \/ t.at <= now)

Called(a) == \E due \in calls : due <= arrival[a].due
Planned(a) == ~entry.running /\ entry.due # 0 /\ (entry.retry \/ entry.due <= arrival[a].due)
Noted(a) == entry.running /\ entry.due # 0 /\ entry.due <= arrival[a].due
SeenByPass(a) ==
    \/ fin.pc \in {"list", "probe", "defer", "finalize", "next"}
    \/ fin.pc = "rearm" /\ fin.next # 0 /\ fin.next <= arrival[a].due
Awaited == \A a \in Arrived : Eligible(a) /\ ~missed => Called(a) \/ Planned(a) \/ Noted(a) \/ SeenByPass(a)

TimerInv == ArrivalsTyped /\ EntryHasTimer /\ Awaited

LEMMA TimerInitially == ArrivalsInit => TimerInv
BY ArrivalsInitially
   DEF ArrivalsInit, TimerInv, EntryHasTimer, Awaited, Eligible, IsPending, NotYet, NoEntry

\* An arrival that is awaited stays so while its deadline, the calls, the schedule and
\* the pass stay.
LEMMA StillAwaited ==
    ASSUME Awaited, calls \subseteq calls', UNCHANGED <<entry, fin, gate, missed>>,
           \A a \in Arrived : IsPending(a)' => \/ IsPending(a) /\ arrival'[a].due = arrival[a].due
                                               \/ arrival'[a].due \in calls' /\ arrival'[a].due \in Nat
    PROVE  Awaited'
<1> SUFFICES ASSUME NEW a \in Arrived, Eligible(a)', ~missed'
             PROVE  Called(a)' \/ Planned(a)' \/ Noted(a)' \/ SeenByPass(a)'
  BY DEF Awaited
<1>1. IsPending(a)' /\ ~gate
  BY DEF Eligible
<1>2. CASE arrival'[a].due \in calls' /\ arrival'[a].due \in Nat
  BY <1>2 DEF Called
<1>3. CASE IsPending(a) /\ arrival'[a].due = arrival[a].due
  <2>1. Called(a) \/ Planned(a) \/ Noted(a) \/ SeenByPass(a)
    BY <1>1, <1>3 DEF Awaited, Eligible
  <2> QED BY <1>3, <2>1 DEF Called, Planned, Noted, SeenByPass
<1> QED BY <1>1, <1>2, <1>3

LEMMA SameAwaited ==
    ASSUME Awaited, UNCHANGED <<arrival, calls, entry, fin, gate, missed>>
    PROVE  Awaited'
BY DEF Awaited, Called, Planned, Noted, SeenByPass, Eligible, IsPending

\* The end of a pass arms for every arrival it saw, or repeats the pass.
LEMMA PassEndAwaited ==
    ASSUME TimerInv, NEW due \in Nat, NEW retry \in BOOLEAN, Rearm(due, retry), fin.pc # "idle",
           retry => due # 0,
           ~retry => fin.pc = "rearm" /\ fin.next = due,
           UNCHANGED <<now, calls, missed>>, UNCHANGED rows
    PROVE  EntryHasTimer' /\ Awaited'
<1>1. /\ ~entry'.running
      /\ \/ due = 0 /\ entry.due = 0 /\ entry'.due = 0
         \/ /\ entry'.due # 0 /\ entry'.retry = retry
            /\ due # 0 => entry'.due <= due
            /\ entry.due # 0 => entry'.due <= entry.due
            /\ \E t \in timers' : t.gen = entry'.gen /\ (t.at <= entry'.due \/ t.at <= now)
  BY RearmTyped DEF TimerInv
<1>2. /\ entry \in [due : Nat, gen : Nat, running : BOOLEAN, retry : BOOLEAN] /\ entry'.due \in Nat
      /\ arrival \in [Arrived -> ArrivalRows] /\ entry.running
      /\ now' = now /\ calls' = calls /\ missed' = missed /\ arrival' = arrival /\ gate' = gate
  BY RearmTyped DEF TimerInv, ArrivalsTyped, ArrivalTypes, Clocked, rows
<1>3. EntryHasTimer'
  BY <1>1, <1>2 DEF EntryHasTimer
<1>4. ASSUME NEW a \in Arrived, Eligible(a)', ~missed' PROVE Called(a)' \/ Planned(a)'
  <2>1. Eligible(a) /\ ~missed
    BY <1>2, <1>4 DEF Eligible, IsPending
  <2>2. Called(a) \/ Planned(a) \/ Noted(a) \/ SeenByPass(a)
    BY <2>1 DEF TimerInv, Awaited
  <2>3. arrival[a].due \in Nat
    BY <1>2 DEF ArrivalRows
  <2>4. CASE retry
    BY <1>1, <1>2, <2>4 DEF Planned
  <2>5. CASE ~retry /\ Called(a)
    BY <1>2, <2>5 DEF Called
  <2>6. CASE ~retry /\ ~Called(a)
    <3>1. \/ entry.due # 0 /\ entry.due <= arrival[a].due
          \/ due # 0 /\ due <= arrival[a].due
      BY <1>2, <2>2, <2>6 DEF Planned, Noted, SeenByPass
    <3>2. entry'.due # 0 /\ entry'.due <= arrival[a].due
      BY <1>1, <1>2, <2>3, <3>1
    <3> QED BY <1>1, <1>2, <3>2 DEF Planned
  <2> QED BY <2>4, <2>5, <2>6
<1>5. Awaited'
  BY <1>4 DEF Awaited
<1> QED BY <1>3, <1>5

\* A call that is made hands its deadline to the schedule.
LEMMA ScheduleAwaited ==
    ASSUME TimerInv, NEW due \in calls, ScheduleInboxArrival(due)
    PROVE  EntryHasTimer' /\ Awaited'
<1>1. /\ due \in Nat \ {0} /\ calls' = calls \ {due} /\ calls \subseteq Nat
      /\ UNCHANGED <<now, fin, missed, arrival, gate>>
      /\ entry \in [due : Nat, gen : Nat, running : BOOLEAN, retry : BOOLEAN]
      /\ arrival \in [Arrived -> ArrivalRows]
  BY DEF ScheduleInboxArrival, rows, TimerInv, ArrivalsTyped, ArrivalTypes
<1>2. /\ EntryHasTimer' /\ (entry'.running <=> entry.running) /\ entry'.retry = entry.retry
      /\ entry'.due \in Nat \ {0} /\ entry'.due <= due
      /\ entry.due # 0 => entry'.due <= entry.due
  <2>1. CASE ~Improves(due)
    <3>1. entry' = entry /\ timers' = timers
      BY <2>1 DEF ScheduleInboxArrival, plan
    <3>2. entry.due # 0 /\ entry.due <= due
      BY <1>1, <2>1 DEF Improves
    <3> QED BY <1>1, <3>1, <3>2 DEF TimerInv, EntryHasTimer
  <2>2. CASE Improves(due) /\ entry.running
    <3>1. entry' = [entry EXCEPT !.due = due]
      BY <2>2 DEF ScheduleInboxArrival
    <3>2. entry.due # 0 => due <= entry.due
      BY <1>1, <2>2 DEF Improves
    <3>3. entry'.running /\ entry'.retry = entry.retry /\ entry'.due = due
      BY <1>1, <2>2, <3>1
    <3>4. EntryHasTimer'
      BY <3>3 DEF EntryHasTimer
    <3> QED BY <1>1, <2>2, <3>2, <3>3, <3>4
  <2>3. CASE Improves(due) /\ ~entry.running
    <3> DEFINE e == [entry EXCEPT !.due = due]
    <3>1. Armed(e)
      BY <2>3 DEF ScheduleInboxArrival
    <3>2. e \in [due : Nat, gen : Nat, running : BOOLEAN, retry : BOOLEAN] /\ e.due = due /\ e.retry = entry.retry
      BY <1>1
    <3>3. entry.due # 0 => due <= entry.due
      BY <1>1, <2>3 DEF Improves
    <3> HIDE DEF e
    <3>4. /\ ~entry'.running /\ entry'.due = due /\ entry'.retry = entry.retry
          /\ \E t \in timers' : t.gen = entry'.gen /\ (t.at <= due \/ t.at <= now)
      BY <3>1, <3>2, ArmedTyped DEF TimerInv
    <3>5. EntryHasTimer'
      BY <1>1, <3>4 DEF EntryHasTimer
    <3>6. entry'.running <=> entry.running
      BY <2>3, <3>4
    <3> QED BY <1>1, <3>3, <3>4, <3>5, <3>6
  <2> QED BY <2>1, <2>2, <2>3
<1>3. ASSUME NEW a \in Arrived, Eligible(a)', ~missed'
      PROVE  Called(a)' \/ Planned(a)' \/ Noted(a)' \/ SeenByPass(a)'
  <2>1. Eligible(a) /\ ~missed /\ arrival[a].due \in Nat
    BY <1>1, <1>3 DEF Eligible, IsPending, ArrivalRows
  <2>2. Called(a) \/ Planned(a) \/ Noted(a) \/ SeenByPass(a)
    BY <2>1 DEF TimerInv, Awaited
  <2>3. CASE due <= arrival[a].due
    <3>1. entry'.due <= arrival[a].due
      BY <1>1, <1>2, <2>1, <2>3
    <3> QED BY <1>1, <1>2, <3>1 DEF Planned, Noted
  <2>4. CASE Called(a) /\ ~(due <= arrival[a].due)
    BY <1>1, <2>4 DEF Called
  <2>5. CASE Planned(a) \/ Noted(a)
    <3>1. entry'.due <= entry.due
      BY <1>2, <2>5 DEF Planned, Noted
    <3>2. entry.due <= arrival[a].due => entry'.due <= arrival[a].due
      BY <1>1, <1>2, <2>1, <3>1
    <3> QED BY <1>1, <1>2, <2>5, <3>2 DEF Planned, Noted
  <2>6. CASE SeenByPass(a)
    BY <1>1, <2>6 DEF SeenByPass
  <2> QED BY <2>2, <2>3, <2>4, <2>5, <2>6
<1>4. Awaited'
  BY <1>3 DEF Awaited
<1> QED BY <1>2, <1>4

LEMMA TimerKept == TimerInv /\ [ArrivalsNext]_arrVars => TimerInv'
<1> SUFFICES ASSUME TimerInv, [ArrivalsNext]_arrVars PROVE EntryHasTimer' /\ Awaited'
  BY ArrivalTypesKept DEF TimerInv
<1>0. /\ now \in Nat /\ calls \subseteq Nat /\ arrival \in [Arrived -> ArrivalRows]
      /\ entry \in [due : Nat, gen : Nat, running : BOOLEAN, retry : BOOLEAN]
      /\ fin \in [pc : {"idle", "list", "probe", "defer", "finalize", "next", "rearm"},
                  at : Nat, batch : SUBSET Arrived, defer : SUBSET Arrived, gen : Nat, next : Nat]
      /\ EntryHasTimer /\ Awaited /\ ArrivalsTyped /\ (entry.running <=> fin.pc # "idle")
  BY DEF TimerInv, ArrivalsTyped, ArrivalTypes, Clocked
<1>1. ASSUME NEW a \in Arrived, HoldOrClassifyInboxArrival(a) PROVE EntryHasTimer' /\ Awaited'
  <2> DEFINE c == Classify(a, now)
             due == AtMost(now + HoldTime)
  <2>1. now + HoldTime \in Nat \ {0}
    BY <1>0, ArrivalsAssumption
  <2>2. due \in Nat
    BY <2>1, AtMostIsDeadline
  <2>3. /\ arrival' = [arrival EXCEPT ![a] =
              [state |-> c, created |-> now, due |-> IF c = "pending" THEN due ELSE now]]
        /\ calls' = (IF c = "pending" THEN calls \cup {due} ELSE calls)
        /\ UNCHANGED <<now, gate, entry, timers, fin, missed>>
    BY <1>1 DEF HoldOrClassifyInboxArrival
  <2> HIDE DEF c, due
  <2>4. \A b \in Arrived : IsPending(b)' => \/ IsPending(b) /\ arrival'[b].due = arrival[b].due
                                            \/ arrival'[b].due \in calls' /\ arrival'[b].due \in Nat
    <3> SUFFICES ASSUME NEW b \in Arrived, IsPending(b)'
                 PROVE  \/ IsPending(b) /\ arrival'[b].due = arrival[b].due
                        \/ arrival'[b].due \in calls' /\ arrival'[b].due \in Nat
      OBVIOUS
    <3>1. CASE b # a
      BY <1>0, <2>3, <3>1 DEF IsPending
    <3>2. CASE b = a
      <4>1. arrival'[b].state = c /\ c = "pending" /\ arrival'[b].due = due
        BY <1>0, <2>3, <3>2 DEF IsPending
      <4> QED BY <2>2, <2>3, <4>1
    <3> QED BY <3>1, <3>2
  <2>5. calls \subseteq calls'
    BY <2>3
  <2>6. Awaited'
    BY <1>0, <2>3, <2>4, <2>5, StillAwaited
  <2> QED BY <1>0, <2>3, <2>6 DEF EntryHasTimer
<1>2. CASE UNCHANGED <<now, arrival, gate, calls, missed, fin>> /\ UNCHANGED plan
  <2>1. UNCHANGED <<now, entry, timers, arrival, calls, fin, gate, missed>>
    BY <1>2 DEF plan
  <2>2. EntryHasTimer'
    BY <1>0, <2>1 DEF EntryHasTimer
  <2> QED BY <1>0, <2>1, <2>2, SameAwaited
<1>3. ASSUME NEW a \in Arrived, SourceExpunged(a) \/ MarkTransferSucceeded(a) PROVE EntryHasTimer' /\ Awaited'
  BY <1>2, <1>3 DEF SourceExpunged, MarkTransferSucceeded, plan
<1>4. CASE FinalizeGenerationRebuild
  <2> DEFINE next == NextDueOf({a \in Arrived : IsPending(a)})
  <2>1. UNCHANGED <<now, arrival, entry, timers, fin>>
        /\ ((missed' = TRUE) \/ (missed' = missed /\ calls' = (IF next = 0 THEN calls ELSE calls \cup {next})))
    BY <1>4 DEF FinalizeGenerationRebuild
  <2>2. ASSUME NEW a \in Arrived, Eligible(a)', ~missed' PROVE Called(a)'
    <3>1. IsPending(a)
      BY <2>1, <2>2 DEF Eligible, IsPending
    <3>2. next # 0 /\ next <= arrival[a].due
      BY <1>0, <3>1, NextDueIsFirst
    <3>3. calls' = calls \cup {next}
      BY <2>1, <2>2, <3>2
    <3> HIDE DEF next
    <3> QED BY <2>1, <3>2, <3>3 DEF Called
  <2> QED BY <1>0, <2>1, <2>2 DEF Awaited, EntryHasTimer
<1>5. ASSUME NEW due \in calls, ScheduleInboxArrival(due) PROVE EntryHasTimer' /\ Awaited'
  BY <1>5, ScheduleAwaited
<1>6. ASSUME NEW t \in timers, FireTimer(t) PROVE EntryHasTimer' /\ Awaited'
  <2>1. UNCHANGED <<now, arrival, gate, calls, missed>> /\ timers' = timers \ {t}
    BY <1>6 DEF FireTimer, rows
  <2>2. CASE Current(t)
    <3>1. entry'.due = 0 /\ fin'.pc = "list"
      BY <1>0, <1>6, <2>2 DEF FireTimer, IdleFin
    <3> QED BY <3>1 DEF EntryHasTimer, Awaited, SeenByPass
  <2>3. CASE ~Current(t)
    <3>1. entry' = entry /\ fin' = fin
      BY <1>6, <2>3 DEF FireTimer
    <3>2. EntryHasTimer'
      BY <1>0, <2>1, <2>3, <3>1 DEF EntryHasTimer, Current
    <3>3. Awaited'
      BY <1>0, <2>1, <3>1, SameAwaited
    <3> QED BY <3>2, <3>3
  <2> QED BY <2>2, <2>3
<1>7. CASE UNCHANGED <<now, entry, timers>> /\ fin'.pc \in {"list", "probe", "defer", "finalize", "next"}
  BY <1>0, <1>7 DEF EntryHasTimer, Awaited, SeenByPass
<1>8. CASE ListDueInboxArrivals
  <2>1. UNCHANGED <<now, entry, timers>> /\ fin'.pc \in {"finalize", "probe"}
    BY <1>0, <1>8 DEF ListDueInboxArrivals, plan
  <2> QED BY <1>7, <2>1
<1>9. CASE ProbeExternalInboxMoves
  <2>1. UNCHANGED <<now, entry, timers>> /\ fin'.pc \in {"finalize", "defer"}
    BY <1>0, <1>9 DEF ProbeExternalInboxMoves, plan
  <2> QED BY <1>7, <2>1
<1>10. CASE DeferPendingInboxArrivalProbes \/ FinalizeDueInboxArrivals
  <2>1. UNCHANGED <<now, entry, timers>> /\ fin'.pc \in {"finalize", "next"}
    BY <1>0, <1>10 DEF DeferPendingInboxArrivalProbes, FinalizeDueInboxArrivals, plan
  <2> QED BY <1>7, <2>1
<1>11. CASE NextPendingInboxArrivalDue
  <2> DEFINE next == NextDueOf({a \in Arrived : Eligible(a)})
  <2>1. UNCHANGED <<now, entry, timers, arrival, gate>> /\ fin'.pc = "rearm" /\ fin'.next = next
    BY <1>0, <1>11 DEF NextPendingInboxArrivalDue, plan, rows
  <2>2. ASSUME NEW a \in Arrived, Eligible(a)' PROVE SeenByPass(a)'
    <3>1. Eligible(a)
      BY <2>1, <2>2 DEF Eligible, IsPending
    <3>2. next # 0 /\ next <= arrival[a].due
      BY <1>0, <3>1, NextDueIsFirst DEF Eligible
    <3> QED BY <2>1, <3>2 DEF SeenByPass
  <2> QED BY <1>0, <2>1, <2>2 DEF EntryHasTimer, Awaited
<1>12. CASE FirePassed
  <2>1. /\ fin.pc = "rearm" /\ Rearm(fin.next, FALSE)
        /\ UNCHANGED <<now, calls, missed>> /\ UNCHANGED rows
    BY <1>12 DEF FirePassed, AfterPass
  <2> QED BY <1>0, <2>1, PassEndAwaited
<1>13. CASE FinalizeFails
  <2>1. now + RetryTime \in Nat \ {0}
    BY <1>0, ArrivalsAssumption
  <2>2. /\ fin.pc # "idle" /\ Rearm(AtMost(now + RetryTime), TRUE)
        /\ UNCHANGED <<now, calls, missed>> /\ UNCHANGED rows
    BY <1>13 DEF FinalizeFails, AfterPass
  <2>3. AtMost(now + RetryTime) \in Nat \ {0}
    BY <2>1, AtMostIsDeadline
  <2> QED BY <1>0, <2>2, <2>3, PassEndAwaited
<1>14. CASE RecoverPendingInboxArrivals
  <2> DEFINE next == NextDueOf({a \in Arrived : Eligible(a)})
  <2>1. /\ calls' = (IF next = 0 THEN {} ELSE {next}) /\ entry' = NoEntry /\ UNCHANGED <<arrival, gate>>
    BY <1>14 DEF RecoverPendingInboxArrivals, rows
  <2>2. ASSUME NEW a \in Arrived, Eligible(a)' PROVE Called(a)'
    <3>1. Eligible(a)
      BY <2>1, <2>2 DEF Eligible, IsPending
    <3>2. next # 0 /\ next <= arrival[a].due
      BY <1>0, <3>1, NextDueIsFirst DEF Eligible
    <3> QED BY <2>1, <3>2 DEF Called
  <2> QED BY <2>1, <2>2 DEF EntryHasTimer, Awaited, NoEntry
<1>15. CASE ArrivalTick
  <2>1. now' = now + 1 /\ UNCHANGED <<arrival, gate, calls, fin, missed, entry, timers>>
    BY <1>15 DEF ArrivalTick, rows, plan
  <2>2. \A t \in timers : t.at \in Nat
    BY DEF TimerInv, ArrivalsTyped, ArrivalTypes
  <2>3. EntryHasTimer'
    BY <1>0, <2>1, <2>2 DEF EntryHasTimer
  <2> QED BY <1>0, <2>1, <2>3, SameAwaited
<1>16. CASE UNCHANGED arrVars
  BY <1>2, <1>16 DEF arrVars, plan
<1> QED BY <1>1, <1>3, <1>4, <1>5, <1>6, <1>8, <1>9, <1>10, <1>11, <1>12, <1>13, <1>14, <1>15, <1>16
        DEF ArrivalsNext, SchedulerTurn, FinalizerStep

\* When nothing is on its way to the scheduler, the timer of the entry is what is left.
LEMMA AwaitedByTimer == TimerInv => PendingHasTimer
<1> SUFFICES ASSUME TimerInv, NEW a \in Arrived, Eligible(a), ~missed, calls = {}, ~entry.running
             PROVE  \E t \in timers : /\ t.gen = entry.gen
                                      /\ \/ entry.retry
                                         \/ t.at <= arrival[a].due \/ t.at <= now
  BY DEF PendingHasTimer
<1>1. Planned(a)
  BY DEF TimerInv, Awaited, ArrivalsTyped, Clocked, Called, Noted, SeenByPass
<1>2. PICK t \in timers : t.gen = entry.gen /\ (t.at <= entry.due \/ t.at <= now)
  BY <1>1 DEF TimerInv, EntryHasTimer, Planned
<1>3. t.at \in Nat /\ entry.due \in Nat /\ arrival[a].due \in Nat
  BY DEF TimerInv, ArrivalsTyped, ArrivalTypes, ArrivalRows
<1>4. entry.retry \/ t.at <= arrival[a].due \/ t.at <= now
  <2>1. entry.retry \/ entry.due <= arrival[a].due
    BY <1>1 DEF Planned
  <2>2. entry.due <= arrival[a].due /\ t.at <= entry.due => t.at <= arrival[a].due
    BY <1>3
  <2> QED BY <1>2, <2>1, <2>2
<1> QED BY <1>2, <1>4

LEMMA TimerAlways == ArrivalsSpec => []TimerInv
<1> QED BY TimerInitially, TimerKept, PTL DEF ArrivalsSpec

-----------------------------------------------------------------------------
(* New mail is announced. *)

\* Nothing is on record that could make new mail look like a move.
NewIsUnmatched == \A a \in Arrived : ~Gone(a) => transfer[a] = "none" /\ tomb[a] = 0
NewInv == NewIsUnmatched /\ NewIsAnnounced

LEMMA NewIsPending ==
    ASSUME NewInv, NEW a \in Arrived, ~Gone(a), NEW t
    PROVE  Classify(a, t) = "pending" /\ ~Usable(a, t)
BY DEF NewInv, NewIsUnmatched, Classify, Usable

LEMMA NewUndisturbed ==
    ASSUME NewInv, UNCHANGED <<kind, arrival, tomb, transfer>>
    PROVE  NewInv'
BY DEF NewInv, NewIsUnmatched, NewIsAnnounced, Gone

LEMMA NewKept == ArrivalsTyped /\ NewInv /\ [ArrivalsNext]_arrVars => NewInv'
<1> SUFFICES ASSUME ArrivalsTyped, NewInv, [ArrivalsNext]_arrVars PROVE NewInv'
  OBVIOUS
<1>0. /\ arrival \in [Arrived -> ArrivalRows] /\ tomb \in [Arrived -> Nat]
      /\ transfer \in [Arrived -> {"none", "dispatched", "succeeded", "consumed"}]
  BY DEF ArrivalsTyped, ArrivalTypes
<1>1. ASSUME NEW a \in Arrived, HoldOrClassifyInboxArrival(a) PROVE NewInv'
  <2> DEFINE row == [state |-> Classify(a, now), created |-> now,
                     due |-> IF Classify(a, now) = "pending" THEN AtMost(now + HoldTime) ELSE now]
  <2>1. /\ kind' = kind /\ arrival' = [arrival EXCEPT ![a] = row]
        /\ tomb' = [Pruned(now) EXCEPT ![a] = IF Classify(a, now) = "pending" THEN Pruned(now)[a] ELSE 0]
        /\ transfer' = ConsumedTransfers({a}, now)
    BY <1>1 DEF HoldOrClassifyInboxArrival
  <2>2. ~Gone(a) => row.state = "pending"
    BY NewIsPending
  <2> HIDE DEF row
  <2>3. ASSUME NEW b \in Arrived, ~Gone(b)
        PROVE  transfer'[b] = "none" /\ tomb'[b] = 0 /\ arrival'[b].state \in {"none", "pending", "delivery"}
    <3>1. Classify(b, now) = "pending" /\ ~Usable(b, now)
      BY <2>3, NewIsPending
    <3>2. transfer'[b] = "none" /\ tomb'[b] = 0
      BY <2>1, <2>3, <3>1 DEF ConsumedTransfers, Pruned, NewInv, NewIsUnmatched
    <3>3. arrival'[b].state \in {"none", "pending", "delivery"}
      BY <1>0, <2>1, <2>2, <2>3 DEF NewInv, NewIsAnnounced
    <3> QED BY <3>2, <3>3
  <2> QED BY <2>1, <2>3 DEF NewInv, NewIsUnmatched, NewIsAnnounced, Gone
<1>2. ASSUME NEW a \in Arrived, SourceExpunged(a) PROVE NewInv'
  BY <1>0, <1>2 DEF SourceExpunged, NewInv, NewIsUnmatched, NewIsAnnounced, Gone
<1>3. ASSUME NEW a \in Arrived, MarkTransferSucceeded(a) PROVE NewInv'
  BY <1>0, <1>3 DEF MarkTransferSucceeded, NewInv, NewIsUnmatched, NewIsAnnounced, Gone
<1>4. CASE ProbeExternalInboxMoves
  <2>1. PICK sure \in SUBSET Arrived :
           tomb' = [a \in Arrived |-> IF a \in sure /\ Absent(a) THEN now ELSE tomb[a]]
    <3>1. PICK unsure \in SUBSET {a \in fin.batch : sourceRow[a]} :
             tomb' = [a \in Arrived |-> IF a \in fin.batch \ unsure /\ Absent(a) THEN now ELSE tomb[a]]
      BY <1>4 DEF ProbeExternalInboxMoves
    <3>2. fin.batch \ unsure \in SUBSET Arrived
      BY DEF ArrivalsTyped, ArrivalTypes
    <3> QED BY <3>1, <3>2
  <2>2. UNCHANGED <<kind, arrival, transfer>>
    BY <1>4 DEF ProbeExternalInboxMoves
  <2> QED BY <2>1, <2>2 DEF NewInv, NewIsUnmatched, NewIsAnnounced, Gone, Absent
<1>5. CASE DeferPendingInboxArrivalProbes
  <2>1. UNCHANGED <<kind, tomb, transfer>> /\ \A a \in Arrived : arrival'[a].state = arrival[a].state
    BY <1>0, <1>5 DEF DeferPendingInboxArrivalProbes, ArrivalRows
  <2> QED BY <2>1 DEF NewInv, NewIsUnmatched, NewIsAnnounced, Gone
<1>6. CASE FinalizeDueInboxArrivals
  <2> DEFINE D == {a \in DueBatch : fin.at < Horizon \/ a \notin fin.defer}
             M == Matched(D, fin.at)
  <2>1. /\ kind' = kind
        /\ arrival' = [a \in Arrived |->
               IF a \in D THEN [arrival[a] EXCEPT !.state = IF a \in M THEN Classify(a, fin.at) ELSE "delivery"]
               ELSE arrival[a]]
        /\ tomb' = [a \in Arrived |-> IF a \in M THEN 0 ELSE Pruned(fin.at)[a]]
        /\ transfer' = ConsumedTransfers(M, fin.at)
    BY <1>6 DEF FinalizeDueInboxArrivals
  <2>2. ASSUME NEW b \in Arrived, ~Gone(b)
        PROVE  transfer'[b] = "none" /\ tomb'[b] = 0 /\ arrival'[b].state \in {"none", "pending", "delivery"}
    <3>1. Classify(b, fin.at) = "pending" /\ ~Usable(b, fin.at)
      BY <2>2, NewIsPending
    <3>2. b \notin M
      BY <3>1 DEF Matched
    <3> HIDE DEF D, M
    <3>3. transfer'[b] = "none" /\ tomb'[b] = 0
      BY <2>1, <2>2, <3>1, <3>2 DEF ConsumedTransfers, Pruned, NewInv, NewIsUnmatched
    <3>4. arrival'[b].state \in {"none", "pending", "delivery"}
      BY <1>0, <2>1, <2>2, <3>2 DEF NewInv, NewIsAnnounced, ArrivalRows
    <3> QED BY <3>3, <3>4
  <2> QED BY <2>1, <2>2 DEF NewInv, NewIsUnmatched, NewIsAnnounced, Gone
<1>7. CASE UNCHANGED <<kind, arrival, tomb, transfer>>
  BY <1>7, NewUndisturbed
<1>8. CASE FinalizeGenerationRebuild
  BY <1>7, <1>8 DEF FinalizeGenerationRebuild
<1>9. ASSUME NEW due \in calls, ScheduleInboxArrival(due) PROVE NewInv'
  BY <1>7, <1>9 DEF ScheduleInboxArrival, rows
<1>10. ASSUME NEW t \in timers, FireTimer(t) PROVE NewInv'
  BY <1>7, <1>10 DEF FireTimer, rows
<1>11. CASE \/ ListDueInboxArrivals \/ NextPendingInboxArrivalDue \/ FirePassed \/ FinalizeFails
            \/ RecoverPendingInboxArrivals \/ ArrivalTick
  BY <1>7, <1>11 DEF ListDueInboxArrivals, NextPendingInboxArrivalDue, FirePassed, FinalizeFails,
                     RecoverPendingInboxArrivals, ArrivalTick, rows
<1>12. CASE UNCHANGED arrVars
  BY <1>7, <1>12 DEF arrVars
<1> QED BY <1>1, <1>2, <1>3, <1>4, <1>5, <1>6, <1>8, <1>9, <1>10, <1>11, <1>12
        DEF ArrivalsNext, SchedulerTurn, FinalizerStep

LEMMA NewInitially == ArrivalsInit => NewInv
BY DEF ArrivalsInit, NewInv, NewIsUnmatched, NewIsAnnounced, Gone, ArrivalKinds, NotYet

-----------------------------------------------------------------------------
(* Moves are not announced. *)

\* Batches and probes are of arrivals there are, while nothing is rebuilt.
BatchArrived ==
    /\ probed \subseteq Arrived
    /\ probed \cup fin.batch # {} => ~gate
    /\ \A a \in Arrived : a \in probed \cup fin.batch => arrival[a].state # "none"
    /\ \A a \in fin.batch : fin.pc = "probe" => IsPending(a)
    /\ fin.defer \subseteq fin.batch
    /\ fin.pc \in {"list", "probe"} => fin.defer = {}

\* The tombstone of a source that is gone lasts as long as the arrival is pending.
TombBelieved ==
    \A a \in Arrived : IsPending(a) /\ Gone(a) /\ ~sourceRow[a] /\ a \notin late =>
        /\ tomb[a] # 0
        /\ arrival[a].created <= tomb[a] + TombstoneTTL
        /\ tomb[a] <= arrival[a].created + TombstoneTTL

\* What the probe of a pass found is still fresh when the pass finalizes.
ProbeIsFresh ==
    \A a \in fin.batch \ fin.defer :
        fin.pc \in {"defer", "finalize"} /\ IsPending(a) /\ Gone(a) /\ sourceRow[a] => tomb[a] = now

\* A pass probes every arrival that was probed before and is due again, and
\* postpones those it could not probe.
ProbedAgain ==
    \A a \in probed : IsPending(a) =>
        /\ fin.pc \in {"probe", "defer", "finalize"} /\ arrival[a].due <= fin.at => a \in fin.batch
        /\ fin.pc = "finalize" /\ a \in fin.defer /\ fin.at < Horizon => fin.at < arrival[a].due

MovedInv == BatchArrived /\ TombBelieved /\ ProbeIsFresh /\ ProbedAgain /\ MovedNotAnnounced

\* A batch that is not cut off holds all that is due.
LEMMA BatchIsDue ==
    ASSUME Cardinality(Arrived) <= FinalizeBatch, ArrivalsTyped
    PROVE  DueBatch = {a \in Arrived : Eligible(a) /\ arrival[a].due <= fin.at}
<1> DEFINE due == {a \in Arrived : Eligible(a) /\ arrival[a].due <= fin.at}
<1>1. ASSUME NEW a \in due PROVE Cardinality({b \in due : Before(b, a)}) < FinalizeBatch
  <2> DEFINE earlier == {b \in due : Before(b, a)}
  <2>1. arrival[a].due \in Nat /\ a \in Nat
    BY ArrivalsAssumption DEF ArrivalsTyped, ArrivalTypes, ArrivalRows
  <2>2. earlier \subseteq Arrived \ {a}
    BY <2>1 DEF Before
  <2>3. IsFiniteSet(Arrived) /\ a \in Arrived
    BY ArrivalsAssumption
  <2>4. IsFiniteSet(Arrived \ {a}) /\ Cardinality(Arrived \ {a}) = Cardinality(Arrived) - 1
    BY <2>3, FS_RemoveElement
  <2> HIDE DEF earlier
  <2>5. Cardinality(earlier) <= Cardinality(Arrived \ {a}) /\ IsFiniteSet(earlier)
    BY <2>2, <2>4, FS_Subset
  <2>6. Cardinality(earlier) \in Nat /\ Cardinality(Arrived) \in Nat /\ FinalizeBatch \in Nat
    BY <2>3, <2>5, FS_CardinalityType, ArrivalsAssumption
  <2> QED BY <2>4, <2>5, <2>6 DEF earlier
<1> QED BY <1>1 DEF DueBatch

\* A tombstone that is usable outlives a pruning.
LEMMA BelievedIsUsable ==
    ASSUME ArrivalsTyped, TombBelieved, NEW t, NEW a \in Arrived,
           IsPending(a), Gone(a), ~sourceRow[a], a \notin late
    PROVE  Usable(a, t) /\ Pruned(t)[a] = tomb[a]
<1>1. Usable(a, t)
  BY DEF TombBelieved, Usable
<1> QED BY <1>1 DEF Pruned

LEMMA FreshIsUsable ==
    ASSUME ArrivalsTyped, NEW t \in Nat, t <= now, NEW a \in Arrived, tomb[a] = now
    PROVE  Usable(a, t) /\ Pruned(t)[a] = tomb[a]
<1>1. now \in Nat \ {0} /\ TombstoneTTL \in Nat \ {0}
  BY ArrivalsAssumption DEF ArrivalsTyped, ArrivalTypes
<1>2. Usable(a, t)
  BY <1>1 DEF Usable
<1> QED BY <1>2 DEF Pruned

\* A step of the scheduler, or of a pass that probes and finalizes nothing.
LEMMA MovedUndisturbed ==
    ASSUME MovedInv, UNCHANGED <<kind, arrival, sourceRow, tomb, gate, probed, late>>,
           \/ now' = now /\ fin' = fin
           \/ fin' = fin /\ fin.pc \notin {"defer", "finalize"}
           \/ fin'.batch = {} /\ fin'.defer = {} /\ fin'.pc \in {"idle", "list"}
           \/ fin'.batch = fin.batch /\ fin'.defer = fin.defer /\ fin'.pc = "rearm"
    PROVE  MovedInv'
<1>1. BatchArrived'
  BY DEF MovedInv, BatchArrived, IsPending
<1>2. TombBelieved' /\ MovedNotAnnounced'
  BY DEF MovedInv, TombBelieved, MovedNotAnnounced, IsPending, Gone
<1>3. ProbeIsFresh'
  BY DEF MovedInv, ProbeIsFresh, IsPending, Gone
<1>4. ProbedAgain'
  BY DEF MovedInv, ProbedAgain, IsPending
<1> QED BY <1>1, <1>2, <1>3, <1>4 DEF MovedInv

LEMMA MovedInitially == ArrivalsInit => MovedInv
BY DEF ArrivalsInit, MovedInv, BatchArrived, TombBelieved, ProbeIsFresh, ProbedAgain, MovedNotAnnounced,
       IsPending, NotYet, IdleFin

LEMMA HoldMoved ==
    ASSUME ArrivalsTyped, MovedInv, NEW a \in Arrived, HoldOrClassifyInboxArrival(a)
    PROVE  MovedInv'
<1> DEFINE c == Classify(a, now)
           row == [state |-> c, created |-> now, due |-> IF c = "pending" THEN AtMost(now + HoldTime) ELSE now]
<1>1. /\ arrival \in [Arrived -> ArrivalRows] /\ tomb \in [Arrived -> Nat] /\ now \in Nat
      /\ arrival[a] = NotYet
  BY DEF ArrivalsTyped, ArrivalTypes, HoldOrClassifyInboxArrival
<1>2. /\ arrival' = [arrival EXCEPT ![a] = row]
      /\ tomb' = [Pruned(now) EXCEPT ![a] = IF c = "pending" THEN Pruned(now)[a] ELSE 0]
      /\ late' = IF Gone(a) /\ ~sourceRow[a] /\ c = "pending" THEN late \cup {a} ELSE late
      /\ UNCHANGED <<now, kind, sourceRow, gate, fin, probed>>
  BY DEF HoldOrClassifyInboxArrival
<1>3. row.state = c /\ c \in {"local", "external", "pending"}
  BY ClassIsState
<1> HIDE DEF row, c
<1>4. a \notin probed /\ a \notin fin.batch
  BY <1>1 DEF MovedInv, BatchArrived, NotYet
<1>5. \A b \in Arrived \ {a} : arrival'[b] = arrival[b] /\ tomb'[b] = Pruned(now)[b]
  BY <1>1, <1>2, PrunedTyped
<1>6. arrival'[a] = row
  BY <1>1, <1>2
<1>7. fin.batch \subseteq Arrived
  BY DEF ArrivalsTyped, ArrivalTypes
<1>8. BatchArrived'
  BY <1>2, <1>4, <1>5, <1>7 DEF MovedInv, BatchArrived, IsPending
<1>9. ASSUME NEW b \in Arrived, arrival'[b].state = "pending", Gone(b), ~sourceRow[b], b \notin late'
      PROVE  /\ tomb'[b] # 0
             /\ arrival'[b].created <= tomb'[b] + TombstoneTTL
             /\ tomb'[b] <= arrival'[b].created + TombstoneTTL
  <2>1. b # a
    BY <1>2, <1>3, <1>6, <1>9
  <2>2. arrival'[b] = arrival[b] /\ b \notin late
    BY <1>2, <1>5, <1>9, <2>1
  <2>3. tomb'[b] = tomb[b]
    BY <1>5, <1>9, <2>1, <2>2, BelievedIsUsable DEF MovedInv, IsPending
  <2> QED BY <1>9, <2>2, <2>3 DEF MovedInv, TombBelieved, IsPending
<1>10. TombBelieved'
  BY <1>2, <1>9 DEF TombBelieved, IsPending, Gone
<1>11. ASSUME NEW b \in fin.batch \ fin.defer, fin.pc \in {"defer", "finalize"}, arrival'[b].state = "pending",
              Gone(b), sourceRow[b]
       PROVE  tomb'[b] = now
  <2>1. b \in Arrived \ {a} /\ arrival'[b] = arrival[b] /\ tomb'[b] = Pruned(now)[b]
    BY <1>4, <1>5, <1>7
  <2>2. tomb[b] = now
    BY <1>11, <2>1 DEF MovedInv, ProbeIsFresh, IsPending
  <2> QED BY <1>1, <2>1, <2>2, FreshIsUsable
<1>12. ProbeIsFresh'
  BY <1>2, <1>11 DEF ProbeIsFresh, IsPending, Gone
<1>13. \A b \in probed : arrival'[b] = arrival[b]
  BY <1>4, <1>5 DEF MovedInv, BatchArrived
<1>14. ProbedAgain'
  BY <1>2, <1>13 DEF MovedInv, ProbedAgain, IsPending
<1>15. MovedNotAnnounced'
  <2>1. late \subseteq late'
    BY <1>2
  <2> QED BY <1>2, <1>3, <1>5, <1>6, <2>1 DEF MovedInv, MovedNotAnnounced, Gone
<1> QED BY <1>8, <1>10, <1>12, <1>14, <1>15 DEF MovedInv

LEMMA ExpungedMoved ==
    ASSUME ArrivalsTyped, MovedInv, NEW a \in Arrived, SourceExpunged(a)
    PROVE  MovedInv'
<1>1. /\ sourceRow' = [sourceRow EXCEPT ![a] = FALSE] /\ tomb' = [tomb EXCEPT ![a] = now]
      /\ late' = IF IsPending(a) /\ now > arrival[a].created + TombstoneTTL THEN late \cup {a} ELSE late
      /\ UNCHANGED <<now, kind, arrival, gate, fin, probed>>
  BY DEF SourceExpunged
<1>2. /\ now \in Nat \ {0} /\ TombstoneTTL \in Nat /\ arrival[a].created \in Nat /\ arrival[a].created <= now
      /\ sourceRow \in [Arrived -> BOOLEAN] /\ tomb \in [Arrived -> Nat] /\ fin.batch \subseteq Arrived
  BY ArrivalsAssumption DEF ArrivalsTyped, ArrivalTypes, ArrivalRows, Clocked
<1>3. /\ sourceRow'[a] = FALSE /\ tomb'[a] = now
      /\ \A b \in Arrived \ {a} : sourceRow'[b] = sourceRow[b] /\ tomb'[b] = tomb[b]
      /\ late \subseteq late'
  BY <1>1, <1>2
<1>4. BatchArrived'
  BY <1>1 DEF MovedInv, BatchArrived, IsPending
<1>5. ASSUME NEW b \in Arrived, IsPending(b), Gone(b), ~sourceRow'[b], b \notin late'
      PROVE  /\ tomb'[b] # 0
             /\ arrival[b].created <= tomb'[b] + TombstoneTTL
             /\ tomb'[b] <= arrival[b].created + TombstoneTTL
  <2>1. CASE b = a
    <3>1. now <= arrival[a].created + TombstoneTTL
      BY <1>1, <1>2, <1>5, <2>1
    <3>2. arrival[a].created <= now + TombstoneTTL
      BY <1>2
    <3> QED BY <1>2, <1>3, <2>1, <3>1, <3>2
  <2>2. CASE b # a
    BY <1>3, <1>5, <2>2 DEF MovedInv, TombBelieved
  <2> QED BY <2>1, <2>2
<1>6. TombBelieved'
  BY <1>1, <1>5 DEF TombBelieved, IsPending, Gone
<1>7. ProbeIsFresh'
  BY <1>1, <1>2, <1>3 DEF MovedInv, ProbeIsFresh, IsPending, Gone
<1>8. ProbedAgain' /\ MovedNotAnnounced'
  BY <1>1, <1>3 DEF MovedInv, ProbedAgain, MovedNotAnnounced, IsPending, Gone
<1> QED BY <1>4, <1>6, <1>7, <1>8 DEF MovedInv

LEMMA ProbeMoved ==
    ASSUME ArrivalsTyped, MovedInv, ProbeExternalInboxMoves
    PROVE  MovedInv'
<1>1. PICK unsure \in SUBSET {a \in fin.batch : sourceRow[a]} :
         /\ tomb' = [a \in Arrived |-> IF a \in fin.batch \ unsure /\ Absent(a) THEN now ELSE tomb[a]]
         /\ probed' = probed \cup (fin.batch \ unsure)
         /\ fin' = [fin EXCEPT !.pc = IF unsure = {} THEN "finalize" ELSE "defer", !.defer = unsure]
  BY DEF ProbeExternalInboxMoves
<1>2. fin.pc = "probe" /\ UNCHANGED <<now, kind, arrival, sourceRow, gate, late>>
  BY DEF ProbeExternalInboxMoves
<1>3. fin \in [pc : {"idle", "list", "probe", "defer", "finalize", "next", "rearm"},
               at : Nat, batch : SUBSET Arrived, defer : SUBSET Arrived, gen : Nat, next : Nat]
  BY DEF ArrivalsTyped, ArrivalTypes
<1>4. /\ fin'.batch = fin.batch /\ fin'.defer = unsure /\ fin'.at = fin.at /\ fin'.pc \in {"finalize", "defer"}
      /\ fin'.pc = "finalize" => unsure = {}
  BY <1>1, <1>3
<1>5. BatchArrived'
  BY <1>1, <1>2, <1>3, <1>4 DEF MovedInv, BatchArrived, IsPending
<1>6. \A a \in Arrived : ~sourceRow[a] => tomb'[a] = tomb[a]
  BY <1>1 DEF Absent
<1>7. TombBelieved'
  BY <1>2, <1>6 DEF MovedInv, TombBelieved, IsPending, Gone
<1>8. ProbeIsFresh'
  BY <1>1, <1>2, <1>3, <1>4 DEF ProbeIsFresh, IsPending, Gone, Absent
<1>9. ProbedAgain'
  BY <1>1, <1>2, <1>4 DEF MovedInv, ProbedAgain, IsPending
<1>10. MovedNotAnnounced'
  <2>1. \A a \in fin.batch : arrival[a].state = "pending"
    BY <1>2 DEF MovedInv, BatchArrived, IsPending
  <2> QED BY <1>1, <1>2, <2>1 DEF MovedInv, MovedNotAnnounced, Gone
<1> QED BY <1>5, <1>7, <1>8, <1>9, <1>10 DEF MovedInv

LEMMA DeferMoved ==
    ASSUME ArrivalsTyped, MovedInv, DeferPendingInboxArrivalProbes
    PROVE  MovedInv'
<1>1. /\ fin.pc = "defer" /\ fin' = [fin EXCEPT !.pc = "finalize"]
      /\ arrival' = [a \in Arrived |->
            IF a \in fin.defer /\ IsPending(a) THEN [arrival[a] EXCEPT !.due = DeferredUntil] ELSE arrival[a]]
      /\ UNCHANGED <<now, kind, sourceRow, tomb, gate, probed, late>>
  BY DEF DeferPendingInboxArrivalProbes
<1>2. /\ fin \in [pc : {"idle", "list", "probe", "defer", "finalize", "next", "rearm"},
                  at : Nat, batch : SUBSET Arrived, defer : SUBSET Arrived, gen : Nat, next : Nat]
      /\ arrival \in [Arrived -> ArrivalRows]
  BY DEF ArrivalsTyped, ArrivalTypes
<1>3. fin'.batch = fin.batch /\ fin'.defer = fin.defer /\ fin'.at = fin.at /\ fin'.pc = "finalize"
  BY <1>1, <1>2
<1>4. \A a \in Arrived : arrival'[a].state = arrival[a].state /\ arrival'[a].created = arrival[a].created
  BY <1>1, <1>2 DEF ArrivalRows
<1>5. BatchArrived'
  BY <1>1, <1>3, <1>4 DEF MovedInv, BatchArrived, IsPending
<1>6. TombBelieved' /\ MovedNotAnnounced'
  BY <1>1, <1>4 DEF MovedInv, TombBelieved, MovedNotAnnounced, IsPending, Gone
<1>7. ProbeIsFresh'
  BY <1>1, <1>2, <1>3, <1>4 DEF MovedInv, ProbeIsFresh, IsPending, Gone
<1>8. fin.at < Horizon => fin.at < DeferredUntil
  <2>1. fin.at \in Nat /\ fin.at + RetryTime \in Nat \ {0} /\ fin.at < fin.at + RetryTime
    BY <1>2, ArrivalsAssumption
  <2> QED BY <2>1, AtMostIsDeadline DEF DeferredUntil
<1>9. ASSUME NEW a \in probed, arrival'[a].state = "pending"
      PROVE  /\ arrival'[a].due <= fin.at => a \in fin.batch
             /\ a \in fin.defer /\ fin.at < Horizon => fin.at < arrival'[a].due
  <2>1. a \in Arrived /\ IsPending(a)
    BY <1>4, <1>9 DEF MovedInv, BatchArrived, IsPending
  <2>2. CASE a \in fin.defer
    <3>1. arrival'[a].due = DeferredUntil
      BY <1>1, <1>2, <2>1, <2>2 DEF ArrivalRows
    <3> QED BY <1>8, <2>2, <3>1 DEF MovedInv, BatchArrived
  <2>3. CASE a \notin fin.defer
    BY <1>1, <2>1, <2>3 DEF MovedInv, ProbedAgain
  <2> QED BY <2>2, <2>3
<1>10. ProbedAgain'
  BY <1>1, <1>3, <1>9 DEF ProbedAgain, IsPending
<1> QED BY <1>5, <1>6, <1>7, <1>10 DEF MovedInv

\* What becomes a delivery was never matched: neither a fresh probe nor a believed
\* tombstone speaks against it.
LEMMA FinalizeMoved ==
    ASSUME Cardinality(Arrived) <= FinalizeBatch, ArrivalsTyped, MovedInv, FinalizeDueInboxArrivals
    PROVE  MovedInv'
<1> DEFINE D == {a \in DueBatch : fin.at < Horizon \/ a \notin fin.defer}
           M == Matched(D, fin.at)
<1>1. /\ fin.pc = "finalize" /\ fin' = [fin EXCEPT !.pc = "next"]
      /\ arrival' = [a \in Arrived |->
             IF a \in D THEN [arrival[a] EXCEPT !.state = IF a \in M THEN Classify(a, fin.at) ELSE "delivery"]
             ELSE arrival[a]]
      /\ tomb' = [a \in Arrived |-> IF a \in M THEN 0 ELSE Pruned(fin.at)[a]]
      /\ UNCHANGED <<now, kind, sourceRow, gate, probed, late>>
  BY DEF FinalizeDueInboxArrivals
<1>2. /\ fin \in [pc : {"idle", "list", "probe", "defer", "finalize", "next", "rearm"},
                  at : Nat, batch : SUBSET Arrived, defer : SUBSET Arrived, gen : Nat, next : Nat]
      /\ arrival \in [Arrived -> ArrivalRows] /\ fin.at \in Nat /\ fin.at <= now
  BY DEF ArrivalsTyped, ArrivalTypes, Clocked
<1>3. fin'.batch = fin.batch /\ fin'.defer = fin.defer /\ fin'.pc = "next"
  BY <1>1, <1>2
<1>4. ASSUME NEW a \in D PROVE Eligible(a) /\ arrival[a].due <= fin.at /\ a \in Arrived
  BY <1>4, BatchIsDue
<1>5. \A a \in M : a \in D /\ Classify(a, fin.at) \in {"local", "external"}
  BY ClassIsState DEF Matched
<1>6. ASSUME NEW a \in D, a \notin M PROVE Classify(a, fin.at) = "pending" /\ ~Usable(a, fin.at)
  BY <1>6 DEF Matched, Classify
<1> HIDE DEF D, M
<1>7. /\ \A a \in D : arrival'[a].state \in {"local", "external", "delivery"}
      /\ \A a \in M : arrival'[a].state # "delivery"
      /\ \A a \in Arrived \ D : arrival'[a] = arrival[a]
  BY <1>1, <1>2, <1>4, <1>5 DEF ArrivalRows
<1>8. BatchArrived'
  <2>1. \A a \in Arrived : arrival[a].state # "none" => arrival'[a].state # "none"
    BY <1>7
  <2> QED BY <1>1, <1>3, <2>1 DEF MovedInv, BatchArrived, IsPending
<1>9. ASSUME NEW a \in Arrived, arrival'[a].state = "pending", Gone(a), ~sourceRow[a], a \notin late
      PROVE  /\ tomb'[a] # 0
             /\ arrival'[a].created <= tomb'[a] + TombstoneTTL
             /\ tomb'[a] <= arrival'[a].created + TombstoneTTL
  <2>1. a \notin D /\ a \notin M
    BY <1>5, <1>7, <1>9
  <2>2. arrival'[a] = arrival[a] /\ IsPending(a)
    BY <1>7, <1>9, <2>1 DEF IsPending
  <2>3. tomb'[a] = tomb[a]
    BY <1>1, <1>9, <2>1, <2>2, BelievedIsUsable DEF MovedInv
  <2> QED BY <1>9, <2>2, <2>3 DEF MovedInv, TombBelieved
<1>10. TombBelieved'
  BY <1>1, <1>9 DEF TombBelieved, IsPending, Gone
<1>11. ProbeIsFresh' /\ ProbedAgain'
  BY <1>3 DEF ProbeIsFresh, ProbedAgain
<1>12. ASSUME NEW a \in D, a \notin M, Gone(a), a \in probed PROVE a \in late
  <2>1. IsPending(a) /\ arrival[a].due <= fin.at /\ a \in Arrived /\ ~Usable(a, fin.at)
    BY <1>4, <1>6, <1>12 DEF Eligible
  <2>2. CASE ~sourceRow[a]
    BY <1>12, <2>1, <2>2, BelievedIsUsable DEF MovedInv
  <2>3. CASE sourceRow[a]
    <3>1. a \in fin.batch
      BY <1>1, <1>12, <2>1 DEF MovedInv, ProbedAgain
    <3>2. a \notin fin.defer
      <4>1. SUFFICES ASSUME a \in fin.defer PROVE FALSE
        OBVIOUS
      <4>2. fin.at < Horizon
        BY <1>12, <4>1 DEF D
      <4>3. fin.at < arrival[a].due
        BY <1>1, <1>12, <2>1, <4>1, <4>2 DEF MovedInv, ProbedAgain
      <4>4. arrival[a].due \in Nat
        BY <1>2, <2>1 DEF ArrivalRows
      <4> QED BY <1>2, <2>1, <4>3, <4>4
    <3>3. tomb[a] = now
      BY <1>1, <1>12, <2>1, <2>3, <3>1, <3>2 DEF MovedInv, ProbeIsFresh
    <3> QED BY <1>2, <2>1, <3>3, FreshIsUsable
  <2> QED BY <2>2, <2>3
<1>13. ASSUME NEW a \in Arrived, Gone(a), arrival'[a].state = "delivery" PROVE a \in late \/ a \notin probed
  <2>1. CASE a \in D
    BY <1>7, <1>12, <1>13, <2>1
  <2>2. CASE a \notin D
    BY <1>7, <1>13, <2>2 DEF MovedInv, MovedNotAnnounced
  <2> QED BY <2>1, <2>2
<1>14. MovedNotAnnounced'
  BY <1>1, <1>13 DEF MovedNotAnnounced, Gone
<1> QED BY <1>8, <1>10, <1>11, <1>14 DEF MovedInv

LEMMA MovedKept ==
    ASSUME Cardinality(Arrived) <= FinalizeBatch
    PROVE  ArrivalsTyped /\ MovedInv /\ [ArrivalsNext]_arrVars => MovedInv'
<1> SUFFICES ASSUME ArrivalsTyped, MovedInv, [ArrivalsNext]_arrVars PROVE MovedInv'
  OBVIOUS
<1>0. fin \in [pc : {"idle", "list", "probe", "defer", "finalize", "next", "rearm"},
               at : Nat, batch : SUBSET Arrived, defer : SUBSET Arrived, gen : Nat, next : Nat]
  BY DEF ArrivalsTyped, ArrivalTypes
<1>1. ASSUME NEW a \in Arrived, HoldOrClassifyInboxArrival(a) PROVE MovedInv'
  BY <1>1, HoldMoved
<1>2. ASSUME NEW a \in Arrived, SourceExpunged(a) PROVE MovedInv'
  BY <1>2, ExpungedMoved
<1>3. CASE UNCHANGED <<now, kind, arrival, sourceRow, tomb, gate, fin, probed, late>>
  BY <1>3, MovedUndisturbed
<1>4. ASSUME NEW a \in Arrived, MarkTransferSucceeded(a) PROVE MovedInv'
  BY <1>3, <1>4 DEF MarkTransferSucceeded
<1>5. CASE FinalizeGenerationRebuild
  BY <1>5 DEF FinalizeGenerationRebuild, MovedInv, BatchArrived, TombBelieved, ProbeIsFresh, ProbedAgain,
              MovedNotAnnounced, IsPending, Gone
<1>6. ASSUME NEW due \in calls, ScheduleInboxArrival(due) PROVE MovedInv'
  BY <1>3, <1>6 DEF ScheduleInboxArrival, rows
<1>7. ASSUME NEW t \in timers, FireTimer(t) PROVE MovedInv'
  <2>1. \/ fin' = fin
        \/ fin'.batch = {} /\ fin'.defer = {} /\ fin'.pc = "list"
    BY <1>7 DEF FireTimer, IdleFin
  <2> QED BY <1>7, <2>1, MovedUndisturbed DEF FireTimer, rows
<1>8. CASE ListDueInboxArrivals
  <2>1. /\ fin.pc = "list" /\ UNCHANGED <<now, kind, arrival, sourceRow, tomb, gate, probed, late>>
        /\ fin' = [fin EXCEPT !.batch = DueBatch, !.pc = IF DueBatch = {} THEN "finalize" ELSE "probe"]
    BY <1>8 DEF ListDueInboxArrivals, rows
  <2>2. /\ fin'.batch = DueBatch /\ fin'.defer = fin.defer /\ fin'.at = fin.at
        /\ fin'.pc = IF DueBatch = {} THEN "finalize" ELSE "probe"
    BY <1>0, <2>1
  <2>3. fin.defer = {}
    BY <2>1 DEF MovedInv, BatchArrived
  <2>4. DueBatch = {a \in Arrived : Eligible(a) /\ arrival[a].due <= fin.at}
    BY BatchIsDue
  <2>5. BatchArrived'
    BY <2>1, <2>2, <2>3, <2>4 DEF MovedInv, BatchArrived, Eligible, IsPending
  <2>6. TombBelieved' /\ MovedNotAnnounced'
    BY <2>1 DEF MovedInv, TombBelieved, MovedNotAnnounced, IsPending, Gone
  <2>7. ProbeIsFresh'
    BY <2>2 DEF ProbeIsFresh
  <2>8. ProbedAgain'
    <3>1. \A a \in probed : a \in Arrived /\ ~gate
      BY DEF MovedInv, BatchArrived
    <3> QED BY <2>1, <2>2, <2>3, <2>4, <3>1 DEF ProbedAgain, Eligible, IsPending
  <2> QED BY <2>5, <2>6, <2>7, <2>8 DEF MovedInv
<1>9. CASE ProbeExternalInboxMoves
  BY <1>9, ProbeMoved
<1>10. CASE DeferPendingInboxArrivalProbes
  BY <1>10, DeferMoved
<1>11. CASE FinalizeDueInboxArrivals
  BY <1>11, FinalizeMoved
<1>12. CASE NextPendingInboxArrivalDue
  <2>1. fin'.batch = fin.batch /\ fin'.defer = fin.defer /\ fin'.pc = "rearm"
    BY <1>0, <1>12 DEF NextPendingInboxArrivalDue
  <2> QED BY <1>12, <2>1, MovedUndisturbed DEF NextPendingInboxArrivalDue, rows
<1>13. CASE FirePassed \/ FinalizeFails \/ RecoverPendingInboxArrivals
  <2>1. fin'.batch = {} /\ fin'.defer = {} /\ fin'.pc = "idle"
    <3>1. fin' = IdleFin
      BY <1>13 DEF FirePassed, FinalizeFails, RecoverPendingInboxArrivals
    <3> QED BY <3>1 DEF IdleFin
  <2>2. UNCHANGED <<kind, arrival, sourceRow, tomb, gate, probed, late>>
    BY <1>13 DEF FirePassed, FinalizeFails, RecoverPendingInboxArrivals, rows
  <2> QED BY <2>1, <2>2, MovedUndisturbed
<1>14. CASE ArrivalTick
  BY <1>14, MovedUndisturbed DEF ArrivalTick, rows
<1>15. CASE UNCHANGED arrVars
  BY <1>3, <1>15 DEF arrVars
<1> QED BY <1>1, <1>2, <1>4, <1>5, <1>6, <1>7, <1>8, <1>9, <1>10, <1>11, <1>12, <1>13, <1>14, <1>15
        DEF ArrivalsNext, SchedulerTurn, FinalizerStep

-----------------------------------------------------------------------------
(* The theorems about arrivals *)

\* No pending arrival is forgotten: inbox_arrivals.go and arrival_scheduler.go always leave a
\* call, a running pass or a timer of the current generation for it, whatever the batch holds.
THEOREM NoneForgotten == ArrivalsSpec => []PendingHasTimer
<1> QED BY TimerAlways, AwaitedByTimer, PTL

\* The finalizer of the arrivals keeps its promises: none is forgotten, none that was looked up as
\* moved is announced, and none that is new is taken for a move, as long as one batch of
\* ListDueInboxArrivals holds all that are due.
THEOREM ArrivalsAreSafe ==
    ASSUME Cardinality(Arrived) <= FinalizeBatch
    PROVE  ArrivalsSpec => []ArrivalsSafe
<1>1. ArrivalsInit => TimerInv /\ NewInv /\ MovedInv
  BY TimerInitially, NewInitially, MovedInitially
<1>2. TimerInv /\ NewInv /\ MovedInv /\ [ArrivalsNext]_arrVars => (TimerInv /\ NewInv /\ MovedInv)'
  BY TimerKept, NewKept, MovedKept DEF TimerInv
<1>3. TimerInv /\ NewInv /\ MovedInv => ArrivalsSafe
  BY AwaitedByTimer DEF NewInv, MovedInv, ArrivalsSafe
<1> QED BY <1>1, <1>2, <1>3, PTL DEF ArrivalsSpec

\* One pass of the finalizer at a time: a timer that fires late starts none beside a running one
\* (fire, arrival_scheduler.go).
THEOREM PassesAreAlone == ArrivalsSpec => OnePassAtATime
<1>1. TimerInv /\ [ArrivalsNext]_arrVars => [fin'.pc = "list" /\ fin' # fin => fin.pc = "idle"]_arrVars
  <2> SUFFICES ASSUME TimerInv, [ArrivalsNext]_arrVars, fin'.pc = "list", fin' # fin
               PROVE  fin.pc = "idle"
    OBVIOUS
  <2>0. /\ fin \in [pc : {"idle", "list", "probe", "defer", "finalize", "next", "rearm"},
                    at : Nat, batch : SUBSET Arrived, defer : SUBSET Arrived, gen : Nat, next : Nat]
        /\ entry.running <=> fin.pc # "idle"
    BY DEF TimerInv, ArrivalsTyped, ArrivalTypes, Clocked
  <2>1. CASE \E t \in timers : FireTimer(t)
    BY <2>0, <2>1 DEF FireTimer, Current
  <2>2. CASE ListDueInboxArrivals \/ ProbeExternalInboxMoves
    BY <2>0, <2>2 DEF ListDueInboxArrivals, ProbeExternalInboxMoves
  <2>3. CASE DeferPendingInboxArrivalProbes \/ FinalizeDueInboxArrivals \/ NextPendingInboxArrivalDue
    <3>1. fin'.pc \in {"finalize", "next", "rearm"}
      <4>1. CASE DeferPendingInboxArrivalProbes
        BY <2>0, <4>1 DEF DeferPendingInboxArrivalProbes
      <4>2. CASE FinalizeDueInboxArrivals
        BY <2>0, <4>2 DEF FinalizeDueInboxArrivals
      <4>3. CASE NextPendingInboxArrivalDue
        BY <2>0, <4>3 DEF NextPendingInboxArrivalDue
      <4> QED BY <2>3, <4>1, <4>2, <4>3
    <3> QED BY <3>1
  <2>4. CASE FirePassed \/ FinalizeFails \/ RecoverPendingInboxArrivals
    <3>1. fin' = IdleFin
      BY <2>4 DEF FirePassed, FinalizeFails, RecoverPendingInboxArrivals
    <3> QED BY <3>1 DEF IdleFin
  <2>5. CASE \/ \E a \in Arrived :
                   HoldOrClassifyInboxArrival(a) \/ SourceExpunged(a) \/ MarkTransferSucceeded(a)
             \/ FinalizeGenerationRebuild \/ ArrivalTick \/ \E due \in calls : ScheduleInboxArrival(due)
    BY <2>5 DEF HoldOrClassifyInboxArrival, SourceExpunged, MarkTransferSucceeded, FinalizeGenerationRebuild,
                ArrivalTick, ScheduleInboxArrival
  <2>6. CASE UNCHANGED arrVars
    BY <2>6 DEF arrVars
  <2> QED BY <2>1, <2>2, <2>3, <2>4, <2>5, <2>6 DEF ArrivalsNext, SchedulerTurn, FinalizerStep
<1> QED BY <1>1, TimerAlways, PTL DEF ArrivalsSpec, OnePassAtATime
====
