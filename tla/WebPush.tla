---- MODULE WebPush ----
(* The two notification feeds of a user (new mail and snooze reminders) and
   the workers that announce them to the registered browsers: store/web_push.go,
   store/new_mail_events.go, web/webpush_notify.go, web/webpush_snooze.go and
   web/api_push.go.

   A feed is a table of events with increasing identifiers; every subscription
   row keeps one cursor per feed and the keys of the browser.  A worker per
   feed reads the rows once, sends one push per row that is behind and
   advances the cursor of that row.  Both workers of a user take one delivery
   lock.  The push service is external: it answers every push with a status. *)
EXTENDS Naturals, FiniteSets

CONSTANTS
    Endpoints,        \* push endpoints (browsers) of the user
    MaxMail,          \* bound: new mail events
    MaxReminders,     \* bound: reminder events
    MaxKeys,          \* bound: times a browser makes new keys
    MaxPushFaults,    \* bound: failed calls, restarts, refreshed keys and removed rows
    PushMaxRetryAttempts  \* webPushMaxRetryAttempts

ASSUME PushAssumption ==
    /\ IsFiniteSet(Endpoints)
    /\ {MaxMail, MaxReminders, MaxKeys, MaxPushFaults, PushMaxRetryAttempts} \subseteq Nat

VARIABLES
    feed,         \* the retained events of each feed
    lastEvent,    \* the AUTOINCREMENT high-water mark of each feed
    untold,       \* feeds whose last commit has not called the notifier yet
    subs,         \* web_push_subscriptions: endpoint -> row or NoSub
    running,      \* webPushRunning, snoozeWebPushRunning
    dirty,        \* webPushDirty, snoozeWebPushDirty
    pusher,       \* the worker of each feed
    deliveryLock, \* webPushDeliveryLock: the feed that holds it, or "free"
    browser,      \* the keys the browser of an endpoint holds; 0 before the first
    seen,         \* the events a browser could decrypt a push for
    baseline,     \* where the feeds stood when the row was made
    rejected,     \* keys the push service called stale, per endpoint
    pushFaults, refusals

pushVars == <<feed, lastEvent, untold, subs, running, dirty, pusher, deliveryLock,
              browser, seen, baseline, rejected, pushFaults, refusals>>

Kinds == {"mail", "snooze"}
NoSub == [key |-> 0]
Row(key, cursor) == [key |-> key, cursor |-> cursor]
Subscribed(e) == subs[e] # NoSub
IdlePusher == [pc |-> "idle", rows |-> {}, at |-> "none", key |-> 0, from |-> 0,
               upto |-> 0, retry |-> FALSE, attempt |-> 0]

\* One more of the bounded disturbances.
Disturb == pushFaults < MaxPushFaults /\ pushFaults' = pushFaults + 1

MaxOf(S) == IF S = {} THEN 0 ELSE CHOOSE n \in S : \A m \in S : m <= n

---------------------------------------------------------------------------
(* The feeds. *)

\* INSERT of an event of feed k: RecordNewMailEvent commits the event (and
\* drops the snooze of its conversation); the caller notifies afterwards.
RecordNewMailEvent ==
    /\ lastEvent["mail"] < MaxMail
    /\ lastEvent' = [lastEvent EXCEPT !["mail"] = @ + 1]
    /\ feed' = [feed EXCEPT !["mail"] = @ \cup {lastEvent["mail"] + 1}]
    /\ untold' = untold \cup {"mail"}
    /\ UNCHANGED <<subs, running, dirty, pusher, deliveryLock, browser, seen, baseline,
                   rejected, pushFaults, refusals>>

\* RecordDueSnoozeReminderEvents commits a reminder event.
RecordReminderEvent ==
    /\ lastEvent["snooze"] < MaxReminders
    /\ lastEvent' = [lastEvent EXCEPT !["snooze"] = @ + 1]
    /\ feed' = [feed EXCEPT !["snooze"] = @ \cup {lastEvent["snooze"] + 1}]
    /\ untold' = untold \cup {"snooze"}
    /\ UNCHANGED <<subs, running, dirty, pusher, deliveryLock, browser, seen, baseline,
                   rejected, pushFaults, refusals>>

\* Reminder events are withdrawn with the snooze of their conversation.
WithdrawReminder ==
    /\ \E id \in feed["snooze"] : feed' = [feed EXCEPT !["snooze"] = @ \ {id}]
    /\ UNCHANGED <<lastEvent, untold, subs, running, dirty, pusher, deliveryLock, browser,
                   seen, baseline, rejected, pushFaults, refusals>>

\* The cursor that NewMailEventsAfter and SnoozeReminderEventsAfter answer:
\* the identifier of the newest retained event.
FeedCursor(k) == MaxOf(feed[k])
EventsAfter(k, after) == {id \in feed[k] : id > after}

---------------------------------------------------------------------------
(* Subscriptions. *)

\* SaveWebPushSubscription: a new row starts at the newest events, an
\* existing one keeps its cursors and takes the new keys.
SaveSubscription(e, key) ==
    IF Subscribed(e) THEN [subs EXCEPT ![e].key = key]
    ELSE [subs EXCEPT ![e] = Row(key, [k \in Kinds |-> FeedCursor(k)])]

\* POST /api/push/subscription, by a browser that made keys for the endpoint.
Subscribe(e) ==
    /\ browser[e] < MaxKeys
    /\ IF browser[e] = 0 THEN UNCHANGED pushFaults ELSE Disturb
    /\ browser' = [browser EXCEPT ![e] = @ + 1]
    /\ subs' = SaveSubscription(e, browser[e] + 1)
    /\ baseline' = IF Subscribed(e) THEN baseline
                   ELSE [baseline EXCEPT ![e] = [k \in Kinds |-> lastEvent[k]]]
    /\ UNCHANGED <<feed, lastEvent, untold, running, dirty, pusher, deliveryLock, seen,
                   rejected, refusals>>

\* DELETE /api/push/subscription.
Unsubscribe(e) ==
    /\ Subscribed(e)
    /\ Disturb
    /\ subs' = [subs EXCEPT ![e] = NoSub]
    /\ UNCHANGED <<feed, lastEvent, untold, running, dirty, pusher, deliveryLock, browser,
                   seen, baseline, rejected, refusals>>

---------------------------------------------------------------------------
(* Scheduling of the workers. *)

\* The notifier: one worker per feed, and a mark when it is running.
Scheduled(k) ==
    /\ running' = [running EXCEPT ![k] = TRUE]
    /\ dirty' = [dirty EXCEPT ![k] = @ \/ running[k]]
    /\ pusher' = IF running[k] THEN pusher ELSE [pusher EXCEPT ![k].pc = "start"]

NotifyAsync(k) ==
    /\ k \in untold
    /\ untold' = untold \ {k}
    /\ Scheduled(k)
    /\ UNCHANGED <<feed, lastEvent, subs, deliveryLock, browser, seen, baseline, rejected,
                   pushFaults, refusals>>

NotifyNewMailWebPushAsync == NotifyAsync("mail")
NotifySnoozeReminderWebPushAsync == NotifyAsync("snooze")

\* The top of the loop clears the mark and asks for the delivery lock.
ClearDirty(k) == [dirty EXCEPT ![k] = FALSE]

Start(k) ==
    /\ pusher[k].pc = "start"
    /\ dirty' = ClearDirty(k)
    /\ pusher' = [pusher EXCEPT ![k].pc = "lock"]
    /\ UNCHANGED <<feed, lastEvent, untold, subs, running, deliveryLock, browser, seen,
                   baseline, rejected, pushFaults, refusals>>

\* ListWebPushSubscriptions under the delivery lock, with the keys and
\* cursors the rows have now.
RowsNow(k) == {[at |-> e, key |-> subs[e].key, from |-> subs[e].cursor[k]] :
               e \in {x \in Endpoints : Subscribed(x)}}

Deliver(k) ==
    /\ pusher[k].pc = "lock"
    /\ deliveryLock = "free"
    /\ deliveryLock' = k
    /\ pusher' = [pusher EXCEPT ![k].pc = "loop", ![k].rows = RowsNow(k), ![k].retry = FALSE]
    /\ UNCHANGED <<feed, lastEvent, untold, subs, running, dirty, browser, seen, baseline,
                   rejected, pushFaults, refusals>>

---------------------------------------------------------------------------
(* One delivery. *)

\* The row is done, for a retry or not.
RowDone(k, again) ==
    pusher' = [pusher EXCEPT ![k] = [IdlePusher EXCEPT !.pc = "loop", !.rows = pusher[k].rows,
                  !.retry = pusher[k].retry \/ again, !.attempt = pusher[k].attempt]]

\* The next row: nothing to announce, or the events after its cursor.
NextRow(k) ==
    /\ pusher[k].pc = "loop"
    /\ \E r \in pusher[k].rows :
         pusher' = IF EventsAfter(k, r.from) = {} THEN [pusher EXCEPT ![k].rows = @ \ {r}]
                   ELSE [pusher EXCEPT ![k].rows = @ \ {r}, ![k].at = r.at, ![k].key = r.key,
                            ![k].from = r.from, ![k].upto = FeedCursor(k), ![k].pc = "send"]
    /\ UNCHANGED <<feed, lastEvent, untold, subs, running, dirty, deliveryLock, browser,
                   seen, baseline, rejected, pushFaults, refusals>>

\* The service accepts the push.  Only a browser that still has the keys the
\* payload was encrypted for can show it.
Accepted(k) ==
    /\ pusher[k].pc = "send"
    /\ pusher[k].key \notin rejected[pusher[k].at]
    /\ seen' = IF browser[pusher[k].at] = pusher[k].key
               THEN [seen EXCEPT ![pusher[k].at][k] = @ \cup {id \in 1..pusher[k].upto : id > pusher[k].from}]
               ELSE seen
    /\ pusher' = [pusher EXCEPT ![k].pc = "advance"]
    /\ UNCHANGED <<feed, lastEvent, untold, subs, running, dirty, deliveryLock, browser,
                   baseline, rejected, pushFaults, refusals>>

\* The row the delivery was made for: same endpoint and still the same keys.
SameKeys(k) ==
    /\ Subscribed(pusher[k].at)
    /\ subs[pusher[k].at].key = pusher[k].key

\* The cursor moves only for the delivered keys and only forward.
MayAdvance(k) == SameKeys(k) /\ subs[pusher[k].at].cursor[k] < pusher[k].upto

Advance(k) ==
    /\ pusher[k].pc = "advance"
    /\ subs' = IF MayAdvance(k) THEN [subs EXCEPT ![pusher[k].at].cursor[k] = pusher[k].upto] ELSE subs
    /\ RowDone(k, ~MayAdvance(k))
    /\ UNCHANGED <<feed, lastEvent, untold, running, dirty, deliveryLock, browser, seen,
                   baseline, rejected, pushFaults, refusals>>

AdvanceNewMailCursor == Advance("mail")
AdvanceSnoozeReminderCursor == Advance("snooze")

\* 401, 403, 404 or 410: the service no longer knows these keys, which are
\* then stale for good; the worker will remove the row.
Stale(k) ==
    /\ pusher[k].pc = "send"
    /\ IF pusher[k].key \in rejected[pusher[k].at] THEN UNCHANGED pushFaults ELSE Disturb
    /\ rejected' = [rejected EXCEPT ![pusher[k].at] = @ \cup {pusher[k].key}]
    /\ pusher' = [pusher EXCEPT ![k].pc = "drop"]
    /\ UNCHANGED <<feed, lastEvent, untold, subs, running, dirty, deliveryLock, browser,
                   seen, baseline, refusals>>

\* DeleteWebPushSubscriptionIfCurrent; a row that was not deleted is retried.
MayDrop(k) == SameKeys(k)

DropStale(k) ==
    /\ pusher[k].pc = "drop"
    /\ subs' = IF MayDrop(k) THEN [subs EXCEPT ![pusher[k].at] = NoSub] ELSE subs
    /\ RowDone(k, ~MayDrop(k))
    /\ UNCHANGED <<feed, lastEvent, untold, running, dirty, deliveryLock, browser, seen,
                   baseline, rejected, pushFaults, refusals>>

\* A network error or a retryable status (408, 425, 429, 5xx), a failed read
\* of the events, or a failed UPDATE or DELETE: the row is left for a retry.
Failed(k) ==
    /\ pusher[k].pc \in {"send", "advance", "drop"}
    /\ Disturb
    /\ RowDone(k, TRUE)
    /\ UNCHANGED <<feed, lastEvent, untold, subs, running, dirty, deliveryLock, browser,
                   seen, baseline, rejected, refusals>>

\* Any other status of 400 or more is logged and not retried.
Refused(k) ==
    /\ pusher[k].pc = "send"
    /\ Disturb
    /\ refusals' = refusals \cup {<<pusher[k].at, k>>}
    /\ RowDone(k, FALSE)
    /\ UNCHANGED <<feed, lastEvent, untold, subs, running, dirty, deliveryLock, browser,
                   seen, baseline, rejected>>

\* The 30 seconds of a delivery are over, or the rows could not be read: the
\* rest of the rows waits for a retry.
Timeout(k) ==
    /\ pusher[k].pc = "loop"
    /\ pusher[k].rows # {}
    /\ Disturb
    /\ pusher' = [pusher EXCEPT ![k].rows = {}, ![k].retry = TRUE]
    /\ UNCHANGED <<feed, lastEvent, untold, subs, running, dirty, deliveryLock, browser,
                   seen, baseline, rejected, refusals>>

\* The lock is released when the rows are done.
Delivered(k) ==
    /\ pusher[k].pc = "loop"
    /\ pusher[k].rows = {}
    /\ deliveryLock' = "free"
    /\ pusher' = [pusher EXCEPT ![k].pc = "decide"]
    /\ UNCHANGED <<feed, lastEvent, untold, subs, running, dirty, browser, seen, baseline,
                   rejected, pushFaults, refusals>>

---------------------------------------------------------------------------
(* After a delivery, under the schedule lock: go on for events that came
   meanwhile, wait and retry, or stop. *)

NeverAgain(k) == FALSE
Again(k) == dirty[k]
Retry(k) == pusher[k].retry /\ pusher[k].attempt < PushMaxRetryAttempts

Decide(k) ==
    /\ pusher[k].pc = "decide"
    /\ IF Again(k)
       THEN /\ dirty' = ClearDirty(k)
            /\ pusher' = [pusher EXCEPT ![k] = [IdlePusher EXCEPT !.pc = "start"]]
            /\ UNCHANGED running
       ELSE IF Retry(k)
       THEN /\ pusher' = [pusher EXCEPT ![k] = [IdlePusher EXCEPT !.pc = "start", !.attempt = pusher[k].attempt + 1]]
            /\ UNCHANGED <<running, dirty>>
       ELSE /\ running' = [running EXCEPT ![k] = FALSE]
            /\ pusher' = [pusher EXCEPT ![k] = IdlePusher]
            /\ UNCHANGED dirty
    /\ UNCHANGED <<feed, lastEvent, untold, subs, deliveryLock, browser, seen, baseline,
                   rejected, pushFaults, refusals>>

RunScheduledNewMailWebPush == Start("mail") \/ Decide("mail")
RunScheduledSnoozeReminderWebPush == Start("snooze") \/ Decide("snooze")

DeliveryStep(k) ==
    Deliver(k) \/ NextRow(k) \/ Accepted(k) \/ Stale(k) \/ DropStale(k) \/ Delivered(k)
DeliveryFault(k) == Failed(k) \/ Refused(k) \/ Timeout(k)

NotifyNewMailWebPush == DeliveryStep("mail") \/ DeliveryFault("mail")
NotifySnoozeReminderWebPush == DeliveryStep("snooze") \/ DeliveryFault("snooze")

\* A restart loses the workers and their marks; the server notifies every
\* feed of every user when it starts.
PushCrash ==
    /\ Disturb
    /\ untold' = Kinds
    /\ running' = [k \in Kinds |-> FALSE]
    /\ dirty' = [k \in Kinds |-> FALSE]
    /\ pusher' = [k \in Kinds |-> IdlePusher]
    /\ deliveryLock' = "free"
    /\ UNCHANGED <<feed, lastEvent, subs, browser, seen, baseline, rejected, refusals>>

---------------------------------------------------------------------------
PushInit ==
    /\ feed = [k \in Kinds |-> {}]
    /\ lastEvent = [k \in Kinds |-> 0]
    /\ untold = {}
    /\ subs = [e \in Endpoints |-> NoSub]
    /\ running = [k \in Kinds |-> FALSE]
    /\ dirty = [k \in Kinds |-> FALSE]
    /\ pusher = [k \in Kinds |-> IdlePusher]
    /\ deliveryLock = "free"
    /\ browser = [e \in Endpoints |-> 0]
    /\ seen = [e \in Endpoints |-> [k \in Kinds |-> {}]]
    /\ baseline = [e \in Endpoints |-> [k \in Kinds |-> 0]]
    /\ rejected = [e \in Endpoints |-> {}]
    /\ pushFaults = 0 /\ refusals = {}

PushNext ==
    \/ RecordNewMailEvent \/ RecordReminderEvent \/ WithdrawReminder
    \/ \E e \in Endpoints : Subscribe(e) \/ Unsubscribe(e)
    \/ NotifyNewMailWebPushAsync \/ NotifySnoozeReminderWebPushAsync
    \/ RunScheduledNewMailWebPush \/ RunScheduledSnoozeReminderWebPush
    \/ NotifyNewMailWebPush \/ NotifySnoozeReminderWebPush
    \/ AdvanceNewMailCursor \/ AdvanceSnoozeReminderCursor
    \/ PushCrash

\* The goroutines run until they stop; the push service answers every push.
PushFairness ==
    \A k \in Kinds :
        /\ WF_pushVars(NotifyAsync(k))
        /\ WF_pushVars(Start(k) \/ Decide(k) \/ Advance(k) \/ DeliveryStep(k))
        /\ SF_pushVars(Deliver(k))

PushSpec == PushInit /\ [][PushNext]_pushVars /\ PushFairness

---------------------------------------------------------------------------
\* The shape of the state; a worker exists exactly while its feed is marked as
\* running, and the delivery lock belongs to the worker that delivers.
PushTypeOK ==
    /\ feed \in [Kinds -> SUBSET Nat]
    /\ lastEvent \in [Kinds -> Nat]
    /\ untold \subseteq Kinds
    /\ \A e \in Endpoints :
          \/ subs[e] = NoSub
          \/ subs[e] \in [key : 1..MaxKeys, cursor : [Kinds -> Nat]]
    /\ running \in [Kinds -> BOOLEAN] /\ dirty \in [Kinds -> BOOLEAN]
    /\ \A k \in Kinds : pusher[k].pc \in
          {"idle", "start", "lock", "loop", "send", "advance", "drop", "decide"}
    /\ deliveryLock \in Kinds \cup {"free"}
    /\ \A k \in Kinds :
          /\ running[k] = (pusher[k].pc # "idle")
          /\ (deliveryLock = k) = (pusher[k].pc \in {"loop", "send", "advance", "drop"})

\* A cursor never passes an event the browser was not told of: every retained
\* event between the row's beginning and its cursor was in a push that the
\* browser could decrypt, however keys, workers and restarts interleave.
CursorCovered ==
    \A e \in Endpoints, k \in Kinds : Subscribed(e) =>
        \A id \in feed[k] :
            baseline[e][k] < id /\ id <= subs[e].cursor[k] => id \in seen[e][k]

\* The server removes a registration only when the push service rejected the
\* very keys it has: a browser that refreshed its keys meanwhile keeps its row.
RemovedWereRejected ==
    [][\A e \in Endpoints, k \in Kinds :
         Subscribed(e) /\ subs'[e] = NoSub /\ pusher[k].pc = "drop" /\ pusher'[k].pc = "loop"
            => subs[e].key \in rejected[e]]_pushVars

\* A row with retained events it has not announced.
BehindNow(e, k) ==
    /\ Subscribed(e)
    /\ EventsAfter(k, subs[e].cursor[k]) # {}

\* A feed without a worker and without a caller about to start one leaves no
\* browser behind: the hand-over between a notifier that finds a worker running
\* and a worker that is about to stop loses no event, across restarts too, as
\* long as deliveries fail no more often than the worker retries.
QuietMeansTold ==
    MaxPushFaults <= PushMaxRetryAttempts =>
        \A e \in Endpoints, k \in Kinds :
            ~running[k] /\ k \notin untold /\ BehindNow(e, k) => <<e, k>> \in refusals

\* What web push promises: no event is skipped for a browser and none is left
\* untold when its feed comes to rest, whatever workers, keys and restarts meet.
NothingSkipped == PushTypeOK /\ CursorCovered /\ QuietMeansTold
====
