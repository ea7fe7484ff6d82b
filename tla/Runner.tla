---- MODULE Runner ----
(* The sync runner of one user with one account: syncer/runner.go, its work
   registry, the tenant gate of mailbox generation recovery and the recovery
   loop (generation_recovery_gate.go, arrival_scheduler.go).

   A mailbox is reserved under the key of the user (all accounts) or of the
   account.  What a goroutine will call next is a member of calls; two calls of
   the same kind that are under way at the same time are one. *)
EXTENDS Naturals, FiniteSets

CONSTANTS
    Boxes,       \* mailboxes of the account
    Inbox,       \* INBOX
    MaxAsks,     \* bound: requests from outside
    MaxResets,   \* bound: mailboxes whose UIDVALIDITY changes
    MaxTroubles  \* bound: failed passes and timeouts

ASSUME RunnerAssumption == Inbox \in Boxes /\ {MaxAsks, MaxResets, MaxTroubles} \subseteq Nat

VARIABLES
    jobs,      \* mailboxRunning with workActivities and mailboxCancels, by key
    again,     \* mailboxPending and accountMailboxPending
    auto,      \* autoRunning, autoPlanning, autoCancels, autoDeferredAccts
    fore,      \* foregroundRunning and how far its acquisition is
    foreWork,  \* foregroundDeferred...
    gen,       \* generationRecovery: Users, Runs, Replay, Epoch, Known, Targets
    genWork,   \* generationRecoveryAuto, Boxes, Accts
    replay,    \* the goroutine of runGenerationRecoveryReplay and the mailbox it is at
    stats,     \* senderStats...
    attach,    \* attachment...
    loop,      \* the recovery loop and its wake channel
    calls,     \* calls that goroutines are about to make
    markers,   \* durable: mailboxes with a pending rebuild
    owed,      \* mailboxes whose promised pass has not run yet
    asks, resets, troubles

runVars == <<jobs, again, auto, fore, foreWork, gen, genWork, replay, stats, attach, loop, calls, markers,
             owed, asks, resets, troubles>>
counters == <<asks, resets, troubles>>

Keys == {"all", "acct"} \X Boxes
NoJob == [kind |-> "none", phase |-> "none", stop |-> FALSE, owner |-> "none", serves |-> FALSE]
NoWork == [auto |-> FALSE, boxes |-> {}, accts |-> {}]
NoReplay == [pc |-> "off", work |-> NoWork, now |-> <<"all", Inbox>>]
Call(op, b) == [op |-> op, box |-> b]
Every(op) == Call(op, Inbox)
Trouble == troubles < MaxTroubles /\ troubles' = troubles + 1
Calm == UNCHANGED troubles

---------------------------------------------------------------------------
(* What is running. *)
Busy(k) == jobs[k].kind # "none"
ForegroundOn == fore # "off"
AutoOn == auto.pc # "off"
Gated == gen.users \/ gen.replay
RecoveryPending == gen.users \/ gen.runs
OrdinaryRunning == AutoOn \/ ForegroundOn \/ \E k \in Keys : Busy(k)
UserWorkRunning == OrdinaryRunning \/ stats.running \/ attach.running
OrdinaryWriter == AutoOn \/ ForegroundOn \/ \E k \in Keys : Busy(k) /\ jobs[k].kind # "recovery"
MailboxWriter ==
    \/ gen.runs \/ gen.replay \/ auto.pc = "plan" \/ (foreWork.auto /\ AutoOn)
    \/ \E k \in Keys : Busy(k) /\ jobs[k].kind # "search"
ReservedByAny(b) == Busy(<<"all", b>>) \/ Busy(<<"acct", b>>)
AccountReserved(b) == Busy(<<"all", b>>) \/ Busy(<<"acct", b>>)

\* generationRecoveryAccountMailboxesGatedLocked: a live Inbox that is not
\* being rebuilt may pass the gate, alone.
InboxBypass(b) == b = Inbox /\ ~OrdinaryWriter
AccountGated(b) ==
    \/ RecoveryPending /\ (~gen.known \/ b \in gen.targets \/ ~InboxBypass(b))
    \/ ~RecoveryPending /\ gen.replay /\ ~InboxBypass(b)

---------------------------------------------------------------------------
(* Reservations and cancellation. *)
Reserve(k, kind, owner) ==
    jobs' = [jobs EXCEPT ![k] = [NoJob EXCEPT !.kind = kind, !.phase = "reserved", !.owner = owner]]
PausedAttach == IF attach.running THEN [attach EXCEPT !.pending = TRUE, !.stop = TRUE] ELSE attach

\* A pass that recovery cancels is not repeated; one that yields to the
\* foreground is marked to run again.
StopsForRecovery(k) == jobs[k].kind \in {"sync", "replay", "maintenance"} /\ jobs[k].phase # "reserved"
StopsForForeground(k) == jobs[k].kind \in {"sync", "replay"} /\ jobs[k].phase # "reserved"
CancelOrdinary ==
    /\ jobs' = [k \in Keys |-> IF StopsForRecovery(k) THEN [jobs[k] EXCEPT !.stop = TRUE] ELSE jobs[k]]
    /\ auto' = [auto EXCEPT !.stop = AutoOn]
    /\ owed' = {b \in owed : \A k \in Keys : ~(k[2] = b /\ jobs[k].serves /\ StopsForRecovery(k))}

\* preemptResumableWorkForForegroundLocked.
YieldToForeground ==
    /\ jobs' = [k \in Keys |->
          IF StopsForForeground(k) \/ jobs[k].kind = "recovery" THEN [jobs[k] EXCEPT !.stop = TRUE] ELSE jobs[k]]
    /\ again' = again \cup {k \in Keys : StopsForForeground(k)}
    /\ auto' = [auto EXCEPT !.stop = @ \/ auto.pc = "plan"]
    /\ foreWork' = [foreWork EXCEPT !.auto = @ \/ auto.pc = "plan"]
    /\ stats' = [stats EXCEPT !.stop = stats.running]
    /\ attach' = PausedAttach

\* After a reservation is released, the reruns that were asked for meanwhile.
NoReruns(b) == {}
Reruns(b) ==
    IF <<"all", b>> \in again THEN {Call("priority", b)}
    ELSE IF <<"acct", b>> \in again THEN {Call("queue", b)} ELSE {}
WithoutReruns(b) == {k \in again : k[2] # b}
Afterwards == {Every("gate"), Every("stats"), Every("attach")}
Free == ~stats.running /\ ~ForegroundOn

---------------------------------------------------------------------------
(* Requests. *)

\* A request from a poll, an API handler, a plugin or a timer.
Ask(c) ==
    /\ asks < MaxAsks
    /\ asks' = asks + 1
    /\ calls' = calls \cup {c}
    /\ owed' = IF c.op = "queue" THEN owed \cup {c.box} ELSE owed
    /\ UNCHANGED <<jobs, again, auto, fore, foreWork, gen, genWork, replay, stats, attach, loop, markers, resets,
                   troubles>>

Start ==
    LET c == Every("auto") IN
    /\ c \in calls /\ Free
    /\ calls' = calls \ {c}
    /\ IF Gated THEN /\ genWork' = [genWork EXCEPT !.auto = TRUE]
                     /\ UNCHANGED <<auto, attach>>
       ELSE /\ auto' = IF AutoOn THEN auto ELSE [auto EXCEPT !.pc = "plan", !.stop = FALSE]
            /\ attach' = IF AutoOn THEN attach ELSE PausedAttach
            /\ UNCHANGED genWork
    /\ UNCHANGED <<jobs, again, fore, foreWork, gen, replay, stats, loop, markers, owed>>
    /\ UNCHANGED counters

\* StartMailboxes and StartAccountMailboxes: refused when the mailbox is busy.
StartMailboxes(b) ==
    LET c == Call("start", b) IN
    /\ c \in calls /\ Free
    /\ calls' = calls \ {c}
    /\ IF Gated THEN genWork' = [genWork EXCEPT !.boxes = @ \cup {b}] /\ UNCHANGED <<jobs, attach>>
       ELSE IF ReservedByAny(b) THEN UNCHANGED <<genWork, jobs, attach>>
       ELSE Reserve(<<"all", b>>, "sync", "own") /\ attach' = PausedAttach /\ UNCHANGED genWork
    /\ UNCHANGED <<again, auto, fore, foreWork, gen, replay, stats, loop, markers, owed>>
    /\ UNCHANGED counters

StartAccountMailboxes(b) ==
    LET c == Call("poll", b) IN
    /\ c \in calls /\ Free
    /\ calls' = calls \ {c}
    /\ IF AutoOn THEN UNCHANGED <<genWork, jobs, attach>>
       ELSE IF AccountGated(b) THEN genWork' = [genWork EXCEPT !.accts = @ \cup {b}] /\ UNCHANGED <<jobs, attach>>
       ELSE IF AccountReserved(b) THEN UNCHANGED <<genWork, jobs, attach>>
       ELSE /\ Reserve(<<"acct", b>>, "sync", "own") /\ attach' = PausedAttach
            /\ genWork' = [genWork EXCEPT !.accts = @ \ {b}]
    /\ UNCHANGED <<again, auto, fore, foreWork, gen, replay, stats, loop, markers, owed>>
    /\ UNCHANGED counters

\* The foreground barrier was not released within five minutes: refused.
GiveUpWaiting(c) ==
    /\ c \in calls /\ c.op \in {"auto", "start", "poll"} /\ ForegroundOn
    /\ Trouble
    /\ calls' = calls \ {c}
    /\ UNCHANGED <<jobs, again, auto, fore, foreWork, gen, genWork, replay, stats, attach, loop, markers, owed, asks, resets>>

\* StartPriorityMailboxes: a busy mailbox is marked to run again.
StartPriorityMailboxes(b) ==
    LET c == Call("priority", b) IN
    /\ c \in calls /\ ~stats.running
    /\ calls' = calls \ {c}
    /\ IF Gated THEN genWork' = [genWork EXCEPT !.boxes = @ \cup {b}] /\ UNCHANGED <<jobs, attach, again, foreWork>>
       ELSE IF ForegroundOn THEN foreWork' = [foreWork EXCEPT !.boxes = @ \cup {b}] /\ UNCHANGED <<jobs, attach, again, genWork>>
       ELSE IF ReservedByAny(b) THEN again' = again \cup {<<"all", b>>} /\ UNCHANGED <<jobs, attach, foreWork, genWork>>
       ELSE Reserve(<<"all", b>>, "sync", "own") /\ attach' = PausedAttach /\ UNCHANGED <<again, foreWork, genWork>>
    /\ UNCHANGED <<auto, fore, gen, replay, stats, loop, markers, owed>>
    /\ UNCHANGED counters

\* QueueAccountMailboxes, for one mailbox.
QueueAccountMailboxes(b) ==
    LET c == Call("queue", b) IN
    /\ c \in calls /\ ~stats.running
    /\ calls' = calls \ {c}
    /\ IF AutoOn THEN auto' = [auto EXCEPT !.held = @ \cup {b}] /\ UNCHANGED <<jobs, attach, again, foreWork, genWork>>
       ELSE IF AccountGated(b)
       THEN genWork' = [genWork EXCEPT !.accts = @ \cup {b}] /\ UNCHANGED <<auto, jobs, attach, again, foreWork>>
       ELSE IF ForegroundOn
       THEN foreWork' = [foreWork EXCEPT !.accts = @ \cup {b}] /\ UNCHANGED <<auto, jobs, attach, again, genWork>>
       ELSE IF AccountReserved(b)
       THEN again' = again \cup {<<"acct", b>>} /\ UNCHANGED <<auto, jobs, attach, foreWork, genWork>>
       ELSE /\ Reserve(<<"acct", b>>, "sync", "own") /\ attach' = PausedAttach
            /\ genWork' = [genWork EXCEPT !.accts = @ \ {b}]
            /\ UNCHANGED <<auto, again, foreWork>>
    /\ UNCHANGED <<fore, gen, replay, stats, loop, markers, owed>>
    /\ UNCHANGED counters

\* StartMailboxMaintenance, its variants that run to completion, and the
\* search-only rebuild.
StartMaintenance(b, kind) ==
    LET c == Call(kind, b) IN
    /\ c \in calls /\ Free
    /\ calls' = calls \ {c}
    /\ IF Gated \/ AccountReserved(b) THEN UNCHANGED <<jobs, attach>>
       ELSE Reserve(<<"acct", b>>, kind, "own") /\ attach' = PausedAttach
    /\ UNCHANGED <<again, auto, fore, foreWork, gen, genWork, replay, stats, loop, markers, owed>>
    /\ UNCHANGED counters

---------------------------------------------------------------------------
(* A job that has its reservation. *)

\* The context is registered for cancellation, already canceled when recovery
\* is pending (an account pass over the Inbox may go on); then the attachment
\* worker has to yield, or the wait times out.
BeginJob(k) ==
    LET stop == RecoveryPending /\ ~(k = <<"acct", Inbox>> /\ jobs[k].kind \in {"sync", "replay"}) IN
    /\ jobs[k].phase = "reserved"
    /\ IF attach.running /\ ~stop THEN Trouble ELSE Calm
    /\ jobs' = [jobs EXCEPT ![k].phase = "running", ![k].stop = stop,
                            ![k].serves = jobs[k].kind \in {"sync", "replay"}]
    /\ owed' = IF stop /\ jobs[k].kind \in {"sync", "replay"} THEN owed \ {k[2]} ELSE owed
    /\ UNCHANGED <<again, auto, fore, foreWork, gen, genWork, replay, stats, attach, loop, calls, markers, asks, resets>>

\* The pass finds another UIDVALIDITY: a marker is committed, then recovery is
\* signalled.
DiscoverGeneration(k) ==
    /\ jobs[k].kind \in {"sync", "replay"} /\ jobs[k].phase = "running" /\ ~jobs[k].stop
    /\ resets < MaxResets
    /\ resets' = resets + 1
    /\ markers' = markers \cup {k[2]}
    /\ jobs' = [jobs EXCEPT ![k].phase = "signal"]
    /\ UNCHANGED <<again, auto, fore, foreWork, gen, genWork, replay, stats, attach, loop, calls, owed, asks, troubles>>

SignalledGen == [gen EXCEPT !.users = TRUE, !.epoch = @ + 1, !.known = FALSE, !.targets = {}]
Activated ==
    /\ stats' = [stats EXCEPT !.pending = TRUE, !.stop = stats.running]
    /\ attach' = [PausedAttach EXCEPT !.pending = TRUE]
WokenLoop == [loop EXCEPT !.on = TRUE, !.wake = TRUE]

SignalMailboxGenerationRecovery(k) ==
    /\ jobs[k].phase = "signal"
    /\ gen' = SignalledGen
    /\ Activated
    /\ jobs' = [j \in Keys |->
          IF j = k THEN [jobs[j] EXCEPT !.stop = TRUE, !.phase = "running"]
          ELSE IF StopsForRecovery(j) THEN [jobs[j] EXCEPT !.stop = TRUE] ELSE jobs[j]]
    /\ auto' = [auto EXCEPT !.stop = AutoOn]
    /\ owed' = {b \in owed : \A j \in Keys : ~(j[2] = b /\ jobs[j].serves /\ StopsForRecovery(j))}
    /\ loop' = WokenLoop
    /\ UNCHANGED <<again, fore, foreWork, genWork, replay, calls, markers>>
    /\ UNCHANGED counters

\* The job ends, well or not (canceled, timed out, failed), and releases its
\* mailbox.  A pass that failed was still the pass that was asked for.
EndJob(k, ok) ==
    LET j == jobs[k] IN
    /\ j.phase = "running" /\ j.kind # "recovery"
    /\ IF ok THEN (~j.stop \/ j.kind \in {"committed", "search"}) /\ Calm ELSE IF j.stop THEN Calm ELSE Trouble
    /\ jobs' = [jobs EXCEPT ![k] = NoJob]
    /\ again' = WithoutReruns(k[2])
    /\ owed' = IF j.serves /\ ~j.stop THEN owed \ {k[2]} ELSE owed
    /\ calls' = calls \cup Reruns(k[2]) \cup
          (CASE j.owner # "own" -> {}
             [] j.kind # "sync" /\ ~ok -> Afterwards \ {Every("stats")}
             [] OTHER -> Afterwards)
    /\ replay' = IF j.owner = "replay" THEN [replay EXCEPT !.pc = IF ok THEN "done" ELSE "pause"] ELSE replay
    /\ UNCHANGED <<auto, fore, foreWork, gen, genWork, stats, attach, loop, markers, asks, resets>>

---------------------------------------------------------------------------
(* The account-wide pass. *)
AutoPlan ==
    /\ auto.pc = "plan" /\ ~auto.stop
    /\ IF attach.running THEN Trouble ELSE Calm
    /\ auto' = [auto EXCEPT !.pc = "run", !.todo = Boxes]
    /\ UNCHANGED <<jobs, again, fore, foreWork, gen, genWork, replay, stats, attach, loop, calls, markers, owed, asks, resets>>

AutoIdle == auto.pc = "run" /\ \A k \in Keys : jobs[k].owner # "auto"
AutoNext(b) ==
    /\ AutoIdle /\ ~auto.stop /\ b \in auto.todo /\ Free
    /\ auto' = [auto EXCEPT !.todo = @ \ {b}]
    /\ IF Gated THEN genWork' = [genWork EXCEPT !.boxes = @ \cup {b}] /\ UNCHANGED <<jobs, attach>>
       ELSE IF ReservedByAny(b) THEN UNCHANGED <<genWork, jobs, attach>>
       ELSE Reserve(<<"all", b>>, "sync", "auto") /\ attach' = PausedAttach /\ UNCHANGED genWork
    /\ UNCHANGED <<again, fore, foreWork, gen, replay, stats, loop, calls, markers, owed>>
    /\ UNCHANGED counters

AutoEnd ==
    /\ AutoOn
    /\ \/ auto.stop /\ \A k \in Keys : jobs[k].owner # "auto"
       \/ AutoIdle /\ auto.todo = {}
    /\ auto' = [pc |-> "off", stop |-> FALSE, todo |-> {}, held |-> {}]
    /\ calls' = calls \cup Afterwards \cup {Call("queue", b) : b \in auto.held}
    /\ UNCHANGED <<jobs, again, fore, foreWork, gen, genWork, replay, stats, attach, loop, markers, owed>>
    /\ UNCHANGED counters

---------------------------------------------------------------------------
(* The foreground barrier of a send or a move. *)
BeginForegroundOperation ==
    LET c == Every("fore") IN
    /\ c \in calls /\ ~ForegroundOn
    /\ calls' = calls \ {c}
    /\ fore' = "yield"
    /\ YieldToForeground
    /\ UNCHANGED <<gen, genWork, replay, loop, markers, owed>>
    /\ UNCHANGED counters

\* waitForForegroundYield polls, and repeats the preemption.
PreemptAgain ==
    /\ fore \in {"yield", "late"}
    /\ YieldToForeground
    /\ UNCHANGED <<fore, gen, genWork, replay, loop, calls, markers, owed>>
    /\ UNCHANGED counters

Yielded == ~attach.running /\ ~stats.running /\ ~MailboxWriter
ForegroundAcquired ==
    /\ fore = "yield" /\ Yielded
    /\ fore' = "held"
    /\ UNCHANGED <<jobs, again, auto, foreWork, gen, genWork, replay, stats, attach, loop, calls, markers, owed>>
    /\ UNCHANGED counters

\* The request gives up; the barrier stays until the workers have yielded.
ForegroundTimeout ==
    /\ fore = "yield"
    /\ Trouble
    /\ fore' = "late"
    /\ UNCHANGED <<jobs, again, auto, foreWork, gen, genWork, replay, stats, attach, loop, calls, markers, owed, asks, resets>>

\* finish: the barrier is released and deferred work is scheduled.
WorkCalls(w) ==
    (IF w.auto THEN {Every("auto")} ELSE {})
      \cup {Call("priority", b) : b \in w.boxes} \cup {Call("queue", b) : b \in w.accts \ w.boxes}
DerivedCalls ==
    (IF stats.pending THEN {Every("stats")} ELSE {}) \cup (IF attach.pending THEN {Every("attach")} ELSE {})
FinishForeground ==
    /\ fore = "held" \/ (fore = "late" /\ Yielded)
    /\ fore' = "off"
    /\ calls' = calls \cup {Every("gate")} \cup (IF WorkCalls(foreWork) = {} THEN DerivedCalls ELSE WorkCalls(foreWork))
    /\ foreWork' = NoWork
    /\ loop' = WokenLoop
    /\ UNCHANGED <<jobs, again, auto, gen, genWork, replay, stats, attach, markers, owed>>
    /\ UNCHANGED counters

---------------------------------------------------------------------------
(* The gate. *)

\* refreshGenerationRecoveryGateForUser: the epoch, then the store, then the
\* decision under the lock.
RefreshGate ==
    LET c == Every("gate") IN
    /\ c \in calls
    /\ IF gen.users
       THEN calls' = (calls \ {c}) \cup {[op |-> "decide", box |-> Inbox, pending |-> markers # {}, epoch |-> gen.epoch]}
       ELSE calls' = calls \ {c}
    /\ UNCHANGED <<jobs, again, auto, fore, foreWork, gen, genWork, replay, stats, attach, loop, markers, owed>>
    /\ UNCHANGED counters

\* reconcileGenerationRecoveryUsers.  scanned says whether the list of targets
\* is known.
AnySnapshot(epoch) == TRUE
Fresh(epoch) == epoch = gen.epoch
MayOpen(epoch) == ~gen.runs /\ ~gen.replay /\ ~OrdinaryRunning /\ ~attach.running /\ Fresh(epoch)
Reconcile(list, pending, scanned, epoch) ==
    IF pending
    THEN /\ gen' = [gen EXCEPT !.users = TRUE,
                               !.epoch = IF gen.users THEN @ ELSE @ + 1,
                               !.known = @ \/ (scanned /\ (~gen.users \/ Fresh(epoch))),
                               !.targets = IF scanned /\ (~gen.users \/ Fresh(epoch)) THEN list ELSE @]
         /\ Activated
         /\ IF gen.users THEN UNCHANGED <<jobs, auto, owed>> ELSE CancelOrdinary
         /\ UNCHANGED <<genWork, replay>>
    ELSE IF gen.users /\ MayOpen(epoch)
    THEN /\ gen' = [gen EXCEPT !.users = FALSE, !.known = FALSE, !.targets = {}, !.replay = TRUE]
         /\ replay' = [NoReplay EXCEPT !.pc = "prepare", !.work = genWork]
         /\ genWork' = NoWork
         /\ UNCHANGED <<jobs, auto, owed, stats, attach>>
    ELSE /\ gen' = IF gen.users /\ scanned /\ Fresh(epoch) THEN [gen EXCEPT !.known = TRUE, !.targets = {}] ELSE gen
         /\ UNCHANGED <<genWork, replay, jobs, auto, owed, stats, attach>>

DecideGate(c) ==
    /\ c \in calls /\ c.op = "decide"
    /\ calls' = calls \ {c}
    /\ Reconcile({}, c.pending, FALSE, c.epoch)
    /\ loop' = WokenLoop
    /\ UNCHANGED <<again, fore, foreWork, markers>>
    /\ UNCHANGED counters

---------------------------------------------------------------------------
(* The recovery loop. *)

\* The timer fires, or a token is in the channel: the epoch and the markers are
\* read.
ScanRebuilds ==
    /\ loop.on /\ loop.pc = "wait"
    /\ loop' = [loop EXCEPT !.wake = FALSE, !.pc = "reconcile", !.list = markers,
                            !.epoch = IF gen.users THEN gen.epoch ELSE 0]
    /\ UNCHANGED <<jobs, again, auto, fore, foreWork, gen, genWork, replay, stats, attach, calls, markers, owed>>
    /\ UNCHANGED counters

ReconcileScan ==
    /\ loop.pc = "reconcile"
    /\ Reconcile(loop.list, loop.list # {}, TRUE, loop.epoch)
    /\ loop' = [loop EXCEPT !.pc = "attempt"]
    /\ UNCHANGED <<again, fore, foreWork, calls, markers>>
    /\ UNCHANGED counters

\* reserveGenerationRecoveryMailbox, Inbox first.
First(list) == IF Inbox \in list THEN Inbox ELSE CHOOSE b \in list : TRUE
MayRecover == ~gen.runs /\ ~gen.replay /\ ~UserWorkRunning
AttemptRebuild ==
    /\ loop.pc = "attempt" /\ loop.list # {}
    /\ loop' = [loop EXCEPT !.pc = "wait"]
    /\ LET g == IF gen.users THEN gen ELSE [gen EXCEPT !.users = TRUE, !.epoch = @ + 1]
           k == <<"acct", First(loop.list)>> IN
       IF MayRecover
       THEN /\ gen' = [g EXCEPT !.runs = TRUE]
            /\ jobs' = [jobs EXCEPT ![k] = [NoJob EXCEPT !.kind = "recovery", !.phase = "running", !.owner = "own"]]
            /\ IF gen.users THEN UNCHANGED <<stats, attach>> ELSE Activated
            /\ UNCHANGED <<auto, owed>>
       ELSE /\ gen' = g
            /\ IF gen.users THEN UNCHANGED <<jobs, auto, owed, stats, attach>> ELSE CancelOrdinary /\ Activated
    /\ UNCHANGED <<again, fore, foreWork, genWork, replay, calls, markers>>
    /\ UNCHANGED counters

\* Nothing is pending: the loop goes on for a token or an active gate, or ends.
LoopStops == ~loop.wake /\ ~gen.users /\ ~gen.runs
LoopDecides ==
    /\ loop.pc = "attempt" /\ loop.list = {}
    /\ loop' = [loop EXCEPT !.pc = "wait", !.on = ~LoopStops]
    /\ UNCHANGED <<jobs, again, auto, fore, foreWork, gen, genWork, replay, stats, attach, calls, markers, owed>>
    /\ UNCHANGED counters

\* A turn of recovery ends: the marker is gone, or the loop will try again.
EndRecovery(b, ok) ==
    LET k == <<"acct", b>> IN
    /\ jobs[k].kind = "recovery"
    /\ IF ok THEN ~jobs[k].stop /\ Calm ELSE IF jobs[k].stop THEN Calm ELSE Trouble
    /\ jobs' = [jobs EXCEPT ![k] = NoJob]
    /\ gen' = [gen EXCEPT !.runs = FALSE]
    /\ markers' = IF ok THEN markers \ {b} ELSE markers
    /\ calls' = IF ok THEN calls \cup {Every("gate")} ELSE calls
    /\ loop' = IF ok THEN loop ELSE [loop EXCEPT !.on = TRUE]
    /\ UNCHANGED <<again, auto, fore, foreWork, genWork, replay, stats, attach, owed, asks, resets>>

---------------------------------------------------------------------------
(* The replay of deferred work behind the gate. *)
Interrupted == gen.users \/ ForegroundOn
Join(v, w) == [auto |-> v.auto \/ w.auto, boxes |-> v.boxes \cup w.boxes, accts |-> v.accts \cup w.accts]

\* pauseGenerationRecoveryReplay.
Pause(w) ==
    /\ gen' = [gen EXCEPT !.replay = FALSE]
    /\ replay' = NoReplay
    /\ IF ForegroundOn
       THEN foreWork' = Join(foreWork, w) /\ UNCHANGED <<genWork, loop>>
       ELSE genWork' = Join(genWork, w) /\ loop' = WokenLoop /\ UNCHANGED foreWork

\* prepareGenerationRecoveryReplay and coalesce.
Prepared(w) ==
    LET boxes == IF w.auto THEN Boxes ELSE w.boxes IN [auto |-> FALSE, boxes |-> boxes, accts |-> w.accts \ boxes]
PrepareReplay ==
    /\ replay.pc = "prepare"
    /\ IF Interrupted THEN Pause(replay.work)
       ELSE replay' = [replay EXCEPT !.pc = "next", !.work = Prepared(@)] /\ UNCHANGED <<gen, genWork, foreWork, loop>>
    /\ UNCHANGED <<jobs, again, auto, fore, stats, attach, calls, markers, owed>>
    /\ UNCHANGED counters

\* The next mailbox: the Inboxes first, then mailboxes, then accounts.
ReplayOrder(w) ==
    IF Inbox \in w.boxes THEN {<<"all", Inbox>>}
    ELSE IF Inbox \in w.accts THEN {<<"acct", Inbox>>}
    ELSE IF w.boxes # {} THEN {<<"all", b>> : b \in w.boxes}
    ELSE {<<"acct", b>> : b \in w.accts}
Without(w, k) ==
    IF k[1] = "all" THEN [w EXCEPT !.boxes = @ \ {k[2]}] ELSE [w EXCEPT !.accts = @ \ {k[2]}]
ReplayNext(k) ==
    /\ replay.pc = "next" /\ k \in ReplayOrder(replay.work)
    /\ IF Interrupted THEN Pause(replay.work) /\ UNCHANGED jobs
       ELSE /\ IF k[1] = "all" THEN ~ReservedByAny(k[2]) ELSE ~AccountReserved(k[2])
            /\ Reserve(k, "replay", "replay")
            /\ replay' = [replay EXCEPT !.pc = "running", !.now = k]
            /\ UNCHANGED <<gen, genWork, foreWork, loop>>
    /\ UNCHANGED <<again, auto, fore, stats, attach, calls, markers, owed>>
    /\ UNCHANGED counters

\* The pass of one mailbox returned: it failed or recovery began, and it is
\* parked with the rest, or it is done.
ReplayReturned ==
    /\ replay.pc \in {"done", "pause"}
    /\ IF replay.pc = "pause" \/ Interrupted THEN Pause(replay.work)
       ELSE /\ replay' = [replay EXCEPT !.pc = "next", !.work = Without(@, replay.now)]
            /\ UNCHANGED <<gen, genWork, foreWork, loop>>
    /\ UNCHANGED <<jobs, again, auto, fore, stats, attach, calls, markers, owed>>
    /\ UNCHANGED counters

\* The end: new markers close the gate again, work deferred meanwhile is
\* replayed, or the gate opens and derived work is scheduled.
ReplayEnds ==
    /\ replay.pc = "next" /\ ReplayOrder(replay.work) = {}
    /\ IF markers # {}
       THEN /\ gen' = [SignalledGen EXCEPT !.replay = FALSE]
            /\ replay' = NoReplay /\ Activated /\ CancelOrdinary
            /\ loop' = WokenLoop /\ UNCHANGED <<calls, genWork>>
       ELSE IF gen.users
       THEN Pause(NoWork) /\ UNCHANGED <<stats, attach, jobs, auto, owed, calls>>
       ELSE IF genWork # NoWork
       THEN /\ replay' = [NoReplay EXCEPT !.pc = "prepare", !.work = genWork]
            /\ genWork' = NoWork
            /\ UNCHANGED <<gen, stats, attach, jobs, auto, owed, calls, loop>>
       ELSE /\ gen' = [gen EXCEPT !.replay = FALSE]
            /\ replay' = NoReplay
            /\ calls' = calls \cup (IF ForegroundOn THEN {} ELSE DerivedCalls)
            /\ UNCHANGED <<stats, attach, jobs, auto, owed, genWork, loop>>
    /\ UNCHANGED <<again, fore, foreWork, markers>>
    /\ UNCHANGED counters

---------------------------------------------------------------------------
(* Derived work: sender statistics and the attachment index. *)
RefreshSenderStats ==
    LET c == Every("stats") IN
    /\ c \in calls
    /\ calls' = calls \ {c}
    /\ stats' = IF Gated \/ OrdinaryRunning \/ attach.running \/ stats.running
                THEN [stats EXCEPT !.pending = TRUE]
                ELSE [running |-> TRUE, stop |-> FALSE, pending |-> FALSE, epoch |-> gen.epoch]
    /\ UNCHANGED <<jobs, again, auto, fore, foreWork, gen, genWork, replay, attach, loop, markers, owed>>
    /\ UNCHANGED counters

SenderStatsDone(ok) ==
    LET pending == stats.pending \/ ~ok \/ Gated \/ gen.epoch # stats.epoch
        idle == ok /\ ~Gated /\ ~OrdinaryRunning IN
    /\ stats.running
    /\ IF ok THEN ~stats.stop /\ Calm ELSE IF stats.stop THEN Calm ELSE Trouble
    /\ stats' = [running |-> FALSE, stop |-> FALSE, pending |-> pending, epoch |-> 0]
    /\ calls' = calls \cup (IF idle /\ pending THEN {Every("stats")} ELSE {})
                      \cup (IF idle /\ ~pending /\ attach.resume THEN {Every("attach")} ELSE {})
    /\ UNCHANGED <<jobs, again, auto, fore, foreWork, gen, genWork, replay, attach, loop, markers, owed, asks, resets>>

StartAttachmentIndex ==
    LET c == Every("attach") IN
    /\ c \in calls
    /\ calls' = calls \ {c}
    /\ attach' = IF stats.running THEN [attach EXCEPT !.pending = TRUE, !.resume = TRUE]
                 ELSE IF Gated \/ OrdinaryRunning \/ attach.running THEN [attach EXCEPT !.pending = TRUE]
                 ELSE [running |-> TRUE, stop |-> FALSE, pending |-> FALSE, resume |-> FALSE]
    /\ UNCHANGED <<jobs, again, auto, fore, foreWork, gen, genWork, replay, stats, loop, markers, owed>>
    /\ UNCHANGED counters

\* A batch ends: there is more, or it failed, or the queue is drained.
AttachmentIndexDone(ok, more) ==
    LET pending == attach.pending \/ more \/ ~ok IN
    /\ attach.running
    /\ IF ok /\ ~more THEN Calm ELSE IF attach.stop /\ ~ok THEN Calm ELSE Trouble
    /\ attach' = [running |-> FALSE, stop |-> FALSE, pending |-> pending,
                  resume |-> attach.resume \/ (stats.pending /\ pending /\ ok)]
    /\ calls' = calls \cup {Every("gate")} \cup
          (IF stats.pending THEN {Every("stats")}
           ELSE IF pending /\ ok /\ ~stats.running /\ ~Gated /\ ~OrdinaryRunning THEN {Every("attach")} ELSE {})
    /\ loop' = WokenLoop
    /\ UNCHANGED <<jobs, again, auto, fore, foreWork, gen, genWork, replay, stats, markers, owed, asks, resets>>

---------------------------------------------------------------------------
RunnerInit ==
    /\ jobs = [k \in Keys |-> NoJob] /\ again = {}
    /\ auto = [pc |-> "off", stop |-> FALSE, todo |-> {}, held |-> {}]
    /\ fore = "off" /\ foreWork = NoWork
    /\ gen = [users |-> FALSE, runs |-> FALSE, replay |-> FALSE, epoch |-> 1, known |-> FALSE, targets |-> {}]
    /\ genWork = NoWork /\ replay = NoReplay
    /\ stats = [running |-> FALSE, stop |-> FALSE, pending |-> FALSE, epoch |-> 0]
    /\ attach = [running |-> FALSE, stop |-> FALSE, pending |-> FALSE, resume |-> FALSE]
    /\ loop = [on |-> FALSE, wake |-> FALSE, pc |-> "wait", list |-> {}, epoch |-> 0]
    /\ calls = {} /\ markers = {} /\ owed = {}
    /\ asks = 0 /\ resets = 0 /\ troubles = 0

Requests ==
    {Every("auto"), Every("fore")} \cup {Call(op, b) : op \in {"start", "poll", "priority", "queue",
                                                             "maintenance", "committed", "search"}, b \in Boxes}
CallStep ==
    \/ Start \/ BeginForegroundOperation \/ RefreshGate \/ RefreshSenderStats \/ StartAttachmentIndex
    \/ \E c \in calls : DecideGate(c) \/ GiveUpWaiting(c)
    \/ \E b \in Boxes :
          \/ StartMailboxes(b) \/ StartAccountMailboxes(b) \/ StartPriorityMailboxes(b) \/ QueueAccountMailboxes(b)
          \/ \E kind \in {"maintenance", "committed", "search"} : StartMaintenance(b, kind)
JobStep ==
    \/ \E k \in Keys :
          \/ BeginJob(k) \/ DiscoverGeneration(k) \/ SignalMailboxGenerationRecovery(k)
          \/ \E ok \in BOOLEAN : EndJob(k, ok)
    \/ \E b \in Boxes, ok \in BOOLEAN : EndRecovery(b, ok)
    \/ \E ok \in BOOLEAN : SenderStatsDone(ok) \/ \E more \in BOOLEAN : AttachmentIndexDone(ok, more)
AutoStep == AutoPlan \/ AutoEnd \/ \E b \in Boxes : AutoNext(b)
ForegroundStep == PreemptAgain \/ ForegroundAcquired \/ ForegroundTimeout \/ FinishForeground
LoopStep == ScanRebuilds \/ ReconcileScan \/ AttemptRebuild \/ LoopDecides
ReplayStep == PrepareReplay \/ ReplayReturned \/ ReplayEnds \/ \E k \in Keys : ReplayNext(k)

RunnerNext ==
    (\E c \in Requests : Ask(c)) \/ CallStep \/ JobStep \/ AutoStep \/ ForegroundStep \/ LoopStep \/ ReplayStep
RunnerSpec == RunnerInit /\ [][RunnerNext]_runVars

---------------------------------------------------------------------------
\* One job per mailbox: a reservation for all accounts and one for the account
\* exclude each other, however a pass, maintenance, a replay and recovery meet.
OneJobPerMailbox == \A b \in Boxes : ~(Busy(<<"all", b>>) /\ Busy(<<"acct", b>>))

\* While a mailbox is rebuilt nothing else writes mail of the user, except one
\* pass over an Inbox that is not waiting for its own rebuild.
RecoveryAlone ==
    gen.runs =>
        LET others == {k \in Keys : Busy(k) /\ jobs[k].kind # "recovery"} IN
        /\ ~AutoOn
        /\ Cardinality(others) <= 1
        /\ \A k \in others : k = <<"acct", Inbox>> /\ jobs[k].kind \in {"sync", "replay"}

\* Once a send or a move has the barrier, only a search rebuild runs beside it.
ForegroundAlone == fore = "held" => \A k \in Keys : Busy(k) => jobs[k].kind = "search"

\* The gate never opens while a mailbox waits for its rebuild, although the
\* markers are read before the lock is taken.
GateOpensClean == [][gen.users /\ ~gen'.users => markers = {}]_runVars

\* The recovery loop lives as long as the gate is closed or a token is left.
LoopAlive == (gen.users \/ gen.runs \/ loop.wake) => loop.on

\* A pass that QueueAccountMailboxes promised and that has not run is kept
\* somewhere: about to be queued, reserved, marked to run again, or deferred by
\* the account-wide pass, the foreground or the gate.  (A pass that recovery
\* cancels counts as run.)
Kept(b) ==
    \/ Call("queue", b) \in calls \/ Call("priority", b) \in calls
    \/ \E k \in Keys : k[2] = b /\ (k \in again \/ jobs[k].kind \in {"sync", "replay"})
    \/ b \in auto.held
    \/ \E w \in {genWork, foreWork, replay.work} : b \in w.boxes \cup w.accts \/ w.auto
PromiseKept == \A b \in owed : Kept(b)

\* What the runner keeps to at all times: who may write the mail of a user beside
\* whom, and that nothing it promised to do is dropped.
RunnerSafe == RecoveryAlone /\ OneJobPerMailbox /\ ForegroundAlone /\ LoopAlive /\ PromiseKept
====
