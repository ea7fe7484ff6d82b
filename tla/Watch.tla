---- MODULE Watch ----
(* How new mail of an Inbox is noticed: the IDLE watchers of cmd/rolltop/main.go
   (inboxIdle) over Fetcher.WatchMailbox, and the scheduled account-wide sync that is
   their fallback.  One Inbox of one account; the runner is reduced to what it promises
   for it (Runner has the rest): a queued sync runs now or once more after the running
   one, a sync of the account-wide pass is skipped when the Inbox is busy.

   A watcher keeps the account record it was started with.  Mail that arrives while no
   selected connection listens is not reported by IDLE. *)
EXTENDS Integers, FiniteSets

CONSTANTS
    Watchers,         \* goroutines of inboxIdle
    MaxLetters,       \* messages that arrive
    MaxWatchFaults,   \* lost connections, failed syncs, crashes
    MaxSwitches       \* changes of the sync mode and of the account

NoWatcher == "nobody"

ASSUME WatchAssumption ==
    /\ MaxLetters \in Nat /\ MaxWatchFaults \in Nat /\ MaxSwitches \in Nat
    /\ NoWatcher \notin Watchers

VARIABLES
    inbox,      \* messages on the server
    mirrored,   \* messages a sync has stored
    automatic,  \* the Inbox exists, in effective mode auto
    password,   \* the account record, as a version
    active,     \* the watcher registered for the Inbox, or NoWatcher
    watch,      \* per watcher: [at, off, with, news]
    sync,       \* the sync of the Inbox: [busy, again]
    pass,       \* the account-wide pass: "none", "planning", "syncing"
    mishap      \* [faults, switches] so far
watchVars == <<inbox, mirrored, automatic, password, active, watch, sync, pass, mishap>>

Unstarted == [at |-> "none", off |-> FALSE, with |-> 0, news |-> FALSE]
WatchInit ==
    /\ inbox = 0 /\ mirrored = 0 /\ automatic = TRUE /\ password = 0
    /\ active = NoWatcher /\ watch = [w \in Watchers |-> Unstarted]
    /\ sync = [busy |-> FALSE, again |-> FALSE] /\ pass = "none"
    /\ mishap = [faults |-> 0, switches |-> 0]
Faults == mishap.faults < MaxWatchFaults /\ mishap' = [mishap EXCEPT !.faults = @ + 1]

---------------------------------------------------------------------------
(* The server and the user. *)
\* a listening connection is told; one between SELECT and the update channel may miss it
MailArrives ==
    /\ inbox < MaxLetters /\ inbox' = inbox + 1
    /\ \E heard \in BOOLEAN :
         watch' = [w \in Watchers |->
                     IF watch[w].at = "idle" \/ (watch[w].at = "attach" /\ heard)
                     THEN [watch[w] EXCEPT !.news = TRUE] ELSE watch[w]]
    /\ UNCHANGED <<mirrored, automatic, password, active, sync, pass, mishap>>
UserSwitches ==
    /\ mishap.switches < MaxSwitches /\ mishap' = [mishap EXCEPT !.switches = @ + 1]
    /\ \/ automatic' = ~automatic /\ UNCHANGED password
       \/ password' = password + 1 /\ UNCHANGED automatic
    /\ UNCHANGED <<inbox, mirrored, active, watch, sync, pass>>

---------------------------------------------------------------------------
(* inboxIdle. *)
RunningWatchers == {w \in Watchers : watch[w].at # "none"}
\* the next tick is five minutes away: a cancelled watcher has ended by then
StartMissing ==
    /\ \A w \in RunningWatchers : ~watch[w].off
    /\ \/ /\ automatic /\ active = NoWatcher
          /\ \E w \in Watchers \ RunningWatchers :
               /\ active' = w
               /\ watch' = [watch EXCEPT ![w] = [Unstarted EXCEPT !.at = "login", !.with = password]]
       \/ /\ ~automatic /\ active # NoWatcher
          /\ active' = NoWatcher
          /\ watch' = [watch EXCEPT ![active].off = TRUE]
    /\ UNCHANGED <<inbox, mirrored, automatic, password, sync, pass, mishap>>
WatchMoves(w, next) ==
    /\ watch' = [watch EXCEPT ![w] = next]
    /\ UNCHANGED <<inbox, mirrored, automatic, password>>
ForgetsWatcher(w) == NoWatcher
\* a failed WatchMailbox keeps its registration and is tried again after a pause
StaysRegistered(w) == active
\* loginWithinContext and SELECT, with the record of the start
Login(w) ==
    /\ watch[w].at = "login" /\ ~watch[w].off /\ watch[w].with = password
    /\ WatchMoves(w, [watch[w] EXCEPT !.at = "attach"])
    /\ UNCHANGED <<active, sync, pass, mishap>>
\* c.Updates = updates, then IDLE
Attach(w) ==
    /\ watch[w].at = "attach" /\ ~watch[w].off
    /\ WatchMoves(w, [watch[w] EXCEPT !.at = "idle"])
    /\ UNCHANGED <<active, sync, pass, mishap>>
\* the connection fails, or the login does
WatchFails(w) ==
    /\ watch[w].at \in {"login", "attach", "idle"} /\ ~watch[w].off
    /\ IF watch[w].at = "login" /\ watch[w].with # password THEN UNCHANGED mishap ELSE Faults
    /\ WatchMoves(w, [watch[w] EXCEPT !.at = "sleep", !.news = FALSE])
    /\ active' = StaysRegistered(w)
    /\ UNCHANGED <<sync, pass>>
Retries(w) ==
    /\ watch[w].at = "sleep" /\ ~watch[w].off
    /\ WatchMoves(w, [watch[w] EXCEPT !.at = "login"])
    /\ UNCHANGED <<active, sync, pass, mishap>>
\* idleMailboxOnce: an update queues a sync, and the next IDLE cycle begins
Notices(w) ==
    /\ watch[w].at = "idle" /\ watch[w].news /\ ~watch[w].off
    /\ WatchMoves(w, [watch[w] EXCEPT !.news = FALSE])
    /\ sync' = [busy |-> TRUE, again |-> sync.busy \/ sync.again]
    /\ UNCHANGED <<active, pass, mishap>>
\* a cancelled watcher ends and removes the entry of its key
WatcherEnds(w) ==
    /\ watch[w].off
    /\ WatchMoves(w, Unstarted) /\ active' = NoWatcher
    /\ UNCHANGED <<sync, pass, mishap>>

---------------------------------------------------------------------------
(* The runner, as far as the Inbox goes. *)
\* a sync stores what the server has when it fetches; an error leaves the rest to the next one
SyncFetches ==
    /\ sync.busy
    /\ \/ mirrored' = inbox /\ UNCHANGED mishap
       \/ UNCHANGED mirrored /\ Faults
    /\ sync' = [busy |-> sync.again, again |-> FALSE]
    /\ pass' = IF pass = "syncing" /\ ~sync.again THEN "none" ELSE pass
    /\ UNCHANGED <<inbox, automatic, password, active, watch>>
\* scheduledSync and the pass at startup: Runner.Start, refused while a pass runs; a pass
\* that would find nothing new is left out
ScheduledSync ==
    /\ pass = "none" /\ inbox > mirrored
    /\ pass' = "planning"
    /\ UNCHANGED <<inbox, mirrored, automatic, password, active, watch, sync, mishap>>
\* the deferred function of Start takes the mark of the pass away on every return
PassDone == "none"
\* AutoMailboxNames leaves the Inbox out or the pass comes to it; runMailboxes skips a busy one
PassReaches ==
    /\ pass = "planning"
    /\ IF automatic /\ ~sync.busy
       THEN sync' = [busy |-> TRUE, again |-> FALSE] /\ pass' = "syncing"
       ELSE pass' = PassDone /\ UNCHANGED sync
    /\ UNCHANGED <<inbox, mirrored, automatic, password, active, watch, mishap>>
WatchCrash ==
    /\ Faults /\ watch' = [w \in Watchers |-> Unstarted] /\ active' = NoWatcher
    /\ sync' = [busy |-> FALSE, again |-> FALSE] /\ pass' = "none"
    /\ UNCHANGED <<inbox, mirrored, automatic, password>>

WatcherStep(w) == Login(w) \/ Attach(w) \/ WatchFails(w) \/ Retries(w) \/ Notices(w) \/ WatcherEnds(w)
WatchNext ==
    \/ MailArrives \/ UserSwitches \/ StartMissing \/ SyncFetches \/ ScheduledSync \/ PassReaches \/ WatchCrash
    \/ \E w \in Watchers : WatcherStep(w)
WatchSpec ==
    /\ WatchInit /\ [][WatchNext]_watchVars
    /\ WF_watchVars(StartMissing) /\ WF_watchVars(SyncFetches)
    /\ WF_watchVars(ScheduledSync) /\ WF_watchVars(PassReaches)
    /\ \A w \in Watchers : WF_watchVars(WatcherStep(w))

---------------------------------------------------------------------------
(* Properties. *)
\* At most one uncancelled watcher follows the Inbox, and it is the registered one,
\* whatever connections fail and however the folder is switched: the entry of a key
\* belongs to the goroutine that is still running.
OneWatcher == \A w \in RunningWatchers : watch[w].off \/ active = w
\* When the Inbox is to be synced automatically from some time on, every message is
\* mirrored, although IDLE misses what arrives between two connections, syncs fail,
\* passes find the Inbox busy and the process crashes.
MailIsMirrored == <>[]automatic => \A n \in 1 .. MaxLetters : inbox >= n ~> mirrored >= n
====
