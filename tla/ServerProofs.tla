---- MODULE ServerProofs ----
(* Why the server process keeps its safety promises: one watcher follows the
   Inbox (Watch), one process owns the stores (Daemon), a plugin runs once and not
   at all after Close (PluginHost), and no list that it answers is out of date
   (ListCache).  Each component has an inductive invariant, which is shown to
   survive every action. *)
EXTENDS Watch, Daemon, PluginHost, ListCache, FiniteSetTheorems, TLAPS

-----------------------------------------------------------------------------
(* The watcher of the Inbox *)

WatchTypeOK ==
    /\ watch \in [Watchers -> [at : {"none", "login", "attach", "idle", "sleep"},
                               off : BOOLEAN, with : Nat, news : BOOLEAN]]
    /\ active \in Watchers \cup {NoWatcher}
    /\ password \in Nat

\* A cancelled watcher is one that still runs, and the entry of the Inbox is a
\* running watcher that was not cancelled.
EntryRuns ==
    /\ \A w \in Watchers : watch[w].off => w \in RunningWatchers
    /\ active # NoWatcher => active \in RunningWatchers /\ ~watch[active].off

\* StartMissing starts none while a cancelled one runs, so there is only one.
OneRuns == \A v, w \in RunningWatchers : v = w

WatchInv == WatchTypeOK /\ EntryRuns /\ OneRuns /\ OneWatcher

LEMMA WatchInitially == WatchInit => WatchInv
BY WatchAssumption
   DEF WatchInit, WatchInv, WatchTypeOK, EntryRuns, OneRuns, OneWatcher, RunningWatchers, Unstarted

\* A step of watcher w alone that changes neither its being there nor its
\* being cancelled.
LEMMA WatcherGoesOn ==
    ASSUME WatchInv, NEW w \in RunningWatchers,
           NEW next \in [at : {"login", "attach", "idle", "sleep"}, off : BOOLEAN, with : Nat, news : BOOLEAN],
           next.off = watch[w].off, watch' = [watch EXCEPT ![w] = next],
           UNCHANGED <<active, password>>
    PROVE  WatchInv'
<1>1. w \in Watchers /\ watch[w].at # "none"
  BY DEF RunningWatchers
<1>2. WatchTypeOK'
  BY <1>1 DEF WatchInv, WatchTypeOK
<1>3. \A v \in Watchers : watch'[v].off = watch[v].off /\ (watch'[v].at # "none" <=> watch[v].at # "none")
  BY <1>1 DEF WatchInv, WatchTypeOK
<1>4. RunningWatchers' = RunningWatchers
  BY <1>3 DEF RunningWatchers
<1>5. RunningWatchers \subseteq Watchers
  BY DEF RunningWatchers
<1>6. EntryRuns' /\ OneRuns' /\ OneWatcher'
  BY <1>3, <1>4, <1>5 DEF WatchInv, EntryRuns, OneRuns, OneWatcher
<1> QED BY <1>2, <1>6 DEF WatchInv

LEMMA WatchKept == WatchInv /\ [WatchNext]_watchVars => WatchInv'
<1> SUFFICES ASSUME WatchInv, [WatchNext]_watchVars PROVE WatchInv'
  OBVIOUS
<1> USE WatchAssumption
<1>0. RunningWatchers \subseteq Watchers
  BY DEF RunningWatchers
<1>1. CASE MailArrives
  <2>1. PICK heard \in BOOLEAN :
          watch' = [w \in Watchers |-> IF watch[w].at = "idle" \/ (watch[w].at = "attach" /\ heard)
                                       THEN [watch[w] EXCEPT !.news = TRUE] ELSE watch[w]]
    BY <1>1 DEF MailArrives
  <2>2. UNCHANGED <<active, password>>
    BY <1>1 DEF MailArrives
  <2>3. \A w \in Watchers : watch'[w].at = watch[w].at /\ watch'[w].off = watch[w].off
    BY <2>1 DEF WatchInv, WatchTypeOK
  <2>4. WatchTypeOK'
    BY <2>1, <2>2 DEF WatchInv, WatchTypeOK
  <2>5. RunningWatchers' = RunningWatchers
    BY <2>3 DEF RunningWatchers
  <2> QED BY <1>0, <2>2, <2>3, <2>4, <2>5 DEF WatchInv, EntryRuns, OneRuns, OneWatcher
<1>2. CASE UserSwitches
  <2>1. watch' = watch /\ active' = active /\ password' \in Nat
    BY <1>2 DEF UserSwitches, WatchInv, WatchTypeOK
  <2> QED BY <2>1 DEF WatchInv, WatchTypeOK, EntryRuns, OneRuns, OneWatcher, RunningWatchers
<1>3. CASE StartMissing
  <2>1. \A w \in RunningWatchers : ~watch[w].off
    BY <1>3 DEF StartMissing
  <2>2. password' = password
    BY <1>3 DEF StartMissing
  <2>3. ASSUME active = NoWatcher, NEW w \in Watchers \ RunningWatchers, active' = w,
               watch' = [watch EXCEPT ![w] = [Unstarted EXCEPT !.at = "login", !.with = password]]
        PROVE  WatchInv'
    <3>1. RunningWatchers = {}
      BY <1>0, <2>1, <2>3 DEF WatchInv, OneWatcher
    <3>2. WatchTypeOK'
      BY <2>2, <2>3 DEF WatchInv, WatchTypeOK, Unstarted
    <3>3. watch'[w].at = "login" /\ ~watch'[w].off
      BY <2>3 DEF WatchInv, WatchTypeOK, Unstarted
    <3>4. \A v \in Watchers \ {w} : watch'[v] = watch[v]
      BY <2>3 DEF WatchInv, WatchTypeOK
    <3>5. RunningWatchers' = {w}
      BY <2>3, <3>1, <3>3, <3>4 DEF RunningWatchers
    <3> QED BY <2>3, <3>1, <3>2, <3>3, <3>4, <3>5 DEF WatchInv, EntryRuns, OneRuns, OneWatcher
  <2>4. ASSUME active # NoWatcher, active' = NoWatcher, watch' = [watch EXCEPT ![active].off = TRUE]
        PROVE  WatchInv'
    <3>1. active \in RunningWatchers /\ active \in Watchers
      BY <2>4 DEF WatchInv, WatchTypeOK, EntryRuns
    <3>2. WatchTypeOK'
      BY <2>2, <2>4, <3>1 DEF WatchInv, WatchTypeOK
    <3>3. \A v \in Watchers : watch'[v].at = watch[v].at /\ (watch'[v].off <=> v = active \/ watch[v].off)
      BY <2>4, <3>1 DEF WatchInv, WatchTypeOK
    <3>4. RunningWatchers' = RunningWatchers
      BY <3>3 DEF RunningWatchers
    <3> QED BY <1>0, <2>4, <3>1, <3>2, <3>3, <3>4 DEF WatchInv, EntryRuns, OneRuns, OneWatcher
  <2> QED BY <1>3, <2>3, <2>4 DEF StartMissing
<1>4. CASE SyncFetches \/ ScheduledSync \/ PassReaches
  <2>1. UNCHANGED <<watch, active, password>>
    BY <1>4 DEF SyncFetches, ScheduledSync, PassReaches
  <2> QED BY <2>1 DEF WatchInv, WatchTypeOK, EntryRuns, OneRuns, OneWatcher, RunningWatchers
<1>5. CASE WatchCrash
  <2>1. watch' = [w \in Watchers |-> Unstarted] /\ active' = NoWatcher /\ password' = password
    BY <1>5 DEF WatchCrash
  <2> QED BY <2>1 DEF WatchInv, WatchTypeOK, EntryRuns, OneRuns, OneWatcher, RunningWatchers, Unstarted
<1>6. ASSUME NEW w \in Watchers, WatcherStep(w) PROVE WatchInv'
  <2>0. watch[w] \in [at : {"none", "login", "attach", "idle", "sleep"},
                      off : BOOLEAN, with : Nat, news : BOOLEAN]
    BY DEF WatchInv, WatchTypeOK
  <2>1. CASE Login(w) \/ Attach(w) \/ WatchFails(w) \/ Retries(w) \/ Notices(w)
    <3> DEFINE Next == [at : {"login", "attach", "idle", "sleep"}, off : BOOLEAN, with : Nat, news : BOOLEAN]
    <3>1. watch[w].at # "none" /\ UNCHANGED <<active, password>>
      BY <2>1 DEF Login, Attach, WatchFails, Retries, Notices, WatchMoves, StaysRegistered
    <3>2. w \in RunningWatchers
      BY <3>1 DEF RunningWatchers
    <3>3. \E next \in Next : next.off = watch[w].off /\ watch' = [watch EXCEPT ![w] = next]
      <4>1. CASE Login(w)
        BY <4>1, <2>0 DEF Login, WatchMoves
      <4>2. CASE Attach(w)
        BY <4>2, <2>0 DEF Attach, WatchMoves
      <4>3. CASE WatchFails(w)
        BY <4>3, <2>0 DEF WatchFails, WatchMoves
      <4>4. CASE Retries(w)
        BY <4>4, <2>0 DEF Retries, WatchMoves
      <4>5. CASE Notices(w)
        BY <4>5, <2>0 DEF Notices, WatchMoves
      <4> QED BY <2>1, <4>1, <4>2, <4>3, <4>4, <4>5
    <3> QED BY <3>1, <3>2, <3>3, WatcherGoesOn
  <2>2. CASE WatcherEnds(w)
    <3>1. watch[w].off /\ watch' = [watch EXCEPT ![w] = Unstarted] /\ active' = NoWatcher /\ password' = password
      BY <2>2 DEF WatcherEnds, WatchMoves
    <3>2. RunningWatchers = {w}
      BY <1>0, <3>1 DEF WatchInv, EntryRuns, OneRuns
    <3>3. WatchTypeOK'
      BY <3>1 DEF WatchInv, WatchTypeOK, Unstarted
    <3>4. \A v \in Watchers : watch'[v].at = "none" /\ ~watch'[v].off
      BY <3>1, <3>2 DEF WatchInv, WatchTypeOK, EntryRuns, RunningWatchers, Unstarted
    <3>5. RunningWatchers' = {}
      BY <3>4 DEF RunningWatchers
    <3> QED BY <3>1, <3>3, <3>4, <3>5 DEF WatchInv, EntryRuns, OneRuns, OneWatcher
  <2> QED BY <1>6, <2>1, <2>2 DEF WatcherStep
<1>7. CASE UNCHANGED watchVars
  BY <1>7 DEF watchVars, WatchInv, WatchTypeOK, EntryRuns, OneRuns, OneWatcher, RunningWatchers
<1> QED BY <1>1, <1>2, <1>3, <1>4, <1>5, <1>6, <1>7 DEF WatchNext

\* inboxIdle: for any number of goroutines, lost connections and switches, at
\* most one uncancelled watcher follows the Inbox and it is the registered one.
THEOREM WatcherIsOne == WatchSpec => []OneWatcher
<1>1. WatchInv => OneWatcher
  BY DEF WatchInv
<1> QED BY WatchInitially, WatchKept, <1>1, PTL DEF WatchSpec

-----------------------------------------------------------------------------
(* The process over the data directory *)

\* Where run() is between taking the lock and giving it back.
HoldingStages == {"locked", "opening", "marked", "services", "serving", "leaving"}
Stages == HoldingStages \cup {"down", "listening", "failed", "exiting"}

DaemonTypeOK ==
    /\ stage \in [Procs -> Stages]
    /\ dbOpen \in [Procs -> BOOLEAN] /\ cancelled \in [Procs -> BOOLEAN] /\ marked \in [Procs -> BOOLEAN]
    /\ row \in [Procs -> {"none", "running", "interrupted", "done"}]
    /\ ghost \in BOOLEAN

\* A process holds the lock from taking it to its return, and has its stores
\* open only after that; a cleanup that was given up leaves them open.
LockHeld == \A p \in Procs : stage[p] \in HoldingStages => holder = p
OpenedLater == \A p \in Procs : dbOpen[p] => stage[p] \in (HoldingStages \ {"locked"}) \cup {"exiting"}
\* Whoever is about to exit starts no more sync.
ExitingIsCancelled == \A p \in Procs : stage[p] = "exiting" => cancelled[p]
\* What the startup marking achieved lasts until the process stops serving.
MarkedFirst ==
    \A p \in Procs : stage[p] \in {"marked", "services", "serving"} /\ marked[p] =>
        ~ghost /\ \A q \in Procs \ {p} : row[q] # "running"

DaemonInv == DaemonTypeOK /\ LockHeld /\ OpenedLater /\ ExitingIsCancelled /\ MarkedFirst

LEMMA OwnerIsHolder == DaemonInv => DaemonSafe
<1> SUFFICES ASSUME DaemonInv PROVE DaemonSafe
  OBVIOUS
<1>1. OneOwner
  <2> DEFINE S == {p \in Procs : dbOpen[p] /\ stage[p] # "exiting"}
  <2>1. \A p \in S : p = holder
    BY DEF DaemonInv, LockHeld, OpenedLater
  <2>2. S = {} \/ S = {holder}
    BY <2>1
  <2>3. Cardinality(S) = 0 \/ Cardinality(S) = 1
    BY <2>2, FS_EmptySet, FS_Singleton
  <2> QED BY <2>3 DEF OneOwner
<1>2. NoGhost
  BY DEF DaemonInv, MarkedFirst, NoGhost
<1> QED BY <1>1, <1>2 DEF DaemonSafe

LEMMA DaemonInitially == DaemonInit => DaemonInv
<1> SUFFICES ASSUME DaemonInit PROVE DaemonInv
  OBVIOUS
<1> USE DEF Stages, HoldingStages
<1>1. DaemonTypeOK
  BY DEF DaemonInit, DaemonTypeOK
<1>2. \A p \in Procs : stage[p] = "down" /\ ~dbOpen[p]
  BY DEF DaemonInit
<1> QED BY <1>1, <1>2 DEF DaemonInv, LockHeld, OpenedLater, ExitingIsCancelled, MarkedFirst

LEMMA DaemonKept == DaemonInv /\ [DaemonNext]_daemonVars => DaemonInv'
<1> SUFFICES ASSUME DaemonInv, [DaemonNext]_daemonVars PROVE DaemonInv'
  OBVIOUS
<1> USE DaemonAssumption DEF Stages, HoldingStages, DaemonInv, DaemonTypeOK, LockHeld, OpenedLater,
        ExitingIsCancelled, MarkedFirst
<1>1. ASSUME NEW p \in Procs,
             Listens(p) \/ StartupFails(p) \/ AcquireInstanceLock(p) \/ OpensStores(p) \/ MarksRuns(p) \/
             StartsServices(p) \/ SetsHandler(p) \/ WorkBegins(p) \/ WorkEnds(p) \/ WriterStalls(p) \/
             SignalArrives(p) \/ SignalStops(p) \/ StallStops(p) \/ ServerStops(p) \/ ShutdownMarks(p) \/
             AppCloses(p) \/ CloseHangs(p) \/ CleanupDone(p) \/ CleanupTimesOut(p) \/ FailedReturns(p) \/
             Exits(p) \/ Killed(p)
      PROVE  DaemonInv'
  <2>1. CASE Listens(p)
    BY <2>1 DEF Listens, Enters
  <2>2. CASE StartupFails(p)
    BY <2>2 DEF StartupFails, Enters
  <2>3. CASE AcquireInstanceLock(p)
    BY <2>3 DEF AcquireInstanceLock, Enters, LockFree
  <2>4. CASE OpensStores(p)
    BY <2>4 DEF OpensStores, Enters
  <2>5. CASE MarksRuns(p)
    <3>1. /\ stage[p] = "opening" /\ stage' = [stage EXCEPT ![p] = "marked"]
          /\ UNCHANGED <<holder, dbOpen, cancelled>>
      BY <2>5 DEF MarksRuns, Enters
    <3>2. \/ /\ row' = [q \in Procs |-> IF row[q] = "running" THEN "interrupted" ELSE row[q]]
             /\ ghost' = FALSE /\ marked' = [marked EXCEPT ![p] = TRUE]
          \/ marked' = [marked EXCEPT ![p] = FALSE] /\ UNCHANGED <<row, ghost>>
      BY <2>5 DEF MarksRuns, StartMarks, Interrupts
    <3>7. row' \in [Procs -> {"none", "running", "interrupted", "done"}]
      BY <3>2
    <3>8. marked' \in [Procs -> BOOLEAN] /\ ghost' \in BOOLEAN
      BY <3>2
    <3>3. DaemonTypeOK'
      BY <3>1, <3>7, <3>8
    <3>4. LockHeld' /\ OpenedLater' /\ ExitingIsCancelled'
      BY <3>1
    <3>5. \A q \in Procs \ {p} : stage'[q] \notin HoldingStages
      BY <3>1
    <3>6. MarkedFirst'
      BY <3>1, <3>2, <3>5
    <3> QED BY <3>3, <3>4, <3>6
  <2>6. CASE StartsServices(p)
    BY <2>6 DEF StartsServices, Enters
  <2>7. CASE SetsHandler(p)
    BY <2>7 DEF SetsHandler, Enters
  <2>8. CASE WorkBegins(p)
    BY <2>8 DEF WorkBegins, Enters
  <2>9. CASE WorkEnds(p)
    BY <2>9 DEF WorkEnds, Enters
  <2>10. CASE WriterStalls(p)
    BY <2>10 DEF WriterStalls, Enters
  <2>11. CASE SignalArrives(p)
    BY <2>11 DEF SignalArrives, Enters
  <2>12. CASE SignalStops(p)
    BY <2>12 DEF SignalStops, Enters, StopsServing
  <2>13. CASE StallStops(p)
    BY <2>13 DEF StallStops, Enters, StopsServing
  <2>14. CASE ServerStops(p)
    BY <2>14 DEF ServerStops, Enters, StopsServing
  <2>15. CASE ShutdownMarks(p)
    BY <2>15 DEF ShutdownMarks, Enters, Interrupts
  <2>16. CASE AppCloses(p)
    BY <2>16 DEF AppCloses, Enters
  <2>17. CASE CloseHangs(p)
    BY <2>17 DEF CloseHangs, Enters
  <2>18. CASE CleanupDone(p)
    BY <2>18 DEF CleanupDone, Enters, Returns
  <2>19. CASE CleanupTimesOut(p)
    BY <2>19 DEF CleanupTimesOut, Enters, Returns
  <2>20. CASE FailedReturns(p)
    BY <2>20 DEF FailedReturns, Enters, Returns
  <2>21. CASE Exits(p)
    BY <2>21 DEF Exits, Enters, Gone
  <2>22. CASE Killed(p)
    BY <2>22 DEF Killed, Enters, Gone
  <2> QED BY <1>1, <2>1, <2>2, <2>3, <2>4, <2>5, <2>6, <2>7, <2>8, <2>9, <2>10, <2>11, <2>12, <2>13, <2>14, <2>15, <2>16, <2>17, <2>18, <2>19, <2>20, <2>21, <2>22
<1>2. CASE UNCHANGED daemonVars
  BY <1>2 DEF daemonVars
<1> QED BY <1>1, <1>2 DEF DaemonNext

\* run: for any number of processes, starts, kills, hung closes and stalls, one
\* process at a time owns the stores, and a serving one whose marking succeeded
\* shows no sync run of a process before it as running.
THEOREM DaemonIsSafe == DaemonSpec => []DaemonSafe
BY DaemonInitially, DaemonKept, OwnerIsHolder, PTL DEF DaemonSpec

-----------------------------------------------------------------------------
(* The plugin host *)

\* Between these places a goroutine holds backendLifecycleMu.
LockedPlaces == {"starting", "registered", "stopping", "closing"}

HostTypeOK ==
    /\ schema \in [Plugins -> 0 .. Migrations]
    /\ server \in {"down", "up", "closed"}
    /\ started \subseteq Plugins /\ routes \subseteq Plugins
    /\ instances \in [Plugins -> Int]
    /\ life \in Requests \cup {Nobody}
    /\ DOMAIN req = Requests
    /\ \A r \in Requests :
         /\ req[r] = [kind |-> req[r].kind, pc |-> req[r].pc, plugin |-> req[r].plugin]
         /\ req[r].pc \notin {"idle", "closing"} => req[r].plugin \in Plugins

LifecycleLocked == \A r \in Requests : req[r].pc \in LockedPlaces => life = r
\* The plugin that a start is under way for.
Starting(p) == \E r \in Requests : req[r].pc \in {"starting", "registered"} /\ req[r].plugin = p
StartsOnce == \A p \in Plugins : Starting(p) => p \notin started
Counted ==
    \A p \in Plugins : instances[p] = IF p \in started \/ Starting(p) THEN 1 ELSE 0
\* Routes without a started plugin are about to be taken away, or their plugin to be entered.
RoutesInTransit ==
    \A p \in routes : p \in started \/ \E r \in Requests : req[r].pc \in {"registered", "stopping"} /\ req[r].plugin = p
ClosedForGood ==
    server = "closed" =>
        /\ \A r \in Requests : req[r].pc \notin {"starting", "registered"}
        /\ (\A r \in Requests : req[r].pc # "closing") => started = {} /\ routes = {}
MigratedFirst == server # "down" => \A p \in Plugins : schema[p] = Migrations
DownIsEmpty == server = "down" => started = {} /\ \A r \in Requests : req[r].pc = "idle"

HostInv ==
    /\ HostTypeOK /\ LifecycleLocked /\ StartsOnce /\ Counted /\ RoutesInTransit
    /\ ClosedForGood /\ MigratedFirst /\ DownIsEmpty

LEMMA HostPromises == HostInv => HostSafe
<1> SUFFICES ASSUME HostInv PROVE HostSafe
  OBVIOUS
<1> USE PluginHostAssumption DEF HostInv, At, Plugin
<1>1. OneInstance
  BY DEF Counted, OneInstance
<1>2. RoutesOwned
  BY DEF RoutesInTransit, LifecycleLocked, LockedPlaces, RoutesOwned
<1>3. ClosedIsQuiet
  <2> SUFFICES ASSUME server = "closed", \A r \in Requests : req[r].pc # "closing"
               PROVE  started = {} /\ routes = {} /\ \A p \in Plugins : instances[p] = 0
    BY DEF ClosedIsQuiet
  <2>1. started = {} /\ routes = {}
    BY DEF ClosedForGood
  <2>2. \A p \in Plugins : ~Starting(p)
    BY DEF ClosedForGood, Starting
  <2> QED BY <2>1, <2>2 DEF Counted
<1>4. RunsMigrated
  <2>1. CASE server = "down"
    <3>1. \A p \in Plugins : ~Starting(p) /\ p \notin started
      BY <2>1 DEF DownIsEmpty, Starting
    <3> QED BY <3>1 DEF Counted, RunsMigrated
  <2>2. CASE server # "down"
    BY <2>2 DEF MigratedFirst, RunsMigrated
  <2> QED BY <2>1, <2>2
<1> QED BY <1>1, <1>2, <1>3, <1>4 DEF HostSafe

LEMMA HostInitially == HostInit => HostInv
<1> SUFFICES ASSUME HostInit PROVE HostInv
  OBVIOUS
<1> USE PluginHostAssumption DEF HostInit
<1>1. HostTypeOK
  BY DEF HostTypeOK, Idle
<1>2. \A r \in Requests : req[r].pc = "idle"
  BY DEF Idle
<1>3. \A p \in Plugins : ~Starting(p)
  BY <1>2 DEF Starting
<1>4. LifecycleLocked
  BY <1>2 DEF LifecycleLocked, LockedPlaces
<1>5. StartsOnce /\ Counted /\ RoutesInTransit
  BY <1>3 DEF StartsOnce, Counted, RoutesInTransit
<1> QED BY <1>1, <1>2, <1>4, <1>5 DEF HostInv, ClosedForGood, MigratedFirst, DownIsEmpty

\* What the helpers of the actions do to the goroutine r and to no other.
LEMMA GoroutineMoves ==
    ASSUME HostTypeOK, NEW r \in Requests
    PROVE  /\ \A c : Goes(r, c) => /\ req' = [req EXCEPT ![r] = [kind |-> req[r].kind, pc |-> c, plugin |-> req[r].plugin]]
                                   /\ DOMAIN req' = Requests
                                   /\ req'[r] = [kind |-> req[r].kind, pc |-> c, plugin |-> req[r].plugin]
                                   /\ \A q \in Requests \ {r} : req'[q] = req[q]
           /\ Ends(r) => /\ req' = [req EXCEPT ![r] = [kind |-> "none", pc |-> "idle", plugin |-> "none"]]
                         /\ DOMAIN req' = Requests
                         /\ req'[r] = [kind |-> "none", pc |-> "idle", plugin |-> "none"]
                         /\ \A q \in Requests \ {r} : req'[q] = req[q]
<1>1. ASSUME NEW c, Goes(r, c)
      PROVE  req' = [req EXCEPT ![r] = [kind |-> req[r].kind, pc |-> c, plugin |-> req[r].plugin]]
  <2>1. [req[r] EXCEPT !.pc = c] = [kind |-> req[r].kind, pc |-> c, plugin |-> req[r].plugin]
    <3>1. req[r] = [kind |-> req[r].kind, pc |-> req[r].pc, plugin |-> req[r].plugin]
      BY DEF HostTypeOK
    <3> QED BY <3>1
  <2>2. req' = [req EXCEPT ![r] = [req[r] EXCEPT !.pc = c]]
    BY <1>1 DEF Goes
  <2> QED BY <2>1, <2>2
<1>2. DOMAIN req = Requests
  BY DEF HostTypeOK
<1> QED BY <1>1, <1>2 DEF Ends, Idle

\* A goroutine that neither holds the lock nor takes it.
LEMMA OutsideTheLock ==
    ASSUME HostInv, server # "down", NEW r \in Requests, req[r].pc \notin LockedPlaces,
           NEW kind, NEW pc, NEW plugin,
           pc \notin LockedPlaces, pc # "idle" => plugin \in Plugins,
           req' = [req EXCEPT ![r] = [kind |-> kind, pc |-> pc, plugin |-> plugin]],
           UNCHANGED <<schema, server, started, instances, routes, life>>
    PROVE  HostInv'
<1> USE DEF LockedPlaces
<1>1. DOMAIN req = Requests
  BY DEF HostInv, HostTypeOK
<1>2. DOMAIN req' = Requests /\ req'[r] = [kind |-> kind, pc |-> pc, plugin |-> plugin]
  BY <1>1
<1>3. \A q \in Requests \ {r} : req'[q] = req[q]
  BY <1>1
<1>4. HostTypeOK'
  BY <1>2, <1>3 DEF HostInv, HostTypeOK
<1>5. \A p : Starting(p)' <=> Starting(p)
  BY <1>2, <1>3 DEF Starting
<1>6. LifecycleLocked'
  BY <1>2, <1>3 DEF HostInv, LifecycleLocked
<1>7. StartsOnce' /\ Counted'
  BY <1>5 DEF HostInv, StartsOnce, Counted
<1>8. RoutesInTransit'
  BY <1>2, <1>3 DEF HostInv, RoutesInTransit
<1>9. ClosedForGood'
  BY <1>2, <1>3 DEF HostInv, ClosedForGood
<1> QED BY <1>4, <1>6, <1>7, <1>8, <1>9 DEF HostInv, MigratedFirst, DownIsEmpty

\* The steps of the goroutine that holds the lock, or takes it free: the others
\* are outside, so that Starting, the routes and the closing are its own affair.
LEMMA StartKept ==
    ASSUME HostInv, NEW r \in Requests, LockStart(r) \/ RegisterRoutes(r) \/ StartSucceeds(r) \/ StartFails(r)
    PROVE  HostInv'
<1> USE PluginHostAssumption DEF LockedPlaces, At
<1> DEFINE p == req[r].plugin
<1>0. HostTypeOK
  BY DEF HostInv
<1>1. CASE LockStart(r)
  <2>1. life = Nobody /\ req[r].pc = "lock" /\ UNCHANGED <<schema, server, started, routes>>
    BY <1>1 DEF LockStart, disk
  <2>2. p \in Plugins /\ server # "down"
    BY <2>1 DEF HostInv, HostTypeOK, DownIsEmpty
  <2>3. CASE RefusedLocked(r)
    <3>1. Ends(r) /\ UNCHANGED <<instances, life>>
      BY <1>1, <2>3 DEF LockStart
    <3>2. req' = [req EXCEPT ![r] = [kind |-> "none", pc |-> "idle", plugin |-> "none"]]
      BY <3>1, <1>0, GoroutineMoves
    <3> QED BY <2>1, <2>2, <3>1, <3>2, OutsideTheLock
  <2>4. CASE ~RefusedLocked(r) /\ AlreadyStarted(r)
    <3>1. Continues(r) /\ UNCHANGED <<instances, life>>
      BY <1>1, <2>4 DEF LockStart
    <3>2. CASE Goes(r, "match")
      <4>1. req' = [req EXCEPT ![r] = [kind |-> req[r].kind, pc |-> "match", plugin |-> p]]
        BY <3>2, <1>0, GoroutineMoves
      <4>2. PICK kind, pc, plugin :
                /\ pc \notin LockedPlaces /\ plugin \in Plugins
                /\ req' = [req EXCEPT ![r] = [kind |-> kind, pc |-> pc, plugin |-> plugin]]
        BY <2>2, <4>1
      <4>3. req[r].pc \notin LockedPlaces
        BY <2>1
      <4> QED BY <2>1, <2>2, <3>1, <4>2, <4>3, OutsideTheLock
    <3>3. CASE Ends(r)
      <4>1. req' = [req EXCEPT ![r] = [kind |-> "none", pc |-> "idle", plugin |-> "none"]]
        BY <3>3, <1>0, GoroutineMoves
      <4> QED BY <2>1, <2>2, <3>1, <4>1, OutsideTheLock
    <3> QED BY <3>1, <3>2, <3>3 DEF Continues
  <2>5. CASE ~RefusedLocked(r) /\ ~AlreadyStarted(r)
    <3>1. Goes(r, "starting") /\ life' = r /\ instances' = [instances EXCEPT ![p] = @ + 1]
      BY <1>1, <2>5 DEF LockStart, Plugin
    <3>2. server # "closed" /\ p \notin started
      BY <2>5 DEF RefusedLocked, AlreadyStarted, Plugin
    <3>3. /\ DOMAIN req' = Requests /\ req'[r] = [kind |-> req[r].kind, pc |-> "starting", plugin |-> p]
          /\ \A q \in Requests \ {r} : req'[q] = req[q]
      BY <3>1, <1>0, GoroutineMoves
    <3>4. \A q \in Requests : req[q].pc \notin LockedPlaces
      BY <2>1 DEF HostInv, LifecycleLocked
    <3>5. \A x : ~Starting(x) /\ (Starting(x)' <=> x = p)
      BY <3>3, <3>4 DEF Starting
    <3>6. HostTypeOK'
      BY <2>1, <2>2, <3>1, <3>3 DEF HostInv, HostTypeOK
    <3>7. LifecycleLocked' /\ StartsOnce'
      BY <2>1, <3>1, <3>2, <3>3, <3>4, <3>5 DEF LifecycleLocked, StartsOnce
    <3>8. Counted'
      BY <2>1, <2>2, <3>1, <3>2, <3>5 DEF HostInv, HostTypeOK, Counted
    <3>9. RoutesInTransit'
      BY <2>1, <3>3, <3>4 DEF HostInv, RoutesInTransit
    <3> QED BY <2>1, <2>2, <3>2, <3>6, <3>7, <3>8, <3>9 DEF HostInv, ClosedForGood, MigratedFirst, DownIsEmpty
  <2> QED BY <2>3, <2>4, <2>5
<1>2. CASE RegisterRoutes(r)
  <2>1. /\ req[r].pc = "starting" /\ routes' = routes \cup {p} /\ Goes(r, "registered")
        /\ UNCHANGED <<schema, server, started, instances, life>>
    BY <1>2 DEF RegisterRoutes, Plugin, disk
  <2>2. p \in Plugins /\ server = "up"
    BY <2>1 DEF HostInv, HostTypeOK, DownIsEmpty, ClosedForGood
  <2>3. /\ DOMAIN req' = Requests /\ req'[r] = [kind |-> req[r].kind, pc |-> "registered", plugin |-> p]
        /\ \A q \in Requests \ {r} : req'[q] = req[q]
    BY <2>1, <1>0, GoroutineMoves
  <2>4. \A x : Starting(x)' <=> Starting(x)
    BY <2>1, <2>3 DEF Starting
  <2>5. HostTypeOK'
    BY <2>1, <2>2, <2>3 DEF HostInv, HostTypeOK
  <2>6. LifecycleLocked' /\ StartsOnce' /\ Counted'
    BY <2>1, <2>3, <2>4 DEF HostInv, LifecycleLocked, StartsOnce, Counted
  <2>7. RoutesInTransit'
    BY <2>1, <2>3 DEF HostInv, RoutesInTransit
  <2> QED BY <2>1, <2>2, <2>5, <2>6, <2>7 DEF HostInv, ClosedForGood, MigratedFirst, DownIsEmpty
<1>3. ASSUME req[r].pc = "registered", UNCHANGED <<schema, server>>, life' = Nobody,
             NEW c \in {"match", "idle"}, DOMAIN req' = Requests,
             req'[r].pc = c, c = "match" => req'[r].plugin = p,
             req'[r] = [kind |-> req'[r].kind, pc |-> req'[r].pc, plugin |-> req'[r].plugin],
             \A q \in Requests \ {r} : req'[q] = req[q],
             \/ started' = started \cup {p} /\ UNCHANGED <<instances, routes>>
             \/ started' = started /\ routes' = routes \ {p} /\ instances' = [instances EXCEPT ![p] = @ - 1]
      PROVE  HostInv'
  <2>1. p \in Plugins /\ server = "up"
    BY <1>3 DEF HostInv, HostTypeOK, DownIsEmpty, ClosedForGood
  <2>2. life = r /\ \A q \in Requests \ {r} : req[q].pc \notin LockedPlaces
    BY <1>3 DEF HostInv, LifecycleLocked
  <2>3. \A x : ~Starting(x)' /\ (Starting(x) <=> x = p)
    BY <1>3, <2>2 DEF Starting
  <2>4. p \notin started
    BY <2>1, <2>3 DEF HostInv, StartsOnce
  <2>5. HostTypeOK'
    BY <1>3, <2>1 DEF HostInv, HostTypeOK
  <2>6. LifecycleLocked' /\ StartsOnce'
    BY <1>3, <2>2, <2>3 DEF LifecycleLocked, StartsOnce
  <2>7. Counted'
    BY <1>3, <2>1, <2>3, <2>4 DEF HostInv, HostTypeOK, Counted
  <2>8. \A x \in routes : x \in started \/ x = p
    BY <1>3, <2>2 DEF HostInv, RoutesInTransit
  <2>9. RoutesInTransit'
    BY <1>3, <2>8 DEF RoutesInTransit
  <2> QED BY <1>3, <2>1, <2>5, <2>6, <2>7, <2>9 DEF HostInv, ClosedForGood, MigratedFirst, DownIsEmpty
<1>4. CASE StartSucceeds(r)
  <2>1. /\ req[r].pc = "registered" /\ UNCHANGED <<schema, server, instances, routes>> /\ life' = Nobody
        /\ started' = started \cup {p} /\ Continues(r)
    BY <1>4 DEF StartSucceeds, Plugin, disk
  <2>2. CASE Goes(r, "match")
    <3>1. /\ DOMAIN req' = Requests /\ req'[r] = [kind |-> req[r].kind, pc |-> "match", plugin |-> p]
          /\ \A q \in Requests \ {r} : req'[q] = req[q]
      BY <2>2, <1>0, GoroutineMoves
    <3> QED BY <1>3, <2>1, <3>1
  <2>3. CASE Ends(r)
    <3>1. /\ DOMAIN req' = Requests /\ req'[r] = [kind |-> "none", pc |-> "idle", plugin |-> "none"]
          /\ \A q \in Requests \ {r} : req'[q] = req[q]
      BY <2>3, <1>0, GoroutineMoves
    <3> QED BY <1>3, <2>1, <3>1
  <2> QED BY <2>1, <2>2, <2>3 DEF Continues
<1>5. CASE StartFails(r)
  <2>1. /\ req[r].pc = "registered" /\ UNCHANGED <<schema, server, started>> /\ life' = Nobody
        /\ instances' = [instances EXCEPT ![p] = @ - 1] /\ routes' = routes \ {p} /\ Ends(r)
    BY <1>5 DEF StartFails, UnregisterPlugin, Plugin, disk
  <2>2. /\ DOMAIN req' = Requests /\ req'[r] = [kind |-> "none", pc |-> "idle", plugin |-> "none"]
        /\ \A q \in Requests \ {r} : req'[q] = req[q]
    BY <2>1, <1>0, GoroutineMoves
  <2> QED BY <1>3, <2>1, <2>2
<1> QED BY <1>1, <1>2, <1>4, <1>5

LEMMA StopKept ==
    ASSUME HostInv, NEW r \in Requests, LockStop(r) \/ StopUnregisters(r)
    PROVE  HostInv'
<1> USE PluginHostAssumption DEF LockedPlaces, At
<1> DEFINE p == req[r].plugin
<1>0. HostTypeOK
  BY DEF HostInv
<1>1. CASE LockStop(r)
  <2>1. /\ req[r].pc = "stop" /\ life = Nobody /\ life' = r /\ Goes(r, "stopping")
        /\ started' = started \ {p} /\ UNCHANGED <<schema, server, routes>>
        /\ instances' = [instances EXCEPT ![p] = IF p \in started THEN @ - 1 ELSE @]
    BY <1>1 DEF LockStop, Plugin, disk
  <2>2. p \in Plugins /\ server # "down"
    BY <2>1 DEF HostInv, HostTypeOK, DownIsEmpty
  <2>3. /\ DOMAIN req' = Requests /\ req'[r] = [kind |-> req[r].kind, pc |-> "stopping", plugin |-> p]
        /\ \A q \in Requests \ {r} : req'[q] = req[q]
    BY <2>1, <1>0, GoroutineMoves
  <2>4. \A q \in Requests : req[q].pc \notin LockedPlaces
    BY <2>1 DEF HostInv, LifecycleLocked
  <2>5. \A x : ~Starting(x) /\ ~Starting(x)'
    BY <2>3, <2>4 DEF Starting
  <2>6. HostTypeOK'
    BY <2>1, <2>2, <2>3 DEF HostInv, HostTypeOK
  <2>7. LifecycleLocked' /\ StartsOnce'
    BY <2>1, <2>3, <2>4, <2>5 DEF LifecycleLocked, StartsOnce
  <2>8. Counted'
    BY <2>1, <2>2, <2>5 DEF HostInv, HostTypeOK, Counted
  <2>9. RoutesInTransit'
    BY <2>1, <2>3, <2>4 DEF HostInv, RoutesInTransit
  <2>10. ClosedForGood'
    BY <2>1, <2>3, <2>4 DEF HostInv, ClosedForGood
  <2> QED BY <2>1, <2>2, <2>6, <2>7, <2>8, <2>9, <2>10 DEF HostInv, MigratedFirst, DownIsEmpty
<1>2. CASE StopUnregisters(r)
  <2>1. /\ req[r].pc = "stopping" /\ routes' = routes \ {p} /\ life' = Nobody /\ Ends(r)
        /\ UNCHANGED <<schema, server, started, instances>>
    BY <1>2 DEF StopUnregisters, UnregisterPlugin, Plugin, disk
  <2>2. server # "down" /\ life = r /\ \A q \in Requests \ {r} : req[q].pc \notin LockedPlaces
    BY <2>1 DEF HostInv, LifecycleLocked, DownIsEmpty
  <2>3. /\ DOMAIN req' = Requests /\ req'[r] = [kind |-> "none", pc |-> "idle", plugin |-> "none"]
        /\ \A q \in Requests \ {r} : req'[q] = req[q]
    BY <2>1, <1>0, GoroutineMoves
  <2>4. \A x : ~Starting(x) /\ ~Starting(x)'
    BY <2>1, <2>2, <2>3 DEF Starting
  <2>5. HostTypeOK'
    BY <2>1, <2>3 DEF HostInv, HostTypeOK
  <2>6. LifecycleLocked' /\ StartsOnce' /\ Counted'
    BY <2>1, <2>2, <2>3, <2>4 DEF HostInv, LifecycleLocked, StartsOnce, Counted
  <2>7. \A x \in routes : x \in started \/ x = p
    BY <2>1, <2>2 DEF HostInv, RoutesInTransit
  <2>8. RoutesInTransit'
    BY <2>1, <2>7 DEF RoutesInTransit
  <2>9. ClosedForGood'
    BY <2>1, <2>2, <2>3 DEF HostInv, ClosedForGood
  <2> QED BY <2>1, <2>2, <2>5, <2>6, <2>8, <2>9 DEF HostInv, MigratedFirst, DownIsEmpty
<1> QED BY <1>1, <1>2

LEMMA CloseKept ==
    ASSUME HostInv, NEW r \in Requests,
           Close(r) \/ (\E p \in Plugins : CloseStops(r, p)) \/ Closed(r)
    PROVE  HostInv'
<1> USE PluginHostAssumption DEF LockedPlaces, At
<1>0. HostTypeOK
  BY DEF HostInv
<1>1. CASE Close(r)
  <2>1. /\ server = "up" /\ req[r].pc = "idle" /\ life = Nobody /\ server' = "closed" /\ life' = r
        /\ req' = [req EXCEPT ![r] = [kind |-> "close", pc |-> "closing", plugin |-> "none"]]
        /\ UNCHANGED <<schema, started, instances, routes>>
    BY <1>1 DEF Close, disk
  <2>2. /\ DOMAIN req' = Requests /\ req'[r] = [kind |-> "close", pc |-> "closing", plugin |-> "none"]
        /\ \A q \in Requests \ {r} : req'[q] = req[q]
    BY <2>1, <1>0 DEF HostTypeOK
  <2>3. \A q \in Requests : req[q].pc \notin LockedPlaces
    BY <2>1 DEF HostInv, LifecycleLocked
  <2>4. \A x : ~Starting(x) /\ ~Starting(x)'
    BY <2>2, <2>3 DEF Starting
  <2>5. HostTypeOK'
    BY <2>1, <2>2 DEF HostInv, HostTypeOK
  <2>6. LifecycleLocked' /\ StartsOnce' /\ Counted'
    BY <2>1, <2>2, <2>3, <2>4 DEF HostInv, LifecycleLocked, StartsOnce, Counted
  <2>7. RoutesInTransit' /\ ClosedForGood'
    BY <2>1, <2>2, <2>3 DEF HostInv, RoutesInTransit, ClosedForGood
  <2> QED BY <2>1, <2>5, <2>6, <2>7 DEF HostInv, MigratedFirst, DownIsEmpty
<1>2. ASSUME NEW p \in Plugins, CloseStops(r, p) PROVE HostInv'
  <2>1. /\ req[r].pc = "closing" /\ p \in started /\ started' = started \ {p} /\ routes' = routes \ {p}
        /\ instances' = [instances EXCEPT ![p] = @ - 1] /\ UNCHANGED <<schema, server, life, req>>
    BY <1>2 DEF CloseStops, UnregisterPlugin, disk
  <2>2. server # "down" /\ life = r /\ \A q \in Requests \ {r} : req[q].pc \notin LockedPlaces
    BY <2>1 DEF HostInv, LifecycleLocked, DownIsEmpty
  <2>3. \A x : ~Starting(x) /\ ~Starting(x)'
    BY <2>1, <2>2 DEF Starting
  <2>4. HostTypeOK'
    BY <2>1 DEF HostInv, HostTypeOK
  <2>5. LifecycleLocked' /\ StartsOnce'
    BY <2>1, <2>3 DEF HostInv, LifecycleLocked, StartsOnce
  <2>6. Counted'
    BY <2>1, <2>3 DEF HostInv, HostTypeOK, Counted
  <2>7. RoutesInTransit' /\ ClosedForGood'
    BY <2>1 DEF HostInv, RoutesInTransit, ClosedForGood
  <2> QED BY <2>1, <2>2, <2>4, <2>5, <2>6, <2>7 DEF HostInv, MigratedFirst, DownIsEmpty
<1>3. CASE Closed(r)
  <2>1. /\ req[r].pc = "closing" /\ started = {} /\ life' = Nobody /\ Ends(r)
        /\ UNCHANGED <<schema, server, started, instances, routes>>
    BY <1>3 DEF Closed, disk
  <2>2. server # "down" /\ life = r /\ \A q \in Requests \ {r} : req[q].pc \notin LockedPlaces
    BY <2>1 DEF HostInv, LifecycleLocked, DownIsEmpty
  <2>3. /\ DOMAIN req' = Requests /\ req'[r] = [kind |-> "none", pc |-> "idle", plugin |-> "none"]
        /\ \A q \in Requests \ {r} : req'[q] = req[q]
    BY <2>1, <1>0, GoroutineMoves
  <2>4. routes = {}
    BY <2>1, <2>2 DEF HostInv, RoutesInTransit
  <2>5. \A x : ~Starting(x) /\ ~Starting(x)'
    BY <2>1, <2>2, <2>3 DEF Starting
  <2>6. HostTypeOK'
    BY <2>1, <2>3 DEF HostInv, HostTypeOK
  <2>7. LifecycleLocked' /\ StartsOnce' /\ Counted'
    BY <2>1, <2>2, <2>3, <2>5 DEF HostInv, LifecycleLocked, StartsOnce, Counted
  <2>8. RoutesInTransit' /\ ClosedForGood'
    BY <2>1, <2>2, <2>3, <2>4 DEF HostInv, RoutesInTransit, ClosedForGood
  <2> QED BY <2>1, <2>2, <2>6, <2>7, <2>8 DEF HostInv, MigratedFirst, DownIsEmpty
<1> QED BY <1>1, <1>2, <1>3

LEMMA HostKept == HostInv /\ [HostNext]_hostVars => HostInv'
<1> SUFFICES ASSUME HostInv, [HostNext]_hostVars PROVE HostInv'
  OBVIOUS
<1> USE PluginHostAssumption
<1>0. HostTypeOK
  BY DEF HostInv
<1>1. ASSUME NEW p \in Plugins, ApplyPluginMigration(p) PROVE HostInv'
  <2>1. /\ server = "down" /\ schema[p] < Migrations /\ schema' = [schema EXCEPT ![p] = @ + 1]
        /\ UNCHANGED <<server, started, instances, routes, life, req>>
    BY <1>1 DEF ApplyPluginMigration, Migrates, runtime
  <2>2. HostTypeOK'
    <3>1. schema' \in [Plugins -> 0 .. Migrations]
      BY <1>0, <2>1 DEF HostTypeOK
    <3> QED BY <1>0, <2>1, <3>1 DEF HostTypeOK
  <2>3. \A x : Starting(x)' <=> Starting(x)
    BY <2>1 DEF Starting
  <2> QED BY <2>1, <2>2, <2>3 DEF HostInv, LifecycleLocked, StartsOnce, Counted, RoutesInTransit, ClosedForGood,
                                 MigratedFirst, DownIsEmpty
<1>2. ASSUME NEW broken \in SUBSET Plugins, NewServer(broken) PROVE HostInv'
  <2>1. /\ server = "down" /\ server' = "up" /\ \A p \in Plugins : ~(schema[p] < Migrations)
        /\ UNCHANGED <<schema, started, instances, routes, life, req>>
    BY <1>2 DEF NewServer, Migrates, runtime
  <2>2. HostTypeOK'
    BY <1>0, <2>1 DEF HostTypeOK
  <2>3. \A x : Starting(x)' <=> Starting(x)
    BY <2>1 DEF Starting
  <2>4. MigratedFirst'
    BY <1>0, <2>1 DEF HostTypeOK, MigratedFirst
  <2> QED BY <2>1, <2>2, <2>3, <2>4 DEF HostInv, LifecycleLocked, StartsOnce, Counted, RoutesInTransit,
                                       ClosedForGood, DownIsEmpty
<1>3. CASE HostCrash
  <2>1. /\ server' = "down" /\ started' = {} /\ routes' = {} /\ life' = Nobody /\ schema' = schema
        /\ instances' = [p \in Plugins |-> 0] /\ req' = [r \in Requests |-> Idle]
    BY <1>3 DEF HostCrash, disk
  <2>2. HostTypeOK'
    BY <1>0, <2>1 DEF HostTypeOK, Idle
  <2>3. \A r \in Requests : req'[r].pc = "idle"
    BY <2>1 DEF Idle
  <2>4. \A x : ~Starting(x)'
    BY <2>3 DEF Starting
  <2> QED BY <2>1, <2>2, <2>3, <2>4 DEF HostInv, LifecycleLocked, LockedPlaces, StartsOnce, Counted, RoutesInTransit,
                                       ClosedForGood, MigratedFirst, DownIsEmpty
<1>4. ASSUME NEW r \in Requests, UNCHANGED <<schema, server, started, instances, routes, life>>,
             req[r].pc \notin LockedPlaces \cup {"idle", "closing"},
             NEW c, c \notin LockedPlaces, c # "idle", Goes(r, c)
      PROVE  HostInv'
  <2>1. server # "down" /\ req[r].plugin \in Plugins
    BY <1>0, <1>4 DEF HostInv, HostTypeOK, DownIsEmpty
  <2>2. req' = [req EXCEPT ![r] = [kind |-> req[r].kind, pc |-> c, plugin |-> req[r].plugin]]
    BY <1>0, <1>4, GoroutineMoves
  <2>3. PICK kind, plugin : plugin \in Plugins /\ req' = [req EXCEPT ![r] = [kind |-> kind, pc |-> c, plugin |-> plugin]]
    BY <2>1, <2>2
  <2> QED BY <1>4, <2>1, <2>3, OutsideTheLock
<1>5. ASSUME NEW r \in Requests, UNCHANGED <<schema, server, started, instances, routes, life>>,
             req[r].pc \notin LockedPlaces \cup {"idle", "closing"}, Ends(r)
      PROVE  HostInv'
  <2>1. server # "down" /\ "idle" \notin LockedPlaces
    BY <1>0, <1>5 DEF HostInv, DownIsEmpty, LockedPlaces
  <2>2. PICK kind, pc, plugin : pc = "idle" /\ req' = [req EXCEPT ![r] = [kind |-> kind, pc |-> pc, plugin |-> plugin]]
    BY <1>0, <1>5, GoroutineMoves
  <2> QED BY <1>5, <2>1, <2>2, OutsideTheLock
<1>6. ASSUME NEW r \in Requests, HostStep(r) PROVE HostInv'
  <2>1. CASE SetPluginEnabled(r) \/ CheckEnabled(r) \/ BeginStart(r) \/ MatchRoute(r) \/ Dispatch(r) \/ Handles(r)
    <3>1. UNCHANGED <<schema, server, started, instances, routes, life>>
      BY <2>1 DEF SetPluginEnabled, CheckEnabled, BeginStart, MatchRoute, Dispatch, Handles, disk, runtime
    <3>2. req[r].pc \in {"set", "check", "begin", "match", "dispatch", "handle"}
      BY <2>1 DEF SetPluginEnabled, CheckEnabled, BeginStart, MatchRoute, Dispatch, Handles, At
    <3>3. Ends(r) \/ \E c \in {"begin", "stop", "lock", "dispatch", "handle"} : Goes(r, c)
      BY <2>1 DEF SetPluginEnabled, CheckEnabled, BeginStart, MatchRoute, Dispatch, Handles
    <3>4. CASE Ends(r)
      BY <1>5, <3>1, <3>2, <3>4 DEF LockedPlaces
    <3>5. ASSUME NEW c \in {"begin", "stop", "lock", "dispatch", "handle"}, Goes(r, c) PROVE HostInv'
      BY <1>4, <3>1, <3>2, <3>5 DEF LockedPlaces
    <3> QED BY <3>3, <3>4, <3>5
  <2>2. CASE LockStart(r) \/ RegisterRoutes(r) \/ StartSucceeds(r)
    BY <2>2, StartKept
  <2>3. CASE LockStop(r) \/ StopUnregisters(r)
    BY <2>3, StopKept
  <2>4. CASE (\E p \in Plugins : CloseStops(r, p)) \/ Closed(r)
    BY <2>4, CloseKept
  <2> QED BY <1>6, <2>1, <2>2, <2>3, <2>4 DEF HostStep
<1>7. ASSUME NEW r \in Requests, StartFails(r) \/ Close(r) PROVE HostInv'
  BY <1>7, StartKept, CloseKept
<1>8. ASSUME NEW r \in Requests, NEW p \in Plugins, NEW kind, Arrives(r, kind, p) PROVE HostInv'
  <2>1. /\ server = "up" /\ req[r].pc = "idle" /\ UNCHANGED <<schema, server, started, instances, routes, life>>
    BY <1>8 DEF Arrives, At, disk, runtime
  <2>2. PICK pc \in {"set", "check"} : req' = [req EXCEPT ![r] = [kind |-> kind, pc |-> pc, plugin |-> p]]
    BY <1>8 DEF Arrives
  <2>3. pc \notin LockedPlaces /\ req[r].pc \notin LockedPlaces
    BY <2>1 DEF LockedPlaces
  <2> QED BY <2>1, <2>2, <2>3, OutsideTheLock
<1>9. ASSUME NEW r \in Requests, NEW p \in Plugins,
             \/ RequestArrives(r, p) \/ AutoStarts(r, p) \/ HookAsks(r, p)
             \/ \E kind \in {"enable", "disable"} : AdminAsks(r, kind, p)
      PROVE  HostInv'
  <2>1. \E kind : Arrives(r, kind, p)
    BY <1>9 DEF RequestArrives, AutoStarts, HookAsks, AdminAsks
  <2> QED BY <1>8, <2>1
<1>10. CASE UNCHANGED hostVars
  <2>1. UNCHANGED <<schema, server, started, instances, routes, life, req>>
    BY <1>10 DEF hostVars
  <2>2. HostTypeOK'
    BY <1>0, <2>1 DEF HostTypeOK
  <2>3. \A x : Starting(x)' <=> Starting(x)
    BY <2>1 DEF Starting
  <2> QED BY <2>1, <2>2, <2>3 DEF HostInv, LifecycleLocked, StartsOnce, Counted, RoutesInTransit, ClosedForGood,
                                 MigratedFirst, DownIsEmpty
<1> QED BY <1>1, <1>2, <1>3, <1>6, <1>7, <1>9, <1>10 DEF HostNext

\* startBackendPlugin, stopBackendPlugin and Close, for any number of plugins,
\* requests, failing starts and crashes: a plugin runs at most once and with all
\* its migrations, its routes go with it, and after Close nothing runs or starts.
THEOREM HostIsSafe == HostSpec => []HostSafe
BY HostInitially, HostKept, HostPromises, PTL DEF HostSpec

-----------------------------------------------------------------------------
(* The cache of mail lists *)

\* What was announced is committed.
Announced ==
    /\ committed \in Nat /\ told \in Nat /\ gen \in Nat /\ told <= committed
    /\ writer \in [Writers -> [version : 0..committed, todo : Seq({"note", "warm", "events"})]]

\* Content of the current generation covers what was announced; no content is of a
\* later one.
CurrentCovers(content, generation) ==
    /\ content \in Nat \X Nat /\ generation \in Nat /\ generation <= gen
    /\ generation = gen => Covers(content, told)

PagesCurrent == \A k \in DOMAIN pages : CurrentCovers(pages[k].etag, pages[k].gen)
EntriesCurrent == \A k \in DOMAIN entries : CurrentCovers(entries[k].etag, entries[k].gen)

\* The warmer between its queries.
WarmCurrent ==
    /\ warm.pc \in {"list", "views"} => warm.gen \in Nat /\ warm.gen <= gen
    /\ warm.pc = "views" => warm.list \in Nat /\ (warm.gen = gen => told <= warm.list)

\* A request between its queries: what it saw is not older than when it came in, and
\* not older than what was announced if the generation it read is still current.
AskCurrent(a) ==
    /\ a.pc \in {"idle", "cache", "generation", "list", "views", "answered"}
    /\ a.pc # "idle" => a.due \in Nat /\ a.due <= told
    /\ a.pc = "cache" => a = [pc |-> "cache", key |-> a.key, etag |-> a.etag, due |-> a.due]
    /\ a.pc \in {"list", "views"} => a.gen \in Nat /\ a.gen <= gen
    /\ a.pc = "views" => a.list \in Nat /\ a.due <= a.list /\ (a.gen = gen => told <= a.list)
    /\ a.pc = "answered" => Covers(a.content, a.due)
AsksCurrent == DOMAIN ask = Readers /\ \A r \in Readers : AskCurrent(ask[r])

CacheInv == Announced /\ PagesCurrent /\ EntriesCurrent /\ WarmCurrent /\ AsksCurrent

LEMMA CacheInitially == ListInit => CacheInv
<1> SUFFICES ASSUME ListInit PROVE CacheInv
  OBVIOUS
<1>1. Announced
  BY DEF ListInit, Announced
<1>2. DOMAIN pages = {} /\ DOMAIN entries = {}
  BY DEF ListInit, Empty
<1>3. AsksCurrent
  BY DEF ListInit, AsksCurrent, AskCurrent, NoAsk
<1>4. WarmCurrent
  BY DEF ListInit, WarmCurrent, Cold
<1> QED BY <1>1, <1>2, <1>3, <1>4 DEF CacheInv, PagesCurrent, EntriesCurrent

\* Steps of one request.
AskMoves(r, next) == ask' = [ask EXCEPT ![r] = next]

LEMMA OneAsk ==
    ASSUME CacheInv, NEW r \in Readers, NEW next, AskMoves(r, next), AskCurrent(next), UNCHANGED <<told, gen>>
    PROVE  AsksCurrent'
<1>1. DOMAIN ask' = Readers /\ ask'[r] = next /\ \A q \in Readers \ {r} : ask'[q] = ask[q]
  BY DEF CacheInv, AsksCurrent, AskMoves
<1>2. AskCurrent(ask[r])'
  BY <1>1 DEF AskCurrent
<1>3. ASSUME NEW q \in Readers, q # r PROVE AskCurrent(ask[q])'
  <2>1. AskCurrent(ask[q]) /\ ask'[q] = ask[q]
    BY <1>1, <1>3 DEF CacheInv, AsksCurrent
  <2> QED BY <2>1 DEF AskCurrent
<1> QED BY <1>1, <1>2, <1>3 DEF AsksCurrent

\* Whatever room is made, what is remembered is the new entry or one that was there.
LEMMA Remembered ==
    ASSUME CacheInv, NEW key, NEW content, NEW generation, Remember(key, content, generation),
           CurrentCovers(content, generation), UNCHANGED <<told, gen>>
    PROVE  EntriesCurrent'
<1>1. PICK room \in IF Evicts(entries) THEN {Without(entries, k) : k \in DOMAIN entries} ELSE {entries} :
         entries' = With(room, key, content, generation)
  BY DEF Remember
<1>2. \A k \in DOMAIN room : k \in DOMAIN entries /\ room[k] = entries[k]
  BY DEF Without
<1>3. ASSUME NEW k \in DOMAIN entries' PROVE CurrentCovers(entries'[k].etag, entries'[k].gen)
  <2> DEFINE new == [etag |-> content, gen |-> generation]
  <2>1. CASE k = key
    <3>1. entries'[k] = new
      BY <1>1, <1>3, <2>1 DEF With
    <3> QED BY <3>1
  <2>2. CASE k # key
    <3>1. k \in DOMAIN room /\ entries'[k] = room[k]
      BY <1>1, <1>3, <2>2 DEF With
    <3> QED BY <1>2, <3>1 DEF CacheInv, EntriesCurrent
  <2> QED BY <2>1, <2>2
<1> QED BY <1>3 DEF EntriesCurrent, CurrentCovers

LEMMA PageRemembered ==
    ASSUME CacheInv, NEW key, NEW content, NEW generation, RememberPage(key, content, generation),
           content \in Nat \X Nat, generation = gen => Covers(content, told), UNCHANGED <<told, gen>>
    PROVE  PagesCurrent' /\ EntriesCurrent'
<1>1. CASE generation = gen
  <2>1. pages' = With(pages, key, content, gen) /\ entries' = With(entries, key, content, gen)
    BY <1>1 DEF RememberPage, RemembersPage
  <2>2. CurrentCovers(content, gen)
    BY <1>1 DEF CurrentCovers, CacheInv, Announced
  <2>3. ASSUME NEW k \in DOMAIN pages' PROVE CurrentCovers(pages'[k].etag, pages'[k].gen)
    <3>1. \/ pages'[k].etag = content /\ pages'[k].gen = gen
          \/ k \in DOMAIN pages /\ pages'[k] = pages[k]
      BY <2>1, <2>3 DEF With
    <3> QED BY <2>2, <3>1 DEF CacheInv, PagesCurrent
  <2>4. ASSUME NEW k \in DOMAIN entries' PROVE CurrentCovers(entries'[k].etag, entries'[k].gen)
    <3>1. \/ entries'[k].etag = content /\ entries'[k].gen = gen
          \/ k \in DOMAIN entries /\ entries'[k] = entries[k]
      BY <2>1, <2>4 DEF With
    <3> QED BY <2>2, <3>1 DEF CacheInv, EntriesCurrent
  <2> QED BY <2>3, <2>4 DEF PagesCurrent, EntriesCurrent, CurrentCovers
<1>2. CASE generation # gen
  BY <1>2 DEF RememberPage, RemembersPage, CacheInv, PagesCurrent, EntriesCurrent, CurrentCovers
<1> QED BY <1>1, <1>2

LEMMA CacheUndisturbed ==
    ASSUME CacheInv, UNCHANGED <<committed, told, gen, pages, entries>>
    PROVE  PagesCurrent' /\ EntriesCurrent'
BY DEF CacheInv, PagesCurrent, EntriesCurrent, CurrentCovers

LEMMA SameAsks ==
    ASSUME CacheInv, UNCHANGED <<ask, told, gen>>
    PROVE  AsksCurrent'
BY DEF CacheInv, AsksCurrent, AskCurrent

LEMMA SameWarm ==
    ASSUME CacheInv, UNCHANGED <<warm, told, gen>>
    PROVE  WarmCurrent'
BY DEF CacheInv, WarmCurrent

LEMMA SameAnnounced ==
    ASSUME CacheInv, UNCHANGED <<committed, told, gen, writer>>
    PROVE  Announced'
BY DEF CacheInv, Announced

\* A change of the writers' lists of what to do.
LEMMA WriterTyped ==
    ASSUME CacheInv, NEW w \in Writers, NEW todo \in Seq({"note", "warm", "events"}),
           writer' = [writer EXCEPT ![w].todo = todo]
    PROVE  writer' \in [Writers -> [version : 0..committed, todo : Seq({"note", "warm", "events"})]]
BY DEF CacheInv, Announced

LEMMA DoesTyped ==
    ASSUME CacheInv, NEW w \in Writers, NEW step, Does(w, step)
    PROVE  /\ writer' \in [Writers -> [version : 0..committed, todo : Seq({"note", "warm", "events"})]]
           /\ writer[w].version \in 0..committed
<1>1. /\ writer[w].todo \in Seq({"note", "warm", "events"}) /\ writer[w].todo # <<>>
      /\ writer[w].version \in 0..committed
  BY DEF CacheInv, Announced, Does, Idles
<1>2. Tail(writer[w].todo) \in Seq({"note", "warm", "events"})
  BY <1>1
<1>3. writer' = [writer EXCEPT ![w].todo = Tail(writer[w].todo)]
  BY DEF Does
<1> QED BY <1>1, <1>2, <1>3, WriterTyped

LEMMA CacheKept == CacheInv /\ [ListNext]_listVars => CacheInv'
<1> SUFFICES ASSUME CacheInv, [ListNext]_listVars PROVE CacheInv'
  OBVIOUS
<1>0. /\ committed \in Nat /\ told \in Nat /\ gen \in Nat /\ told <= committed
      /\ writer \in [Writers -> [version : 0..committed, todo : Seq({"note", "warm", "events"})]]
  BY DEF CacheInv, Announced
<1>1. ASSUME NEW w \in Writers, Commit(w) PROVE CacheInv'
  <2>1. /\ committed' = committed + 1 /\ UNCHANGED <<told, gen, pages, entries, ask, warm>>
        /\ writer' = [writer EXCEPT ![w] = [version |-> committed + 1, todo |-> <<"note", "warm", "events">>]]
    BY <1>1 DEF Commit, NotifyUserChanged
  <2>2. <<"note", "warm", "events">> \in Seq({"note", "warm", "events"})
    OBVIOUS
  <2>3. [version |-> committed + 1, todo |-> <<"note", "warm", "events">>]
          \in [version : 0..committed', todo : Seq({"note", "warm", "events"})]
    BY <1>0, <2>1, <2>2
  <2>4. writer \in [Writers -> [version : 0..committed', todo : Seq({"note", "warm", "events"})]]
    <3>1. 0..committed \subseteq 0..committed'
      BY <1>0, <2>1
    <3> QED BY <1>0, <3>1
  <2>5. Announced'
    BY <1>0, <2>1, <2>3, <2>4 DEF Announced
  <2>6. PagesCurrent' /\ EntriesCurrent'
    BY <2>1 DEF CacheInv, PagesCurrent, EntriesCurrent, CurrentCovers
  <2> QED BY <2>1, <2>5, <2>6, SameAsks, SameWarm DEF CacheInv
<1>2. ASSUME NEW w \in Writers, SyncProgress(w) PROVE CacheInv'
  <2>1. writer' \in [Writers -> [version : 0..committed, todo : Seq({"note", "warm", "events"})]]
    <3>1. <<"events">> \in Seq({"note", "warm", "events"})
      OBVIOUS
    <3> QED BY <1>2, <3>1, WriterTyped DEF SyncProgress
  <2>2. UNCHANGED <<committed, told, gen, pages, entries, ask, warm>>
    BY <1>2 DEF SyncProgress
  <2> QED BY <1>0, <2>1, <2>2, CacheUndisturbed, SameAsks, SameWarm DEF CacheInv, Announced
<1>3. ASSUME NEW w \in Writers, NoteMailListChanged(w) PROVE CacheInv'
  <2>1. /\ gen' = gen + 1 /\ pages' = Empty /\ told' = IF writer[w].version > told THEN writer[w].version ELSE told
        /\ UNCHANGED <<committed, entries, ask, warm>>
    BY <1>3 DEF NoteMailListChanged, NoteChanged
  <2>2. /\ writer' \in [Writers -> [version : 0..committed, todo : Seq({"note", "warm", "events"})]]
        /\ writer[w].version \in 0..committed
    BY <1>3, DoesTyped DEF NoteMailListChanged
  <2>3. told' \in Nat /\ told <= told' /\ told' <= committed /\ gen' \in Nat /\ gen < gen'
    BY <1>0, <2>1, <2>2
  <2>4. Announced'
    BY <1>0, <2>1, <2>2, <2>3 DEF Announced
  <2>5. \A g \in Nat : g <= gen => g <= gen' /\ g # gen'
    BY <1>0, <2>3
  <2>6. PagesCurrent'
    <3>1. DOMAIN pages' = {}
      BY <2>1 DEF Empty
    <3> QED BY <3>1 DEF PagesCurrent
  <2>7. EntriesCurrent'
    <3>1. ASSUME NEW k \in DOMAIN entries PROVE CurrentCovers(entries[k].etag, entries[k].gen)'
      <4>1. entries[k].etag \in Nat \X Nat /\ entries[k].gen \in Nat /\ entries[k].gen <= gen
        BY <3>1 DEF CacheInv, EntriesCurrent, CurrentCovers
      <4>2. entries[k].gen <= gen' /\ entries[k].gen # gen'
        BY <2>5, <4>1
      <4>3. entries' = entries
        BY <2>1
      <4> QED BY <4>1, <4>2, <4>3 DEF CurrentCovers
    <3> QED BY <2>1, <3>1 DEF EntriesCurrent
  <2>8. WarmCurrent'
    BY <2>1, <2>5 DEF CacheInv, WarmCurrent
  <2>9. ASSUME NEW r \in Readers PROVE AskCurrent(ask[r])'
    <3>1. AskCurrent(ask[r]) /\ ask' = ask
      BY <2>1 DEF CacheInv, AsksCurrent
    <3>2. ask[r].pc # "idle" => ask[r].due \in Nat /\ ask[r].due <= told'
      BY <1>0, <2>3, <3>1 DEF AskCurrent
    <3> QED BY <2>5, <3>1, <3>2 DEF AskCurrent
  <2>10. AsksCurrent'
    BY <2>1, <2>9 DEF CacheInv, AsksCurrent
  <2> QED BY <2>4, <2>6, <2>7, <2>8, <2>10 DEF CacheInv
<1>4. ASSUME NEW w \in Writers, WarmAsync(w) PROVE CacheInv'
  <2>1. UNCHANGED <<committed, told, gen, pages, entries, ask>> /\ (warm' = warm \/ warm' = [pc |-> "loop"])
    BY <1>4 DEF WarmAsync
  <2>2. writer' \in [Writers -> [version : 0..committed, todo : Seq({"note", "warm", "events"})]]
    BY <1>4, DoesTyped DEF WarmAsync
  <2>3. WarmCurrent'
    BY <2>1, SameWarm DEF WarmCurrent
  <2> QED BY <1>0, <2>1, <2>2, <2>3, CacheUndisturbed, SameAsks DEF CacheInv, Announced
<1>5. ASSUME NEW w \in Writers, Notify(w) PROVE CacheInv'
  <2>1. UNCHANGED <<committed, told, gen, pages, entries, ask, warm>>
    BY <1>5 DEF Notify
  <2>2. writer' \in [Writers -> [version : 0..committed, todo : Seq({"note", "warm", "events"})]]
    BY <1>5, DoesTyped DEF Notify
  <2> QED BY <1>0, <2>1, <2>2, CacheUndisturbed, SameAsks, SameWarm DEF CacheInv, Announced
<1>6. CASE WarmBegins \/ WarmLists \/ WarmChecks \/ WarmDone \/ WarmFails
  <2>1. UNCHANGED <<committed, writer, told, gen, pages, entries, ask>>
    BY <1>6 DEF WarmBegins, WarmLists, WarmChecks, WarmDone, WarmFails
  <2>2. \/ warm'.pc \notin {"list", "views"}
        \/ warm' = [pc |-> "list", gen |-> gen]
        \/ warm.pc = "list" /\ warm' = [pc |-> "views", gen |-> warm.gen, list |-> committed]
    BY <1>6 DEF WarmBegins, WarmLists, WarmChecks, WarmDone, WarmFails, Cold
  <2>3. WarmCurrent'
    BY <1>0, <2>1, <2>2 DEF CacheInv, WarmCurrent
  <2> QED BY <2>1, <2>3, CacheUndisturbed, SameAsks, SameAnnounced DEF CacheInv
<1>7. CASE WarmRemembers
  <2>1. /\ warm.pc = "views" /\ RememberPage(AllMail, <<warm.list, committed>>, warm.gen)
        /\ warm' = [pc |-> "check", gen |-> warm.gen] /\ UNCHANGED <<committed, writer, told, gen, ask>>
    BY <1>7 DEF WarmRemembers
  <2>2. warm.gen = gen => Covers(<<warm.list, committed>>, told)
    BY <1>0, <2>1 DEF CacheInv, WarmCurrent, Covers
  <2>3. PagesCurrent' /\ EntriesCurrent'
    <3>1. <<warm.list, committed>> \in Nat \X Nat
      BY <1>0, <2>1 DEF CacheInv, WarmCurrent
    <3> QED BY <2>1, <2>2, <3>1, PageRemembered
  <2>4. WarmCurrent'
    BY <2>1 DEF WarmCurrent
  <2> QED BY <2>1, <2>3, <2>4, SameAsks, SameAnnounced DEF CacheInv
<1>8. ASSUME NEW r \in Readers, NEW next, AskMoves(r, next), AskCurrent(next),
             UNCHANGED <<committed, writer, told, gen, pages, entries, warm>>
      PROVE  CacheInv'
  BY <1>8, OneAsk, CacheUndisturbed, SameWarm, SameAnnounced DEF CacheInv
<1>9. ASSUME NEW r \in Readers PROVE AskCurrent(ask[r])
  BY DEF CacheInv, AsksCurrent
<1>10. ASSUME NEW r \in Readers, NEW key, NEW etag, Asks(r, key, etag) PROVE CacheInv'
  <2> DEFINE next == [pc |-> "cache", key |-> key, etag |-> etag, due |-> told]
  <2>1. AskCurrent(next)
    BY <1>0 DEF AskCurrent
  <2>2. AskMoves(r, next) /\ UNCHANGED <<committed, writer, told, gen, pages, entries, warm>>
    BY <1>10 DEF Asks, AskMoves
  <2> HIDE DEF next
  <2> QED BY <1>8, <2>1, <2>2
<1>11. ASSUME NEW r \in Readers, ServeCached(r) PROVE CacheInv'
  <2>1. /\ ask[r].pc = "cache" /\ UNCHANGED <<committed, writer, told, gen, pages, entries, warm>>
        /\ ask[r].due \in Nat /\ ask[r].due <= told
        /\ ask[r] = [pc |-> "cache", key |-> ask[r].key, etag |-> ask[r].etag, due |-> ask[r].due]
    BY <1>9, <1>11 DEF ServeCached, AskCurrent
  <2>2. ASSUME NEW content \in Nat \X Nat, Covers(content, told), Answers(r, content) PROVE CacheInv'
    <3> DEFINE next == [pc |-> "answered", key |-> ask[r].key, due |-> ask[r].due, content |-> content]
    <3>1. AskMoves(r, next)
      BY <2>2 DEF Answers, AskMoves
    <3>2. Covers(content, ask[r].due)
      BY <1>0, <2>1, <2>2 DEF Covers
    <3>3. AskCurrent(next)
      BY <2>1, <3>2 DEF AskCurrent
    <3> HIDE DEF next
    <3> QED BY <1>8, <2>1, <3>1, <3>3
  <2>3. CASE ask[r].key = AllMail /\ FreshPage(AllMail)
    <3>1. Answers(r, pages[AllMail].etag)
      BY <1>11, <2>3 DEF ServeCached
    <3>2. CurrentCovers(pages[AllMail].etag, gen)
      BY <2>3 DEF FreshPage, CacheInv, PagesCurrent
    <3> QED BY <2>2, <3>1, <3>2 DEF CurrentCovers
  <2>4. CASE ~(ask[r].key = AllMail /\ FreshPage(AllMail)) /\ FreshEntry(ask[r].key, ask[r].etag)
    <3>1. Answers(r, ask[r].etag)
      BY <1>11, <2>4 DEF ServeCached
    <3>2. CurrentCovers(ask[r].etag, gen)
      BY <2>4 DEF FreshEntry, CacheInv, EntriesCurrent
    <3> QED BY <2>2, <3>1, <3>2 DEF CurrentCovers
  <2>5. CASE ~(ask[r].key = AllMail /\ FreshPage(AllMail)) /\ ~FreshEntry(ask[r].key, ask[r].etag)
    <3> DEFINE next == [ask[r] EXCEPT !.pc = "generation"]
    <3>1. AskMoves(r, next)
      BY <1>11, <2>5 DEF ServeCached, AskMoves
    <3>2. next.pc = "generation" /\ next.due = ask[r].due
      BY <2>1
    <3> HIDE DEF next
    <3>3. AskCurrent(next)
      BY <2>1, <3>2 DEF AskCurrent
    <3> QED BY <1>8, <2>1, <3>1, <3>3
  <2> QED BY <2>3, <2>4, <2>5
<1>12. ASSUME NEW r \in Readers, ReadGeneration(r) PROVE CacheInv'
  <2> DEFINE next == [pc |-> "list", key |-> ask[r].key, due |-> ask[r].due, gen |-> gen]
  <2>1. /\ ask[r].pc = "generation" /\ AskMoves(r, next)
        /\ UNCHANGED <<committed, writer, told, gen, pages, entries, warm>>
    BY <1>12 DEF ReadGeneration, AskMoves
  <2>2. ask[r].due \in Nat /\ ask[r].due <= told
    BY <1>9, <2>1 DEF AskCurrent
  <2>3. AskCurrent(next)
    BY <1>0, <2>2 DEF AskCurrent
  <2> HIDE DEF next
  <2> QED BY <1>8, <2>1, <2>3
<1>13. ASSUME NEW r \in Readers, ListMessages(r) PROVE CacheInv'
  <2> DEFINE next == [pc |-> "views", key |-> ask[r].key, due |-> ask[r].due, gen |-> ask[r].gen, list |-> committed]
  <2>1. /\ ask[r].pc = "list" /\ AskMoves(r, next)
        /\ UNCHANGED <<committed, writer, told, gen, pages, entries, warm>>
    BY <1>13 DEF ListMessages, AskMoves
  <2>2. ask[r].due \in Nat /\ ask[r].due <= told /\ ask[r].gen \in Nat /\ ask[r].gen <= gen
    BY <1>9, <2>1 DEF AskCurrent
  <2>3. ask[r].due <= committed
    BY <1>0, <2>2
  <2>4. AskCurrent(next)
    BY <1>0, <2>2, <2>3 DEF AskCurrent
  <2> HIDE DEF next
  <2> QED BY <1>8, <2>1, <2>4
<1>14. ASSUME NEW r \in Readers, RespondRemember(r) PROVE CacheInv'
  <2> DEFINE content == <<ask[r].list, committed>>
             next == [pc |-> "answered", key |-> ask[r].key, due |-> ask[r].due, content |-> content]
  <2>1. /\ ask[r].pc = "views" /\ AskMoves(r, next)
        /\ Remember(ask[r].key, content, ask[r].gen)
        /\ UNCHANGED <<committed, writer, told, gen, pages, warm>>
    BY <1>14 DEF RespondRemember, Answers, GenerationOf, AtStart, AskMoves
  <2>2. /\ ask[r].due \in Nat /\ ask[r].due <= told /\ ask[r].gen \in Nat /\ ask[r].gen <= gen
        /\ ask[r].list \in Nat /\ ask[r].due <= ask[r].list /\ (ask[r].gen = gen => told <= ask[r].list)
    BY <1>9, <2>1 DEF AskCurrent
  <2>3. content \in Nat \X Nat /\ Covers(content, ask[r].due) /\ (ask[r].gen = gen => Covers(content, told))
    BY <1>0, <2>2 DEF Covers
  <2>4. AskCurrent(next)
    <3> HIDE DEF content
    <3> QED BY <2>2, <2>3 DEF AskCurrent
  <2> HIDE DEF next, content
  <2>5. EntriesCurrent'
    BY <2>1, <2>2, <2>3, Remembered DEF CurrentCovers
  <2>6. AsksCurrent'
    BY <2>1, <2>4, OneAsk
  <2>7. PagesCurrent'
    BY <2>1 DEF CacheInv, PagesCurrent, CurrentCovers
  <2> QED BY <2>1, <2>5, <2>6, <2>7, SameWarm, SameAnnounced DEF CacheInv
<1>15. ASSUME NEW r \in Readers, AskEnds(r) PROVE CacheInv'
  <2>1. AskMoves(r, NoAsk) /\ UNCHANGED <<committed, writer, told, gen, pages, entries, warm>>
    BY <1>15 DEF AskEnds, AskMoves
  <2>2. AskCurrent(NoAsk)
    BY DEF NoAsk, AskCurrent
  <2> QED BY <1>8, <2>1, <2>2
<1>16. CASE UNCHANGED <<committed, writer, told, gen, pages, entries, ask, warm>>
  BY <1>16, CacheUndisturbed, SameAsks, SameWarm, SameAnnounced DEF CacheInv
<1>17. CASE StreamStep \/ Disconnect \/ BrowserFetches
  BY <1>16, <1>17 DEF StreamStep, Connect, WriteEvent, TakeSignal, Disconnect, BrowserFetches
<1>18. CASE UNCHANGED listVars
  BY <1>16, <1>18 DEF listVars
<1> QED BY <1>1, <1>2, <1>3, <1>4, <1>5, <1>6, <1>7, <1>10, <1>11, <1>12, <1>13, <1>14, <1>15, <1>17, <1>18
        DEF ListNext, WriterStep, WarmStep

\* No answer of apiMail or apiSearch is older than what had been announced when the request
\* came in, for any number of writers, requests, pages and entries (mail_list_cache.go).
THEOREM AnswersAreFresh == ListSpec => []AnswersFresh
<1>1. CacheInv => AnswersFresh
  BY DEF CacheInv, AsksCurrent, AskCurrent, AnswersFresh
<1> QED BY <1>1, CacheInitially, CacheKept, PTL DEF ListSpec
====
