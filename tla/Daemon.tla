------------------------------- MODULE Daemon -------------------------------
(***************************************************************************)
(* The server process: cmd/rolltop/main.go (run, startApp, shutdown) and   *)
(* instance_lock.go.  Several processes share one data directory: a        *)
(* restarted container, a second replica, an offline command.  The process *)
(* listens first, takes the lock, opens the stores, marks what an earlier  *)
(* process left running, and serves; it leaves on a signal, on an error of *)
(* its listener, or because a stalled search writer asks for a restart.    *)
(* The supervisor that starts and kills processes is external.             *)
(***************************************************************************)
EXTENDS Naturals, FiniteSets

CONSTANTS Procs,      \* processes over the data directory
          Vacant,     \* nobody holds the lock
          MaxStarts   \* bound on process starts

ASSUME DaemonAssumption == Vacant \notin Procs /\ MaxStarts \in Nat

VARIABLES stage,      \* where run() is, per process
          holder,     \* the holder of the flock
          dbOpen,     \* appRuntime's stores are open
          cancelled,  \* appCtx is cancelled
          signal,     \* SIGTERM arrived
          stalled,    \* restartRequired holds a user
          why,        \* the branch of the select that ended serving
          cleanup,    \* shutdownServingApp and app.close
          work,       \* a sync worker is running
          row,        \* the row of the process's sync run
          marked,     \* MarkRunningSyncRunsInterrupted succeeded at startup
          ghost,      \* a row left running by a process that is gone
          starts

daemonVars == <<stage, holder, dbOpen, cancelled, signal, stalled, why, cleanup, work, row, marked, ghost, starts>>

DaemonInit ==
  /\ stage = [p \in Procs |-> "down"] /\ holder = Vacant
  /\ dbOpen = [p \in Procs |-> FALSE] /\ cancelled = [p \in Procs |-> FALSE]
  /\ signal = [p \in Procs |-> FALSE] /\ stalled = [p \in Procs |-> FALSE]
  /\ why = [p \in Procs |-> "none"] /\ cleanup = [p \in Procs |-> "none"]
  /\ work = [p \in Procs |-> FALSE] /\ row = [p \in Procs |-> "none"]
  /\ marked = [p \in Procs |-> FALSE] /\ ghost = FALSE /\ starts = 0

Enters(p, s) == stage' = [stage EXCEPT ![p] = s]

(***************************************************************************)
(* Startup                                                                 *)
(***************************************************************************)
\* The listener answers before anything else is up.
Listens(p) ==
  /\ stage[p] = "down" /\ starts < MaxStarts
  /\ starts' = starts + 1
  /\ Enters(p, "listening")
  /\ UNCHANGED <<holder, dbOpen, cancelled, signal, stalled, why, cleanup, work, row, marked, ghost>>

\* config.Load or startApp failed: the failure is shown until a signal; a
\* failed startApp has closed the stores it opened and keeps the lock.
StartupFails(p) ==
  /\ stage[p] \in {"listening", "locked", "opening", "marked"}
  /\ Enters(p, "failed")
  /\ dbOpen' = [dbOpen EXCEPT ![p] = FALSE]
  /\ UNCHANGED <<holder, cancelled, signal, stalled, why, cleanup, work, row, marked, ghost, starts>>

\* LOCK_EX | LOCK_NB
SharesLock(p) == TRUE
LockFree(p) == holder = Vacant

AcquireInstanceLock(p) ==
  /\ stage[p] = "listening"
  /\ IF LockFree(p)
     THEN /\ holder' = p
          /\ Enters(p, "locked")
     ELSE /\ UNCHANGED holder
          /\ Enters(p, "down")
  /\ UNCHANGED <<dbOpen, cancelled, signal, stalled, why, cleanup, work, row, marked, ghost, starts>>

OpensStores(p) ==
  /\ stage[p] = "locked"
  /\ dbOpen' = [dbOpen EXCEPT ![p] = TRUE]
  /\ Enters(p, "opening")
  /\ UNCHANGED <<holder, cancelled, signal, stalled, why, cleanup, work, row, marked, ghost, starts>>

\* MarkRunningSyncRunsInterrupted: every row still running
Interrupts ==
  /\ row' = [p \in Procs |-> IF row[p] = "running" THEN "interrupted" ELSE row[p]]
  /\ ghost' = FALSE

\* startApp's call; its error is only logged.
StartMarks(p) == Interrupts
MarksRuns(p) ==
  /\ stage[p] = "opening"
  /\ \/ /\ StartMarks(p)
        /\ marked' = [marked EXCEPT ![p] = TRUE]
     \/ /\ marked' = [marked EXCEPT ![p] = FALSE]
        /\ UNCHANGED <<row, ghost>>
  /\ Enters(p, "marked")
  /\ UNCHANGED <<holder, dbOpen, cancelled, signal, stalled, why, cleanup, work, starts>>

\* The search markers are recovered, the sync runner and the schedulers start;
\* then the gate gets the real handler.
StartsServices(p) ==
  /\ stage[p] = "marked" /\ Enters(p, "services")
  /\ UNCHANGED <<holder, dbOpen, cancelled, signal, stalled, why, cleanup, work, row, marked, ghost, starts>>

SetsHandler(p) ==
  /\ stage[p] = "services" /\ Enters(p, "serving")
  /\ UNCHANGED <<holder, dbOpen, cancelled, signal, stalled, why, cleanup, work, row, marked, ghost, starts>>

(***************************************************************************)
(* Sync workers, stalls and signals                                        *)
(***************************************************************************)
WorkBegins(p) ==
  /\ stage[p] \in {"services", "serving", "leaving", "exiting"}
  /\ dbOpen[p] /\ ~cancelled[p] /\ ~work[p]
  /\ work' = [work EXCEPT ![p] = TRUE] /\ row' = [row EXCEPT ![p] = "running"]
  /\ UNCHANGED <<stage, holder, dbOpen, cancelled, signal, stalled, why, cleanup, marked, ghost, starts>>

\* FinishSyncRun leaves an interrupted row alone; with its store closed the
\* worker ends without a word.
WorkEnds(p) ==
  /\ work[p]
  /\ work' = [work EXCEPT ![p] = FALSE]
  /\ row' = [row EXCEPT ![p] = IF @ = "running" /\ dbOpen[p] THEN "done" ELSE @]
  /\ UNCHANGED <<stage, holder, dbOpen, cancelled, signal, stalled, why, cleanup, marked, ghost, starts>>

\* SetActiveWriterStallHandler's callback: the channel keeps one user.
WriterStalls(p) ==
  /\ stage[p] \in {"services", "serving"} /\ ~stalled[p]
  /\ stalled' = [stalled EXCEPT ![p] = TRUE]
  /\ UNCHANGED <<stage, holder, dbOpen, cancelled, signal, why, cleanup, work, row, marked, ghost, starts>>

SignalArrives(p) ==
  /\ stage[p] # "down" /\ ~signal[p]
  /\ signal' = [signal EXCEPT ![p] = TRUE] /\ cancelled' = [cancelled EXCEPT ![p] = TRUE]
  /\ UNCHANGED <<stage, holder, dbOpen, stalled, why, cleanup, work, row, marked, ghost, starts>>

(***************************************************************************)
(* Shutdown                                                                *)
(***************************************************************************)
\* run's select: whichever of its channels is ready.
StopsServing(p, reason) ==
  /\ stage[p] = "serving" /\ Enters(p, "leaving")
  /\ why' = [why EXCEPT ![p] = reason]
  /\ cleanup' = [cleanup EXCEPT ![p] = IF reason = "server" THEN "closing" ELSE "marking"]
  /\ cancelled' = [cancelled EXCEPT ![p] = @ \/ reason = "restart"]
  /\ UNCHANGED <<holder, dbOpen, signal, stalled, work, row, marked, ghost, starts>>
SignalStops(p) == signal[p] /\ StopsServing(p, "signal")
StallStops(p) == stalled[p] /\ StopsServing(p, "restart")
ServerStops(p) == StopsServing(p, "server")

\* shutdownServingApp
ShutdownMarks(p) ==
  /\ cleanup[p] = "marking"
  /\ Interrupts
  /\ cleanup' = [cleanup EXCEPT ![p] = "closing"]
  /\ UNCHANGED <<stage, holder, dbOpen, cancelled, signal, stalled, why, work, marked, starts>>

\* app.close: plugin host, search, database.  A plugin's Stop or a query that
\* does not return can hold it up.
AppCloses(p) ==
  /\ cleanup[p] \in {"closing", "hung"}
  /\ dbOpen' = [dbOpen EXCEPT ![p] = FALSE]
  /\ cleanup' = [cleanup EXCEPT ![p] = "done"]
  /\ UNCHANGED <<stage, holder, cancelled, signal, stalled, why, work, row, marked, ghost, starts>>
CloseHangs(p) ==
  /\ cleanup[p] = "closing"
  /\ cleanup' = [cleanup EXCEPT ![p] = "hung"]
  /\ UNCHANGED <<stage, holder, dbOpen, cancelled, signal, stalled, why, work, row, marked, ghost, starts>>

\* run returns: lock.Close runs last of its deferred calls.
Returns(p) ==
  /\ Enters(p, "exiting")
  /\ holder' = IF holder = p THEN Vacant ELSE holder
  /\ cancelled' = [cancelled EXCEPT ![p] = TRUE]
  /\ UNCHANGED <<dbOpen, signal, stalled, why, cleanup, work, row, marked, ghost, starts>>

\* runSearchWriterRestartShutdown waits for its goroutine or for the timer.
NeverTimesOut(p) == FALSE
MayTimeOut(p) == why[p] = "restart"
CleanupDone(p) == stage[p] = "leaving" /\ cleanup[p] = "done" /\ Returns(p)
CleanupTimesOut(p) == stage[p] = "leaving" /\ MayTimeOut(p) /\ cleanup[p] # "done" /\ Returns(p)
FailedReturns(p) == stage[p] = "failed" /\ signal[p] /\ Returns(p)

\* The process is gone, by os.Exit or killed: the kernel drops the lock, a row
\* its worker left running stays.
Gone(p) ==
  /\ Enters(p, "down")
  /\ holder' = IF holder = p THEN Vacant ELSE holder
  /\ dbOpen' = [dbOpen EXCEPT ![p] = FALSE] /\ cancelled' = [cancelled EXCEPT ![p] = FALSE]
  /\ signal' = [signal EXCEPT ![p] = FALSE] /\ stalled' = [stalled EXCEPT ![p] = FALSE]
  /\ why' = [why EXCEPT ![p] = "none"] /\ cleanup' = [cleanup EXCEPT ![p] = "none"]
  /\ work' = [work EXCEPT ![p] = FALSE] /\ row' = [row EXCEPT ![p] = "none"]
  /\ marked' = [marked EXCEPT ![p] = FALSE]
  /\ ghost' = (ghost \/ row[p] = "running")
  /\ UNCHANGED starts
Exits(p) == stage[p] = "exiting" /\ Gone(p)
Killed(p) == stage[p] \notin {"down", "exiting"} /\ Gone(p)

DaemonNext == \E p \in Procs :
  \/ Listens(p) \/ StartupFails(p) \/ AcquireInstanceLock(p) \/ OpensStores(p)
  \/ MarksRuns(p) \/ StartsServices(p) \/ SetsHandler(p)
  \/ WorkBegins(p) \/ WorkEnds(p) \/ WriterStalls(p) \/ SignalArrives(p)
  \/ SignalStops(p) \/ StallStops(p) \/ ServerStops(p)
  \/ ShutdownMarks(p) \/ AppCloses(p) \/ CloseHangs(p)
  \/ CleanupDone(p) \/ CleanupTimesOut(p) \/ FailedReturns(p)
  \/ Exits(p) \/ Killed(p)

\* run goes on and its timer fires; nothing promises that a hung close returns.
LeaveStep(p) == StallStops(p) \/ ShutdownMarks(p) \/ CleanupDone(p) \/ CleanupTimesOut(p) \/ Exits(p)
DaemonFairness == \A p \in Procs : WF_daemonVars(LeaveStep(p))
DaemonSpec == DaemonInit /\ [][DaemonNext]_daemonVars /\ DaemonFairness

-----------------------------------------------------------------------------
(***************************************************************************)
(* Properties                                                              *)
(***************************************************************************)
\* One process at a time has the stores open, whatever starts beside it, hangs
\* or is killed; a process that gave its cleanup up for a restart and is
\* exiting no longer counts.
OneOwner == Cardinality({p \in Procs : dbOpen[p] /\ stage[p] # "exiting"}) <= 1

\* A serving process whose startup marking succeeded shows no sync run of a
\* process before it as running.
NoGhost == \A p \in Procs : stage[p] = "serving" /\ marked[p] =>
             ~ghost /\ \A q \in Procs \ {p} : row[q] # "running"

\* What the processes keep to at all times: the stores have one owner, and a
\* serving one shows no run of a process before it.
DaemonSafe == OneOwner /\ NoGhost

\* A stalled search writer ends the process even when closing hangs, so that a
\* new one can recover the index; only a signal or a listener error may come
\* first, whose cleanup has no time limit.
StallEnds == \A p \in Procs :
  (stage[p] = "serving" /\ stalled[p]) ~> (stage[p] = "down" \/ signal[p] \/ why[p] = "server")
=============================================================================
