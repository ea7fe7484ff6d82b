---- MODULE Folders ----
(* The folders of one IMAP account, their sync runs and the jobs that work on them:
   store/mailboxes.go, store/sync_runs.go, the planning half of syncer/syncer.go and
   syncer/mailboxes.go, folder creation, folder settings, maintenance and account
   deletion (web/api_account.go, syncer/runner.go) and the reaper of stale runs
   (cmd/rolltop/main.go).

   A folder row is created by whoever meets the name first: a status refresh, the
   planning of an account-wide sync, a requested sync, a folder the user creates.  The
   jobs below run beside each other; each SQL statement or transaction and each IMAP
   command is a step.  What a sync stores is one fact, the generation (UIDVALIDITY) of
   the messages the folder holds; icons, sidebar flags and progress counters are left
   out, and so are the gates of the runner, which Runner has. *)
EXTENDS Integers, Sequences, SequencesExt, FiniteSets

CONSTANTS
    Names,        \* folder names of the server
    InboxName,
    Parents,      \* Names -> its parents, the nearest first
    NamedRole,    \* Names -> the role its name stands for, "" for none
    SpecialUse,   \* Names -> the special-use role the server announces, "" for none
    Wanted,       \* folder settings a user sends: [mode, role, search]
    Slots,        \* jobs in flight
    RunIds,       \* 1 .. the number of sync runs
    Budgets       \* how many [asks, faults, turns] a behaviour has

ASSUME FoldersAssumption ==
    /\ InboxName \in Names /\ Parents \in [Names -> Seq(Names)]
    /\ IsFiniteSet(RunIds) /\ RunIds = 1 .. Cardinality(RunIds)

VARIABLES
    folders,    \* mailboxes: [there, mode, role, search, validity, stored, rebuild]
    account,    \* the mail_accounts row exists
    runs,       \* sync_runs: [status, stale]
    slots,      \* the jobs
    held,       \* mailboxRunning
    deleting,   \* deletingIMAPAccounts
    refresh,    \* [running, blocked]: statusRefreshRunning and statusRefreshBlockedUntil
    remote,     \* the generation of each folder on the server, 0 without the folder
    up,         \* the process accepts requests
    budget      \* what is left of the bounds
folderVars == <<folders, account, runs, slots, held, deleting, refresh, remote, up, budget>>

NoRow == [there |-> FALSE, mode |-> "auto", role |-> "", search |-> FALSE, validity |-> 0,
          stored |-> 0, rebuild |-> FALSE]
NoSettings == [mode |-> "auto", role |-> "", search |-> TRUE]
Free == [kind |-> "none", at |-> "none", todo |-> <<>>, plan |-> <<>>, name |-> InboxName, known |-> 0,
         seen |-> 0, run |-> 0, holds |-> {}, out |-> "ok", stop |-> FALSE, want |-> NoSettings]
SyncKinds == {"sync", "auto", "recover"}
WholeAccount == "__account__"
Local == {n \in Names : folders[n].there}
OnServer == {n \in Names : remote[n] # 0}
Sorted(S) == SetToSortSeq(S, LAMBDA a, b : a = InboxName \/ b # InboxName)

FoldersInit ==
    /\ folders = [n \in Names |-> NoRow]
    /\ account = TRUE
    /\ runs = [r \in RunIds |-> [status |-> "none", stale |-> FALSE]]
    /\ slots = [j \in Slots |-> Free]
    /\ held = {} /\ deleting = FALSE
    /\ refresh = [running |-> FALSE, blocked |-> FALSE]
    /\ remote = [n \in Names |-> IF n = InboxName THEN 1 ELSE 0]
    /\ up = TRUE
    /\ budget \in Budgets

Becoming(j, next) == slots' = [slots EXCEPT ![j] = next]
Faulty == budget.faults > 0 /\ budget' = [budget EXCEPT !.faults = @ - 1]
\* slots do not differ: the first that is free serves
Takes(j, job) ==
    /\ slots[j].kind = "none" /\ up /\ budget.asks > 0
    /\ j = CHOOSE q \in Slots : slots[q].kind = "none"
    /\ budget' = [budget EXCEPT !.asks = @ - 1]
    /\ Becoming(j, job)

---------------------------------------------------------------------------
(* The rows. *)
\* GetOrCreateMailboxWithRole: the row after it, for a role the server announces or ""
GetOrCreate(n, special) ==
    LET role == IF special # "" THEN special ELSE NamedRole[n]
        taken == \E m \in Local \ {n} : role # "" /\ folders[m].role = role
        row == IF folders[n].there THEN folders[n]
               ELSE [NoRow EXCEPT !.there = TRUE, !.search = TRUE, !.role = IF taken THEN "" ELSE role,
                                  !.mode = IF n = InboxName THEN "auto" ELSE "manual"]
    IN IF row.role = "" /\ ~taken THEN [row EXCEPT !.role = role] ELSE row

\* EffectiveMailboxSyncMode, through the parents that have a row
EffectiveMode(n, row) ==
    LET above == SelectSeq(Parents[n], LAMBDA p : p \in Local /\ folders[p].mode # "inherit")
    IN IF row.mode # "inherit" THEN row.mode
       ELSE IF above = <<>> THEN "auto" ELSE folders[above[1]].mode

\* what UpdateMailboxSettings refuses: a row that is gone, a mode without a parent, a second role
SettingsAccepted(n, want) ==
    /\ n \in Local
    /\ ~ (want.mode = "inherit" /\ Parents[n] = <<>>)
    /\ want.role # "" => \A m \in Local \ {n} : folders[m].role # want.role
UpdateSettings(n, want) ==
    folders' = [folders EXCEPT ![n].mode = want.mode, ![n].role = want.role, ![n].search = want.search]

InitializeAnyway(n, seen) == [folders[n] EXCEPT !.validity = seen]
\* InitializeMailboxRemoteStatus: WHERE uidvalidity = 0
InitializeStatus(n, seen) == IF folders[n].validity = 0 THEN [folders[n] EXCEPT !.validity = seen] ELSE folders[n]
\* recordMailboxStatus: the first status proves the generation, a later one changes counters only
RecordStatus(n, known, seen) ==
    IF n \in Local /\ known = 0 /\ seen # 0 THEN InitializeStatus(n, seen) ELSE folders[n]

\* ResetMailboxForRemoteGeneration
MustReset(n, seen) ==
    \/ folders[n].stored \notin {0, seen}
    \/ folders[n].validity \notin {0, seen}
ResetGenerationRow(n, seen) ==
    IF MustReset(n, seen)
    THEN [folders[n] EXCEPT !.validity = seen, !.stored = 0, !.rebuild = TRUE]
    ELSE [folders[n] EXCEPT !.validity = seen]

---------------------------------------------------------------------------
(* The runs. *)
NextRun == CHOOSE r \in RunIds : runs[r].status = "none" /\ \A q \in RunIds : q < r => runs[q].status # "none"
RunLeft == \E r \in RunIds : runs[r].status = "none"
Created(f, r) == [f EXCEPT ![r] = [status |-> "running", stale |-> FALSE]]
\* UpdateSyncRunProgress and TouchSyncRun: both move updated_at
Touched(f, r) == IF r = 0 THEN f ELSE [f EXCEPT ![r].stale = FALSE]
\* FinishSyncRun: an interrupted run that has finished keeps its outcome
Finished(f, r, out) ==
    IF f[r].status \in {"gone", "interrupted"} THEN f ELSE [f EXCEPT ![r] = [status |-> out, stale |-> FALSE]]
Interrupted(f, which) ==
    [r \in RunIds |-> IF r \in which /\ f[r].status = "running"
                      THEN [status |-> "interrupted", stale |-> FALSE] ELSE f[r]]
\* the runs InterruptStaleSyncRuns finds, fifteen minutes after their last progress
Reapable == {r \in RunIds : runs[r].stale}

---------------------------------------------------------------------------
(* A status refresh, a folder the user creates, the planning of an account-wide sync. *)
\* refreshMailboxStatusesAsync: one at a time, none beside a sync, none after a failure
RefreshStarts(j) ==
    /\ Local # {} /\ ~refresh.running /\ ~refresh.blocked /\ held = {}
    /\ Takes(j, [Free EXCEPT !.kind = "refresh", !.at = "list"])
    /\ refresh' = [refresh EXCEPT !.running = TRUE]
    /\ UNCHANGED <<folders, account, runs, held, deleting, remote, up>>
BackoffEnds ==
    /\ refresh.blocked /\ refresh' = [refresh EXCEPT !.blocked = FALSE]
    /\ UNCHANGED <<folders, account, runs, slots, held, deleting, remote, up, budget>>
\* apiCreateIMAPFolder, CreateRemoteFolder: a name without a row, then CREATE on the server
CreateFolder(j, n) ==
    /\ account /\ n \notin Local /\ n # InboxName
    /\ Takes(j, [Free EXCEPT !.kind = "create", !.at = "make", !.todo = <<n>>])
    /\ UNCHANGED <<folders, account, runs, held, deleting, refresh, remote, up>>
AutoSyncStarts(j) ==
    /\ account /\ \A q \in Slots : slots[q].kind # "auto"
    /\ Takes(j, [Free EXCEPT !.kind = "auto", !.at = "list"])
    /\ UNCHANGED <<folders, account, runs, held, deleting, refresh, remote, up>>
\* QueueAccountMailboxes and StartAccountMailboxes, for one folder
SyncStarts(j, n) ==
    /\ n \in Local
    /\ Takes(j, [Free EXCEPT !.kind = "sync", !.at = "next", !.plan = <<n>>])
    /\ UNCHANGED <<folders, account, runs, held, deleting, refresh, remote, up>>
\* RecoverUserAccountMailboxGeneration
RecoveryStarts(j, n) ==
    /\ n \in Local /\ folders[n].rebuild
    /\ Takes(j, [Free EXCEPT !.kind = "recover", !.at = "next", !.plan = <<n>>])
    /\ UNCHANGED <<folders, account, runs, held, deleting, refresh, remote, up>>

EndsJob(j, failed) ==
    /\ Becoming(j, Free)
    /\ refresh' = IF slots[j].kind = "refresh" THEN [running |-> FALSE, blocked |-> failed] ELSE refresh
MakeFolder(j) ==
    /\ slots[j].at = "make"
    /\ LET n == Head(slots[j].todo) IN
       \/ /\ remote[n] = 0 /\ remote' = [remote EXCEPT ![n] = 1]
          /\ Becoming(j, [slots[j] EXCEPT !.at = "row"]) /\ UNCHANGED refresh
       \/ remote[n] # 0 /\ EndsJob(j, TRUE) /\ UNCHANGED remote
    /\ UNCHANGED <<folders, account, runs, held, deleting, up, budget>>
\* configuredMailboxes: the folders of the server, INBOX when it has none
ListRemote(j) ==
    /\ slots[j].at = "list"
    /\ Becoming(j, [slots[j] EXCEPT !.at = "row",
                    !.todo = IF OnServer = {} THEN <<InboxName>> ELSE Sorted(OnServer)])
    /\ UNCHANGED <<folders, account, runs, held, deleting, refresh, remote, up, budget>>
\* one folder of DiscoverMailboxes, CreateRemoteFolder or mailboxesToSync
RowStep(j) ==
    /\ slots[j].at = "row" /\ slots[j].todo # <<>> /\ account
    /\ LET n == Head(slots[j].todo)
           row == GetOrCreate(n, IF slots[j].kind = "create" THEN "" ELSE SpecialUse[n])
       IN /\ folders' = [folders EXCEPT ![n] = row]
          /\ Becoming(j, IF slots[j].kind = "auto"
                         THEN [slots[j] EXCEPT !.todo = Tail(@),
                               !.plan = IF EffectiveMode(n, row) = "auto" THEN Append(@, n) ELSE @]
                         ELSE [slots[j] EXCEPT !.at = "probe", !.todo = Tail(@), !.name = n, !.known = row.validity])
    /\ UNCHANGED <<account, runs, held, deleting, refresh, remote, up, budget>>
RowsDone(j) ==
    /\ slots[j].at = "row" /\ slots[j].todo = <<>>
    /\ IF slots[j].kind = "auto"
       THEN Becoming(j, [slots[j] EXCEPT !.at = "next"]) /\ UNCHANGED refresh
       ELSE EndsJob(j, FALSE)
    /\ UNCHANGED <<folders, account, runs, held, deleting, remote, up, budget>>
\* STATUS; its failure is only logged
Probe(j) ==
    /\ slots[j].at = "probe"
    /\ \/ remote[slots[j].name] # 0 /\ UNCHANGED budget
          /\ Becoming(j, [slots[j] EXCEPT !.at = "record", !.seen = remote[slots[j].name]])
       \/ /\ IF remote[slots[j].name] # 0 THEN Faulty ELSE UNCHANGED budget
          /\ Becoming(j, [slots[j] EXCEPT !.at = "row"])
    /\ UNCHANGED <<folders, account, runs, held, deleting, refresh, remote, up>>
Record(j) ==
    /\ slots[j].at = "record"
    /\ folders' = [folders EXCEPT ![slots[j].name] = RecordStatus(slots[j].name, slots[j].known, slots[j].seen)]
    /\ Becoming(j, [slots[j] EXCEPT !.at = "row"])
    /\ UNCHANGED <<account, runs, held, deleting, refresh, remote, up, budget>>
---------------------------------------------------------------------------
(* The sync of one folder: syncAccount, run by the runner under its reservation. *)
NextFolder(j) ==
    /\ slots[j].at = "next"
    /\ IF slots[j].plan = <<>> \/ slots[j].stop \/ ~up
       THEN EndsJob(j, FALSE) /\ UNCHANGED held
       ELSE LET n == Head(slots[j].plan) IN
            IF n \in held
            THEN Becoming(j, [slots[j] EXCEPT !.plan = Tail(@)]) /\ UNCHANGED <<held, refresh>>
            ELSE /\ held' = held \cup {n} /\ UNCHANGED refresh
                 /\ Becoming(j, [slots[j] EXCEPT !.at = "open", !.plan = Tail(@), !.name = n,
                                 !.holds = {n}, !.out = "ok"])
    /\ UNCHANGED <<folders, account, runs, deleting, remote, up, budget>>
\* CreateSyncRun: the row refers to the account
OpenRun(j) ==
    /\ slots[j].at = "open" /\ account /\ RunLeft
    /\ runs' = Created(runs, NextRun)
    /\ Becoming(j, [slots[j] EXCEPT !.run = NextRun,
                    !.at = IF slots[j].kind \in SyncKinds THEN "select"
                           ELSE IF slots[j].kind = "toggle" THEN "setup" ELSE "body"])
    /\ UNCHANGED <<folders, account, held, deleting, refresh, remote, up, budget>>
Moves(j, step, rows) ==
    /\ folders' = rows /\ runs' = Touched(runs, slots[j].run)
    /\ Becoming(j, [slots[j] EXCEPT !.at = step])
    /\ UNCHANGED <<account, held, deleting, refresh, remote, up, budget>>
\* requestedMailboxes: a folder that is never synced is left out, unless its rebuild is pending
SelectFolder(j) ==
    /\ slots[j].at = "select" /\ account /\ ~slots[j].stop
    /\ LET n == slots[j].name
           row == GetOrCreate(n, "")
       IN Moves(j, IF EffectiveMode(n, row) = "never" /\ ~row.rebuild THEN "finish" ELSE "status",
               [folders EXCEPT ![n] = row])
\* planMailboxes
PlanStatus(j) ==
    /\ slots[j].at = "status" /\ remote[slots[j].name] # 0 /\ ~slots[j].stop
    /\ Becoming(j, [slots[j] EXCEPT !.at = "reset", !.seen = remote[slots[j].name]])
    /\ UNCHANGED <<folders, account, runs, held, deleting, refresh, remote, up, budget>>
ResetStep(j) ==
    /\ slots[j].at = "reset" /\ slots[j].name \in Local /\ ~slots[j].stop
    /\ Moves(j, "count", [folders EXCEPT ![slots[j].name] = ResetGenerationRow(slots[j].name, slots[j].seen)])
\* UpdateMailboxRemoteStatusForGeneration: the row must still be of the generation of the plan;
\* the messages of a pending rebuild are left to the recovery worker
CountStep(j) ==
    /\ slots[j].at = "count" /\ folders[slots[j].name].validity = slots[j].seen /\ ~slots[j].stop
    /\ Moves(j, IF folders[slots[j].name].rebuild /\ slots[j].kind # "recover" THEN "finish" ELSE "fetch", folders)
\* messages of the generation of the plan are stored, and the rebuild is complete
FetchStep(j) ==
    /\ slots[j].at = "fetch" /\ ~slots[j].stop
    /\ remote[slots[j].name] = slots[j].seen /\ folders[slots[j].name].validity = slots[j].seen
    /\ Moves(j, "finish", [folders EXCEPT ![slots[j].name].stored = slots[j].seen, ![slots[j].name].rebuild = FALSE])

---------------------------------------------------------------------------
(* Maintenance: purges, the search setting, the deletion of the account. *)
MaintenanceStarts(j, n) ==
    /\ n \in Local
    /\ Takes(j, [Free EXCEPT !.kind = "purge", !.at = "reserve", !.name = n])
    /\ UNCHANGED <<folders, account, runs, held, deleting, refresh, remote, up>>
\* UpdateMailboxSyncMode
SetMode(n, mode) ==
    /\ n \in Local /\ up /\ budget.asks > 0 /\ budget' = [budget EXCEPT !.asks = @ - 1]
    /\ folders' = [folders EXCEPT ![n].mode = mode]
    /\ UNCHANGED <<account, runs, slots, held, deleting, refresh, remote, up>>
\* apiAccountFolder, settings: a changed search flag needs a maintenance run around the update
AsksSettings(j, n, want) ==
    /\ n \in Local
    /\ Takes(j, [Free EXCEPT !.name = n, !.want = want,
                  !.kind = IF want.search # folders[n].search THEN "toggle" ELSE "settings",
                  !.at = IF want.search # folders[n].search THEN "reserve" ELSE "update"])
    /\ UNCHANGED <<folders, account, runs, held, deleting, refresh, remote, up>>
UpdateStep(j) ==
    /\ slots[j].at = "update"
    /\ IF SettingsAccepted(slots[j].name, slots[j].want)
       THEN UpdateSettings(slots[j].name, slots[j].want) ELSE UNCHANGED folders
    /\ Becoming(j, Free)
    /\ UNCHANGED <<account, runs, held, deleting, refresh, remote, up, budget>>
\* apiDeleteIMAPAccount: refused while marked or while a folder it lists is reserved
AsksDeletion(j) ==
    /\ account /\ ~deleting /\ Local \cap held = {}
    /\ Takes(j, [Free EXCEPT !.kind = "delete", !.at = "mark", !.todo = Sorted(Local)])
    /\ UNCHANGED <<folders, account, runs, held, deleting, refresh, remote, up>>
MarkDeleting(j) ==
    /\ slots[j].at = "mark" /\ deleting' = TRUE
    /\ Becoming(j, [slots[j] EXCEPT !.at = "reserve"])
    /\ UNCHANGED <<folders, account, runs, held, refresh, remote, up, budget>>

\* clearDeletingIMAPAccount, by the request or by the end of the deletion
ClearsMark(j) == IF slots[j].kind = "delete" THEN FALSE ELSE deleting
\* reserveAccountMailboxesForMaintenance
Reserve(j) ==
    LET keys == IF slots[j].kind # "delete" THEN {slots[j].name}
                ELSE IF slots[j].todo = <<>> THEN {WholeAccount} ELSE ToSet(slots[j].todo)
    IN /\ slots[j].at = "reserve"
       /\ IF keys \cap held = {} /\ up
          THEN /\ held' = held \cup keys /\ UNCHANGED deleting
               /\ Becoming(j, [slots[j] EXCEPT !.at = "open", !.holds = keys])
          ELSE deleting' = ClearsMark(j) /\ Becoming(j, Free) /\ UNCHANGED held
       /\ UNCHANGED <<folders, account, runs, refresh, remote, up, budget>>
\* the first UpdateSyncRunProgress fails: the reservation goes, the run stays
ProgressFails(j) ==
    /\ slots[j].at \in {"setup", "body"} /\ Faulty
    /\ held' = held \ slots[j].holds /\ deleting' = ClearsMark(j) /\ Becoming(j, Free)
    /\ UNCHANGED <<folders, account, runs, refresh, remote, up>>
SetupStep(j) ==
    /\ slots[j].at = "setup"
    /\ IF SettingsAccepted(slots[j].name, slots[j].want)
       THEN UpdateSettings(slots[j].name, slots[j].want) /\ Becoming(j, [slots[j] EXCEPT !.at = "body"])
       ELSE UNCHANGED folders /\ Becoming(j, [slots[j] EXCEPT !.at = "finish", !.out = "failed"])
    /\ UNCHANGED <<account, runs, held, deleting, refresh, remote, up, budget>>
\* the task itself; Blobs and Indexing have what it deletes and indexes
BodyStep(j) ==
    /\ slots[j].at = "body" /\ ~slots[j].stop /\ account
    /\ folders' = [n \in Names |-> IF \/ slots[j].kind = "delete"
                                      \/ slots[j].kind = "purge" /\ n = slots[j].name
                                   THEN [folders[n] EXCEPT !.stored = 0] ELSE folders[n]]
    /\ runs' = Touched(runs, slots[j].run)
    /\ Becoming(j, [slots[j] EXCEPT !.at = IF slots[j].kind = "delete" THEN "drop" ELSE "finish"])
    /\ UNCHANGED <<account, held, deleting, refresh, remote, up, budget>>
\* DeleteMailAccountForUser: folders and runs go with the account
DropAccount(j) ==
    /\ slots[j].at = "drop" /\ ~slots[j].stop /\ account
    /\ account' = FALSE /\ folders' = [n \in Names |-> NoRow]
    /\ runs' = [r \in RunIds |-> IF runs[r].status = "none" THEN runs[r] ELSE [status |-> "gone", stale |-> FALSE]]
    /\ deleting' = FALSE
    /\ Becoming(j, [slots[j] EXCEPT !.at = "finish"])
    /\ UNCHANGED <<held, refresh, remote, up, budget>>

---------------------------------------------------------------------------
(* Failures and ends. *)
\* a step fails: an error of the server or of the database, a cancelled context, a row that is gone
StepFails(j) ==
    LET gone == \/ slots[j].at \in {"row", "open", "select", "body", "drop"} /\ ~account
                \/ slots[j].at \in {"reset", "count", "fetch"}
                   /\ (slots[j].name \notin Local \/ slots[j].seen # folders[slots[j].name].validity
                       \/ slots[j].seen # remote[slots[j].name])
                \/ slots[j].at = "status" /\ remote[slots[j].name] = 0
        out == IF slots[j].stop /\ slots[j].kind \in SyncKinds THEN "interrupted" ELSE "failed"
    IN /\ slots[j].at \in {"list", "make", "row", "open", "select", "status", "reset", "count", "fetch", "body", "drop"}
       /\ IF slots[j].stop \/ gone THEN UNCHANGED budget ELSE Faulty
       /\ IF slots[j].at \in {"list", "make", "row"} THEN EndsJob(j, TRUE) /\ UNCHANGED deleting
          ELSE /\ Becoming(j, [slots[j] EXCEPT !.at = IF slots[j].at = "open" THEN "release" ELSE "finish", !.out = out])
               /\ deleting' = ClearsMark(j) /\ UNCHANGED refresh
       /\ UNCHANGED <<folders, account, runs, held, remote, up>>
FinishRun(j) ==
    /\ slots[j].at = "finish"
    /\ runs' = Finished(runs, slots[j].run, slots[j].out)
    /\ Becoming(j, [slots[j] EXCEPT !.at = "release"])
    /\ UNCHANGED <<folders, account, held, deleting, refresh, remote, up, budget>>
\* releaseMailboxMaintenanceReservation and the end of runReservedAccountMailboxes
ReleasesFolder(j) == held \ slots[j].holds
Release(j) ==
    /\ slots[j].at = "release"
    /\ held' = ReleasesFolder(j)
    /\ Becoming(j, IF slots[j].kind \in SyncKinds
                   THEN [slots[j] EXCEPT !.at = "next", !.holds = {}, !.run = 0] ELSE Free)
    /\ UNCHANGED <<folders, account, runs, deleting, refresh, remote, up, budget>>

---------------------------------------------------------------------------
(* Cancelling a run, the reaper, the server, the process. *)
\* apiSyncRun: the status is read and the worker told; InterruptSyncRunForUser follows
AsksCancel(j, r) ==
    /\ runs[r].status = "running"
    /\ slots[j].kind = "none" /\ j = CHOOSE q \in Slots : slots[q].kind = "none"
    /\ up /\ budget.asks > 0 /\ budget' = [budget EXCEPT !.asks = @ - 1]
    /\ slots' = [q \in Slots |->
                    IF q = j THEN [Free EXCEPT !.kind = "cancel", !.at = "interrupt", !.run = r]
                    ELSE IF slots[q].run = r /\ slots[q].kind \in SyncKinds /\ slots[q].at # "release"
                         THEN [slots[q] EXCEPT !.stop = TRUE] ELSE slots[q]]
    /\ UNCHANGED <<folders, account, runs, held, deleting, refresh, remote, up>>
CancelMarks(j) ==
    /\ slots[j].at = "interrupt"
    /\ runs' = Interrupted(runs, {slots[j].run})
    /\ Becoming(j, Free)
    /\ UNCHANGED <<folders, account, held, deleting, refresh, remote, up, budget>>
\* fifteen minutes pass without progress
RunAges(r) ==
    /\ runs[r].status = "running" /\ ~runs[r].stale
    /\ runs' = [runs EXCEPT ![r].stale = TRUE]
    /\ UNCHANGED <<folders, account, slots, held, deleting, refresh, remote, up, budget>>
\* reconcileStaleSyncRuns
Reap ==
    /\ up /\ Reapable # {}
    /\ runs' = Interrupted(runs, Reapable)
    /\ UNCHANGED <<folders, account, slots, held, deleting, refresh, remote, up, budget>>
\* the server renumbers a folder
Renumber(n) ==
    /\ remote[n] # 0 /\ budget.turns > 0 /\ budget' = [budget EXCEPT !.turns = @ - 1]
    /\ remote' = [remote EXCEPT ![n] = @ + 1]
    /\ UNCHANGED <<folders, account, runs, slots, held, deleting, refresh, up>>
\* shutdownServingApp: the runs are marked while the jobs still end
ShutsDown ==
    /\ up /\ Faulty /\ up' = FALSE
    /\ runs' = Interrupted(runs, RunIds)
    /\ slots' = [j \in Slots |-> [slots[j] EXCEPT !.stop = slots[j].kind # "none"]]
    /\ UNCHANGED <<folders, account, held, deleting, refresh, remote>>
\* the process ends, after a shutdown or in a crash, and startApp marks what still runs;
\* an error of that statement is only logged
Restarts ==
    /\ IF up THEN Faulty ELSE UNCHANGED budget
    /\ up' = TRUE /\ slots' = [j \in Slots |-> Free] /\ held' = {} /\ deleting' = FALSE
    /\ refresh' = [running |-> FALSE, blocked |-> FALSE]
    /\ runs' \in {runs, Interrupted(runs, RunIds)}
    /\ UNCHANGED <<folders, account, remote>>

FolderRequest ==
    \/ \E j \in Slots : RefreshStarts(j) \/ AutoSyncStarts(j) \/ AsksDeletion(j)
    \/ \E j \in Slots, n \in Names : CreateFolder(j, n) \/ SyncStarts(j, n) \/ RecoveryStarts(j, n) \/ MaintenanceStarts(j, n)
    \/ \E j \in Slots, n \in Names, want \in Wanted : AsksSettings(j, n, want)
    \/ \E j \in Slots, r \in RunIds : AsksCancel(j, r)
    \/ \E n \in Names, mode \in {"auto", "never"} : SetMode(n, mode)
FolderStep(j) ==
    \/ MakeFolder(j) \/ ListRemote(j) \/ RowStep(j) \/ RowsDone(j) \/ Probe(j) \/ Record(j)
    \/ NextFolder(j) \/ OpenRun(j) \/ SelectFolder(j) \/ PlanStatus(j) \/ ResetStep(j) \/ CountStep(j) \/ FetchStep(j)
    \/ UpdateStep(j) \/ MarkDeleting(j) \/ Reserve(j) \/ ProgressFails(j) \/ SetupStep(j) \/ BodyStep(j) \/ DropAccount(j)
    \/ StepFails(j) \/ FinishRun(j) \/ Release(j) \/ CancelMarks(j)
FoldersNext ==
    \/ FolderRequest \/ BackoffEnds \/ Reap \/ ShutsDown \/ Restarts
    \/ \E j \in Slots : FolderStep(j)
    \/ \E r \in RunIds : RunAges(r)
    \/ \E n \in Names : Renumber(n)
FoldersSpec ==
    /\ FoldersInit /\ [][FoldersNext]_folderVars
    /\ WF_folderVars(Reap) /\ WF_folderVars(~up /\ Restarts)
    /\ \A j \in Slots : WF_folderVars(FolderStep(j))
    /\ \A r \in RunIds : WF_folderVars(RunAges(r))

---------------------------------------------------------------------------
(* Properties. *)
\* No two folders of the account have the same role, whoever created or configured
\* them: GetMailboxByRoleForAccount is read as a direct lookup of Sent, Trash or Junk.
OneFolderPerRole ==
    \A m, n \in Local : folders[m].role = folders[n].role /\ folders[m].role # "" => m = n
\* The messages a folder holds are of the generation of its row, although status
\* refreshes write rows beside the syncs: the uid of a stored message means the
\* message of the server the row is about.
RowOfItsGeneration == \A n \in Local : folders[n].stored # 0 => folders[n].stored = folders[n].validity
\* A reserved folder belongs to a job that will release it, whichever of the early
\* returns of the maintenance it takes; else no sync could ever run on it.
HeldHasOwner == held \subseteq UNION {slots[j].holds : j \in Slots}
\* The account is marked as being deleted only while a request or a deletion that
\* clears the mark is under way: a marked account is hidden from its user.
MarkHasOwner == deleting => \E j \in Slots : slots[j].kind = "delete" /\ slots[j].at \notin {"mark", "finish", "release"}
\* What the folders of an account keep to at all times: roles and generations name one
\* folder, and every reservation and mark has somebody who will clear it.
FoldersSafe == OneFolderPerRole /\ RowOfItsGeneration /\ HeldHasOwner /\ MarkHasOwner
\* A run that was interrupted, by its user, the reaper or a shutdown, keeps that
\* outcome although its worker still ends and reports.
InterruptedStays ==
    [][\A r \in RunIds : runs[r].status = "interrupted" => runs'[r].status \in {"interrupted", "gone"}]_folderVars
\* Every run ends, also one whose worker died before its first step or was lost in a crash.
RunsEnd == \A r \in RunIds : runs[r].status = "running" ~> runs[r].status # "running"
====
