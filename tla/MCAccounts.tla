---- MODULE MCAccounts ----
(* Users, the folders of an account, the watcher of its Inbox, the process and its
   plugins, in one run: each initial state belongs to one of the components and the
   others stand still. *)
EXTENDS Users, Folders, Watch, Daemon, PluginHost
VARIABLE part
accountsVars == <<part, userVars, folderVars, watchVars, daemonVars, hostVars>>

\* The first menu is the one of the parts that stand still.
MCMenus == {{"setup", "open"}, {"setup", "signin"}, {"password", "plugin", "ends"},
            {"delete", "create", "open", "plugin", "restart"}, {"profile", "reset", "ends"},
            {"profile", "reset", "open", "restart"}}

\* A folder below the Inbox that the server offers for Sent.
MCParents == [n \in Names |-> IF n = "INBOX/Old" THEN <<"INBOX">> ELSE <<>>]
MCNamed == [n \in Names |-> IF n = "INBOX" THEN "inbox" ELSE ""]
MCSpecial == [n \in Names |-> IF n = "INBOX/Old" THEN "sent" ELSE ""]
MCWanted == {[mode |-> "inherit", role |-> "inbox", search |-> TRUE], [mode |-> "auto", role |-> "", search |-> TRUE],
             [mode |-> "never", role |-> "sent", search |-> FALSE]}
MCBudgets == {[asks |-> 2, faults |-> 1, turns |-> 0], [asks |-> 1, faults |-> 2, turns |-> 1]}

Init ==
    /\ part \in {"users", "folders", "watch", "daemon", "host"}
    /\ UsersInit /\ FoldersInit /\ WatchInit /\ DaemonInit /\ HostInit
    /\ part # "users" => menu = {"setup", "open"}
    /\ part # "folders" => budget.turns = 0
Next ==
    \/ part = "users" /\ UsersNext /\ UNCHANGED <<part, folderVars, watchVars, daemonVars, hostVars>>
    \/ part = "folders" /\ FoldersNext /\ UNCHANGED <<part, userVars, watchVars, daemonVars, hostVars>>
    \/ part = "watch" /\ WatchNext /\ UNCHANGED <<part, userVars, folderVars, daemonVars, hostVars>>
    \/ part = "daemon" /\ DaemonNext /\ UNCHANGED <<part, userVars, folderVars, watchVars, hostVars>>
    \/ part = "host" /\ HostNext /\ UNCHANGED <<part, userVars, folderVars, watchVars, daemonVars>>

\* The fairness of each component, when that component runs.
Fairness ==
    /\ WF_userVars(part = "users" /\ Clock)
    /\ WF_folderVars(part = "folders" /\ Reap) /\ WF_folderVars(part = "folders" /\ ~up /\ Restarts)
    /\ \A j \in Slots : WF_folderVars(part = "folders" /\ FolderStep(j))
    /\ \A r \in RunIds : WF_folderVars(part = "folders" /\ RunAges(r))
    /\ WF_watchVars(part = "watch" /\ StartMissing) /\ WF_watchVars(part = "watch" /\ SyncFetches)
    /\ WF_watchVars(part = "watch" /\ ScheduledSync) /\ WF_watchVars(part = "watch" /\ PassReaches)
    /\ \A w \in Watchers : WF_watchVars(part = "watch" /\ WatcherStep(w))
    /\ \A p \in Procs : WF_daemonVars(part = "daemon" /\ LeaveStep(p))
    /\ \A r \in Requests : SF_hostVars(part = "host" /\ HostStep(r))
    /\ \A p \in Plugins : SF_hostVars(part = "host" /\ HookOf(p))
Spec == Init /\ [][Next]_accountsVars /\ Fairness

\* What goes on as long as the process runs: lockouts and runs end, mail is mirrored, a
\* stalled process ends, and a disabled plugin stops.
AccountsProgress == LockoutEnds /\ RunsEnd /\ MailIsMirrored /\ StallEnds /\ DisabledStops
====
