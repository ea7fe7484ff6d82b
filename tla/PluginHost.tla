---- MODULE PluginHost ----
(* The host of the backend plugins in web/backend_plugins.go: which plugins are
   enabled (store/plugins.go), started and routed to, while requests, hooks,
   admins and the shutdown run side by side.

   Plugins are loaded when the server is built and started by the first request
   or hook that needs them.  backendLifecycleMu serialises starts and stops; whether
   a plugin is enabled is read before the lock is taken.  Start may fail after it
   has registered its routes.  A migration is one transaction. *)
EXTENDS Integers, FiniteSets

CONSTANTS
    Plugins,      \* plugins with a backend
    ByDefault,    \* plugins that are enabled by default
    AutoStart,    \* plugins that are started with the server
    Requests,     \* goroutines: requests, hooks, admins, the shutdown
    Migrations,   \* migrations of every plugin
    MaxFaults     \* bound: failing starts, crashes, admin requests and shutdowns

Nobody == "nobody"

ASSUME PluginHostAssumption ==
    /\ ByDefault \subseteq Plugins /\ AutoStart \subseteq Plugins /\ {Migrations, MaxFaults} \subseteq Nat
    /\ Nobody \notin Requests

VARIABLES
    setting,   \* plugin_settings.enabled: "absent", "on" or "off"
    schema,    \* plugin_migrations: how many are applied
    server,    \* "down", "up", or "closed" once Close has been called
    loaded,    \* plugins whose binary could be loaded
    started,   \* startedBackendPlugins
    instances, \* calls of Start without a call of Stop
    routes,    \* plugins with registered routes
    life,      \* who holds backendLifecycleMu
    req,       \* what each goroutine does, and for which plugin
    faults
hostVars == <<setting, schema, server, loaded, started, instances, routes, life, req, faults>>
disk == <<setting, schema>>
runtime == <<started, instances, routes, life>>

Idle == [kind |-> "none", pc |-> "idle", plugin |-> "none"]
Fault == faults < MaxFaults /\ faults' = faults + 1
Goes(r, pc) == req' = [req EXCEPT ![r].pc = pc]
Ends(r) == req' = [req EXCEPT ![r] = Idle]
At(r, pc) == req[r].pc = pc
Plugin(r) == req[r].plugin

\* pluginEnabled, with the default of a plugin that has no row
Enabled(p) == IF setting[p] = "absent" THEN p \in ByDefault ELSE setting[p] = "on"

---------------------------------------------------------------------------
(* Boot: the migrations of all plugins, the rows, the binaries, the auto starts. *)
Migrates(p) == schema[p] < Migrations
ApplyPluginMigration(p) ==
    /\ server = "down" /\ Migrates(p)
    /\ schema' = [schema EXCEPT ![p] = @ + 1]
    /\ UNCHANGED <<setting, server, loaded, runtime, req, faults>>
\* SyncPluginDefinitions keeps the choice of a row that is there.
SyncPluginDefinitions ==
    [p \in Plugins |-> IF setting[p] # "absent" THEN setting[p] ELSE IF p \in ByDefault THEN "on" ELSE "off"]
NewServer(broken) ==
    /\ server = "down" /\ \A p \in Plugins : ~Migrates(p)
    /\ server' = "up"
    /\ setting' = SyncPluginDefinitions
    /\ loaded' = Plugins \ broken
    /\ UNCHANGED <<schema, runtime, req, faults>>
\* The process is gone; only the rows remain.
HostCrash ==
    /\ Fault
    /\ server' = "down" /\ loaded' = {} /\ started' = {} /\ routes' = {} /\ life' = Nobody
    /\ instances' = [p \in Plugins |-> 0] /\ req' = [r \in Requests |-> Idle]
    /\ UNCHANGED disk

---------------------------------------------------------------------------
(* Goroutines. *)
Arrives(r, kind, p) ==
    /\ server = "up" /\ At(r, "idle")
    /\ req' = [req EXCEPT ![r] = [kind |-> kind, plugin |-> p, pc |-> IF kind \in {"enable", "disable"} THEN "set" ELSE "check"]]
    /\ UNCHANGED <<disk, server, loaded, runtime>>
\* apiBackendPlugin; an auto start is asked for once, here at any time.
RequestArrives(r, p) == Arrives(r, "api", p) /\ UNCHANGED faults
AutoStarts(r, p) == p \in AutoStart /\ Arrives(r, "auto", p) /\ Fault
\* enabledBackendPlugins, for one plugin of its list
HookAsks(r, p) == Arrives(r, "hook", p) /\ UNCHANGED faults
AdminAsks(r, kind, p) == Arrives(r, kind, p) /\ Fault

\* SetPluginEnabled; its migrations are applied already.
SetPluginEnabled(r) ==
    /\ At(r, "set")
    /\ setting' = [setting EXCEPT ![Plugin(r)] = IF req[r].kind = "enable" THEN "on" ELSE "off"]
    /\ Goes(r, IF req[r].kind = "enable" THEN "begin" ELSE "stop")
    /\ UNCHANGED <<schema, server, loaded, runtime, faults>>

\* A goroutine that finds the plugin disabled stops it, whoever started it.
StopsDisabled(r) == req[r].kind # "auto"
CheckEnabled(r) ==
    /\ At(r, "check")
    /\ IF Enabled(Plugin(r)) THEN Goes(r, "begin")
       ELSE IF StopsDisabled(r) THEN Goes(r, "stop")
       ELSE Ends(r)
    /\ UNCHANGED <<disk, server, loaded, runtime, faults>>
\* startBackendPlugin before the lock
BeginStart(r) ==
    /\ At(r, "begin")
    /\ IF server = "closed" THEN Ends(r)
       ELSE Goes(r, IF Enabled(Plugin(r)) THEN "lock" ELSE "stop")
    /\ UNCHANGED <<disk, server, loaded, runtime, faults>>

Continues(r) == IF req[r].kind = "api" THEN Goes(r, "match") ELSE Ends(r)
\* Another goroutine may have started it since, and Close may have run.
AlreadyStarted(r) == Plugin(r) \in started
RefusedUnloaded(r) == Plugin(r) \notin loaded
RefusedLocked(r) == server = "closed" \/ Plugin(r) \notin loaded
LockStart(r) ==
    /\ At(r, "lock") /\ life = Nobody
    /\ IF RefusedLocked(r)
       THEN /\ Ends(r)
            /\ UNCHANGED <<instances, life>>
       ELSE IF AlreadyStarted(r)
       THEN /\ Continues(r)
            /\ UNCHANGED <<instances, life>>
       ELSE /\ life' = r /\ Goes(r, "starting")
            /\ instances' = [instances EXCEPT ![Plugin(r)] = @ + 1]
    /\ UNCHANGED <<disk, server, loaded, started, routes, faults>>
\* Start registers the routes, which requests can match at once.
RegisterRoutes(r) ==
    /\ At(r, "starting")
    /\ routes' = routes \cup {Plugin(r)}
    /\ Goes(r, "registered")
    /\ UNCHANGED <<disk, server, loaded, started, instances, life, faults>>
StartSucceeds(r) ==
    /\ At(r, "registered")
    /\ started' = started \cup {Plugin(r)} /\ life' = Nobody
    /\ Continues(r)
    /\ UNCHANGED <<disk, server, loaded, instances, routes, faults>>
UnregisterPlugin(p) == routes \ {p}
StartFails(r) ==
    /\ At(r, "registered") /\ Fault
    /\ instances' = [instances EXCEPT ![Plugin(r)] = @ - 1]
    /\ routes' = UnregisterPlugin(Plugin(r)) /\ life' = Nobody
    /\ Ends(r)
    /\ UNCHANGED <<disk, server, loaded, started>>

\* stopBackendPlugin: out of the map and Stop, then the routes.
LockStop(r) ==
    /\ At(r, "stop") /\ life = Nobody
    /\ life' = r /\ Goes(r, "stopping")
    /\ started' = started \ {Plugin(r)}
    /\ instances' = [instances EXCEPT ![Plugin(r)] = IF Plugin(r) \in started THEN @ - 1 ELSE @]
    /\ UNCHANGED <<disk, server, loaded, routes, faults>>
StopUnregisters(r) ==
    /\ At(r, "stopping")
    /\ routes' = UnregisterPlugin(Plugin(r)) /\ life' = Nobody
    /\ Ends(r)
    /\ UNCHANGED <<disk, server, loaded, started, instances, faults>>

\* dispatchProtectedAPIPath and dispatchPublicAPIPath
MatchRoute(r) ==
    /\ At(r, "match")
    /\ IF Plugin(r) \in routes THEN Goes(r, "dispatch") ELSE Ends(r)
    /\ UNCHANGED <<disk, server, loaded, runtime, faults>>
Dispatch(r) ==
    /\ At(r, "dispatch")
    /\ Goes(r, IF Enabled(Plugin(r)) THEN "handle" ELSE "stop")
    /\ UNCHANGED <<disk, server, loaded, runtime, faults>>
Handles(r) ==
    /\ At(r, "handle") /\ Ends(r)
    /\ UNCHANGED <<disk, server, loaded, runtime, faults>>

\* Close: nothing starts any more, then every plugin is stopped under the lock.
Close(r) ==
    /\ server = "up" /\ At(r, "idle") /\ life = Nobody /\ Fault
    /\ server' = "closed" /\ life' = r
    /\ req' = [req EXCEPT ![r] = [kind |-> "close", pc |-> "closing", plugin |-> "none"]]
    /\ UNCHANGED <<disk, loaded, started, instances, routes>>
CloseStops(r, p) ==
    /\ At(r, "closing") /\ p \in started
    /\ started' = started \ {p} /\ routes' = UnregisterPlugin(p)
    /\ instances' = [instances EXCEPT ![p] = @ - 1]
    /\ UNCHANGED <<disk, server, loaded, life, req, faults>>
Closed(r) ==
    /\ At(r, "closing") /\ started = {}
    /\ life' = Nobody /\ Ends(r)
    /\ UNCHANGED <<disk, server, loaded, started, instances, routes, faults>>

---------------------------------------------------------------------------
HostInit ==
    /\ setting = [p \in Plugins |-> "absent"] /\ schema = [p \in Plugins |-> 0]
    /\ server = "down" /\ loaded = {} /\ started = {} /\ routes = {} /\ life = Nobody
    /\ instances = [p \in Plugins |-> 0] /\ req = [r \in Requests |-> Idle] /\ faults = 0

HostStep(r) ==
    \/ SetPluginEnabled(r) \/ CheckEnabled(r) \/ BeginStart(r) \/ LockStart(r) \/ RegisterRoutes(r) \/ StartSucceeds(r)
    \/ LockStop(r) \/ StopUnregisters(r) \/ MatchRoute(r) \/ Dispatch(r) \/ Handles(r)
    \/ (\E p \in Plugins : CloseStops(r, p)) \/ Closed(r)
HostNext ==
    \/ \E p \in Plugins : ApplyPluginMigration(p)
    \/ \E broken \in SUBSET Plugins : NewServer(broken)
    \/ HostCrash
    \/ \E r \in Requests : HostStep(r) \/ StartFails(r) \/ Close(r)
    \/ \E r \in Requests, p \in Plugins : RequestArrives(r, p) \/ AutoStarts(r, p) \/ HookAsks(r, p)
                                          \/ \E kind \in {"enable", "disable"} : AdminAsks(r, kind, p)

\* Goroutines run, the lock starves none, and mail that is listed or stored keeps asking for hooks.
HookOf(p) == \E r \in Requests : HookAsks(r, p)
HostSpec ==
    /\ HostInit /\ [][HostNext]_hostVars
    /\ \A r \in Requests : SF_hostVars(HostStep(r))
    /\ \A p \in Plugins : SF_hostVars(HookOf(p))

---------------------------------------------------------------------------
(* A plugin runs once: Start is not called on a plugin that runs, however many
   requests, hooks and auto starts find it missing at the same time
   (backend_plugins.go:286). *)
OneInstance == \A p \in Plugins : instances[p] \in 0..1

(* Routes belong to a plugin that runs, or to one that is being started or stopped
   right now: after a failed Start nothing of it can be reached
   (backend_plugins.go:301). *)
RoutesOwned ==
    \A p \in routes : p \in started \/ (life # Nobody /\ Plugin(life) = p)

(* After Close has returned no plugin runs and none can be started, by no
   goroutine that was under way: the stores are closed next
   (backend_plugins.go:344). *)
ClosedIsQuiet ==
    server = "closed" /\ ~(\E r \in Requests : At(r, "closing")) =>
        started = {} /\ routes = {} /\ \A p \in Plugins : instances[p] = 0

(* A plugin that runs finds its tables: all its migrations are applied, whatever
   start was interrupted between two of them (store/plugins.go:320). *)
RunsMigrated == \A p \in Plugins : instances[p] > 0 => schema[p] = Migrations

(* What the host keeps to at all times, whichever requests meet. *)
HostSafe == OneInstance /\ RoutesOwned /\ ClosedIsQuiet /\ RunsMigrated

(* A plugin that an admin disabled does not go on running, even when its
   start had read the setting before and got the lock after the disabling
   request: the next hook stops it (backend_plugins.go:453). *)
DisabledStops == \A p \in Plugins : (~Enabled(p) /\ instances[p] > 0) ~> (Enabled(p) \/ instances[p] = 0)
====
