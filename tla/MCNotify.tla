---- MODULE MCNotify ----
(* Reminders, web push and Inbox arrivals for TLC: one run in which the initial
   state chooses the component that takes steps, so that their state spaces add
   up. *)
EXTENDS WebPush, Reminders, Arrivals

VARIABLE part
notifyVars == <<part, pushVars, remVars, arrVars>>

NotifyInit ==
    /\ part \in {"push", "reminders", "arrivals"}
    /\ PushInit /\ RemindersInit /\ ArrivalsInit
    /\ kind[1] = "moved"
    /\ part # "arrivals" => gate /\ \A a \in Arrived : kind[a] = "moved"
NotifyNext ==
    \/ part = "push" /\ PushNext /\ UNCHANGED <<part, remVars, arrVars>>
    \/ part = "reminders" /\ RemindersNext /\ UNCHANGED <<part, pushVars, arrVars>>
    \/ part = "arrivals" /\ ArrivalsNext /\ UNCHANGED <<part, pushVars, remVars>>
\* The fairness of RemindersSpec, when that component runs.
NotifyFairness ==
    /\ WF_remVars(part = "reminders" /\ Tick)
    /\ WF_remVars(part = "reminders" /\ NotifySnoozeStateChanged)
    /\ WF_remVars(part = "reminders" /\ SchedulerStep)
NotifySpec == NotifyInit /\ [][NotifyNext]_notifyVars /\ NotifyFairness

\* What steps and behaviours of the three keep to: a browser loses its row only for keys
\* that were refused, reminders and passes start one at a time, and every reminder is due.
NotifyPromises == RemovedWereRejected /\ FreshEventPerReminder /\ OnePassAtATime /\ RemindedEventually
====
