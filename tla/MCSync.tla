---- MODULE MCSync ----
(* Mailbox synchronisation: the runner that schedules passes, and one mailbox
   with the passes over it.  The initial state chooses which of the two takes
   steps. *)
EXTENDS Runner, MailboxSync

VARIABLE part

Init == part \in {"runner", "mailbox"} /\ RunnerInit /\ MailboxInit
Next ==
    \/ part = "runner" /\ RunnerNext /\ UNCHANGED <<part, mailVars>>
    \/ part = "mailbox" /\ MailboxNext /\ UNCHANGED <<part, runVars>>
Spec == Init /\ [][Next]_<<part, runVars, mailVars>>

\* Bound: what disturbs the one or the other, taken together.
Bounded ==
    /\ asks + resets + troubles <= 3
    /\ (server.gen - 1) + (server.count - Cardinality(UIDs(server))) + 2 * changes + stops <= 3
====
