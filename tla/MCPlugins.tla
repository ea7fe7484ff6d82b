---- MODULE MCPlugins ----
(* The spam filter on a small mailbox and a routine of the remote sync, one of
   the two in a behaviour.  A behaviour of the filter has its share of the
   bounds: a new message and no job, two jobs, or some of both. *)
EXTENDS SpamFilter, RemoteSync
VARIABLE part   \* the plugin that acts
\* The first text has a second fingerprint, from its preview; tokens are shared.
MCPrints == (1 :> {1, 3}) @@ (2 :> {2})
MCTokens == (1 :> <<1, 2>>) @@ (2 :> <<2, 3>>) @@ (3 :> <<3>>)
MCCollections == {(1 :> "spam") @@ (2 :> "ham"), (1 :> "ham") @@ (3 :> "spam")}
\* The mailbox when the plugin is enabled; then the rows, jobs and deeds that are behind.
Mailbox == <<[text |-> 1, junk |-> TRUE], [text |-> 2, junk |-> FALSE], [text |-> 1, junk |-> FALSE]>>
Shares == {<<MaxIds, MaxJobs + 1, 0>>, <<MaxIds + 1, MaxJobs - 1, 1>>, <<MaxIds, MaxJobs, 1>>}
Init ==
    /\ part \in {"spam", "remote"}
    /\ EmptyFilter /\ rows = IF part = "spam" THEN Mailbox ELSE <<>>
    /\ \E share \in (IF part = "spam" THEN Shares ELSE {<<1, 1, 0>>}) : nextId = share[1] /\ nextJob = share[2] /\ deeds = share[3]
    /\ RemoteInit
vars == <<part, spamVars, remoteVars>>
SpamPart == part = "spam" /\ SpamNext /\ UNCHANGED <<part, remoteVars>>
RemotePart == part = "remote" /\ RemoteNext /\ UNCHANGED <<part, spamVars>>
Spec ==
    /\ Init /\ [][SpamPart \/ RemotePart]_vars
    /\ WF_vars(part = "remote" /\ WorkerStep /\ UNCHANGED <<part, spamVars>>)
    /\ WF_vars(part = "remote" /\ ManagerStep /\ UNCHANGED <<part, spamVars>>)
    /\ WF_vars(part = "remote" /\ RecoveryStep /\ UNCHANGED <<part, spamVars>>)

\* What steps and behaviours of the plugins keep to: a snapshot spares explicit labels, an
\* APPEND is of the current settings, and a recovery gets through.
PluginPromises == SnapshotSparesExplicit /\ AppendsAsConfigured /\ RecoveryProceeds
====
