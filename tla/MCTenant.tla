---- MODULE MCTenant ----
(* What a user owns in the store, in one run: mail that is moved or copied, the files
   of its messages, the folders of its accounts, and the contacts with the sender identities
   made from them.  Each initial state belongs to one of the components and the others
   stand still. *)
EXTENDS Transfers, Blobs, Folders, Identities, TLC
VARIABLE part
tenantVars == <<part, vars, blobVars, folderVars, identVars>>

\* Everything that disturbs a transfer.
Everybody == {"fault", "cancel", "crash", "generation", "client", "rewrite"}

\* A folder below the Inbox that the server offers for Sent.
MCParents == [n \in Names |-> IF n = "INBOX/Old" THEN <<"INBOX">> ELSE <<>>]
MCNamed == [n \in Names |-> IF n = "INBOX" THEN "inbox" ELSE ""]
MCSpecial == [n \in Names |-> IF n = "INBOX/Old" THEN "sent" ELSE ""]
MCWanted == {[mode |-> "inherit", role |-> "inbox", search |-> TRUE], [mode |-> "auto", role |-> "", search |-> TRUE],
             [mode |-> "never", role |-> "sent", search |-> FALSE]}
MCBudgets == {[asks |-> 2, faults |-> 1, turns |-> 1], [asks |-> 2, faults |-> 2, turns |-> 0]}

MCHome == ("a" :> 1) @@ ("b" :> 2)
\* Somebody else, and a primary Me contact with two addresses.
Card(me, primary, emails) == [id |-> 0, me |-> me, primary |-> primary, emails |-> emails]
MCCards == {Card(FALSE, FALSE, <<[addr |-> "a", primary |-> TRUE]>>),
            Card(TRUE, TRUE, <<[addr |-> "a", primary |-> FALSE], [addr |-> "b", primary |-> TRUE]>>)}
MCWishes == {[relay |-> 1, server |-> 2, primary |-> TRUE]}

TenantInit ==
    /\ part \in {"transfers", "blobs", "folders", "identities"}
    /\ Init /\ BlobsInit /\ FoldersInit /\ IdentInit
    /\ part # "folders" => budget.turns = 0
    /\ IF part = "identities" THEN Cardinality(DOMAIN book) = 2 ELSE Cardinality(DOMAIN book) = 1
TenantNext ==
    \/ part = "transfers" /\ Next /\ UNCHANGED <<part, blobVars, folderVars, identVars>>
    \/ part = "blobs" /\ BlobsNext /\ UNCHANGED <<part, vars, folderVars, identVars>>
    \/ part = "folders" /\ FoldersNext /\ UNCHANGED <<part, vars, blobVars, identVars>>
    \/ part = "identities" /\ IdentNext /\ UNCHANGED <<part, vars, blobVars, folderVars>>
TenantSpec == TenantInit /\ [][TenantNext]_tenantVars

\* Bound: two disturbances of the first attempt, or one of a later one.
Bounded == \A i \in DOMAIN journal : journal[i].attempt + 2 * faults <= 2 * MaxFaults + 1

Symmetry == Permutations(Callers)

\* What no step of the four does: undo an outcome, delete a file that is shown, revive an
\* interrupted run, or change a choice.
TenantSteps == OutcomeFinal /\ CleanupSparesExposed /\ InterruptedStays /\ LoadKeepsChoices
====
