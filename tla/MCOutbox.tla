------------------------------ MODULE MCOutbox ------------------------------
(***************************************************************************)
(* Instances of Outbox for TLC: who else acts on the Sent folder and on    *)
(* the spool file.                                                         *)
(***************************************************************************)
EXTENDS Outbox

\* Everybody who may disturb filing: the provider's own Sent copy, a server that
\* rewrites what it stores, another client that expunges, a new UIDVALIDITY.
SentFolder == {"provider", "rewrite", "expunge", "generation"}
\* The provider, blob retention and a failing read of the spool file.
SpoolFile == {"provider", "retention", "spoolread"}
=============================================================================
