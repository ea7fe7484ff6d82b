-------------------------- MODULE MCSearchRecovery --------------------------
(***************************************************************************)
(* TLC instances of SearchRecovery: two messages, so that a batch can hold *)
(* one of them and leave the other pending.                                *)
(***************************************************************************)
EXTENDS SearchRecovery

CONSTANTS m1, m2

TwoMessages == {m1, m2}

=============================================================================
