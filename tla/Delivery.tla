------------------------------ MODULE Delivery ------------------------------
(***************************************************************************)
(* What the outbox promises the user about each message, without rows,     *)
(* leases, processes or folders: a message may be handed to the provider   *)
(* once for every permission the user gave, a transmission that may have   *)
(* succeeded is never repeated, and only one that certainly did not may be *)
(* tried again unasked.                                                    *)
(***************************************************************************)
EXTENDS Naturals

CONSTANT Messages

VARIABLES
    phase,    \* where each message stands
    copies,   \* times the provider has taken it
    permits   \* times the user has submitted it or agreed to a possible duplicate

vars == <<phase, copies, permits>>

Phases == {"none",
           "waiting",    \* to be sent, now or later
           "open",       \* a transmission may take place at any moment
           "refused",    \* the transmission is over and certainly nothing was taken
           "closed",     \* the transmission is over and may have succeeded
           "accepted", "failed", "unknown"}

Init ==
    /\ phase = [m \in Messages |-> "none"]
    /\ copies = [m \in Messages |-> 0]
    /\ permits = [m \in Messages |-> 0]

Move(m, from, to) == phase[m] \in from /\ phase' = [phase EXCEPT ![m] = to]
MoveAll(S, from, to) ==
    /\ \A m \in S : phase[m] \in from
    /\ phase' = [m \in Messages |-> IF m \in S THEN to ELSE phase[m]]

\* The user submits the message, or accepts that it may arrive twice.
Permit(m) ==
    /\ Move(m, {"none", "unknown"}, "waiting")
    /\ permits' = [permits EXCEPT ![m] = @ + 1]
    /\ UNCHANGED copies

Begin(m) == Move(m, {"waiting"}, "open") /\ UNCHANGED <<copies, permits>>

\* The only step that can hand the message over.
Transmit(m) ==
    /\ Move(m, {"open"}, "closed")
    /\ copies' = [copies EXCEPT ![m] = @ + 1]
    /\ UNCHANGED permits

Refuse(m) == Move(m, {"open"}, "refused") /\ UNCHANGED <<copies, permits>>

\* Nobody can tell any more what became of the transmission.
Lose(m) == Move(m, {"open", "refused"}, "closed") /\ UNCHANGED <<copies, permits>>

Retry(m) == Move(m, {"refused", "failed"}, "waiting") /\ UNCHANGED <<copies, permits>>

Fail(m) == Move(m, {"refused"}, "failed") /\ UNCHANGED <<copies, permits>>

Confirm(m) == Move(m, {"closed"}, "accepted") /\ UNCHANGED <<copies, permits>>

GiveUp(S) == MoveAll(S, {"closed"}, "unknown") /\ UNCHANGED <<copies, permits>>

\* Messages that are not being transmitted may be canceled or forgotten.
Remove(S) ==
    /\ MoveAll(S, {"waiting", "failed", "unknown", "accepted"}, "none")
    /\ UNCHANGED <<copies, permits>>

Next ==
    \/ \E S \in SUBSET Messages : GiveUp(S) \/ Remove(S)
    \/ \E m \in Messages : \/ Permit(m) \/ Begin(m) \/ Transmit(m) \/ Refuse(m) \/ Lose(m)
                           \/ Retry(m) \/ Fail(m) \/ Confirm(m)

Spec == Init /\ [][Next]_vars

\* Phases from which the message can still be handed over unasked.
Sendable == {"waiting", "open", "refused", "failed"}

\* No copy without a permission, and one permission unused while the message
\* can still be sent.
CopiesPermitted ==
    \A m \in Messages :
        copies[m] + (IF phase[m] \in Sendable THEN 1 ELSE 0) <= permits[m]
=============================================================================
