--------------------------- MODULE MCSearchWrites ---------------------------
(* Instances of SearchWrites: write operations, their users and their sizes. *)
EXTENDS SearchWrites

CONSTANTS w1, w2, w3

MCWriters == {w1, w2, w3}
\* Two users, one with two operations at a time.
TwoUsers == w1 :> 1 @@ w2 :> 1 @@ w3 :> 2
ThreeUsers == w1 :> 1 @@ w2 :> 2 @@ w3 :> 3

Req(p, b, i) == [priority |-> p, bytes |-> b, indexing |-> i]

\* An indexing chunk with its reservation, or a small delete.
MixedRequests == [w \in MCWriters |-> {Req(1, 2, TRUE), Req(2, 1, FALSE)}]
\* A large background batch against small foreground deletes.
UnequalRequests == [w \in MCWriters |-> {IF w = w1 THEN Req(0, 3, FALSE) ELSE Req(2, 1, FALSE)}]
=============================================================================
