--------------------------- MODULE MCEventStream ---------------------------
(* Instances of EventStream for TLC. *)
EXTENDS EventStream, TLC

CONSTANTS w1, w2, c1, g1, g2

MCOrgOf == [c \in Clients |-> g1]
\* The second event concerns only the other organization.
MCParticipants == [e \in Events |-> IF e = 2 THEN {g2} ELSE {g1, g2}]
MCWorkers == Permutations({w1, w2})
=============================================================================
