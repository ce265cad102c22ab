--------------------------- MODULE MCConversations ---------------------------
(* A buyer and a supplier; two requests in flight.                         *)
EXTENDS Conversations, TLC

CONSTANTS b1, s1, c1, c2

Company == (b1 :> "fleet") @@ (s1 :> "plant")
Side == (b1 :> "BUYER") @@ (s1 :> "SUPPLIER")
OneProduct == [s \in Slices |-> "methanol"]

MCClients == Permutations(Clients)
=============================================================================
