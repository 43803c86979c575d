--------------------------- MODULE MCNatsRPCServer ---------------------------
(* Instances of the RPC server. *)
EXTENDS NatsRPCServerPool

CONSTANTS ask, tell, put, get, lame, garbage, player

\* Nobody has a share ID; all requests but `lame' have the same one.
NobodyShares == [r \in Reqs |-> NoShare]
PlayerShares == [r \in Reqs |-> IF r = lame THEN NoShare ELSE player]
=============================================================================
