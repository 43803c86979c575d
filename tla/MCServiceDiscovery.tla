------------------------- MODULE MCServiceDiscovery -------------------------
(* Instances of ServiceDiscovery for TLC.  The own server and `gate' share a
   blacklisted type: the own server must be seen, `gate' must not. *)
EXTENDS ServiceDiscovery

CONSTANTS self, game, gate

MCTypeOf == [s \in ServerIDs |-> IF s = game THEN "game" ELSE "gate"]
MCBlacklist == {"gate"}
=============================================================================
