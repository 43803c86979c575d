------------------------ MODULE MCPropagatedContext -------------------------
(* Instances of the propagated context: `login' and `save' are made with one context
   of the application, `audit' in the handler of `login'. *)
EXTENDS PropagatedContext

CONSTANTS login, save, audit, player

MCMapOf == [c \in Calls |-> IF c = audit THEN login ELSE player]
MCReqTimeout == [c \in Calls |-> IF c \in {login, save} THEN 3 ELSE 4]
MCSkew == [c \in Calls |-> IF c = audit THEN -1 ELSE 0]

ASSUME ClockAssumption == ClocksAgree
=============================================================================
