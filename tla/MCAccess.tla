------------------------------- MODULE MCAccess -------------------------------
(* Instances of Access for TLC. *)
EXTENDS Access, TLC

CONSTANTS admin, alice

Key(owner, scopes, active) == [owner |-> owner, scopes |-> scopes, isActive |-> active]

\* A key that gains and loses a scope, is deactivated and reactivated.
AliceByHand ==
  {Key(alice, {"polling:read"}, TRUE), Key(alice, {"polling:read", "polling:write"}, TRUE),
   Key(alice, {"polling:read", "polling:write"}, FALSE), Key(admin, {"admin"}, TRUE),
   Key(admin, {"admin"}, FALSE)}

\* Processes are interchangeable.
Symmetry == Permutations(Processes)
===============================================================================
