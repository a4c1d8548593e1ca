----------------------------- MODULE SeatLimits -----------------------------
(* The users, the limit and the administrators' requests of ModuleSeats. *)
EXTENDS Naturals, FiniteSets

CONSTANTS Users, Limit, Admins   \* Admins: requests of administrators

ASSUME SeatAssumption == Limit \in Nat /\ IsFiniteSet(Users)

\* The test of a new seat against the seats in use.
HasRoom(n) == n < Limit
=============================================================================
