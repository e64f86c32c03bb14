------------------------------- MODULE Clock -------------------------------
(***************************************************************************)
(* The time the server and the database read: datetime.now(UTC),           *)
(* CURRENT_TIMESTAMP and time.monotonic(), in one unit.  A handler that has *)
(* read the clock goes on within Stall units.                              *)
(***************************************************************************)
EXTENDS Naturals, FiniteSets, FiniteSetsExt

CONSTANTS
  Threads,  \* request threads
  Epoch,    \* the time at which a behaviour begins
  Horizon,  \* bound on the time
  Stall     \* how long a handler may take between two steps

ASSUME ClockAssumption == Epoch \in Nat /\ Horizon \in Nat /\ Stall \in Nat

VARIABLE now

ClockInit == now = Epoch
Advance == now < Horizon /\ now' = now + 1
=============================================================================
