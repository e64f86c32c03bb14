----------------------------- MODULE FrontDoor -----------------------------
(***************************************************************************)
(* What a request meets before a handler runs: the rate limit, the session *)
(* it brings or the lock on its login, and the health check that passes    *)
(* them by.  These parts share nothing but the clock and the threads, so   *)
(* each behaviour has the traffic of one of them; the others rest.         *)
(***************************************************************************)
EXTENDS SessionTime, LoginLock, RateLimiter, HealthCache

VARIABLE traffic

vars == <<now, traffic, sessionVars, lockVars, rateVars, healthVars>>

TypeOK == SessionTypeOK /\ LockTypeOK /\ RateTypeOK /\ HealthTypeOK

Init ==
  /\ ClockInit /\ LockInit
  /\ traffic \in {"sessions", "logins", "requests", "checks"}
  /\ SessionInit /\ (traffic # "sessions" => of = [w \in Threads |-> CHOOSE s \in Sessions : TRUE] /\ legacy = {})
  /\ RateInit
  /\ HealthInit

Tick == Advance /\ SessionTick /\ LockTick /\ RateTick /\ HealthTick /\ UNCHANGED traffic

Next ==
  \/ traffic = "sessions" /\ SessionNext /\ UNCHANGED <<traffic, lockVars, rateVars, healthVars>>
  \/ traffic = "logins" /\ LockNext /\ UNCHANGED <<traffic, sessionVars, rateVars, healthVars>>
  \/ traffic = "requests" /\ RateNext /\ UNCHANGED <<traffic, sessionVars, lockVars, healthVars>>
  \/ traffic = "checks" /\ HealthNext /\ UNCHANGED <<traffic, sessionVars, lockVars, rateVars>>
  \/ Tick

Spec == Init /\ [][Next]_vars
=============================================================================
