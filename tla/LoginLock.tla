----------------------------- MODULE LoginLock -----------------------------
(***************************************************************************)
(* The lock on a pair of user name and address: the row of login_attempts. *)
(* A login first tests the lock, then verifies the password, which takes   *)
(* long, and only then counts a failure; logins run at once, and the count *)
(* outlives the lock.                                                      *)
(***************************************************************************)
EXTENDS Clock

CONSTANTS
  MaxAttempts,  \* login_max_attempts
  Lockout,      \* login_lockout_seconds
  KeepFor       \* LOGIN_ATTEMPT_RETENTION_SECONDS

ASSUME LockAssumption ==
  MaxAttempts \in Nat \ {0} /\ Lockout \in Nat \ {0} /\ KeepFor \in Nat
  /\ IsFiniteSet(Threads)

VARIABLES
  failed,   \* failed_count; 0: no row
  until,    \* locked_until; 0: NULL
  updated,  \* updated_at
  guess,    \* threads past the test of the lock
  since,    \* when they passed
  locks,    \* history: locks since the row was made
  late      \* history: who has guessed since the present lock began

lockVars == <<failed, until, updated, guess, since, locks, late>>

LockTypeOK ==
  /\ failed \in Nat /\ until \in Nat /\ updated \in Nat /\ locks \in Nat
  /\ guess \subseteq Threads /\ late \subseteq Threads
  /\ since \in [Threads -> Nat]
  /\ until > 0 => failed >= MaxAttempts

LockInit ==
  /\ failed = 0 /\ until = 0 /\ updated = 0 /\ locks = 0
  /\ guess = {} /\ late = {} /\ since = [w \in Threads |-> 0]

-----------------------------------------------------------------------------
Locked == until > now

\* Mutant: the lock is not tested before the password.
EnterAnyway(w) ==
  /\ w \notin guess
  /\ guess' = guess \cup {w}
  /\ since' = [since EXCEPT ![w] = now]
  /\ UNCHANGED <<now, failed, until, updated, locks, late>>

\* login_lock_remaining is 0; a login that finds the lock is refused and changes nothing.
Enter(w) ==
  /\ w \notin guess /\ ~Locked
  /\ guess' = guess \cup {w}
  /\ since' = [since EXCEPT ![w] = now]
  /\ UNCHANGED <<now, failed, until, updated, locks, late>>

\* register_login_failure
Wrong(w) ==
  /\ w \in guess
  /\ guess' = guess \ {w}
  /\ failed' = failed + 1 /\ updated' = now
  /\ until' = IF failed + 1 >= MaxAttempts THEN now + Lockout ELSE until
  /\ locks' = IF failed + 1 >= MaxAttempts /\ ~Locked THEN locks + 1 ELSE locks
  /\ late' = IF failed + 1 < MaxAttempts THEN {}
             ELSE IF Locked THEN late \cup {w} ELSE {w}
  /\ since' = [since EXCEPT ![w] = 0]
  /\ UNCHANGED now

\* Mutant: only the count is reset.
NoCount == failed' = 0 /\ updated' = 0 /\ locks' = 0 /\ late' = {} /\ UNCHANGED until

NoRow == failed' = 0 /\ until' = 0 /\ updated' = 0 /\ locks' = 0 /\ late' = {}

\* The password is right: clear_login_failures, also while others are locked out.
Right(w) ==
  /\ w \in guess
  /\ guess' = guess \ {w}
  /\ NoRow
  /\ since' = [since EXCEPT ![w] = 0]
  /\ UNCHANGED now

\* The password is right, the account disabled: the count stays.
RightDisabled(w) ==
  /\ w \in guess
  /\ guess' = guess \ {w}
  /\ since' = [since EXCEPT ![w] = 0]
  /\ UNCHANGED <<now, failed, until, updated, locks, late>>

\* purge_login_attempts
PurgeAttempts ==
  /\ failed > 0 /\ ~Locked /\ updated + KeepFor < now
  /\ NoRow
  /\ UNCHANGED <<now, guess, since>>

LockNext ==
  \/ \E w \in Threads : Enter(w) \/ Wrong(w) \/ Right(w) \/ RightDisabled(w)
  \/ PurgeAttempts

LockTick ==
  /\ \A w \in guess : now < since[w] + Stall
  /\ UNCHANGED lockVars

LockSpec ==
  ClockInit /\ LockInit /\ [][LockNext \/ (Advance /\ LockTick)]_<<now, lockVars>>

-----------------------------------------------------------------------------
\* Logins at once may all have passed the test before the lock: a lock costs at most one
\* guess of each of them, and what was tried without one is less than the limit.
GuessesBounded == failed <= (MaxAttempts - 1) + Cardinality(Threads) * locks
=============================================================================
