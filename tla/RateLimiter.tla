---------------------------- MODULE RateLimiter ----------------------------
(***************************************************************************)
(* RateLimiter.hit: a fixed window per key.  The clock is read before the  *)
(* lock is taken: threads enter in an order that need not be that of their *)
(* times.  The limiter of addresses runs on the event loop, one hit at a   *)
(* time; that of accounts runs in the threads of the handlers.             *)
(***************************************************************************)
EXTENDS Clock

CONSTANTS
  Keys,    \* addresses or accounts
  Window,  \* WINDOW_SECONDS
  Limit,
  Surplus  \* bound on the requests refused in a window

ASSUME RateAssumption == Window \in Nat \ {0} /\ Limit \in Nat \ {0} /\ Surplus \in Nat
  /\ IsFiniteSet(Threads)

VARIABLES
  counted,  \* keys with a window
  started,  \* started_at
  count,
  waiting,  \* threads that have read the clock and wait for the lock
  read,     \* what they read
  key,      \* the key they hit
  passed    \* history: the requests let through in the last Window units, each with the
            \* number of windows opened after its own and its place in its own

rateVars == <<counted, started, count, waiting, read, key, passed>>

RateTypeOK ==
  /\ counted \subseteq Keys
  /\ started \in [Keys -> Nat] /\ count \in [Keys -> Nat]
  /\ waiting \subseteq Threads
  /\ read \in [Threads -> Nat] /\ key \in [Threads -> Keys]
  /\ passed \in [Keys -> SUBSET [age : Nat, place : Nat, time : Nat]]

RateInit ==
  /\ counted = {} /\ waiting = {}
  /\ started = [k \in Keys |-> 0] /\ count = [k \in Keys |-> 0]
  /\ read = [w \in Threads |-> 0] /\ key \in [Threads -> Keys]
  /\ passed = [k \in Keys |-> {}]

-----------------------------------------------------------------------------
Expired(k, t) == t >= started[k] + Window

ReadClock(w, k) ==
  /\ w \notin waiting
  /\ k \in counted /\ ~Expired(k, now) => count[k] < Limit + Surplus
  /\ waiting' = waiting \cup {w}
  /\ read' = [read EXCEPT ![w] = now] /\ key' = [key EXCEPT ![w] = k]
  /\ UNCHANGED <<now, counted, started, count, passed>>

Leave(w) ==
  /\ waiting' = waiting \ {w}
  /\ read' = [read EXCEPT ![w] = 0] /\ UNCHANGED key

Pass(n) == [age |-> 0, place |-> n, time |-> now]
Older(p) == [p EXCEPT !.age = @ + 1]

\* No window, or one that is over: expired ones of all keys go, and a new one begins at
\* the time the thread has read.
OpenWindow(w) ==
  LET k == key[w] IN
  /\ w \in waiting
  /\ k \in counted => Expired(k, read[w])
  /\ counted' = {c \in counted : ~Expired(c, read[w])} \cup {k}
  /\ started' = [started EXCEPT ![k] = read[w]]
  /\ count' = [count EXCEPT ![k] = 1]
  /\ Leave(w)
  /\ passed' = [passed EXCEPT ![k] = {Older(p) : p \in @} \cup {Pass(1)}]
  /\ UNCHANGED now

\* Mutant: the request that reaches the limit plus one passes, too.
CountOneMore(w) ==
  LET k == key[w] IN
  /\ w \in waiting
  /\ k \in counted /\ ~Expired(k, read[w])
  /\ count' = [count EXCEPT ![k] = @ + 1]
  /\ Leave(w)
  /\ passed' = IF count[k] <= Limit THEN [passed EXCEPT ![k] = @ \cup {Pass(count[k] + 1)}] ELSE passed
  /\ UNCHANGED <<now, counted, started>>

Count(w) ==
  LET k == key[w] IN
  /\ w \in waiting
  /\ k \in counted /\ ~Expired(k, read[w])
  /\ count' = [count EXCEPT ![k] = @ + 1]
  /\ Leave(w)
  /\ passed' = IF count[k] + 1 <= Limit THEN [passed EXCEPT ![k] = @ \cup {Pass(count[k] + 1)}] ELSE passed
  /\ UNCHANGED <<now, counted, started>>

RateNext ==
  \E w \in Threads : (\E k \in Keys : ReadClock(w, k)) \/ OpenWindow(w) \/ Count(w)

RateTick ==
  /\ \A w \in waiting : now < read[w] + Stall
  /\ passed' = [k \in Keys |-> {p \in passed[k] : p.time + Window > now + 1}]
  /\ UNCHANGED <<counted, started, count, waiting, read, key>>

RateSpec ==
  ClockInit /\ RateInit /\ [][RateNext \/ (Advance /\ RateTick)]_<<now, rateVars>>

-----------------------------------------------------------------------------
\* A window begins at the time its thread has read, up to Stall ago and, if the request of
\* another key has removed the one before, even inside that one.  So twice the limit may
\* pass in a window's length less Stall, and three times in all of it, but not more.
SpanBounded == \A k \in Keys :
  /\ Cardinality({p \in passed[k] : p.time + Window > now + Stall}) <= 2 * Limit
  /\ 2 * Stall <= Window => Cardinality(passed[k]) <= 3 * Limit
=============================================================================
