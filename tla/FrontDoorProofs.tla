-------------------------- MODULE FrontDoorProofs --------------------------
(***************************************************************************)
(* Proofs about LoginLock, RateLimiter and HealthCache, for any number of  *)
(* threads, keys and any times, and about FrontDoor, in which each part    *)
(* behaves as it does alone.                                               *)
(***************************************************************************)
EXTENDS FrontDoor, SessionTimeProofs, FiniteSetTheorems

(* The lock on a login: a lock costs at most one guess of each login that  *)
(* runs beside the others.                                                 *)

LockOK == now \in Nat /\ LockTypeOK

LEMMA LockOKStep == LockOK /\ [LockNext \/ (Advance /\ LockTick)]_<<now, lockVars>> => LockOK'
<1> SUFFICES ASSUME LockOK, [LockNext \/ (Advance /\ LockTick)]_<<now, lockVars>>
             PROVE  LockOK'
  OBVIOUS
<1> USE LockAssumption, ClockAssumption DEF LockOK, LockTypeOK
<1>1. CASE UNCHANGED <<now, lockVars>>
  BY <1>1 DEF lockVars
<1>2. ASSUME NEW w \in Threads, Enter(w) PROVE LockOK'
  BY <1>2 DEF Enter
<1>3. ASSUME NEW w \in Threads, Wrong(w) PROVE LockOK'
  BY <1>3 DEF Wrong
<1>4. ASSUME NEW w \in Threads, Right(w) PROVE LockOK'
  BY <1>4 DEF Right, NoRow
<1>5. ASSUME NEW w \in Threads, RightDisabled(w) PROVE LockOK'
  BY <1>5 DEF RightDisabled
<1>6. CASE PurgeAttempts
  BY <1>6 DEF PurgeAttempts, NoRow
<1>7. CASE Advance /\ LockTick
  BY <1>7 DEF Advance, LockTick, lockVars
<1>8. QED
  BY <1>1, <1>2, <1>3, <1>4, <1>5, <1>6, <1>7 DEF LockNext

LEMMA LockOKInit == ClockInit /\ LockInit => LockOK
<1> SUFFICES ASSUME ClockInit, LockInit PROVE LockOK
  OBVIOUS
<1>1. since \in [Threads -> Nat]
  BY DEF LockInit
<1>2. QED
  BY <1>1, LockAssumption, ClockAssumption DEF ClockInit, LockInit, LockOK, LockTypeOK

\* Type correctness; a row that is locked has the failures for it.
THEOREM LockTyped == LockSpec => []LockTypeOK
<1>1. LockOK => LockTypeOK
  BY DEF LockOK
<1>2. QED
  BY <1>1, LockOKInit, LockOKStep, PTL DEF LockSpec

-----------------------------------------------------------------------------
\* While the lock holds nobody who has guessed since it began is past its test again.
\* The failures without a lock and those of the locks before this one are counted.
LockInv ==
  /\ Locked => guess \cap late = {}
  /\ locks = 0 => failed < MaxAttempts /\ late = {} /\ until = 0
  /\ locks > 0 =>
       failed <= (MaxAttempts - 1) + Cardinality(Threads) * (locks - 1) + Cardinality(late)

\* The one sum of the proof, with the product as a number of its own.
LEMMA OneMore ==
  ASSUME NEW N \in Nat, NEW l \in Nat, l > 0, NEW n \in Nat, n <= N,
         NEW f \in Nat, NEW m \in Nat, f <= m + N * (l - 1) + n
  PROVE  f <= m + N * l
<1>1. N * (l - 1) = N * l - N
  OBVIOUS
<1>2. N * l \in Nat
  OBVIOUS
<1>3. QED
  BY <1>1, <1>2

LEMMA Product == ASSUME NEW N \in Nat, NEW l \in Nat, l > 0 PROVE N * (l - 1) \in Nat
<1>1. l - 1 \in Nat
  OBVIOUS
<1>2. \A i \in Nat : N * i \in Nat
  OBVIOUS
<1>3. QED
  BY <1>1, <1>2

LEMMA Sizes ==
  ASSUME NEW L \in SUBSET Threads, NEW w \in Threads
  PROVE  /\ Cardinality(Threads) \in Nat /\ Cardinality(L) \in Nat
         /\ Cardinality(L) <= Cardinality(Threads)
         /\ w \notin L => Cardinality(L \cup {w}) = Cardinality(L) + 1
         /\ Cardinality({w}) = 1
<1>1. IsFiniteSet(Threads)
  BY LockAssumption
<1>2. IsFiniteSet(L) /\ Cardinality(L) <= Cardinality(Threads)
  BY <1>1, FS_Subset
<1>3. QED
  BY <1>1, <1>2, FS_CardinalityType, FS_AddElement, FS_Singleton

LEMMA LockInvStep ==
  LockOK /\ LockOK' /\ LockInv /\ [LockNext \/ (Advance /\ LockTick)]_<<now, lockVars>>
  => LockInv'
<1> SUFFICES ASSUME LockOK, LockOK', LockInv,
                    [LockNext \/ (Advance /\ LockTick)]_<<now, lockVars>>
             PROVE  LockInv'
  OBVIOUS
<1> USE LockAssumption, ClockAssumption DEF LockOK, LockTypeOK, Locked
<1>1. CASE UNCHANGED <<now, lockVars>>
  BY <1>1 DEF lockVars, LockInv
<1>2. ASSUME NEW w \in Threads, Enter(w) PROVE LockInv'
  BY <1>2 DEF Enter, LockInv
<1>3. ASSUME NEW w \in Threads, Wrong(w) PROVE LockInv'
  <2> USE <1>3
  <2>1. CASE failed + 1 < MaxAttempts
    <3>1. until' = until /\ locks' = locks /\ late' = {} /\ failed' = failed + 1
      BY <2>1 DEF Wrong
    <3>2. until = 0
      BY <2>1
    <3>3. CASE locks = 0
      BY <3>1, <3>2, <3>3, <2>1 DEF LockInv
    <3>4. CASE locks > 0
      <4>1. Cardinality(late') = 0
        BY <3>1, FS_EmptySet
      <4>2. Cardinality(Threads) * (locks - 1) \in Nat /\ Cardinality(late) \in Nat
        <5>1. Cardinality(Threads) \in Nat /\ locks \in Nat /\ Cardinality(late) \in Nat
          BY Sizes
        <5>2. QED
          BY <5>1, <3>4, Product
      <4>3. QED
        BY <3>1, <3>2, <3>4, <4>1, <4>2, <2>1 DEF LockInv
    <3>5. QED
      BY <3>3, <3>4
  <2>2. CASE failed + 1 >= MaxAttempts /\ Locked
    <3>1. locks' = locks /\ late' = late \cup {w} /\ failed' = failed + 1
          /\ guess' = guess \ {w}
      BY <2>2 DEF Wrong
    <3>2. w \notin late
      BY <2>2 DEF Wrong, LockInv
    <3>3. Cardinality(late') = Cardinality(late) + 1 /\ Cardinality(late) \in Nat
      BY <3>1, <3>2, Sizes
    <3>4. locks > 0
      BY <2>2 DEF LockInv
    <3>5. Cardinality(Threads) * (locks - 1) \in Nat
      <4>1. Cardinality(Threads) \in Nat /\ locks \in Nat
        BY Sizes
      <4>2. QED
        BY <4>1, <3>4, Product
    <3>6. guess' \cap late' = {}
      BY <2>2, <3>1 DEF LockInv
    <3>7. QED
      BY <3>1, <3>3, <3>4, <3>5, <3>6 DEF LockInv
  <2>3. CASE failed + 1 >= MaxAttempts /\ ~Locked
    <3>1. locks' = locks + 1 /\ late' = {w} /\ failed' = failed + 1 /\ guess' = guess \ {w}
      BY <2>3 DEF Wrong
    <3>2. Cardinality(late') = 1
      BY <3>1, Sizes
    <3>3. Cardinality(Threads) * locks \in Nat /\ Cardinality(Threads) * (locks' - 1)
                                                  = Cardinality(Threads) * locks
      <4>1. Cardinality(Threads) \in Nat
        BY FS_CardinalityType
      <4>4. locks \in Nat /\ locks' > 0 /\ locks' \in Nat
        BY <3>1
      <4>2. locks' - 1 = locks
        BY <4>4, <3>1
      <4>3. QED
        BY <4>1, <4>2, <4>4, Product
    <3>4. failed <= (MaxAttempts - 1) + Cardinality(Threads) * locks
      <4>1. CASE locks = 0
        BY <4>1, <3>3 DEF LockInv
      <4>2. CASE locks > 0
        <5>1. /\ Cardinality(Threads) \in Nat /\ Cardinality(late) \in Nat
              /\ Cardinality(late) <= Cardinality(Threads)
          BY Sizes
        <5>2. failed <= (MaxAttempts - 1) + Cardinality(Threads) * (locks - 1) + Cardinality(late)
          BY <4>2 DEF LockInv
        <5>3. MaxAttempts - 1 \in Nat /\ failed \in Nat /\ locks \in Nat
          OBVIOUS
        <5>4. QED
          BY ONLY <4>2, <5>1, <5>2, <5>3, OneMore
      <4>3. QED
        BY <4>1, <4>2
    <3>5. QED
      BY <3>1, <3>2, <3>3, <3>4 DEF LockInv
  <2>4. QED
    BY <2>1, <2>2, <2>3
<1>4. ASSUME NEW w \in Threads, Right(w) PROVE LockInv'
  BY <1>4 DEF Right, NoRow, LockInv
<1>5. ASSUME NEW w \in Threads, RightDisabled(w) PROVE LockInv'
  BY <1>5 DEF RightDisabled, LockInv
<1>6. CASE PurgeAttempts
  BY <1>6 DEF PurgeAttempts, NoRow, LockInv
<1>7. CASE Advance /\ LockTick
  BY <1>7 DEF Advance, LockTick, lockVars, LockInv
<1>8. QED
  BY <1>1, <1>2, <1>3, <1>4, <1>5, <1>6, <1>7 DEF LockNext

\* login with register_login_failure: the guesses at one password are bounded by the
\* locks they led to, however many logins have passed the test of the lock at once.
THEOREM GuessesAreBounded == LockSpec => []GuessesBounded
<1>1. ClockInit /\ LockInit => LockInv
  BY LockAssumption DEF ClockInit, LockInit, LockInv, Locked
<1>2. LockOK /\ LockInv => GuessesBounded
  <2> SUFFICES ASSUME LockOK, LockInv PROVE GuessesBounded
    OBVIOUS
  <2> USE LockAssumption DEF LockOK, LockTypeOK
  <2>1. Cardinality(Threads) \in Nat /\ Cardinality(late) \in Nat
        /\ Cardinality(late) <= Cardinality(Threads)
    BY FS_CardinalityType, FS_Subset
  <2>2. CASE locks = 0
    <3>1. Cardinality(Threads) * locks = 0
      BY <2>1, <2>2
    <3>2. QED
      BY <2>2, <3>1 DEF LockInv, GuessesBounded
  <2>3. CASE locks > 0
    BY <2>1, <2>3, OneMore DEF LockInv, GuessesBounded
  <2>4. QED
    BY <2>2, <2>3
<1>3. QED
  BY <1>1, <1>2, LockOKInit, LockOKStep, LockInvStep, PTL DEF LockSpec

-----------------------------------------------------------------------------
(* The rate limits                                                         *)

RateOK == now \in Nat /\ RateTypeOK

LEMMA RateOKInit == ClockInit /\ RateInit => RateOK
<1> SUFFICES ASSUME ClockInit, RateInit PROVE RateOK
  OBVIOUS
<1>1. passed \in [Keys -> SUBSET [age : Nat, place : Nat, time : Nat]]
  BY DEF RateInit
<1>2. started \in [Keys -> Nat] /\ count \in [Keys -> Nat] /\ read \in [Threads -> Nat]
  BY DEF RateInit
<1>3. QED
  BY <1>1, <1>2, ClockAssumption DEF ClockInit, RateInit, RateOK, RateTypeOK

LEMMA RateOKStep == RateOK /\ [RateNext \/ (Advance /\ RateTick)]_<<now, rateVars>> => RateOK'
<1> SUFFICES ASSUME RateOK, [RateNext \/ (Advance /\ RateTick)]_<<now, rateVars>>
             PROVE  RateOK'
  OBVIOUS
<1> USE RateAssumption, ClockAssumption DEF RateOK, RateTypeOK
<1>1. CASE UNCHANGED <<now, rateVars>>
  BY <1>1 DEF rateVars
<1>2. ASSUME NEW w \in Threads, NEW k \in Keys, ReadClock(w, k) PROVE RateOK'
  BY <1>2 DEF ReadClock
<1>3. ASSUME NEW w \in Threads, OpenWindow(w) PROVE RateOK'
  <2>1. passed' \in [Keys -> SUBSET [age : Nat, place : Nat, time : Nat]]
    <3>1. Pass(1) \in [age : Nat, place : Nat, time : Nat]
      BY DEF Pass
    <3>2. \A p \in [age : Nat, place : Nat, time : Nat] :
            Older(p) \in [age : Nat, place : Nat, time : Nat]
      BY DEF Older
    <3>3. QED
      BY <1>3, <3>1, <3>2 DEF OpenWindow
  <2>2. counted' \subseteq Keys /\ started' \in [Keys -> Nat] /\ count' \in [Keys -> Nat]
    BY <1>3 DEF OpenWindow
  <2>3. QED
    BY <1>3, <2>1, <2>2 DEF OpenWindow, Leave
<1>4. ASSUME NEW w \in Threads, Count(w) PROVE RateOK'
  BY <1>4 DEF Count, Leave, Pass
<1>5. CASE Advance /\ RateTick
  BY <1>5 DEF Advance, RateTick
<1>6. QED
  BY <1>1, <1>2, <1>3, <1>4, <1>5 DEF RateNext

\* What is known of the requests a key has passed: each has a place of its own in its
\* window, and the windows before the present one are as far back as the delay allows.
WindowInv(k) ==
  /\ k \notin counted /\ passed[k] # {} => started[k] + Window <= now
  /\ \A p, q \in passed[k] : p.age = q.age /\ p.place = q.place => p = q
  /\ \A p \in passed[k] :
       /\ p.place \in 1..Limit
       /\ p.time <= now /\ now < p.time + Window
       /\ p.age = 0 => p.place <= count[k]
       /\ p.age >= 1 => p.time <= started[k] + Stall
       /\ p.age >= 2 => /\ p.time + Window <= started[k] + 2 * Stall
                        /\ p.time + Window <= now + Stall
       /\ p.age >= 3 => p.time + 2 * Window <= now + 2 * Stall

RateInv ==
  /\ \A w \in waiting : read[w] <= now /\ now <= read[w] + Stall
  /\ \A k \in Keys : WindowInv(k)

LEMMA RateInvStep ==
  RateOK /\ RateInv /\ [RateNext \/ (Advance /\ RateTick)]_<<now, rateVars>> => RateInv'
<1> SUFFICES ASSUME RateOK, RateInv, [RateNext \/ (Advance /\ RateTick)]_<<now, rateVars>>
             PROVE  RateInv'
  OBVIOUS
<1> USE RateAssumption, ClockAssumption DEF RateOK, RateTypeOK
<1>1. CASE UNCHANGED <<now, rateVars>>
  BY <1>1 DEF rateVars, RateInv, WindowInv
<1>2. ASSUME NEW w \in Threads, NEW k \in Keys, ReadClock(w, k) PROVE RateInv'
  BY <1>2 DEF ReadClock, RateInv, WindowInv
<1>3. ASSUME NEW w \in Threads, OpenWindow(w) PROVE RateInv'
  <2>0. PICK k \in Keys : k = key[w]
    BY <1>3 DEF OpenWindow
  <2>1. /\ w \in waiting /\ k \in Keys /\ now' = now
        /\ counted' = {c \in counted : ~Expired(c, read[w])} \cup {k}
        /\ started' = [started EXCEPT ![k] = read[w]]
        /\ passed' = [passed EXCEPT ![k] = {Older(p) : p \in @} \cup {Pass(1)}]
        /\ count' = [count EXCEPT ![k] = 1]
        /\ waiting' = waiting \ {w} /\ read' = [read EXCEPT ![w] = 0]
    BY <1>3, <2>0 DEF OpenWindow, Leave
  <2>2. read[w] \in Nat /\ read[w] <= now /\ now <= read[w] + Stall
    BY <2>1 DEF RateInv
  <2>3. \A v \in waiting' : read'[v] <= now' /\ now' <= read'[v] + Stall
    BY <2>1 DEF RateInv
  <2>4. ASSUME NEW c \in Keys, c # k PROVE WindowInv(c)'
    <3>1. started'[c] = started[c] /\ passed'[c] = passed[c] /\ count'[c] = count[c]
      BY <2>1, <2>4
    <3>2. c \in counted /\ c \notin counted' => started[c] + Window <= now
      BY <2>1, <2>2, <2>4 DEF Expired
    <3>3. QED
      BY <2>1, <3>1, <3>2 DEF RateInv, WindowInv
  <2>5. WindowInv(k)'
    <3>1. \A p \in passed'[k] : p = Pass(1) \/ \E q \in passed[k] : p = Older(q)
      BY <2>1
    <3>2. passed[k] # {} => started[k] + Window <= now
      <4>1. k \in counted => started[k] + Window <= now
        BY <1>3, <2>0, <2>1, <2>2 DEF OpenWindow, Expired
      <4>2. QED
        BY <4>1, <2>1 DEF RateInv, WindowInv
    <3>3. started'[k] = read[w] /\ count'[k] = 1 /\ k \in counted'
      BY <2>1
    <3>4. \A p, q \in passed'[k] : p.age = q.age /\ p.place = q.place => p = q
      BY <2>1, <3>1 DEF Pass, Older, RateInv, WindowInv
    <3>5. ASSUME NEW p \in passed'[k]
          PROVE  /\ p.place \in 1..Limit
                 /\ p.time <= now /\ now < p.time + Window
                 /\ p.age = 0 => p.place <= 1
                 /\ p.age >= 1 => p.time <= read[w] + Stall
                 /\ p.age >= 2 => /\ p.time + Window <= read[w] + 2 * Stall
                                  /\ p.time + Window <= now + Stall
                 /\ p.age >= 3 => p.time + 2 * Window <= now + 2 * Stall
      <4>1. CASE p = Pass(1)
        BY <4>1 DEF Pass
      <4>2. ASSUME NEW q \in passed[k], p = Older(q)
            PROVE  /\ p.place \in 1..Limit
                   /\ p.time <= now /\ now < p.time + Window
                   /\ p.age = 0 => p.place <= 1
                   /\ p.age >= 1 => p.time <= read[w] + Stall
                   /\ p.age >= 2 => /\ p.time + Window <= read[w] + 2 * Stall
                                    /\ p.time + Window <= now + Stall
                   /\ p.age >= 3 => p.time + 2 * Window <= now + 2 * Stall
        <5>1. q \in [age : Nat, place : Nat, time : Nat]
          BY <2>1
        <5>2. p.age = q.age + 1 /\ p.place = q.place /\ p.time = q.time
          BY <4>2, <5>1 DEF Older
        <5>3. WindowInv(k) /\ started[k] \in Nat /\ started[k] + Window <= now
          BY <2>1, <3>2 DEF RateInv
        <5>4. QED
          BY <2>2, <5>1, <5>2, <5>3 DEF WindowInv
      <4>3. QED
        BY <3>1, <4>1, <4>2
    <3>6. QED
      BY <2>1, <3>3, <3>4, <3>5 DEF WindowInv
  <2>6. QED
    BY <2>3, <2>4, <2>5 DEF RateInv
<1>4. ASSUME NEW w \in Threads, Count(w) PROVE RateInv'
  <2>0. PICK k \in Keys : k = key[w]
    BY <1>4 DEF Count
  <2>1. /\ w \in waiting /\ k \in Keys /\ k \in counted /\ UNCHANGED <<now, counted, started>>
        /\ count' = [count EXCEPT ![k] = @ + 1]
        /\ waiting' = waiting \ {w} /\ read' = [read EXCEPT ![w] = 0]
    BY <1>4, <2>0 DEF Count, Leave
  <2>2. \A v \in waiting' : read'[v] <= now' /\ now' <= read'[v] + Stall
    BY <2>1 DEF RateInv
  <2>3. ASSUME NEW c \in Keys, c # k PROVE WindowInv(c)'
    <3>1. started'[c] = started[c] /\ passed'[c] = passed[c] /\ count'[c] = count[c]
      BY <1>4, <2>0, <2>1, <2>3 DEF Count
    <3>2. QED
      BY <2>1, <3>1 DEF RateInv, WindowInv
  <2>4. WindowInv(k)'
    <3>1. WindowInv(k) /\ count[k] \in Nat /\ count'[k] = count[k] + 1
      BY <2>1 DEF RateInv
    <3>2. CASE count[k] + 1 <= Limit
      <4>1. passed'[k] = passed[k] \cup {Pass(count[k] + 1)}
        BY <1>4, <2>0, <2>1, <3>2 DEF Count
      <4>2. QED
        BY <2>1, <3>1, <3>2, <4>1 DEF WindowInv, Pass
    <3>3. CASE ~(count[k] + 1 <= Limit)
      <4>1. passed' = passed
        BY <1>4, <2>0, <3>3 DEF Count
      <4>2. QED
        BY <2>1, <3>1, <4>1 DEF WindowInv
    <3>4. QED
      BY <3>2, <3>3
  <2>5. QED
    BY <2>2, <2>3, <2>4 DEF RateInv
<1>5. CASE Advance /\ RateTick
  <2>1. now' = now + 1 /\ UNCHANGED <<counted, started, count, waiting, read, key>>
    BY <1>5 DEF Advance, RateTick
  <2>2. \A w \in waiting' : read'[w] <= now' /\ now' <= read'[w] + Stall
    BY <1>5, <2>1 DEF RateTick, RateInv
  <2>3. ASSUME NEW k \in Keys PROVE WindowInv(k)'
    <3>1. passed'[k] = {p \in passed[k] : p.time + Window > now + 1}
      BY <1>5 DEF RateTick
    <3>2. QED
      BY <2>1, <3>1 DEF RateInv, WindowInv
  <2>4. QED
    BY <2>2, <2>3 DEF RateInv
<1>6. QED
  BY <1>1, <1>2, <1>3, <1>4, <1>5 DEF RateNext

\* Requests of the last m windows, each in a place of its own, are at most m times the limit.
LEMMA PlacesOfWindows ==
  ASSUME NEW m \in {2, 3}, NEW S \in SUBSET [age : Nat, place : Nat, time : Nat],
         \A p \in S : p.age < m /\ p.place \in 1..Limit,
         \A p, q \in S : p.age = q.age /\ p.place = q.place => p = q
  PROVE  Cardinality(S) <= m * Limit
<1> DEFINE seat == [p \in S |-> IF p.age = 0 THEN p.place
                                ELSE IF p.age = 1 THEN Limit + p.place
                                ELSE 2 * Limit + p.place]
<1>1. PICK n \in Nat : n = m * Limit /\ n >= 1
  BY RateAssumption
<1>2. seat \in [S -> 1..n]
  BY <1>1, RateAssumption
<1>3. \A p, q \in S : seat[p] = seat[q] => p = q
  BY RateAssumption
<1>4. seat \in Injection(S, 1..n)
  BY <1>2, <1>3 DEF Injection, IsInjective
<1>5. IsFiniteSet(1..n) /\ Cardinality(1..n) = n
  BY <1>1, FS_Interval
<1>6. QED
  BY <1>1, <1>4, <1>5, FS_Injection

\* RateLimiter.hit: however the threads overtake each other between the clock and the
\* lock, and whichever windows the requests of other keys remove, at most twice the limit
\* passes in a window's length less the delay of a thread, and three times in all of it.
THEOREM SpansAreBounded == RateSpec => []SpanBounded
<1>1. ClockInit /\ RateInit => RateInv
  BY DEF RateInit, RateInv, WindowInv
<1>2. RateOK /\ RateInv => SpanBounded
  <2> SUFFICES ASSUME RateOK, RateInv, NEW k \in Keys
               PROVE  /\ Cardinality({p \in passed[k] : p.time + Window > now + Stall})
                           <= 2 * Limit
                      /\ 2 * Stall <= Window => Cardinality(passed[k]) <= 3 * Limit
    BY DEF SpanBounded
  <2> USE RateAssumption, ClockAssumption
  <2>1. passed[k] \in SUBSET [age : Nat, place : Nat, time : Nat] /\ now \in Nat
    BY DEF RateOK, RateTypeOK
  <2>2. WindowInv(k)
    BY DEF RateInv
  <2> DEFINE Last == {p \in passed[k] : p.time + Window > now + Stall}
  <2>3. Cardinality(Last) <= 2 * Limit
    <3>1. \A p \in Last : p.age < 2 /\ p.place \in 1..Limit
      BY <2>1, <2>2 DEF WindowInv
    <3>2. \A p, q \in Last : p.age = q.age /\ p.place = q.place => p = q
      BY <2>2 DEF WindowInv
    <3>3. QED
      BY <2>1, <3>1, <3>2, PlacesOfWindows
  <2>4. ASSUME 2 * Stall <= Window PROVE Cardinality(passed[k]) <= 3 * Limit
    <3>1. \A p \in passed[k] : p.age < 3 /\ p.place \in 1..Limit
      BY <2>1, <2>2, <2>4 DEF WindowInv
    <3>2. QED
      BY <2>1, <2>2, <3>1, PlacesOfWindows DEF WindowInv
  <2>5. QED
    BY <2>3, <2>4
<1>3. QED
  BY <1>1, <1>2, RateOKInit, RateOKStep, RateInvStep, PTL DEF RateSpec

-----------------------------------------------------------------------------
(* The health check                                                        *)

HealthOK == now \in Nat /\ HealthTypeOK

LEMMA HealthOKStep ==
  HealthOK /\ [HealthNext \/ (Advance /\ HealthTick)]_<<now, healthVars>> => HealthOK'
<1> SUFFICES ASSUME HealthOK, [HealthNext \/ (Advance /\ HealthTick)]_<<now, healthVars>>
             PROVE  HealthOK'
  OBVIOUS
<1> USE HealthAssumption, ClockAssumption DEF HealthOK, HealthTypeOK
<1>1. CASE UNCHANGED <<now, healthVars>>
  BY <1>1 DEF healthVars
<1>2. CASE Turn \/ SweepProbes
  BY <1>2 DEF Turn, SweepProbes
<1>3. ASSUME NEW w \in Threads, Check(w) PROVE HealthOK'
  BY <1>3 DEF Check
<1>4. ASSUME NEW w \in Threads, Unprobe(w) PROVE HealthOK'
  BY <1>4 DEF Unprobe
<1>5. ASSUME NEW w \in Threads, Store(w) PROVE HealthOK'
  BY <1>5 DEF Store
<1>6. CASE Advance /\ HealthTick
  BY <1>6 DEF Advance, HealthTick, healthVars
<1>7. QED
  BY <1>1, <1>2, <1>3, <1>4, <1>5, <1>6 DEF HealthNext

LEMMA HealthOKInit == ClockInit /\ HealthInit => HealthOK
  BY ClockAssumption DEF ClockInit, HealthInit, HealthOK, HealthTypeOK

\* A check in progress has looked within Stall, and what is stored was seen within Stall
\* before it was stored.
FreshInv ==
  /\ \A w \in Threads : phase[w] # "idle" => looked[w] <= now /\ now <= looked[w] + Stall
  /\ stored > 0 => stored <= observed + Stall

LEMMA FreshInvStep ==
  HealthOK /\ FreshInv /\ [HealthNext \/ (Advance /\ HealthTick)]_<<now, healthVars>>
  => FreshInv'
<1> SUFFICES ASSUME HealthOK, FreshInv,
                    [HealthNext \/ (Advance /\ HealthTick)]_<<now, healthVars>>
             PROVE  FreshInv'
  OBVIOUS
<1> USE HealthAssumption, ClockAssumption DEF HealthOK, HealthTypeOK, FreshInv
<1>1. CASE UNCHANGED <<now, healthVars>>
  BY <1>1 DEF healthVars
<1>2. CASE Turn \/ SweepProbes
  BY <1>2 DEF Turn, SweepProbes
<1>3. ASSUME NEW w \in Threads, Check(w) PROVE FreshInv'
  BY <1>3 DEF Check
<1>4. ASSUME NEW w \in Threads, Unprobe(w) PROVE FreshInv'
  BY <1>4 DEF Unprobe
<1>5. ASSUME NEW w \in Threads, Store(w) PROVE FreshInv'
  BY <1>5 DEF Store
<1>6. CASE Advance /\ HealthTick
  BY <1>6 DEF Advance, HealthTick, healthVars
<1>7. QED
  BY <1>1, <1>2, <1>3, <1>4, <1>5, <1>6 DEF HealthNext

LEMMA FreshInvInit == ClockInit /\ HealthInit => FreshInv
  BY DEF HealthInit, FreshInv

\* health_check: a cached answer that is served speaks of a state seen less than the
\* cache's time and the length of one check ago, however the checks overtake each other.
THEOREM AnswersAreFresh == HealthSpec => []AnswerIsFresh
<1>1. HealthOK /\ FreshInv => AnswerIsFresh
  BY HealthAssumption, ClockAssumption
  DEF HealthOK, HealthTypeOK, FreshInv, AnswerIsFresh, Cached
<1>2. QED
  BY <1>1, HealthOKInit, HealthOKStep, FreshInvInit, FreshInvStep, PTL DEF HealthSpec

LEMMA ProbeStep ==
  ASSUME Stall < ProbeAge
  PROVE  HealthOK /\ FreshInv /\ ProbeInUseStays
         /\ [HealthNext \/ (Advance /\ HealthTick)]_<<now, healthVars>>
         => ProbeInUseStays'
<1> SUFFICES ASSUME HealthOK, FreshInv, ProbeInUseStays,
                    [HealthNext \/ (Advance /\ HealthTick)]_<<now, healthVars>>
             PROVE  ProbeInUseStays'
  OBVIOUS
<1> USE HealthAssumption, ClockAssumption DEF HealthOK, HealthTypeOK, ProbeInUseStays
<1>1. CASE UNCHANGED <<now, healthVars>>
  BY <1>1 DEF healthVars
<1>2. CASE Turn
  BY <1>2 DEF Turn
<1>3. CASE SweepProbes
  <2>1. ASSUME NEW w \in Threads, phase[w] = "probing" PROVE <<w, looked[w]>> \in probes'
    <3>1. now <= looked[w] + Stall /\ looked[w] \in Nat
      BY <2>1 DEF FreshInv
    <3>2. looked[w] + ProbeAge > now
      BY <3>1
    <3>3. <<w, looked[w]>> \in probes
      BY <2>1
    <3>4. QED
      BY <1>3, <3>2, <3>3 DEF SweepProbes
  <2>2. QED
    BY <1>3, <2>1 DEF SweepProbes
<1>4. ASSUME NEW w \in Threads, Check(w) PROVE ProbeInUseStays'
  BY <1>4 DEF Check
<1>5. ASSUME NEW w \in Threads, Unprobe(w) PROVE ProbeInUseStays'
  BY <1>5 DEF Unprobe
<1>6. ASSUME NEW w \in Threads, Store(w) PROVE ProbeInUseStays'
  BY <1>6 DEF Store
<1>7. CASE Advance /\ HealthTick
  BY <1>7 DEF Advance, HealthTick, healthVars
<1>8. QED
  BY <1>1, <1>2, <1>3, <1>4, <1>5, <1>6, <1>7 DEF HealthNext

\* cleanup_health_probes leaves the probe of a check in progress alone, if a check takes
\* less than the age from which probes are swept.
THEOREM ProbesInUseStay ==
  ASSUME Stall < ProbeAge
  PROVE  HealthSpec => []ProbeInUseStays
<1>1. ClockInit /\ HealthInit => ProbeInUseStays
  BY DEF HealthInit, ProbeInUseStays
<1>2. QED
  BY <1>1, HealthOKInit, HealthOKStep, FreshInvInit, FreshInvStep, ProbeStep, PTL
  DEF HealthSpec

-----------------------------------------------------------------------------
(* The front door                                                          *)

\* The steps of a part leave the clock alone.
LEMMA OnlyTicksPass ==
  (SessionNext \/ LockNext \/ RateNext \/ HealthNext) => UNCHANGED now
<1>1. SessionNext => UNCHANGED now
  BY DEF SessionNext, Login, Logout, FindDead, Find, Renew, Answer, AnswerLost, PurgeSessions
<1>2. LockNext => UNCHANGED now
  BY DEF LockNext, Enter, Wrong, Right, RightDisabled, PurgeAttempts
<1>3. RateNext => UNCHANGED now
  BY DEF RateNext, ReadClock, OpenWindow, Count
<1>4. HealthNext => UNCHANGED now
  BY DEF HealthNext, Turn, SweepProbes, Check, Unprobe, Store
<1>5. QED
  BY <1>1, <1>2, <1>3, <1>4

\* In the front door every part behaves as it does alone: its steps are its own and the
\* clock's, and those of the others do not change it.
THEOREM PartsRunAsAlone == Spec => SessionSpec /\ LockSpec /\ RateSpec /\ HealthSpec
<1>1. Init => ClockInit /\ SessionInit /\ LockInit /\ RateInit /\ HealthInit
  BY DEF Init
<1>2. [Next]_vars => [SessionNext \/ (Advance /\ SessionTick)]_<<now, sessionVars>>
  BY OnlyTicksPass DEF Next, Tick, vars
<1>3. [Next]_vars => [LockNext \/ (Advance /\ LockTick)]_<<now, lockVars>>
  BY OnlyTicksPass DEF Next, Tick, vars
<1>4. [Next]_vars => [RateNext \/ (Advance /\ RateTick)]_<<now, rateVars>>
  BY OnlyTicksPass DEF Next, Tick, vars
<1>5. [Next]_vars => [HealthNext \/ (Advance /\ HealthTick)]_<<now, healthVars>>
  BY OnlyTicksPass DEF Next, Tick, vars
<1>6. QED
  BY <1>1, <1>2, <1>3, <1>4, <1>5, PTL DEF Spec, SessionSpec, LockSpec, RateSpec, HealthSpec

\* Type correctness of all parts.
THEOREM FrontDoorTyped == Spec => []TypeOK
<1>1. RateSpec => []RateTypeOK
  <2>1. RateOK => RateTypeOK
    BY DEF RateOK
  <2>2. QED
    BY <2>1, RateOKInit, RateOKStep, PTL DEF RateSpec
<1>2. HealthSpec => []HealthTypeOK
  <2>1. HealthOK => HealthTypeOK
    BY DEF HealthOK
  <2>2. QED
    BY <2>1, HealthOKInit, HealthOKStep, PTL DEF HealthSpec
<1>3. SessionTypeOK /\ LockTypeOK /\ RateTypeOK /\ HealthTypeOK => TypeOK
  BY DEF TypeOK
<1>4. QED
  BY <1>1, <1>2, <1>3, SessionsTyped, LockTyped, PartsRunAsAlone, PTL

\* What each part promises alone it keeps in the front door, if a handler takes at most
\* half a session and less than the age of an abandoned probe.
THEOREM FrontDoorKeepsAll ==
  ASSUME 2 * Stall <= TTL, Stall < ProbeAge
  PROVE  Spec => /\ []NobodyOutlives /\ []StaysLoggedIn /\ []GuessesBounded
                 /\ []SpanBounded /\ []AnswerIsFresh /\ []ProbeInUseStays
  BY PartsRunAsAlone, DeadlineHolds, VisitorsStay, GuessesAreBounded, SpansAreBounded,
     AnswersAreFresh, ProbesInUseStay, PTL
=============================================================================
