-------------------------- MODULE SessionTimeProofs --------------------------
(***************************************************************************)
(* Proofs about SessionTime: for any number of sessions and requests at    *)
(* once the deadline holds, and who comes often enough stays logged in.    *)
(***************************************************************************)
EXTENDS SessionTime, TLAPS

\* Types, and that a request at work is one of a session that was opened.
Typed ==
  /\ now \in Nat
  /\ SessionTypeOK
  /\ \A w \in Threads : step[w] # "idle" => state[of[w]] # "none"

LEMMA TypedInit == ClockInit /\ SessionInit => Typed
<1> SUFFICES ASSUME ClockInit, SessionInit PROVE Typed
  OBVIOUS
<1> USE SessionAssumption, ClockAssumption DEF ClockInit, SessionInit
<1>1. now \in Nat /\ legacy \subseteq Sessions /\ missed \subseteq Sessions
  OBVIOUS
<1>2. state \in [Sessions -> {"none", "open", "closed"}]
  OBVIOUS
<1>3. born \in [Sessions -> Nat] /\ visit \in [Sessions -> Nat]
  OBVIOUS
<1>4. expires \in [Sessions -> Nat] /\ cookie \in [Sessions -> Nat]
  OBVIOUS
<1>5. /\ step \in [Threads -> {"idle", "renew", "refresh", "plain"}]
      /\ of \in [Threads -> Sessions]
  OBVIOUS
<1>6. stamp \in [Threads -> Nat] /\ later \in [Threads -> Nat]
  OBVIOUS
<1>7. \A w \in Threads : stamp[w] <= now /\ step[w] = "idle"
  OBVIOUS
<1>8. QED
  BY <1>1, <1>2, <1>3, <1>4, <1>5, <1>6, <1>7 DEF Typed, SessionTypeOK

LEMMA TypedStep ==
  Typed /\ [SessionNext \/ (Advance /\ SessionTick)]_<<now, sessionVars>> => Typed'
<1> SUFFICES ASSUME Typed, [SessionNext \/ (Advance /\ SessionTick)]_<<now, sessionVars>>
             PROVE  Typed'
  OBVIOUS
<1> USE SessionAssumption, ClockAssumption DEF Typed, SessionTypeOK, Deadline
<1>1. CASE UNCHANGED <<now, sessionVars>>
  BY <1>1 DEF sessionVars
<1>2. ASSUME NEW s \in Sessions, Login(s) PROVE Typed'
  BY <1>2 DEF Login
<1>3. ASSUME NEW s \in Sessions, Logout(s) PROVE Typed'
  BY <1>3 DEF Logout
<1>4. ASSUME NEW w \in Threads, NEW s \in Sessions, FindDead(w, s) PROVE Typed'
  BY <1>4 DEF FindDead, Arrives
<1>5. ASSUME NEW w \in Threads, NEW s \in Sessions, Find(w, s) PROVE Typed'
  BY <1>5 DEF Find, Arrives, Due, Renewed
<1>6. ASSUME NEW w \in Threads, Renew(w) PROVE Typed'
  BY <1>6 DEF Renew
<1>7. ASSUME NEW w \in Threads, Answer(w) PROVE Typed'
  BY <1>7 DEF Answer
<1>8. ASSUME NEW w \in Threads, AnswerLost(w) PROVE Typed'
  BY <1>8 DEF AnswerLost
<1>9. CASE PurgeSessions
  BY <1>9 DEF PurgeSessions
<1>10. CASE Advance /\ SessionTick
  BY <1>10 DEF Advance, SessionTick, sessionVars
<1>11. QED
  BY <1>1, <1>2, <1>3, <1>4, <1>5, <1>6, <1>7, <1>8, <1>9, <1>10 DEF SessionNext

\* Type correctness of sessions, cookies and requests.
THEOREM SessionsTyped == SessionSpec => []SessionTypeOK
<1>1. Typed => SessionTypeOK
  BY DEF Typed
<1>2. QED
  BY <1>1, TypedInit, TypedStep, PTL DEF SessionSpec

-----------------------------------------------------------------------------
\* What is about to be written is within the deadline, too.
DeadlineInv ==
  /\ NobodyOutlives
  /\ \A w \in Threads : step[w] = "renew" => later[w] <= Deadline(of[w])

LEMMA DeadlineStep ==
  /\ Typed /\ Typed' /\ DeadlineInv
  /\ [SessionNext \/ (Advance /\ SessionTick)]_<<now, sessionVars>>
  => DeadlineInv'
<1> SUFFICES ASSUME Typed, Typed', DeadlineInv, [SessionNext \/ (Advance /\ SessionTick)]_<<now, sessionVars>>
             PROVE  DeadlineInv'
  OBVIOUS
<1> USE SessionAssumption, ClockAssumption DEF Typed, SessionTypeOK, DeadlineInv, NobodyOutlives, Deadline
<1>1. CASE UNCHANGED <<now, sessionVars>>
  BY <1>1 DEF sessionVars
<1>2. ASSUME NEW s \in Sessions, Login(s) PROVE DeadlineInv'
  BY <1>2 DEF Login
<1>3. ASSUME NEW s \in Sessions, Logout(s) PROVE DeadlineInv'
  BY <1>3 DEF Logout
<1>4. ASSUME NEW w \in Threads, NEW s \in Sessions, FindDead(w, s) PROVE DeadlineInv'
  BY <1>4 DEF FindDead, Arrives
<1>5. ASSUME NEW w \in Threads, NEW s \in Sessions, Find(w, s) PROVE DeadlineInv'
  BY <1>5 DEF Find, Arrives, Due, Renewed
<1>6. ASSUME NEW w \in Threads, Renew(w) PROVE DeadlineInv'
  BY <1>6 DEF Renew
<1>7. ASSUME NEW w \in Threads, Answer(w) PROVE DeadlineInv'
  BY <1>7 DEF Answer
<1>8. ASSUME NEW w \in Threads, AnswerLost(w) PROVE DeadlineInv'
  BY <1>8 DEF AnswerLost
<1>9. CASE PurgeSessions
  BY <1>9 DEF PurgeSessions
<1>10. CASE Advance /\ SessionTick
  BY <1>10 DEF Advance, SessionTick, sessionVars
<1>11. QED
  BY <1>1, <1>2, <1>3, <1>4, <1>5, <1>6, <1>7, <1>8, <1>9, <1>10 DEF SessionNext

\* find_session_user and session_expiry: a session ends at its deadline at the latest,
\* however many requests renew it at once and in whichever order they write.
THEOREM DeadlineHolds == SessionSpec => []NobodyOutlives
<1>1. ClockInit /\ SessionInit => DeadlineInv
  BY TypedInit, SessionAssumption, ClockAssumption
  DEF SessionInit, ClockInit, DeadlineInv, NobodyOutlives, Deadline, Typed, SessionTypeOK
<1>2. DeadlineInv => NobodyOutlives
  BY DEF DeadlineInv
<1>3. QED
  BY <1>1, <1>2, TypedInit, TypedStep, DeadlineStep, PTL DEF SessionSpec

-----------------------------------------------------------------------------
\* The expiry covers half a TTL from t on, or reaches the deadline.
Covers(s, t) == 2 * (expires[s] - t) >= TTL \/ expires[s] >= Deadline(s)

\* How late a request can be, and what it relies on.
RequestOK(w) ==
  step[w] # "idle" =>
    /\ now <= stamp[w] + Stall
    /\ step[w] = "renew" =>
         later[w] <= stamp[w] + TTL
         /\ (later[w] = stamp[w] + TTL \/ later[w] = Deadline(of[w]))
    /\ step[w] # "renew" => Covers(of[w], stamp[w])

SessionOK(s) ==
  /\ visit[s] <= now
  /\ state[s] # "none" /\ s \notin missed =>
       /\ Covers(s, visit[s])
       /\ expires[s] <= now + TTL
       /\ cookie[s] >= expires[s] \/ \E w \in Threads : step[w] = "refresh" /\ of[w] = s
       /\ state[s] = "closed" =>
            \/ now >= Deadline(s)
            \/ expires[s] <= now /\ \A w \in Threads : ~(step[w] = "renew" /\ of[w] = s)

StayInv ==
  /\ legacy \subseteq missed
  /\ \A w \in Threads : RequestOK(w)
  /\ \A s \in Sessions : SessionOK(s)

LEMMA StayStep ==
  ASSUME 2 * Stall <= TTL
  PROVE  /\ Typed /\ Typed' /\ DeadlineInv /\ StayInv
         /\ [SessionNext \/ (Advance /\ SessionTick)]_<<now, sessionVars>>
         => StayInv'
<1> SUFFICES ASSUME Typed, Typed', DeadlineInv, StayInv, [SessionNext \/ (Advance /\ SessionTick)]_<<now, sessionVars>>
             PROVE  StayInv'
  OBVIOUS
<1> USE SessionAssumption, ClockAssumption DEF Typed, SessionTypeOK, StayInv, RequestOK, SessionOK, Covers, Deadline
<1>1. CASE UNCHANGED <<now, sessionVars>>
  BY <1>1 DEF sessionVars
<1>2. ASSUME NEW s \in Sessions, Login(s) PROVE StayInv'
  BY <1>2 DEF Login
<1>3. ASSUME NEW s \in Sessions, Logout(s) PROVE StayInv'
  BY <1>3 DEF Logout
<1>4. ASSUME NEW w \in Threads, NEW s \in Sessions, FindDead(w, s) PROVE StayInv'
  BY <1>4 DEF FindDead, Arrives
<1>5. ASSUME NEW w \in Threads, NEW s \in Sessions, Find(w, s) PROVE StayInv'
  BY <1>5 DEF Find, Arrives, Due, Renewed
<1>6. ASSUME NEW w \in Threads, Renew(w) PROVE StayInv'
  BY <1>6 DEF Renew
<1>7. ASSUME NEW w \in Threads, Answer(w) PROVE StayInv'
  BY <1>7 DEF Answer
<1>8. ASSUME NEW w \in Threads, AnswerLost(w) PROVE StayInv'
  BY <1>8 DEF AnswerLost
<1>9. CASE PurgeSessions
  BY <1>9 DEF PurgeSessions
<1>10. CASE Advance /\ SessionTick
  BY <1>10 DEF Advance, SessionTick, sessionVars
<1>11. QED
  BY <1>1, <1>2, <1>3, <1>4, <1>5, <1>6, <1>7, <1>8, <1>9, <1>10 DEF SessionNext

\* auth.py's promise: who comes once in every half of SESSION_TTL stays logged in until
\* the deadline, if no handler takes longer than half a TTL.
THEOREM VisitorsStay ==
  ASSUME 2 * Stall <= TTL
  PROVE  SessionSpec => []StaysLoggedIn
<1>1. ClockInit /\ SessionInit => DeadlineInv /\ StayInv
  BY TypedInit, SessionAssumption, ClockAssumption
  DEF SessionInit, ClockInit, DeadlineInv, NobodyOutlives, Deadline, Typed, SessionTypeOK,
      StayInv, RequestOK, SessionOK
<1>2. Typed /\ StayInv => StaysLoggedIn
  <2> SUFFICES ASSUME Typed, StayInv, NEW s \in Sessions \ missed, state[s] # "none",
                      2 * (now - visit[s]) < TTL, now < Deadline(s)
               PROVE  /\ state[s] = "open" /\ expires[s] > now
                      /\ \/ cookie[s] > now
                         \/ \E w \in Threads : step[w] = "refresh" /\ of[w] = s
    BY DEF StaysLoggedIn
  <2>1. expires[s] > now
    BY SessionAssumption DEF StayInv, SessionOK, Covers, Typed, SessionTypeOK, Deadline
  <2>2. state[s] = "open"
    BY <2>1, SessionAssumption DEF StayInv, SessionOK, Typed, SessionTypeOK, Deadline
  <2>3. cookie[s] >= expires[s] \/ \E w \in Threads : step[w] = "refresh" /\ of[w] = s
    BY DEF StayInv, SessionOK
  <2>4. QED
    BY <2>1, <2>2, <2>3 DEF Typed, SessionTypeOK
<1>3. QED
  BY <1>1, <1>2, TypedInit, TypedStep, DeadlineStep, StayStep, PTL DEF SessionSpec
=============================================================================
