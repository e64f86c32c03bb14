---------------------------- MODULE SessionTime ----------------------------
(***************************************************************************)
(* How long a login lasts: the row of a session and the cookie of its      *)
(* browser, the sliding renewal, the hard deadline.  A request reads the   *)
(* row, may write a later expiry computed from what it read, and answers;  *)
(* the answer carries the cookie and may be lost.  Requests with one       *)
(* cookie run at once.                                                     *)
(***************************************************************************)
EXTENDS Clock

CONSTANTS
  Sessions,
  TTL,      \* SESSION_TTL
  MaxLife   \* SESSION_MAX_LIFETIME

ASSUME SessionAssumption == TTL \in Nat \ {0} /\ MaxLife \in Nat /\ TTL <= MaxLife

VARIABLES
  state,    \* "none", "open" (its row is there) or "closed"
  born,     \* created_at
  expires,  \* expires_at
  cookie,   \* until when the browser sends it
  step,     \* what a thread does next: "idle", "renew", "refresh" or "plain"
  of,       \* the session of its request
  stamp,    \* when it read the row
  later,    \* the expiry it is about to write
  legacy,   \* sessions of a release without the deadline
  visit,    \* history: the last request that was answered
  missed    \* history: sessions the user left, or whose new cookie was lost, or whose row
            \* was purged after its expiry, between a request's SELECT and its UPDATE

sessionVars == <<state, born, expires, cookie, step, of, stamp, later, legacy, visit, missed>>

Deadline(s) == born[s] + MaxLife

SessionTypeOK ==
  /\ state \in [Sessions -> {"none", "open", "closed"}]
  /\ born \in [Sessions -> Nat] /\ expires \in [Sessions -> Nat]
  /\ cookie \in [Sessions -> Nat] /\ visit \in [Sessions -> Nat]
  /\ step \in [Threads -> {"idle", "renew", "refresh", "plain"}]
  /\ of \in [Threads -> Sessions]
  /\ stamp \in [Threads -> Nat] /\ later \in [Threads -> Nat]
  /\ \A w \in Threads : stamp[w] <= now
  /\ legacy \subseteq Sessions /\ missed \subseteq Sessions

\* A new database, or one whose sessions an earlier release has renewed without a limit.
SessionInit ==
  /\ legacy \in SUBSET Sessions
  /\ state = [s \in Sessions |-> IF s \in legacy THEN "open" ELSE "none"]
  /\ born \in [Sessions -> 0..Epoch] /\ \A s \in Sessions \ legacy : born[s] = 0
  /\ expires \in [Sessions -> 0..(Epoch + TTL)]
  /\ \A s \in Sessions : expires[s] = 0 <=> s \notin legacy
  /\ cookie = expires
  /\ step = [w \in Threads |-> "idle"]
  /\ of \in [Threads -> Sessions]
  /\ stamp = [w \in Threads |-> 0] /\ later = [w \in Threads |-> 0]
  /\ visit = [s \in Sessions |-> 0] /\ missed = legacy

-----------------------------------------------------------------------------
Login(s) ==
  /\ state[s] = "none"
  /\ state' = [state EXCEPT ![s] = "open"]
  /\ born' = [born EXCEPT ![s] = now]
  /\ expires' = [expires EXCEPT ![s] = now + TTL]
  /\ cookie' = [cookie EXCEPT ![s] = now + TTL]
  /\ visit' = [visit EXCEPT ![s] = now]
  /\ UNCHANGED <<now, step, of, stamp, later, legacy, missed>>

\* A request whose cookie the SELECT of find_session_user accepts.
Arrives(w, s) ==
  /\ step[w] = "idle" /\ cookie[s] > now
  /\ state[s] = "open" /\ expires[s] > now

\* Mutant: the renewal does not stop at the deadline.
RenewedFreely(s) == now + TTL

\* session_expiry(deadline)
Renewed(s) == IF now + TTL > Deadline(s) THEN Deadline(s) ELSE now + TTL

\* Mutant: renewal begins when a quarter is left.
DueLate(s) == 4 * (expires[s] - now) < TTL /\ Renewed(s) > expires[s]

\* session_needs_renewal, and the new expiry is later than the one that was read.
Due(s) == 2 * (expires[s] - now) < TTL /\ Renewed(s) > expires[s]

\* Past the deadline the row is deleted and the request refused.
FindDead(w, s) ==
  /\ Arrives(w, s) /\ now >= Deadline(s)
  /\ state' = [state EXCEPT ![s] = "closed"]
  /\ UNCHANGED <<now, born, expires, cookie, step, of, stamp, later, legacy, visit, missed>>

Find(w, s) ==
  /\ Arrives(w, s) /\ now < Deadline(s)
  /\ of' = [of EXCEPT ![w] = s]
  /\ stamp' = [stamp EXCEPT ![w] = now]
  /\ \/ /\ Due(s)
        /\ step' = [step EXCEPT ![w] = "renew"]
        /\ later' = [later EXCEPT ![w] = Renewed(s)]
     \/ /\ ~Due(s)
        /\ step' = [step EXCEPT ![w] = "plain"]
        /\ UNCHANGED later
  /\ UNCHANGED <<now, state, born, expires, cookie, legacy, visit, missed>>

\* UPDATE ... WHERE token_hash: whatever the row says by now.
Renew(w) ==
  /\ step[w] = "renew"
  /\ step' = [step EXCEPT ![w] = "refresh"]
  /\ expires' = [expires EXCEPT ![of[w]] = later[w]]
  /\ UNCHANGED <<now, state, born, cookie, of, stamp, later, legacy, visit, missed>>

\* The answer arrives; session_cookie_refresh_middleware has put the cookie into it.
Answer(w) ==
  /\ step[w] \in {"refresh", "plain"}
  /\ step' = [step EXCEPT ![w] = "idle"]
  /\ cookie' = IF step[w] = "refresh" THEN [cookie EXCEPT ![of[w]] = now + TTL] ELSE cookie
  /\ visit' = [visit EXCEPT ![of[w]] = IF stamp[w] > @ THEN stamp[w] ELSE @]
  /\ UNCHANGED <<now, state, born, expires, of, stamp, later, legacy, missed>>

\* The connection broke, or the handler raised what no handler catches.
AnswerLost(w) ==
  /\ step[w] \in {"refresh", "plain"}
  /\ step' = [step EXCEPT ![w] = "idle"]
  /\ missed' = IF step[w] = "refresh" THEN missed \cup {of[w]} ELSE missed
  /\ UNCHANGED <<now, state, born, expires, cookie, of, stamp, later, legacy, visit>>

Logout(s) ==
  /\ state[s] = "open" /\ cookie[s] > now
  /\ state' = [state EXCEPT ![s] = "closed"]
  /\ cookie' = [cookie EXCEPT ![s] = 0]
  /\ missed' = missed \cup {s}
  /\ UNCHANGED <<now, born, expires, step, of, stamp, later, legacy, visit>>

\* purge_expired_sessions
PurgeSessions ==
  /\ \E s \in Sessions : state[s] = "open" /\ expires[s] <= now
  /\ state' = [s \in Sessions |->
       IF state[s] = "open" /\ expires[s] <= now THEN "closed" ELSE state[s]]
  /\ missed' = missed \cup {of[w] : w \in {v \in Threads : step[v] = "renew" /\ expires[of[v]] <= now}}
  /\ UNCHANGED <<now, born, expires, cookie, step, of, stamp, later, legacy, visit>>

SessionNext ==
  \/ \E s \in Sessions : Login(s) \/ Logout(s)
  \/ \E w \in Threads, s \in Sessions : FindDead(w, s) \/ Find(w, s)
  \/ \E w \in Threads : Renew(w) \/ Answer(w) \/ AnswerLost(w)
  \/ PurgeSessions

\* No handler takes longer than Stall.
SessionTick ==
  /\ \A w \in Threads : step[w] # "idle" => now < stamp[w] + Stall
  /\ UNCHANGED sessionVars

SessionSpec ==
  ClockInit /\ SessionInit
  /\ [][SessionNext \/ (Advance /\ SessionTick)]_<<now, sessionVars>>

-----------------------------------------------------------------------------
\* No session is served from its deadline on, and no renewal, however late it is written
\* and whichever other it overwrites, puts the expiry of a session behind the deadline.
NobodyOutlives ==
  /\ \A s \in Sessions \ legacy : state[s] = "open" => expires[s] <= Deadline(s)
  /\ \A w \in Threads : step[w] # "idle" => stamp[w] < Deadline(of[w])

\* "A user who came once in the first half stays logged in": neither row nor cookie ends
\* within half a TTL of an answered request, unless a new cookie got lost on its way or
\* is still on it.
StaysLoggedIn == \A s \in Sessions \ missed :
  state[s] # "none" /\ 2 * (now - visit[s]) < TTL /\ now < Deadline(s)
    => /\ state[s] = "open" /\ expires[s] > now
       /\ cookie[s] > now \/ \E w \in Threads : step[w] = "refresh" /\ of[w] = s
=============================================================================
