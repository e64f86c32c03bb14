------------------------------ MODULE Accounts ------------------------------
(***************************************************************************)
(* The accounts of CourseBox: the tables users and sessions, and the       *)
(* handlers of api/auth.py and api/users.py that change them.              *)
(*                                                                         *)
(* Every handler reads first (its session, its target, the password hash)  *)
(* and writes later, in one transaction that ends in commit; between the   *)
(* two the threads of the server interleave, so a handler acts on rows     *)
(* that may have changed.  A password is a generation number: a new one    *)
(* replaces the one before.  Which requests the login lock, the address    *)
(* limit of registration and the rate limits refuse is left open: a        *)
(* refused request changes nothing here.                                   *)
(***************************************************************************)
EXTENDS Naturals, FiniteSets

CONSTANTS
  Users,         \* account ids; never deleted
  Tokens,        \* session tokens, drawn once each
  Workers,       \* threads that serve requests
  Changes,       \* the UserUpdate bodies administrators send
  RegisterRole,  \* COURSEBOX_REGISTER_ROLE
  MaxPassword,   \* bound on the passwords an account has had
  RaisesRace,    \* may an account become an active administrator inside another update of it?
  Nobody, NoToken

Roles == {"admin", "uploader", "viewer"}
Powers == {"on", "off"}      \* is_active

ASSUME AccountsAssumption ==
  /\ Changes \subseteq [role : Roles \cup {"keep"}, power : Powers \cup {"keep"}]
  /\ RegisterRole \in {"uploader", "viewer"}
  /\ MaxPassword \in Nat
  /\ IsFiniteSet(Workers) /\ Workers # {}
  /\ RaisesRace \in BOOLEAN
  /\ Nobody \notin Users
  /\ NoToken \notin Tokens

VARIABLES
  role,      \* users.role, "none" before the INSERT
  power,     \* users.is_active
  password,  \* the generation users.password_hash belongs to
  session,   \* sessions: "unused", "open" or "closed" (the row is deleted)
  owner,     \* sessions.user_id
  proof,     \* the generation the session's login verified
  at,        \* where each worker is in its handler
  actor,     \* the user current_user returned, or the one logging in
  tok,       \* the session of the request, or the one it revokes
  left,      \* the accounts a (batch) update has still to do
  target,    \* the account in hand
  want,      \* the UserUpdate
  seen,      \* what the handler read of the target's row
  late,      \* history: the logins inside which sessions of their user were ended
  stray      \* history: the open sessions that such logins opened

users == <<role, power, password>>
sessions == <<session, owner, proof>>
mem == <<at, actor, tok, left, target, want, seen>>
history == <<late, stray>>
vars == <<users, sessions, mem, history>>

Steps == {"idle", "open", "create", "fetch", "apply", "reset", "change", "revoke"}
Keep == [role |-> "keep", power |-> "keep"]
Blank == [role |-> "none", power |-> "on", password |-> 0]
Row(u) == [role |-> role[u], power |-> power[u], password |-> password[u]]

TypeOK ==
  /\ role \in [Users -> Roles \cup {"none"}]
  /\ power \in [Users -> Powers]
  /\ password \in [Users -> 0..MaxPassword]
  /\ session \in [Tokens -> {"unused", "open", "closed"}]
  /\ owner \in [Tokens -> Users \cup {Nobody}]
  /\ proof \in [Tokens -> 0..MaxPassword]
  /\ at \in [Workers -> Steps]
  /\ actor \in [Workers -> Users \cup {Nobody}]
  /\ tok \in [Workers -> Tokens \cup {NoToken}]
  /\ left \in [Workers -> SUBSET Users]
  /\ target \in [Workers -> Users \cup {Nobody}]
  /\ want \in [Workers -> Changes \cup {Keep}]
  /\ seen \in [Workers -> [role : Roles \cup {"none"}, power : Powers,
                           password : 0..MaxPassword]]
  /\ late \subseteq Workers
  /\ stray \subseteq Tokens

-----------------------------------------------------------------------------
Active(u) == power[u] = "on"
ActiveAdmin(u) == role[u] = "admin" /\ Active(u)

\* Mutant: COUNT(*) >= 1.
OneAdmin == \E u \in Users : ActiveAdmin(u)

\* (SELECT COUNT(*) ... WHERE role = 'admin' AND is_active = 1) > 1
TwoAdmins == \E u, v \in Users : u # v /\ ActiveAdmin(u) /\ ActiveAdmin(v)

\* find_session_user: the session joined with its owner, who must be active.
Valid(t) == session[t] = "open" /\ Active(owner[t])
AdminSession(t) == Valid(t) /\ role[owner[t]] = "admin"

\* DELETE FROM sessions for the tokens of S; a token is never drawn again.
Delete(S) == /\ session' = [t \in Tokens |-> IF t \in S THEN "closed" ELSE session[t]]
             /\ owner' = [t \in Tokens |-> IF t \in S THEN Nobody ELSE owner[t]]
Close(S) == /\ Delete(S)
            /\ proof' = [t \in Tokens |-> IF t \in S THEN 0 ELSE proof[t]]
Of(u) == {t \in Tokens : owner[t] = u}

\* INSERT INTO sessions with a new token for u, who proved generation g.
Open(t, u, g) == /\ session[t] = "unused"
                 /\ session' = [session EXCEPT ![t] = "open"]
                 /\ owner' = [owner EXCEPT ![t] = u]
                 /\ proof' = [proof EXCEPT ![t] = g]

\* History.  The sessions of u are to end, but those of S: a login of u between its
\* SELECT and its INSERT is late from now on.
Outdate(u, S) == /\ late' = late \cup {w \in Workers : at[w] = "open" /\ actor[w] = u}
                 /\ stray' = {t \in stray \ S : session'[t] = "open"}

Begin(w, step, a, t, u) ==
  /\ at[w] = "idle"
  /\ at' = [at EXCEPT ![w] = step]
  /\ actor' = [actor EXCEPT ![w] = a]
  /\ tok' = [tok EXCEPT ![w] = t]
  /\ target' = [target EXCEPT ![w] = u]

\* The handler ends and its locals with it.
End(w) ==
  /\ at' = [at EXCEPT ![w] = "idle"]
  /\ actor' = [actor EXCEPT ![w] = Nobody]
  /\ tok' = [tok EXCEPT ![w] = NoToken]
  /\ left' = [left EXCEPT ![w] = {}]
  /\ target' = [target EXCEPT ![w] = Nobody]
  /\ want' = [want EXCEPT ![w] = Keep]
  /\ seen' = [seen EXCEPT ![w] = Blank]

\* A database with an administrator (ensure_bootstrap_admin), some accounts and
\* some sessions of theirs.
Init ==
  /\ role \in [Users -> Roles \cup {"none"}]
  /\ power \in [Users -> Powers]
  /\ OneAdmin
  /\ \A u \in Users : role[u] = "none" => power[u] = "on"
  /\ password = [u \in Users |-> 0]
  /\ session \in [Tokens -> {"unused", "open"}]
  /\ owner \in [Tokens -> Users \cup {Nobody}]
  /\ \A t \in Tokens :
       \/ session[t] = "unused" /\ owner[t] = Nobody
       \/ /\ session[t] = "open" /\ owner[t] # Nobody
          /\ role[owner[t]] # "none" /\ Active(owner[t])
  /\ proof = [t \in Tokens |-> 0]
  /\ at = [w \in Workers |-> "idle"]
  /\ actor = [w \in Workers |-> Nobody]
  /\ tok = [w \in Workers |-> NoToken]
  /\ left = [w \in Workers |-> {}]
  /\ target = [w \in Workers |-> Nobody]
  /\ want = [w \in Workers |-> Keep]
  /\ seen = [w \in Workers |-> Blank]
  /\ late = {} /\ stray = {}

-----------------------------------------------------------------------------
(* login, register, logout, revoke_my_session                              *)

\* Mutant: is_active is not looked at.
LoginSelectUnchecked(w, u) ==
  /\ role[u] # "none"
  /\ Begin(w, "open", u, NoToken, u)
  /\ seen' = [seen EXCEPT ![w] = Row(u)]
  /\ UNCHANGED <<users, sessions, left, want, history>>

\* The row of the username, a password that fits its hash, is_active.  A wrong
\* password or a disabled account ends the request here.
LoginSelect(w, u) ==
  /\ role[u] # "none" /\ Active(u)
  /\ Begin(w, "open", u, NoToken, u)
  /\ seen' = [seen EXCEPT ![w] = Row(u)]
  /\ UNCHANGED <<users, sessions, left, want, history>>

\* INSERT INTO sessions, audit row, commit: nothing is read again.
LoginOpen(w, t) ==
  /\ at[w] = "open"
  /\ Open(t, actor[w], seen[w].password)
  /\ late' = late \ {w}
  /\ stray' = stray \cup {x \in {t} : w \in late}
  /\ End(w)
  /\ UNCHANGED users

\* The account and its first session are one transaction.
Register(u, t) ==
  /\ role[u] = "none"
  /\ role' = [role EXCEPT ![u] = RegisterRole]
  /\ Open(t, u, password[u])
  /\ UNCHANGED <<power, password, mem, history>>

\* The DELETE goes by the cookie alone.
Logout(t) ==
  /\ session[t] = "open"
  /\ Close({t}) /\ stray' = stray \ {t}
  /\ UNCHANGED <<users, mem, late>>

\* expires_at passes, or the hard deadline does (find_session_user,
\* purge_expired_sessions).
Expire(t) ==
  /\ session[t] = "open"
  /\ Close({t}) /\ stray' = stray \ {t}
  /\ UNCHANGED <<users, mem, late>>

\* The session with the id given must belong to the caller.
RevokeStart(w, t, s) ==
  /\ Valid(t)
  /\ session[s] = "open" /\ owner[s] = owner[t]
  /\ Begin(w, "revoke", owner[t], s, owner[t])
  /\ UNCHANGED <<users, sessions, left, want, seen, history>>

Revoke(w) ==
  /\ at[w] = "revoke"
  /\ Close({tok[w]}) /\ stray' = stray \ {tok[w]}
  /\ End(w)
  /\ UNCHANGED <<users, late>>

-----------------------------------------------------------------------------
(* change_my_password, reset_user_password                                 *)

\* current_user, then the current password against the hash.
ChangeStart(w, t) ==
  /\ Valid(t)
  /\ Begin(w, "change", owner[t], t, owner[t])
  /\ UNCHANGED <<users, sessions, left, want, seen, history>>

NewPassword(u) == /\ password[u] < MaxPassword
                  /\ password' = [password EXCEPT ![u] = @ + 1]

\* Every session of the user goes but the one of the request, which the user has
\* just vouched for with the current password.
ChangeCommit(w) ==
  /\ at[w] = "change"
  /\ NewPassword(actor[w])
  /\ Delete(Of(actor[w]) \ {tok[w]}) /\ Outdate(actor[w], {tok[w]})
  /\ proof' = [t \in Tokens |-> CASE t \notin Of(actor[w]) -> proof[t]
                                  [] t = tok[w] -> password[actor[w]] + 1
                                  [] OTHER -> 0]
  /\ End(w)
  /\ UNCHANGED <<role, power>>

ResetStart(w, t, u) ==
  /\ AdminSession(t)
  /\ role[u] # "none"
  /\ Begin(w, "reset", owner[t], NoToken, u)
  /\ UNCHANGED <<users, sessions, left, want, seen, history>>

\* Mutant: the sessions of the administrator go, not those of the user.
ResetCommitWrongUser(w) ==
  /\ at[w] = "reset"
  /\ NewPassword(target[w])
  /\ Close(Of(actor[w])) /\ Outdate(target[w], {})
  /\ End(w)
  /\ UNCHANGED <<role, power>>

ResetCommit(w) ==
  /\ at[w] = "reset"
  /\ NewPassword(target[w])
  /\ Close(Of(target[w])) /\ Outdate(target[w], {})
  /\ End(w)
  /\ UNCHANGED <<role, power>>

-----------------------------------------------------------------------------
(* create_user                                                             *)

CreateStart(w, t) ==
  /\ AdminSession(t)
  /\ Begin(w, "create", Nobody, NoToken, Nobody)
  /\ UNCHANGED <<users, sessions, left, want, seen, history>>

\* The unique username and the fresh id make it a new account.
CreateCommit(w, u, r) ==
  /\ at[w] = "create"
  /\ role[u] = "none"
  /\ role' = [role EXCEPT ![u] = r]
  /\ End(w)
  /\ UNCHANGED <<power, password, sessions, history>>

-----------------------------------------------------------------------------
(* update_user and batch_update_users: apply_user_update for each account. *)

UpdateStart(w, t, S, c) ==
  /\ AdminSession(t)
  /\ S # {} /\ \A u \in S : role[u] # "none"
  /\ Begin(w, "fetch", owner[t], NoToken, Nobody)
  /\ left' = [left EXCEPT ![w] = S]
  /\ want' = [want EXCEPT ![w] = c]
  /\ UNCHANGED <<users, sessions, seen, history>>

\* Mutant: a field the request leaves out is written as it came.
PickUnmerged(new, old) == new

\* update.role if update.role is not None else old_role
Pick(new, old) == IF new = "keep" THEN old ELSE new

NewRole(w) == Pick(want[w].role, seen[w].role)
NewPower(w) == Pick(want[w].power, seen[w].power)

\* One account is dealt with; a batch goes on with the next.
NextAccount(w) ==
  IF left[w] = {} THEN End(w)
  ELSE /\ at' = [at EXCEPT ![w] = "fetch"]
       /\ target' = [target EXCEPT ![w] = Nobody]
       /\ seen' = [seen EXCEPT ![w] = Blank]
       /\ UNCHANGED <<actor, tok, left, want>>

\* fetch_user, which does not read the password.
Fetch(w, u) ==
  /\ at[w] = "fetch"
  /\ u \in left[w]
  /\ at' = [at EXCEPT ![w] = "apply"]
  /\ target' = [target EXCEPT ![w] = u]
  /\ left' = [left EXCEPT ![w] = @ \ {u}]
  /\ seen' = [seen EXCEPT ![w] = [Row(u) EXCEPT !.password = 0]]
  /\ UNCHANGED <<users, sessions, actor, tok, want, history>>

\* On oneself neither the role may change nor the account end up disabled.
OnSelf(w) == /\ target[w] = actor[w]
             /\ NewRole(w) # seen[w].role \/ NewPower(w) = "off"
NoChange(w) == NewRole(w) = seen[w].role /\ NewPower(w) = seen[w].power

\* Mutant: only a change of the role demotes.
DemotingByRole(w) == /\ seen[w].role = "admin" /\ seen[w].power = "on"
                     /\ NewRole(w) # "admin"

\* The row as it was read was an active administrator's and will not be.
Demoting(w) == /\ seen[w].role = "admin" /\ seen[w].power = "on"
               /\ ~(NewRole(w) = "admin" /\ NewPower(w) = "on")

Raising(w) == NewRole(w) = "admin" /\ NewPower(w) = "on"

\* No other update is between its SELECT and its UPDATE of the same account.
AloneOnTarget(w) == \A v \in Workers \ {w} : at[v] = "apply" => target[v] # target[w]

\* Mutant: a disabled account keeps its sessions.
ApplyKeepsSessions(w) ==
  /\ at[w] = "apply"
  /\ ~OnSelf(w) /\ ~NoChange(w)
  /\ Demoting(w) => TwoAdmins
  /\ role' = [role EXCEPT ![target[w]] = NewRole(w)]
  /\ power' = [power EXCEPT ![target[w]] = NewPower(w)]
  /\ NextAccount(w)
  /\ UNCHANGED <<password, sessions>>
  /\ IF NewPower(w) = "off" THEN Outdate(target[w], {}) ELSE UNCHANGED history

\* Both columns are written from the row as it was read; the guard on the last
\* administrator is evaluated by the UPDATE itself, but only if that row was an
\* active administrator's.
Apply(w) ==
  /\ at[w] = "apply"
  /\ ~OnSelf(w) /\ ~NoChange(w)
  /\ Demoting(w) => TwoAdmins
  /\ Raising(w) => RaisesRace \/ AloneOnTarget(w)
  /\ role' = [role EXCEPT ![target[w]] = NewRole(w)]
  /\ power' = [power EXCEPT ![target[w]] = NewPower(w)]
  /\ IF NewPower(w) = "off" THEN Close(Of(target[w])) /\ Outdate(target[w], {})
                             ELSE UNCHANGED <<sessions, history>>
  /\ NextAccount(w)
  /\ UNCHANGED password

\* 409, or nothing to do.
Refuse(w) ==
  /\ at[w] = "apply"
  /\ OnSelf(w) \/ NoChange(w) \/ (Demoting(w) /\ ~TwoAdmins)
  /\ NextAccount(w)
  /\ UNCHANGED <<users, sessions, history>>

\* The database is busy, or the server ends: the handler's transaction is rolled
\* back, what a batch did before stays.
GiveUp(w) ==
  /\ at[w] # "idle"
  /\ late' = late \ {w}
  /\ End(w)
  /\ UNCHANGED <<users, sessions, stray>>

-----------------------------------------------------------------------------
Continue(w) ==
  \/ ChangeCommit(w) \/ ResetCommit(w) \/ Revoke(w) \/ Apply(w) \/ Refuse(w) \/ GiveUp(w)
  \/ \E u \in Users : Fetch(w, u) \/ \E r \in Roles : CreateCommit(w, u, r)
  \/ \E t \in Tokens : LoginOpen(w, t)

Start(w) ==
  \/ \E u \in Users : LoginSelect(w, u)
  \/ \E t \in Tokens :
       \/ ChangeStart(w, t) \/ CreateStart(w, t)
       \/ \E s \in Tokens : RevokeStart(w, t, s)
       \/ \E u \in Users : ResetStart(w, t, u)
       \/ \E S \in SUBSET Users, c \in Changes : UpdateStart(w, t, S, c)

Next ==
  \/ \E w \in Workers : Start(w) \/ Continue(w)
  \/ \E t \in Tokens : Logout(t) \/ Expire(t) \/ \E u \in Users : Register(u, t)

Spec == Init /\ [][Next]_vars

-----------------------------------------------------------------------------
\* A session that still works was opened with the password its user has now, or
\* belongs to the device the user set that password from: a reset or a change of
\* the password ends every other (reset_user_password, change_my_password).
SessionsAreCurrent ==
  \A t \in Tokens : session[t] = "open" => proof[t] = password[owner[t]]

\* The same, but for a session whose own login the change met between its SELECT and
\* its INSERT (login): nothing else ever leaves a session with an old password.
OnlyStraysAreStale ==
  \A t \in Tokens : session[t] = "open" /\ proof[t] # password[owner[t]] => t \in stray

\* A disabled account has no session left that could work again when the account is
\* enabled (apply_user_update), but for one whose login the disabling met in the middle.
DisabledIsOut ==
  \A t \in Tokens : session[t] = "open" /\ ~Active(owner[t]) => t \in stray

\* Such sessions do not add up, whatever the accounts go through: each reset, change or
\* disabling takes those the ones before it left, so an account has fewer of them
\* than the server has threads (login, apply_user_update, reset_user_password).
StraysAreFew == \A u \in Users : Cardinality(stray \cap Of(u)) < Cardinality(Workers)

\* Whatever administrators do to each other at the same time, one is left
\* (apply_user_update).
AdminRemains == \E u \in Users : ActiveAdmin(u)

-----------------------------------------------------------------------------
(* Why they hold.  For sessions: a login that is not late still has its    *)
(* account as it read it, and the thread that ends an account's sessions   *)
(* is not logging in, so at least one thread adds no stray.  For           *)
(* administrators: no account becomes an active administrator inside       *)
(* another update of it (~RaisesRace).                                     *)

JobOK(w) ==
  /\ at[w] \in {"open", "change"} => actor[w] \in Users
  /\ at[w] \in {"change", "revoke"} => tok[w] \in Tokens /\ session[tok[w]] # "unused"
  /\ at[w] = "change" /\ owner[tok[w]] # Nobody => /\ owner[tok[w]] = actor[w]
                                                 /\ Active(actor[w])
  /\ at[w] \in {"reset", "apply"} => target[w] \in Users /\ role[target[w]] # "none"
  /\ at[w] = "apply" => seen[w].role # "none"
  /\ \A u \in left[w] : role[u] # "none"

\* The sessions that are open are the ones with an owner, strays are open, and an
\* account that is not there yet will be active.
Owned == /\ \A t \in Tokens : session[t] = "open" <=> owner[t] # Nobody
         /\ \A t \in stray : owner[t] # Nobody
         /\ \A u \in Users : role[u] = "none" => Active(u)

LoginOK(w) ==
  /\ at[w] = "open" /\ w \notin late => /\ seen[w].password = password[actor[w]]
                                        /\ Active(actor[w])
  /\ w \in late => at[w] = "open"

Base == TypeOK /\ Owned /\ \A w \in Workers : JobOK(w)

SessionInv == /\ Base /\ OnlyStraysAreStale /\ DisabledIsOut
              /\ \A w \in Workers : LoginOK(w)

\* The strays an account has and those it may yet get.
LateOf(u) == {w \in late : actor[w] = u}
FewInv == /\ SessionInv
          /\ IsFiniteSet(stray)
          /\ \A u \in Users : Cardinality(stray \cap Of(u)) + Cardinality(LateOf(u))
                               < Cardinality(Workers)

\* An account seen to be no active administrator has not become one since.
AdminInv == /\ Base /\ AdminRemains
            /\ \A w \in Workers :
                 at[w] = "apply" /\ ActiveAdmin(target[w]) =>
                   seen[w].role = "admin" /\ seen[w].power = "on"

=============================================================================
