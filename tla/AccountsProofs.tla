--------------------------- MODULE AccountsProofs ---------------------------
(***************************************************************************)
(* Proofs about Accounts, for every number of accounts, sessions and       *)
(* threads: types; that only a session whose own login met the change      *)
(* outlives its password or its account's disabling; that an account has   *)
(* fewer of those than there are threads; and that an active administrator *)
(* is left if no update raises an account inside another update of it.     *)
(***************************************************************************)
EXTENDS Accounts, FiniteSetTheorems, TLAPS

LEMMA BaseInit == Init => Base
  BY AccountsAssumption
  DEF Init, Base, TypeOK, Owned, JobOK, Active, Steps, Keep, Blank, Roles, Powers

\* What apply_user_update writes, with the types it needs.
Writes(w) ==
  /\ NewRole(w) \in Roles /\ NewPower(w) \in Powers
  /\ target[w] \in Users /\ role[target[w]] # "none"
  /\ role' = [role EXCEPT ![target[w]] = NewRole(w)]
  /\ power' = [power EXCEPT ![target[w]] = NewPower(w)]
  /\ NewPower(w) = "off" => /\ Close(Of(target[w]))
                            /\ Outdate(target[w], {})
  /\ NewPower(w) # "off" => UNCHANGED <<sessions, history>>
  /\ UNCHANGED password

\* The handler that has dealt with an account is about to fetch the next or idle, and
\* no other moves.
Moves(w) ==
  /\ at' \in [Workers -> Steps] /\ actor' \in [Workers -> Users \cup {Nobody}]
  /\ tok' \in [Workers -> Tokens \cup {NoToken}] /\ left' \in [Workers -> SUBSET Users]
  /\ target' \in [Workers -> Users \cup {Nobody}]
  /\ want' \in [Workers -> Changes \cup {Keep}]
  /\ seen' \in [Workers -> [role : Roles \cup {"none"}, power : Powers,
                            password : 0..MaxPassword]]
  /\ at'[w] \in {"idle", "fetch"} /\ left'[w] \subseteq left[w]
  /\ \A q \in Workers \ {w} :
       /\ at'[q] = at[q] /\ actor'[q] = actor[q] /\ tok'[q] = tok[q]
       /\ left'[q] = left[q] /\ target'[q] = target[q]
       /\ want'[q] = want[q] /\ seen'[q] = seen[q]

LEMMA ApplyEffect ==
  ASSUME Base, NEW w \in Workers, Apply(w)
  PROVE  Writes(w)
<1>1. target[w] \in Users /\ role[target[w]] # "none" /\ seen[w].role # "none"
  BY DEF Apply, Base, JobOK
<1>2. NewRole(w) \in Roles
  BY <1>1, AccountsAssumption DEF Base, TypeOK, Keep, Roles, NewRole, Pick
<1>3. NewPower(w) \in Powers
  BY <1>1, AccountsAssumption DEF Base, TypeOK, Keep, Powers, NewPower, Pick
<1> QED
  BY <1>1, <1>2, <1>3 DEF Apply, Writes

LEMMA NextEffect ==
  ASSUME Base, NEW w \in Workers, NextAccount(w)
  PROVE  Moves(w)
<1> USE AccountsAssumption DEF Base, TypeOK, Steps, Blank, Powers, Moves
<1>1. CASE End(w)
  BY <1>1 DEF End
<1>2. CASE /\ at' = [at EXCEPT ![w] = "fetch"]
           /\ target' = [target EXCEPT ![w] = Nobody]
           /\ seen' = [seen EXCEPT ![w] = Blank]
           /\ UNCHANGED <<actor, tok, left, want>>
  BY <1>2
<1> QED
  BY <1>1, <1>2 DEF NextAccount

LEMMA TypeStep ==
  ASSUME Base, [Next]_vars
  PROVE  TypeOK'
<1> USE AccountsAssumption
    DEF Base, TypeOK, Owned, JobOK, Active, Steps, Keep, Blank, Roles, Powers, users, sessions, mem, history
<1>1. ASSUME NEW w \in Workers, NEW u \in Users, LoginSelect(w, u)
       PROVE  TypeOK'
  BY <1>1 DEF LoginSelect, Begin, Row
<1>2. ASSUME NEW w \in Workers, NEW t \in Tokens, LoginOpen(w, t)
       PROVE  TypeOK'
  BY <1>2 DEF LoginOpen, Open, End
<1>3. ASSUME NEW u \in Users, NEW t \in Tokens, Register(u, t)
       PROVE  TypeOK'
  BY <1>3 DEF Register, Open
<1>4. ASSUME NEW t \in Tokens, Logout(t)
       PROVE  TypeOK'
  BY <1>4 DEF Logout, Close, Delete
<1>5. ASSUME NEW t \in Tokens, Expire(t)
       PROVE  TypeOK'
  BY <1>5 DEF Expire, Close, Delete
<1>6. ASSUME NEW w \in Workers, NEW t \in Tokens, NEW s \in Tokens, RevokeStart(w, t, s)
       PROVE  TypeOK'
  BY <1>6 DEF RevokeStart, Begin, Valid
<1>7. ASSUME NEW w \in Workers, Revoke(w)
       PROVE  TypeOK'
  BY <1>7 DEF Revoke, Close, Delete, End
<1>8. ASSUME NEW w \in Workers, NEW t \in Tokens, ChangeStart(w, t)
       PROVE  TypeOK'
  BY <1>8 DEF ChangeStart, Begin, Valid
<1>9. ASSUME NEW w \in Workers, ChangeCommit(w)
       PROVE  TypeOK'
  BY <1>9 DEF ChangeCommit, NewPassword, Delete, Outdate, Of, End
<1>10. ASSUME NEW w \in Workers, NEW t \in Tokens, NEW u \in Users, ResetStart(w, t, u)
       PROVE  TypeOK'
  BY <1>10 DEF ResetStart, Begin, AdminSession, Valid
<1>11. ASSUME NEW w \in Workers, ResetCommit(w)
       PROVE  TypeOK'
  BY <1>11 DEF ResetCommit, NewPassword, Close, Delete, Outdate, Of, End
<1>12. ASSUME NEW w \in Workers, NEW t \in Tokens, CreateStart(w, t)
       PROVE  TypeOK'
  BY <1>12 DEF CreateStart, Begin, AdminSession, Valid
<1>13. ASSUME NEW w \in Workers, NEW u \in Users, NEW r \in Roles, CreateCommit(w, u, r)
       PROVE  TypeOK'
  BY <1>13 DEF CreateCommit, End
<1>14. ASSUME NEW w \in Workers, NEW t \in Tokens, NEW S \in SUBSET Users, NEW c \in Changes, UpdateStart(w, t, S, c)
       PROVE  TypeOK'
  BY <1>14 DEF UpdateStart, Begin, AdminSession, Valid
<1>15. ASSUME NEW w \in Workers, NEW u \in Users, Fetch(w, u)
       PROVE  TypeOK'
  BY <1>15 DEF Fetch, Row
<1>16. ASSUME NEW w \in Workers, Apply(w)
       PROVE  TypeOK'
  <2>1. NextAccount(w) /\ (Demoting(w) => TwoAdmins) /\ ~NoChange(w) /\ at[w] = "apply"
    BY <1>16 DEF Apply
  <2>2. Writes(w)
    BY <1>16, ApplyEffect
  <2>3. Moves(w)
    BY <2>1, NextEffect
  <2> QED BY <2>1, <2>2, <2>3 DEF Writes, Moves, Close, Delete, Of, Outdate
<1>17. ASSUME NEW w \in Workers, Refuse(w)
       PROVE  TypeOK'
  <2>1. NextAccount(w) /\ UNCHANGED <<users, sessions, history>>
    BY <1>17 DEF Refuse
  <2>2. Moves(w)
    BY <2>1, NextEffect
  <2> QED BY <2>1, <2>2 DEF Moves
<1>18. ASSUME NEW w \in Workers, GiveUp(w)
       PROVE  TypeOK'
  BY <1>18 DEF GiveUp, End
<1>19. CASE UNCHANGED vars
  BY <1>19 DEF vars
<1> HIDE DEF Base, TypeOK, Owned, JobOK, users, sessions, mem, history
<1> QED
  BY <1>1, <1>2, <1>3, <1>4, <1>5, <1>6, <1>7, <1>8, <1>9, <1>10, <1>11,
     <1>12, <1>13, <1>14, <1>15, <1>16, <1>17, <1>18, <1>19, Zenon
  DEF Next, Start, Continue

\* Every open session has an owner.
LEMMA OwnedStep ==
  ASSUME Base, [Next]_vars
  PROVE  Owned'
<1> USE AccountsAssumption
    DEF Base, TypeOK, Owned, JobOK, Active, users, sessions, mem, history
<1>1. ASSUME NEW w \in Workers, NEW u \in Users, LoginSelect(w, u)
       PROVE  Owned'
  BY <1>1 DEF LoginSelect, Begin, Row
<1>2. ASSUME NEW w \in Workers, NEW t \in Tokens, LoginOpen(w, t)
       PROVE  Owned'
  BY <1>2 DEF LoginOpen, Open, End
<1>3. ASSUME NEW u \in Users, NEW t \in Tokens, Register(u, t)
       PROVE  Owned'
  BY <1>3 DEF Register, Open
<1>4. ASSUME NEW t \in Tokens, Logout(t)
       PROVE  Owned'
  BY <1>4 DEF Logout, Close, Delete
<1>5. ASSUME NEW t \in Tokens, Expire(t)
       PROVE  Owned'
  BY <1>5 DEF Expire, Close, Delete
<1>6. ASSUME NEW w \in Workers, NEW t \in Tokens, NEW s \in Tokens, RevokeStart(w, t, s)
       PROVE  Owned'
  BY <1>6 DEF RevokeStart, Begin, Valid
<1>7. ASSUME NEW w \in Workers, Revoke(w)
       PROVE  Owned'
  BY <1>7 DEF Revoke, Close, Delete, End
<1>8. ASSUME NEW w \in Workers, NEW t \in Tokens, ChangeStart(w, t)
       PROVE  Owned'
  BY <1>8 DEF ChangeStart, Begin, Valid
<1>9. ASSUME NEW w \in Workers, ChangeCommit(w)
       PROVE  Owned'
  BY <1>9 DEF ChangeCommit, NewPassword, Delete, Outdate, Of, End
<1>10. ASSUME NEW w \in Workers, NEW t \in Tokens, NEW u \in Users, ResetStart(w, t, u)
       PROVE  Owned'
  BY <1>10 DEF ResetStart, Begin, AdminSession, Valid
<1>11. ASSUME NEW w \in Workers, ResetCommit(w)
       PROVE  Owned'
  BY <1>11 DEF ResetCommit, NewPassword, Close, Delete, Outdate, Of, End
<1>12. ASSUME NEW w \in Workers, NEW t \in Tokens, CreateStart(w, t)
       PROVE  Owned'
  BY <1>12 DEF CreateStart, Begin, AdminSession, Valid
<1>13. ASSUME NEW w \in Workers, NEW u \in Users, NEW r \in Roles, CreateCommit(w, u, r)
       PROVE  Owned'
  BY <1>13 DEF CreateCommit, End
<1>14. ASSUME NEW w \in Workers, NEW t \in Tokens, NEW S \in SUBSET Users, NEW c \in Changes, UpdateStart(w, t, S, c)
       PROVE  Owned'
  BY <1>14 DEF UpdateStart, Begin, AdminSession, Valid
<1>15. ASSUME NEW w \in Workers, NEW u \in Users, Fetch(w, u)
       PROVE  Owned'
  BY <1>15 DEF Fetch, Row
<1>16. ASSUME NEW w \in Workers, Apply(w)
       PROVE  Owned'
  <2>1. Writes(w)
    BY <1>16, ApplyEffect
  <2>2. \A u \in Users : role'[u] = "none" => Active(u)'
    BY <2>1 DEF Writes, Roles
  <2>3. CASE NewPower(w) = "off"
    BY <2>1, <2>2, <2>3 DEF Writes, Close, Delete, Of, Outdate
  <2>4. CASE NewPower(w) # "off"
    BY <2>1, <2>2, <2>4 DEF Writes
  <2> QED BY <2>3, <2>4
<1>17. ASSUME NEW w \in Workers, Refuse(w)
       PROVE  Owned'
  BY <1>17 DEF Refuse, NextAccount, End
<1>18. ASSUME NEW w \in Workers, GiveUp(w)
       PROVE  Owned'
  BY <1>18 DEF GiveUp, End
<1>19. CASE UNCHANGED vars
  BY <1>19 DEF vars
<1> QED
  BY <1>1, <1>2, <1>3, <1>4, <1>5, <1>6, <1>7, <1>8, <1>9, <1>10, <1>11,
     <1>12, <1>13, <1>14, <1>15, <1>16, <1>17, <1>18, <1>19, Zenon
  DEF Next, Start, Continue

\* A handler in the middle of a job has what the rest of the job needs.
LEMMA JobStep ==
  ASSUME Base, [Next]_vars
  PROVE  \A q \in Workers : JobOK(q)'
<1> USE AccountsAssumption
    DEF Base, TypeOK, Owned, JobOK, Active, Roles, users, sessions, mem, history
<1>1. ASSUME NEW w \in Workers, NEW u \in Users, LoginSelect(w, u)
       PROVE  \A q \in Workers : JobOK(q)'
  BY <1>1 DEF LoginSelect, Begin, Row
<1>2. ASSUME NEW w \in Workers, NEW t \in Tokens, LoginOpen(w, t)
       PROVE  \A q \in Workers : JobOK(q)'
  BY <1>2 DEF LoginOpen, Open, End
<1>3. ASSUME NEW u \in Users, NEW t \in Tokens, Register(u, t)
       PROVE  \A q \in Workers : JobOK(q)'
  BY <1>3 DEF Register, Open
<1>4. ASSUME NEW t \in Tokens, Logout(t)
       PROVE  \A q \in Workers : JobOK(q)'
  BY <1>4 DEF Logout, Close, Delete
<1>5. ASSUME NEW t \in Tokens, Expire(t)
       PROVE  \A q \in Workers : JobOK(q)'
  BY <1>5 DEF Expire, Close, Delete
<1>6. ASSUME NEW w \in Workers, NEW t \in Tokens, NEW s \in Tokens, RevokeStart(w, t, s)
       PROVE  \A q \in Workers : JobOK(q)'
  BY <1>6 DEF RevokeStart, Begin, Valid
<1>7. ASSUME NEW w \in Workers, Revoke(w)
       PROVE  \A q \in Workers : JobOK(q)'
  BY <1>7 DEF Revoke, Close, Delete, End
<1>8. ASSUME NEW w \in Workers, NEW t \in Tokens, ChangeStart(w, t)
       PROVE  \A q \in Workers : JobOK(q)'
  BY <1>8 DEF ChangeStart, Begin, Valid
<1>9. ASSUME NEW w \in Workers, ChangeCommit(w)
       PROVE  \A q \in Workers : JobOK(q)'
  BY <1>9 DEF ChangeCommit, NewPassword, Delete, Outdate, Of, End
<1>10. ASSUME NEW w \in Workers, NEW t \in Tokens, NEW u \in Users, ResetStart(w, t, u)
       PROVE  \A q \in Workers : JobOK(q)'
  BY <1>10 DEF ResetStart, Begin, AdminSession, Valid
<1>11. ASSUME NEW w \in Workers, ResetCommit(w)
       PROVE  \A q \in Workers : JobOK(q)'
  BY <1>11 DEF ResetCommit, NewPassword, Close, Delete, Outdate, Of, End
<1>12. ASSUME NEW w \in Workers, NEW t \in Tokens, CreateStart(w, t)
       PROVE  \A q \in Workers : JobOK(q)'
  BY <1>12 DEF CreateStart, Begin, AdminSession, Valid
<1>13. ASSUME NEW w \in Workers, NEW u \in Users, NEW r \in Roles, CreateCommit(w, u, r)
       PROVE  \A q \in Workers : JobOK(q)'
  BY <1>13 DEF CreateCommit, End
<1>14. ASSUME NEW w \in Workers, NEW t \in Tokens, NEW S \in SUBSET Users, NEW c \in Changes, UpdateStart(w, t, S, c)
       PROVE  \A q \in Workers : JobOK(q)'
  BY <1>14 DEF UpdateStart, Begin, AdminSession, Valid
<1>15. ASSUME NEW w \in Workers, NEW u \in Users, Fetch(w, u)
       PROVE  \A q \in Workers : JobOK(q)'
  BY <1>15 DEF Fetch, Row
<1>16. ASSUME NEW w \in Workers, Apply(w)
       PROVE  \A q \in Workers : JobOK(q)'
  <2>1. NextAccount(w) /\ (Demoting(w) => TwoAdmins) /\ ~NoChange(w) /\ at[w] = "apply"
    BY <1>16 DEF Apply
  <2>2. Writes(w)
    BY <1>16, ApplyEffect
  <2>3. Moves(w)
    BY <2>1, NextEffect
  <2>4. \A u \in Users : role[u] # "none" => role'[u] # "none"
    BY <2>2 DEF Writes
  <2>5. ASSUME NEW q \in Workers PROVE JobOK(q)'
    <3>1. CASE q = w
      BY <2>3, <2>4, <3>1 DEF Moves
    <3>2. CASE q # w
      <4>1. CASE NewPower(w) = "off"
        BY <2>2, <2>3, <2>4, <3>2, <4>1 DEF Writes, Moves, Close, Delete, Of
      <4>2. CASE NewPower(w) # "off"
        BY <2>2, <2>3, <2>4, <3>2, <4>2 DEF Writes, Moves, Powers
      <4> QED BY <4>1, <4>2
    <3> QED BY <3>1, <3>2
  <2> QED BY <2>5
<1>17. ASSUME NEW w \in Workers, Refuse(w)
       PROVE  \A q \in Workers : JobOK(q)'
  <2>1. NextAccount(w) /\ at[w] = "apply" /\ UNCHANGED <<users, sessions, history>>
    BY <1>17 DEF Refuse
  <2>2. Moves(w)
    BY <2>1, NextEffect
  <2>3. ASSUME NEW q \in Workers PROVE JobOK(q)'
    <3>1. CASE q = w
      BY <2>1, <2>2, <3>1 DEF Moves
    <3>2. CASE q # w
      BY <2>1, <2>2, <3>2 DEF Moves
    <3> QED BY <3>1, <3>2
  <2> QED BY <2>3
<1>18. ASSUME NEW w \in Workers, GiveUp(w)
       PROVE  \A q \in Workers : JobOK(q)'
  BY <1>18 DEF GiveUp, End
<1>19. CASE UNCHANGED vars
  BY <1>19 DEF vars
<1> HIDE DEF Base, TypeOK, Owned, JobOK, users, sessions, mem, history
<1> QED
  BY <1>1, <1>2, <1>3, <1>4, <1>5, <1>6, <1>7, <1>8, <1>9, <1>10, <1>11,
     <1>12, <1>13, <1>14, <1>15, <1>16, <1>17, <1>18, <1>19, Zenon
  DEF Next, Start, Continue

LEMMA BaseStep == Base /\ [Next]_vars => Base'
<1> SUFFICES ASSUME Base, [Next]_vars PROVE Base'
  OBVIOUS
<1> QED BY TypeStep, OwnedStep, JobStep DEF Base

\* Types: no handler writes what a column may not hold.
THEOREM AccountsTyped == Spec => []TypeOK
<1>1. Base => TypeOK
  BY DEF Base
<1> QED BY BaseInit, BaseStep, <1>1, PTL DEF Spec

-----------------------------------------------------------------------------
LEMMA SessionStep ==
  ASSUME SessionInv, [Next]_vars
  PROVE  OnlyStraysAreStale' /\ DisabledIsOut' /\ \A q \in Workers : LoginOK(q)'
<1> USE AccountsAssumption
    DEF SessionInv, Base, TypeOK, Owned, JobOK, OnlyStraysAreStale, DisabledIsOut, LoginOK,
        Active, Powers, users, sessions, mem, history
<1>1. ASSUME NEW w \in Workers, NEW u \in Users, LoginSelect(w, u)
       PROVE  OnlyStraysAreStale' /\ DisabledIsOut' /\ \A q \in Workers : LoginOK(q)'
  BY <1>1 DEF LoginSelect, Begin, Row
<1>2. ASSUME NEW w \in Workers, NEW t \in Tokens, LoginOpen(w, t)
       PROVE  OnlyStraysAreStale' /\ DisabledIsOut' /\ \A q \in Workers : LoginOK(q)'
  BY <1>2 DEF LoginOpen, Open, End
<1>3. ASSUME NEW u \in Users, NEW t \in Tokens, Register(u, t)
       PROVE  OnlyStraysAreStale' /\ DisabledIsOut' /\ \A q \in Workers : LoginOK(q)'
  BY <1>3 DEF Register, Open
<1>4. ASSUME NEW t \in Tokens, Logout(t)
       PROVE  OnlyStraysAreStale' /\ DisabledIsOut' /\ \A q \in Workers : LoginOK(q)'
  BY <1>4 DEF Logout, Close, Delete
<1>5. ASSUME NEW t \in Tokens, Expire(t)
       PROVE  OnlyStraysAreStale' /\ DisabledIsOut' /\ \A q \in Workers : LoginOK(q)'
  BY <1>5 DEF Expire, Close, Delete
<1>6. ASSUME NEW w \in Workers, NEW t \in Tokens, NEW s \in Tokens, RevokeStart(w, t, s)
       PROVE  OnlyStraysAreStale' /\ DisabledIsOut' /\ \A q \in Workers : LoginOK(q)'
  BY <1>6 DEF RevokeStart, Begin, Valid
<1>7. ASSUME NEW w \in Workers, Revoke(w)
       PROVE  OnlyStraysAreStale' /\ DisabledIsOut' /\ \A q \in Workers : LoginOK(q)'
  BY <1>7 DEF Revoke, Close, Delete, End
<1>8. ASSUME NEW w \in Workers, NEW t \in Tokens, ChangeStart(w, t)
       PROVE  OnlyStraysAreStale' /\ DisabledIsOut' /\ \A q \in Workers : LoginOK(q)'
  BY <1>8 DEF ChangeStart, Begin, Valid
<1>9. ASSUME NEW w \in Workers, ChangeCommit(w)
       PROVE  OnlyStraysAreStale' /\ DisabledIsOut' /\ \A q \in Workers : LoginOK(q)'
  BY <1>9 DEF ChangeCommit, NewPassword, Delete, Outdate, Of, End
<1>10. ASSUME NEW w \in Workers, NEW t \in Tokens, NEW u \in Users, ResetStart(w, t, u)
       PROVE  OnlyStraysAreStale' /\ DisabledIsOut' /\ \A q \in Workers : LoginOK(q)'
  BY <1>10 DEF ResetStart, Begin, AdminSession, Valid
<1>11. ASSUME NEW w \in Workers, ResetCommit(w)
       PROVE  OnlyStraysAreStale' /\ DisabledIsOut' /\ \A q \in Workers : LoginOK(q)'
  BY <1>11 DEF ResetCommit, NewPassword, Close, Delete, Outdate, Of, End
<1>12. ASSUME NEW w \in Workers, NEW t \in Tokens, CreateStart(w, t)
       PROVE  OnlyStraysAreStale' /\ DisabledIsOut' /\ \A q \in Workers : LoginOK(q)'
  BY <1>12 DEF CreateStart, Begin, AdminSession, Valid
<1>13. ASSUME NEW w \in Workers, NEW u \in Users, NEW r \in Roles, CreateCommit(w, u, r)
       PROVE  OnlyStraysAreStale' /\ DisabledIsOut' /\ \A q \in Workers : LoginOK(q)'
  BY <1>13 DEF CreateCommit, End
<1>14. ASSUME NEW w \in Workers, NEW t \in Tokens, NEW S \in SUBSET Users, NEW c \in Changes, UpdateStart(w, t, S, c)
       PROVE  OnlyStraysAreStale' /\ DisabledIsOut' /\ \A q \in Workers : LoginOK(q)'
  BY <1>14 DEF UpdateStart, Begin, AdminSession, Valid
<1>15. ASSUME NEW w \in Workers, NEW u \in Users, Fetch(w, u)
       PROVE  OnlyStraysAreStale' /\ DisabledIsOut' /\ \A q \in Workers : LoginOK(q)'
  BY <1>15 DEF Fetch, Row
<1>16. ASSUME NEW w \in Workers, Apply(w)
       PROVE  OnlyStraysAreStale' /\ DisabledIsOut' /\ \A q \in Workers : LoginOK(q)'
  <2>1. NextAccount(w) /\ (Demoting(w) => TwoAdmins) /\ ~NoChange(w) /\ at[w] = "apply"
    BY <1>16 DEF Apply
  <2>2. Writes(w)
    BY <1>16, ApplyEffect
  <2>3. Moves(w)
    BY <2>1, NextEffect
  <2>4. OnlyStraysAreStale' /\ DisabledIsOut'
    BY <2>2 DEF Writes, Close, Delete, Of, Outdate
  <2>5. ASSUME NEW q \in Workers PROVE LoginOK(q)'
    <3>1. at'[q] = "open" <=> q # w /\ at[q] = "open"
      BY <2>1, <2>3 DEF Moves
    <3>2. CASE NewPower(w) = "off"
      BY <2>1, <2>2, <2>3, <3>1, <3>2 DEF Writes, Moves, Outdate
    <3>3. CASE NewPower(w) # "off"
      BY <2>1, <2>2, <2>3, <3>1, <3>3 DEF Writes, Moves
    <3> QED BY <3>2, <3>3
  <2> QED BY <2>4, <2>5
<1>17. ASSUME NEW w \in Workers, Refuse(w)
       PROVE  OnlyStraysAreStale' /\ DisabledIsOut' /\ \A q \in Workers : LoginOK(q)'
  <2>1. NextAccount(w) /\ at[w] = "apply" /\ UNCHANGED <<users, sessions, history>>
    BY <1>17 DEF Refuse
  <2>2. Moves(w)
    BY <2>1, NextEffect
  <2>3. OnlyStraysAreStale' /\ DisabledIsOut'
    BY <2>1
  <2>4. ASSUME NEW q \in Workers PROVE LoginOK(q)'
    BY <2>1, <2>2 DEF Moves
  <2> QED BY <2>3, <2>4
<1>18. ASSUME NEW w \in Workers, GiveUp(w)
       PROVE  OnlyStraysAreStale' /\ DisabledIsOut' /\ \A q \in Workers : LoginOK(q)'
  BY <1>18 DEF GiveUp, End
<1>19. CASE UNCHANGED vars
  BY <1>19 DEF vars
<1> QED
  BY <1>1, <1>2, <1>3, <1>4, <1>5, <1>6, <1>7, <1>8, <1>9, <1>10, <1>11,
     <1>12, <1>13, <1>14, <1>15, <1>16, <1>17, <1>18, <1>19, Zenon
  DEF Next, Start, Continue

LEMMA SessionInvInit == Init => SessionInv
  BY BaseInit DEF Init, SessionInv, OnlyStraysAreStale, DisabledIsOut, LoginOK, Base, TypeOK

\* The invariant behind the three theorems on sessions: what a login has read of its
\* account between its SELECT and its INSERT is still so (login), unless the sessions of
\* the account were ended in between.
THEOREM LoginsAreCurrent == Spec => []SessionInv
<1>1. SessionInv /\ [Next]_vars => SessionInv'
  BY SessionStep, BaseStep DEF SessionInv
<1> QED BY SessionInvInit, <1>1, PTL DEF Spec

\* Resetting or changing a password ends every session it should (reset_user_password,
\* change_my_password), except one whose login it met between its SELECT and its INSERT.
THEOREM SessionsEnd == Spec => []OnlyStraysAreStale
<1>1. SessionInv => OnlyStraysAreStale
  BY DEF SessionInv
<1> QED BY LoginsAreCurrent, <1>1, PTL

\* Disabling an account ends its sessions, so none comes back to life when the account is
\* enabled again (apply_user_update), with the same exception.
THEOREM TheDisabledAreOut == Spec => []DisabledIsOut
<1>1. SessionInv => DisabledIsOut
  BY DEF SessionInv
<1> QED BY LoginsAreCurrent, <1>1, PTL

-----------------------------------------------------------------------------
Few(u) == Cardinality(stray \cap Of(u)) + Cardinality(LateOf(u)) < Cardinality(Workers)

LEMMA Smaller ==
  ASSUME NEW S, NEW T, IsFiniteSet(T), S \subseteq T
  PROVE  /\ IsFiniteSet(S) /\ Cardinality(S) \in Nat /\ Cardinality(T) \in Nat
         /\ Cardinality(S) <= Cardinality(T)
  BY FS_Subset, FS_CardinalityType

LEMMA FewNumbers ==
  ASSUME FewInv, NEW u \in Users
  PROVE  /\ IsFiniteSet(stray \cap Of(u)) /\ IsFiniteSet(LateOf(u))
         /\ Cardinality(stray \cap Of(u)) \in Nat /\ Cardinality(LateOf(u)) \in Nat
         /\ Cardinality(Workers) \in Nat
<1>1. LateOf(u) \subseteq Workers
  BY DEF LateOf, FewInv, SessionInv, Base, TypeOK
<1>2. IsFiniteSet(Workers) /\ IsFiniteSet(stray)
  BY AccountsAssumption DEF FewInv
<1> QED BY <1>1, <1>2, Smaller

\* A step that adds no stray and makes no login late keeps them few.
LEMMA ShrinkKeepsFew ==
  ASSUME FewInv, NEW u \in Users,
         (stray \cap Of(u))' \subseteq stray \cap Of(u),
         LateOf(u)' \subseteq LateOf(u)
  PROVE  Few(u)'
<1>1. /\ IsFiniteSet(stray \cap Of(u)) /\ IsFiniteSet(LateOf(u))
      /\ Cardinality(Workers) \in Nat /\ Few(u)
  BY FewNumbers DEF FewInv, Few
<1>2. /\ Cardinality((stray \cap Of(u))') \in Nat /\ Cardinality(stray \cap Of(u)) \in Nat
      /\ Cardinality((stray \cap Of(u))') <= Cardinality(stray \cap Of(u))
  BY <1>1, Smaller
<1>3. /\ Cardinality(LateOf(u)') \in Nat /\ Cardinality(LateOf(u)) \in Nat
      /\ Cardinality(LateOf(u)') <= Cardinality(LateOf(u))
  BY <1>1, Smaller
<1> QED BY <1>1, <1>2, <1>3 DEF Few

\* Ending the sessions of an account leaves it no stray, and the thread that ends them is
\* not logging in.
LEMMA EndKeepsFew ==
  ASSUME FewInv, NEW w \in Workers, NEW x \in Users, NEW S, Outdate(x, S), at[w] # "open",
         (stray \cap Of(x))' = {},
         \A u \in Users \ {x} : Of(u)' \subseteq Of(u),
         \A q \in Workers \ {w} : actor'[q] = actor[q]
  PROVE  \A u \in Users : Few(u)'
<1>1. w \notin late' /\ late' \subseteq Workers /\ stray' \subseteq stray
  BY DEF FewInv, SessionInv, Base, TypeOK, LoginOK, Outdate
<1>2. Few(x)'
  <2>1. LateOf(x)' \subseteq Workers \ {w}
    BY <1>1 DEF LateOf
  <2>2. /\ IsFiniteSet(Workers \ {w}) /\ Cardinality(Workers \ {w}) = Cardinality(Workers) - 1
        /\ Cardinality(Workers) \in Nat
    BY AccountsAssumption, FS_RemoveElement, FS_CardinalityType
  <2>3. Cardinality(LateOf(x)') \in Nat /\ Cardinality(LateOf(x)') <= Cardinality(Workers) - 1
    BY <2>1, <2>2, Smaller
  <2>4. Cardinality((stray \cap Of(x))') = 0
    BY FS_EmptySet
  <2> QED BY <2>2, <2>3, <2>4 DEF Few
<1>3. ASSUME NEW u \in Users \ {x}
      PROVE  Few(u)'
  <2>1. LateOf(u)' \subseteq LateOf(u)
    BY <1>1 DEF LateOf, Outdate
  <2>2. (stray \cap Of(u))' \subseteq stray \cap Of(u)
    BY <1>1
  <2> QED BY <2>1, <2>2, ShrinkKeepsFew
<1> QED BY <1>2, <1>3

\* A login that is late and opens its session turns from one that may leave a stray into
\* one that has.
LEMMA LoginKeepsFew ==
  ASSUME FewInv, NEW w \in Workers, NEW t \in Tokens, LoginOpen(w, t)
  PROVE  \A u \in Users : Few(u)'
<1>0. PICK x \in Users : x = actor[w]
  BY DEF LoginOpen, FewInv, SessionInv, Base, JobOK
<1>1. /\ late' = late \ {w} /\ t \notin stray /\ owner' = [owner EXCEPT ![t] = x]
      /\ \A q \in Workers \ {w} : actor'[q] = actor[q]
      /\ late \subseteq Workers /\ stray \subseteq Tokens /\ owner \in [Tokens -> Users \cup {Nobody}]
  BY <1>0, AccountsAssumption
  DEF LoginOpen, Open, End, FewInv, SessionInv, Base, TypeOK, Owned, JobOK
<1>2. ASSUME NEW u \in Users PROVE LateOf(u)' \subseteq LateOf(u)
  BY <1>0, <1>1 DEF LateOf
<1>3. ASSUME NEW u \in Users, w \notin late \/ u # x PROVE Few(u)'
  <2>1. (stray \cap Of(u))' \subseteq stray \cap Of(u)
    BY <1>0, <1>1, <1>3 DEF LoginOpen, Of
  <2> QED BY <2>1, <1>2, ShrinkKeepsFew
<1>4. CASE w \in late
  <2>1. (stray \cap Of(x))' = (stray \cap Of(x)) \cup {t} /\ t \notin stray \cap Of(x)
    BY <1>0, <1>1, <1>4 DEF LoginOpen, Of
  <2>2. LateOf(x)' = LateOf(x) \ {w} /\ w \in LateOf(x)
    BY <1>0, <1>1, <1>4 DEF LateOf
  <2>3. /\ IsFiniteSet(stray \cap Of(x)) /\ IsFiniteSet(LateOf(x))
        /\ Cardinality(stray \cap Of(x)) \in Nat /\ Cardinality(LateOf(x)) \in Nat
        /\ Cardinality(Workers) \in Nat /\ Few(x)
    BY <1>0, <1>1, FewNumbers DEF FewInv, Few
  <2>4. Cardinality((stray \cap Of(x))') = Cardinality(stray \cap Of(x)) + 1
    BY <2>1, <2>3, FS_AddElement
  <2>5. Cardinality(LateOf(x)') = Cardinality(LateOf(x)) - 1
    BY <2>2, <2>3, FS_RemoveElement
  <2>6. Few(x)'
    BY <2>3, <2>4, <2>5 DEF Few
  <2> QED BY <2>6, <1>3
<1> QED BY <1>3, <1>4

\* Every step but a late login's INSERT and the end of an account's sessions leaves no
\* stray more and no login late that was not.
NoneMore == \A u \in Users : /\ (stray \cap Of(u))' \subseteq stray \cap Of(u)
                              /\ LateOf(u)' \subseteq LateOf(u)

LEMMA FewStep ==
  ASSUME FewInv, [Next]_vars
  PROVE  \A v \in Users : Few(v)'
<1>0. NoneMore => \A v \in Users : Few(v)'
  BY ShrinkKeepsFew DEF NoneMore
<1>a. \A t \in stray : owner[t] # Nobody /\ session[t] = "open"
  BY DEF FewInv, SessionInv, Base, TypeOK, Owned
<1>b. \A q \in late : at[q] = "open"
  BY DEF FewInv, SessionInv, Base, TypeOK, LoginOK
<1> USE AccountsAssumption DEF users, sessions, mem, history
<1>1. ASSUME NEW w \in Workers, NEW u \in Users, LoginSelect(w, u)
       PROVE  \A v \in Users : Few(v)'
  <2>1. NoneMore
    BY <1>a, <1>b, <1>1 DEF LoginSelect, Begin, NoneMore, LateOf, Of, FewInv, SessionInv, Base, TypeOK
  <2> QED BY <2>1, <1>0
<1>2. ASSUME NEW w \in Workers, NEW t \in Tokens, LoginOpen(w, t)
       PROVE  \A v \in Users : Few(v)'
  BY <1>2, LoginKeepsFew
<1>3. ASSUME NEW u \in Users, NEW t \in Tokens, Register(u, t)
       PROVE  \A v \in Users : Few(v)'
  <2>1. NoneMore
    BY <1>a, <1>b, <1>3 DEF Register, Open, NoneMore, LateOf, Of, FewInv, SessionInv, Base, TypeOK
  <2> QED BY <2>1, <1>0
<1>4. ASSUME NEW t \in Tokens, Logout(t)
       PROVE  \A v \in Users : Few(v)'
  <2>1. NoneMore
    BY <1>a, <1>b, <1>4 DEF Logout, Close, Delete, NoneMore, LateOf, Of, FewInv, SessionInv, Base, TypeOK
  <2> QED BY <2>1, <1>0
<1>5. ASSUME NEW t \in Tokens, Expire(t)
       PROVE  \A v \in Users : Few(v)'
  <2>1. NoneMore
    BY <1>a, <1>b, <1>5 DEF Expire, Close, Delete, NoneMore, LateOf, Of, FewInv, SessionInv, Base, TypeOK
  <2> QED BY <2>1, <1>0
<1>6. ASSUME NEW w \in Workers, NEW t \in Tokens, NEW s \in Tokens, RevokeStart(w, t, s)
       PROVE  \A v \in Users : Few(v)'
  <2>1. NoneMore
    BY <1>a, <1>b, <1>6 DEF RevokeStart, Begin, NoneMore, LateOf, Of, FewInv, SessionInv, Base, TypeOK
  <2> QED BY <2>1, <1>0
<1>7. ASSUME NEW w \in Workers, Revoke(w)
       PROVE  \A v \in Users : Few(v)'
  <2>1. NoneMore
    BY <1>a, <1>b, <1>7 DEF Revoke, Close, Delete, End, NoneMore, LateOf, Of, FewInv, SessionInv, Base, TypeOK
  <2> QED BY <2>1, <1>0
<1>8. ASSUME NEW w \in Workers, NEW t \in Tokens, ChangeStart(w, t)
       PROVE  \A v \in Users : Few(v)'
  <2>1. NoneMore
    BY <1>a, <1>b, <1>8 DEF ChangeStart, Begin, NoneMore, LateOf, Of, FewInv, SessionInv, Base, TypeOK
  <2> QED BY <2>1, <1>0
<1>9. ASSUME NEW w \in Workers, ChangeCommit(w)
       PROVE  \A v \in Users : Few(v)'
  <2>1. PICK x \in Users : x = actor[w]
    BY <1>9 DEF ChangeCommit, FewInv, SessionInv, Base, JobOK
  <2>2. Outdate(x, {tok[w]}) /\ at[w] # "open"
    BY <1>9, <2>1 DEF ChangeCommit
  <2>3. /\ \A u \in Users \ {x} : Of(u)' \subseteq Of(u)
        /\ \A q \in Workers \ {w} : actor'[q] = actor[q]
    BY <1>9, <2>1 DEF ChangeCommit, Delete, End, Of, FewInv, SessionInv, Base, TypeOK
  <2>4. (stray \cap Of(x))' = {}
    BY <1>9, <2>1 DEF ChangeCommit, Delete, End, Of, Outdate, FewInv, SessionInv, Base, TypeOK
  <2> QED BY <2>2, <2>3, <2>4, EndKeepsFew
<1>10. ASSUME NEW w \in Workers, NEW t \in Tokens, NEW u \in Users, ResetStart(w, t, u)
       PROVE  \A v \in Users : Few(v)'
  <2>1. NoneMore
    BY <1>a, <1>b, <1>10 DEF ResetStart, Begin, NoneMore, LateOf, Of, FewInv, SessionInv, Base, TypeOK
  <2> QED BY <2>1, <1>0
<1>11. ASSUME NEW w \in Workers, ResetCommit(w)
       PROVE  \A v \in Users : Few(v)'
  <2>1. PICK x \in Users : x = target[w]
    BY <1>11 DEF ResetCommit, FewInv, SessionInv, Base, JobOK
  <2>2. Outdate(x, {}) /\ at[w] # "open"
    BY <1>11, <2>1 DEF ResetCommit
  <2>3. /\ \A u \in Users \ {x} : Of(u)' \subseteq Of(u)
        /\ \A q \in Workers \ {w} : actor'[q] = actor[q]
    BY <1>11, <2>1 DEF ResetCommit, Close, Delete, End, Of, FewInv, SessionInv, Base, TypeOK
  <2>4. (stray \cap Of(x))' = {}
    BY <1>11, <2>1 DEF ResetCommit, Close, Delete, End, Of, Outdate, FewInv, SessionInv, Base, TypeOK
  <2> QED BY <2>2, <2>3, <2>4, EndKeepsFew
<1>12. ASSUME NEW w \in Workers, NEW t \in Tokens, CreateStart(w, t)
       PROVE  \A v \in Users : Few(v)'
  <2>1. NoneMore
    BY <1>a, <1>b, <1>12 DEF CreateStart, Begin, NoneMore, LateOf, Of, FewInv, SessionInv, Base, TypeOK
  <2> QED BY <2>1, <1>0
<1>13. ASSUME NEW w \in Workers, NEW u \in Users, NEW r \in Roles, CreateCommit(w, u, r)
       PROVE  \A v \in Users : Few(v)'
  <2>1. NoneMore
    BY <1>a, <1>b, <1>13 DEF CreateCommit, End, NoneMore, LateOf, Of, FewInv, SessionInv, Base, TypeOK
  <2> QED BY <2>1, <1>0
<1>14. ASSUME NEW w \in Workers, NEW t \in Tokens, NEW S \in SUBSET Users, NEW c \in Changes, UpdateStart(w, t, S, c)
       PROVE  \A v \in Users : Few(v)'
  <2>1. NoneMore
    BY <1>a, <1>b, <1>14 DEF UpdateStart, Begin, NoneMore, LateOf, Of, FewInv, SessionInv, Base, TypeOK
  <2> QED BY <2>1, <1>0
<1>15. ASSUME NEW w \in Workers, NEW u \in Users, Fetch(w, u)
       PROVE  \A v \in Users : Few(v)'
  <2>1. NoneMore
    BY <1>a, <1>b, <1>15 DEF Fetch, NoneMore, LateOf, Of, FewInv, SessionInv, Base, TypeOK
  <2> QED BY <2>1, <1>0
<1>16. ASSUME NEW w \in Workers, Apply(w)
       PROVE  \A v \in Users : Few(v)'
  <2>1. NextAccount(w) /\ at[w] = "apply"
    BY <1>16 DEF Apply
  <2>2. Writes(w)
    BY <1>16, ApplyEffect DEF FewInv, SessionInv
  <2>3. Moves(w)
    BY <2>1, NextEffect DEF FewInv, SessionInv
  <2>4. CASE NewPower(w) # "off"
    <3>1. NoneMore
      BY <1>b, <2>1, <2>2, <2>3, <2>4
      DEF Writes, Moves, NoneMore, LateOf, Of, FewInv, SessionInv, Base, TypeOK
    <3> QED BY <3>1, <1>0
  <2>5. CASE NewPower(w) = "off"
    <3>1. PICK x \in Users : x = target[w]
      BY <2>2 DEF Writes
    <3>2. Outdate(x, {}) /\ Close(Of(x)) /\ at[w] # "open"
      BY <2>1, <2>2, <2>5, <3>1 DEF Writes
    <3>3. /\ \A u \in Users \ {x} : Of(u)' \subseteq Of(u)
          /\ \A q \in Workers \ {w} : actor'[q] = actor[q]
      BY <2>3, <3>2 DEF Moves, Close, Delete, Of
    <3>4. (stray \cap Of(x))' = {}
      BY <3>2 DEF Close, Delete, Of
    <3> QED BY <3>2, <3>3, <3>4, EndKeepsFew
  <2> QED BY <2>4, <2>5
<1>17. ASSUME NEW w \in Workers, Refuse(w)
       PROVE  \A v \in Users : Few(v)'
  <2>1. NextAccount(w) /\ at[w] = "apply" /\ UNCHANGED <<users, sessions, history>>
    BY <1>17 DEF Refuse
  <2>2. Moves(w)
    BY <2>1, NextEffect DEF FewInv, SessionInv
  <2>3. NoneMore
    BY <1>b, <2>1, <2>2 DEF Moves, NoneMore, LateOf, Of, FewInv, SessionInv, Base, TypeOK
  <2> QED BY <2>3, <1>0
<1>18. ASSUME NEW w \in Workers, GiveUp(w)
       PROVE  \A v \in Users : Few(v)'
  <2>1. NoneMore
    BY <1>a, <1>b, <1>18 DEF GiveUp, End, NoneMore, LateOf, Of, FewInv, SessionInv, Base, TypeOK
  <2> QED BY <2>1, <1>0
<1>19. CASE UNCHANGED vars
  <2>1. NoneMore
    BY <1>19 DEF vars, NoneMore, LateOf, Of
  <2> QED BY <2>1, <1>0
<1> QED
  BY <1>1, <1>2, <1>3, <1>4, <1>5, <1>6, <1>7, <1>8, <1>9, <1>10, <1>11,
     <1>12, <1>13, <1>14, <1>15, <1>16, <1>17, <1>18, <1>19, Zenon
  DEF Next, Start, Continue

\* One login adds one stray at most, so they are finitely many.
LEMMA FiniteStep ==
  ASSUME FewInv, [Next]_vars
  PROVE  IsFiniteSet(stray')
<1>1. stray' \subseteq stray \/ \E t \in Tokens : stray' \subseteq stray \cup {t}
  BY DEF Next, Start, Continue, LoginSelect, LoginOpen, Register, Logout, Expire, RevokeStart,
         Revoke, ChangeStart, ChangeCommit, ResetStart, ResetCommit, CreateStart,
         CreateCommit, UpdateStart, Fetch, Apply, Refuse, GiveUp, Outdate, vars, history
<1>2. \A t \in Tokens : IsFiniteSet(stray \cup {t})
  BY FS_AddElement DEF FewInv
<1> QED BY <1>1, <1>2, FS_Subset DEF FewInv

LEMMA FewInvInit == Init => FewInv
<1> SUFFICES ASSUME Init PROVE FewInv
  OBVIOUS
<1>1. SessionInv /\ stray = {} /\ late = {} /\ IsFiniteSet(stray)
  BY SessionInvInit, FS_EmptySet DEF Init
<1>2. Cardinality(Workers) \in Nat /\ Cardinality(Workers) # 0
  BY AccountsAssumption, FS_EmptySet, FS_CardinalityType
<1>3. ASSUME NEW u \in Users PROVE Few(u)
  <2>1. stray \cap Of(u) = {} /\ LateOf(u) = {}
    BY <1>1 DEF LateOf
  <2>2. Cardinality({}) = 0
    BY FS_EmptySet
  <2>3. Cardinality(stray \cap Of(u)) = 0 /\ Cardinality(LateOf(u)) = 0
    BY <2>1, <2>2
  <2>4. 0 + 0 < Cardinality(Workers)
    BY <1>2
  <2> QED BY <2>3, <2>4 DEF Few
<1> QED BY <1>1, <1>3 DEF FewInv, Few

\* Whatever the accounts go through, an account never has as many sessions from before
\* its latest change of password or disabling, or from inside it, as the server has
\* threads (login, apply_user_update, reset_user_password, change_my_password).
THEOREM StraysStayFew == Spec => []StraysAreFew
<1>1. FewInv /\ [Next]_vars => FewInv'
  <2> SUFFICES ASSUME FewInv, [Next]_vars PROVE FewInv'
    OBVIOUS
  <2>1. SessionInv'
    BY SessionStep, BaseStep DEF SessionInv, FewInv
  <2> QED BY <2>1, FewStep, FiniteStep DEF FewInv, Few
<1>2. FewInv => StraysAreFew
  <2> SUFFICES ASSUME FewInv, NEW u \in Users
               PROVE  Cardinality(stray \cap Of(u)) < Cardinality(Workers)
    BY DEF StraysAreFew
  <2> QED BY FewNumbers DEF FewInv
<1> QED BY FewInvInit, <1>1, <1>2, PTL DEF Spec

-----------------------------------------------------------------------------
LEMMA AdminStep ==
  ASSUME ~RaisesRace, AdminInv, [Next]_vars
  PROVE  AdminInv'
<1>0. Base'
  BY BaseStep DEF AdminInv
<1> USE AccountsAssumption, <1>0
    DEF AdminInv, Base, TypeOK, Owned, JobOK, AdminRemains, ActiveAdmin, Active, Keep,
        users, sessions, mem, history
<1>1. ASSUME NEW w \in Workers, NEW u \in Users, LoginSelect(w, u)
       PROVE  AdminInv'
  BY <1>1 DEF LoginSelect, Begin, Row
<1>2. ASSUME NEW w \in Workers, NEW t \in Tokens, LoginOpen(w, t)
       PROVE  AdminInv'
  BY <1>2 DEF LoginOpen, Open, End
<1>3. ASSUME NEW u \in Users, NEW t \in Tokens, Register(u, t)
       PROVE  AdminInv'
  BY <1>3 DEF Register, Open
<1>4. ASSUME NEW t \in Tokens, Logout(t)
       PROVE  AdminInv'
  BY <1>4 DEF Logout, Close, Delete
<1>5. ASSUME NEW t \in Tokens, Expire(t)
       PROVE  AdminInv'
  BY <1>5 DEF Expire, Close, Delete
<1>6. ASSUME NEW w \in Workers, NEW t \in Tokens, NEW s \in Tokens, RevokeStart(w, t, s)
       PROVE  AdminInv'
  BY <1>6 DEF RevokeStart, Begin, Valid
<1>7. ASSUME NEW w \in Workers, Revoke(w)
       PROVE  AdminInv'
  BY <1>7 DEF Revoke, Close, Delete, End
<1>8. ASSUME NEW w \in Workers, NEW t \in Tokens, ChangeStart(w, t)
       PROVE  AdminInv'
  BY <1>8 DEF ChangeStart, Begin, Valid
<1>9. ASSUME NEW w \in Workers, ChangeCommit(w)
       PROVE  AdminInv'
  BY <1>9 DEF ChangeCommit, NewPassword, Delete, Outdate, Of, End
<1>10. ASSUME NEW w \in Workers, NEW t \in Tokens, NEW u \in Users, ResetStart(w, t, u)
       PROVE  AdminInv'
  BY <1>10 DEF ResetStart, Begin, AdminSession, Valid
<1>11. ASSUME NEW w \in Workers, ResetCommit(w)
       PROVE  AdminInv'
  BY <1>11 DEF ResetCommit, NewPassword, Close, Delete, Outdate, Of, End
<1>12. ASSUME NEW w \in Workers, NEW t \in Tokens, CreateStart(w, t)
       PROVE  AdminInv'
  BY <1>12 DEF CreateStart, Begin, AdminSession, Valid
<1>13. ASSUME NEW w \in Workers, NEW u \in Users, NEW r \in Roles, CreateCommit(w, u, r)
       PROVE  AdminInv'
  BY <1>13 DEF CreateCommit, End
<1>14. ASSUME NEW w \in Workers, NEW t \in Tokens, NEW S \in SUBSET Users, NEW c \in Changes, UpdateStart(w, t, S, c)
       PROVE  AdminInv'
  BY <1>14 DEF UpdateStart, Begin, AdminSession, Valid
<1>15. ASSUME NEW w \in Workers, NEW u \in Users, Fetch(w, u)
       PROVE  AdminInv'
  BY <1>15 DEF Fetch, Row
<1>16. ASSUME NEW w \in Workers, Apply(w)
       PROVE  AdminInv'
  <2>1. NextAccount(w) /\ (Demoting(w) => TwoAdmins) /\ ~NoChange(w) /\ at[w] = "apply"
    BY <1>16 DEF Apply
  <2>2. Writes(w)
    BY <1>16, ApplyEffect
  <2>3. Moves(w)
    BY <2>1, NextEffect
  <2>10. CASE Raising(w)
    <3>1. target[w] \in Users /\ role'[target[w]] = "admin" /\ power'[target[w]] = "on"
      BY <2>1, <2>2, <2>10 DEF Writes, Raising
    <3>2. AdminRemains'
      BY <3>1
    <3>3. ASSUME NEW q \in Workers, at'[q] = "apply", ActiveAdmin(target[q])'
          PROVE  seen'[q].role = "admin" /\ seen'[q].power = "on"
      <4>1. q # w /\ at[q] = "apply" /\ target'[q] = target[q] /\ seen'[q] = seen[q]
        BY <2>3, <3>3 DEF Moves
      <4>2. target[q] # target[w] /\ target[q] \in Users
        BY <4>1, <2>10, <1>16 DEF Apply, AloneOnTarget
      <4>3. ActiveAdmin(target[q])
        BY <4>1, <4>2, <2>2, <3>3 DEF Writes
      <4> QED BY <4>1, <4>3
    <3> QED BY <3>2, <3>3
  <2>11. CASE ~Raising(w)
    <3>4. ~(NewRole(w) = "admin" /\ NewPower(w) = "on")
      BY <2>11 DEF Raising
    <3>5. \A u \in Users : ActiveAdmin(u)' => u # target[w] /\ ActiveAdmin(u)
      BY <2>2, <3>4 DEF Writes
    <3>6. \A u \in Users \ {target[w]} : ActiveAdmin(u) => ActiveAdmin(u)'
      BY <2>2 DEF Writes
    <3>7. \E u \in Users \ {target[w]} : ActiveAdmin(u)
      <4>1. CASE Demoting(w)
        BY <2>1, <4>1 DEF TwoAdmins
      <4>2. CASE ~Demoting(w)
        BY <2>1, <3>4, <4>2 DEF Demoting
      <4> QED BY <4>1, <4>2
    <3>8. AdminRemains'
      BY <3>6, <3>7
    <3>9. ASSUME NEW q \in Workers, at'[q] = "apply", ActiveAdmin(target[q])'
        PROVE  seen'[q].role = "admin" /\ seen'[q].power = "on"
      <4>1. q # w /\ at[q] = "apply" /\ target'[q] = target[q] /\ seen'[q] = seen[q]
        BY <2>3, <3>9 DEF Moves
      <4>2. target[q] \in Users /\ ActiveAdmin(target[q])
        BY <3>5, <3>9, <4>1
      <4> QED BY <4>1, <4>2
    <3> QED BY <3>8, <3>9
  <2> QED BY <2>10, <2>11
<1>17. ASSUME NEW w \in Workers, Refuse(w)
       PROVE  AdminInv'
  <2>1. NextAccount(w) /\ at[w] = "apply" /\ UNCHANGED <<users, sessions, history>>
    BY <1>17 DEF Refuse
  <2>2. Moves(w)
    BY <2>1, NextEffect
  <2>3. AdminRemains'
    BY <2>1
  <2>4. ASSUME NEW q \in Workers, at'[q] = "apply", ActiveAdmin(target[q])'
        PROVE  seen'[q].role = "admin" /\ seen'[q].power = "on"
    BY <2>1, <2>2, <2>4 DEF Moves
  <2> QED BY <2>3, <2>4
<1>18. ASSUME NEW w \in Workers, GiveUp(w)
       PROVE  AdminInv'
  BY <1>18 DEF GiveUp, End
<1>19. CASE UNCHANGED vars
  BY <1>19 DEF vars
<1> QED
  BY <1>1, <1>2, <1>3, <1>4, <1>5, <1>6, <1>7, <1>8, <1>9, <1>10, <1>11,
     <1>12, <1>13, <1>14, <1>15, <1>16, <1>17, <1>18, <1>19, Zenon
  DEF Next, Start, Continue

LEMMA AdminInvInit == Init => AdminInv
  BY BaseInit DEF Init, AdminInv, AdminRemains, OneAdmin

\* The invariant behind it: what an update has read as no active administrator's row
\* has not become one since, so the guard it skips was not needed (apply_user_update).
THEOREM SkippedGuardsAreIdle ==
  ASSUME ~RaisesRace
  PROVE  Spec => []AdminInv
<1>1. AdminInv /\ [Next]_vars => AdminInv'
  BY AdminStep
<1> QED BY AdminInvInit, <1>1, PTL DEF Spec

\* However the administrators' updates interleave, an active administrator is left,
\* if none makes an account an active administrator between the SELECT and the UPDATE of
\* another update of that account (apply_user_update).
THEOREM AdminStays ==
  ASSUME ~RaisesRace
  PROVE  Spec => []AdminRemains
<1>1. AdminInv => AdminRemains
  BY DEF AdminInv
<1> QED BY SkippedGuardsAreIdle, <1>1, PTL
=============================================================================
