----------------------------- MODULE MCAccounts -----------------------------
(***************************************************************************)
(* Small instances of Accounts.                                            *)
(***************************************************************************)
EXTENDS Accounts, TLC

\* The bodies of PATCH /api/users/{id} and of the batch actions.
Demote == [role |-> "viewer", power |-> "keep"]
Raise == [role |-> "admin", power |-> "on"]
Disable == [role |-> "keep", power |-> "off"]
Enable == [role |-> "keep", power |-> "on"]

AllChanges == {Demote, Disable, Raise}
EnableOrDemote == {Demote, Enable}

SymWorkers == Permutations(Workers)
SymAll == Permutations(Workers) \cup Permutations(Tokens) \cup Permutations(Users)
=============================================================================
