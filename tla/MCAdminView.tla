----------------------------- MODULE MCAdminView -----------------------------
(* Instances of AdminView for TLC.                                          *)
EXTENDS AdminView

\* Every row has a resource of its own.
OwnResource(id) == id

\* Some users assigned to every wallet, before any traffic, a state AdminNext
\* reaches from Init.
AssignedInit ==
  /\ \E users \in SUBSET UserIds : \E names \in [users -> Usernames] :
       /\ users # {} /\ IsInjective(names)
       /\ proxyUsers = names
       /\ userWallet = [p \in users \X WalletIds |-> Unlimited]
       /\ issued = users \cup WalletIds
       /\ grants = [user : users, wallet : WalletIds, budget : {Unlimited}]
  /\ wallets = [w \in WalletIds |-> [chain |-> "solana", createdAt |-> 0]]
  /\ transactions = {} /\ clock = 0
  /\ page = [b \in Browsers |-> Blank] /\ recorded = 0

\* The administrator changes users and their assignments; without foreign keys
\* no page depends on whether its wallets are still there.
UsersChange ==
  /\ \E u \in UserIds :
       \/ \E name \in Usernames : CreateUser(u, name)
       \/ DeleteUser(u)
       \/ \E w \in WalletIds : Assign(u, w, Unlimited) \/ DeleteUserWallet(u, w)
  /\ UNCHANGED viewVars

AssignedNext == \/ \E b \in Browsers : PageStep(b)
                \/ RowRecorded
                \/ UsersChange
                \/ Tick /\ UNCHANGED viewVars

AssignedSpec == AssignedInit /\ [][AssignedNext]_vars

NameSymmetry == Permutations(UserIds) \cup Permutations(Usernames)
=============================================================================
