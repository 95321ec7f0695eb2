---------------------------- MODULE VaultProofs ----------------------------
(***************************************************************************)
(* What the vault program guarantees for every set of users, amounts and   *)
(* rents: types, the owner's exclusive hold on a vault, and a closure that *)
(* returns everything, and lamports that are neither created nor lost.      *)
(***************************************************************************)
EXTENDS Vault, SumProofs

-----------------------------------------------------------------------------
(* Types                                                                   *)

(* A transfer into a vault keeps balances natural (IntoVault's guard).     *)
LEMMA IntoVaultType ==
    ASSUME TypeOK, NEW u \in Users, NEW v \in Users, NEW n \in Nat, IntoVault(u, v, n)
    PROVE  vault' \in [Users -> Nat] /\ lamports' \in [Users -> Nat]
BY DEF TypeOK, IntoVault

(* So does a transfer out of one, with the rent that goes along.           *)
LEMMA OutOfVaultType ==
    ASSUME TypeOK, NEW u \in Users, NEW v \in Users, NEW n \in Nat, NEW r \in Nat,
           CanLeaveVault(v, u, n, r), OutOfVault(v, u, n, r)
    PROVE  vault' \in [Users -> Nat] /\ lamports' \in [Users -> Nat]
BY DEF TypeOK, CanLeaveVault, OutOfVault

(* Every transaction leaves balances natural: no wallet and no vault is    *)
(* overdrawn (the guards of the system program's transfers).               *)
LEMMA TypeStep == TypeOK /\ [Next]_vars => TypeOK'
<1> SUFFICES ASSUME TypeOK, [Next]_vars PROVE TypeOK'
  OBVIOUS
<1>1. CASE UNCHANGED vars
  BY <1>1 DEF TypeOK, vars
<1>2. CASE Next
  <2>1. PICK user \in Users, owner \in Users : Transaction(user, owner)
    BY <1>2 DEF Next
  <2>2. CASE Initialize(user)
    BY <2>2, LamportsAssumption DEF TypeOK, Initialize, CanInitialize
  <2>3. CASE Close(user, owner)
    <3>1. Drained(owner) \in Nat /\ StateRent \in Nat
      BY LamportsAssumption DEF TypeOK, Drained
    <3>2. /\ CanLeaveVault(owner, user, Drained(owner), StateRent)
          /\ OutOfVault(owner, user, Drained(owner), StateRent)
          /\ vault_state' = vault_state \ {owner}
      BY <2>3 DEF Close, CanClose, CloseState
    <3>3. vault' \in [Users -> Nat] /\ lamports' \in [Users -> Nat]
      BY <3>1, <3>2, OutOfVaultType
    <3> QED
      BY <3>2, <3>3 DEF TypeOK
  <2>4. ASSUME NEW amount \in Amounts, Deposit(user, owner, amount) \/ Gift(user, owner, amount)
        PROVE  TypeOK'
    <3>1. amount \in Nat /\ IntoVault(user, owner, amount) /\ UNCHANGED vault_state
      BY <2>4, ArgumentsAssumption DEF Deposit, Gift
    <3>2. vault' \in [Users -> Nat] /\ lamports' \in [Users -> Nat]
      BY <3>1, IntoVaultType
    <3> QED
      BY <3>1, <3>2 DEF TypeOK
  <2>5. ASSUME NEW amount \in Amounts, Withdraw(user, owner, amount)
        PROVE  TypeOK'
    <3>1. /\ amount \in Nat /\ UNCHANGED vault_state
          /\ CanLeaveVault(owner, user, amount, 0) /\ OutOfVault(owner, user, amount, 0)
      BY <2>5, ArgumentsAssumption DEF Withdraw
    <3>2. vault' \in [Users -> Nat] /\ lamports' \in [Users -> Nat]
      BY <3>1, OutOfVaultType
    <3> QED
      BY <3>1, <3>2 DEF TypeOK
  <2> QED
    BY <2>1, <2>2, <2>3, <2>4, <2>5 DEF Transaction
<1> QED
  BY <1>1, <1>2

(* The vault program is well typed (Vault.TypeOK).                         *)
THEOREM TypeCorrect == Spec => []TypeOK
<1>1. Init => TypeOK
  BY LamportsAssumption DEF Init, TypeOK
<1> QED
  BY <1>1, TypeStep, PTL DEF Spec

-----------------------------------------------------------------------------
(* The owner's hold                                                        *)

(* What leaves a vault goes to its owner: the step property of             *)
(* OnlyOwnerDrains.                                                        *)
HeldByOwner(u) ==
    vault'[u] < vault[u] =>
        /\ u \in vault_state
        /\ lamports'[u] - lamports[u] >= vault[u] - vault'[u]
        /\ \A other \in Users \ {u} :
              vault'[other] = vault[other] /\ lamports'[other] = lamports[other]

(* A payment out of the vault of v to v itself is held by the owner.       *)
LEMMA OutOfVaultHeld ==
    ASSUME TypeOK, NEW v \in vault_state, NEW n \in Nat, NEW r \in Nat,
           CanLeaveVault(v, v, n, r), OutOfVault(v, v, n, r), NEW u \in Users
    PROVE  HeldByOwner(u)
BY DEF TypeOK, CanLeaveVault, OutOfVault, HeldByOwner

(* A payment into a vault takes from none.                                 *)
LEMMA IntoVaultHeld ==
    ASSUME TypeOK, NEW w \in Users, NEW v \in Users, NEW n \in Nat,
           IntoVault(w, v, n), NEW u \in Users
    PROVE  HeldByOwner(u)
<1>1. vault'[u] >= vault[u]
  BY DEF TypeOK, IntoVault
<1>2. vault[u] \in Nat /\ vault'[u] \in Nat
  BY IntoVaultType DEF TypeOK
<1> QED
  BY <1>1, <1>2 DEF HeldByOwner

(* Only the owner drains a vault, into the owner's own wallet              *)
(* (withdraw.rs:26-46, close.rs:28-48).                                    *)
THEOREM OwnersHold == Spec => OnlyOwnerDrains
<1>1. TypeOK /\ [Next]_vars => [\A u \in Users : HeldByOwner(u)]_vars
  <2> SUFFICES ASSUME TypeOK, Next, NEW u \in Users PROVE HeldByOwner(u)
    OBVIOUS
  <2>1. PICK user \in Users, owner \in Users : Transaction(user, owner)
    BY DEF Next
  <2>2. CASE Initialize(user)
    <3>1. vault' = vault /\ vault[u] \in Nat
      BY <2>2 DEF Initialize, TypeOK
    <3> QED
      BY <3>1 DEF HeldByOwner
  <2>3. CASE Close(user, owner)
    <3>1. Drained(owner) \in Nat /\ StateRent \in Nat
      BY LamportsAssumption DEF TypeOK, Drained
    <3>2. owner = user /\ owner \in vault_state
          /\ CanLeaveVault(owner, user, Drained(owner), StateRent)
          /\ OutOfVault(owner, user, Drained(owner), StateRent)
      BY <2>3 DEF Close, CanClose, SeedsOf
    <3> QED
      BY <3>1, <3>2, OutOfVaultHeld
  <2>4. ASSUME NEW amount \in Amounts, Deposit(user, owner, amount) \/ Gift(user, owner, amount)
        PROVE  HeldByOwner(u)
    <3>1. amount \in Nat /\ IntoVault(user, owner, amount)
      BY <2>4, ArgumentsAssumption DEF Deposit, Gift
    <3> QED
      BY <3>1, IntoVaultHeld
  <2>5. ASSUME NEW amount \in Amounts, Withdraw(user, owner, amount)
        PROVE  HeldByOwner(u)
    <3>1. amount \in Nat /\ owner = user /\ owner \in vault_state
          /\ CanLeaveVault(owner, user, amount, 0) /\ OutOfVault(owner, user, amount, 0)
      BY <2>5, ArgumentsAssumption DEF Withdraw, SeedsOf
    <3> QED
      BY <3>1, OutOfVaultHeld
  <2> QED
    BY <2>1, <2>2, <2>3, <2>4, <2>5 DEF Transaction
<1> QED
  BY <1>1, TypeCorrect, PTL DEF Spec, OnlyOwnerDrains, HeldByOwner

-----------------------------------------------------------------------------
(* Closing                                                                 *)

(* A user whose vault_state closes has the balance and the rent.           *)
Returned(u) ==
    u \notin vault_state' =>
        /\ vault'[u] = 0
        /\ lamports'[u] = lamports[u] + vault[u] + StateRent

(* Closing a vault empties it, whatever it held (close.rs:46).             *)
THEOREM ClosuresReturnAll == Spec => CloseReturnsAll
<1>1. TypeOK /\ [Next]_vars => [\A u \in vault_state : Returned(u)]_vars
  <2> SUFFICES ASSUME TypeOK, Next, NEW u \in vault_state PROVE Returned(u)
    OBVIOUS
  <2>1. PICK user \in Users, owner \in Users : Transaction(user, owner)
    BY DEF Next
  <2>2. CASE vault_state \subseteq vault_state'
    BY <2>2 DEF Returned
  <2>3. CASE Close(user, owner)
    <3>1. owner = user /\ OutOfVault(user, user, vault[user], StateRent)
          /\ vault_state' = vault_state \ {user}
      BY <2>3 DEF Close, CanClose, SeedsOf, Drained, CloseState
    <3>2. CASE u = user
      <4>1. vault'[user] = vault[user] - vault[user]
            /\ lamports'[user] = lamports[user] + vault[user] + StateRent
        BY <3>1 DEF TypeOK, OutOfVault
      <4> QED
        BY <3>2, <4>1 DEF TypeOK, Returned
    <3>3. CASE u # user
      BY <3>1, <3>3 DEF Returned
    <3> QED
      BY <3>2, <3>3
  <2>4. Initialize(user) => vault_state \subseteq vault_state'
    BY DEF Initialize
  <2>5. \A amount \in Amounts :
            (\/ Deposit(user, owner, amount)
             \/ Withdraw(user, owner, amount)
             \/ Gift(user, owner, amount)) => vault_state' = vault_state
    BY DEF Deposit, Withdraw, Gift
  <2> QED
    BY <2>1, <2>2, <2>3, <2>4, <2>5 DEF Transaction
<1> QED
  BY <1>1, TypeCorrect, PTL DEF Spec, CloseReturnsAll, Returned

-----------------------------------------------------------------------------
(* Lamports                                                                *)

(* A transfer into a vault moves what the wallet loses to the vault.       *)
LEMMA IntoVaultSums ==
    ASSUME TypeOK, NEW u \in Users, NEW v \in Users, NEW n \in Nat, IntoVault(u, v, n)
    PROVE  /\ SumFunctionOnSet(lamports', Users) = SumFunctionOnSet(lamports, Users) - n
           /\ SumFunctionOnSet(vault', Users) = SumFunctionOnSet(vault, Users) + n
<1>1. Debited(lamports, lamports', Users, u, n) /\ Credited(vault, vault', Users, v, n)
  BY IntoVaultType DEF TypeOK, IntoVault, Debited, Credited
<1> QED
  BY <1>1, SumCredit, SumDebit, UsersAssumption

(* A transfer out of one moves it back, with the rent that goes along.     *)
LEMMA OutOfVaultSums ==
    ASSUME TypeOK, NEW u \in Users, NEW v \in Users, NEW n \in Nat, NEW r \in Nat,
           CanLeaveVault(v, u, n, r), OutOfVault(v, u, n, r)
    PROVE  /\ SumFunctionOnSet(vault', Users) = SumFunctionOnSet(vault, Users) - n
           /\ SumFunctionOnSet(lamports', Users) = SumFunctionOnSet(lamports, Users) + (n + r)
<1> DEFINE credit == n + r
<1>1. Debited(vault, vault', Users, v, n) /\ Credited(lamports, lamports', Users, u, credit)
  <2>1. /\ lamports \in [Users -> Nat] /\ lamports' \in [Users -> Nat]
        /\ vault \in [Users -> Nat] /\ vault' \in [Users -> Nat]
    BY OutOfVaultType DEF TypeOK
  <2>2. vault' = [vault EXCEPT ![v] = @ - n] /\ lamports' = [lamports EXCEPT ![u] = @ + n + r]
    BY DEF OutOfVault
  <2>3. lamports[u] + n + r = lamports[u] + credit
    BY <2>1
  <2> HIDE DEF credit
  <2> QED
    BY <2>1, <2>2, <2>3 DEF Debited, Credited
<1>2. SumFunctionOnSet(lamports', Users) = SumFunctionOnSet(lamports, Users) + credit
  <2>1. credit \in Int
    OBVIOUS
  <2> HIDE DEF credit
  <2> QED BY <1>1, <2>1, SumCredit, UsersAssumption
<1> QED
  BY <1>1, <1>2, SumDebit, UsersAssumption

LEMMA ConservationStep ==
    TypeOK /\ LamportsConserved /\ [Next]_vars => LamportsConserved'
<1> SUFFICES ASSUME TypeOK, LamportsConserved, [Next]_vars PROVE LamportsConserved'
  OBVIOUS
<1> DEFINE wallets == SumFunctionOnSet(lamports, Users)
           vaults == SumFunctionOnSet(vault, Users)
           rents == StateRent * Cardinality(vault_state)
           start == SumFunctionOnSet(Wealth, Users)
<1>1. /\ wallets \in Int /\ vaults \in Int /\ start \in Int /\ rents \in Int
      /\ StateRent \in Nat /\ IsFiniteSet(vault_state)
      /\ wallets + vaults + rents = start
  <2>1. wallets \in Int /\ vaults \in Int /\ start \in Int
    BY SumOfNaturals, UsersAssumption, LamportsAssumption DEF TypeOK
  <2>2. IsFiniteSet(vault_state) /\ Cardinality(vault_state) \in Nat
    BY UsersAssumption, FS_Subset, FS_CardinalityType DEF TypeOK
  <2> QED
    BY <2>1, <2>2, LamportsAssumption DEF LamportsConserved
<1>2. CASE UNCHANGED vars
  BY <1>2 DEF vars, LamportsConserved
<1>3. CASE Next
  <2>1. PICK user \in Users, owner \in Users : Transaction(user, owner)
    BY <1>3 DEF Next
  <2>2. CASE Initialize(user)
    <3>1. /\ vault' = vault /\ vault_state' = vault_state \union {user} /\ user \notin vault_state
          /\ lamports' = [lamports EXCEPT ![user] = @ - StateRent]
          /\ StateRent <= lamports[user]
      BY <2>2 DEF Initialize, CanInitialize, CanInit
    <3>2. Debited(lamports, lamports', Users, user, StateRent)
      BY <1>1, <3>1 DEF TypeOK, Debited
    <3>3. SumFunctionOnSet(lamports', Users) = wallets - StateRent
      BY <1>1, <3>2, SumDebit, UsersAssumption
    <3>4. StateRent * Cardinality(vault_state') = rents + StateRent
      BY <1>1, <3>1, RentOfOneMore
    <3> QED
      BY <1>1, <3>1, <3>3, <3>4 DEF LamportsConserved
  <2>3. CASE Close(user, owner)
    <3>1. /\ owner \in vault_state /\ vault_state' = vault_state \ {owner}
          /\ Drained(owner) \in Nat
          /\ CanLeaveVault(owner, user, Drained(owner), StateRent)
          /\ OutOfVault(owner, user, Drained(owner), StateRent)
      BY <2>3 DEF Close, CanClose, SeedsOf, CloseState, Drained, TypeOK
    <3>2. /\ SumFunctionOnSet(vault', Users) = vaults - Drained(owner)
          /\ SumFunctionOnSet(lamports', Users) = wallets + (Drained(owner) + StateRent)
      BY <1>1, <3>1, OutOfVaultSums
    <3>3. StateRent * Cardinality(vault_state') = rents - StateRent
      BY <1>1, <3>1, RentOfOneLess
    <3> QED
      BY <1>1, <3>1, <3>2, <3>3 DEF LamportsConserved
  <2>4. ASSUME NEW amount \in Amounts, Deposit(user, owner, amount) \/ Gift(user, owner, amount)
        PROVE  LamportsConserved'
    <3>1. amount \in Nat /\ IntoVault(user, owner, amount) /\ vault_state' = vault_state
      BY <2>4, ArgumentsAssumption DEF Deposit, Gift
    <3>2. /\ SumFunctionOnSet(lamports', Users) = wallets - amount
          /\ SumFunctionOnSet(vault', Users) = vaults + amount
      BY <3>1, IntoVaultSums
    <3> QED
      BY <1>1, <3>1, <3>2 DEF LamportsConserved
  <2>5. ASSUME NEW amount \in Amounts, Withdraw(user, owner, amount)
        PROVE  LamportsConserved'
    <3>1. /\ amount \in Nat /\ vault_state' = vault_state
          /\ CanLeaveVault(owner, user, amount, 0) /\ OutOfVault(owner, user, amount, 0)
      BY <2>5, ArgumentsAssumption DEF Withdraw
    <3>2. /\ SumFunctionOnSet(vault', Users) = vaults - amount
          /\ SumFunctionOnSet(lamports', Users) = wallets + (amount + 0)
      BY <3>1, OutOfVaultSums
    <3> QED
      BY <1>1, <3>1, <3>2 DEF LamportsConserved
  <2> QED
    BY <2>1, <2>2, <2>3, <2>4, <2>5 DEF Transaction
<1> QED
  BY <1>2, <1>3

(* Lamports are neither created nor destroyed, whoever opens, funds,       *)
(* drains and closes vaults, and whatever the rent is.                     *)
THEOREM LamportsAreConserved == Spec => []LamportsConserved
<1>1. Init => LamportsConserved
  <2> SUFFICES ASSUME Init PROVE LamportsConserved
    OBVIOUS
  <2>1. SumFunctionOnSet(vault, Users) = 0
    <3>1. \A u \in Users \ {} : vault[u] = 0
      BY DEF Init
    <3>2. SumFunctionOnSet(vault, Users) = SumFunctionOnSet(vault, {})
      BY <3>1, SumZeros, UsersAssumption DEF Integral
    <3> QED
      BY <3>2, SumEmpty
  <2>2. StateRent * Cardinality(vault_state) = 0
    BY FS_EmptySet, LamportsAssumption DEF Init
  <2>3. SumFunctionOnSet(Wealth, Users) \in Int
    BY SumOfNaturals, UsersAssumption, LamportsAssumption
  <2> QED
    BY <2>1, <2>2, <2>3 DEF Init, LamportsConserved
<1>2. Init => TypeOK
  BY LamportsAssumption DEF Init, TypeOK
<1> QED
  BY <1>1, <1>2, TypeStep, ConservationStep, PTL DEF Spec

-----------------------------------------------------------------------------
(* Recovery                                                                *)

(* What Recoverable says with ENABLED, said of the guards: the conditions  *)
(* of close hold while the owner's vault_state exists, those of initialize *)
(* while it does not and the owner can pay the rent of one.                *)
GuardsRecover ==
    \A u \in Users :
        /\ u \in vault_state => CanClose(u, u)
        /\ u \notin vault_state /\ lamports[u] >= StateRent + RentMin => CanInitialize(u)

(* No lamports are stranded: neither the rent rule nor anything that       *)
(* others do to a vault makes its owner's close or, before and after,      *)
(* initialize fail, so that an owner recovers the whole balance by one     *)
(* or two calls (initialize.rs:29-35, close.rs:28-48).                     *)
THEOREM LamportsAreRecoverable == Spec => []GuardsRecover
<1>1. TypeOK => GuardsRecover
  <2> SUFFICES ASSUME TypeOK, NEW u \in Users
               PROVE  /\ u \in vault_state => CanClose(u, u)
                      /\ u \notin vault_state /\ lamports[u] >= StateRent + RentMin
                            => CanInitialize(u)
    BY DEF GuardsRecover
  <2>1. vault[u] \in Nat /\ lamports[u] \in Nat
        /\ StateRent \in Nat /\ RentMin \in Nat /\ StateRent >= RentMin
    BY LamportsAssumption DEF TypeOK
  <2>2. vault[u] - vault[u] = 0 /\ lamports[u] + vault[u] + StateRent >= RentMin
    BY <2>1
  <2>3. u \in vault_state => CanClose(u, u)
    BY <2>1, <2>2 DEF CanClose, SeedsOf, CanLeaveVault, Drained, RentOk
  <2>4. u \notin vault_state /\ lamports[u] >= StateRent + RentMin => CanInitialize(u)
    BY <2>1 DEF CanInitialize, CanInit, RentOk
  <2> QED
    BY <2>3, <2>4
<1> QED
  BY <1>1, TypeCorrect, PTL

=============================================================================
