------------------------------- MODULE Vault -------------------------------
(***************************************************************************)
(* The vault program of src/vault: each user has one vault, an address of  *)
(* the program without data that holds lamports, and a vault_state account *)
(* that exists from initialize to close.  One action is one transaction,   *)
(* enabled when it succeeds.                                               *)
(***************************************************************************)
EXTENDS Integers, FiniteSets, Functions

CONSTANTS
    Users,      \* system accounts that can sign
    Amounts,    \* values of the u64 argument `amount`
    Wealth,     \* the lamports of each user at the start
    StateRent,  \* the rent of a vault_state account
    RentMin     \* the balance below which the runtime keeps no account

ASSUME UsersAssumption == IsFiniteSet(Users)
ASSUME ArgumentsAssumption == Amounts \subseteq Nat
ASSUME LamportsAssumption ==
    /\ StateRent \in Nat /\ RentMin \in Nat /\ StateRent >= RentMin
    /\ Wealth \in [Users -> Nat]
    /\ \A u \in Users : Wealth[u] = 0 \/ Wealth[u] >= RentMin

VARIABLES
    vault_state,    \* the users whose vault_state account exists
    vault,          \* vault[u]: the lamports at the vault address of u
    lamports        \* lamports[u]: the lamports of u's wallet

vars == <<vault_state, vault, lamports>>

-----------------------------------------------------------------------------
(* The runtime keeps an account that is empty or exempt from rent.         *)
RentOk(balance) == balance = 0 \/ balance >= RentMin

(* The system program moves n lamports from a wallet to a vault.           *)
IntoVault_Unchecked(u, v, n) ==
    /\ lamports' = [lamports EXCEPT ![u] = @ - n]
    /\ vault' = [vault EXCEPT ![v] = @ + n]

IntoVault(u, v, n) ==
    /\ n <= lamports[u]
    /\ RentOk(lamports[u] - n) /\ RentOk(vault[v] + n)
    /\ lamports' = [lamports EXCEPT ![u] = @ - n]
    /\ vault' = [vault EXCEPT ![v] = @ + n]

(* The program signs for the vault; `refunded` is the rent of an account   *)
(* closed in the same transaction.                                         *)
CanLeaveVault(v, u, n, refunded) ==
    /\ n <= vault[v]
    /\ RentOk(vault[v] - n) /\ RentOk(lamports[u] + n + refunded)

OutOfVault(v, u, n, refunded) ==
    /\ vault' = [vault EXCEPT ![v] = @ - n]
    /\ lamports' = [lamports EXCEPT ![u] = @ + n + refunded]

(* The seeds of vault_state and vault bind them to the signer; vault_state *)
(* must exist.                                                             *)
SeedsOf_Any(signer, owner) == owner \in vault_state

SeedsOf(signer, owner) == owner = signer /\ owner \in vault_state

-----------------------------------------------------------------------------
(* `init` creates vault_state; the vault is neither created nor funded.    *)
CanInit_Empty(user) == user \notin vault_state /\ vault[user] = 0

CanInit(user) == user \notin vault_state

CanInitialize(user) ==
    /\ CanInit(user)
    /\ StateRent <= lamports[user] /\ RentOk(lamports[user] - StateRent)

Initialize(user) ==
    /\ CanInitialize(user)
    /\ vault_state' = vault_state \union {user}
    /\ lamports' = [lamports EXCEPT ![user] = @ - StateRent]
    /\ UNCHANGED vault

Deposit(user, owner, amount) ==
    /\ SeedsOf(user, owner)
    /\ IntoVault(user, owner, amount)
    /\ UNCHANGED vault_state

Withdraw(user, owner, amount) ==
    /\ SeedsOf(user, owner)
    /\ CanLeaveVault(owner, user, amount, 0)
    /\ OutOfVault(owner, user, amount, 0)
    /\ UNCHANGED vault_state

Drained_KeepsRent(owner) == IF vault[owner] >= RentMin THEN vault[owner] - RentMin ELSE 0

(* Close pays out whatever the vault holds, gifts included.                *)
Drained(owner) == vault[owner]

CloseState_Kept(owner) == UNCHANGED vault_state

CloseState(owner) == vault_state' = vault_state \ {owner}

CanClose(user, owner) ==
    SeedsOf(user, owner) /\ CanLeaveVault(owner, user, Drained(owner), StateRent)

Close(user, owner) ==
    /\ CanClose(user, owner)
    /\ OutOfVault(owner, user, Drained(owner), StateRent)
    /\ CloseState(owner)

(* Anyone may send lamports to the vault's address at any time.            *)
Gift(user, owner, amount) ==
    /\ IntoVault(user, owner, amount)
    /\ UNCHANGED vault_state

Init ==
    /\ vault_state = {}
    /\ vault = [u \in Users |-> 0]
    /\ lamports = Wealth

(* A transaction `user` signs, with the accounts of `owner`'s vault.        *)
Transaction(user, owner) ==
    \/ user = owner /\ Initialize(user)
    \/ Close(user, owner)
    \/ \E amount \in Amounts :
          \/ Deposit(user, owner, amount)
          \/ Withdraw(user, owner, amount)
          \/ Gift(user, owner, amount)

Next == \E user, owner \in Users : Transaction(user, owner)

Spec == Init /\ [][Next]_vars

-----------------------------------------------------------------------------
(* Properties                                                              *)

TypeOK ==
    /\ vault_state \subseteq Users
    /\ vault \in [Users -> Nat]
    /\ lamports \in [Users -> Nat]

(* The lamports of wallets, vaults and vault_state accounts stay as many   *)
(* as they were: no rent is lost when accounts come and go                 *)
(* (initialize.rs:9-16, close.rs:9-15,46).                                 *)
LamportsConserved ==
    SumFunctionOnSet(lamports, Users) + SumFunctionOnSet(vault, Users)
    + StateRent * Cardinality(vault_state)
        = SumFunctionOnSet(Wealth, Users)

(* README.md:15, "accessible only by the user who created it": what leaves *)
(* a vault arrives in its owner's wallet in the same step, and only while  *)
(* the owner's vault_state exists; no other vault or wallet changes        *)
(* (withdraw.rs:26-46, close.rs:28-48).                                    *)
OnlyOwnerDrains ==
    [][\A u \in Users :
          vault'[u] < vault[u] =>
              /\ u \in vault_state
              /\ lamports'[u] - lamports[u] >= vault[u] - vault'[u]
              /\ \A other \in Users \ {u} :
                    vault'[other] = vault[other] /\ lamports'[other] = lamports[other]
      ]_vars

(* README.md:40, "Drains all remaining SOL": closing leaves nothing behind *)
(* and returns the balance and the rent, whatever was deposited, withdrawn *)
(* or given before (close.rs:46).                                          *)
CloseReturnsAll ==
    [][\A u \in vault_state :
          u \notin vault_state' =>
              /\ vault'[u] = 0
              /\ lamports'[u] = lamports[u] + vault[u] + StateRent
      ]_vars

(* No lamports are stranded: an owner can close at any time, also when the *)
(* rent rule refuses a withdrawal; lamports sent to the address before     *)
(* initialize or after close are within reach of an owner who can pay the  *)
(* rent of a new vault_state (initialize.rs:29-35, close.rs:28-48).        *)
Recoverable ==
    \A u \in Users :
        /\ u \in vault_state => ENABLED Close(u, u)
        /\ (vault[u] > 0 /\ u \notin vault_state /\ lamports[u] >= StateRent + RentMin)
              => ENABLED Initialize(u)

=============================================================================
