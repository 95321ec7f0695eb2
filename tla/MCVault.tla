------------------------------ MODULE MCVault ------------------------------
(* An instance of the vault program for TLC.                               *)
EXTENDS Vault

CONSTANTS alice, bob, carol

(* Alice can fill a vault, Bob has to choose, Carol has only the rent.     *)
MCWealth == [u \in Users |-> CASE u = alice -> 9 [] u = bob -> 5 [] OTHER -> 3]

=============================================================================
