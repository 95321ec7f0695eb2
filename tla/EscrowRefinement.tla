-------------------------- MODULE EscrowRefinement --------------------------
(***************************************************************************)
(* The escrow program keeps the promise of AtomicSwap when no mint is      *)
(* wrapped SOL.  An open offer is an escrow account together with the      *)
(* balance of its vault; a purse is a wallet's token account.              *)
(***************************************************************************)
EXTENDS Escrow

(* The absence of an offer is not an offer, whatever lot a vault holds.    *)
ASSUME NoOfferAssumption ==
    NoEscrow \notin [mint_a : Mints, mint_b : Mints, price : Amounts, lot : Nat]

OfferOf(p) ==
    IF escrow[p] = NoEscrow
    THEN NoEscrow
    ELSE [mint_a |-> escrow[p].mint_a, mint_b |-> escrow[p].mint_b,
          price |-> escrow[p].receive, lot |-> amount[Vault(p, escrow[p].mint_a)]]

Promise == INSTANCE AtomicSwap
    WITH NoOffer <- NoEscrow,
         offer <- [p \in Pda |-> OfferOf(p)],
         purse <- [a \in Wallets \X Mints |-> amount[a]]

(* README.md:28: a maker's offer is settled atomically or not at all.      *)
(* Every transaction of the program and of the token programs is a step of *)
(* AtomicSwap: a taker pays the price in full and empties the vault, or    *)
(* the maker gets all of it back, whatever accounts the caller passes.     *)
ImplementsSwap == Promise!Spec

=============================================================================
