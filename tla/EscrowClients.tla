--------------------------- MODULE EscrowClients ---------------------------
(***************************************************************************)
(* The escrow program seen by clients.  A taker reads an escrow account,   *)
(* signs a take that names the maker, the seed and the two mints it read,  *)
(* and sends it; the cluster executes it later, in any order with other    *)
(* transactions, or never.  The instruction carries no amount.             *)
(***************************************************************************)
EXTENDS Escrow

CONSTANT MaxInFlight    \* bound on the takes that are signed and not executed

ASSUME MaxInFlightAssumption == MaxInFlight \in Nat

VARIABLES
    signed,     \* the takes in flight, each with the account its taker read
    outlived    \* history: those whose offer was closed since it was read

clientVars == <<escrow, atas, amount, sol, deposited, signed, outlived>>

SignedTake == [taker : Wallets, at : Pda, read : Escrow]

(* The taker reads the account at p and signs.                             *)
SignTake(taker, p) ==
    LET t == [taker |-> taker, at |-> p, read |-> escrow[p]]
    IN  /\ escrow[p] # NoEscrow
        /\ Cardinality(signed) < MaxInFlight
        /\ signed' = signed \union {t}
        /\ outlived' = outlived \ {t}
        /\ UNCHANGED vars

(* What a step that may close an offer does to the takes still in flight.  *)
Outlive == outlived' = {t \in signed' : t \in outlived \/ escrow'[t.at] = NoEscrow}

(* The cluster executes a take, with the accounts it was signed for.       *)
LandTake(t) ==
    /\ Take(t.taker, t.at[1], t.at[2], t.read.mint_a, t.read.mint_b, FALSE)
    /\ signed' = signed \ {t}
    /\ Outlive

(* It expires, or executes and fails: nothing else changes.                *)
DropTake(t) ==
    /\ signed' = signed \ {t}
    /\ outlived' = outlived \ {t}
    /\ UNCHANGED vars

(* A maker opens an offer, under a seed that is new or was used before.    *)
MakeOffer(w, seed) ==
    /\ \E a, b \in Mints, receive, deposit \in Amounts :
          Make(w, seed, a, b, receive, deposit)
    /\ UNCHANGED <<signed, outlived>>

RefundOffer(w, seed) ==
    /\ \E a \in Mints : Refund(w, seed, a)
    /\ UNCHANGED signed
    /\ Outlive

ClientInit == Init /\ signed = {} /\ outlived = {}

ClientNext ==
    \/ \E w \in Wallets, seed \in Seeds : MakeOffer(w, seed) \/ RefundOffer(w, seed)
    \/ \E taker \in Wallets, p \in Pda : SignTake(taker, p)
    \/ \E t \in signed : LandTake(t) \/ DropTake(t)
    \/ Environment /\ UNCHANGED <<signed, outlived>>

ClientSpec == ClientInit /\ [][ClientNext]_clientVars

-----------------------------------------------------------------------------
(* Properties                                                              *)

ClientTypeOK == TypeOK /\ signed \subseteq SignedTake /\ outlived \subseteq signed

(* What a take by another wallet than the maker's settles when it executes, *)
(* however long it was in flight and whatever executed before it, makers    *)
(* using their seeds again included: an offer of the two mints it was       *)
(* signed for, for no more of mint B than that offer's price, and, unless   *)
(* the offer that was read has been closed meanwhile, the very terms that   *)
(* were read (take.rs:52-60,78-109).                                        *)
SettledOnReadTerms ==
    [][\A t \in signed :
          LET e == escrow[t.at]
          IN  (LandTake(t) /\ t.taker # t.at[1]) =>
                  /\ e.mint_a = t.read.mint_a /\ e.mint_b = t.read.mint_b
                  /\ t \notin outlived => e = t.read
                  /\ e.mint_a # e.mint_b =>
                        amount'[<<t.taker, e.mint_b>>] + e.receive
                            >= amount[<<t.taker, e.mint_b>>]
      ]_clientVars

=============================================================================
