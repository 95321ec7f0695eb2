------------------------------ MODULE MCEscrow ------------------------------
(* Instances of the escrow program for TLC.                                *)
EXTENDS EscrowRefinement

CONSTANTS alice, bob, gold, silver

(* Alice owns two gold, Bob one silver.                                    *)
MCWealth ==
    [a \in Wallets \X Mints |->
        CASE a = <<alice, gold>>   -> 2
          [] a = <<bob, silver>>   -> 1
          [] OTHER -> 0]

(* A maker who wants out: the refund is sent again and again, and the      *)
(* maker reopens its own token account for mint A when it is missing.      *)
MakersReclaim ==
    \A w \in Wallets, seed \in Seeds, a \in Mints :
        /\ SF_vars(Refund(w, seed, a))
        /\ WF_vars(OpenAta(<<w, a>>))

FairSpec == Spec /\ MakersReclaim

(* README.md:28, "the maker can cancel the escrow at any time": an offer   *)
(* whose maker keeps asking for the refund ends, although others make      *)
(* gifts to the vault and token accounts come and go.                      *)
EveryOfferEnds ==
    \A p \in Pda : escrow[p] # NoEscrow ~> escrow[p] = NoEscrow

=============================================================================
