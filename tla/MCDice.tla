------------------------------- MODULE MCDice -------------------------------
(* Instances of the dice program for TLC.                                  *)
EXTENDS Dice

CONSTANTS hugo, ines, paul

(* Hugo and Ines run tables, Paul plays.                                   *)
MCWealth == [w \in Wallets |-> CASE w = paul -> 8 [] w = hugo -> 2 [] OTHER -> 0]

(* The player of a bet, who may be any wallet, sends its refund again and  *)
(* again.                                                                  *)
Reclaim(p) == bet[p] # NoBet /\ Refund(bet[p].player, p[1], p[2])

PlayersReclaim == \A p \in Pda : SF_vars(Reclaim(p))

FairSpec == Spec /\ PlayersReclaim

(* The vault can give the stake of the bet back.                           *)
CanRepay(p) ==
    bet[p] # NoBet => bet[p].amount <= vault[p[1]] /\ RentOk(vault[p[1]] - bet[p].amount)

(* A player who keeps asking gets out of a bet, resolved or refunded, if    *)
(* time and again the vault covers the stake, while the bets of others are  *)
(* placed and paid from the same vault, also on a roll that can never be    *)
(* resolved and however late the refund is (refund_bet.rs:31-49,            *)
(* resolve_bet.rs:107-132).                                                 *)
EveryBetEnds ==
    \A p \in Pda :
        []<>CanRepay(p) => (bet[p] # NoBet ~> bet[p] = NoBet)

=============================================================================
