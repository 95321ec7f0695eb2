-------------------------------- MODULE Dice --------------------------------
(***************************************************************************)
(* The dice program of src/introspection.  A player stakes lamports into a *)
(* house's vault and names a number; the house resolves the bet with its   *)
(* Ed25519 signature of the bet, whose hash is the roll; or the stake is   *)
(* refunded.  One action is one transaction, enabled when it succeeds.     *)
(***************************************************************************)
EXTENDS Integers, FiniteSets, Functions

CONSTANTS
    Wallets,    \* system accounts that can sign
    Houses,     \* the wallets that run a table
    Seeds,      \* values of the u128 argument `seed`
    Rolls,      \* values of the u8 argument `roll`
    Amounts,    \* values of the u64 argument `amount`
    Outcomes,   \* the rolls the hash of a signature gives
    Wealth,     \* the lamports of each wallet at the start
    BetRent,    \* the rent of a bet account, paid by the player
    RentMin,    \* the balance below which the runtime keeps no account
    MaxSlot,    \* bound on the clock
    U64,        \* 2^64
    Stakes,     \* the stakes HouseEdge is stated for
    NoBet       \* the content of a bet address where no account exists

HOUSE_EDGE == 150

(* A bet's address is derived from the vault, that is the house, and seed. *)
Pda == Houses \X Seeds

Bet == [player : Wallets, seed : Seeds, slot : 0..MaxSlot, amount : Amounts,
        roll : Rolls]

ASSUME HousesAssumption == Houses \subseteq Wallets
ASSUME FinitenessAssumption == IsFiniteSet(Wallets) /\ IsFiniteSet(Seeds)
ASSUME ArgumentsAssumption == Rolls \subseteq 0..255 /\ Amounts \subseteq Nat
ASSUME OutcomesAssumption == Outcomes \subseteq 1..100
ASSUME LamportsAssumption ==
    /\ Wealth \in [Wallets -> Nat]
    /\ BetRent \in Nat /\ RentMin \in Nat /\ BetRent >= RentMin
    /\ MaxSlot \in Nat
    /\ U64 \in Nat \ {0}
ASSUME NoBetAssumption == NoBet \notin Bet
(* The winnings on the most unlikely roll fit in a u64: no stake above     *)
(* 187 million SOL.                                                        *)
ASSUME StakesAssumption ==
    \A stake \in Stakes : stake \in Nat /\ stake * (10000 - HOUSE_EDGE) < 100 * U64

VARIABLES
    bet,        \* bet[p]: the account at address p, or NoBet
    vault,      \* vault[h]: the lamports in the vault of house h
    lamports,   \* lamports[w]: the lamports of wallet w
    slot        \* the cluster's clock

vars == <<bet, vault, lamports, slot>>

-----------------------------------------------------------------------------
(* The runtime keeps an account that is empty or exempt from rent.         *)
RentOk(balance) == balance = 0 \/ balance >= RentMin

(* The system program moves n lamports between a wallet and a vault.       *)
IntoVault_Unchecked(w, h, n, rent) ==
    /\ RentOk(vault[h] + n)
    /\ lamports' = [lamports EXCEPT ![w] = @ - n - rent]
    /\ vault' = [vault EXCEPT ![h] = @ + n]

IntoVault(w, h, n, rent) ==
    /\ n + rent <= lamports[w]
    /\ RentOk(lamports[w] - n - rent) /\ RentOk(vault[h] + n)
    /\ lamports' = [lamports EXCEPT ![w] = @ - n - rent]
    /\ vault' = [vault EXCEPT ![h] = @ + n]

(* The vault signs by its seeds; the rent of the closed bet goes along.    *)
CanLeaveVault(h, w, n, rent) ==
    /\ n <= vault[h]
    /\ RentOk(vault[h] - n) /\ RentOk(lamports[w] + n + rent)

OutOfVault(h, w, n, rent) ==
    /\ vault' = [vault EXCEPT ![h] = @ - n]
    /\ lamports' = [lamports EXCEPT ![w] = @ + n + rent]

-----------------------------------------------------------------------------
(* Initialize: the house funds its vault, as often as it likes.            *)
Initialize(house, amount) ==
    /\ IntoVault(house, house, amount, 0)
    /\ UNCHANGED <<bet, slot>>

(* `init` refuses an address that holds an account.                        *)
CanInitBet(p) == bet[p] = NoBet

(* PlaceBet: neither the roll nor the amount is checked.                   *)
PlaceBet(player, house, seed, roll, amount) ==
    LET p == <<house, seed>>
    IN  /\ CanInitBet(p)
        /\ bet' = [bet EXCEPT ![p] = [player |-> player, seed |-> seed, slot |-> slot,
                                      amount |-> amount, roll |-> roll]]
        /\ IntoVault(player, house, amount, BetRent)
        /\ UNCHANGED slot

-----------------------------------------------------------------------------
(* ResolveBet                                                              *)

(* What the first instruction of the transaction claims.  `verified`       *)
(* stands for the Ed25519 program being called without accounts on exactly *)
(* one verifiable signature.                                               *)
Ed25519 == [verified : BOOLEAN, key : Wallets, sig : Outcomes, message : Bet]

(* The signature is this house's, the argument's, and of this very bet.    *)
VerifySignature(ix, house, sig, b) ==
    ix.verified /\ ix.key = house /\ ix.sig = sig /\ ix.message = b

(* `100 - roll` is computed before the comparison and panics above 100.    *)
Chance(b) == 100 - b.roll

Wins_OrEqual(b, roll) == b.roll <= roll

Wins(b, roll) == b.roll < roll

(* checked_div refuses a zero divisor; the cast to u64 drops the high bits.*)
Payout(b) == ((b.amount * (10000 - HOUSE_EDGE)) \div (Chance(b) * 100)) % U64

(* What the vault owes the player on a roll.                               *)
Due(b, roll) == IF Wins(b, roll) THEN Payout(b) ELSE 0

CloseBet_Kept(p) == UNCHANGED bet

CloseBet(p) == bet' = [bet EXCEPT ![p] = NoBet]

(* The roll is 1 plus the signature's hash modulo 100: a signature stands  *)
(* for the roll it gives.                                                  *)
CanResolve(house, seed, ix, sig) ==
    LET b == bet[<<house, seed>>]
    IN  /\ b # NoBet
        /\ VerifySignature(ix, house, sig, b)
        /\ Chance(b) >= 0
        /\ Wins(b, sig) => Chance(b) # 0
        /\ CanLeaveVault(house, b.player, Due(b, sig), BetRent)

Resolve(house, seed, ix, sig) ==
    LET p == <<house, seed>>
        b == bet[p]
    IN  /\ CanResolve(house, seed, ix, sig)
        /\ OutOfVault(house, b.player, Due(b, sig), BetRent)
        /\ CloseBet(p)
        /\ UNCHANGED slot

-----------------------------------------------------------------------------
(* RefundBet: the signer is any wallet, and receives stake and rent.       *)

TimeoutReached_Swapped(b) == b.slot - slot >= 0

(* The difference of two u64 is never negative: the check never fails.     *)
TimeoutReached(b) == slot - b.slot >= 0

CanRefund(signer, house, seed) ==
    LET b == bet[<<house, seed>>]
    IN  /\ b # NoBet
        /\ TimeoutReached(b)
        /\ CanLeaveVault(house, signer, b.amount, BetRent)

Refund(signer, house, seed) ==
    LET p == <<house, seed>>
        b == bet[p]
    IN  /\ CanRefund(signer, house, seed)
        /\ OutOfVault(house, signer, b.amount, BetRent)
        /\ CloseBet(p)
        /\ UNCHANGED slot

-----------------------------------------------------------------------------
(* The clock moves on; anyone may send lamports to a vault.                *)
Tick ==
    /\ slot < MaxSlot
    /\ slot' = slot + 1
    /\ UNCHANGED <<bet, vault, lamports>>

Gift(w, house, n) ==
    /\ IntoVault(w, house, n, 0)
    /\ UNCHANGED <<bet, slot>>

Init ==
    /\ bet = [p \in Pda |-> NoBet]
    /\ vault = [h \in Houses |-> 0]
    /\ lamports = Wealth
    /\ slot = 0

(* The house sends any first instruction along with its call.              *)
Resolves(house, seed) ==
    \E verified \in BOOLEAN, key \in Wallets, sig, arg \in Outcomes,
       message \in {bet[p] : p \in Pda} \ {NoBet} :
        Resolve(house, seed,
                [verified |-> verified, key |-> key, sig |-> sig, message |-> message],
                arg)

Next ==
    \/ \E h \in Houses, n \in Amounts : Initialize(h, n)
    \/ \E w \in Wallets, h \in Houses, seed \in Seeds :
          \/ \E roll \in Rolls, n \in Amounts : PlaceBet(w, h, seed, roll, n)
          \/ Refund(w, h, seed)
    \/ \E h \in Houses, seed \in Seeds : Resolves(h, seed)
    \/ \E w \in Wallets, h \in Houses, n \in Amounts : Gift(w, h, n)
    \/ Tick

Spec == Init /\ [][Next]_vars

-----------------------------------------------------------------------------
(* Properties                                                              *)

(* Accounts keep their type: no wallet and no vault is overdrawn.          *)
TypeOK ==
    /\ bet \in [Pda -> Bet \union {NoBet}]
    /\ vault \in [Houses -> Nat]
    /\ lamports \in [Wallets -> Nat]
    /\ slot \in 0..MaxSlot

OpenBets == {p \in Pda : bet[p] # NoBet}

(* Stakes, winnings and rent come from somewhere and go somewhere: the     *)
(* lamports of wallets, vaults and open bets stay as many as they were     *)
(* (place_bet.rs:51-59, resolve_bet.rs:117-131, refund_bet.rs:34-48).      *)
LamportsConserved ==
    SumFunctionOnSet(lamports, Wallets) + SumFunctionOnSet(vault, Houses)
    + BetRent * Cardinality(OpenBets)
        = SumFunctionOnSet(Wealth, Wallets)

(* resolve_bet.rs:11, "1.5 % house edge": over the hundred equally likely  *)
(* rolls a bet on the number of an open one returns at most 98.5% of its   *)
(* stake, and less than that only by the rounding of each win to a lamport.*)
HouseEdge ==
    \A roll \in {bet[p].roll : p \in OpenBets} \ (100..255), stake \in Stakes :
        LET b == [roll |-> roll, amount |-> stake]
            returned == Cardinality({r \in 1..100 : Wins(b, r)}) * Payout(b)
        IN  /\ 100 * returned <= stake * 9850
            /\ 100 * (returned + Chance(b)) >= stake * 9850

(* A vault is only debited by the settlement of one of its own house's     *)
(* bets, which closes in the same step, and by no more than that bet's     *)
(* stake or winnings: bets of other houses and other seeds, retries and    *)
(* gifts never draw on it (resolve_bet.rs:110-132, refund_bet.rs:31-49).   *)
VaultPaysForSettlements ==
    [][\A h \in Houses :
          vault'[h] < vault[h] =>
              \E seed \in Seeds :
                  LET p == <<h, seed>>
                  IN  /\ bet[p] # NoBet /\ bet'[p] = NoBet
                      /\ \/ vault[h] - vault'[h] = bet[p].amount
                         \/ /\ bet[p].roll < 100
                            /\ vault[h] - vault'[h] = Payout(bet[p])
                      /\ \A q \in Pda \ {p} : bet'[q] = bet[q]
      ]_vars

(* A bet on 100 or less can be resolved whatever its signature hashes to,  *)
(* if the vault covers what is due: no roll makes the arithmetic fail, and *)
(* no player is too poor to be paid (resolve_bet.rs:105-132).              *)
Resolvable ==
    \A p \in Pda, sig \in Outcomes :
        LET b == bet[p]
            ix == [verified |-> TRUE, key |-> p[1], sig |-> sig, message |-> b]
        IN  (/\ b # NoBet
             /\ b.roll <= 100
             /\ b.roll < sig =>
                   Payout(b) <= vault[p[1]] /\ RentOk(vault[p[1]] - Payout(b)))
            => ENABLED Resolve(p[1], p[2], ix, sig)

=============================================================================
