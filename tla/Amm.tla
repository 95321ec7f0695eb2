-------------------------------- MODULE Amm --------------------------------
(***************************************************************************)
(* The program of src/amm: pools of two tokens.  A provider deposits both  *)
(* tokens for LP tokens and burns LP tokens for a share of the reserves; a *)
(* trader swaps one token for the other.  How much moves is computed by an *)
(* external crate, the curve, from what the vaults and the LP mint hold    *)
(* when the instruction runs; it enters as three constant operators.  One  *)
(* action is one transaction, enabled when it succeeds.                    *)
(***************************************************************************)
EXTENDS Integers, FiniteSets, Functions

CONSTANTS
    Wallets,    \* system accounts that can sign
    Seeds,      \* values of the `seed` argument; also the addresses of the configs
    Tokens,     \* token mints that exist without the program
    Fees,       \* values of the u16 argument `fee`, in basis points
    Amounts,    \* values of the u64 arguments
    MaxU64,     \* the largest u64
    Wealth,     \* Wealth[<<w, m>>]: what wallet w holds of token m at the start
    NoConfig,   \* the content of a config address where no account exists
    CurveError, \* the curve refuses
    DepositAmounts(_, _, _, _),     \* xy_deposit_amounts_from_l(x, y, l, a, 6)
    WithdrawAmounts(_, _, _, _),    \* xy_withdraw_amounts_from_l(x, y, l, a, 6)
    SwapResult(_, _, _, _, _, _)    \* init(x, y, l, fee, 6) and swap(pair, a, min), x and
                                    \* y being the reserves of the token paid and bought

U64 == 0..MaxU64

(* The LP mint's address is derived from the config's.                     *)
LpMint(s) == <<"lp", s>>
Mints == Tokens \union {LpMint(s) : s \in Seeds}

(* An associated token account is determined by its owner and its mint.    *)
Owners == Wallets \union Seeds
Ata == Owners \X Mints

(* The seed is the address, the authority is stored and never read.        *)
Config == [mint_x : Mints, mint_y : Mints, fee : Fees, locked : BOOLEAN]

ASSUME FinitenessAssumption == IsFiniteSet(Wallets) /\ IsFiniteSet(Seeds)
ASSUME ArgumentsAssumption == MaxU64 \in Nat /\ Amounts \subseteq U64 /\ Fees \subseteq Nat
ASSUME WealthAssumption == Wealth \in [Wallets \X Tokens -> U64]
(* A mint counts its tokens in a u64.                                      *)
ASSUME SupplyAssumption ==
    \A m \in Tokens : SumFunctionOnSet(Wealth, Wallets \X {m}) <= MaxU64
ASSUME AddressAssumption ==
    /\ Wallets \intersect Seeds = {}
    /\ \A s \in Seeds : LpMint(s) \notin Tokens
    /\ NoConfig \notin Config

(* What the program relies on in the curve: its results are u64, and a swap *)
(* takes no more than offered and gives no less than the minimum, neither   *)
(* of which swap checks itself.  How it rounds is left open: the program    *)
(* calls it with the literal precision 6.                                   *)
ASSUME CurveAssumption ==
    \A x, y, l, a \in U64 :
        /\ DepositAmounts(x, y, l, a) \in [x : U64, y : U64] \union {CurveError}
        /\ WithdrawAmounts(x, y, l, a) \in [x : U64, y : U64] \union {CurveError}
        /\ \A fee \in Fees, min \in Amounts :
              LET r == SwapResult(x, y, l, fee, a, min)
              IN  r # CurveError =>
                    /\ r \in [deposit : U64, withdraw : U64]
                    /\ r.deposit <= a /\ r.withdraw >= min

VARIABLES
    config,     \* config[s]: the pool's account, or NoConfig
    atas,       \* the token accounts that exist
    amount,     \* amount[a]: the tokens in account a, 0 when it does not exist
    supply      \* supply[s]: the LP tokens of pool s

vars == <<config, atas, amount, supply>>

IsPool(s) == config[s] # NoConfig

(* The token account of an owner, or of the pool itself, for one of the    *)
(* two tokens of pool s.                                                   *)
MintOf(s, is_x) == IF is_x THEN config[s].mint_x ELSE config[s].mint_y
Account(o, s, is_x) == <<o, MintOf(s, is_x)>>
Vault(s, is_x) == Account(s, s, is_x)
Reserve(s, is_x) == amount[Vault(s, is_x)]

-----------------------------------------------------------------------------
(* The token program, as the program's calls use it.                       *)

MintExists(m) == m \in Tokens \/ \E s \in Seeds : m = LpMint(s) /\ IsPool(s)

(* A transfer refuses a missing account, an overdraft and an overflow.     *)
CanTransfer(accts, bal, from, to, n) ==
    /\ from \in accts /\ to \in accts
    /\ n <= bal[from]
    /\ from = to \/ bal[to] + n <= MaxU64

Transferred(bal, from, to, n) ==
    LET debited == [bal EXCEPT ![from] = @ - n]
    IN  [debited EXCEPT ![to] = @ + n]

-----------------------------------------------------------------------------
CanInitVaults_Apart(s, mint_x, mint_y) ==
    <<s, mint_x>> \notin atas /\ <<s, mint_y>> \notin atas

(* `init` refuses a vault that exists; with two equal mints the second     *)
(* vault is the account just created as the first.                         *)
CanInitVaults(s, mint_x, mint_y) ==
    <<s, mint_x>> \notin atas /\ <<s, mint_y>> \notin atas \union {<<s, mint_x>>}

(* Initialize: `init` on config, LP mint and vaults.  No fee is refused.   *)
Initialize(s, mint_x, mint_y, fee) ==
    /\ ~IsPool(s)
    /\ MintExists(mint_x) /\ MintExists(mint_y)
    /\ CanInitVaults(s, mint_x, mint_y)
    /\ config' = [config EXCEPT ![s] = [mint_x |-> mint_x, mint_y |-> mint_y,
                                        fee |-> fee, locked |-> FALSE]]
    /\ atas' = atas \union {<<s, mint_x>>, <<s, mint_y>>}
    /\ UNCHANGED <<amount, supply>>

-----------------------------------------------------------------------------
(* Deposit                                                                 *)

(* The first deposit of a pool sets the price, if nothing is in its vaults.*)
FirstDeposit(s) ==
    supply[s] = 0 /\ Reserve(s, TRUE) = 0 /\ Reserve(s, FALSE) = 0

DepositDue_AfterMint(s, amt, max_x, max_y) ==
    IF FirstDeposit(s)
    THEN [x |-> max_x, y |-> max_y]
    ELSE DepositAmounts(Reserve(s, TRUE), Reserve(s, FALSE), supply[s] + amt, amt)

DepositDue(s, amt, max_x, max_y) ==
    IF FirstDeposit(s)
    THEN [x |-> max_x, y |-> max_y]
    ELSE DepositAmounts(Reserve(s, TRUE), Reserve(s, FALSE), supply[s], amt)

MintLp_Unbounded(bal, user_lp, s, amt) ==
    /\ supply' = [supply EXCEPT ![s] = @ + amt]
    /\ amount' = [bal EXCEPT ![user_lp] = @ + amt]

MintLp(bal, user_lp, s, amt) ==
    /\ supply[s] + amt <= MaxU64 /\ bal[user_lp] + amt <= MaxU64
    /\ supply' = [supply EXCEPT ![s] = @ + amt]
    /\ amount' = [bal EXCEPT ![user_lp] = @ + amt]

(* The user's LP account is opened when missing, the others must exist.    *)
Deposit(user, s, amt, max_x, max_y) ==
    LET due == DepositDue(s, amt, max_x, max_y)
        user_lp == <<user, LpMint(s)>>
        accts == atas \union {user_lp}
        paid == Transferred(amount, Account(user, s, TRUE), Vault(s, TRUE), due.x)
    IN  /\ IsPool(s)
        /\ ~config[s].locked /\ amt # 0
        /\ due # CurveError
        /\ due.x <= max_x /\ due.y <= max_y
        /\ CanTransfer(accts, amount, Account(user, s, TRUE), Vault(s, TRUE), due.x)
        /\ CanTransfer(accts, paid, Account(user, s, FALSE), Vault(s, FALSE), due.y)
        /\ MintLp(Transferred(paid, Account(user, s, FALSE), Vault(s, FALSE), due.y),
                  user_lp, s, amt)
        /\ atas' = accts
        /\ UNCHANGED config

-----------------------------------------------------------------------------
(* Withdraw: the LP tokens are burned, then both shares are paid out.      *)

WithdrawDue_AfterBurn(s, amt) ==
    WithdrawAmounts(Reserve(s, TRUE), Reserve(s, FALSE), supply[s] - amt, amt)

(* Of the supply before the tokens are burned.                             *)
WithdrawDue(s, amt) ==
    WithdrawAmounts(Reserve(s, TRUE), Reserve(s, FALSE), supply[s], amt)

CanBurn(user_lp, s, amt) ==
    user_lp \in atas /\ amt <= amount[user_lp] /\ amt <= supply[s]

Burned(user_lp, amt) == [amount EXCEPT ![user_lp] = @ - amt]

BurnedSupply_Kept(s, amt) == supply

BurnedSupply(s, amt) == [supply EXCEPT ![s] = @ - amt]

(* The balances once the first share is paid out.                          *)
WithdrawPaid(user, s, amt) ==
    Transferred(Burned(<<user, LpMint(s)>>, amt), Vault(s, TRUE), Account(user, s, TRUE),
                WithdrawDue(s, amt).x)

CanWithdraw(user, s, amt, min_x, min_y) ==
    LET due == WithdrawDue(s, amt)
        user_lp == <<user, LpMint(s)>>
    IN  /\ IsPool(s)
        /\ ~config[s].locked /\ amt # 0
        /\ due # CurveError
        /\ due.x >= min_x /\ due.y >= min_y
        /\ CanBurn(user_lp, s, amt)
        /\ CanTransfer(atas, Burned(user_lp, amt), Vault(s, TRUE), Account(user, s, TRUE), due.x)
        /\ CanTransfer(atas, WithdrawPaid(user, s, amt),
                       Vault(s, FALSE), Account(user, s, FALSE), due.y)

Withdraw(user, s, amt, min_x, min_y) ==
    /\ CanWithdraw(user, s, amt, min_x, min_y)
    /\ amount' = Transferred(WithdrawPaid(user, s, amt),
                             Vault(s, FALSE), Account(user, s, FALSE), WithdrawDue(s, amt).y)
    /\ supply' = BurnedSupply(s, amt)
    /\ UNCHANGED <<config, atas>>

-----------------------------------------------------------------------------
(* Swap: one token is paid in, the other out; the lock is not looked at.   *)

SwapDue(s, is_x, amt, min) ==
    SwapResult(Reserve(s, is_x), Reserve(s, ~is_x), supply[s], config[s].fee, amt, min)

Swap(user, s, is_x, amt, min) ==
    LET due == SwapDue(s, is_x, amt, min)
        paid == Transferred(amount, Account(user, s, is_x), Vault(s, is_x), due.deposit)
    IN  /\ IsPool(s)
        /\ amt > 0
        /\ due # CurveError
        /\ CanTransfer(atas, amount, Account(user, s, is_x), Vault(s, is_x), due.deposit)
        /\ CanTransfer(atas, paid, Vault(s, ~is_x), Account(user, s, ~is_x), due.withdraw)
        /\ amount' = Transferred(paid, Vault(s, ~is_x), Account(user, s, ~is_x), due.withdraw)
        /\ UNCHANGED <<config, atas, supply>>

-----------------------------------------------------------------------------
(* What anyone may do with the token program between two instructions.     *)

(* Creating an associated token account needs no signature of its owner.   *)
OpenAta(o, m) ==
    /\ MintExists(m) /\ <<o, m>> \notin atas
    /\ atas' = atas \union {<<o, m>>}
    /\ UNCHANGED <<config, amount, supply>>

CloseAta(w, m) ==
    /\ <<w, m>> \in atas /\ amount[<<w, m>>] = 0
    /\ atas' = atas \ {<<w, m>>}
    /\ UNCHANGED <<config, amount, supply>>

(* A wallet sends tokens to any token account, a vault included.           *)
Send(w, m, o, n) ==
    /\ n > 0
    /\ CanTransfer(atas, amount, <<w, m>>, <<o, m>>, n)
    /\ amount' = Transferred(amount, <<w, m>>, <<o, m>>, n)
    /\ UNCHANGED <<config, atas, supply>>

(* A holder burns LP tokens without asking the pool.                       *)
BurnLp(w, s, n) ==
    /\ n > 0
    /\ CanBurn(<<w, LpMint(s)>>, s, n)
    /\ amount' = Burned(<<w, LpMint(s)>>, n)
    /\ supply' = [supply EXCEPT ![s] = @ - n]
    /\ UNCHANGED <<config, atas>>

-----------------------------------------------------------------------------

Init ==
    /\ config = [s \in Seeds |-> NoConfig]
    /\ atas = {a \in Wallets \X Tokens : Wealth[a] > 0}
    /\ amount = [a \in Ata |-> IF a \in Wallets \X Tokens THEN Wealth[a] ELSE 0]
    /\ supply = [s \in Seeds |-> 0]

(* An instruction that w signs.                                            *)
Program(w) ==
    \E s \in Seeds :
        \/ \E mint_x, mint_y \in Mints, fee \in Fees : Initialize(s, mint_x, mint_y, fee)
        \/ \E amt, a, b \in Amounts : Deposit(w, s, amt, a, b) \/ Withdraw(w, s, amt, a, b)
        \/ \E is_x \in BOOLEAN, amt, min \in Amounts : Swap(w, s, is_x, amt, min)

Environment(w) ==
    \/ \E o \in Owners, m \in Mints :
          \/ OpenAta(o, m)
          \/ \E n \in Amounts : Send(w, m, o, n)
    \/ \E m \in Mints : CloseAta(w, m)
    \/ \E s \in Seeds, n \in Amounts : BurnLp(w, s, n)

Next == \E w \in Wallets : Program(w) \/ Environment(w)

Spec == Init /\ [][Next]_vars

-----------------------------------------------------------------------------
(* Properties                                                              *)

(* Accounts keep their type, balances and supplies fit in a u64.           *)
TypeOK ==
    /\ config \in [Seeds -> Config \union {NoConfig}]
    /\ atas \subseteq Ata
    /\ amount \in [Ata -> U64]
    /\ supply \in [Seeds -> U64]

(* A pool keeps two vaults of two mints, neither of which is its own LP     *)
(* mint, whatever mints, LP mints of other pools included, it is made for   *)
(* and whatever accounts were opened at its address before                  *)
(* (initialize.rs:16-50).                                                   *)
VaultsStand ==
    \A s \in Seeds :
        IsPool(s) =>
            /\ config[s].mint_x # config[s].mint_y
            /\ LpMint(s) \notin {config[s].mint_x, config[s].mint_y}
            /\ {Vault(s, TRUE), Vault(s, FALSE)} \subseteq atas

(* Tokens are neither created nor destroyed, and the LP tokens that exist  *)
(* are those the pool counts: what is burnt and minted agrees with the     *)
(* accounts, also when a vault holds LP tokens of another pool             *)
(* (deposit.rs:111-115, withdraw.rs:88-90, swap.rs:86-87).                 *)
Held(m) == SumFunctionOnSet(amount, Owners \X {m})
TokensAccounted ==
    /\ \A m \in Tokens : Held(m) = SumFunctionOnSet(Wealth, Wallets \X {m})
    /\ \A s \in Seeds : Held(LpMint(s)) = supply[s]

(* The worth of an LP token of pool s, the product of the reserves per      *)
(* square of the supply, does not fall.                                     *)
WorthKept(s) ==
    Reserve(s, TRUE)' * Reserve(s, FALSE)' * (supply[s] * supply[s])
        >= Reserve(s, TRUE) * Reserve(s, FALSE) * (supply'[s] * supply'[s])

(* LP tokens are minted for exactly what the curve quotes, and that is, in  *)
(* one of the two tokens, less than their part of the reserve.              *)
SoldBelowWorth(s) ==
    LET n   == supply'[s] - supply[s]
        due == DepositAmounts(Reserve(s, TRUE), Reserve(s, FALSE), supply[s], n)
    IN  /\ n > 0 /\ due # CurveError
        /\ Reserve(s, TRUE)' = Reserve(s, TRUE) + due.x
        /\ Reserve(s, FALSE)' = Reserve(s, FALSE) + due.y
        /\ \/ due.x * supply[s] < Reserve(s, TRUE) * n
           \/ due.y * supply[s] < Reserve(s, FALSE) * n

(* LP tokens are burnt for exactly what the curve quotes, and that is, in   *)
(* one of the two tokens, more than their part of the reserve.              *)
RedeemedAboveWorth(s) ==
    LET n   == supply[s] - supply'[s]
        due == WithdrawAmounts(Reserve(s, TRUE), Reserve(s, FALSE), supply[s], n)
    IN  /\ n > 0 /\ due # CurveError
        /\ Reserve(s, TRUE)' = Reserve(s, TRUE) - due.x
        /\ Reserve(s, FALSE)' = Reserve(s, FALSE) - due.y
        /\ \/ due.x * supply[s] > Reserve(s, TRUE) * n
           \/ due.y * supply[s] > Reserve(s, FALSE) * n

(* The reserves change by exactly what the curve quotes for some swap.      *)
SwappedAsQuoted(s) ==
    \E is_x \in BOOLEAN, amt, min \in Amounts :
        LET r == SwapResult(Reserve(s, is_x), Reserve(s, ~is_x), supply[s],
                            config[s].fee, amt, min)
        IN  /\ r # CurveError /\ supply'[s] = supply[s]
            /\ Reserve(s, is_x)' = Reserve(s, is_x) + r.deposit
            /\ Reserve(s, ~is_x)' = Reserve(s, ~is_x) - r.withdraw

(* README.md:203, "Pool invariant maintained", as far as the program can    *)
(* keep it: whatever the curve is and however it rounds, an LP token loses  *)
(* worth only in a step that moves exactly what the curve quotes for the    *)
(* reserves, the supply and the fee as they are at that moment, a quote     *)
(* that is itself against the holders.  No gift, no LP token burnt outside  *)
(* the program, no use of another pool and no order of instructions dilutes *)
(* anybody (deposit.rs:83-115, withdraw.rs:76-90, swap.rs:69-87).           *)
OnlyTheCurveDilutes ==
    [][\A s \in Seeds :
          supply[s] > 0 /\ supply'[s] > 0 /\ ~WorthKept(s) =>
              SoldBelowWorth(s) \/ RedeemedAboveWorth(s) \/ SwappedAsQuoted(s)
      ]_vars

(* README.md:87, "Liquidity providers receive LP tokens proportional to     *)
(* their contribution": of each token a deposit into a pool that has LP     *)
(* tokens contributes the part of the reserve that the minted LP tokens are *)
(* of the supply, up to one token of rounding (deposit.rs:90-101).          *)
LpForContribution ==
    [][\A s \in Seeds :
          supply[s] > 0 /\ supply'[s] > supply[s] =>
              \A b \in BOOLEAN :
                  (Reserve(s, b)' - Reserve(s, b) + 1) * supply[s]
                      >= Reserve(s, b) * (supply'[s] - supply[s])
      ]_vars

(* README.md:169, "redeem their proportional share": a holder of LP tokens  *)
(* with accounts for both tokens can withdraw all of them, whatever the     *)
(* fee of the pool, its trades and the gifts to its vaults were             *)
(* (withdraw.rs:72-91).                                                     *)
Withdrawable ==
    \A s \in Seeds, w \in Wallets :
        LET lp == amount[<<w, LpMint(s)>>]
        IN  /\ IsPool(s) /\ lp > 0
            /\ {Account(w, s, TRUE), Account(w, s, FALSE)} \subseteq atas
            => ENABLED Withdraw(w, s, lp, 0, 0)

=============================================================================
