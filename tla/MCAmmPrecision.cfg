\* A deposit of one LP token into a pool of eight.
SPECIFICATION Spec
CONSTANTS
    alice = alice
    bob = bob
    gold = gold
    silver = silver
    NoConfig = NoConfig
    CurveError = CurveError
    Wallets = {alice, bob}
    Tokens = {gold, silver}
    Seeds = {1}
    Fees = {0, 20000}
    Amounts = {0, 1, 8, 16}
    MaxU64 = 17
    Precision = 6
    Gold <- MCOneProvider
    Silver <- MCOneProvider
    Wealth <- MCWealth
    DepositAmounts <- MCDepositAmounts
    WithdrawAmounts <- MCWithdrawAmounts
    SwapResult <- MCSwapResult
PROPERTY
    LpForContribution
