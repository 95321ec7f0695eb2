\* One pool, two wallets that provide, trade, give and burn.
SPECIFICATION FairSpec
CONSTANTS
    alice = alice
    bob = bob
    gold = gold
    silver = silver
    NoConfig = NoConfig
    CurveError = CurveError
    Wallets = {alice, bob}
    Tokens = {gold, silver}
    Seeds = {1}
    Fees = {0, 20000}
    Amounts = {0, 1, 2}
    MaxU64 = 3
    Precision = 6
    Gold <- MCGold
    Silver <- MCSilver
    Wealth <- MCWealth
    DepositAmounts <- MCDepositAmounts
    WithdrawAmounts <- MCWithdrawAmounts
    SwapResult <- MCSwapResult
INVARIANTS
    TypeOK
    VaultsStand
    TokensAccounted
    Withdrawable
PROPERTIES
    OnlyTheCurveDilutes
    EveryProviderLeaves
