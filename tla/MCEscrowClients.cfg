\* One take in flight, among makers who use their seed again.
SPECIFICATION ClientSpec
CONSTANTS
    alice = alice
    bob = bob
    gold = gold
    silver = silver
    NoEscrow = NoEscrow
    Wallets = {alice, bob}
    Mints = {gold, silver}
    Seeds = {1}
    NativeMints = {}
    Token2022Mints = {}
    Amounts = {1, 2}
    Wealth <- MCWealth
    MaxInFlight = 1
    Silver = 2
INVARIANT
    ClientTypeOK
PROPERTY
    SettledOnReadTerms
