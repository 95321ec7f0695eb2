\* A funded taker cannot take an offer whose vault is not its price.
SPECIFICATION Spec
CONSTANTS
    alice = alice
    bob = bob
    gold = gold
    silver = silver
    NoEscrow = NoEscrow
    Wallets = {alice, bob}
    Mints = {gold, silver}
    Seeds = {1}
    NativeMints = {}
    Token2022Mints = {}
    Amounts = {1, 2}
    Wealth <- MCWealth
INVARIANT
    FundedTakeable
