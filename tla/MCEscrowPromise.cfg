\* The refinement of AtomicSwap, and every offer whose maker asks ends.
SPECIFICATION FairSpec
CONSTANTS
    alice = alice
    bob = bob
    gold = gold
    silver = silver
    NoEscrow = NoEscrow
    Wallets = {alice, bob}
    Mints = {gold, silver}
    Seeds = {1}
    NativeMints = {}
    Token2022Mints = {}
    Amounts = {1, 2}
    Wealth <- MCWealth
PROPERTIES
    ImplementsSwap
    EveryOfferEnds
