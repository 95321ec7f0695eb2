\* The safety properties, with gold as wrapped SOL.
SPECIFICATION Spec
CONSTANTS
    alice = alice
    bob = bob
    gold = gold
    silver = silver
    NoEscrow = NoEscrow
    Wallets = {alice, bob}
    Mints = {gold, silver}
    Seeds = {1}
    NativeMints = {gold}
    Token2022Mints = {}
    Amounts = {0, 1, 2}
    Wealth <- MCWealth
INVARIANTS
    TypeOK
    VaultBacked
    TokensConserved
    AlwaysRefundable
PROPERTIES
    OpenOfferStable
    MakerMadeWhole
