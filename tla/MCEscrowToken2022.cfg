\* Mints of Token-2022: an open offer cannot be refunded.
SPECIFICATION Spec
CONSTANTS
    alice = alice
    bob = bob
    gold = gold
    silver = silver
    NoEscrow = NoEscrow
    Wallets = {alice, bob}
    Mints = {gold, silver}
    Seeds = {1}
    NativeMints = {}
    Token2022Mints = {gold, silver}
    Amounts = {1, 2}
    Wealth <- MCWealth
INVARIANT
    AlwaysRefundable
