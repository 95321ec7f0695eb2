\* Three users, gifts, dust below the rent minimum.
SPECIFICATION Spec
CONSTANTS
    alice = alice
    bob = bob
    carol = carol
    Users = {alice, bob, carol}
    Amounts = {0, 1, 2, 3}
    Wealth <- MCWealth
    StateRent = 3
    RentMin = 2
INVARIANTS
    TypeOK
    LamportsConserved
    Recoverable
PROPERTIES
    OnlyOwnerDrains
    CloseReturnsAll
