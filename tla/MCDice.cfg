\* Two tables, two bets at each, one player; hugo funds his own, ines does not;
\* rolls on either side of the largest that can be resolved.
SPECIFICATION FairSpec
CONSTANTS
    hugo = hugo
    ines = ines
    paul = paul
    NoBet = NoBet
    Wallets = {hugo, ines, paul}
    Houses = {hugo, ines}
    Seeds = {1, 2}
    Rolls = {50, 99, 100, 101}
    Amounts = {2}
    Outcomes = {1, 51, 100}
    Wealth <- MCWealth
    BetRent = 2
    RentMin = 2
    MaxSlot = 1
    U64 = 1048576
    Stakes = {1, 999, 10000}
INVARIANTS
    TypeOK
    LamportsConserved
    HouseEdge
    Resolvable
PROPERTIES
    EveryBetEnds
    VaultPaysForSettlements
\* The system may stop: wallets too poor for any instruction, the clock at its end.
CHECK_DEADLOCK FALSE
