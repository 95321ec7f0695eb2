\* Two owners, two assets, days of two seconds, freeze periods up to two days.
SPECIFICATION FairSpec
CHECK_DEADLOCK FALSE
CONSTANTS
    alice = alice
    bob = bob
    a1 = a1
    a2 = a2
    NoConfig = NoConfig
    NoAsset = NoAsset
    NoAttributes = NoAttributes
    Users = {alice, bob}
    Assets = {a1, a2}
    RewardsBps = {1}
    FreezePeriods = {0, 2}
    SecondsPerDay = 2
    Start = 3
    End = 8
    MaxRewards = 200
INVARIANTS
    TypeOK
    StakedIsFrozen
    Releasable
PROPERTIES
    StakedStays
    EveryStakeEnds
