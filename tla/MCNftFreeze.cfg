\* An asset unstaked before its freeze period has passed.
SPECIFICATION Spec
CONSTANTS
    alice = alice
    bob = bob
    a1 = a1
    a2 = a2
    NoConfig = NoConfig
    NoAsset = NoAsset
    NoAttributes = NoAttributes
    Users = {alice, bob}
    Assets = {a1, a2}
    RewardsBps = {1}
    FreezePeriods = {0, 2}
    SecondsPerDay = 2
    Start = 3
    End = 8
    MaxRewards = 200
PROPERTY
    FreezePeriodHolds
