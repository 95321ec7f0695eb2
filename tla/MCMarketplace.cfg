\* Two wallets, two assets; a marketplace whose bumps agree, one whose bumps
\* do not, and a blank name; fees on both sides of the bound.
SPECIFICATION Spec
\* The system may stop: both wallets poor, both assets at their listings.
CHECK_DEADLOCK FALSE
CONSTANTS
    alice = alice
    bob = bob
    a1 = a1
    a2 = a2
    even = even
    odd = odd
    blank = blank
    NoMarket = NoMarket
    NoListing = NoListing
    Listing = Listing
    Wallets = {alice, bob}
    Assets = {a1, a2}
    Names = {even, odd, blank}
    Blank = {blank}
    Fees = {0, 1000, 1500}
    Prices = {20, 60}
    Gifts = {4}
    TreasuryBump <- MCTreasuryBump
    RewardsBump <- MCRewardsBump
    Wealth <- MCWealth
    MarketRent = 5
    ListingRent = 4
    AtaRent = 4
    RentMin = 3
    MaxPoints = 2
SYMMETRY MCSymmetry
INVARIANTS
    TypeOK
    ListedIsHeld
    LamportsConserved
    Sellable
PROPERTIES
    HeldUntilBought
    PointsForPurchases
    FeeAtMostTenth
