--------------------------- MODULE MCMarketplace ---------------------------
(* Instances of the marketplace program for TLC.                           *)
EXTENDS Marketplace, TLC

CONSTANTS alice, bob, a1, a2, even, odd, blank

MCWealth == [w \in {alice, bob} |-> 28]
MCTreasuryBump == [m \in {even, odd, blank} |-> IF m = odd THEN 254 ELSE 255]
MCRewardsBump == [m \in {even, odd, blank} |-> 255]

MCSymmetry == Permutations({a1, a2}) \union Permutations({alice, bob})

=============================================================================
