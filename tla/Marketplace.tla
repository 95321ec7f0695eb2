----------------------------- MODULE Marketplace -----------------------------
(***************************************************************************)
(* The program of src/marketplace: marketplaces, each with a treasury and  *)
(* a mint of reward points, and listings of MPL Core assets, which belong  *)
(* to no marketplace: the buyer names one in `buy`.  One action is one     *)
(* transaction, enabled when it succeeds.                                  *)
(***************************************************************************)
EXTENDS Integers, FiniteSets, Functions

CONSTANTS
    Wallets,        \* system accounts that can sign
    Assets,         \* MPL Core assets
    Names,          \* names of marketplaces, at most 32 bytes long
    Blank,          \* those that are empty once trimmed
    Fees,           \* values of the u16 argument `fee`, in basis points
    Prices,         \* values of the u64 argument `price`
    TreasuryBump,   \* TreasuryBump[m]: the bump of the address of m's treasury
    RewardsBump,    \* RewardsBump[m]: the bump of the address of m's rewards mint
    Gifts,          \* lamports someone may send to a treasury
    Wealth,         \* the lamports of each wallet at the start
    MarketRent,     \* rent of a marketplace account and its mint
    ListingRent,    \* rent of a listing account
    AtaRent,        \* rent of a token account for reward points
    RentMin,        \* the balance below which the runtime keeps no account
    MaxPoints,      \* the largest supply of points (a u64 in the code)
    NoMarket, NoListing,    \* what is not there
    Listing         \* the owner of an asset sent to the address of its listing

ASSUME FinitenessAssumption == IsFiniteSet(Wallets) /\ IsFiniteSet(Assets) /\ IsFiniteSet(Names)
ASSUME ArgumentsAssumption ==
    /\ Blank \subseteq Names
    /\ Fees \subseteq Nat /\ Prices \subseteq Nat /\ Gifts \subseteq Nat
ASSUME LamportsAssumption ==
    /\ MarketRent \in Nat /\ ListingRent \in Nat /\ AtaRent \in Nat /\ RentMin \in Nat
    /\ MaxPoints \in Nat
    /\ ListingRent >= RentMin
    /\ Wealth \in [Wallets -> Nat]
    /\ \A w \in Wallets : Wealth[w] >= RentMin
ASSUME BumpsAssumption == TreasuryBump \in [Names -> 0..255] /\ RewardsBump \in [Names -> 0..255]

VARIABLES
    market,     \* market[m]: the marketplace account named m
    listing,    \* listing[a]: the listing account of asset a
    owner,      \* owner[a]: the owner of asset a
    treasury,   \* treasury[m]: the lamports in m's treasury
    lamports,   \* lamports[w]: the lamports of wallet w
    points      \* points[m][w]: reward points of marketplace m that w was minted

vars == <<market, listing, owner, treasury, lamports, points>>

(* The rewards mint belongs to one of the two token programs.              *)
TokenPrograms == {"token", "token2022"}
MarketRecord ==
    [admin : Wallets, fee : {f \in Fees : f <= 1000}, rewards_bump : 0..255,
     token_program : TokenPrograms]
ListingRecord == [maker : Wallets, price : Prices]

ASSUME AbsentAssumption ==
    NoMarket \notin MarketRecord /\ NoListing \notin ListingRecord /\ Listing \notin Wallets

Exists(m) == market[m] # NoMarket
Listed(a) == listing[a] # NoListing

(* The runtime keeps an account that is empty or exempt from rent.         *)
RentOk(balance) == balance = 0 \/ balance >= RentMin

-----------------------------------------------------------------------------
ValidFee_Any(fee) == fee <= 10000

ValidFee(fee) == fee <= 1000

(* Anyone may create a marketplace under an unused name.  The bump of the  *)
(* treasury is stored as the one of the rewards mint.                      *)
Initialize(admin, m, fee, token_program) ==
    /\ ~Exists(m)
    /\ m \notin Blank /\ ValidFee(fee)
    /\ lamports[admin] >= MarketRent /\ RentOk(lamports[admin] - MarketRent)
    /\ market' = [market EXCEPT ![m] =
                    [admin |-> admin, fee |-> fee, rewards_bump |-> TreasuryBump[m],
                     token_program |-> token_program]]
    /\ lamports' = [lamports EXCEPT ![admin] = @ - MarketRent]
    /\ UNCHANGED <<listing, owner, treasury, points>>

GiveToListing_Kept(a) == UNCHANGED owner

(* MPL Core hands the asset to the address of its listing.                 *)
GiveToListing(a) == owner' = [owner EXCEPT ![a] = Listing]

(* `init` on the listing; the maker must own the asset.                    *)
List(maker, a, price) ==
    /\ ~Listed(a)
    /\ owner[a] = maker
    /\ lamports[maker] >= ListingRent /\ RentOk(lamports[maker] - ListingRent)
    /\ listing' = [listing EXCEPT ![a] = [maker |-> maker, price |-> price]]
    /\ GiveToListing(a)
    /\ lamports' = [lamports EXCEPT ![maker] = @ - ListingRent]
    /\ UNCHANGED <<market, treasury, points>>

-----------------------------------------------------------------------------
(* Buy                                                                     *)

(* In u128, of a price in u64 and a fee of at most 1000.                   *)
Fee(m, a) == (listing[a].price * market[m].fee) \div 10000

(* The address of the rewards mint is recomputed with the stored bump: a   *)
(* bump that is not the mint's gives another address, with no mint.        *)
RewardsFound_Skip(m) == TRUE

RewardsFound(m) == market[m].rewards_bump = RewardsBump[m]

(* A first purchase opens the buyer's account for points.                  *)
Opening(buyer, m) == IF points[m][buyer] = 0 THEN AtaRent ELSE 0

(* The payer's balance covers the transfers in the order they are made;    *)
(* the listing's rent reaches the maker, who may be the buyer, at the end. *)
Paid(buyer, m, a) == Opening(buyer, m) + Fee(m, a)
AfterBuy(buyer, m, a) ==
    [w \in Wallets |-> lamports[w] - (IF w = buyer THEN Paid(buyer, m, a) ELSE 0)
                                  + (IF w = listing[a].maker THEN ListingRent ELSE 0)]

CanPay(buyer, m, a) ==
    /\ Paid(buyer, m, a) <= lamports[buyer]
    /\ RentOk(AfterBuy(buyer, m, a)[buyer]) /\ RentOk(treasury[m] + Fee(m, a))

Payments(buyer, m, a) ==
    /\ lamports' = AfterBuy(buyer, m, a)
    /\ treasury' = [treasury EXCEPT ![m] = @ + Fee(m, a)]

CloseListing_Kept(a) == UNCHANGED listing

CloseListing(a) == listing' = [listing EXCEPT ![a] = NoListing]

(* `mint_to` of anchor_spl::token only invokes the original token program. *)
CanMintPoint(buyer, m) == market[m].token_program = "token" /\ points[m][buyer] < MaxPoints

MintPoint_ToMaker(buyer, m, a) == points' = [points EXCEPT ![m][listing[a].maker] = @ + 1]

MintPoint(buyer, m, a) == points' = [points EXCEPT ![m][buyer] = @ + 1]

(* The listing's address hands the asset over, so it must own it.          *)
CanBuy(buyer, m, a) ==
    /\ Exists(m) /\ Listed(a) /\ owner[a] = Listing
    /\ RewardsFound(m)
    /\ CanPay(buyer, m, a) /\ CanMintPoint(buyer, m)

(* The payment to the maker is commented out in send_sol.                  *)
Buy(buyer, m, a) ==
    /\ CanBuy(buyer, m, a)
    /\ Payments(buyer, m, a)
    /\ owner' = [owner EXCEPT ![a] = buyer]
    /\ MintPoint(buyer, m, a)
    /\ CloseListing(a)
    /\ UNCHANGED market

-----------------------------------------------------------------------------
(* What wallets do without the program.                                    *)

(* An owner may also send an asset to its listing's address, by mistake.   *)
Transfer(w, a, new) ==
    /\ owner[a] = w /\ new # w
    /\ owner' = [owner EXCEPT ![a] = new]
    /\ UNCHANGED <<market, listing, treasury, lamports, points>>

(* A treasury is not said to exist: anyone may fund an empty one.  Gifts   *)
(* to others are left out, they only add to it.                            *)
Gift(w, m, n) ==
    /\ treasury[m] = 0
    /\ n <= lamports[w]
    /\ RentOk(lamports[w] - n) /\ RentOk(n)
    /\ lamports' = [lamports EXCEPT ![w] = @ - n]
    /\ treasury' = [treasury EXCEPT ![m] = n]
    /\ UNCHANGED <<market, listing, owner, points>>

Init ==
    /\ market = [m \in Names |-> NoMarket]
    /\ listing = [a \in Assets |-> NoListing]
    /\ owner \in [Assets -> Wallets]
    /\ treasury = [m \in Names |-> 0]
    /\ lamports = Wealth
    /\ points = [m \in Names |-> [w \in Wallets |-> 0]]

(* A transaction that w signs.                                             *)
Program(w) ==
    \/ \E m \in Names, fee \in Fees, program \in TokenPrograms : Initialize(w, m, fee, program)
    \/ \E a \in Assets, price \in Prices : List(w, a, price)
    \/ \E m \in Names, a \in Assets : Buy(w, m, a)

Environment(w) ==
    \/ \E a \in Assets, new \in Wallets \union {Listing} : Transfer(w, a, new)
    \/ \E m \in Names, n \in Gifts : Gift(w, m, n)

Next == \E w \in Wallets : Program(w) \/ Environment(w)

Spec == Init /\ [][Next]_vars

-----------------------------------------------------------------------------
(* Properties                                                              *)

TypeOK ==
    /\ market \in [Names -> MarketRecord \union {NoMarket}]
    /\ listing \in [Assets -> ListingRecord \union {NoListing}]
    /\ owner \in [Assets -> Wallets \union {Listing}]
    /\ treasury \in [Names -> Nat]
    /\ lamports \in [Wallets -> Nat]
    /\ points \in [Names -> [Wallets -> Nat]]

(* While a listing is open its address owns the asset: no transfer, no     *)
(* other listing and no purchase of another asset takes it away            *)
(* (list.rs:43-50, buy.rs:40-48).                                          *)
ListedIsHeld == \A a \in Assets : Listed(a) => owner[a] = Listing

(* An asset leaves its listing's address only for a wallet that buys it:   *)
(* in the same step the listing closes, one marketplace mints the new      *)
(* owner a point and its treasury, no other, takes its fee on the price    *)
(* listed (buy.rs:81-152).                                                 *)
HeldUntilBought ==
    [][\A a \in Assets :
          owner[a] = Listing /\ owner'[a] # Listing =>
              /\ Listed(a) /\ ~Listed(a)'
              /\ \E m \in Names :
                    /\ Exists(m)
                    /\ points' = [points EXCEPT ![m][owner'[a]] = @ + 1]
                    /\ treasury' = [treasury EXCEPT ![m] = @ + Fee(m, a)]
      ]_vars

(* Points are for purchases: a wallet is minted one exactly when it        *)
(* receives an asset out of a listing (buy.rs:132-152).                    *)
PointsForPurchases ==
    [][\A m \in Names, w \in Wallets :
          points'[m][w] # points[m][w] =>
              \E a \in Assets : Listed(a) /\ ~Listed(a)' /\ owner'[a] = w
      ]_vars

(* No marketplace takes more than a tenth of a price, whichever the buyer  *)
(* names (initialize.rs:55-61, buy.rs:83-98).                              *)
FeeAtMostTenth ==
    [][\A a \in Assets, m \in Names :
          Listed(a) /\ ~Listed(a)' => 10 * (treasury'[m] - treasury[m]) <= listing[a].price
      ]_vars

(* Lamports are neither created nor destroyed: wallets, treasuries and the *)
(* rent of every open account add up to what there was at the start, also  *)
(* when maker and buyer are one wallet (list.rs:20-27, buy.rs:40-48,98).   *)
Opened == {mw \in Names \X Wallets : points[mw[1]][mw[2]] > 0}
LamportsConserved ==
    SumFunctionOnSet(lamports, Wallets) + SumFunctionOnSet(treasury, Names)
    + MarketRent * Cardinality({m \in Names : Exists(m)})
    + ListingRent * Cardinality({a \in Assets : Listed(a)})
    + AtaRent * Cardinality(Opened)
        = SumFunctionOnSet(Wealth, Wallets)

(* No listing is stuck: whoever can pay buys it at any marketplace whose   *)
(* rewards mint is found and of the original token program, and whose      *)
(* treasury the fee does not leave below the rent minimum                  *)
(* (buy.rs:54-60,98,142).                                                  *)
Sellable ==
    \A a \in Assets, m \in Names, w \in Wallets :
        /\ Listed(a) /\ Exists(m)
        /\ TreasuryBump[m] = RewardsBump[m] /\ market[m].token_program = "token"
        /\ treasury[m] >= RentMin
        /\ points[m][w] < MaxPoints
        /\ lamports[w] >= Fee(m, a) + AtaRent + RentMin
        => ENABLED Buy(w, m, a)

=============================================================================
