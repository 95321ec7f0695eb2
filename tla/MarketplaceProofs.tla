-------------------------- MODULE MarketplaceProofs --------------------------
(***************************************************************************)
(* What the marketplace program guarantees for every set of wallets,       *)
(* assets, marketplaces and prices: a listed asset is held and sold, no    *)
(* treasury takes more than a tenth, points are for purchases, and the     *)
(* lamports everywhere add up.                                             *)
(***************************************************************************)
EXTENDS Marketplace, SumProofs

-----------------------------------------------------------------------------
(* The fee                                                                 *)

(* A fee of at most 1000 basis points is at most a tenth, rounded down.    *)
LEMMA Tenth ==
    ASSUME NEW price \in Nat, NEW fee \in Nat, fee <= 1000
    PROVE  /\ (price * fee) \div 10000 \in Nat
           /\ 10 * ((price * fee) \div 10000) <= price
<1> DEFINE product == price * fee
           quotient == product \div 10000
<1>1. product \in Nat /\ product <= price * 1000
  <2>1. \A k \in Nat : price * k \in Nat
    OBVIOUS
  <2>2. 1000 - fee \in Nat /\ price * (1000 - fee) = price * 1000 - price * fee
    OBVIOUS
  <2> QED
    BY <2>1, <2>2
<1> HIDE DEF product
<1>2. quotient \in Nat /\ 10000 * quotient <= product
  BY <1>1
<1> HIDE DEF quotient
<1>3. 10 * quotient <= price
  BY <1>1, <1>2
<1> QED
  BY <1>2, <1>3 DEF product, quotient

(* What is known of the fee when a listing is open.                        *)
LEMMA FeeBound ==
    ASSUME TypeOK, NEW m \in Names, NEW a \in Assets, Exists(m), Listed(a)
    PROVE  Fee(m, a) \in Nat /\ 10 * Fee(m, a) <= listing[a].price
<1>1. market[m].fee \in Nat /\ market[m].fee <= 1000
  BY ArgumentsAssumption DEF TypeOK, Exists, MarketRecord
<1>2. listing[a].price \in Nat
  BY ArgumentsAssumption DEF TypeOK, Listed, ListingRecord
<1> QED
  BY <1>1, <1>2, Tenth DEF Fee

-----------------------------------------------------------------------------
(* The inductive invariant                                                 *)

IInv == TypeOK /\ ListedIsHeld

(* A new marketplace has a fee within bounds and is paid for.              *)
LEMMA InitializeStep ==
    ASSUME IInv, NEW w \in Wallets, NEW m \in Names, NEW fee \in Fees,
           NEW program \in TokenPrograms, Initialize(w, m, fee, program)
    PROVE  IInv'
<1> DEFINE x == [admin |-> w, fee |-> fee, rewards_bump |-> TreasuryBump[m],
                 token_program |-> program]
<1>1. x \in MarketRecord
  BY BumpsAssumption DEF Initialize, ValidFee, MarketRecord
<1>2. market' \in [Names -> MarketRecord \union {NoMarket}]
  BY <1>1 DEF Initialize, IInv, TypeOK
<1>3. lamports[w] - MarketRent \in Nat
  BY LamportsAssumption DEF Initialize, IInv, TypeOK
<1>4. lamports' \in [Wallets -> Nat]
  BY <1>3 DEF Initialize, IInv, TypeOK
<1> QED
  BY <1>2, <1>4 DEF Initialize, IInv, TypeOK, ListedIsHeld, Listed

(* A new listing holds its asset.                                          *)
LEMMA ListStep ==
    ASSUME IInv, NEW w \in Wallets, NEW a \in Assets, NEW price \in Prices, List(w, a, price)
    PROVE  IInv'
<1> DEFINE x == [maker |-> w, price |-> price]
<1>1. listing' \in [Assets -> ListingRecord \union {NoListing}]
  BY DEF List, ListingRecord, IInv, TypeOK
<1>2. lamports[w] - ListingRent \in Nat
  BY LamportsAssumption DEF List, IInv, TypeOK
<1>3. lamports' \in [Wallets -> Nat]
  BY <1>2 DEF List, IInv, TypeOK
<1>4. owner' \in [Assets -> Wallets \union {Listing}]
  BY DEF List, GiveToListing, IInv, TypeOK
<1>5. ListedIsHeld'
  BY DEF List, GiveToListing, IInv, TypeOK, ListedIsHeld, Listed
<1> QED
  BY <1>1, <1>3, <1>4, <1>5 DEF List, IInv, TypeOK

(* A purchase overdraws nobody and releases the asset it closes the        *)
(* listing of.                                                             *)
LEMMA BuyStep ==
    ASSUME IInv, NEW w \in Wallets, NEW m \in Names, NEW a \in Assets, Buy(w, m, a)
    PROVE  IInv'
<1>1. Fee(m, a) \in Nat
  BY FeeBound DEF Buy, CanBuy, IInv
<1>2. treasury' \in [Names -> Nat]
  BY <1>1 DEF Buy, CanBuy, CanPay, Payments, Paid, AfterBuy, IInv, TypeOK
<1>3. lamports' \in [Wallets -> Nat]
  <2> DEFINE paid == Opening(w, m) + Fee(m, a)
  <2>1. paid \in Nat /\ paid <= lamports[w]
    BY <1>1, LamportsAssumption DEF Buy, CanBuy, CanPay, Payments, Paid, AfterBuy, Opening
  <2> HIDE DEF paid
  <2>2. \A v \in Wallets :
            lamports[v] - (IF v = w THEN paid ELSE 0)
                        + (IF v = listing[a].maker THEN ListingRent ELSE 0) \in Nat
    BY <2>1, LamportsAssumption DEF IInv, TypeOK
  <2>3. lamports' = [v \in Wallets |->
            lamports[v] - (IF v = w THEN paid ELSE 0)
                        + (IF v = listing[a].maker THEN ListingRent ELSE 0)]
    BY DEF Buy, CanBuy, CanPay, Payments, Paid, AfterBuy, paid
  <2> QED
    BY <2>2, <2>3
<1>4. points' \in [Names -> [Wallets -> Nat]]
  <2>1. points[m] \in [Wallets -> Nat]
    BY DEF IInv, TypeOK
  <2>2. [points[m] EXCEPT ![w] = @ + 1] \in [Wallets -> Nat]
    BY <2>1
  <2>3. points' = [points EXCEPT ![m] = [points[m] EXCEPT ![w] = @ + 1]]
    BY DEF Buy, CanBuy, MintPoint
  <2> QED
    BY <2>2, <2>3 DEF IInv, TypeOK
<1>5. market' \in [Names -> MarketRecord \union {NoMarket}]
      /\ listing' \in [Assets -> ListingRecord \union {NoListing}]
      /\ owner' \in [Assets -> Wallets \union {Listing}]
  BY DEF Buy, CanBuy, CloseListing, IInv, TypeOK
<1>6. ListedIsHeld'
  BY DEF Buy, CanBuy, CloseListing, IInv, TypeOK, ListedIsHeld, Listed
<1> QED
  BY <1>2, <1>3, <1>4, <1>5, <1>6 DEF IInv, TypeOK

(* A wallet only moves what it owns, never a listed asset.                 *)
LEMMA TransferStep ==
    ASSUME IInv, NEW w \in Wallets, NEW a \in Assets, NEW new \in Wallets \union {Listing},
           Transfer(w, a, new)
    PROVE  IInv'
<1>1. ~Listed(a)
  BY AbsentAssumption DEF Transfer, IInv, ListedIsHeld
<1>2. owner' \in [Assets -> Wallets \union {Listing}]
  BY DEF Transfer, IInv, TypeOK
<1> QED
  BY <1>1, <1>2 DEF Transfer, IInv, TypeOK, ListedIsHeld, Listed

LEMMA GiftStep ==
    ASSUME IInv, NEW w \in Wallets, NEW m \in Names, NEW n \in Gifts, Gift(w, m, n)
    PROVE  IInv'
<1>1. n \in Nat /\ lamports[w] - n \in Nat
  BY ArgumentsAssumption DEF Gift, IInv, TypeOK
<1>2. lamports' \in [Wallets -> Nat] /\ treasury' \in [Names -> Nat]
  BY <1>1 DEF Gift, IInv, TypeOK
<1> QED
  BY <1>2 DEF Gift, IInv, TypeOK, ListedIsHeld, Listed

LEMMA InvStep == IInv /\ [Next]_vars => IInv'
<1> SUFFICES ASSUME IInv, [Next]_vars PROVE IInv'
  OBVIOUS
<1>1. CASE UNCHANGED vars
  BY <1>1 DEF IInv, TypeOK, ListedIsHeld, Listed, vars
<1>2. ASSUME NEW w \in Wallets, Program(w) PROVE IInv'
  BY <1>2, InitializeStep, ListStep, BuyStep DEF Program
<1>3. ASSUME NEW w \in Wallets, Environment(w) PROVE IInv'
  BY <1>3, TransferStep, GiftStep DEF Environment
<1> QED
  BY <1>1, <1>2, <1>3 DEF Next

LEMMA Invariant == Spec => []IInv
<1>1. Init => IInv
  BY LamportsAssumption DEF Init, IInv, TypeOK, ListedIsHeld, Listed
<1> QED
  BY <1>1, InvStep, PTL DEF Spec

-----------------------------------------------------------------------------
(* Theorems                                                                *)

(* No wallet is overdrawn, and every fee stored is at most 1000            *)
(* (Marketplace.TypeOK).                                                   *)
THEOREM TypeCorrect == Spec => []TypeOK
BY Invariant, PTL DEF IInv

(* A listed asset is held by its listing (list.rs:43-50).                  *)
THEOREM ListingsHold == Spec => []ListedIsHeld
BY Invariant, PTL DEF IInv

(* An asset leaves a listing only by a purchase that closes it, mints one  *)
(* point and pays one treasury its fee (buy.rs:81-152).                    *)
THEOREM AssetsAreBought == Spec => HeldUntilBought
<1> DEFINE Bought(a) == owner[a] = Listing /\ owner'[a] # Listing =>
              /\ Listed(a) /\ ~Listed(a)'
              /\ \E m \in Names :
                    /\ Exists(m)
                    /\ points' = [points EXCEPT ![m][owner'[a]] = @ + 1]
                    /\ treasury' = [treasury EXCEPT ![m] = @ + Fee(m, a)]
<1>1. ASSUME IInv, [Next]_vars PROVE \A a \in Assets : Bought(a)
  <2>1. SUFFICES ASSUME NEW a \in Assets, owner[a] = Listing, owner'[a] # Listing
                 PROVE  Bought(a)
    OBVIOUS
  <2>2. PICK w \in Wallets, m \in Names, b \in Assets : Buy(w, m, b)
    BY <1>1, <2>1, AbsentAssumption DEF Next, vars, Program, Environment, Initialize,
       List, GiveToListing, Transfer, Gift, IInv, TypeOK
  <2>3. a = b /\ owner'[a] = w
    BY <1>1, <2>1, <2>2 DEF Buy, CanBuy, IInv, TypeOK
  <2>4. Listed(a) /\ ~Listed(a)'
    BY <1>1, <2>2, <2>3 DEF Buy, CanBuy, CloseListing, Listed, IInv, TypeOK
  <2> QED
    BY <2>2, <2>3, <2>4 DEF Buy, CanBuy, MintPoint, Payments, Paid, AfterBuy
<1> QED
  BY <1>1, Invariant, PTL DEF Spec, HeldUntilBought

(* Of a price no marketplace takes more than a tenth                       *)
(* (initialize.rs:55-61, buy.rs:83-98).                                    *)
THEOREM FeesAreBounded == Spec => FeeAtMostTenth
<1> DEFINE Bounded(a, m) ==
        Listed(a) /\ ~Listed(a)' => 10 * (treasury'[m] - treasury[m]) <= listing[a].price
<1>1. ASSUME IInv, [Next]_vars PROVE \A a \in Assets, m \in Names : Bounded(a, m)
  <2>1. SUFFICES ASSUME NEW a \in Assets, NEW m \in Names, Listed(a), ~Listed(a)'
                 PROVE  10 * (treasury'[m] - treasury[m]) <= listing[a].price
    OBVIOUS
  <2>2. PICK w \in Wallets, n \in Names, b \in Assets : Buy(w, n, b)
    BY <1>1, <2>1, AbsentAssumption DEF Next, vars, Program, Environment, Initialize,
       List, Transfer, Gift, IInv, TypeOK, Listed
  <2>3. a = b
    BY <1>1, <2>1, <2>2 DEF Buy, CanBuy, CloseListing, Listed, IInv, TypeOK
  <2>4. Fee(n, a) \in Nat /\ 10 * Fee(n, a) <= listing[a].price
    BY <1>1, <2>1, <2>2, FeeBound DEF Buy, CanBuy, IInv
  <2>5. treasury' = [treasury EXCEPT ![n] = @ + Fee(n, a)]
    BY <2>2, <2>3 DEF Buy, CanBuy, CanPay, Payments, Paid, AfterBuy
  <2>6. listing[a].price \in Nat
    BY <1>1, <2>1, ArgumentsAssumption DEF IInv, TypeOK, Listed, ListingRecord
  <2> QED
    BY <1>1, <2>4, <2>5, <2>6 DEF IInv, TypeOK
<1> QED
  BY <1>1, Invariant, PTL DEF Spec, FeeAtMostTenth

(* Only a purchase mints a point, to the wallet that receives the asset    *)
(* (buy.rs:132-152).                                                       *)
THEOREM PointsAreForPurchases == Spec => PointsForPurchases
<1> DEFINE Minted(m, w) ==
        points'[m][w] # points[m][w] =>
            \E a \in Assets : Listed(a) /\ ~Listed(a)' /\ owner'[a] = w
<1>1. ASSUME IInv, [Next]_vars PROVE \A m \in Names, w \in Wallets : Minted(m, w)
  <2>1. SUFFICES ASSUME NEW m \in Names, NEW w \in Wallets, points'[m][w] # points[m][w]
                 PROVE  \E a \in Assets : Listed(a) /\ ~Listed(a)' /\ owner'[a] = w
    OBVIOUS
  <2>2. PICK v \in Wallets, n \in Names, a \in Assets : Buy(v, n, a)
    BY <1>1, <2>1 DEF Next, vars, Program, Environment, Initialize, List, Transfer, Gift
  <2>3. v = w
    BY <1>1, <2>1, <2>2 DEF Buy, CanBuy, MintPoint, IInv, TypeOK
  <2>4. Listed(a) /\ ~Listed(a)' /\ owner'[a] = v
    BY <1>1, <2>2 DEF Buy, CanBuy, CloseListing, Listed, IInv, TypeOK
  <2> QED
    BY <2>3, <2>4
<1> QED
  BY <1>1, Invariant, PTL DEF Spec, PointsForPurchases

-----------------------------------------------------------------------------
(* Lamports                                                                *)

Markets == {m \in Names : Exists(m)}
Listings == {a \in Assets : Listed(a)}

(* The lamports everywhere, and what they were at the start.               *)
InWallets == SumFunctionOnSet(lamports, Wallets)
InTreasuries == SumFunctionOnSet(treasury, Names)
InMarkets == MarketRent * Cardinality(Markets)
InListings == ListingRent * Cardinality(Listings)
InAtas == AtaRent * Cardinality(Opened)
AtStart == SumFunctionOnSet(Wealth, Wallets)

Balanced == InWallets + InTreasuries + InMarkets + InListings + InAtas = AtStart

LEMMA FiniteAccounts ==
    /\ IsFiniteSet(Wallets) /\ IsFiniteSet(Names)
    /\ IsFiniteSet(Markets) /\ IsFiniteSet(Listings) /\ IsFiniteSet(Opened)
<1>1. IsFiniteSet(Names \X Wallets)
  BY FinitenessAssumption, FS_Product
<1>2. Markets \subseteq Names /\ Listings \subseteq Assets /\ Opened \subseteq Names \X Wallets
  BY DEF Markets, Listings, Opened
<1> QED
  BY <1>1, <1>2, FinitenessAssumption, FS_Subset

LEMMA TotalsAreIntegers ==
    ASSUME TypeOK
    PROVE  /\ InWallets \in Int /\ InTreasuries \in Int /\ InMarkets \in Int
           /\ InListings \in Int /\ InAtas \in Int /\ AtStart \in Int
<1>1. InWallets \in Int /\ InTreasuries \in Int /\ AtStart \in Int
  BY FiniteAccounts, SumOfNaturals, LamportsAssumption
  DEF TypeOK, InWallets, InTreasuries, AtStart
<1>2. /\ Cardinality(Markets) \in Nat /\ Cardinality(Listings) \in Nat
      /\ Cardinality(Opened) \in Nat
  BY FiniteAccounts, FS_CardinalityType
<1> QED
  BY <1>1, <1>2, LamportsAssumption DEF InMarkets, InListings, InAtas

LEMMA InitializeBalances ==
    ASSUME IInv, IInv', Balanced, NEW w \in Wallets, NEW m \in Names, NEW fee \in Fees,
           NEW program \in TokenPrograms, Initialize(w, m, fee, program)
    PROVE  Balanced'
<1> DEFINE x == [admin |-> w, fee |-> fee, rewards_bump |-> TreasuryBump[m],
                 token_program |-> program]
<1>1. Markets' = Markets \union {m} /\ m \notin Markets
  <2>1. x \in MarketRecord /\ x # NoMarket
    BY BumpsAssumption, AbsentAssumption DEF Initialize, ValidFee, MarketRecord
  <2>2. market' = [market EXCEPT ![m] = x] /\ ~Exists(m)
    BY DEF Initialize
  <2> HIDE DEF x
  <2> QED
    BY <2>1, <2>2 DEF Markets, Exists, IInv, TypeOK
<1>2. InMarkets' = InMarkets + MarketRent
  BY <1>1, FiniteAccounts, RentOfOneMore, LamportsAssumption DEF InMarkets
<1>3. Debited(lamports, lamports', Wallets, w, MarketRent)
  BY DEF Initialize, Debited, IInv, TypeOK
<1>4. InWallets' = InWallets - MarketRent
  BY <1>3, SumDebit, FiniteAccounts, LamportsAssumption DEF InWallets
<1>5. UNCHANGED <<InTreasuries, InListings, InAtas, AtStart>>
  BY DEF Initialize, InTreasuries, InListings, Listings, Listed, InAtas, Opened, AtStart
<1> QED
  BY <1>2, <1>4, <1>5, TotalsAreIntegers, LamportsAssumption DEF Balanced, IInv

LEMMA ListBalances ==
    ASSUME IInv, IInv', Balanced, NEW w \in Wallets, NEW a \in Assets, NEW price \in Prices,
           List(w, a, price)
    PROVE  Balanced'
<1> DEFINE x == [maker |-> w, price |-> price]
<1>1. Listings' = Listings \union {a} /\ a \notin Listings
  <2>1. x \in ListingRecord /\ x # NoListing
    BY AbsentAssumption DEF ListingRecord
  <2>2. listing' = [listing EXCEPT ![a] = x] /\ ~Listed(a)
    BY DEF List
  <2> HIDE DEF x
  <2> QED
    BY <2>1, <2>2 DEF Listings, Listed, IInv, TypeOK
<1>2. InListings' = InListings + ListingRent
  BY <1>1, FiniteAccounts, RentOfOneMore, LamportsAssumption DEF InListings
<1>3. Debited(lamports, lamports', Wallets, w, ListingRent)
  BY DEF List, Debited, IInv, TypeOK
<1>4. InWallets' = InWallets - ListingRent
  BY <1>3, SumDebit, FiniteAccounts, LamportsAssumption DEF InWallets
<1>5. UNCHANGED <<InTreasuries, InMarkets, InAtas, AtStart>>
  BY DEF List, InTreasuries, InMarkets, Markets, Exists, InAtas, Opened, AtStart
<1> QED
  BY <1>2, <1>4, <1>5, TotalsAreIntegers, LamportsAssumption DEF Balanced, IInv

(* The buyer's payments and the rent that reaches the maker, who may be    *)
(* the buyer, as two changes one after the other.                          *)
LEMMA BuyWallets ==
    ASSUME IInv, IInv', NEW w \in Wallets, NEW m \in Names, NEW a \in Assets, Buy(w, m, a)
    PROVE  InWallets' = InWallets - (Opening(w, m) + Fee(m, a)) + ListingRent
<1> DEFINE paid == Opening(w, m) + Fee(m, a)
           maker == listing[a].maker
           back == 0 - paid
           between == [v \in Wallets |-> lamports[v] - (IF v = w THEN paid ELSE 0)]
<1>1. paid \in Int /\ back \in Int /\ ListingRent \in Int
  BY FeeBound, LamportsAssumption DEF Buy, CanBuy, IInv, Opening
<1>2. maker \in Wallets
  BY DEF Buy, CanBuy, Listed, ListingRecord, IInv, TypeOK
<1>3. lamports' = [v \in Wallets |->
          lamports[v] - (IF v = w THEN paid ELSE 0)
                      + (IF v = maker THEN ListingRent ELSE 0)]
  BY DEF Buy, CanBuy, CanPay, Payments, Paid, AfterBuy
<1>4. lamports \in [Wallets -> Nat] /\ lamports' \in [Wallets -> Nat]
  BY DEF IInv, TypeOK
<1> HIDE DEF paid, maker
<1>5. Shifted(lamports, between, Wallets, w, back)
  BY <1>1, <1>4 DEF Shifted, Integral
<1>6. Shifted(between, lamports', Wallets, maker, ListingRent)
  BY <1>1, <1>2, <1>3, <1>4 DEF Shifted, Integral
<1> HIDE DEF back, between
<1>7. SumFunctionOnSet(between, Wallets) = SumFunctionOnSet(lamports, Wallets) + back
  BY <1>1, <1>5, SumShift, FiniteAccounts
<1>8. SumFunctionOnSet(lamports', Wallets) = SumFunctionOnSet(between, Wallets) + ListingRent
  BY <1>1, <1>2, <1>6, SumShift, FiniteAccounts
<1>9. InWallets' = InWallets + back + ListingRent /\ InWallets \in Int
  BY <1>7, <1>8, TotalsAreIntegers DEF InWallets, IInv
<1> QED
  BY <1>1, <1>9 DEF back, paid

(* A first purchase opens the buyer's account for points and pays for it.  *)
LEMMA BuyAtas ==
    ASSUME IInv, NEW w \in Wallets, NEW m \in Names, NEW a \in Assets, Buy(w, m, a)
    PROVE  InAtas' = InAtas + Opening(w, m)
<1> DEFINE x == <<m, w>>
<1>1. /\ points \in [Names -> [Wallets -> Nat]]
      /\ points' = [points EXCEPT ![m][w] = @ + 1]
  BY DEF Buy, CanBuy, MintPoint, IInv, TypeOK
<1>2. \A y \in Names \X Wallets :
          points'[y[1]][y[2]] = IF y = x THEN points[m][w] + 1 ELSE points[y[1]][y[2]]
  BY <1>1
<1>3. x \in Names \X Wallets /\ points[m][w] \in Nat /\ x[1] = m /\ x[2] = w
  BY <1>1
<1>4. x \in Opened <=> points[m][w] # 0
  BY <1>3 DEF Opened
<1>5. Opened' = Opened \union {x}
  <2> HIDE DEF x
  <2> QED BY <1>2, <1>3 DEF Opened
<1> HIDE DEF x
<1>6. CASE points[m][w] = 0
  BY <1>4, <1>5, <1>6, FiniteAccounts, RentOfOneMore, LamportsAssumption DEF InAtas, Opening
<1>7. CASE points[m][w] # 0
  <2>1. Opened' = Opened
    BY <1>4, <1>5, <1>7
  <2> QED
    BY <1>7, <2>1, TotalsAreIntegers DEF InAtas, Opening, IInv
<1> QED
  BY <1>6, <1>7

LEMMA BuyBalances ==
    ASSUME IInv, IInv', Balanced, NEW w \in Wallets, NEW m \in Names, NEW a \in Assets,
           Buy(w, m, a)
    PROVE  Balanced'
<1>1. Listings' = Listings \ {a} /\ a \in Listings
  BY DEF Buy, CanBuy, CloseListing, Listings, Listed, IInv, TypeOK
<1>2. InListings' = InListings - ListingRent
  BY <1>1, FiniteAccounts, RentOfOneLess, LamportsAssumption DEF InListings
<1>3. Fee(m, a) \in Nat /\ Opening(w, m) \in Nat
  BY FeeBound, LamportsAssumption DEF Buy, CanBuy, IInv, Opening
<1>4. InTreasuries' = InTreasuries + Fee(m, a)
  <2>1. Credited(treasury, treasury', Names, m, Fee(m, a))
    BY DEF Buy, CanBuy, CanPay, Payments, Paid, AfterBuy, Credited, IInv, TypeOK
  <2> QED
    BY <1>3, <2>1, SumCredit, FiniteAccounts DEF InTreasuries
<1>5. InWallets' = InWallets - (Opening(w, m) + Fee(m, a)) + ListingRent
  BY BuyWallets
<1>6. InAtas' = InAtas + Opening(w, m)
  BY BuyAtas
<1>7. UNCHANGED <<InMarkets, AtStart>>
  BY DEF Buy, CanBuy, InMarkets, Markets, Exists, AtStart
<1> QED
  BY <1>2, <1>3, <1>4, <1>5, <1>6, <1>7, TotalsAreIntegers, LamportsAssumption
  DEF Balanced, IInv

LEMMA GiftBalances ==
    ASSUME IInv, IInv', Balanced, NEW w \in Wallets, NEW m \in Names, NEW n \in Gifts,
           Gift(w, m, n)
    PROVE  Balanced'
<1>1. n \in Nat
  BY ArgumentsAssumption
<1>2. /\ Debited(lamports, lamports', Wallets, w, n)
      /\ Credited(treasury, treasury', Names, m, n)
  BY <1>1 DEF Gift, Debited, Credited, IInv, TypeOK
<1>3. InWallets' = InWallets - n /\ InTreasuries' = InTreasuries + n
  BY <1>1, <1>2, SumDebit, SumCredit, FiniteAccounts DEF InWallets, InTreasuries
<1>4. UNCHANGED <<InMarkets, InListings, InAtas, AtStart>>
  BY DEF Gift, InMarkets, Markets, Exists, InListings, Listings, Listed, InAtas, Opened, AtStart
<1> QED
  BY <1>1, <1>3, <1>4, TotalsAreIntegers DEF Balanced, IInv

LEMMA BalancedStep == IInv /\ Balanced /\ [Next]_vars => Balanced'
<1> SUFFICES ASSUME IInv, Balanced, [Next]_vars PROVE Balanced'
  OBVIOUS
<1>0. IInv'
  BY InvStep
<1>1. CASE UNCHANGED <<market, listing, treasury, lamports, points>>
  BY <1>1 DEF Balanced, InWallets, InTreasuries, InMarkets, Markets, Exists, InListings,
              Listings, Listed, InAtas, Opened, AtStart
<1>2. ASSUME NEW w \in Wallets, Program(w) PROVE Balanced'
  BY <1>0, <1>2, InitializeBalances, ListBalances, BuyBalances DEF Program
<1>3. ASSUME NEW w \in Wallets, Environment(w) PROVE Balanced'
  <2>1. ASSUME NEW a \in Assets, NEW new \in Wallets \union {Listing}, Transfer(w, a, new)
        PROVE  Balanced'
    BY <1>1, <2>1 DEF Transfer
  <2> QED
    BY <1>0, <1>3, <2>1, GiftBalances DEF Environment
<1> QED
  BY <1>1, <1>2, <1>3 DEF Next, vars

(* Fees, rents and gifts are neither created nor lost, whoever lists and   *)
(* buys what, also from oneself (list.rs:20-27, buy.rs:40-48,98).          *)
THEOREM LamportsAreConserved == Spec => []LamportsConserved
<1>1. Init => TypeOK
  BY LamportsAssumption DEF Init, TypeOK
<1>2. Init => Balanced
  <2> SUFFICES ASSUME Init PROVE Balanced
    OBVIOUS
  <2>1. InTreasuries = 0
    <3>1. \A m \in Names \ {} : treasury[m] = 0
      BY DEF Init
    <3>2. SumFunctionOnSet(treasury, Names) = SumFunctionOnSet(treasury, {})
      BY <3>1, SumZeros, FiniteAccounts DEF Integral
    <3> QED
      BY <3>2, SumEmpty DEF InTreasuries
  <2>2. InMarkets = 0 /\ InListings = 0 /\ InAtas = 0
    <3>1. Markets = {} /\ Listings = {} /\ Opened = {}
      BY DEF Init, Markets, Exists, Listings, Listed, Opened
    <3> QED
      BY <3>1, FS_EmptySet, LamportsAssumption DEF InMarkets, InListings, InAtas
  <2>3. InWallets = AtStart /\ AtStart \in Int
    BY <1>1, TotalsAreIntegers DEF Init, InWallets, AtStart
  <2> QED
    BY <2>1, <2>2, <2>3 DEF Balanced
<1>3. Balanced => LamportsConserved
  BY DEF Balanced, LamportsConserved, InWallets, InTreasuries, InMarkets, Markets,
         InListings, Listings, InAtas, AtStart
<1> QED
  BY <1>2, <1>3, BalancedStep, Invariant, PTL DEF Spec

-----------------------------------------------------------------------------
(* Selling                                                                 *)

(* The bump of every marketplace is the one of its treasury.               *)
BumpsStored == \A m \in Names : Exists(m) => market[m].rewards_bump = TreasuryBump[m]

LEMMA BumpsStay == Spec => []BumpsStored
<1>1. Init => BumpsStored
  BY DEF Init, BumpsStored, Exists
<1>2. IInv /\ BumpsStored /\ [Next]_vars => BumpsStored'
  <2> SUFFICES ASSUME IInv, BumpsStored, [Next]_vars PROVE BumpsStored'
    OBVIOUS
  <2>1. CASE market' = market
    BY <2>1 DEF BumpsStored, Exists
  <2>2. ASSUME NEW w \in Wallets, NEW m \in Names, NEW fee \in Fees,
               NEW program \in TokenPrograms, Initialize(w, m, fee, program)
        PROVE  BumpsStored'
    <3> DEFINE x == [admin |-> w, fee |-> fee, rewards_bump |-> TreasuryBump[m],
                     token_program |-> program]
    <3>1. market' = [market EXCEPT ![m] = x] /\ x.rewards_bump = TreasuryBump[m]
      BY <2>2 DEF Initialize
    <3> HIDE DEF x
    <3> QED
      BY <3>1 DEF BumpsStored, Exists, IInv, TypeOK
  <2>3. market' = market \/ \E w \in Wallets, m \in Names, fee \in Fees,
                               program \in TokenPrograms : Initialize(w, m, fee, program)
    BY DEF Next, vars, Program, Environment, List, Buy, Transfer, Gift
  <2> QED
    BY <2>1, <2>2, <2>3
<1> QED
  BY <1>1, <1>2, Invariant, PTL DEF Spec

(* What stands between a buyer who can pay and an open listing.            *)
GuardsBuy ==
    \A a \in Assets, m \in Names, w \in Wallets :
        Listed(a) /\ Exists(m) =>
            (CanBuy(w, m, a)
                <=> /\ TreasuryBump[m] = RewardsBump[m]
                    /\ market[m].token_program = "token"
                    /\ points[m][w] < MaxPoints
                    /\ CanPay(w, m, a))

LEMMA BuyGuard ==
    ASSUME IInv, BumpsStored
    PROVE  GuardsBuy
<1> SUFFICES ASSUME NEW a \in Assets, NEW m \in Names, NEW w \in Wallets, Listed(a), Exists(m)
             PROVE  CanBuy(w, m, a)
                      <=> /\ TreasuryBump[m] = RewardsBump[m]
                          /\ market[m].token_program = "token"
                          /\ points[m][w] < MaxPoints
                          /\ CanPay(w, m, a)
  BY DEF GuardsBuy
<1>1. owner[a] = Listing /\ market[m].rewards_bump = TreasuryBump[m]
  BY DEF IInv, ListedIsHeld, BumpsStored
<1> QED
  BY <1>1 DEF CanBuy, RewardsFound, CanMintPoint

(* A marketplace whose name gives its treasury and its rewards mint        *)
(* different bumps, or which was made with a Token-2022 mint, sells        *)
(* nothing to anyone; at any other, a purchase only depends on what the    *)
(* buyer can pay (initialize.rs:63-70, buy.rs:54-60,142).                  *)
THEOREM SalesNeedTheRewardsMint == Spec => []GuardsBuy
BY Invariant, BumpsStay, BuyGuard, PTL

(* What Sellable says with ENABLED, said of the guard.                     *)
GuardsSell ==
    \A a \in Assets, m \in Names, w \in Wallets :
        /\ Listed(a) /\ Exists(m)
        /\ TreasuryBump[m] = RewardsBump[m] /\ market[m].token_program = "token"
        /\ treasury[m] >= RentMin
        /\ points[m][w] < MaxPoints
        /\ lamports[w] >= Fee(m, a) + AtaRent + RentMin
        => CanBuy(w, m, a)

(* No listing is stuck: neither transfers, nor purchases of other assets,  *)
(* nor a buyer who is the maker, nor a first purchase make an instruction  *)
(* of the buyer fail (buy.rs:54-60,98,142).                                *)
THEOREM ListingsAreSellable == Spec => []GuardsSell
<1>1. IInv /\ BumpsStored => GuardsSell
  <2> SUFFICES ASSUME IInv, BumpsStored, NEW a \in Assets, NEW m \in Names, NEW w \in Wallets,
                      Listed(a), Exists(m),
                      TreasuryBump[m] = RewardsBump[m], market[m].token_program = "token",
                      treasury[m] >= RentMin, points[m][w] < MaxPoints,
                      lamports[w] >= Fee(m, a) + AtaRent + RentMin
               PROVE  CanBuy(w, m, a)
    BY DEF GuardsSell
  <2> DEFINE paid == Paid(w, m, a)
  <2>1. Fee(m, a) \in Nat
    BY FeeBound DEF IInv
  <2>2. /\ lamports[w] \in Nat /\ treasury[m] \in Nat
        /\ AtaRent \in Nat /\ ListingRent \in Nat /\ RentMin \in Nat
    BY LamportsAssumption DEF IInv, TypeOK
  <2>3. paid \in Nat /\ paid + RentMin <= lamports[w]
    BY <2>1, <2>2 DEF Paid, Opening
  <2>4. AfterBuy(w, m, a)[w] >= RentMin
    <3>1. AfterBuy(w, m, a)[w]
            = lamports[w] - paid + (IF w = listing[a].maker THEN ListingRent ELSE 0)
      BY DEF AfterBuy
    <3> HIDE DEF paid
    <3> QED
      BY <2>2, <2>3, <3>1
  <2>5. treasury[m] + Fee(m, a) >= RentMin
    BY <2>1, <2>2
  <2>6. paid <= lamports[w]
    BY <2>2, <2>3
  <2>7. CanPay(w, m, a)
    BY <2>4, <2>5, <2>6 DEF CanPay, RentOk
  <2> QED
    BY <2>7, BuyGuard DEF GuardsBuy
<1> QED
  BY <1>1, Invariant, BumpsStay, PTL

=============================================================================
