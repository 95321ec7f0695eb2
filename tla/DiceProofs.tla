----------------------------- MODULE DiceProofs -----------------------------
(***************************************************************************)
(* What the dice program guarantees for every set of wallets, houses,      *)
(* seeds, rolls and amounts: types (nobody is overdrawn, and no arithmetic *)
(* leaves the naturals), vaults that only pay for settlements, lamports    *)
(* that are neither created nor lost, and the house edge.                  *)
(***************************************************************************)
EXTENDS Dice, SumProofs

-----------------------------------------------------------------------------
(* Arithmetic                                                              *)

(* What is due on a roll is a natural number whenever the arithmetic of    *)
(* resolve_bet.rs:107-115 does not fail.                                   *)
LEMMA DueType ==
    ASSUME NEW b \in Bet, NEW roll, Chance(b) >= 0, Wins(b, roll) => Chance(b) # 0
    PROVE  Due(b, roll) \in Nat
<1>1. b.roll \in 0..255 /\ b.amount \in Nat /\ Chance(b) \in Int /\ U64 \in Nat \ {0}
  <2>1. b.roll \in Rolls /\ b.amount \in Amounts
    BY DEF Bet
  <2>2. b.roll \in 0..255 /\ b.amount \in Nat
    BY <2>1, ArgumentsAssumption
  <2> QED
    BY <2>2, LamportsAssumption DEF Chance
<1>2. CASE Wins(b, roll)
  <2>1. Chance(b) * 100 \in Nat \ {0} /\ b.amount * (10000 - HOUSE_EDGE) \in Nat
    BY <1>1, <1>2 DEF HOUSE_EDGE
  <2>2. (b.amount * (10000 - HOUSE_EDGE)) \div (Chance(b) * 100) \in Int
    BY <2>1
  <2>3. Payout(b) \in Nat
    BY <1>1, <2>2 DEF Payout
  <2> QED
    BY <1>2, <2>3 DEF Due
<1>3. CASE ~Wins(b, roll)
  BY <1>3 DEF Due
<1> QED
  BY <1>2, <1>3

-----------------------------------------------------------------------------
(* Transfers                                                               *)

(* A transfer into a vault keeps balances natural and takes from no vault. *)
LEMMA IntoVaultLaws ==
    ASSUME TypeOK, NEW w \in Wallets, NEW h \in Houses, NEW n \in Nat, NEW rent \in Nat,
           IntoVault(w, h, n, rent)
    PROVE  /\ vault' \in [Houses -> Nat] /\ lamports' \in [Wallets -> Nat]
           /\ \A k \in Houses : vault'[k] >= vault[k]
BY DEF TypeOK, IntoVault

(* A transfer out of one keeps balances natural and debits that vault only.*)
LEMMA OutOfVaultLaws ==
    ASSUME TypeOK, NEW w \in Wallets, NEW h \in Houses, NEW n \in Nat, NEW rent \in Nat,
           CanLeaveVault(h, w, n, rent), OutOfVault(h, w, n, rent)
    PROVE  /\ vault' \in [Houses -> Nat] /\ lamports' \in [Wallets -> Nat]
           /\ \A k \in Houses : vault'[k] = IF k = h THEN vault[k] - n ELSE vault[k]
BY DEF TypeOK, CanLeaveVault, OutOfVault

(* Closing a bet leaves the bets at other addresses.                       *)
LEMMA CloseBetLaws ==
    ASSUME TypeOK, NEW p \in Pda, CloseBet(p)
    PROVE  /\ bet' \in [Pda -> Bet \union {NoBet}]
           /\ bet'[p] = NoBet
           /\ \A q \in Pda \ {p} : bet'[q] = bet[q]
BY DEF TypeOK, CloseBet

-----------------------------------------------------------------------------
(* Settlements                                                             *)

(* One payment n for the bet at p, which closes; Resolve and Refund are of *)
(* this form.                                                              *)
Settlement(h, seed, w, n) ==
    LET p == <<h, seed>>
    IN  /\ bet[p] # NoBet
        /\ CanLeaveVault(h, w, n, BetRent) /\ OutOfVault(h, w, n, BetRent)
        /\ CloseBet(p)
        /\ UNCHANGED slot

(* A resolution settles the bet with its player for what is due.           *)
LEMMA ResolveSettles ==
    ASSUME TypeOK, NEW h \in Houses, NEW seed \in Seeds, NEW ix, NEW sig,
           Resolve(h, seed, ix, sig)
    PROVE  LET b == bet[<<h, seed>>]
           IN  /\ b \in Bet
               /\ Due(b, sig) \in Nat
               /\ Due(b, sig) # 0 => b.roll < 100 /\ Due(b, sig) = Payout(b)
               /\ Settlement(h, seed, b.player, Due(b, sig))
<1> DEFINE b == bet[<<h, seed>>]
<1>1. b \in Bet
  BY DEF TypeOK, Pda, Resolve, CanResolve
<1>2. Chance(b) >= 0 /\ (Wins(b, sig) => Chance(b) # 0)
  BY DEF Resolve, CanResolve
<1>3. Due(b, sig) \in Nat
  BY <1>1, <1>2, DueType
<1>4. ASSUME Due(b, sig) # 0 PROVE b.roll < 100 /\ Due(b, sig) = Payout(b)
  <2>1. Wins(b, sig) /\ Due(b, sig) = Payout(b)
    BY <1>4 DEF Due
  <2>2. b.roll \in 0..255
    BY <1>1, ArgumentsAssumption DEF Bet
  <2> QED
    BY <1>2, <2>1, <2>2 DEF Chance
<1>5. Settlement(h, seed, b.player, Due(b, sig))
  BY DEF Resolve, CanResolve, Settlement
<1> QED
  BY <1>1, <1>3, <1>4, <1>5

(* A refund settles the bet with its signer for the stake.                 *)
LEMMA RefundSettles ==
    ASSUME TypeOK, NEW w \in Wallets, NEW h \in Houses, NEW seed \in Seeds,
           Refund(w, h, seed)
    PROVE  /\ bet[<<h, seed>>] \in Bet
           /\ Settlement(h, seed, w, bet[<<h, seed>>].amount)
BY DEF TypeOK, Pda, Refund, CanRefund, Settlement

(* A settlement keeps the types.                                           *)
LEMMA SettlementType ==
    ASSUME TypeOK, NEW h \in Houses, NEW seed \in Seeds, NEW w \in Wallets, NEW n \in Nat,
           Settlement(h, seed, w, n)
    PROVE  TypeOK'
<1>1. <<h, seed>> \in Pda /\ BetRent \in Nat
  BY LamportsAssumption DEF Pda
<1>2. vault' \in [Houses -> Nat] /\ lamports' \in [Wallets -> Nat]
  BY <1>1, OutOfVaultLaws DEF Settlement
<1>3. bet' \in [Pda -> Bet \union {NoBet}]
  BY <1>1, CloseBetLaws DEF Settlement
<1> QED
  BY <1>2, <1>3 DEF TypeOK, Settlement

(* The vault of house k pays, in this step, for one bet that closes.       *)
PaysForOneBet(k) ==
    vault'[k] < vault[k] =>
        \E seed \in Seeds :
            LET p == <<k, seed>>
            IN  /\ bet[p] # NoBet /\ bet'[p] = NoBet
                /\ \/ vault[k] - vault'[k] = bet[p].amount
                   \/ /\ bet[p].roll < 100
                      /\ vault[k] - vault'[k] = Payout(bet[p])
                /\ \A q \in Pda \ {p} : bet'[q] = bet[q]

(* A settlement of the stake or of the payout is such a payment.           *)
LEMMA SettlementPays ==
    ASSUME TypeOK, NEW h \in Houses, NEW seed \in Seeds, NEW w \in Wallets, NEW n \in Nat,
           Settlement(h, seed, w, n),
           LET b == bet[<<h, seed>>]
           IN  n # 0 => (n = b.amount \/ (b.roll < 100 /\ n = Payout(b))),
           NEW k \in Houses
    PROVE  PaysForOneBet(k)
<1> DEFINE p == <<h, seed>>
<1>1. p \in Pda /\ BetRent \in Nat
  BY LamportsAssumption DEF Pda
<1>2. /\ bet[p] # NoBet /\ bet'[p] = NoBet
      /\ \A q \in Pda \ {p} : bet'[q] = bet[q]
  BY <1>1, CloseBetLaws DEF Settlement
<1>3. vault'[k] = IF k = h THEN vault[k] - n ELSE vault[k]
  BY <1>1, OutOfVaultLaws DEF Settlement
<1>4. vault[k] \in Nat
  BY DEF TypeOK
<1>5. CASE k = h /\ n # 0
  <2>1. vault[k] - vault'[k] = n
    BY <1>3, <1>4, <1>5
  <2>2. n = bet[p].amount \/ (bet[p].roll < 100 /\ n = Payout(bet[p]))
    BY <1>5
  <2> QED
    BY <1>2, <1>5, <2>1, <2>2 DEF PaysForOneBet
<1>6. CASE k # h \/ n = 0
  <2>1. ~(vault'[k] < vault[k])
    BY <1>3, <1>4, <1>6
  <2> QED
    BY <2>1 DEF PaysForOneBet
<1> QED
  BY <1>5, <1>6

-----------------------------------------------------------------------------
(* Every step                                                              *)

(* Each transaction keeps the types, and pays from a vault for one bet at  *)
(* most.                                                                   *)
LEMMA NextStep ==
    ASSUME TypeOK, Next
    PROVE  TypeOK' /\ \A k \in Houses : PaysForOneBet(k)
<1> DEFINE Good == TypeOK' /\ \A k \in Houses : PaysForOneBet(k)
<1>1. ASSUME NEW w \in Wallets, NEW h \in Houses, NEW n \in Nat, NEW rent \in Nat,
             IntoVault(w, h, n, rent), slot' = slot, bet' \in [Pda -> Bet \union {NoBet}]
      PROVE  Good
  <2>1. /\ vault' \in [Houses -> Nat] /\ lamports' \in [Wallets -> Nat]
        /\ \A k \in Houses : vault'[k] >= vault[k]
    BY <1>1, IntoVaultLaws
  <2>2. TypeOK'
    BY <1>1, <2>1 DEF TypeOK
  <2>3. \A k \in Houses : PaysForOneBet(k)
    BY <2>1 DEF TypeOK, PaysForOneBet
  <2> QED
    BY <2>2, <2>3
<1>2. ASSUME NEW h \in Houses, NEW n \in Amounts, Initialize(h, n)
      PROVE  Good
  <2>1. h \in Wallets /\ n \in Nat /\ IntoVault(h, h, n, 0) /\ slot' = slot /\ bet' = bet
    BY <1>2, HousesAssumption, ArgumentsAssumption DEF Initialize
  <2> QED
    BY <1>1, <2>1 DEF TypeOK
<1>3. ASSUME NEW w \in Wallets, NEW h \in Houses, NEW seed \in Seeds, NEW roll \in Rolls,
             NEW n \in Amounts, PlaceBet(w, h, seed, roll, n)
      PROVE  Good
  <2>1. n \in Nat /\ BetRent \in Nat /\ IntoVault(w, h, n, BetRent) /\ slot' = slot
    BY <1>3, ArgumentsAssumption, LamportsAssumption DEF PlaceBet
  <2>2. [player |-> w, seed |-> seed, slot |-> slot, amount |-> n, roll |-> roll] \in Bet
    BY DEF TypeOK, Bet
  <2>3. bet' \in [Pda -> Bet \union {NoBet}]
    BY <1>3, <2>2 DEF TypeOK, PlaceBet
  <2> QED
    BY <1>1, <2>1, <2>3
<1>4. ASSUME NEW w \in Wallets, NEW h \in Houses, NEW seed \in Seeds, Refund(w, h, seed)
      PROVE  Good
  <2>1. bet[<<h, seed>>] \in Bet /\ Settlement(h, seed, w, bet[<<h, seed>>].amount)
    BY <1>4, RefundSettles
  <2>2. bet[<<h, seed>>].amount \in Nat
    BY <2>1, ArgumentsAssumption DEF Bet
  <2> QED
    BY <2>1, <2>2, SettlementType, SettlementPays
<1>5. ASSUME NEW h \in Houses, NEW seed \in Seeds, Resolves(h, seed)
      PROVE  Good
  <2>1. PICK ix, sig : Resolve(h, seed, ix, sig)
    BY <1>5 DEF Resolves
  <2> DEFINE b == bet[<<h, seed>>]
             n == Due(b, sig)
  <2>2. /\ b \in Bet /\ n \in Nat /\ Settlement(h, seed, b.player, n)
        /\ n # 0 => b.roll < 100 /\ n = Payout(b)
    BY <2>1, ResolveSettles
  <2>3. b.player \in Wallets
    BY <2>2 DEF Bet
  <2> HIDE DEF n
  <2> QED
    BY <2>2, <2>3, SettlementType, SettlementPays
<1>6. ASSUME NEW w \in Wallets, NEW h \in Houses, NEW n \in Amounts, Gift(w, h, n)
      PROVE  Good
  <2>1. n \in Nat /\ IntoVault(w, h, n, 0) /\ slot' = slot /\ bet' = bet
    BY <1>6, ArgumentsAssumption DEF Gift
  <2> QED
    BY <1>1, <2>1 DEF TypeOK
<1>7. CASE Tick
  <2>1. slot' \in 0..MaxSlot /\ UNCHANGED <<bet, vault, lamports>>
    BY <1>7, LamportsAssumption DEF Tick, TypeOK
  <2> QED
    BY <2>1 DEF TypeOK, PaysForOneBet
<1> QED
  BY <1>2, <1>3, <1>4, <1>5, <1>6, <1>7 DEF Next

(* Every reachable state of the dice program is well typed: no wallet and  *)
(* no vault is overdrawn, whatever is staked and rolled (Dice.TypeOK).     *)
THEOREM TypeCorrect == Spec => []TypeOK
<1>1. Init => TypeOK
  BY LamportsAssumption DEF Init, TypeOK
<1>2. TypeOK /\ [Next]_vars => TypeOK'
  <2>1. TypeOK /\ UNCHANGED vars => TypeOK'
    BY DEF TypeOK, vars
  <2> QED
    BY <2>1, NextStep
<1> QED
  BY <1>1, <1>2, PTL DEF Spec

(* A vault only pays for settlements of its own house's bets, each once    *)
(* (Dice.VaultPaysForSettlements; resolve_bet.rs:110-132,                  *)
(* refund_bet.rs:31-49).                                                   *)
THEOREM VaultsPayForSettlements == Spec => VaultPaysForSettlements
<1>1. TypeOK /\ [Next]_vars => [\A h \in Houses : PaysForOneBet(h)]_vars
  BY NextStep
<1> QED
  BY <1>1, TypeCorrect, PTL DEF Spec, VaultPaysForSettlements, PaysForOneBet

-----------------------------------------------------------------------------
(* Lamports                                                                *)

(* The lamports everywhere, and what they were at the start.               *)
InWallets == SumFunctionOnSet(lamports, Wallets)
InVaults == SumFunctionOnSet(vault, Houses)
InRents == BetRent * Cardinality(OpenBets)
AtStart == SumFunctionOnSet(Wealth, Wallets)

LEMMA FiniteHousesAndBets ==
    IsFiniteSet(Wallets) /\ IsFiniteSet(Houses) /\ IsFiniteSet(OpenBets)
<1>1. IsFiniteSet(Houses)
  BY HousesAssumption, FinitenessAssumption, FS_Subset
<1>2. IsFiniteSet(Pda)
  BY <1>1, FinitenessAssumption, FS_Product DEF Pda
<1>3. OpenBets \subseteq Pda
  BY DEF OpenBets
<1> QED
  BY <1>1, <1>2, <1>3, FinitenessAssumption, FS_Subset

LEMMA TotalsAreIntegers ==
    ASSUME TypeOK
    PROVE  InWallets \in Int /\ InVaults \in Int /\ InRents \in Int /\ AtStart \in Int
<1>1. InWallets \in Int /\ InVaults \in Int /\ AtStart \in Int
  BY FiniteHousesAndBets, SumOfNaturals, LamportsAssumption
  DEF TypeOK, InWallets, InVaults, AtStart
<1>2. Cardinality(OpenBets) \in Nat
  BY FiniteHousesAndBets, FS_CardinalityType
<1> QED
  BY <1>1, <1>2, LamportsAssumption DEF InRents

LEMMA IntoVaultSums ==
    ASSUME TypeOK, NEW w \in Wallets, NEW h \in Houses, NEW n \in Nat, NEW rent \in Nat,
           IntoVault(w, h, n, rent)
    PROVE  InWallets' = InWallets - (n + rent) /\ InVaults' = InVaults + n
<1> DEFINE cost == n + rent
<1>1. Credited(vault, vault', Houses, h, n) /\ Debited(lamports, lamports', Wallets, w, cost)
  <2>1. /\ lamports \in [Wallets -> Nat] /\ lamports' \in [Wallets -> Nat]
        /\ vault \in [Houses -> Nat] /\ vault' \in [Houses -> Nat]
    BY IntoVaultLaws DEF TypeOK
  <2>2. vault' = [vault EXCEPT ![h] = @ + n]
        /\ lamports' = [lamports EXCEPT ![w] = @ - n - rent]
    BY DEF IntoVault
  <2>3. lamports[w] - n - rent = lamports[w] - cost
    BY <2>1
  <2> HIDE DEF cost
  <2> QED
    BY <2>1, <2>2, <2>3 DEF Debited, Credited
<1>2. SumFunctionOnSet(lamports', Wallets) = InWallets - cost
  <2>1. cost \in Int
    OBVIOUS
  <2> HIDE DEF cost
  <2> QED BY <1>1, <2>1, SumDebit, FiniteHousesAndBets DEF InWallets
<1>3. SumFunctionOnSet(vault', Houses) = InVaults + n
  BY <1>1, SumCredit, FiniteHousesAndBets DEF InVaults
<1> QED
  BY <1>2, <1>3 DEF InWallets, InVaults

LEMMA OutOfVaultSums ==
    ASSUME TypeOK, NEW w \in Wallets, NEW h \in Houses, NEW n \in Nat, NEW rent \in Nat,
           CanLeaveVault(h, w, n, rent), OutOfVault(h, w, n, rent)
    PROVE  InWallets' = InWallets + (n + rent) /\ InVaults' = InVaults - n
<1> DEFINE gain == n + rent
<1>1. Debited(vault, vault', Houses, h, n) /\ Credited(lamports, lamports', Wallets, w, gain)
  <2>1. /\ lamports \in [Wallets -> Nat] /\ lamports' \in [Wallets -> Nat]
        /\ vault \in [Houses -> Nat] /\ vault' \in [Houses -> Nat]
    BY OutOfVaultLaws DEF TypeOK
  <2>2. vault' = [vault EXCEPT ![h] = @ - n]
        /\ lamports' = [lamports EXCEPT ![w] = @ + n + rent]
    BY DEF OutOfVault
  <2>3. lamports[w] + n + rent = lamports[w] + gain
    BY <2>1
  <2> HIDE DEF gain
  <2> QED
    BY <2>1, <2>2, <2>3 DEF Debited, Credited
<1>2. SumFunctionOnSet(lamports', Wallets) = InWallets + gain
  <2>1. gain \in Int
    OBVIOUS
  <2> HIDE DEF gain
  <2> QED BY <1>1, <2>1, SumCredit, FiniteHousesAndBets DEF InWallets
<1>3. SumFunctionOnSet(vault', Houses) = InVaults - n
  BY <1>1, SumDebit, FiniteHousesAndBets DEF InVaults
<1> QED
  BY <1>2, <1>3 DEF InWallets, InVaults

(* A settlement moves n from the vault and the rent from the bet.          *)
LEMMA SettlementConserves ==
    ASSUME TypeOK, LamportsConserved,
           NEW h \in Houses, NEW seed \in Seeds, NEW w \in Wallets, NEW n \in Nat,
           Settlement(h, seed, w, n)
    PROVE  LamportsConserved'
<1> DEFINE p == <<h, seed>>
<1>1. p \in OpenBets /\ BetRent \in Nat
  BY LamportsAssumption DEF Settlement, OpenBets, Pda
<1>2. OpenBets' = OpenBets \ {p}
  BY <1>1, CloseBetLaws DEF OpenBets, Settlement
<1>3. InRents' = InRents - BetRent
  <2> HIDE DEF p
  <2> QED BY <1>1, <1>2, FiniteHousesAndBets, RentOfOneLess DEF InRents
<1>4. InWallets' = InWallets + (n + BetRent) /\ InVaults' = InVaults - n
  BY <1>1, OutOfVaultSums DEF Settlement
<1>5. InWallets + InVaults + InRents = AtStart
  BY DEF LamportsConserved, InWallets, InVaults, InRents, AtStart
<1>6. InWallets' + InVaults' + InRents' = AtStart
  BY <1>1, <1>3, <1>4, <1>5, TotalsAreIntegers
<1> QED
  BY <1>6 DEF LamportsConserved, InWallets, InVaults, InRents, AtStart

LEMMA ConservationStep ==
    ASSUME TypeOK, LamportsConserved, Next
    PROVE  LamportsConserved'
<1>0. InWallets + InVaults + InRents = AtStart
  BY DEF LamportsConserved, InWallets, InVaults, InRents, AtStart
<1>1. ASSUME NEW w \in Wallets, NEW h \in Houses, NEW n \in Nat,
             IntoVault(w, h, n, 0), bet' = bet
      PROVE  LamportsConserved'
  <2>1. InWallets' = InWallets - (n + 0) /\ InVaults' = InVaults + n
    BY <1>1, IntoVaultSums
  <2>2. InRents' = InRents
    BY <1>1 DEF InRents, OpenBets
  <2>3. InWallets' + InVaults' + InRents' = AtStart
    BY <1>0, <2>1, <2>2, TotalsAreIntegers
  <2> QED
    BY <2>3 DEF LamportsConserved, InWallets, InVaults, InRents, AtStart
<1>2. ASSUME NEW h \in Houses, NEW n \in Amounts, Initialize(h, n)
      PROVE  LamportsConserved'
  BY <1>1, <1>2, HousesAssumption, ArgumentsAssumption DEF Initialize
<1>3. ASSUME NEW w \in Wallets, NEW h \in Houses, NEW seed \in Seeds, NEW roll \in Rolls,
             NEW n \in Amounts, PlaceBet(w, h, seed, roll, n)
      PROVE  LamportsConserved'
  <2> DEFINE p == <<h, seed>>
             b == [player |-> w, seed |-> seed, slot |-> slot, amount |-> n, roll |-> roll]
  <2>1. n \in Nat /\ BetRent \in Nat /\ IntoVault(w, h, n, BetRent)
    BY <1>3, ArgumentsAssumption, LamportsAssumption DEF PlaceBet
  <2>2. p \in Pda /\ p \notin OpenBets /\ bet' = [bet EXCEPT ![p] = b]
    BY <1>3 DEF PlaceBet, CanInitBet, OpenBets, Pda
  <2>3. b # NoBet
    BY NoBetAssumption DEF TypeOK, Bet
  <2>4. OpenBets' = OpenBets \union {p}
    <3> HIDE DEF b, p
    <3> QED BY <2>2, <2>3 DEF OpenBets, TypeOK
  <2>5. InRents' = InRents + BetRent
    <3> HIDE DEF p
    <3> QED BY <2>1, <2>2, <2>4, FiniteHousesAndBets, RentOfOneMore DEF InRents
  <2>6. InWallets' = InWallets - (n + BetRent) /\ InVaults' = InVaults + n
    BY <2>1, IntoVaultSums
  <2>7. InWallets' + InVaults' + InRents' = AtStart
    BY <1>0, <2>1, <2>5, <2>6, TotalsAreIntegers
  <2> QED
    BY <2>7 DEF LamportsConserved, InWallets, InVaults, InRents, AtStart
<1>4. ASSUME NEW w \in Wallets, NEW h \in Houses, NEW seed \in Seeds, Refund(w, h, seed)
      PROVE  LamportsConserved'
  <2>1. bet[<<h, seed>>] \in Bet /\ Settlement(h, seed, w, bet[<<h, seed>>].amount)
    BY <1>4, RefundSettles
  <2>2. bet[<<h, seed>>].amount \in Nat
    BY <2>1, ArgumentsAssumption DEF Bet
  <2> QED
    BY <2>1, <2>2, SettlementConserves
<1>5. ASSUME NEW h \in Houses, NEW seed \in Seeds, Resolves(h, seed)
      PROVE  LamportsConserved'
  <2>1. PICK ix, sig : Resolve(h, seed, ix, sig)
    BY <1>5 DEF Resolves
  <2> DEFINE b == bet[<<h, seed>>]
             n == Due(b, sig)
  <2>2. b \in Bet /\ n \in Nat /\ Settlement(h, seed, b.player, n)
    BY <2>1, ResolveSettles
  <2>3. b.player \in Wallets
    BY <2>2 DEF Bet
  <2> HIDE DEF n
  <2> QED
    BY <2>2, <2>3, SettlementConserves
<1>6. ASSUME NEW w \in Wallets, NEW h \in Houses, NEW n \in Amounts, Gift(w, h, n)
      PROVE  LamportsConserved'
  BY <1>1, <1>6, ArgumentsAssumption DEF Gift
<1>7. CASE Tick
  BY <1>7 DEF Tick, LamportsConserved, OpenBets
<1> QED
  BY <1>2, <1>3, <1>4, <1>5, <1>6, <1>7 DEF Next

(* Stakes, winnings and rents are neither created nor lost, whatever bets  *)
(* are placed, resolved and refunded in whatever order.                    *)
THEOREM LamportsAreConserved == Spec => []LamportsConserved
<1>1. Init => TypeOK
  BY LamportsAssumption DEF Init, TypeOK
<1>2. Init => LamportsConserved
  <2> SUFFICES ASSUME Init PROVE LamportsConserved
    OBVIOUS
  <2>1. InVaults = 0
    <3>1. \A h \in Houses \ {} : vault[h] = 0
      BY DEF Init
    <3>2. SumFunctionOnSet(vault, Houses) = SumFunctionOnSet(vault, {})
      BY <3>1, SumZeros, FiniteHousesAndBets DEF Integral
    <3> QED
      BY <3>2, SumEmpty DEF InVaults
  <2>2. InRents = 0
    <3>1. OpenBets = {}
      BY DEF Init, OpenBets
    <3> QED
      BY <3>1, FS_EmptySet, LamportsAssumption DEF InRents
  <2>3. InWallets = AtStart /\ AtStart \in Int
    BY <1>1, TotalsAreIntegers DEF Init, InWallets, AtStart
  <2>4. InWallets + InVaults + InRents = AtStart
    BY <2>1, <2>2, <2>3
  <2> QED
    BY <2>4 DEF LamportsConserved, InWallets, InVaults, InRents, AtStart
<1>3. TypeOK /\ LamportsConserved /\ [Next]_vars => LamportsConserved'
  <2>1. LamportsConserved /\ UNCHANGED vars => LamportsConserved'
    BY DEF LamportsConserved, OpenBets, vars
  <2> QED
    BY <2>1, ConservationStep
<1> QED
  BY <1>1, <1>2, <1>3, TypeCorrect, PTL DEF Spec

-----------------------------------------------------------------------------
(* The house edge                                                          *)

(* What integer division leaves out.                                       *)
QuotientOf(n, d, q) == q \in Nat /\ d * q <= n /\ n < d * q + d

LEMMA DivLaws ==
    ASSUME NEW n \in Nat, NEW d \in Nat \ {0}
    PROVE  QuotientOf(n, d, n \div d)
  BY DEF QuotientOf

(* A bet on a number below 100 wins on as many rolls as its chance says.   *)
LEMMA WinningRolls ==
    ASSUME NEW b, b.roll \in 0..99
    PROVE  Cardinality({r \in 1..100 : Wins(b, r)}) = Chance(b)
<1>1. {r \in 1..100 : Wins(b, r)} = (b.roll + 1)..100
  BY DEF Wins
<1>2. Cardinality((b.roll + 1)..100) = 100 - b.roll
  <2>1. \A lo, hi \in Int : Cardinality(lo..hi) = IF lo > hi THEN 0 ELSE hi - lo + 1
    BY FS_Interval
  <2> DEFINE first == b.roll + 1
  <2>2. first \in Int /\ first <= 100 /\ 100 - first + 1 = 100 - b.roll
    OBVIOUS
  <2>3. Cardinality(first..100) = 100 - first + 1
    <3> HIDE DEF first
    <3> QED BY <2>1, <2>2
  <2>4. Cardinality(first..100) = 100 - b.roll
    <3> HIDE DEF first
    <3> QED BY <2>2, <2>3
  <2> QED
    BY <2>4
<1> QED
  BY <1>1, <1>2 DEF Chance

(* All winnings together are at most 98.5% of the stake, and less only by  *)
(* the rounding of each win.                                               *)
LEMMA FairPayout ==
    ASSUME NEW b, b.roll \in 0..99, b.amount \in Stakes
    PROVE  LET returned == Cardinality({r \in 1..100 : Wins(b, r)}) * Payout(b)
           IN  /\ 100 * returned <= b.amount * 9850
               /\ 100 * (returned + Chance(b)) >= b.amount * 9850
<1> DEFINE c == Chance(b)
           n == b.amount * (10000 - HOUSE_EDGE)
           d == c * 100
           q == n \div d
<1>1. /\ c \in Nat \ {0} /\ d \in Nat \ {0} /\ d >= 100
      /\ n \in Nat /\ n = b.amount * 9850 /\ n < 100 * U64
      /\ U64 \in Nat \ {0}
  BY StakesAssumption, LamportsAssumption DEF Chance, HOUSE_EDGE
<1>2. q \in Nat /\ d * q <= n /\ n < d * q + d
  <2>1. QuotientOf(n, d, q)
    <3> HIDE DEF n, d
    <3> QED BY <1>1, DivLaws
  <2> HIDE DEF n, d, q
  <2> QED BY <2>1 DEF QuotientOf
<1>3. q < U64
  <2>1. 100 * q <= d * q
    <3> HIDE DEF q, d
    <3> QED BY <1>1, <1>2
  <2> HIDE DEF q, d, n
  <2> QED
    BY <1>1, <1>2, <2>1
<1>4. Payout(b) = q
  <2>1. Payout(b) = q % U64
    BY DEF Payout
  <2> HIDE DEF q
  <2> QED BY <1>1, <1>2, <1>3, <2>1
<1>5. Cardinality({r \in 1..100 : Wins(b, r)}) = c
  BY WinningRolls
<1>6. d * q = 100 * (c * q) /\ d * q + d = 100 * (c * q + c)
  <2> HIDE DEF q, c
  <2> QED BY <1>1, <1>2
<1>7. 100 * (c * q) <= b.amount * 9850 /\ 100 * (c * q + c) >= b.amount * 9850
  <2> HIDE DEF q, c, d, n
  <2> QED BY <1>1, <1>2, <1>6
<1> QED
  BY <1>4, <1>5, <1>7

(* The house keeps its 1.5 %, whatever numbers are played and for every    *)
(* stake whose winnings fit in a u64.                                      *)
THEOREM HouseEdgeHolds == Spec => []HouseEdge
<1>1. TypeOK => HouseEdge
  <2> SUFFICES ASSUME TypeOK, NEW p \in OpenBets, bet[p].roll \notin 100..255,
                      NEW stake \in Stakes
               PROVE  LET b == [roll |-> bet[p].roll, amount |-> stake]
                          returned == Cardinality({r \in 1..100 : Wins(b, r)}) * Payout(b)
                      IN  /\ 100 * returned <= stake * 9850
                          /\ 100 * (returned + Chance(b)) >= stake * 9850
    BY DEF HouseEdge
  <2> DEFINE b == [roll |-> bet[p].roll, amount |-> stake]
  <2>1. bet[p].roll \in 0..99
    <3>1. bet[p] \in Bet
      BY DEF OpenBets, TypeOK
    <3>2. bet[p].roll \in 0..255
      BY <3>1, ArgumentsAssumption DEF Bet
    <3> QED
      BY <3>2
  <2>2. b.roll \in 0..99 /\ b.amount = stake
    BY <2>1
  <2> HIDE DEF b
  <2>3. LET returned == Cardinality({r \in 1..100 : Wins(b, r)}) * Payout(b)
        IN  /\ 100 * returned <= stake * 9850
            /\ 100 * (returned + Chance(b)) >= stake * 9850
    BY <2>2, FairPayout
  <2> QED
    BY <2>3 DEF b
<1> QED
  BY <1>1, TypeCorrect, PTL

-----------------------------------------------------------------------------
(* Ending a bet                                                            *)

(* The clock never runs back, and a transfer leaves a vault empty or       *)
(* exempt from rent: what resolve and refund need of the state besides the *)
(* types.                                                                  *)
PlacedBefore == \A p \in OpenBets : bet[p].slot <= slot
VaultsExempt == \A h \in Houses : RentOk(vault[h])

IInv == TypeOK /\ PlacedBefore /\ VaultsExempt

LEMMA InitIInv == Init => IInv
BY LamportsAssumption DEF Init, IInv, TypeOK, PlacedBefore, OpenBets, VaultsExempt, RentOk

(* Every transfer checks the vault it writes.                              *)
LEMMA TransfersExempt ==
    ASSUME IInv, NEW w \in Wallets, NEW h \in Houses, NEW n \in Nat, NEW rent \in Nat,
           \/ IntoVault(w, h, n, rent)
           \/ CanLeaveVault(h, w, n, rent) /\ OutOfVault(h, w, n, rent)
    PROVE  VaultsExempt'
BY DEF IInv, TypeOK, VaultsExempt, IntoVault, CanLeaveVault, OutOfVault, RentOk

(* A settlement closes a bet and leaves the others as they are.            *)
LEMMA SettlementIInv ==
    ASSUME IInv, NEW h \in Houses, NEW seed \in Seeds, NEW w \in Wallets, NEW n \in Nat,
           Settlement(h, seed, w, n)
    PROVE  PlacedBefore' /\ VaultsExempt'
<1>1. <<h, seed>> \in Pda /\ BetRent \in Nat
  BY LamportsAssumption DEF Pda
<1>2. PlacedBefore'
  BY <1>1, CloseBetLaws DEF IInv, PlacedBefore, OpenBets, Settlement
<1> QED
  BY <1>1, <1>2, TransfersExempt DEF Settlement

LEMMA StepIInv ==
    ASSUME IInv, Next
    PROVE  IInv'
<1>0. TypeOK /\ TypeOK'
  BY NextStep DEF IInv
<1>1. ASSUME NEW w \in Wallets, NEW h \in Houses, NEW n \in Amounts,
             IntoVault(w, h, n, 0), UNCHANGED <<bet, slot>>
      PROVE  PlacedBefore' /\ VaultsExempt'
  <2>1. n \in Nat
    BY ArgumentsAssumption
  <2> QED
    BY <1>1, <2>1, TransfersExempt DEF IInv, PlacedBefore, OpenBets
<1>2. ASSUME NEW h \in Houses, NEW n \in Amounts, Initialize(h, n)
      PROVE  PlacedBefore' /\ VaultsExempt'
  BY <1>1, <1>2, HousesAssumption DEF Initialize
<1>3. ASSUME NEW w \in Wallets, NEW h \in Houses, NEW seed \in Seeds, NEW roll \in Rolls,
             NEW n \in Amounts, PlaceBet(w, h, seed, roll, n)
      PROVE  PlacedBefore' /\ VaultsExempt'
  <2> DEFINE b == [player |-> w, seed |-> seed, slot |-> slot, amount |-> n, roll |-> roll]
  <2>1. /\ n \in Nat /\ BetRent \in Nat /\ slot \in Int
        /\ IntoVault(w, h, n, BetRent) /\ slot' = slot
        /\ bet' = [bet EXCEPT ![<<h, seed>>] = b]
    BY <1>3, <1>0, ArgumentsAssumption, LamportsAssumption DEF PlaceBet, TypeOK
  <2>2. b.slot = slot
    OBVIOUS
  <2>3. PlacedBefore'
    <3> HIDE DEF b
    <3> QED BY <1>0, <2>1, <2>2 DEF IInv, TypeOK, PlacedBefore, OpenBets
  <2> QED
    BY <2>1, <2>3, TransfersExempt
<1>4. ASSUME NEW w \in Wallets, NEW h \in Houses, NEW seed \in Seeds, Refund(w, h, seed)
      PROVE  PlacedBefore' /\ VaultsExempt'
  <2>1. bet[<<h, seed>>] \in Bet /\ Settlement(h, seed, w, bet[<<h, seed>>].amount)
    BY <1>0, <1>4, RefundSettles
  <2>2. bet[<<h, seed>>].amount \in Nat
    BY <2>1, ArgumentsAssumption DEF Bet
  <2> QED
    BY <2>1, <2>2, SettlementIInv
<1>5. ASSUME NEW h \in Houses, NEW seed \in Seeds, Resolves(h, seed)
      PROVE  PlacedBefore' /\ VaultsExempt'
  <2>1. PICK ix, sig : Resolve(h, seed, ix, sig)
    BY <1>5 DEF Resolves
  <2> DEFINE b == bet[<<h, seed>>]
             n == Due(b, sig)
  <2>2. b \in Bet /\ n \in Nat /\ Settlement(h, seed, b.player, n)
    BY <1>0, <2>1, ResolveSettles
  <2>3. b.player \in Wallets
    BY <2>2 DEF Bet
  <2> HIDE DEF n
  <2> QED
    BY <2>2, <2>3, SettlementIInv
<1>6. ASSUME NEW w \in Wallets, NEW h \in Houses, NEW n \in Amounts, Gift(w, h, n)
      PROVE  PlacedBefore' /\ VaultsExempt'
  BY <1>1, <1>6 DEF Gift
<1>7. CASE Tick
  <2>1. UNCHANGED <<bet, vault>> /\ slot' = slot + 1 /\ slot \in Int
    BY <1>0, <1>7 DEF Tick, TypeOK
  <2>2. \A p \in OpenBets : bet[p].slot \in Int
    BY <1>0 DEF TypeOK, OpenBets, Bet
  <2> QED
    BY <1>0, <2>1, <2>2 DEF IInv, PlacedBefore, OpenBets, VaultsExempt
<1> QED
  BY <1>0, <1>2, <1>3, <1>4, <1>5, <1>6, <1>7 DEF Next, IInv

LEMMA Invariant == Spec => []IInv
<1>1. IInv /\ UNCHANGED vars => IInv'
  BY DEF IInv, TypeOK, PlacedBefore, OpenBets, VaultsExempt, vars
<1> QED
  BY <1>1, InitIInv, StepIInv, PTL DEF Spec

(* What Resolvable says with ENABLED, said of the guard and in both        *)
(* directions: a bet whose signature is presented resolves exactly when    *)
(* its number is 100 or less and the vault covers what is due.             *)
GuardsResolve ==
    \A p \in Pda, sig \in Outcomes :
        LET b == bet[p]
            ix == [verified |-> TRUE, key |-> p[1], sig |-> sig, message |-> b]
        IN  b # NoBet =>
              (CanResolve(p[1], p[2], ix, sig)
                <=> /\ b.roll <= 100
                    /\ b.roll < sig =>
                          Payout(b) <= vault[p[1]] /\ RentOk(vault[p[1]] - Payout(b)))

(* No roll makes the arithmetic fail on a bet of 100 or less, any roll     *)
(* does on one above, and neither the rent rule nor what is won or placed  *)
(* at the same table stops the resolution of a bet the vault covers        *)
(* (resolve_bet.rs:105-132).                                               *)
THEOREM BetsAreResolvable == Spec => []GuardsResolve
<1>1. IInv => GuardsResolve
  <2> SUFFICES ASSUME IInv, NEW h \in Houses, NEW seed \in Seeds, NEW sig \in Outcomes,
                      bet[<<h, seed>>] # NoBet
               PROVE  LET b == bet[<<h, seed>>]
                          ix == [verified |-> TRUE, key |-> h, sig |-> sig, message |-> b]
                      IN  CanResolve(h, seed, ix, sig)
                            <=> /\ b.roll <= 100
                                /\ b.roll < sig =>
                                      Payout(b) <= vault[h] /\ RentOk(vault[h] - Payout(b))
    BY DEF GuardsResolve, Pda
  <2> DEFINE b == bet[<<h, seed>>]
             ix == [verified |-> TRUE, key |-> h, sig |-> sig, message |-> b]
             due == Due(b, sig)
  <2>1. /\ b \in Bet /\ b.roll \in 0..255 /\ lamports[b.player] \in Nat
        /\ vault[h] \in Nat /\ RentOk(vault[h]) /\ sig \in 1..100
    <3>1. b \in Bet
      BY DEF IInv, TypeOK, Pda
    <3>2. b.roll \in 0..255 /\ b.player \in Wallets
      BY <3>1, ArgumentsAssumption DEF Bet
    <3> QED
      BY <3>1, <3>2, OutcomesAssumption DEF IInv, TypeOK, VaultsExempt
  <2>2. VerifySignature(ix, h, sig, b)
    BY DEF VerifySignature
  <2>3. Chance(b) >= 0 /\ (Wins(b, sig) => Chance(b) # 0) <=> b.roll <= 100
    BY <2>1 DEF Chance, Wins
  <2>4. ASSUME b.roll <= 100
        PROVE  due \in Nat /\ RentOk(lamports[b.player] + due + BetRent)
    <3>1. due \in Nat
      BY <2>1, <2>3, <2>4, DueType
    <3> HIDE DEF due
    <3>2. lamports[b.player] + due + BetRent >= RentMin
      BY <2>1, <3>1, LamportsAssumption
    <3> QED
      BY <3>1, <3>2 DEF RentOk
  <2>5. ASSUME b.roll <= 100
        PROVE  due <= vault[h] /\ RentOk(vault[h] - due)
                 <=> (b.roll < sig => Payout(b) <= vault[h] /\ RentOk(vault[h] - Payout(b)))
    <3>1. CASE b.roll < sig
      BY <3>1 DEF Due, Wins
    <3>2. CASE ~(b.roll < sig)
      <4>1. due = 0 /\ vault[h] - 0 = vault[h]
        BY <2>1, <3>2 DEF Due, Wins
      <4> QED
        BY <2>1, <3>2, <4>1
    <3> QED
      BY <3>1, <3>2
  <2>6. CASE b.roll <= 100
    BY <2>2, <2>3, <2>4, <2>5, <2>6 DEF CanResolve, CanLeaveVault
  <2>7. CASE ~(b.roll <= 100)
    BY <2>3, <2>7 DEF CanResolve
  <2> QED
    BY <2>6, <2>7
<1> QED
  BY <1>1, Invariant, PTL

(* What the refund of an open bet depends on, in any slot and whoever      *)
(* signs: that the vault covers the stake.                                 *)
GuardsRefund ==
    \A p \in OpenBets, w \in Wallets :
        CanRefund(w, p[1], p[2])
          <=> /\ bet[p].amount <= vault[p[1]]
              /\ RentOk(vault[p[1]] - bet[p].amount)

(* The timeout refuses no refund, for any clock and any slot a bet was     *)
(* placed in, and subtracts no larger slot from a smaller one: the error   *)
(* of errors.rs:17 is never raised, and a stake can be refunded in the     *)
(* slot of its bet (refund_bet.rs:31-49).                                  *)
THEOREM TimeoutNeverRefuses == Spec => []GuardsRefund
<1>1. IInv => GuardsRefund
  <2> SUFFICES ASSUME IInv, NEW h \in Houses, NEW seed \in Seeds, NEW w \in Wallets,
                      <<h, seed>> \in OpenBets
               PROVE  CanRefund(w, h, seed)
                        <=> /\ bet[<<h, seed>>].amount <= vault[h]
                            /\ RentOk(vault[h] - bet[<<h, seed>>].amount)
    BY DEF GuardsRefund, OpenBets, Pda
  <2> DEFINE b == bet[<<h, seed>>]
  <2>1. b # NoBet /\ b \in Bet
    BY DEF OpenBets, IInv, TypeOK
  <2>2. /\ b.amount \in Nat /\ b.slot \in Int /\ slot \in Int /\ b.slot <= slot
        /\ lamports[w] \in Nat
    <3>1. b.slot <= slot
      BY DEF IInv, PlacedBefore
    <3>2. b.amount \in Nat /\ b.slot \in 0..MaxSlot
      BY <2>1, ArgumentsAssumption DEF Bet
    <3> QED
      BY <3>1, <3>2, LamportsAssumption DEF IInv, TypeOK
  <2> HIDE DEF b
  <2>3. TimeoutReached(b) /\ RentOk(lamports[w] + b.amount + BetRent)
    <3>1. slot - b.slot >= 0 /\ lamports[w] + b.amount + BetRent >= RentMin
      BY <2>2, LamportsAssumption
    <3> QED
      BY <3>1 DEF TimeoutReached, RentOk
  <2> USE DEF b
  <2> QED
    BY <2>1, <2>3 DEF CanRefund, CanLeaveVault
<1> QED
  BY <1>1, Invariant, PTL

=============================================================================
