------------------------ MODULE EscrowPromiseProofs ------------------------
(***************************************************************************)
(* Machine-checked proofs of what the escrow program promises its users:   *)
(* it implements AtomicSwap, and a take that was signed against an offer   *)
(* is settled on the terms its taker read.                                 *)
(***************************************************************************)
EXTENDS EscrowProofs, EscrowRefinement, EscrowClients

-----------------------------------------------------------------------------
(* Accounts that do not exist hold nothing                                 *)

AbsentEmpty == \A x \in Ata \ atas : amount[x] = 0

LEMMA MakeAbsentEmpty ==
    ASSUME TypeOK, AbsentEmpty,
           NEW w \in Wallets, NEW seed \in Seeds, NEW a \in Mints, NEW b \in Mints,
           NEW receive \in Amounts, NEW deposit \in Amounts,
           Make(w, seed, a, b, receive, deposit)
    PROVE  AbsentEmpty'
  <1> DEFINE vault == Vault(<<w, seed>>, a)
             maker_ata_a == <<w, a>>
  <1>1. vault \in Ata /\ maker_ata_a \in Ata /\ amount \in [Ata -> Nat]
    BY Addresses DEF Pda, TypeOK
  <1>2. /\ deposit \in Nat /\ deposit <= amount[maker_ata_a]
        /\ maker_ata_a \in atas \union {vault}
        /\ atas' = atas \union {vault}
        /\ amount' = Transferred(amount, maker_ata_a, vault, deposit)
    BY AmountsAssumption DEF Make, CanTransfer, MakeTransfer
  <1> HIDE DEF vault, maker_ata_a
  <1>3. \A x \in Ata : x # maker_ata_a /\ x # vault => amount'[x] = amount[x]
    BY <1>1, <1>2, TransferLaws
  <1> QED
    BY <1>1, <1>2, <1>3 DEF AbsentEmpty

(* A take touches its vault and the three wallet accounts it names.        *)
LEMMA TakeTouches ==
    ASSUME TypeOK,
           NEW taker \in Wallets, NEW w \in Wallets, NEW seed \in Seeds,
           NEW a \in Mints, NEW b \in Mints, NEW signs \in BOOLEAN,
           Take(taker, w, seed, a, b, signs),
           NEW x \in Ata \ {<<taker, b>>, <<w, b>>, <<taker, a>>, Vault(<<w, seed>>, a)}
    PROVE  amount'[x] = amount[x]
  <1> DEFINE vault == Vault(<<w, seed>>, a)
             receive == escrow[<<w, seed>>].receive
             paid == Transferred(amount, <<taker, b>>, <<w, b>>, receive)
  <1>1. amount \in [Ata -> Nat]
    BY DEF TypeOK
  <1>2. amount' = [Transferred(paid, vault, <<taker, a>>, receive) EXCEPT ![vault] = 0]
    BY DEF Take, CanTake, TakePaid, TakeSettled, CloseVault, TakePayout
  <1> QED
    BY <1>1, <1>2 DEF Transferred

LEMMA TakeAbsentEmpty ==
    ASSUME TypeOK, AbsentEmpty,
           NEW taker \in Wallets, NEW w \in Wallets, NEW seed \in Seeds,
           NEW a \in Mints, NEW b \in Mints, NEW signs \in BOOLEAN,
           Take(taker, w, seed, a, b, signs)
    PROVE  AbsentEmpty'
  <1> DEFINE vault == Vault(<<w, seed>>, a)
             receive == escrow[<<w, seed>>].receive
             paid == Transferred(amount, <<taker, b>>, <<w, b>>, receive)
  <1>1. /\ vault \in Ata /\ <<taker, a>> \in Ata
        /\ amount \in [Ata -> Nat]
    BY Addresses DEF Pda, TypeOK
  <1>2. /\ atas' = (atas \union {<<taker, a>>, <<w, b>>}) \ {vault} /\ <<taker, b>> \in atas
        /\ amount' = [Transferred(paid, vault, <<taker, a>>, receive) EXCEPT ![vault] = 0]
    BY DEF Take, CanTake, TakePaid, TakeSettled, CloseVault, TakePayout, TakeInits
  <1>3. amount'[vault] = 0
    BY <1>1, <1>2 DEF Transferred
  <1>4. ASSUME NEW x \in Ata \ atas', x # vault
        PROVE  amount'[x] = 0
    <2>1. x \notin {<<taker, b>>, <<w, b>>, <<taker, a>>, vault} /\ x \notin atas
      BY <1>2, <1>4, Addresses DEF Pda
    <2>2. amount'[x] = amount[x]
      BY <2>1, TakeTouches
    <2> QED
      BY <2>1, <2>2 DEF AbsentEmpty
  <1> QED
    BY <1>3, <1>4 DEF AbsentEmpty

LEMMA RefundAbsentEmpty ==
    ASSUME TypeOK, AbsentEmpty,
           NEW w \in Wallets, NEW seed \in Seeds, NEW a \in Mints,
           Refund(w, seed, a)
    PROVE  AbsentEmpty'
  <1> DEFINE vault == Vault(<<w, seed>>, a)
             maker_ata_a == <<w, a>>
             moved == Transferred(amount, vault, maker_ata_a, amount[vault])
  <1>1. vault \in Ata /\ amount \in [Ata -> Nat]
    BY Addresses DEF Pda, TypeOK
  <1>2. /\ atas' = atas \ {vault} /\ maker_ata_a \in atas
        /\ amount' = [moved EXCEPT ![vault] = 0]
    BY DEF Refund, CanRefund, Refunded, RefundPayout, CanTransfer, CloseVault
  <1>3. \A x \in Ata : x # vault /\ x # maker_ata_a => amount'[x] = amount[x]
    BY <1>1, <1>2 DEF Transferred
  <1>4. amount'[vault] = 0
    BY <1>1, <1>2 DEF Transferred
  <1> QED
    BY <1>2, <1>3, <1>4 DEF AbsentEmpty

LEMMA EnvironmentAbsentEmpty == TypeOK /\ AbsentEmpty /\ Environment => AbsentEmpty'
  <1> SUFFICES ASSUME TypeOK, AbsentEmpty, Environment PROVE AbsentEmpty'
    OBVIOUS
  <1>1. CASE \E acct \in Ata : OpenAta(acct)
    BY <1>1 DEF OpenAta, AbsentEmpty
  <1>2. ASSUME NEW w \in Wallets, NEW mint \in Mints, CloseAta(w, mint)
        PROVE  AbsentEmpty'
    <2>1. /\ atas' = atas \ {<<w, mint>>}
          /\ amount' = [amount EXCEPT ![<<w, mint>>] = 0]
          /\ amount \in [Ata -> Nat]
      BY <1>2 DEF CloseAta, CloseVault, TypeOK
    <2> QED
      BY <2>1 DEF AbsentEmpty
  <1>3. ASSUME NEW w \in Wallets, NEW mint \in Mints, NEW to \in Owners, NEW n \in Amounts,
               Send(w, mint, to, n)
        PROVE  AbsentEmpty'
    <2>1. /\ amount' = Transferred(amount, <<w, mint>>, <<to, mint>>, n)
          /\ <<w, mint>> \in atas /\ <<to, mint>> \in atas /\ atas' = atas
          /\ amount \in [Ata -> Nat]
      BY <1>3 DEF Send, CanTransfer, TypeOK
    <2>2. \A x \in Ata : x \notin atas => amount'[x] = amount[x]
      BY <2>1 DEF Transferred
    <2> QED
      BY <2>1, <2>2 DEF AbsentEmpty
  <1> QED
    BY <1>1, <1>2, <1>3 DEF Environment

LEMMA NextAbsentEmpty == TypeOK /\ AbsentEmpty /\ [Next]_vars => AbsentEmpty'
  <1> SUFFICES ASSUME TypeOK, AbsentEmpty, [Next]_vars PROVE AbsentEmpty'
    OBVIOUS
  <1>1. CASE Program
    BY <1>1, MakeAbsentEmpty, TakeAbsentEmpty, RefundAbsentEmpty DEF Program
  <1>2. CASE Environment
    BY <1>2, EnvironmentAbsentEmpty
  <1>3. CASE UNCHANGED vars
    BY <1>3 DEF vars, AbsentEmpty
  <1> QED
    BY <1>1, <1>2, <1>3 DEF Next

LEMMA AbsentAreEmpty == Spec => []AbsentEmpty
  <1>1. Init => AbsentEmpty
    BY WealthAssumption DEF Init, AbsentEmpty
  <1> QED
    BY <1>1, InitTypeOK, NextTypeOK, NextAbsentEmpty, PTL DEF Spec

-----------------------------------------------------------------------------
(* The refinement of AtomicSwap                                            *)

WalletAta == Wallets \X Mints

(* What purses see of the balances.                                        *)
Purse(bal) == [x \in WalletAta |-> bal[x]]

(* A transfer seen in the purses: a payment between two, or a debit or a   *)
(* credit when the other account is a vault; and vaults are no purses.     *)
LEMMA PurseLaws ==
    ASSUME NEW bal \in [Ata -> Nat], NEW from \in Ata, NEW to \in Ata, NEW n \in Nat
    PROVE  LET moved == Purse(Transferred(bal, from, to, n))
           IN  /\ from \in WalletAta /\ to \in WalletAta
                      => moved = Transferred(Purse(bal), from, to, n)
               /\ from \in WalletAta /\ to \notin WalletAta
                      => moved = [Purse(bal) EXCEPT ![from] = @ - n]
               /\ from \notin WalletAta /\ to \in WalletAta
                      => moved = [Purse(bal) EXCEPT ![to] = @ + n]
  <1>1. WalletAta \subseteq Ata
    BY DEF WalletAta, Ata, Owners
  <1> HIDE DEF WalletAta
  <1> QED
    BY <1>1 DEF Purse, Transferred

LEMMA PurseOfClosed ==
    ASSUME NEW bal \in [Ata -> Nat], NEW v \in Ata \ WalletAta
    PROVE  Purse([bal EXCEPT ![v] = 0]) = Purse(bal)
  <1>1. WalletAta \subseteq Ata
    BY DEF WalletAta, Ata, Owners
  <1> QED
    BY <1>1 DEF Purse

LEMMA VaultIsNoPurse ==
    ASSUME NEW p \in Pda, NEW m \in Mints
    PROVE  Vault(p, m) \in Ata \ WalletAta
  BY Addresses DEF WalletAta

(* An open offer is read as the terms of its account and its vault.        *)
LEMMA OpenOffer ==
    ASSUME TypeOK, NEW q \in Pda, escrow[q] # NoEscrow
    PROVE  /\ OfferOf(q) = [mint_a |-> escrow[q].mint_a, mint_b |-> escrow[q].mint_b,
                            price |-> escrow[q].receive,
                            lot |-> amount[Vault(q, escrow[q].mint_a)]]
           /\ OfferOf(q) # NoEscrow
  <1>1. escrow[q] \in Escrow /\ amount[Vault(q, escrow[q].mint_a)] \in Nat
    BY OpenVault DEF TypeOK
  <1>2. /\ escrow[q].mint_a \in Mints /\ escrow[q].mint_b \in Mints
        /\ escrow[q].receive \in Amounts
    BY <1>1 DEF Escrow
  <1> QED
    BY <1>1, <1>2, NoOfferAssumption DEF OfferOf

(* What decides that an offer looks the same after a step.                 *)
LEMMA SameOffer ==
    ASSUME NEW q \in Pda, escrow'[q] = escrow[q],
           escrow[q] # NoEscrow
               => amount'[Vault(q, escrow[q].mint_a)] = amount[Vault(q, escrow[q].mint_a)]
    PROVE  OfferOf(q)' = OfferOf(q)
  BY DEF OfferOf, Vault

Offers == [p \in Pda |-> OfferOf(p)]

LEMMA InitSwap == Init => Promise!Init
  <1> SUFFICES ASSUME Init PROVE Promise!Init
    OBVIOUS
  <1>1. [p \in Pda |-> OfferOf(p)] = [i \in Promise!OfferId |-> NoEscrow]
    BY DEF Init, OfferOf, Promise!OfferId, Pda
  <1>2. [a \in Wallets \X Mints |-> amount[a]] = Wealth
    <2>1. \A x \in Wallets \X Mints : x \in Ata /\ amount[x] = Wealth[x]
      BY DEF Init, Ata, Owners
    <2> QED
      BY <2>1, WealthAssumption
  <1> QED
    BY <1>1, <1>2 DEF Promise!Init

LEMMA MakeOpens ==
    ASSUME TypeOK, AbsentEmpty,
           NEW w \in Wallets, NEW seed \in Seeds, NEW a \in Mints, NEW b \in Mints,
           NEW receive \in Amounts, NEW deposit \in Amounts,
           Make(w, seed, a, b, receive, deposit)
    PROVE  Promise!Open(w, seed, a, b, receive, deposit)
  <1> DEFINE p == <<w, seed>>
             vault == Vault(p, a)
             maker_ata_a == <<w, a>>
             opened == [mint_a |-> a, mint_b |-> b, price |-> receive, lot |-> deposit]
  <1>1. /\ p \in Pda /\ vault \in Ata \ WalletAta /\ maker_ata_a \in WalletAta
        /\ maker_ata_a \in Ata /\ vault # maker_ata_a
    BY Addresses, VaultIsNoPurse DEF Pda, WalletAta
  <1>2. amount \in [Ata -> Nat] /\ escrow \in [Pda -> Escrow \union {NoEscrow}]
    BY DEF TypeOK
  <1>3. /\ deposit \in Nat /\ deposit <= amount[maker_ata_a]
        /\ escrow[p] = NoEscrow /\ vault \notin atas
        /\ escrow' = [escrow EXCEPT ![p] = InitEscrow(w, seed, a, b, receive)]
        /\ amount' = Transferred(amount, maker_ata_a, vault, deposit)
    BY AmountsAssumption DEF Make, MakeInits, MakeTransfer, CanTransfer
  <1>4. amount[vault] = 0
    BY <1>1, <1>3 DEF AbsentEmpty
  <1>5. /\ amount'[vault] = deposit
        /\ \A x \in Ata : x # maker_ata_a /\ x # vault => amount'[x] = amount[x]
    <2> HIDE DEF vault, maker_ata_a
    <2> QED BY <1>1, <1>2, <1>3, <1>4, TransferLaws
  <1>6. OfferOf(p)' = opened /\ OfferOf(p) = NoEscrow
    <2>1. /\ escrow'[p] = InitEscrow(w, seed, a, b, receive)
          /\ InitEscrow(w, seed, a, b, receive) # NoEscrow
      BY <1>1, <1>2, <1>3, NoEscrowAssumption DEF InitEscrow, Escrow
    <2> QED
      BY <1>3, <1>5, <2>1 DEF OfferOf, InitEscrow, Vault
  <1>7. ASSUME NEW q \in Pda, q # p
        PROVE  OfferOf(q)' = OfferOf(q)
    <2>1. escrow'[q] = escrow[q]
      BY <1>1, <1>2, <1>3, <1>7
    <2>2. escrow[q] # NoEscrow
              => amount'[Vault(q, escrow[q].mint_a)] = amount[Vault(q, escrow[q].mint_a)]
      BY <1>1, <1>5, <1>7, OpenVault
    <2> QED
      BY <2>1, <2>2, SameOffer
  <1>8. Offers' = [Offers EXCEPT ![p] = opened]
    BY <1>1, <1>6, <1>7 DEF Offers
  <1>9. Purse(amount)' = [Purse(amount) EXCEPT ![maker_ata_a] = @ - deposit]
    <2>1. Purse(amount') = [Purse(amount) EXCEPT ![maker_ata_a] = @ - deposit]
      <3> HIDE DEF vault, maker_ata_a
      <3> QED BY <1>1, <1>2, <1>3, PurseLaws
    <2> QED
      BY <2>1 DEF Purse
  <1> QED
    BY <1>1, <1>3, <1>6, <1>8, <1>9 DEF Promise!Open, Offers, Purse, WalletAta

(* Closing the offer at p leaves the other offers as they look, when no    *)
(* other vault's balance changes.                                          *)
LEMMA CloseEscrowOffers ==
    ASSUME TypeOK, NEW p \in Pda, NEW a \in Mints, CloseEscrow(p),
           \A q \in Pda \ {p}, m \in Mints : amount'[Vault(q, m)] = amount[Vault(q, m)]
    PROVE  Offers' = [Offers EXCEPT ![p] = NoEscrow]
  <1>1. /\ escrow \in [Pda -> Escrow \union {NoEscrow}]
        /\ escrow' = [escrow EXCEPT ![p] = NoEscrow]
    BY DEF TypeOK, CloseEscrow
  <1>2. OfferOf(p)' = NoEscrow
    BY <1>1 DEF OfferOf
  <1>3. ASSUME NEW q \in Pda, q # p
        PROVE  OfferOf(q)' = OfferOf(q)
    <2>1. escrow'[q] = escrow[q]
      BY <1>1, <1>3
    <2>2. escrow[q] # NoEscrow => escrow[q].mint_a \in Mints
      BY OpenVault DEF Escrow
    <2> QED
      BY <1>3, <2>1, <2>2, SameOffer
  <1> QED
    BY <1>2, <1>3 DEF Offers

LEMMA TakeSwaps ==
    ASSUME TypeOK, NativeMints = {},
           NEW taker \in Wallets, NEW w \in Wallets, NEW seed \in Seeds,
           NEW a \in Mints, NEW b \in Mints, NEW signs \in BOOLEAN,
           Take(taker, w, seed, a, b, signs)
    PROVE  Promise!Swap(taker, w, seed)
  <1> DEFINE p == <<w, seed>>
             vault == Vault(p, a)
             payer == <<taker, b>>
             payee == <<w, b>>
             taker_ata_a == <<taker, a>>
             receive == escrow[p].receive
             paid == Transferred(amount, payer, payee, receive)
             settled == Transferred(paid, vault, taker_ata_a, receive)
  <1>1. /\ p \in Pda /\ vault \in Ata /\ vault \notin WalletAta
        /\ payer \in WalletAta /\ payee \in WalletAta /\ taker_ata_a \in WalletAta
        /\ payer \in Ata /\ payee \in Ata /\ taker_ata_a \in Ata
    BY Addresses, VaultIsNoPurse DEF Pda, WalletAta
  <1>2. /\ amount \in [Ata -> Nat]
        /\ escrow[p] # NoEscrow /\ escrow[p].mint_a = a /\ escrow[p].mint_b = b
        /\ receive <= amount[payer]
        /\ CloseEscrow(p)
    BY DEF TypeOK, Take, CanTake, TakePaid, TakeSettled, TakeHasOne, CanTransfer
  <1>3. /\ receive \in Nat /\ receive <= amount[vault]
        /\ settled \in [Ata -> Nat] /\ settled[vault] = amount[vault] - receive
        /\ CanClose(settled, vault)
        /\ CloseVault(TakeInits(taker, w, a, b), settled, vault, w)
    <2>1. TakeEffect(taker, w, seed, a, b)
      BY TakeBalances
    <2> QED
      BY <2>1 DEF TakeEffect, SwapBalances
  <1>4. amount[vault] = receive /\ amount' = [settled EXCEPT ![vault] = 0]
    <2>1. settled[vault] = 0 /\ amount[vault] \in Nat
      BY <1>1, <1>2, <1>3 DEF CloseVault, CanClose
    <2> HIDE DEF vault, receive, settled
    <2> QED
      BY <1>3, <2>1 DEF CloseVault
  <1>5. paid \in [Ata -> Nat]
    <2> HIDE DEF payer, payee, receive
    <2> QED BY <1>1, <1>2, <1>3, TransferLaws
  <1>6. Purse(amount)' = [Transferred(Purse(amount), payer, payee, receive)
                              EXCEPT ![taker_ata_a] = @ + receive]
    <2> DEFINE before == Purse(amount)
               after == Purse(amount')
    <2> HIDE DEF vault, payer, payee, taker_ata_a, receive
    <2>1. after = Purse(settled)
      BY <1>1, <1>3, <1>4, PurseOfClosed
    <2>2. Purse(settled) = [Purse(paid) EXCEPT ![taker_ata_a] = @ + receive]
      <3> HIDE DEF paid
      <3> QED BY <1>1, <1>3, <1>5, PurseLaws
    <2>3. Purse(paid) = Transferred(before, payer, payee, receive)
      BY <1>1, <1>2, <1>3, PurseLaws
    <2>4. after = [Transferred(before, payer, payee, receive)
                        EXCEPT ![taker_ata_a] = @ + receive]
      BY <2>1, <2>2, <2>3
    <2> QED
      BY <2>4 DEF Purse
  <1>7. Offers' = [Offers EXCEPT ![p] = NoEscrow]
    <2>1. ASSUME NEW q \in Pda \ {p}, NEW m \in Mints
          PROVE  amount'[Vault(q, m)] = amount[Vault(q, m)]
      <3>1. Vault(q, m) \in Ata \ {payer, payee, taker_ata_a, vault}
        BY <1>1, Addresses
      <3> QED
        BY <3>1, TakeTouches
    <2> QED
      BY <1>1, <1>2, <2>1, CloseEscrowOffers
  <1>8. OfferOf(p) = [mint_a |-> a, mint_b |-> b, price |-> receive, lot |-> receive]
        /\ OfferOf(p) # NoEscrow
    BY <1>1, <1>2, <1>4, OpenOffer
  <1> DEFINE o == Offers[p]
  <1>9. /\ o # NoEscrow /\ o.mint_a = a /\ o.mint_b = b
        /\ o.price = receive /\ o.lot = receive
    BY <1>1, <1>8 DEF Offers
  <1>10. receive <= Purse(amount)[payer]
    BY <1>1, <1>2 DEF Purse
  <1> HIDE DEF receive
  <1> QED
    BY <1>1, <1>6, <1>7, <1>9, <1>10
    DEF Promise!Swap, Promise!Paid, Transferred, Offers, Purse, WalletAta

LEMMA RefundCancels ==
    ASSUME TypeOK,
           NEW w \in Wallets, NEW seed \in Seeds, NEW a \in Mints,
           Refund(w, seed, a)
    PROVE  Promise!Cancel(w, seed)
  <1> DEFINE p == <<w, seed>>
             vault == Vault(p, a)
             maker_ata_a == <<w, a>>
             lot == amount[vault]
             moved == Transferred(amount, vault, maker_ata_a, lot)
  <1>1. /\ p \in Pda /\ vault \in Ata /\ vault \notin WalletAta
        /\ maker_ata_a \in WalletAta /\ maker_ata_a \in Ata /\ vault # maker_ata_a
    BY Addresses, VaultIsNoPurse DEF Pda, WalletAta
  <1>2. /\ amount \in [Ata -> Nat] /\ lot \in Nat
        /\ escrow[p] # NoEscrow /\ escrow[p].mint_a = a
        /\ CloseEscrow(p)
    BY <1>1 DEF TypeOK, Refund, CanRefund, Refunded
  <1>3. moved \in [Ata -> Nat] /\ amount' = [moved EXCEPT ![vault] = 0]
    BY RefundBalances DEF CloseVault
  <1>4. Purse(amount)' = [Purse(amount) EXCEPT ![maker_ata_a] = @ + lot]
    <2> DEFINE before == Purse(amount)
               after == Purse(amount')
    <2> HIDE DEF vault, maker_ata_a, lot
    <2>1. after = Purse(moved)
      BY <1>1, <1>3, PurseOfClosed
    <2>2. Purse(moved) = [before EXCEPT ![maker_ata_a] = @ + lot]
      BY <1>1, <1>2, PurseLaws
    <2>3. after = [before EXCEPT ![maker_ata_a] = @ + lot]
      BY <2>1, <2>2
    <2> QED
      BY <2>3 DEF Purse
  <1>5. Offers' = [Offers EXCEPT ![p] = NoEscrow]
    <2>1. ASSUME NEW q \in Pda \ {p}, NEW m \in Mints
          PROVE  amount'[Vault(q, m)] = amount[Vault(q, m)]
      <3>1. Vault(q, m) \in Ata /\ Vault(q, m) # maker_ata_a /\ Vault(q, m) # vault
        BY <1>1, Addresses
      <3> QED
        BY <1>2, <1>3, <3>1 DEF Transferred
    <2> QED
      BY <1>1, <1>2, <2>1, CloseEscrowOffers
  <1> DEFINE o == Offers[p]
  <1>6. o # NoEscrow /\ o.mint_a = a /\ o.lot = lot
    BY <1>1, <1>2, OpenOffer DEF Offers
  <1> HIDE DEF lot
  <1> QED
    BY <1>1, <1>4, <1>5, <1>6 DEF Promise!Cancel, Offers, Purse, WalletAta

(* Without wrapped SOL only an empty account can be closed: nothing is     *)
(* seen of it.                                                             *)
LEMMA CloseAtaStutters ==
    ASSUME TypeOK, NativeMints = {},
           NEW w \in Wallets, NEW mint \in Mints, CloseAta(w, mint)
    PROVE  amount' = amount /\ escrow' = escrow
  BY Addresses DEF CloseAta, CloseVault, CanClose, TypeOK

(* A transfer to a purse pays, one to the vault of an open offer adds to   *)
(* its lot, and any other is lost.                                         *)
LEMMA SendTransfers ==
    ASSUME TypeOK,
           NEW w \in Wallets, NEW mint \in Mints, NEW to \in Owners, NEW n \in Amounts,
           Send(w, mint, to, n)
    PROVE  Promise!Transfer
  <1> DEFINE from == <<w, mint>>
             dest == <<to, mint>>
  <1>1. /\ from \in Ata /\ dest \in Ata /\ from \in WalletAta
        /\ amount \in [Ata -> Nat] /\ n \in Nat /\ n <= amount[from]
        /\ amount' = Transferred(amount, from, dest, n) /\ escrow' = escrow
    BY Addresses, AmountsAssumption DEF TypeOK, Send, CanTransfer, Ata, WalletAta
  <1>2. n <= Purse(amount)[from]
    BY <1>1 DEF Purse
  <1>3. CASE to \in Wallets
    <2>1. dest \in WalletAta
      BY <1>3 DEF WalletAta
    <2>2. Purse(amount)' = Transferred(Purse(amount), from, dest, n)
      <3>1. Purse(amount') = Transferred(Purse(amount), from, dest, n)
        <4> HIDE DEF from, dest
        <4> QED BY <1>1, <2>1, PurseLaws
      <3> QED
        BY <3>1 DEF Purse
    <2>3. Offers' = Offers
      <3>1. ASSUME NEW q \in Pda, escrow[q] # NoEscrow
            PROVE  amount'[Vault(q, escrow[q].mint_a)] = amount[Vault(q, escrow[q].mint_a)]
        <4>1. /\ Vault(q, escrow[q].mint_a) \in Ata
              /\ Vault(q, escrow[q].mint_a) # from /\ Vault(q, escrow[q].mint_a) # dest
          BY <1>3, <3>1, OpenVault
        <4> QED
          BY <1>1, <4>1 DEF Transferred
      <3> QED
        BY <1>1, <3>1, SameOffer DEF Offers
    <2>4. Promise!Pay(w, to, mint, n)
      BY <1>2, <2>2, <2>3 DEF Promise!Pay, Promise!Paid, Transferred, Offers, Purse, WalletAta
    <2> QED
      BY <1>3, <2>4 DEF Promise!Transfer
  <1>4. CASE to \in Pda
    <2>1. dest = Vault(to, mint) /\ dest \notin WalletAta /\ from # dest
      BY <1>1, <1>4, VaultIsNoPurse DEF Vault
    <2>2. Purse(amount)' = [Purse(amount) EXCEPT ![from] = @ - n]
      <3>1. Purse(amount') = [Purse(amount) EXCEPT ![from] = @ - n]
        <4> HIDE DEF from, dest
        <4> QED BY <1>1, <2>1, PurseLaws
      <3> QED
        BY <3>1 DEF Purse
    <2>3. /\ amount'[dest] = amount[dest] + n
          /\ \A x \in Ata : x # from /\ x # dest => amount'[x] = amount[x]
      <3> HIDE DEF from, dest
      <3> QED BY <1>1, <2>1, TransferLaws
    <2>4. ASSUME NEW q \in Pda, q # to \/ escrow[q] = NoEscrow \/ escrow[q].mint_a # mint
          PROVE  OfferOf(q)' = OfferOf(q)
      <3>1. ASSUME escrow[q] # NoEscrow
            PROVE  amount'[Vault(q, escrow[q].mint_a)] = amount[Vault(q, escrow[q].mint_a)]
        <4>1. Vault(q, escrow[q].mint_a) \in Ata /\ Vault(q, escrow[q].mint_a) # from
          BY <3>1, OpenVault
        <4>2. Vault(q, escrow[q].mint_a) # dest
          BY <2>4, <3>1 DEF Vault
        <4> QED
          BY <2>3, <4>1, <4>2
      <3> QED
        BY <1>1, <3>1, SameOffer
    <2>5. CASE escrow[to] # NoEscrow /\ escrow[to].mint_a = mint
      <3>1. /\ OfferOf(to) # NoEscrow
            /\ OfferOf(to) = [mint_a |-> mint, mint_b |-> escrow[to].mint_b,
                              price |-> escrow[to].receive, lot |-> amount[dest]]
        BY <1>4, <2>1, <2>5, OpenOffer
      <3>2. OfferOf(to)' = [mint_a |-> mint, mint_b |-> escrow[to].mint_b,
                            price |-> escrow[to].receive, lot |-> amount[dest] + n]
        BY <1>1, <2>1, <2>3, <2>5 DEF OfferOf, Vault
      <3>3. OfferOf(to)' = [OfferOf(to) EXCEPT !.lot = @ + n] /\ OfferOf(to).mint_a = mint
        BY <3>1, <3>2
      <3>4. Offers' = [Offers EXCEPT ![to].lot = @ + n]
        BY <1>4, <2>4, <3>3 DEF Offers
      <3>5. Offers[to] # NoEscrow /\ Offers[to].mint_a = mint
        BY <1>4, <3>1, <3>3 DEF Offers
      <3>6. Promise!Gift(w, to, n)
        BY <1>2, <2>2, <3>4, <3>5 DEF Promise!Gift, Offers, Purse, WalletAta
      <3> QED
        BY <1>4, <3>6 DEF Promise!Transfer, Promise!OfferId, Pda
    <2>6. CASE ~(escrow[to] # NoEscrow /\ escrow[to].mint_a = mint)
      <3>1. Offers' = Offers
        BY <2>4, <2>6 DEF Offers
      <3>2. Promise!Lose(w, mint, n)
        BY <1>2, <2>2, <3>1 DEF Promise!Lose, Offers, Purse, WalletAta
      <3> QED
        BY <3>2 DEF Promise!Transfer
    <2> QED
      BY <2>5, <2>6
  <1> QED
    BY <1>3, <1>4 DEF Owners

LEMMA UnseenStutters ==
    ASSUME amount' = amount, escrow' = escrow
    PROVE  UNCHANGED Promise!vars
  BY DEF Promise!vars, OfferOf, Vault

LEMMA NextSwap ==
    ASSUME TypeOK, AbsentEmpty, NativeMints = {}, [Next]_vars
    PROVE  [Promise!Next]_(Promise!vars)
  <1>1. ASSUME NEW w \in Wallets, NEW seed \in Seeds, NEW a \in Mints, NEW b \in Mints,
               NEW receive \in Amounts, NEW deposit \in Amounts,
               Make(w, seed, a, b, receive, deposit)
        PROVE  Promise!Next
    BY <1>1, MakeOpens DEF Promise!Next, Promise!Trade
  <1>2. ASSUME NEW taker \in Wallets, NEW w \in Wallets, NEW seed \in Seeds,
               NEW a \in Mints, NEW b \in Mints, NEW signs \in BOOLEAN,
               Take(taker, w, seed, a, b, signs)
        PROVE  Promise!Next
    BY <1>2, TakeSwaps DEF Promise!Next, Promise!Trade
  <1>3. ASSUME NEW w \in Wallets, NEW seed \in Seeds, NEW a \in Mints, Refund(w, seed, a)
        PROVE  Promise!Next
    BY <1>3, RefundCancels DEF Promise!Next, Promise!Trade
  <1>4. ASSUME NEW w \in Wallets, NEW mint \in Mints, NEW to \in Owners, NEW n \in Amounts,
               Send(w, mint, to, n)
        PROVE  Promise!Next
    BY <1>4, SendTransfers DEF Promise!Next
  <1>5. ASSUME NEW w \in Wallets, NEW mint \in Mints, CloseAta(w, mint)
        PROVE  UNCHANGED Promise!vars
    BY <1>5, CloseAtaStutters, UnseenStutters
  <1>6. ASSUME NEW acct \in Ata, OpenAta(acct)
        PROVE  UNCHANGED Promise!vars
    BY <1>6, UnseenStutters DEF OpenAta
  <1>7. CASE UNCHANGED vars
    BY <1>7, UnseenStutters DEF vars
  <1> QED
    BY <1>1, <1>2, <1>3, <1>4, <1>5, <1>6, <1>7 DEF Next, Program, Environment

(* When no mint is wrapped SOL every transaction of the program and of the *)
(* token programs is a step of AtomicSwap: an offer ends only by a swap of *)
(* the price for the whole vault or by a refund of the whole vault.        *)
THEOREM EscrowImplementsSwap ==
    ASSUME NativeMints = {}
    PROVE  Spec => ImplementsSwap
  <1>1. TypeOK /\ AbsentEmpty /\ [Next]_vars => [Promise!Next]_(Promise!vars)
    BY NextSwap
  <1> QED
    BY <1>1, InitSwap, TypeCorrect, AbsentAreEmpty, PTL DEF Spec, ImplementsSwap, Promise!Spec

-----------------------------------------------------------------------------
(* Takes in flight                                                         *)

(* Signing and dropping a take change no account; landing it is the take.  *)
LEMMA ClientSteps ==
    ASSUME ClientTypeOK, [ClientNext]_clientVars
    PROVE  [Next]_vars
  <1>1. ASSUME NEW w \in Wallets, NEW seed \in Seeds, MakeOffer(w, seed) \/ RefundOffer(w, seed)
        PROVE  Next
    BY <1>1 DEF MakeOffer, RefundOffer, Next, Program
  <1>2. ASSUME NEW t \in signed, LandTake(t)
        PROVE  Next
    <2>1. /\ t.taker \in Wallets /\ t.at[1] \in Wallets /\ t.at[2] \in Seeds
          /\ t.read.mint_a \in Mints /\ t.read.mint_b \in Mints
      BY DEF ClientTypeOK, SignedTake, Escrow, Pda
    <2> QED
      BY <1>2, <2>1 DEF LandTake, Next, Program
  <1>3. ASSUME NEW taker \in Wallets, NEW p \in Pda, SignTake(taker, p)
        PROVE  UNCHANGED vars
    BY <1>3 DEF SignTake
  <1>4. ASSUME NEW t \in signed, DropTake(t)
        PROVE  UNCHANGED vars
    BY <1>4 DEF DropTake
  <1>5. CASE Environment
    BY <1>5 DEF Next
  <1>6. CASE UNCHANGED clientVars
    BY <1>6 DEF clientVars, vars
  <1> QED
    BY <1>1, <1>2, <1>3, <1>4, <1>5, <1>6 DEF ClientNext

LEMMA NextClientTypeOK == ClientTypeOK /\ [ClientNext]_clientVars => ClientTypeOK'
  <1> SUFFICES ASSUME ClientTypeOK, [ClientNext]_clientVars PROVE ClientTypeOK'
    OBVIOUS
  <1>1. TypeOK'
    BY ClientSteps, NextTypeOK DEF ClientTypeOK
  <1>2. signed' \subseteq SignedTake /\ outlived' \subseteq signed'
    <2>1. signed \subseteq SignedTake /\ outlived \subseteq signed
      BY DEF ClientTypeOK
    <2>2. ASSUME NEW w \in Wallets, NEW seed \in Seeds, MakeOffer(w, seed) \/ RefundOffer(w, seed)
          PROVE  signed' \subseteq SignedTake /\ outlived' \subseteq signed'
      BY <2>1, <2>2 DEF MakeOffer, RefundOffer, Outlive
    <2>3. ASSUME NEW taker \in Wallets, NEW p \in Pda, SignTake(taker, p)
          PROVE  signed' \subseteq SignedTake /\ outlived' \subseteq signed'
      <3>1. escrow[p] \in Escrow
        BY <2>3, OpenVault DEF SignTake, ClientTypeOK
      <3> QED
        BY <2>1, <2>3, <3>1 DEF SignTake, SignedTake
    <2>4. ASSUME NEW t \in signed, LandTake(t) \/ DropTake(t)
          PROVE  signed' \subseteq SignedTake /\ outlived' \subseteq signed'
      BY <2>1, <2>4 DEF LandTake, DropTake, Outlive
    <2>5. CASE UNCHANGED <<signed, outlived>>
      BY <2>1, <2>5
    <2> QED
      BY <2>2, <2>3, <2>4, <2>5 DEF ClientNext, clientVars
  <1> QED
    BY <1>1, <1>2 DEF ClientTypeOK

LEMMA InitClientTypeOK == ClientInit => ClientTypeOK
  BY InitTypeOK DEF ClientInit, ClientTypeOK

(* Takes in flight are signed by wallets for accounts that were read.      *)
THEOREM ClientTypeCorrect == ClientSpec => []ClientTypeOK
  BY InitClientTypeOK, NextClientTypeOK, PTL DEF ClientSpec

(* Clients that delay, reorder, lose or repeat transactions reach nothing  *)
(* the program does not: what is proved of Spec holds with them.           *)
THEOREM ClientsFollowSpec == ClientSpec => Spec
  <1>1. ClientInit => Init
    BY DEF ClientInit
  <1>2. ClientTypeOK /\ [ClientNext]_clientVars => [Next]_vars
    BY ClientSteps
  <1> QED
    BY <1>1, <1>2, ClientTypeCorrect, PTL DEF ClientSpec, Spec

(* A take in flight either outlived the offer that was read, or that offer *)
(* is still open, with the terms that were read.                           *)
ReadsCurrent == \A t \in signed \ outlived : escrow[t.at] = t.read

(* An open offer keeps its account (NextKeeps), and the steps that close   *)
(* one, a take or a refund, mark the takes that outlive it.                *)
LEMMA ReadsStayCurrent ==
    ASSUME ClientTypeOK, ReadsCurrent, [ClientNext]_clientVars
    PROVE  ReadsCurrent'
  <1> TypeOK /\ signed \subseteq SignedTake
    BY DEF ClientTypeOK
  <1>1. [Next]_vars
    BY ClientSteps
  <1>2. \A p \in Pda : escrow[p] # NoEscrow /\ escrow'[p] # NoEscrow => escrow'[p] = escrow[p]
    BY <1>1, NextKeeps DEF Kept
  <1>3. \A t \in signed : t.at \in Pda /\ t.read \in Escrow
    BY DEF SignedTake
  <1>4. \A t \in signed \ outlived : escrow[t.at] = t.read /\ escrow[t.at] # NoEscrow
    BY <1>3, NoEscrowAssumption DEF ReadsCurrent
  <1>5. ASSUME signed' \subseteq signed, Outlive
        PROVE  ReadsCurrent'
    <2> SUFFICES ASSUME NEW t \in signed' \ outlived' PROVE escrow'[t.at] = t.read
      BY DEF ReadsCurrent
    <2>1. t \in signed \ outlived /\ escrow'[t.at] # NoEscrow
      BY <1>5 DEF Outlive
    <2> QED
      BY <1>2, <1>3, <1>4, <2>1
  <1>6. ASSUME \A p \in Pda : escrow[p] # NoEscrow => escrow'[p] # NoEscrow,
               signed' \ outlived' \subseteq signed \ outlived
        PROVE  ReadsCurrent'
    BY <1>2, <1>3, <1>4, <1>6 DEF ReadsCurrent
  <1>7. ASSUME NEW w \in Wallets, NEW seed \in Seeds, MakeOffer(w, seed)
        PROVE  ReadsCurrent'
    <2>1. PICK a \in Mints, b \in Mints, receive \in Amounts, deposit \in Amounts :
              Make(w, seed, a, b, receive, deposit)
      BY <1>7 DEF MakeOffer
    <2>2. /\ escrow[<<w, seed>>] = NoEscrow
          /\ escrow' = [escrow EXCEPT ![<<w, seed>>] = InitEscrow(w, seed, a, b, receive)]
      BY <2>1 DEF Make, MakeInits
    <2>3. \A p \in Pda : escrow[p] # NoEscrow => escrow'[p] # NoEscrow
      BY <2>2 DEF TypeOK
    <2> QED
      BY <1>6, <1>7, <2>3 DEF MakeOffer
  <1>8. ASSUME NEW w \in Wallets, NEW seed \in Seeds, RefundOffer(w, seed)
        PROVE  ReadsCurrent'
    BY <1>5, <1>8 DEF RefundOffer
  <1>9. ASSUME NEW t \in signed, LandTake(t)
        PROVE  ReadsCurrent'
    BY <1>5, <1>9 DEF LandTake
  <1>10. ASSUME NEW t \in signed, DropTake(t)
         PROVE  ReadsCurrent'
    BY <1>6, <1>10 DEF DropTake, vars
  <1>11. ASSUME NEW taker \in Wallets, NEW p \in Pda, SignTake(taker, p)
         PROVE  ReadsCurrent'
    <2> DEFINE new == [taker |-> taker, at |-> p, read |-> escrow[p]]
    <2>1. /\ signed' = signed \union {new} /\ outlived' = outlived \ {new}
          /\ escrow' = escrow
      BY <1>11 DEF SignTake, vars
    <2>2. escrow[new.at] = new.read
      OBVIOUS
    <2> HIDE DEF new
    <2> QED
      BY <2>1, <2>2 DEF ReadsCurrent
  <1>12. CASE Environment /\ UNCHANGED <<signed, outlived>>
    <2>1. escrow' = escrow
      BY <1>12 DEF Environment, OpenAta, CloseAta, Send
    <2> QED
      BY <1>6, <1>12, <2>1
  <1>13. CASE UNCHANGED clientVars
    BY <1>6, <1>13 DEF clientVars
  <1> QED
    BY <1>7, <1>8, <1>9, <1>10, <1>11, <1>12, <1>13 DEF ClientNext

(* A taker of another's offer, on two mints, ends the price poorer in      *)
(* mint B.                                                                 *)
LEMMA TakerPays ==
    ASSUME TypeOK,
           NEW taker \in Wallets, NEW w \in Wallets, NEW seed \in Seeds,
           NEW a \in Mints, NEW b \in Mints, NEW signs \in BOOLEAN,
           Take(taker, w, seed, a, b, signs), taker # w, a # b
    PROVE  amount'[<<taker, b>>] = amount[<<taker, b>>] - escrow[<<w, seed>>].receive
  <1> DEFINE vault == Vault(<<w, seed>>, a)
             receive == escrow[<<w, seed>>].receive
             paid == Transferred(amount, <<taker, b>>, <<w, b>>, receive)
  <1>1. /\ <<taker, b>> \in Ata /\ <<w, b>> \in Ata /\ vault # <<taker, b>>
        /\ <<taker, b>> # <<w, b>> /\ <<taker, b>> # <<taker, a>>
        /\ amount \in [Ata -> Nat]
    BY Addresses DEF Pda, TypeOK
  <1>2. amount' = [Transferred(paid, vault, <<taker, a>>, receive) EXCEPT ![vault] = 0]
    BY DEF Take, CanTake, TakePaid, TakeSettled, CloseVault, TakePayout
  <1> HIDE DEF vault, receive
  <1>3. amount'[<<taker, b>>] = amount[<<taker, b>>] - receive
    BY <1>1, <1>2 DEF Transferred
  <1> QED
    BY <1>3 DEF receive

(* What SettledOnReadTerms says of one take in flight.                     *)
Settled(t) ==
    LET e == escrow[t.at]
    IN  (LandTake(t) /\ t.taker # t.at[1]) =>
            /\ e.mint_a = t.read.mint_a /\ e.mint_b = t.read.mint_b
            /\ t \notin outlived => e = t.read
            /\ e.mint_a # e.mint_b =>
                  amount'[<<t.taker, e.mint_b>>] + e.receive >= amount[<<t.taker, e.mint_b>>]

LEMMA LandSettles ==
    ASSUME ClientTypeOK, ReadsCurrent, NEW t \in signed
    PROVE  Settled(t)
  <1> SUFFICES ASSUME LandTake(t), t.taker # t.at[1]
               PROVE  LET e == escrow[t.at]
                      IN  /\ e.mint_a = t.read.mint_a /\ e.mint_b = t.read.mint_b
                          /\ t \notin outlived => e = t.read
                          /\ e.mint_a # e.mint_b =>
                                amount'[<<t.taker, e.mint_b>>] + e.receive
                                    >= amount[<<t.taker, e.mint_b>>]
    BY DEF Settled
  <1> DEFINE taker == t.taker
             w == t.at[1]
             seed == t.at[2]
             a == t.read.mint_a
             b == t.read.mint_b
             e == escrow[<<w, seed>>]
  <1>1. /\ TypeOK /\ taker \in Wallets /\ w \in Wallets /\ seed \in Seeds
        /\ a \in Mints /\ b \in Mints /\ t.at = <<w, seed>> /\ t.at \in Pda
    <2>1. TypeOK /\ t \in SignedTake
      BY DEF ClientTypeOK
    <2>2. t.taker \in Wallets /\ t.at \in Pda /\ t.read \in Escrow
      BY <2>1 DEF SignedTake
    <2>3. w \in Wallets /\ seed \in Seeds /\ t.at = <<w, seed>>
      BY <2>2 DEF Pda
    <2>4. a \in Mints /\ b \in Mints
      BY <2>2 DEF Escrow
    <2> QED
      BY <2>1, <2>2, <2>3, <2>4
  <1>2. Take(taker, w, seed, a, b, FALSE)
    BY DEF LandTake
  <1>3. e # NoEscrow /\ e.mint_a = a /\ e.mint_b = b
    BY <1>2 DEF Take, CanTake, TakeHasOne
  <1>4. t \notin outlived => escrow[t.at] = t.read
    BY DEF ReadsCurrent
  <1>5. ASSUME a # b
        PROVE  amount'[<<taker, b>>] + e.receive >= amount[<<taker, b>>]
    <2>1. amount'[<<taker, b>>] = amount[<<taker, b>>] - e.receive
      <3> HIDE DEF taker, w, seed, a, b
      <3>1. taker # w
        BY DEF taker, w
      <3> QED
        BY <1>1, <1>2, <1>5, <3>1, TakerPays
    <2>2. amount[<<taker, b>>] \in Nat
      BY <1>1, Addresses DEF TypeOK
    <2>3. e.receive \in Nat
      <3>1. escrow[t.at] \in Escrow
        BY <1>1, <1>3 DEF TypeOK
      <3> QED
        BY <1>1, <3>1, AmountsAssumption DEF Escrow
    <2> HIDE DEF taker, w, seed, a, b, e
    <2> QED
      BY <2>1, <2>2, <2>3
  <1>6. escrow[t.at] = e
    BY <1>1
  <1> HIDE DEF a, b, e
  <1> QED
    BY <1>3, <1>4, <1>5, <1>6 DEF a, b

(* A take by another wallet than the maker's, however long it was in       *)
(* flight and whether or not makers use their seeds again, settles an      *)
(* offer of the two mints it was signed for at no more than that offer's   *)
(* price; while the offer that was read stays open its terms are those     *)
(* that were read.  An offer made later under the seed may have a higher   *)
(* price than was read, as the instruction carries no amount               *)
(* (lib.rs:25, take.rs:52-60,78-109).                                      *)
THEOREM TakesSettleOnReadTerms == ClientSpec => SettledOnReadTerms
  <1>1. ClientInit => ReadsCurrent
    BY DEF ClientInit, ReadsCurrent
  <1>2. ClientTypeOK /\ ReadsCurrent /\ [ClientNext]_clientVars => ReadsCurrent'
    BY ReadsStayCurrent
  <1>3. ClientTypeOK /\ ReadsCurrent /\ [ClientNext]_clientVars =>
            [\A t \in signed : Settled(t)]_clientVars
    BY LandSettles
  <1> QED
    BY <1>1, <1>2, <1>3, ClientTypeCorrect, PTL DEF ClientSpec, SettledOnReadTerms, Settled

=============================================================================
