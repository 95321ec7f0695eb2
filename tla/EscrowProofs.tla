---------------------------- MODULE EscrowProofs ----------------------------
(***************************************************************************)
(* Machine-checked proofs about the escrow program, for any wallets,       *)
(* seeds, mints and amounts.                                               *)
(***************************************************************************)
EXTENDS Escrow, SumProofs

(* The token accounts of wallets are not vaults, and the vaults of two     *)
(* escrows are two accounts.                                               *)
LEMMA Addresses ==
    /\ \A p \in Pda, w \in Wallets, m, n \in Mints : Vault(p, m) # <<w, n>>
    /\ \A p, q \in Pda, m, n \in Mints : p # q => Vault(p, m) # Vault(q, n)
    /\ \A p \in Pda, m \in Mints : Vault(p, m) \in Ata
    /\ \A w \in Wallets, m \in Mints : <<w, m>> \in Ata
  BY PdaAssumption DEF Vault, Ata, Owners

(* A transfer keeps balances natural, lowers no account but the payer's,   *)
(* and adds the amount to the payee's, unless the two are the same.        *)
LEMMA TransferLaws ==
    ASSUME NEW bal \in [Ata -> Nat], NEW from \in Ata, NEW to \in Ata,
           NEW n \in Nat, n <= bal[from]
    PROVE  /\ Transferred(bal, from, to, n) \in [Ata -> Nat]
           /\ \A x \in Ata : x # from => Transferred(bal, from, to, n)[x] >= bal[x]
           /\ from # to => /\ Transferred(bal, from, to, n)[to] = bal[to] + n
                           /\ Transferred(bal, from, to, n)[from] = bal[from] - n
           /\ from = to => Transferred(bal, from, to, n)[to] = bal[to]
           /\ \A x \in Ata : x # from /\ x # to
                                => Transferred(bal, from, to, n)[x] = bal[x]
  BY SMT DEF Transferred

(* Two transfers in a row: n from x to y, then n from v to t.  Only x and  *)
(* v can end with less; y gains n unless it is x, and then t gains n.      *)
SwapBalances(bal, x, y, v, t, n) ==
    Transferred(Transferred(bal, x, y, n), v, t, n)

LEMMA SwapLaws ==
    ASSUME NEW bal \in [Ata -> Nat], NEW n \in Nat,
           NEW x \in Ata, NEW y \in Ata, NEW v \in Ata, NEW t \in Ata,
           v # x, v # y, v # t,
           n <= bal[x], n <= Transferred(bal, x, y, n)[v]
    PROVE  LET final == SwapBalances(bal, x, y, v, t, n)
           IN  /\ final \in [Ata -> Nat]
               /\ n <= bal[v] /\ final[v] = bal[v] - n
               /\ \A z \in Ata : z # x /\ z # v => final[z] >= bal[z]
               /\ x # y => final[y] >= bal[y] + n
               /\ x = y => final[t] = bal[t] + n
  <1> DEFINE paid == Transferred(bal, x, y, n)
             final == Transferred(paid, v, t, n)
  <1>1. /\ paid \in [Ata -> Nat] /\ paid[v] = bal[v]
        /\ \A z \in Ata : z # x => paid[z] >= bal[z]
        /\ x # y => paid[y] = bal[y] + n
        /\ x = y => paid[t] = bal[t]
    BY TransferLaws
  <1>2. n <= paid[v]
    OBVIOUS
  <1> HIDE DEF paid
  <1>3. /\ final \in [Ata -> Nat]
        /\ final[v] = paid[v] - n /\ final[t] = paid[t] + n
        /\ \A z \in Ata : z # v => final[z] >= paid[z]
    <2>1. paid \in [Ata -> Nat]
      BY <1>1
    <2>2. final \in [Ata -> Nat]
      BY <2>1, <1>2, TransferLaws
    <2>3. final[v] = paid[v] - n /\ final[t] = paid[t] + n
      BY <2>1, <1>2, TransferLaws
    <2>4. \A z \in Ata : z # v => final[z] >= paid[z]
      BY <2>1, <1>2, TransferLaws
    <2> QED
      BY <2>2, <2>3, <2>4
  <1> HIDE DEF final
  <1>4. /\ final \in [Ata -> Nat]
        /\ n <= bal[v] /\ final[v] = bal[v] - n
        /\ \A z \in Ata : z # x /\ z # v => final[z] >= bal[z]
        /\ x # y => final[y] >= bal[y] + n
        /\ x = y => final[t] = bal[t] + n
    BY <1>1, <1>2, <1>3
  <1> QED
    BY <1>4 DEF final, paid, SwapBalances

-----------------------------------------------------------------------------
(* Type correctness                                                        *)

LEMMA InitTypeOK == Init => TypeOK
  BY WealthAssumption DEF Init, TypeOK, Ata, Owners

LEMMA MakeTypeOK ==
    ASSUME TypeOK,
           NEW w \in Wallets, NEW seed \in Seeds, NEW a \in Mints, NEW b \in Mints,
           NEW receive \in Amounts, NEW deposit \in Amounts,
           Make(w, seed, a, b, receive, deposit)
    PROVE  TypeOK'
  <1> DEFINE p == <<w, seed>>
             vault == Vault(p, a)
  <1>1. p \in Pda /\ vault \in Ata /\ <<w, a>> \in Ata
    BY Addresses DEF Pda
  <1>2. deposit \in Nat /\ deposit <= amount[<<w, a>>]
    BY AmountsAssumption DEF Make, CanTransfer
  <1>3. amount' \in [Ata -> Nat]
    BY <1>1, <1>2, TransferLaws DEF TypeOK, Make, MakeTransfer
  <1>4. InitEscrow(w, seed, a, b, receive) \in Escrow
    BY DEF InitEscrow, Escrow
  <1>5. escrow' \in [Pda -> Escrow \union {NoEscrow}]
    BY <1>1, <1>4 DEF TypeOK, Make
  <1>6. atas' \subseteq Ata /\ deposited' \in [Pda -> Nat] /\ sol' \in [Wallets -> Nat]
    BY <1>1, <1>2 DEF TypeOK, Make
  <1> QED
    BY <1>3, <1>5, <1>6 DEF TypeOK

LEMMA CloseVaultType ==
    ASSUME TypeOK, NEW accts \in SUBSET Ata, NEW bal \in [Ata -> Nat],
           NEW acct \in Ata, NEW w \in Wallets,
           CloseVault(accts, bal, acct, w)
    PROVE  atas' \subseteq Ata /\ amount' \in [Ata -> Nat] /\ sol' \in [Wallets -> Nat]
  BY DEF TypeOK, CloseVault

LEMMA CloseEscrowType ==
    ASSUME TypeOK, NEW p \in Pda, CloseEscrow(p)
    PROVE  escrow' \in [Pda -> Escrow \union {NoEscrow}] /\ deposited' \in [Pda -> Nat]
  BY DEF TypeOK, CloseEscrow

(* What the two payments of a take leave in the accounts before the vault  *)
(* is closed.                                                              *)
TakeEffect(taker, w, seed, a, b) ==
    LET p == <<w, seed>>
        payer == <<taker, b>>
        payee == <<w, b>>
        vault == Vault(p, a)
        taker_ata_a == <<taker, a>>
        receive == escrow[p].receive
        final == SwapBalances(amount, payer, payee, vault, taker_ata_a, receive)
    IN  /\ receive \in Nat
        /\ final \in [Ata -> Nat]
        /\ receive <= amount[vault] /\ final[vault] = amount[vault] - receive
        /\ \A x \in Ata : x # payer /\ x # vault => final[x] >= amount[x]
        /\ payer # payee => final[payee] >= amount[payee] + receive
        /\ payer = payee => final[taker_ata_a] = amount[taker_ata_a] + receive
        /\ CanClose(final, vault)
        /\ CloseVault(TakeInits(taker, w, a, b), final, vault, w)

LEMMA TakeBalances ==
    ASSUME TypeOK,
           NEW taker \in Wallets, NEW w \in Wallets, NEW seed \in Seeds,
           NEW a \in Mints, NEW b \in Mints, NEW signs \in BOOLEAN,
           Take(taker, w, seed, a, b, signs)
    PROVE  TakeEffect(taker, w, seed, a, b)
  <1> DEFINE p == <<w, seed>>
             payer == <<taker, b>>
             payee == <<w, b>>
             vault == Vault(p, a)
             taker_ata_a == <<taker, a>>
             receive == escrow[p].receive
             final == SwapBalances(amount, payer, payee, vault, taker_ata_a, receive)
  <1>1. /\ vault \in Ata /\ taker_ata_a \in Ata /\ payer \in Ata /\ payee \in Ata
        /\ vault # payer /\ vault # payee /\ vault # taker_ata_a
    BY Addresses DEF Pda
  <1>2. receive \in Nat
    BY AmountsAssumption DEF TypeOK, Take, CanTake, TakePaid, TakeSettled, Escrow, Pda
  <1>3. /\ receive <= amount[payer]
        /\ receive <= Transferred(amount, payer, payee, receive)[vault]
    BY DEF Take, CanTake, TakePaid, TakeSettled, CanTransfer, TakePayout
  <1>4. amount \in [Ata -> Nat]
    BY DEF TypeOK
  <1>5. CanClose(final, vault) /\ CloseVault(TakeInits(taker, w, a, b), final, vault, w)
    BY DEF Take, CanTake, TakePaid, TakeSettled, TakePayout, SwapBalances
  <1>6. /\ final \in [Ata -> Nat]
        /\ receive <= amount[vault] /\ final[vault] = amount[vault] - receive
        /\ \A x \in Ata : x # payer /\ x # vault => final[x] >= amount[x]
        /\ payer # payee => final[payee] >= amount[payee] + receive
        /\ payer = payee => final[taker_ata_a] = amount[taker_ata_a] + receive
    <2> HIDE DEF p, payer, payee, vault, taker_ata_a, receive
    <2> QED BY <1>1, <1>2, <1>3, <1>4, SwapLaws
  <1> QED
    BY <1>2, <1>5, <1>6 DEF TakeEffect

LEMMA TakeTypeOK ==
    ASSUME TypeOK,
           NEW taker \in Wallets, NEW w \in Wallets, NEW seed \in Seeds,
           NEW a \in Mints, NEW b \in Mints, NEW signs \in BOOLEAN,
           Take(taker, w, seed, a, b, signs)
    PROVE  TypeOK'
  <1>1. <<w, seed>> \in Pda /\ Vault(<<w, seed>>, a) \in Ata
    BY Addresses DEF Pda
  <1>2. TakeInits(taker, w, a, b) \in SUBSET Ata
    BY Addresses DEF TakeInits, TypeOK
  <1>3. CloseEscrow(<<w, seed>>)
    BY DEF Take, CanTake, TakePaid, TakeSettled
  <1> DEFINE bal == SwapBalances(amount, <<taker, b>>, <<w, b>>, Vault(<<w, seed>>, a),
                                 <<taker, a>>, escrow[<<w, seed>>].receive)
  <1> TakeEffect(taker, w, seed, a, b)
    BY TakeBalances
  <1>4. bal \in [Ata -> Nat] /\ CloseVault(TakeInits(taker, w, a, b), bal, Vault(<<w, seed>>, a), w)
    BY DEF TakeEffect
  <1>5. atas' \subseteq Ata /\ amount' \in [Ata -> Nat] /\ sol' \in [Wallets -> Nat]
    BY <1>1, <1>2, <1>4 DEF TypeOK, CloseVault
  <1> QED
    BY <1>1, <1>3, <1>5, CloseEscrowType DEF TypeOK

(* The same for a refund: the vault's balance moves to the maker.          *)
LEMMA RefundBalances ==
    ASSUME TypeOK,
           NEW w \in Wallets, NEW seed \in Seeds, NEW a \in Mints,
           Refund(w, seed, a)
    PROVE  LET vault == Vault(<<w, seed>>, a)
               final == Transferred(amount, vault, <<w, a>>, amount[vault])
           IN  /\ final \in [Ata -> Nat]
               /\ final[vault] = 0
               /\ final[<<w, a>>] = amount[<<w, a>>] + amount[vault]
               /\ CanClose(final, vault) /\ CloseVault(atas, final, vault, w)
  <1> DEFINE vault == Vault(<<w, seed>>, a)
  <1>1. vault \in Ata /\ <<w, a>> \in Ata /\ vault # <<w, a>>
    BY Addresses DEF Pda
  <1>2. amount \in [Ata -> Nat] /\ amount[vault] \in Nat /\ amount[vault] <= amount[vault]
    BY <1>1 DEF TypeOK
  <1>3. /\ CanClose(Transferred(amount, vault, <<w, a>>, amount[vault]), vault)
        /\ CloseVault(atas, Transferred(amount, vault, <<w, a>>, amount[vault]), vault, w)
    BY DEF Refund, CanRefund, Refunded, RefundPayout
  <1>4. LET final == Transferred(amount, vault, <<w, a>>, amount[vault])
        IN  /\ final \in [Ata -> Nat]
            /\ final[vault] = 0
            /\ final[<<w, a>>] = amount[<<w, a>>] + amount[vault]
    <2> DEFINE maker_ata_a == <<w, a>>
    <2>1. vault # maker_ata_a /\ maker_ata_a \in Ata /\ amount[vault] - amount[vault] = 0
      BY <1>1, <1>2
    <2> HIDE DEF vault, maker_ata_a
    <2>2. LET final == Transferred(amount, vault, maker_ata_a, amount[vault])
          IN  /\ final \in [Ata -> Nat]
              /\ final[vault] = 0
              /\ final[maker_ata_a] = amount[maker_ata_a] + amount[vault]
      BY <1>1, <1>2, <2>1, TransferLaws
    <2> QED
      BY <2>2 DEF maker_ata_a
  <1> QED
    BY <1>3, <1>4

LEMMA RefundTypeOK ==
    ASSUME TypeOK,
           NEW w \in Wallets, NEW seed \in Seeds, NEW a \in Mints,
           Refund(w, seed, a)
    PROVE  TypeOK'
  <1>1. <<w, seed>> \in Pda /\ Vault(<<w, seed>>, a) \in Ata
    BY Addresses DEF Pda
  <1>2. CloseEscrow(<<w, seed>>) /\ atas \in SUBSET Ata
    BY DEF Refund, CanRefund, Refunded, TypeOK
  <1> DEFINE vault == Vault(<<w, seed>>, a)
             bal == Transferred(amount, vault, <<w, a>>, amount[vault])
  <1>3. bal \in [Ata -> Nat] /\ CloseVault(atas, bal, vault, w)
    BY RefundBalances
  <1>4. atas' \subseteq Ata /\ amount' \in [Ata -> Nat] /\ sol' \in [Wallets -> Nat]
    BY <1>1, <1>2, <1>3 DEF CloseVault, TypeOK
  <1> QED
    BY <1>1, <1>2, <1>4, CloseEscrowType DEF TypeOK

LEMMA EnvironmentTypeOK == TypeOK /\ Environment => TypeOK'
  <1> SUFFICES ASSUME TypeOK, Environment PROVE TypeOK'
    OBVIOUS
  <1>1. CASE \E acct \in Ata : OpenAta(acct)
    BY <1>1 DEF OpenAta, TypeOK
  <1>2. ASSUME NEW w \in Wallets, NEW mint \in Mints, CloseAta(w, mint)
        PROVE  TypeOK'
    <2>1. <<w, mint>> \in Ata /\ atas \in SUBSET Ata /\ amount \in [Ata -> Nat]
      BY Addresses DEF TypeOK
    <2>2. CloseVault(atas, amount, <<w, mint>>, w) /\ UNCHANGED <<escrow, deposited>>
      BY <1>2 DEF CloseAta
    <2>3. atas' \subseteq Ata /\ amount' \in [Ata -> Nat] /\ sol' \in [Wallets -> Nat]
      BY <2>1, <2>2, CloseVaultType
    <2> QED
      BY <2>2, <2>3 DEF TypeOK
  <1>3. ASSUME NEW w \in Wallets, NEW mint \in Mints, NEW to \in Owners, NEW n \in Amounts,
               Send(w, mint, to, n)
        PROVE  TypeOK'
    <2>1. <<w, mint>> \in Ata /\ <<to, mint>> \in Ata /\ amount \in [Ata -> Nat]
      BY Addresses DEF TypeOK, Ata
    <2>2. n \in Nat /\ n <= amount[<<w, mint>>]
      BY <1>3, AmountsAssumption DEF Send, CanTransfer
    <2>3. amount' \in [Ata -> Nat]
      BY <1>3, <2>1, <2>2, TransferLaws DEF Send
    <2> QED
      BY <1>3, <2>3 DEF TypeOK, Send
  <1> QED
    BY <1>1, <1>2, <1>3 DEF Environment

LEMMA NextTypeOK == TypeOK /\ [Next]_vars => TypeOK'
  <1> SUFFICES ASSUME TypeOK, [Next]_vars PROVE TypeOK'
    OBVIOUS
  <1>1. CASE Program
    BY <1>1, MakeTypeOK, TakeTypeOK, RefundTypeOK DEF Program
  <1>2. CASE Environment
    BY <1>2, EnvironmentTypeOK
  <1>3. CASE UNCHANGED vars
    BY <1>3 DEF vars, TypeOK
  <1> QED
    BY <1>1, <1>2, <1>3 DEF Next

(* Every reachable state is well typed: no sequence of transactions makes  *)
(* a balance negative or leaves an escrow address half written.            *)
THEOREM TypeCorrect == Spec => []TypeOK
  BY InitTypeOK, NextTypeOK, PTL DEF Spec

-----------------------------------------------------------------------------
(* Open offers                                                             *)

(* A step that leaves the offer at q open leaves its terms and its deposit *)
(* alone, and its vault in existence and no poorer.                        *)
Kept(q) ==
    (escrow[q] # NoEscrow /\ escrow'[q] # NoEscrow) =>
        LET vault == Vault(q, escrow[q].mint_a)
        IN  /\ escrow'[q] = escrow[q]
            /\ deposited'[q] = deposited[q]
            /\ vault \in atas => vault \in atas'
            /\ amount'[vault] >= amount[vault]

(* A step that opens an offer at q fills its vault with the deposit.       *)
Filled(q) ==
    (escrow[q] = NoEscrow /\ escrow'[q] # NoEscrow) =>
        LET vault == Vault(q, escrow'[q].mint_a)
        IN  vault \in atas' /\ amount'[vault] >= deposited'[q]

LEMMA OpenVault ==
    ASSUME TypeOK, NEW q \in Pda, escrow[q] # NoEscrow
    PROVE  /\ escrow[q] \in Escrow
           /\ Vault(q, escrow[q].mint_a) \in Ata
           /\ \A w \in Wallets, m \in Mints : Vault(q, escrow[q].mint_a) # <<w, m>>
           /\ \A p \in Pda, m \in Mints :
                  p # q => Vault(q, escrow[q].mint_a) # Vault(p, m)
  <1>1. escrow[q] \in Escrow
    BY DEF TypeOK
  <1>2. escrow[q].mint_a \in Mints
    BY <1>1 DEF Escrow
  <1> QED
    BY <1>1, <1>2, Addresses

LEMMA MakeKeeps ==
    ASSUME TypeOK, NEW q \in Pda,
           NEW w \in Wallets, NEW seed \in Seeds, NEW a \in Mints, NEW b \in Mints,
           NEW receive \in Amounts, NEW deposit \in Amounts,
           Make(w, seed, a, b, receive, deposit)
    PROVE  Kept(q) /\ Filled(q)
  <1> DEFINE p == <<w, seed>>
             vault == Vault(p, a)
             maker_ata_a == <<w, a>>
  <1>1. /\ p \in Pda /\ vault \in Ata /\ maker_ata_a \in Ata
        /\ vault # maker_ata_a
    BY Addresses DEF Pda
  <1>2. /\ amount \in [Ata -> Nat] /\ escrow \in [Pda -> Escrow \union {NoEscrow}]
        /\ deposited \in [Pda -> Nat]
    BY DEF TypeOK
  <1>3. deposit \in Nat /\ deposit <= amount[maker_ata_a]
    BY AmountsAssumption DEF Make, CanTransfer
  <1>4. /\ escrow[p] = NoEscrow
        /\ escrow' = [escrow EXCEPT ![p] = InitEscrow(w, seed, a, b, receive)]
        /\ deposited' = [deposited EXCEPT ![p] = deposit]
        /\ atas' = atas \union {vault}
        /\ amount' = Transferred(amount, maker_ata_a, vault, deposit)
    BY DEF Make, MakeInits, MakeTransfer
  <1>5. /\ amount'[vault] = amount[vault] + deposit
        /\ \A x \in Ata : x # maker_ata_a => amount'[x] >= amount[x]
    <2> HIDE DEF vault, maker_ata_a
    <2> QED BY <1>1, <1>2, <1>3, <1>4, TransferLaws
  <1>6. CASE q = p
    <2>1. escrow'[p].mint_a = a /\ deposited'[p] = deposit
      BY <1>1, <1>2, <1>4 DEF InitEscrow
    <2>2. vault \in atas' /\ amount[vault] \in Nat
      BY <1>1, <1>2, <1>4
    <2>3. amount'[vault] >= deposited'[p]
      BY <1>3, <1>5, <2>1, <2>2
    <2>4. Kept(p)
      BY <1>4 DEF Kept
    <2>5. Filled(p)
      BY <2>1, <2>2, <2>3 DEF Filled
    <2> QED
      BY <1>6, <2>4, <2>5
  <1>7. CASE q # p
    <2>1. escrow'[q] = escrow[q] /\ deposited'[q] = deposited[q]
      BY <1>2, <1>4, <1>7
    <2>2. ASSUME escrow[q] # NoEscrow
          PROVE  amount'[Vault(q, escrow[q].mint_a)] >= amount[Vault(q, escrow[q].mint_a)]
      BY <1>5, <2>2, OpenVault
    <2> QED
      BY <1>4, <2>1, <2>2 DEF Kept, Filled
  <1> QED
    BY <1>6, <1>7

(* Closing the offer at p keeps every other open offer, when the transfers *)
(* before the closure took from none of their vaults.                      *)
LEMMA ClosureKeeps ==
    ASSUME TypeOK, NEW q \in Pda, NEW p \in Pda, NEW a \in Mints, NEW w \in Wallets,
           NEW accts, NEW bal \in [Ata -> Nat], atas \subseteq accts,
           escrow[q] # NoEscrow /\ q # p
               => bal[Vault(q, escrow[q].mint_a)] >= amount[Vault(q, escrow[q].mint_a)],
           atas' = accts \ {Vault(p, a)},
           amount' = [bal EXCEPT ![Vault(p, a)] = 0],
           CloseEscrow(p)
    PROVE  Kept(q) /\ Filled(q)
  <1>1. /\ escrow \in [Pda -> Escrow \union {NoEscrow}] /\ deposited \in [Pda -> Nat]
        /\ escrow' = [escrow EXCEPT ![p] = NoEscrow]
        /\ deposited' = [deposited EXCEPT ![p] = 0]
    BY DEF TypeOK, CloseEscrow
  <1>2. CASE q = p
    BY <1>1, <1>2 DEF Kept, Filled
  <1>3. CASE q # p
    <2>1. escrow'[q] = escrow[q] /\ deposited'[q] = deposited[q]
      BY <1>1, <1>3
    <2>2. ASSUME escrow[q] # NoEscrow
          PROVE  LET vault == Vault(q, escrow[q].mint_a)
                 IN  /\ vault \in atas => vault \in atas'
                     /\ amount'[vault] >= amount[vault]
      <3>1. /\ Vault(q, escrow[q].mint_a) \in Ata
            /\ Vault(q, escrow[q].mint_a) # Vault(p, a)
        BY <1>3, <2>2, OpenVault
      <3> QED
        BY <1>3, <2>2, <3>1
    <2> QED
      BY <2>1, <2>2 DEF Kept, Filled
  <1> QED
    BY <1>2, <1>3

LEMMA TakeKeeps ==
    ASSUME TypeOK, NEW q \in Pda,
           NEW taker \in Wallets, NEW w \in Wallets, NEW seed \in Seeds,
           NEW a \in Mints, NEW b \in Mints, NEW signs \in BOOLEAN,
           Take(taker, w, seed, a, b, signs)
    PROVE  Kept(q) /\ Filled(q)
  <1> DEFINE p == <<w, seed>>
             payer == <<taker, b>>
             vault == Vault(p, a)
             bal == SwapBalances(amount, payer, <<w, b>>, vault, <<taker, a>>,
                                 escrow[p].receive)
  <1> TakeEffect(taker, w, seed, a, b)
    BY TakeBalances
  <1>1. p \in Pda /\ payer \in Ata
    BY Addresses DEF Pda
  <1>2. CloseEscrow(p)
    BY DEF Take, CanTake, TakePaid, TakeSettled
  <1>3. /\ bal \in [Ata -> Nat]
        /\ CloseVault(TakeInits(taker, w, a, b), bal, vault, w)
    BY DEF TakeEffect
  <1>5. \A x \in Ata : x # payer /\ x # vault => bal[x] >= amount[x]
    BY DEF TakeEffect
  <1>6. escrow[q] # NoEscrow /\ q # p
            => bal[Vault(q, escrow[q].mint_a)] >= amount[Vault(q, escrow[q].mint_a)]
    BY <1>1, <1>5, OpenVault
  <1>7. /\ atas \subseteq TakeInits(taker, w, a, b)
        /\ atas' = TakeInits(taker, w, a, b) \ {vault}
        /\ amount' = [bal EXCEPT ![vault] = 0]
    BY <1>3 DEF CloseVault, TakeInits
  <1> HIDE DEF p, bal
  <1> QED
    BY <1>1, <1>2, <1>3, <1>6, <1>7, ClosureKeeps

LEMMA RefundKeeps ==
    ASSUME TypeOK, NEW q \in Pda,
           NEW w \in Wallets, NEW seed \in Seeds, NEW a \in Mints,
           Refund(w, seed, a)
    PROVE  Kept(q) /\ Filled(q)
  <1> DEFINE p == <<w, seed>>
             vault == Vault(p, a)
             maker_ata_a == <<w, a>>
             bal == Transferred(amount, vault, maker_ata_a, amount[vault])
  <1>1. p \in Pda /\ vault \in Ata /\ maker_ata_a \in Ata
    BY Addresses DEF Pda
  <1>2. bal \in [Ata -> Nat] /\ CloseVault(atas, bal, vault, w)
    BY RefundBalances
  <1>3. CloseEscrow(p)
    BY DEF Refund, CanRefund, Refunded
  <1>4. amount \in [Ata -> Nat] /\ amount[vault] \in Nat /\ amount[vault] <= amount[vault]
    BY <1>1 DEF TypeOK
  <1>5. \A x \in Ata : x # vault => bal[x] >= amount[x]
    <2> HIDE DEF vault, maker_ata_a
    <2> QED BY <1>1, <1>4, TransferLaws
  <1>6. escrow[q] # NoEscrow /\ q # p
            => bal[Vault(q, escrow[q].mint_a)] >= amount[Vault(q, escrow[q].mint_a)]
    BY <1>1, <1>5, OpenVault
  <1>7. atas' = atas \ {vault} /\ amount' = [bal EXCEPT ![vault] = 0]
    BY <1>2 DEF CloseVault
  <1> HIDE DEF p, bal
  <1> QED
    BY <1>1, <1>2, <1>3, <1>6, <1>7, ClosureKeeps

LEMMA EnvironmentKeeps ==
    ASSUME TypeOK, NEW q \in Pda, Environment
    PROVE  Kept(q) /\ Filled(q)
  <1>1. CASE \E acct \in Ata : OpenAta(acct)
    <2>1. /\ escrow' = escrow /\ amount' = amount /\ deposited' = deposited
          /\ atas \subseteq atas'
      BY <1>1 DEF OpenAta
    <2>2. escrow[q] # NoEscrow => amount[Vault(q, escrow[q].mint_a)] \in Nat
      BY OpenVault DEF TypeOK
    <2>3. Kept(q)
      BY <2>1, <2>2 DEF Kept
    <2> QED
      BY <2>1, <2>3 DEF Filled
  <1>2. ASSUME NEW w \in Wallets, NEW mint \in Mints, CloseAta(w, mint)
        PROVE  Kept(q) /\ Filled(q)
    <2>1. /\ UNCHANGED <<escrow, deposited>>
          /\ atas' = atas \ {<<w, mint>>} /\ amount' = [amount EXCEPT ![<<w, mint>>] = 0]
      BY <1>2 DEF CloseAta, CloseVault
    <2>2. escrow[q] # NoEscrow =>
              LET vault == Vault(q, escrow[q].mint_a)
              IN  /\ vault \in atas => vault \in atas'
                  /\ amount'[vault] = amount[vault] /\ amount[vault] \in Nat
      BY <2>1, OpenVault DEF TypeOK
    <2> QED
      BY <2>1, <2>2 DEF Kept, Filled
  <1>3. ASSUME NEW w \in Wallets, NEW mint \in Mints, NEW to \in Owners, NEW n \in Amounts,
               Send(w, mint, to, n)
        PROVE  Kept(q) /\ Filled(q)
    <2> DEFINE from == <<w, mint>>
               dest == <<to, mint>>
    <2>1. from \in Ata /\ dest \in Ata /\ amount \in [Ata -> Nat]
      BY Addresses DEF TypeOK, Ata
    <2>2. /\ UNCHANGED <<escrow, atas, deposited>>
          /\ amount' = Transferred(amount, from, dest, n)
          /\ n \in Nat /\ n <= amount[from]
      BY <1>3, AmountsAssumption DEF Send, CanTransfer
    <2>3. \A x \in Ata : x # from => amount'[x] >= amount[x]
      <3> HIDE DEF from, dest
      <3> QED BY <2>1, <2>2, TransferLaws
    <2>4. escrow[q] # NoEscrow =>
              amount'[Vault(q, escrow[q].mint_a)] >= amount[Vault(q, escrow[q].mint_a)]
      BY <2>3, OpenVault
    <2> QED
      BY <2>2, <2>4 DEF Kept, Filled
  <1> QED
    BY <1>1, <1>2, <1>3 DEF Environment

LEMMA NextKeeps ==
    ASSUME TypeOK, [Next]_vars, NEW q \in Pda
    PROVE  Kept(q) /\ Filled(q)
  <1>1. CASE Program
    BY <1>1, MakeKeeps, TakeKeeps, RefundKeeps DEF Program
  <1>2. CASE Environment
    BY <1>2, EnvironmentKeeps
  <1>3. CASE UNCHANGED vars
    <2>1. escrow[q] # NoEscrow => amount[Vault(q, escrow[q].mint_a)] \in Nat
      BY OpenVault DEF TypeOK
    <2> QED
      BY <1>3, <2>1 DEF vars, Kept, Filled
  <1> QED
    BY <1>1, <1>2, <1>3 DEF Next

LEMMA NextVaultBacked == TypeOK /\ TypeOK' /\ VaultBacked /\ [Next]_vars => VaultBacked'
  <1> SUFFICES ASSUME TypeOK, TypeOK', VaultBacked, [Next]_vars,
                      NEW q \in Pda, escrow'[q] # NoEscrow
               PROVE  /\ Vault(q, escrow'[q].mint_a) \in atas'
                      /\ amount'[Vault(q, escrow'[q].mint_a)] >= deposited'[q]
    BY DEF VaultBacked, Vault
  <1>1. Kept(q) /\ Filled(q)
    BY NextKeeps
  <1>2. CASE escrow[q] = NoEscrow
    BY <1>1, <1>2 DEF Filled
  <1>3. CASE escrow[q] # NoEscrow
    <2> DEFINE vault == Vault(q, escrow[q].mint_a)
    <2>1. vault \in atas /\ amount[vault] >= deposited[q]
      BY <1>3 DEF VaultBacked
    <2>2. /\ escrow'[q] = escrow[q] /\ deposited'[q] = deposited[q]
          /\ vault \in atas' /\ amount'[vault] >= amount[vault]
      BY <1>1, <1>3, <2>1 DEF Kept
    <2>3. amount[vault] \in Nat /\ amount'[vault] \in Nat /\ deposited[q] \in Nat
      BY <1>3, OpenVault DEF TypeOK
    <2> HIDE DEF vault
    <2>4. amount'[vault] >= deposited[q]
      BY <2>1, <2>2, <2>3
    <2> QED
      BY <2>2, <2>4 DEF vault
  <1> QED
    BY <1>2, <1>3

(* The vault of every open offer exists and covers the maker's deposit,    *)
(* whatever instructions, gifts and closures came in between.              *)
THEOREM VaultsAreBacked == Spec => []VaultBacked
  <1>1. Init => VaultBacked
    BY DEF Init, VaultBacked
  <1> QED
    BY <1>1, InitTypeOK, NextTypeOK, NextVaultBacked, PTL DEF Spec

(* An open offer keeps its terms and its vault never shrinks.              *)
THEOREM OffersAreStable == Spec => OpenOfferStable
  <1>1. TypeOK /\ [Next]_vars =>
            [\A p \in Pda :
                (escrow[p] # NoEscrow /\ escrow'[p] # NoEscrow) =>
                    /\ escrow'[p] = escrow[p]
                    /\ amount'[Vault(p, escrow[p].mint_a)] >= amount[Vault(p, escrow[p].mint_a)]
            ]_vars
    BY NextKeeps DEF Kept
  <1> QED
    BY <1>1, TypeCorrect, PTL DEF Spec, OpenOfferStable

-----------------------------------------------------------------------------
(* Closed offers                                                           *)

(* A step that closes the offer at q pays its maker.                       *)
MadeWhole(q) ==
    (escrow[q] # NoEscrow /\ escrow'[q] = NoEscrow) =>
        LET e == escrow[q]
            gain(mint) == Holdings(amount', sol', q[1], mint)
            had(mint) == Holdings(amount, sol, q[1], mint)
        IN  \/ gain(e.mint_b) >= had(e.mint_b) + e.receive
            \/ gain(e.mint_a) >= had(e.mint_a) + amount[Vault(q, e.mint_a)]

(* A taker other than the maker pays the price to the maker.               *)
LEMMA TakePaysMaker ==
    ASSUME TypeOK,
           NEW taker \in Wallets, NEW w \in Wallets, NEW seed \in Seeds,
           NEW a \in Mints, NEW b \in Mints, NEW signs \in BOOLEAN,
           Take(taker, w, seed, a, b, signs), taker # w
    PROVE  Holdings(amount', sol', w, b)
               >= Holdings(amount, sol, w, b) + escrow[<<w, seed>>].receive
  <1> DEFINE p == <<w, seed>>
             payee == <<w, b>>
             vault == Vault(p, a)
             receive == escrow[p].receive
             bal == SwapBalances(amount, <<taker, b>>, payee, vault, <<taker, a>>, receive)
  <1> TakeEffect(taker, w, seed, a, b)
    BY TakeBalances
  <1>1. vault \in Ata /\ payee \in Ata /\ vault # payee
    BY Addresses DEF Pda
  <1>2. amount \in [Ata -> Nat] /\ sol \in [Wallets -> Nat]
    BY DEF TypeOK
  <1>3. /\ receive \in Nat /\ bal \in [Ata -> Nat]
        /\ bal[payee] >= amount[payee] + receive
    BY DEF TakeEffect
  <1>4. amount' = [bal EXCEPT ![vault] = 0] /\ sol' = [sol EXCEPT ![w] = @ + bal[vault]]
    BY DEF TakeEffect, CloseVault
  <1> HIDE DEF p, payee, vault, receive, bal
  <1>5. /\ amount'[payee] >= amount[payee] + receive /\ sol'[w] >= sol[w]
        /\ amount[payee] \in Nat /\ amount'[payee] \in Nat
        /\ sol[w] \in Nat /\ sol'[w] \in Nat
    BY <1>1, <1>2, <1>3, <1>4
  <1>6. Holdings(amount', sol', w, b) >= Holdings(amount, sol, w, b) + receive
    BY <1>3, <1>5 DEF Holdings, payee
  <1> QED
    BY <1>6 DEF receive, p

(* A maker who takes its own offer gets all of the vault, the part that is *)
(* not paid out as tokens coming back as unwrapped SOL.                    *)
LEMMA OwnTakeEmptiesVault ==
    ASSUME TypeOK,
           NEW w \in Wallets, NEW seed \in Seeds,
           NEW a \in Mints, NEW b \in Mints, NEW signs \in BOOLEAN,
           Take(w, w, seed, a, b, signs)
    PROVE  Holdings(amount', sol', w, a)
               >= Holdings(amount, sol, w, a) + amount[Vault(<<w, seed>>, a)]
  <1> DEFINE p == <<w, seed>>
             vault == Vault(p, a)
             taker_ata_a == <<w, a>>
             receive == escrow[p].receive
             bal == SwapBalances(amount, <<w, b>>, <<w, b>>, vault, taker_ata_a, receive)
  <1> TakeEffect(w, w, seed, a, b)
    BY TakeBalances
  <1>1. vault \in Ata /\ taker_ata_a \in Ata /\ vault # taker_ata_a
    BY Addresses DEF Pda
  <1>2. amount \in [Ata -> Nat] /\ sol \in [Wallets -> Nat]
    BY DEF TypeOK
  <1>3. /\ receive \in Nat /\ bal \in [Ata -> Nat]
        /\ receive <= amount[vault] /\ bal[vault] = amount[vault] - receive
        /\ bal[taker_ata_a] = amount[taker_ata_a] + receive
    BY DEF TakeEffect
  <1>4. /\ amount' = [bal EXCEPT ![vault] = 0] /\ sol' = [sol EXCEPT ![w] = @ + bal[vault]]
        /\ a \in NativeMints \/ bal[vault] = 0
    BY DEF TakeEffect, CloseVault, CanClose, Vault
  <1> HIDE DEF p, vault, taker_ata_a, receive, bal
  <1>5. /\ amount'[taker_ata_a] = amount[taker_ata_a] + receive
        /\ sol'[w] = sol[w] + bal[vault]
        /\ amount[taker_ata_a] \in Nat /\ amount[vault] \in Nat
        /\ sol[w] \in Nat /\ bal[vault] \in Nat
    BY <1>1, <1>2, <1>3, <1>4
  <1>6. Holdings(amount', sol', w, a) >= Holdings(amount, sol, w, a) + amount[vault]
    BY <1>3, <1>4, <1>5 DEF Holdings, taker_ata_a
  <1> QED
    BY <1>6 DEF vault, p

LEMMA RefundPaysMaker ==
    ASSUME TypeOK,
           NEW w \in Wallets, NEW seed \in Seeds, NEW a \in Mints,
           Refund(w, seed, a)
    PROVE  Holdings(amount', sol', w, a)
               >= Holdings(amount, sol, w, a) + amount[Vault(<<w, seed>>, a)]
  <1> DEFINE vault == Vault(<<w, seed>>, a)
             maker_ata_a == <<w, a>>
             bal == Transferred(amount, vault, maker_ata_a, amount[vault])
  <1>1. vault \in Ata /\ maker_ata_a \in Ata /\ vault # maker_ata_a
    BY Addresses DEF Pda
  <1>2. /\ bal \in [Ata -> Nat] /\ bal[vault] = 0
        /\ bal[maker_ata_a] = amount[maker_ata_a] + amount[vault]
        /\ CloseVault(atas, bal, vault, w)
    BY RefundBalances
  <1>3. amount' = [bal EXCEPT ![vault] = 0] /\ sol' = [sol EXCEPT ![w] = @ + bal[vault]]
    BY <1>2 DEF CloseVault
  <1>4. amount \in [Ata -> Nat] /\ sol \in [Wallets -> Nat]
    BY DEF TypeOK
  <1> HIDE DEF bal, vault
  <1>5. amount'[maker_ata_a] = amount[maker_ata_a] + amount[vault] /\ sol'[w] = sol[w]
    BY <1>1, <1>2, <1>3, <1>4
  <1>6. amount[maker_ata_a] \in Nat /\ amount[vault] \in Nat /\ sol[w] \in Nat
    BY <1>1, <1>4
  <1>7. Holdings(amount', sol', w, a) >= Holdings(amount, sol, w, a) + amount[vault]
    BY <1>5, <1>6 DEF Holdings
  <1> QED
    BY <1>7 DEF vault

LEMMA CloseEscrowOnly ==
    ASSUME TypeOK, NEW p \in Pda, NEW q \in Pda, CloseEscrow(p),
           escrow[q] # NoEscrow, escrow'[q] = NoEscrow
    PROVE  q = p
  BY DEF TypeOK, CloseEscrow

LEMMA NextMadeWhole ==
    ASSUME TypeOK, [Next]_vars, NEW q \in Pda
    PROVE  MadeWhole(q)
  <1> SUFFICES ASSUME escrow[q] # NoEscrow, escrow'[q] = NoEscrow
               PROVE  MadeWhole(q)
    BY DEF MadeWhole
  <1>1. ASSUME NEW w \in Wallets, NEW seed \in Seeds, NEW a \in Mints, Refund(w, seed, a)
        PROVE  MadeWhole(q)
    <2>1. <<w, seed>> \in Pda /\ CloseEscrow(<<w, seed>>) /\ escrow[<<w, seed>>].mint_a = a
      BY <1>1 DEF Refund, CanRefund, Refunded, Pda
    <2>2. q = <<w, seed>>
      BY <2>1, CloseEscrowOnly
    <2>3. Holdings(amount', sol', w, a)
              >= Holdings(amount, sol, w, a) + amount[Vault(<<w, seed>>, a)]
      BY <1>1, RefundPaysMaker
    <2> QED
      BY <2>1, <2>2, <2>3 DEF MadeWhole
  <1>2. ASSUME NEW taker \in Wallets, NEW w \in Wallets, NEW seed \in Seeds,
               NEW a \in Mints, NEW b \in Mints, NEW signs \in BOOLEAN,
               Take(taker, w, seed, a, b, signs)
        PROVE  MadeWhole(q)
    <2>1. /\ <<w, seed>> \in Pda /\ CloseEscrow(<<w, seed>>)
          /\ escrow[<<w, seed>>].mint_a = a /\ escrow[<<w, seed>>].mint_b = b
      BY <1>2 DEF Take, CanTake, TakePaid, TakeSettled, TakeHasOne, Pda
    <2>2. q = <<w, seed>>
      BY <2>1, CloseEscrowOnly
    <2>3. CASE taker # w
      BY <1>2, <2>1, <2>2, <2>3, TakePaysMaker DEF MadeWhole
    <2>4. CASE taker = w
      BY <1>2, <2>1, <2>2, <2>4, OwnTakeEmptiesVault DEF MadeWhole
    <2> QED
      BY <2>3, <2>4
  <1>3. ASSUME NEW w \in Wallets, NEW seed \in Seeds, NEW a \in Mints, NEW b \in Mints,
               NEW receive \in Amounts, NEW deposit \in Amounts,
               Make(w, seed, a, b, receive, deposit)
        PROVE  FALSE
    <2>1. <<w, seed>> \in Pda
          /\ escrow' = [escrow EXCEPT ![<<w, seed>>] = InitEscrow(w, seed, a, b, receive)]
      BY <1>3 DEF Make, Pda
    <2>2. InitEscrow(w, seed, a, b, receive) # NoEscrow
      BY NoEscrowAssumption DEF InitEscrow, Escrow
    <2> QED
      BY <2>1, <2>2 DEF TypeOK
  <1>4. CASE Environment
    BY <1>4 DEF Environment, OpenAta, CloseAta, Send
  <1>5. CASE UNCHANGED vars
    BY <1>5 DEF vars
  <1> QED
    BY <1>1, <1>2, <1>3, <1>4, <1>5 DEF Next, Program

(* No escrow closes at its maker's loss: the step that closes it pays the  *)
(* price or returns everything the vault holds, for every taker (the maker *)
(* included) and every pair of mints (equal ones and wrapped SOL included).*)
THEOREM MakersAreMadeWhole == Spec => MakerMadeWhole
  <1>1. TypeOK /\ [Next]_vars =>
            [\A p \in Pda :
                (escrow[p] # NoEscrow /\ escrow'[p] = NoEscrow) =>
                    LET e == escrow[p]
                        gain(mint) == Holdings(amount', sol', p[1], mint)
                        had(mint) == Holdings(amount, sol, p[1], mint)
                    IN  \/ gain(e.mint_b) >= had(e.mint_b) + e.receive
                        \/ gain(e.mint_a) >= had(e.mint_a) + amount[Vault(p, e.mint_a)]
            ]_vars
    BY NextMadeWhole DEF MadeWhole
  <1> QED
    BY <1>1, TypeCorrect, PTL DEF Spec, MakerMadeWhole

-----------------------------------------------------------------------------
(* Tokens                                                                  *)

(* What TokensConserved says of the balances bal and the lamports credit.  *)
TotalIn(bal, S) == SumFunctionOnSet(bal, Owners \X S)

Balanced(bal, credit) ==
    /\ \A mint \in Mints \ NativeMints : TotalIn(bal, {mint}) = HeldAtStart({mint})
    /\ TotalIn(bal, NativeMints) + SumFunctionOnSet(credit, Wallets)
           = HeldAtStart(NativeMints)

LEMMA FiniteAccounts ==
    /\ IsFiniteSet(Wallets) /\ IsFiniteSet(Pda) /\ IsFiniteSet(Owners)
    /\ \A S \in SUBSET Mints :
          /\ Owners \X S \subseteq Ata /\ IsFiniteSet(Owners \X S)
          /\ Wallets \X S \subseteq Owners \X S /\ IsFiniteSet(Wallets \X S)
<1>1. IsFiniteSet(Wallets) /\ IsFiniteSet(Seeds) /\ IsFiniteSet(Mints)
  BY FinitenessAssumption
<1>2. IsFiniteSet(Pda)
  BY <1>1, FS_Product DEF Pda
<1>3. IsFiniteSet(Owners)
  BY <1>1, <1>2, FS_Union DEF Owners
<1>4. ASSUME NEW S \in SUBSET Mints
      PROVE  /\ Owners \X S \subseteq Ata /\ IsFiniteSet(Owners \X S)
             /\ Wallets \X S \subseteq Owners \X S /\ IsFiniteSet(Wallets \X S)
  <2>1. IsFiniteSet(S)
    BY <1>1, FS_Subset
  <2>2. IsFiniteSet(Owners \X S) /\ IsFiniteSet(Wallets \X S)
    BY <1>1, <1>3, <2>1, FS_Product
  <2>3. Owners \X S \subseteq Ata /\ Wallets \X S \subseteq Owners \X S
    BY DEF Ata, Owners
  <2> QED
    BY <2>2, <2>3
<1> QED
  BY <1>1, <1>2, <1>3, <1>4

(* A transfer between accounts that are both counted or both not leaves    *)
(* the total as it was.                                                    *)
LEMMA TransferTotal ==
    ASSUME NEW T \in SUBSET Ata, IsFiniteSet(T),
           NEW bal \in [Ata -> Nat], NEW from \in Ata, NEW to \in Ata, from \in T <=> to \in T,
           NEW n \in Nat, n <= bal[from]
    PROVE  SumFunctionOnSet(Transferred(bal, from, to, n), T) = SumFunctionOnSet(bal, T)
<1> DEFINE after == Transferred(bal, from, to, n)
<1>1. /\ after \in [Ata -> Nat]
      /\ from # to => after[to] = bal[to] + n /\ after[from] = bal[from] - n
      /\ from = to => after[to] = bal[to]
      /\ \A x \in Ata : x # from /\ x # to => after[x] = bal[x]
  BY TransferLaws
<1> HIDE DEF after
<1>2. CASE from \notin T \/ from = to
  <2>1. \A x \in T : after[x] = bal[x]
    BY <1>1, <1>2
  <2> QED
    BY <2>1, SumEqual DEF after
<1>3. CASE from \in T /\ from # to
  <2>1. Integral(bal, T) /\ Integral(after, T)
    BY <1>1 DEF Integral
  <2>2. SumFunctionOnSet(after, T) =
            SumFunctionOnSet(bal, T) - bal[from] + after[from] - bal[to] + after[to]
    BY <1>1, <1>3, <2>1, SumChangeTwo
  <2>3. SumFunctionOnSet(bal, T) \in Int
    BY <2>1, SumType
  <2>4. SumFunctionOnSet(after, T) = SumFunctionOnSet(bal, T)
    BY <1>1, <1>3, <2>2, <2>3
  <2> QED
    BY <2>4 DEF after
<1> QED
  BY <1>2, <1>3

(* Tokens only move between accounts of one mint.                          *)
LEMMA TransferBalanced ==
    ASSUME NEW bal \in [Ata -> Nat], NEW credit, Balanced(bal, credit),
           NEW x \in Owners, NEW y \in Owners, NEW mint \in Mints,
           NEW n \in Nat, n <= bal[<<x, mint>>]
    PROVE  Balanced(Transferred(bal, <<x, mint>>, <<y, mint>>, n), credit)
<1> DEFINE from == <<x, mint>>
           to == <<y, mint>>
           after == Transferred(bal, from, to, n)
<1>1. from \in Ata /\ to \in Ata
  BY DEF Ata
<1>2. ASSUME NEW S \in SUBSET Mints
      PROVE  TotalIn(after, S) = TotalIn(bal, S)
  <2> DEFINE T == Owners \X S
  <2>1. from \in T <=> to \in T
    OBVIOUS
  <2>2. T \in SUBSET Ata /\ IsFiniteSet(T)
    BY FiniteAccounts
  <2> HIDE DEF T, from, to
  <2>3. SumFunctionOnSet(after, T) = SumFunctionOnSet(bal, T)
    BY <1>1, <2>1, <2>2, TransferTotal DEF from
  <2> QED
    BY <2>3 DEF TotalIn, T
<1> HIDE DEF after
<1>3. NativeMints \in SUBSET Mints /\ \A m \in Mints : {m} \in SUBSET Mints
  BY MintsAssumption
<1>4. Balanced(after, credit)
  BY <1>2, <1>3 DEF Balanced
<1> QED
  BY <1>4 DEF after

(* Closing an account burns nothing: what it still holds is wrapped SOL    *)
(* and reaches the wallet as lamports.                                     *)
LEMMA CloseBalanced ==
    ASSUME NEW bal \in [Ata -> Nat], sol \in [Wallets -> Nat], Balanced(bal, sol),
           NEW accts, NEW acct \in Ata, NEW w \in Wallets,
           CanClose(bal, acct), CloseVault(accts, bal, acct, w)
    PROVE  Balanced(amount', sol')
<1> DEFINE n == bal[acct]
           m == 0 - n
<1>1. /\ amount' = [bal EXCEPT ![acct] = 0] /\ sol' = [sol EXCEPT ![w] = @ + n]
      /\ acct[2] \in NativeMints \/ n = 0
      /\ n \in Nat /\ m \in Int /\ n + m = 0
  BY DEF CloseVault, CanClose
<1>2. SumFunctionOnSet(sol', Wallets) = SumFunctionOnSet(sol, Wallets) + n
  <2>1. Credited(sol, sol', Wallets, w, n)
    BY <1>1 DEF Credited
  <2> HIDE DEF n
  <2> QED
    BY <1>1, <2>1, SumCredit, FiniteAccounts
<1>3. ASSUME NEW S \in SUBSET Mints, acct \in Owners \X S
      PROVE  TotalIn(amount', S) = TotalIn(bal, S) + m
  <2> DEFINE T == Owners \X S
  <2>1. T \subseteq Ata /\ IsFiniteSet(T)
    BY FiniteAccounts
  <2>2. Shifted(bal, amount', T, acct, m) /\ m \in Int
    BY <1>1, <2>1 DEF Shifted, Integral
  <2>3. acct \in T
    BY <1>3
  <2> HIDE DEF m, T
  <2>4. SumFunctionOnSet(amount', T) = SumFunctionOnSet(bal, T) + m
    BY <2>1, <2>2, <2>3, SumShift
  <2> QED
    BY <2>4 DEF TotalIn, T
<1>4. ASSUME NEW S \in SUBSET Mints, acct \notin Owners \X S \/ n = 0
      PROVE  TotalIn(amount', S) = TotalIn(bal, S)
  <2> DEFINE T == Owners \X S
  <2>1. T \subseteq Ata /\ IsFiniteSet(T)
    BY FiniteAccounts
  <2>2. \A x \in T : amount'[x] = bal[x]
    BY <1>1, <1>4, <2>1
  <2> HIDE DEF T
  <2>3. SumFunctionOnSet(amount', T) = SumFunctionOnSet(bal, T)
    BY <2>1, <2>2, SumEqual
  <2> QED
    BY <2>3 DEF TotalIn, T
<1>5. ASSUME NEW mint \in Mints \ NativeMints
      PROVE  TotalIn(amount', {mint}) = TotalIn(bal, {mint})
  <2>1. {mint} \in SUBSET Mints
    OBVIOUS
  <2>2. acct \in Owners \X {mint} => n = 0
    BY <1>1
  <2> QED
    BY <1>4, <2>1, <2>2
<1>6. TotalIn(bal, NativeMints) \in Int /\ SumFunctionOnSet(sol, Wallets) \in Int
  <2>1. Owners \X NativeMints \subseteq Ata /\ IsFiniteSet(Owners \X NativeMints)
    BY MintsAssumption, FiniteAccounts
  <2>2. Integral(bal, Owners \X NativeMints)
    BY <2>1 DEF Integral
  <2> QED
    BY <2>1, <2>2, SumType, SumOfNaturals, FiniteAccounts DEF TotalIn
<1>7. TotalIn(amount', NativeMints) + SumFunctionOnSet(sol', Wallets)
          = TotalIn(bal, NativeMints) + SumFunctionOnSet(sol, Wallets)
  <2>1. CASE acct[2] \in NativeMints
    <3>1. acct \in Owners \X NativeMints
      BY <2>1 DEF Ata
    <3>2. TotalIn(amount', NativeMints) = TotalIn(bal, NativeMints) + m
      BY <1>3, <3>1, MintsAssumption
    <3> HIDE DEF n, m
    <3> QED
      BY <1>1, <1>2, <1>6, <3>2
  <2>2. CASE n = 0
    <3>1. TotalIn(amount', NativeMints) = TotalIn(bal, NativeMints)
      BY <1>4, <2>2, MintsAssumption
    <3> HIDE DEF n, m
    <3> QED
      BY <1>2, <1>6, <2>2, <3>1
  <2> QED
    BY <1>1, <2>1, <2>2
<1> QED
  BY <1>5, <1>7 DEF Balanced

LEMMA MakeBalanced ==
    ASSUME TypeOK, Balanced(amount, sol),
           NEW w \in Wallets, NEW seed \in Seeds, NEW a \in Mints, NEW b \in Mints,
           NEW receive \in Amounts, NEW deposit \in Amounts,
           Make(w, seed, a, b, receive, deposit)
    PROVE  Balanced(amount', sol')
<1> DEFINE p == <<w, seed>>
<1>1. p \in Owners /\ w \in Owners
  BY DEF Owners, Pda
<1>2. /\ deposit \in Nat /\ deposit <= amount[<<w, a>>]
      /\ amount' = Transferred(amount, <<w, a>>, <<p, a>>, deposit) /\ sol' = sol
  BY AmountsAssumption DEF Make, MakeTransfer, CanTransfer, Vault
<1>3. amount \in [Ata -> Nat]
  BY DEF TypeOK
<1> HIDE DEF p
<1> QED
  BY <1>1, <1>2, <1>3, TransferBalanced

LEMMA TakeBalanced ==
    ASSUME TypeOK, Balanced(amount, sol),
           NEW taker \in Wallets, NEW w \in Wallets, NEW seed \in Seeds,
           NEW a \in Mints, NEW b \in Mints, NEW signs \in BOOLEAN,
           Take(taker, w, seed, a, b, signs)
    PROVE  Balanced(amount', sol')
<1> DEFINE p == <<w, seed>>
           receive == escrow[p].receive
           paid == Transferred(amount, <<taker, b>>, <<w, b>>, receive)
           final == Transferred(paid, <<p, a>>, <<taker, a>>, receive)
<1>1. p \in Pda /\ p \in Owners /\ w \in Owners /\ taker \in Owners
  BY DEF Owners, Pda
<1>2. receive \in Nat
  BY <1>1, AmountsAssumption DEF TypeOK, Take, CanTake, TakePaid, TakeSettled, Escrow
<1>3. receive <= amount[<<taker, b>>] /\ receive <= paid[<<p, a>>]
  BY DEF Take, CanTake, TakePaid, TakeSettled, CanTransfer, TakePayout, Vault
<1>4. amount \in [Ata -> Nat] /\ sol \in [Wallets -> Nat]
  BY DEF TypeOK
<1>5. /\ CanClose(final, <<p, a>>)
      /\ CloseVault(TakeInits(taker, w, a, b), final, <<p, a>>, w)
  BY DEF Take, CanTake, TakePaid, TakeSettled, TakePayout, Vault
<1>6. <<p, a>> \in Ata /\ <<taker, a>> \in Ata /\ <<taker, b>> \in Ata /\ <<w, b>> \in Ata
  BY <1>1 DEF Ata
<1> HIDE DEF receive, p
<1>7. paid \in [Ata -> Nat] /\ Balanced(paid, sol)
  BY <1>1, <1>2, <1>3, <1>4, <1>6, TransferLaws, TransferBalanced
<1> HIDE DEF paid
<1>8. final \in [Ata -> Nat] /\ Balanced(final, sol)
  BY <1>1, <1>2, <1>3, <1>6, <1>7, TransferLaws, TransferBalanced
<1> HIDE DEF final
<1> QED
  BY <1>4, <1>5, <1>6, <1>8, CloseBalanced

LEMMA RefundBalanced ==
    ASSUME TypeOK, Balanced(amount, sol),
           NEW w \in Wallets, NEW seed \in Seeds, NEW a \in Mints, Refund(w, seed, a)
    PROVE  Balanced(amount', sol')
<1> DEFINE p == <<w, seed>>
           n == amount[<<p, a>>]
           final == Transferred(amount, <<p, a>>, <<w, a>>, n)
<1>1. p \in Owners /\ w \in Owners /\ <<p, a>> \in Ata
  BY DEF Owners, Pda, Ata
<1>2. amount \in [Ata -> Nat] /\ sol \in [Wallets -> Nat]
  BY DEF TypeOK
<1>3. n \in Nat /\ n <= n
  BY <1>1, <1>2
<1>4. /\ final \in [Ata -> Nat] /\ CanClose(final, <<p, a>>)
      /\ CloseVault(atas, final, <<p, a>>, w)
  BY RefundBalances DEF Vault
<1> HIDE DEF p
<1>5. Balanced(final, sol)
  <2> HIDE DEF n
  <2>1. n <= amount[<<p, a>>]
    BY <1>3 DEF n
  <2> QED
    BY <1>1, <1>2, <1>3, <2>1, TransferBalanced
<1> HIDE DEF final
<1> QED
  BY <1>1, <1>2, <1>4, <1>5, CloseBalanced

LEMMA EnvironmentBalanced ==
    ASSUME TypeOK, Balanced(amount, sol), Environment
    PROVE  Balanced(amount', sol')
<1>0. amount \in [Ata -> Nat] /\ sol \in [Wallets -> Nat]
  BY DEF TypeOK
<1>1. CASE \E acct \in Ata : OpenAta(acct)
  BY <1>1 DEF OpenAta
<1>2. ASSUME NEW w \in Wallets, NEW mint \in Mints, CloseAta(w, mint)
      PROVE  Balanced(amount', sol')
  <2>1. /\ <<w, mint>> \in Ata /\ CanClose(amount, <<w, mint>>)
        /\ CloseVault(atas, amount, <<w, mint>>, w)
    BY <1>2, Addresses DEF CloseAta
  <2> QED
    BY <1>0, <2>1, CloseBalanced
<1>3. ASSUME NEW w \in Wallets, NEW mint \in Mints, NEW to \in Owners, NEW n \in Amounts,
             Send(w, mint, to, n)
      PROVE  Balanced(amount', sol')
  <2>1. /\ w \in Owners /\ n \in Nat /\ n <= amount[<<w, mint>>]
        /\ amount' = Transferred(amount, <<w, mint>>, <<to, mint>>, n) /\ sol' = sol
    BY <1>3, AmountsAssumption DEF Send, CanTransfer, Owners
  <2> QED
    BY <1>0, <2>1, TransferBalanced
<1> QED
  BY <1>1, <1>2, <1>3 DEF Environment

LEMMA InitBalanced == Init => Balanced(amount, sol)
<1> SUFFICES ASSUME Init PROVE Balanced(amount, sol)
  OBVIOUS
<1>1. ASSUME NEW S \in SUBSET Mints
      PROVE  TotalIn(amount, S) = HeldAtStart(S) /\ HeldAtStart(S) \in Int
  <2> DEFINE T == Owners \X S
             W == Wallets \X S
  <2>1. T \subseteq Ata /\ W \subseteq T /\ IsFiniteSet(T) /\ IsFiniteSet(W)
        /\ W \subseteq Wallets \X Mints
    BY FiniteAccounts
  <2>2. \A x \in W : amount[x] = Wealth[x] /\ Wealth[x] \in Nat
    BY <2>1, WealthAssumption DEF Init
  <2>3. \A x \in T \ W : amount[x] = 0
    BY <2>1 DEF Init
  <2>4. Integral(amount, W) /\ Integral(Wealth, W)
    BY <2>2 DEF Integral
  <2> HIDE DEF T, W
  <2>5. SumFunctionOnSet(amount, T) = SumFunctionOnSet(amount, W)
    BY <2>1, <2>3, <2>4, SumZeros
  <2>6. SumFunctionOnSet(amount, W) = SumFunctionOnSet(Wealth, W)
    BY <2>1, <2>2, SumEqual
  <2>7. SumFunctionOnSet(Wealth, W) \in Int
    BY <2>1, <2>4, SumType
  <2> QED
    BY <2>5, <2>6, <2>7 DEF TotalIn, HeldAtStart, T, W
<1>2. SumFunctionOnSet(sol, Wallets) = 0
  <2>1. \A w \in Wallets \ {} : sol[w] = 0
    BY DEF Init
  <2>2. SumFunctionOnSet(sol, Wallets) = SumFunctionOnSet(sol, {})
    BY <2>1, SumZeros, FiniteAccounts DEF Integral
  <2> QED
    BY <2>2, SumEmpty
<1>3. NativeMints \in SUBSET Mints /\ \A m \in Mints : {m} \in SUBSET Mints
  BY MintsAssumption
<1> QED
  BY <1>1, <1>2, <1>3 DEF Balanced

(* No sequence of transactions mints or burns a token, for any number of   *)
(* mints of wrapped SOL, for a maker who takes its own offer and for an    *)
(* offer of a mint against itself (take.rs:78-119, refund.rs:50-77).       *)
THEOREM TokensAreConserved == Spec => []TokensConserved
<1>1. TypeOK /\ Balanced(amount, sol) /\ [Next]_vars => Balanced(amount, sol)'
  <2> SUFFICES ASSUME TypeOK, Balanced(amount, sol), [Next]_vars
               PROVE  Balanced(amount', sol')
    BY DEF Balanced, TotalIn, HeldAtStart
  <2>1. CASE Program
    BY <2>1, MakeBalanced, TakeBalanced, RefundBalanced DEF Program
  <2>2. CASE Environment
    BY <2>2, EnvironmentBalanced
  <2>3. CASE UNCHANGED vars
    BY <2>3 DEF vars
  <2> QED
    BY <2>1, <2>2, <2>3 DEF Next
<1>2. Balanced(amount, sol) => TokensConserved
  BY DEF Balanced, TotalIn, TokensConserved, Held
<1> QED
  BY <1>1, <1>2, InitBalanced, TypeCorrect, PTL DEF Spec

-----------------------------------------------------------------------------
(* When an offer can be settled                                            *)

(* The maker an escrow account names is the one its address derives from.  *)
MakerOfAddress == \A p \in Pda : escrow[p] # NoEscrow => escrow[p].maker = p[1]

(* A refund of an open offer can run exactly when the maker has a token    *)
(* account for mint A and mint A is no mint of Token-2022.                 *)
GuardsRefund ==
    \A p \in Pda :
        LET e == escrow[p]
        IN  e # NoEscrow =>
                (CanRefund(p[1], p[2], e.mint_a) <=>
                    /\ <<p[1], e.mint_a>> \in atas
                    /\ e.mint_a \notin Token2022Mints)

(* A take of an open offer can run exactly when the taker holds the price, *)
(* the maker has an account to be paid on or signs for its creation, and   *)
(* the vault holds the price in tokens of mint A: no fewer, and no more    *)
(* unless they are wrapped SOL.                                            *)
GuardsTake ==
    \A p \in Pda, taker \in Wallets, makerSigns \in BOOLEAN :
        LET e == escrow[p]
            held == amount[Vault(p, e.mint_a)]
        IN  e # NoEscrow =>
                (CanTake(taker, p[1], p[2], e.mint_a, e.mint_b, makerSigns) <=>
                    /\ <<taker, e.mint_b>> \in atas
                    /\ amount[<<taker, e.mint_b>>] >= e.receive
                    /\ <<p[1], e.mint_b>> \in atas \/ makerSigns
                    /\ held = e.receive \/ (e.mint_a \in NativeMints /\ held > e.receive))

LEMMA MakerOfAddressPreserved ==
    TypeOK /\ MakerOfAddress /\ [Next]_vars => MakerOfAddress'
<1> SUFFICES ASSUME TypeOK, MakerOfAddress, [Next]_vars, NEW p \in Pda, escrow'[p] # NoEscrow
             PROVE  escrow'[p].maker = p[1]
  BY DEF MakerOfAddress
<1>0. escrow \in [Pda -> Escrow \union {NoEscrow}]
  BY DEF TypeOK
<1>1. ASSUME NEW w \in Wallets, NEW seed \in Seeds, NEW a \in Mints, NEW b \in Mints,
             NEW receive \in Amounts, NEW deposit \in Amounts,
             Make(w, seed, a, b, receive, deposit)
      PROVE  escrow'[p].maker = p[1]
  <2>1. escrow' = [escrow EXCEPT ![<<w, seed>>] = InitEscrow(w, seed, a, b, receive)]
    BY <1>1 DEF Make
  <2>2. CASE p = <<w, seed>>
    BY <1>0, <2>1, <2>2 DEF InitEscrow
  <2>3. CASE p # <<w, seed>>
    BY <1>0, <2>1, <2>3 DEF MakerOfAddress
  <2> QED
    BY <2>2, <2>3
<1>2. ASSUME NEW q \in Pda, CloseEscrow(q)
      PROVE  escrow'[p].maker = p[1]
  BY <1>0, <1>2 DEF CloseEscrow, MakerOfAddress
<1>3. ASSUME NEW w \in Wallets, NEW seed \in Seeds, NEW a \in Mints,
             \/ Refund(w, seed, a)
             \/ \E taker \in Wallets, b \in Mints, makerSigns \in BOOLEAN :
                    Take(taker, w, seed, a, b, makerSigns)
      PROVE  escrow'[p].maker = p[1]
  BY <1>2, <1>3 DEF Refund, Take, Pda
<1>4. CASE Environment \/ UNCHANGED vars
  BY <1>4 DEF Environment, OpenAta, CloseAta, Send, vars, MakerOfAddress
<1> QED
  BY <1>1, <1>3, <1>4 DEF Next, Program

LEMMA RefundGuard ==
    ASSUME TypeOK, VaultBacked, MakerOfAddress, NEW p \in Pda, escrow[p] # NoEscrow
    PROVE  CanRefund(p[1], p[2], escrow[p].mint_a) <=>
               /\ <<p[1], escrow[p].mint_a>> \in atas
               /\ escrow[p].mint_a \notin Token2022Mints
<1> DEFINE a == escrow[p].mint_a
           vault == Vault(p, a)
           maker_ata_a == <<p[1], a>>
           final == Transferred(amount, vault, maker_ata_a, amount[vault])
<1>1. p = <<p[1], p[2]>> /\ p[1] \in Wallets /\ p[2] \in Seeds /\ a \in Mints
  BY OpenVault DEF Pda, Escrow
<1>2. vault \in Ata /\ maker_ata_a \in Ata /\ vault # maker_ata_a
  BY <1>1, Addresses
<1>3. vault \in atas /\ escrow[p].maker = p[1]
  BY DEF VaultBacked, MakerOfAddress
<1>4. amount \in [Ata -> Nat] /\ amount[vault] \in Nat /\ amount[vault] <= amount[vault]
  BY <1>2 DEF TypeOK
<1>5. final[vault] = 0
  <2> HIDE DEF vault, maker_ata_a
  <2>1. final[vault] = amount[vault] - amount[vault]
    BY <1>2, <1>4, TransferLaws
  <2> QED
    BY <1>4, <2>1
<1>6. CanClose(final, vault)
  BY <1>5 DEF CanClose
<1>7. CanTransfer(atas, amount, vault, maker_ata_a, amount[vault]) <=> maker_ata_a \in atas
  BY <1>3, <1>4 DEF CanTransfer
<1>8. CanRefund(p[1], p[2], a) <=>
          /\ CanTransfer(atas, amount, vault, maker_ata_a, amount[vault])
          /\ a \notin Token2022Mints
          /\ CanClose(final, vault)
  <2>1. <<p[1], p[2]>> = p
    BY <1>1
  <2> QED
    BY <1>3, <2>1 DEF CanRefund, CanRefundClose, Refunded, RefundPayout
<1> QED
  BY <1>6, <1>7, <1>8

LEMMA TakeGuard ==
    ASSUME TypeOK, VaultBacked, MakerOfAddress, NEW p \in Pda, escrow[p] # NoEscrow,
           NEW taker \in Wallets, NEW makerSigns \in BOOLEAN
    PROVE  LET e == escrow[p]
               held == amount[Vault(p, e.mint_a)]
           IN  CanTake(taker, p[1], p[2], e.mint_a, e.mint_b, makerSigns) <=>
                   /\ <<taker, e.mint_b>> \in atas
                   /\ amount[<<taker, e.mint_b>>] >= e.receive
                   /\ <<p[1], e.mint_b>> \in atas \/ makerSigns
                   /\ held = e.receive \/ (e.mint_a \in NativeMints /\ held > e.receive)
<1> DEFINE a == escrow[p].mint_a
           b == escrow[p].mint_b
           receive == escrow[p].receive
           vault == Vault(p, a)
           payer == <<taker, b>>
           payee == <<p[1], b>>
           taker_ata_a == <<taker, a>>
           accts == TakeInits(taker, p[1], a, b)
           paid == Transferred(amount, payer, payee, receive)
           final == Transferred(paid, vault, taker_ata_a, receive)
<1>1. /\ p = <<p[1], p[2]>> /\ p[1] \in Wallets /\ p[2] \in Seeds
      /\ a \in Mints /\ b \in Mints /\ receive \in Nat
  <2>1. escrow[p] \in Escrow
    BY OpenVault
  <2>2. a \in Mints /\ b \in Mints /\ receive \in Nat
    BY <2>1, AmountsAssumption DEF Escrow
  <2> QED
    BY <2>2 DEF Pda
<1>2. /\ vault \in Ata /\ payer \in Ata /\ payee \in Ata /\ taker_ata_a \in Ata
      /\ vault # payer /\ vault # payee /\ vault # taker_ata_a
  BY <1>1, Addresses
<1>3. vault \in atas /\ escrow[p].maker = p[1]
  BY DEF VaultBacked, MakerOfAddress
<1>4. amount \in [Ata -> Nat] /\ amount[vault] \in Nat /\ amount[payer] \in Nat
  BY <1>2 DEF TypeOK
<1>5. vault \in accts /\ payee \in accts /\ taker_ata_a \in accts /\ atas \subseteq accts
  BY <1>3 DEF TakeInits
<1>6. CanTake(taker, p[1], p[2], a, b, makerSigns) <=>
          /\ payee \in atas \/ makerSigns
          /\ payer \in atas
          /\ CanTransfer(accts, amount, payer, payee, receive)
          /\ CanTransfer(accts, paid, vault, taker_ata_a, receive)
          /\ CanClose(final, vault)
  <2>1. <<p[1], p[2]>> = p
    BY <1>1
  <2> QED
    BY <1>3, <2>1 DEF CanTake, TakeHasOne, CanInitMakerAtaB, TakePaid, TakeSettled, TakePayout
<1>7. payer \in atas => (CanTransfer(accts, amount, payer, payee, receive) <=>
                            amount[payer] >= receive)
  BY <1>1, <1>4, <1>5 DEF CanTransfer
<1>8. ASSUME receive <= amount[payer]
      PROVE  (/\ CanTransfer(accts, paid, vault, taker_ata_a, receive)
              /\ CanClose(final, vault))
             <=> (\/ amount[vault] = receive
                  \/ a \in NativeMints /\ amount[vault] > receive)
  <2>1. vault[2] = a
    BY DEF Vault
  <2> HIDE DEF a, receive, vault, payer, payee, taker_ata_a, accts
  <2>2. paid \in [Ata -> Nat] /\ paid[vault] = amount[vault]
    BY <1>1, <1>2, <1>4, <1>8, TransferLaws
  <2>3. CanTransfer(accts, paid, vault, taker_ata_a, receive) <=> receive <= amount[vault]
    BY <1>5, <2>2 DEF CanTransfer
  <2> HIDE DEF paid
  <2>4. receive <= amount[vault] => final[vault] = amount[vault] - receive
    BY <1>1, <1>2, <2>2, TransferLaws
  <2> HIDE DEF final
  <2> QED
    BY <1>1, <1>4, <2>1, <2>3, <2>4 DEF CanClose
<1> HIDE DEF paid, final, accts, receive, payer, payee, vault, taker_ata_a
<1>9. CanTake(taker, p[1], p[2], a, b, makerSigns) <=>
          /\ payer \in atas
          /\ amount[payer] >= receive
          /\ payee \in atas \/ makerSigns
          /\ amount[vault] = receive \/ (a \in NativeMints /\ amount[vault] > receive)
  <2>1. amount[payer] >= receive <=> receive <= amount[payer]
    BY <1>1, <1>4
  <2> QED
    BY <1>6, <1>7, <1>8, <2>1
<1> QED
  BY <1>9 DEF receive, payer, payee, vault

LEMMA MakersKept == Spec => []MakerOfAddress
<1>1. Init => MakerOfAddress
  BY DEF Init, MakerOfAddress
<1> QED
  BY <1>1, MakerOfAddressPreserved, TypeCorrect, PTL DEF Spec

(* The refund an open offer's maker asks for is refused for two reasons    *)
(* only, whatever others did to the vault and in whatever order: there is  *)
(* no account for it to be paid on, or the mint is one of Token-2022 and   *)
(* close_account goes to the original token program (refund.rs:50-77).     *)
THEOREM RefundsRunExceptForToken2022 == Spec => []GuardsRefund
<1>1. TypeOK /\ VaultBacked /\ MakerOfAddress => GuardsRefund
  BY RefundGuard DEF GuardsRefund
<1> QED
  BY <1>1, TypeCorrect, VaultsAreBacked, MakersKept, PTL

(* A taker with the price settles an open offer exactly when the vault     *)
(* holds `receive` tokens of mint A: a deposit of another size, or a gift  *)
(* of one token to the vault, refuses every taker until the maker takes    *)
(* the deposit back, except that a surplus of wrapped SOL is unwrapped     *)
(* (take.rs:63-119 pays out `receive`, not the deposit).                   *)
THEOREM TakesNeedTheExactVault == Spec => []GuardsTake
<1>1. TypeOK /\ VaultBacked /\ MakerOfAddress => GuardsTake
  BY TakeGuard DEF GuardsTake
<1> QED
  BY <1>1, TypeCorrect, VaultsAreBacked, MakersKept, PTL

=============================================================================
