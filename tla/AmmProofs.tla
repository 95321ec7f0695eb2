----------------------------- MODULE AmmProofs -----------------------------
(***************************************************************************)
(* Machine-checked proofs about the pool program, for any wallets, pools,  *)
(* mints, amounts and any curve that satisfies the assumptions of Amm.     *)
(***************************************************************************)
EXTENDS Amm, SumProofs

(* LP tokens exist only of pools that exist.                               *)
PoolsFirst == \A s \in Seeds : supply[s] > 0 => IsPool(s)

IInv == TypeOK /\ VaultsStand /\ PoolsFirst

-----------------------------------------------------------------------------
(* Accounts and transfers                                                  *)

LEMMA AccountTypes ==
    ASSUME TypeOK, NEW s \in Seeds, IsPool(s), NEW o \in Owners, NEW b \in BOOLEAN
    PROVE  Account(o, s, b) \in Ata
  <1>1. config[s] \in Config
    BY DEF TypeOK, IsPool
  <1>2. MintOf(s, b) \in Mints
    BY <1>1 DEF MintOf, Config
  <1> QED
    BY <1>2 DEF Account, Ata

(* A wallet's accounts and the vaults of a pool are four accounts, and the *)
(* vaults of another pool are others.                                      *)
LEMMA AccountsApart ==
    ASSUME TypeOK, VaultsStand, NEW s \in Seeds, IsPool(s), NEW w \in Wallets
    PROVE  /\ Account(w, s, TRUE) # Account(w, s, FALSE)
           /\ Vault(s, TRUE) # Vault(s, FALSE)
           /\ \A t \in Seeds, b, c \in BOOLEAN : Account(w, s, b) # Vault(t, c)
           /\ \A t \in Seeds, m \in Mints, b \in BOOLEAN : <<w, m>> # Vault(t, b)
           /\ \A t \in Seeds, b, c \in BOOLEAN : t # s => Vault(s, b) # Vault(t, c)
  BY AddressAssumption DEF VaultsStand, Account, Vault, MintOf

LEMMA LpAccount ==
    ASSUME NEW o \in Owners, NEW s \in Seeds
    PROVE  <<o, LpMint(s)>> \in Ata
  BY DEF Ata, Mints

(* A transfer keeps balances in u64; only the payer's falls.               *)
LEMMA TransferLaws ==
    ASSUME NEW bal \in [Ata -> U64], NEW accts,
           NEW from \in Ata, NEW to \in Ata, NEW n \in U64,
           CanTransfer(accts, bal, from, to, n)
    PROVE  /\ Transferred(bal, from, to, n) \in [Ata -> U64]
           /\ \A z \in Ata : z # from => Transferred(bal, from, to, n)[z] >= bal[z]
           /\ \A z \in Ata : z # from /\ z # to => Transferred(bal, from, to, n)[z] = bal[z]
           /\ from # to => /\ Transferred(bal, from, to, n)[to] = bal[to] + n
                           /\ Transferred(bal, from, to, n)[from] = bal[from] - n
  <1>1. MaxU64 \in Nat
    BY ArgumentsAssumption
  <1>2. CASE from = to
    BY <1>1, <1>2, SMT DEF Transferred, CanTransfer, U64
  <1>3. CASE from # to
    BY <1>1, <1>3, SMT DEF Transferred, CanTransfer, U64
  <1> QED
    BY <1>2, <1>3

-----------------------------------------------------------------------------
(* What each operation does to the reserves and the supply of its pool,    *)
(* and that it leaves the other pools alone.                               *)

LEMMA ReserveTypes ==
    ASSUME TypeOK, NEW s \in Seeds, IsPool(s), NEW b \in BOOLEAN
    PROVE  Reserve(s, b) \in U64 /\ Vault(s, b) \in Ata /\ supply[s] \in U64
  <1>1. Vault(s, b) \in Ata
    BY AccountTypes DEF Vault, Owners
  <1> QED
    BY <1>1 DEF Reserve, TypeOK

OthersKept(s) ==
    \A t \in Seeds \ {s} :
        /\ supply'[t] = supply[t]
        /\ IsPool(t) => \A b \in BOOLEAN : amount'[Vault(t, b)] = amount[Vault(t, b)]

TypesKept ==
    atas' \subseteq Ata /\ amount' \in [Ata -> U64] /\ supply' \in [Seeds -> U64]

PaidIn(s, due) ==
    /\ amount'[Vault(s, TRUE)] = Reserve(s, TRUE) + due.x
    /\ amount'[Vault(s, FALSE)] = Reserve(s, FALSE) + due.y

LEMMA DepositEffect ==
    ASSUME IInv, NEW w \in Wallets, NEW s \in Seeds,
           NEW amt \in Amounts, NEW max_x \in Amounts, NEW max_y \in Amounts,
           Deposit(w, s, amt, max_x, max_y)
    PROVE  /\ DepositDue(s, amt, max_x, max_y) \in [x : U64, y : U64]
           /\ TypesKept /\ config' = config /\ atas \subseteq atas'
           /\ PaidIn(s, DepositDue(s, amt, max_x, max_y))
           /\ OthersKept(s)
  <1> DEFINE due == DepositDue(s, amt, max_x, max_y)
             dx == due.x
             dy == due.y
             ux == Account(w, s, TRUE)
             uy == Account(w, s, FALSE)
             vx == Vault(s, TRUE)
             vy == Vault(s, FALSE)
             lp == <<w, LpMint(s)>>
             accts == atas \union {lp}
             paid == Transferred(amount, ux, vx, dx)
             final == Transferred(paid, uy, vy, dy)
  <1>1. IsPool(s) /\ TypeOK /\ VaultsStand /\ due # CurveError
    BY DEF Deposit, IInv
  <1>2. /\ ux \in Ata /\ uy \in Ata /\ vx \in Ata /\ vy \in Ata /\ lp \in Ata
        /\ Reserve(s, TRUE) \in U64 /\ Reserve(s, FALSE) \in U64 /\ supply[s] \in U64
    BY <1>1, AccountTypes, ReserveTypes, LpAccount DEF Owners
  <1>3. amt \in U64 /\ max_x \in U64 /\ max_y \in U64 /\ MaxU64 \in Nat
    BY ArgumentsAssumption
  <1>4. due \in [x : U64, y : U64]
    BY <1>1, <1>2, <1>3, CurveAssumption DEF DepositDue
  <1>5. /\ CanTransfer(accts, amount, ux, vx, dx)
        /\ CanTransfer(accts, paid, uy, vy, dy)
        /\ paid = Transferred(amount, ux, vx, dx)
        /\ final = Transferred(paid, uy, vy, dy)
        /\ MintLp(final, lp, s, amt)
        /\ atas' = accts /\ config' = config
    BY DEF Deposit
  <1>6. /\ ux # uy /\ vx # vy /\ ux # vx /\ ux # vy /\ uy # vx /\ uy # vy
        /\ lp # vx /\ lp # vy
    BY <1>1, AccountsApart DEF Mints
  <1>7. ASSUME NEW t \in Seeds \ {s}, IsPool(t), NEW b \in BOOLEAN
        PROVE  Vault(t, b) \in Ata \ {ux, uy, vx, vy, lp}
    BY <1>1, <1>7, AccountsApart, ReserveTypes DEF Mints
  <1>8. amount \in [Ata -> U64] /\ dx \in U64 /\ dy \in U64
    BY <1>1, <1>4 DEF TypeOK
  <1> HIDE DEF due, dx, dy, ux, uy, vx, vy, lp, accts, paid, final
  <1>9. /\ final \in [Ata -> U64]
        /\ final[vx] = amount[vx] + dx /\ final[vy] = amount[vy] + dy
        /\ \A z \in Ata : z # ux /\ z # uy /\ z # vx /\ z # vy => final[z] = amount[z]
    <2>1. /\ ux \in Ata /\ uy \in Ata /\ vx \in Ata /\ vy \in Ata
          /\ ux # vx /\ uy # vy /\ ux # uy /\ vx # vy /\ ux # vy /\ uy # vx
          /\ amount \in [Ata -> U64] /\ dx \in U64 /\ dy \in U64
      BY <1>2, <1>6, <1>8
    <2>2. CanTransfer(accts, amount, ux, vx, dx) /\ CanTransfer(accts, paid, uy, vy, dy)
      BY <1>5
    <2>3. paid = Transferred(amount, ux, vx, dx) /\ final = Transferred(paid, uy, vy, dy)
      BY <1>5
    <2>4. paid \in [Ata -> U64]
      BY <2>1, <2>2, <2>3, TransferLaws
    <2>5. final \in [Ata -> U64]
      BY <2>1, <2>2, <2>3, <2>4, TransferLaws
    <2> QED
      BY <2>1, <2>3, <2>4, <2>5 DEF Transferred
  <1>10. /\ amount' \in [Ata -> U64]
         /\ \A z \in Ata \ {lp} : amount'[z] = final[z]
         /\ supply' \in [Seeds -> U64] /\ supply'[s] = supply[s] + amt
         /\ \A t \in Seeds \ {s} : supply'[t] = supply[t]
    BY <1>1, <1>2, <1>3, <1>5, <1>9 DEF MintLp, TypeOK, U64
  <1>11. /\ amount'[vx] = Reserve(s, TRUE) + dx
         /\ amount'[vy] = Reserve(s, FALSE) + dy
    BY <1>2, <1>6, <1>9, <1>10 DEF Reserve, vx, vy
  <1>12. OthersKept(s)
    BY <1>7, <1>9, <1>10 DEF OthersKept
  <1>13. TypesKept /\ atas \subseteq atas'
    BY <1>1, <1>2, <1>5, <1>10 DEF TypesKept, TypeOK, accts
  <1> QED
    BY <1>4, <1>5, <1>11, <1>12, <1>13 DEF PaidIn, due, dx, dy, vx, vy

LEMMA DepositSupply ==
    ASSUME IInv, NEW w \in Wallets, NEW s \in Seeds,
           NEW amt \in Amounts, NEW max_x \in Amounts, NEW max_y \in Amounts,
           Deposit(w, s, amt, max_x, max_y)
    PROVE  supply'[s] = supply[s] + amt
  BY DEF Deposit, MintLp, IInv, TypeOK

LEMMA WithdrawEffect ==
    ASSUME IInv, NEW w \in Wallets, NEW s \in Seeds,
           NEW amt \in Amounts, NEW min_x \in Amounts, NEW min_y \in Amounts,
           Withdraw(w, s, amt, min_x, min_y)
    PROVE  LET due == WithdrawDue(s, amt)
           IN  /\ due \in [x : U64, y : U64]
               /\ TypesKept /\ config' = config /\ atas' = atas
               /\ amount'[Vault(s, TRUE)] = Reserve(s, TRUE) - due.x
               /\ amount'[Vault(s, FALSE)] = Reserve(s, FALSE) - due.y
               /\ amt <= supply[s] /\ supply'[s] = supply[s] - amt
               /\ OthersKept(s)
  <1> DEFINE due == WithdrawDue(s, amt)
             dx == due.x
             dy == due.y
             ux == Account(w, s, TRUE)
             uy == Account(w, s, FALSE)
             vx == Vault(s, TRUE)
             vy == Vault(s, FALSE)
             lp == <<w, LpMint(s)>>
             burned == Burned(lp, amt)
             paid == Transferred(burned, vx, ux, dx)
             final == Transferred(paid, vy, uy, dy)
  <1>1. IsPool(s) /\ TypeOK /\ VaultsStand /\ due # CurveError
    BY DEF Withdraw, CanWithdraw, WithdrawPaid, IInv
  <1>2. /\ ux \in Ata /\ uy \in Ata /\ vx \in Ata /\ vy \in Ata /\ lp \in Ata
        /\ Reserve(s, TRUE) \in U64 /\ Reserve(s, FALSE) \in U64 /\ supply[s] \in U64
    BY <1>1, AccountTypes, ReserveTypes, LpAccount DEF Owners
  <1>3. amt \in U64 /\ MaxU64 \in Nat
    BY ArgumentsAssumption
  <1>4. due \in [x : U64, y : U64]
    BY <1>1, <1>2, <1>3, CurveAssumption DEF WithdrawDue
  <1>5. /\ CanBurn(lp, s, amt)
        /\ CanTransfer(atas, burned, vx, ux, dx)
        /\ CanTransfer(atas, paid, vy, uy, dy)
        /\ paid = Transferred(burned, vx, ux, dx)
        /\ final = Transferred(paid, vy, uy, dy)
        /\ amount' = final
        /\ supply' = BurnedSupply(s, amt)
        /\ atas' = atas /\ config' = config
    BY DEF Withdraw, CanWithdraw, WithdrawPaid
  <1>6. /\ ux # uy /\ vx # vy /\ ux # vx /\ ux # vy /\ uy # vx /\ uy # vy
        /\ lp # vx /\ lp # vy
    BY <1>1, AccountsApart DEF Mints
  <1>7. ASSUME NEW t \in Seeds \ {s}, IsPool(t), NEW b \in BOOLEAN
        PROVE  Vault(t, b) \in Ata \ {ux, uy, vx, vy, lp}
    BY <1>1, <1>7, AccountsApart, ReserveTypes DEF Mints
  <1>8. amount \in [Ata -> U64] /\ dx \in U64 /\ dy \in U64
    BY <1>1, <1>4 DEF TypeOK
  <1> HIDE DEF due, dx, dy, ux, uy, vx, vy, lp
  <1>9. /\ burned \in [Ata -> U64]
        /\ \A z \in Ata \ {lp} : burned[z] = amount[z]
    BY <1>2, <1>3, <1>5, <1>8 DEF CanBurn, Burned, burned, U64
  <1> HIDE DEF burned, paid, final
  <1>10. /\ final \in [Ata -> U64]
         /\ final[vx] = burned[vx] - dx /\ final[vy] = burned[vy] - dy
         /\ \A z \in Ata : z # ux /\ z # uy /\ z # vx /\ z # vy => final[z] = burned[z]
    <2>1. /\ ux \in Ata /\ uy \in Ata /\ vx \in Ata /\ vy \in Ata
          /\ vx # ux /\ vy # uy /\ ux # uy /\ vx # vy /\ ux # vy /\ uy # vx
          /\ burned \in [Ata -> U64] /\ dx \in U64 /\ dy \in U64
      BY <1>2, <1>6, <1>8, <1>9
    <2>2. CanTransfer(atas, burned, vx, ux, dx) /\ CanTransfer(atas, paid, vy, uy, dy)
      BY <1>5
    <2>3. paid = Transferred(burned, vx, ux, dx) /\ final = Transferred(paid, vy, uy, dy)
      BY <1>5
    <2>4. paid \in [Ata -> U64]
      BY <2>1, <2>2, <2>3, TransferLaws
    <2>5. final \in [Ata -> U64]
      BY <2>1, <2>2, <2>3, <2>4, TransferLaws
    <2> QED
      BY <2>1, <2>3, <2>4, <2>5 DEF Transferred
  <1>11. /\ amt <= supply[s]
         /\ supply' \in [Seeds -> U64] /\ supply'[s] = supply[s] - amt
         /\ \A t \in Seeds \ {s} : supply'[t] = supply[t]
    BY <1>1, <1>2, <1>3, <1>5 DEF CanBurn, BurnedSupply, TypeOK, U64
  <1>12. /\ amount'[vx] = Reserve(s, TRUE) - dx
         /\ amount'[vy] = Reserve(s, FALSE) - dy
    BY <1>2, <1>5, <1>6, <1>9, <1>10 DEF Reserve, vx, vy
  <1>13. OthersKept(s)
    BY <1>5, <1>7, <1>9, <1>10, <1>11 DEF OthersKept
  <1>14. TypesKept
    BY <1>1, <1>5, <1>10, <1>11 DEF TypesKept, TypeOK
  <1> QED
    BY <1>4, <1>5, <1>11, <1>12, <1>13, <1>14 DEF due, dx, dy, vx, vy

LEMMA SwapEffect ==
    ASSUME IInv, NEW w \in Wallets, NEW s \in Seeds, NEW is_x \in BOOLEAN,
           NEW amt \in Amounts, NEW min \in Amounts,
           Swap(w, s, is_x, amt, min)
    PROVE  LET due == SwapDue(s, is_x, amt, min)
           IN  /\ due \in [deposit : U64, withdraw : U64] /\ due # CurveError
               /\ TypesKept /\ config' = config /\ atas' = atas
               /\ amount'[Vault(s, is_x)] = Reserve(s, is_x) + due.deposit
               /\ amount'[Vault(s, ~is_x)] = Reserve(s, ~is_x) - due.withdraw
               /\ supply'[s] = supply[s]
               /\ OthersKept(s)
  <1> DEFINE due == SwapDue(s, is_x, amt, min)
             paid_in == due.deposit
             paid_out == due.withdraw
             uin == Account(w, s, is_x)
             uout == Account(w, s, ~is_x)
             vin == Vault(s, is_x)
             vout == Vault(s, ~is_x)
             paid == Transferred(amount, uin, vin, paid_in)
             final == Transferred(paid, vout, uout, paid_out)
  <1>1. IsPool(s) /\ TypeOK /\ VaultsStand /\ due # CurveError
    BY DEF Swap, IInv
  <1>2. /\ uin \in Ata /\ uout \in Ata /\ vin \in Ata /\ vout \in Ata
        /\ Reserve(s, is_x) \in U64 /\ Reserve(s, ~is_x) \in U64 /\ supply[s] \in U64
    BY <1>1, AccountTypes, ReserveTypes DEF Owners
  <1>3. config[s].fee \in Fees /\ amt \in U64
    BY <1>1, ArgumentsAssumption DEF TypeOK, IsPool, Config
  <1>4. due \in [deposit : U64, withdraw : U64]
    BY <1>1, <1>2, <1>3, CurveAssumption DEF SwapDue
  <1>5. /\ CanTransfer(atas, amount, uin, vin, paid_in)
        /\ CanTransfer(atas, paid, vout, uout, paid_out)
        /\ paid = Transferred(amount, uin, vin, paid_in)
        /\ final = Transferred(paid, vout, uout, paid_out)
        /\ amount' = final
        /\ supply' = supply /\ atas' = atas /\ config' = config
    BY DEF Swap
  <1>6. uin # uout /\ vin # vout /\ uin # vin /\ uin # vout /\ uout # vin /\ uout # vout
    <2>1. CASE is_x
      BY <1>1, <2>1, AccountsApart
    <2>2. CASE ~is_x
      BY <1>1, <2>2, AccountsApart
    <2> QED
      BY <2>1, <2>2
  <1>7. ASSUME NEW t \in Seeds \ {s}, IsPool(t), NEW b \in BOOLEAN
        PROVE  Vault(t, b) \in Ata \ {uin, uout, vin, vout}
    BY <1>1, <1>7, AccountsApart, ReserveTypes DEF Mints
  <1>8. amount \in [Ata -> U64] /\ paid_in \in U64 /\ paid_out \in U64
    BY <1>1, <1>4 DEF TypeOK
  <1> HIDE DEF due, paid_in, paid_out, uin, uout, vin, vout, paid, final
  <1>9. /\ final \in [Ata -> U64]
        /\ final[vin] = amount[vin] + paid_in /\ final[vout] = amount[vout] - paid_out
        /\ \A z \in Ata : z # uin /\ z # uout /\ z # vin /\ z # vout => final[z] = amount[z]
    <2>1. /\ uin \in Ata /\ uout \in Ata /\ vin \in Ata /\ vout \in Ata
          /\ uin # vin /\ uout # vout /\ uin # uout /\ vin # vout /\ uin # vout /\ uout # vin
          /\ amount \in [Ata -> U64] /\ paid_in \in U64 /\ paid_out \in U64
      BY <1>2, <1>6, <1>8
    <2>2. /\ CanTransfer(atas, amount, uin, vin, paid_in)
          /\ CanTransfer(atas, paid, vout, uout, paid_out)
      BY <1>5
    <2>3. /\ paid = Transferred(amount, uin, vin, paid_in)
          /\ final = Transferred(paid, vout, uout, paid_out)
      BY <1>5
    <2>4. paid \in [Ata -> U64]
      BY <2>1, <2>2, <2>3, TransferLaws
    <2>5. final \in [Ata -> U64]
      BY <2>1, <2>2, <2>3, <2>4, TransferLaws
    <2> QED
      BY <2>1, <2>3, <2>4, <2>5 DEF Transferred
  <1>10. /\ amount'[vin] = Reserve(s, is_x) + paid_in
         /\ amount'[vout] = Reserve(s, ~is_x) - paid_out
    BY <1>5, <1>9 DEF Reserve, vin, vout
  <1>11. OthersKept(s)
    BY <1>5, <1>7, <1>9 DEF OthersKept
  <1>12. TypesKept
    BY <1>1, <1>5, <1>9 DEF TypesKept, TypeOK
  <1> QED
    BY <1>1, <1>4, <1>5, <1>10, <1>11, <1>12 DEF due, paid_in, paid_out, vin, vout

-----------------------------------------------------------------------------
(* The other instructions and the token program: IInv is inductive.        *)

LEMMA InitIInv == Init => IInv
  <1> SUFFICES ASSUME Init PROVE IInv
    OBVIOUS
  <1>1. 0 \in U64
    BY ArgumentsAssumption DEF U64
  <1>2. amount \in [Ata -> U64]
    BY <1>1, WealthAssumption DEF Init
  <1>3. TypeOK
    BY <1>1, <1>2 DEF Init, TypeOK, Ata, Owners, Mints
  <1>4. \A s \in Seeds : ~IsPool(s) /\ ~(supply[s] > 0)
    BY DEF Init, IsPool
  <1> QED
    BY <1>3, <1>4 DEF IInv, VaultsStand, PoolsFirst

(* A step that keeps the configs and the vaults keeps the vaults standing. *)
LEMMA VaultsKept ==
    ASSUME IInv, config' = config,
           \A s \in Seeds, b \in BOOLEAN : IsPool(s) => Vault(s, b) \in atas'
    PROVE  VaultsStand'
  BY DEF IInv, VaultsStand, Vault, Account, MintOf, IsPool

(* What keeps the types, the vaults and the pools keeps IInv.              *)
LEMMA InvKept ==
    ASSUME IInv, config' = config, TypesKept,
           \A s \in Seeds, b \in BOOLEAN : IsPool(s) => Vault(s, b) \in atas',
           \A s \in Seeds : supply'[s] > 0 => IsPool(s)
    PROVE  IInv'
  <1>1. TypeOK'
    BY DEF IInv, TypeOK, TypesKept
  <1>2. VaultsStand'
    BY VaultsKept
  <1>3. PoolsFirst'
    BY DEF PoolsFirst, IsPool
  <1> QED
    BY <1>1, <1>2, <1>3 DEF IInv

LEMMA VaultsIn ==
    ASSUME IInv, NEW s \in Seeds, IsPool(s), NEW b \in BOOLEAN
    PROVE  Vault(s, b) \in atas
  BY DEF IInv, VaultsStand

LEMMA InitializeInv ==
    ASSUME IInv, NEW s \in Seeds, NEW mint_x \in Mints, NEW mint_y \in Mints, NEW fee \in Fees,
           Initialize(s, mint_x, mint_y, fee)
    PROVE  IInv'
  <1> DEFINE pool == [mint_x |-> mint_x, mint_y |-> mint_y, fee |-> fee, locked |-> FALSE]
  <1>1. pool \in Config
    BY DEF Config
  <1>2. mint_x # mint_y /\ LpMint(s) # mint_x /\ LpMint(s) # mint_y
    BY AddressAssumption DEF Initialize, CanInitVaults, MintExists, LpMint
  <1>3. config' = [config EXCEPT ![s] = pool]
    BY DEF Initialize
  <1>4. pool.mint_x = mint_x /\ pool.mint_y = mint_y
    OBVIOUS
  <1> HIDE DEF pool
  <1>5. config'[s] = pool /\ \A t \in Seeds \ {s} : config'[t] = config[t]
    BY <1>3 DEF IInv, TypeOK
  <1>6. atas' = atas \union {<<s, mint_x>>, <<s, mint_y>>} /\ amount' = amount /\ supply' = supply
    BY DEF Initialize
  <1>7. TypeOK'
    <2>1. config' \in [Seeds -> Config \union {NoConfig}]
      BY <1>1, <1>3 DEF IInv, TypeOK
    <2>2. atas' \subseteq Ata
      BY <1>6 DEF IInv, TypeOK, Ata, Owners
    <2> QED
      BY <2>1, <2>2, <1>6 DEF IInv, TypeOK
  <1>8. VaultsStand'
    <2> SUFFICES ASSUME NEW t \in Seeds, IsPool(t)'
                 PROVE  /\ config'[t].mint_x # config'[t].mint_y
                        /\ LpMint(t) # config'[t].mint_x /\ LpMint(t) # config'[t].mint_y
                        /\ <<t, config'[t].mint_x>> \in atas'
                        /\ <<t, config'[t].mint_y>> \in atas'
      BY DEF VaultsStand, Vault, Account, MintOf
    <2>1. CASE t = s
      BY <2>1, <1>2, <1>4, <1>5, <1>6
    <2>2. CASE t # s
      <3>1. config'[t] = config[t] /\ IsPool(t)
        BY <2>2, <1>5 DEF IsPool
      <3> QED
        BY <3>1, <1>6 DEF IInv, VaultsStand, Vault, Account, MintOf
    <2> QED
      BY <2>1, <2>2
  <1>9. PoolsFirst'
    <2> SUFFICES ASSUME NEW t \in Seeds, supply[t] > 0 PROVE IsPool(t)'
      BY <1>6 DEF PoolsFirst
    <2>1. IsPool(t) /\ ~IsPool(s)
      BY DEF IInv, PoolsFirst, Initialize
    <2> QED
      BY <2>1, <1>5 DEF IsPool
  <1> QED
    BY <1>7, <1>8, <1>9 DEF IInv

LEMMA OpenAtaInv ==
    ASSUME IInv, NEW o \in Owners, NEW m \in Mints, OpenAta(o, m)
    PROVE  IInv'
  <1>1. TypesKept /\ config' = config /\ supply' = supply /\ atas \subseteq atas'
    BY DEF OpenAta, TypesKept, IInv, TypeOK, Ata
  <1>2. \A s \in Seeds, b \in BOOLEAN : IsPool(s) => Vault(s, b) \in atas'
    BY <1>1, VaultsIn
  <1> QED
    BY <1>1, <1>2, InvKept DEF IInv, PoolsFirst

(* Only wallets close their accounts, so the vaults stay.                  *)
LEMMA CloseAtaInv ==
    ASSUME IInv, NEW w \in Wallets, NEW m \in Mints, CloseAta(w, m)
    PROVE  IInv'
  <1>1. /\ TypesKept /\ config' = config /\ supply' = supply
        /\ atas' = atas \ {<<w, m>>}
    BY DEF CloseAta, TypesKept, IInv, TypeOK
  <1>2. \A s \in Seeds, b \in BOOLEAN : IsPool(s) => Vault(s, b) \in atas'
    BY <1>1, VaultsIn, AccountsApart DEF IInv
  <1> QED
    BY <1>1, <1>2, InvKept DEF IInv, PoolsFirst

LEMMA SendEffect ==
    ASSUME IInv, NEW w \in Wallets, NEW m \in Mints, NEW o \in Owners, NEW n \in Amounts,
           Send(w, m, o, n)
    PROVE  /\ TypesKept /\ config' = config /\ supply' = supply /\ atas' = atas
           /\ \A s \in Seeds, b \in BOOLEAN :
                 IsPool(s) => amount'[Vault(s, b)] >= amount[Vault(s, b)]
  <1>1. <<w, m>> \in Ata /\ <<o, m>> \in Ata /\ n \in U64 /\ amount \in [Ata -> U64]
    BY ArgumentsAssumption DEF Ata, Owners, IInv, TypeOK
  <1>2. /\ CanTransfer(atas, amount, <<w, m>>, <<o, m>>, n)
        /\ amount' = Transferred(amount, <<w, m>>, <<o, m>>, n)
        /\ config' = config /\ supply' = supply /\ atas' = atas
    BY DEF Send
  <1>3. /\ amount' \in [Ata -> U64]
        /\ \A z \in Ata : z # <<w, m>> => amount'[z] >= amount[z]
    BY <1>1, <1>2, TransferLaws
  <1>4. ASSUME NEW s \in Seeds, NEW b \in BOOLEAN, IsPool(s)
        PROVE  amount'[Vault(s, b)] >= amount[Vault(s, b)]
    BY <1>3, <1>4, AccountsApart, ReserveTypes DEF IInv
  <1> QED
    BY <1>2, <1>3, <1>4 DEF TypesKept, IInv, TypeOK

LEMMA BurnLpEffect ==
    ASSUME IInv, NEW w \in Wallets, NEW s \in Seeds, NEW n \in Amounts, BurnLp(w, s, n)
    PROVE  /\ TypesKept /\ config' = config /\ atas' = atas
           /\ \A t \in Seeds : supply'[t] <= supply[t]
           /\ \A t \in Seeds, b \in BOOLEAN :
                 IsPool(t) => amount'[Vault(t, b)] = amount[Vault(t, b)]
  <1>1. /\ <<w, LpMint(s)>> \in Ata /\ n \in U64 /\ MaxU64 \in Nat
        /\ amount \in [Ata -> U64] /\ supply \in [Seeds -> U64]
    BY LpAccount, ArgumentsAssumption DEF Owners, IInv, TypeOK
  <1>2. /\ n <= amount[<<w, LpMint(s)>>] /\ n <= supply[s]
        /\ amount' = [amount EXCEPT ![<<w, LpMint(s)>>] = @ - n]
        /\ supply' = [supply EXCEPT ![s] = @ - n]
        /\ config' = config /\ atas' = atas
    BY DEF BurnLp, CanBurn, Burned
  <1>3. /\ amount' \in [Ata -> U64] /\ supply' \in [Seeds -> U64]
        /\ \A t \in Seeds : supply'[t] <= supply[t]
        /\ \A z \in Ata : z # <<w, LpMint(s)>> => amount'[z] = amount[z]
    BY <1>1, <1>2 DEF U64
  <1>4. ASSUME NEW t \in Seeds, NEW b \in BOOLEAN, IsPool(t)
        PROVE  amount'[Vault(t, b)] = amount[Vault(t, b)]
    BY <1>3, <1>4, AccountsApart, ReserveTypes DEF IInv, Mints
  <1> QED
    BY <1>2, <1>3, <1>4 DEF TypesKept, IInv, TypeOK

-----------------------------------------------------------------------------
LEMMA NextInv ==
    ASSUME IInv, Next
    PROVE  IInv'
  <1>1. PICK w \in Wallets : Program(w) \/ Environment(w)
    BY DEF Next
  <1>2. CASE Program(w)
    <2>1. PICK s \in Seeds :
            \/ \E mint_x, mint_y \in Mints, fee \in Fees : Initialize(s, mint_x, mint_y, fee)
            \/ \E amt, a, b \in Amounts : Deposit(w, s, amt, a, b) \/ Withdraw(w, s, amt, a, b)
            \/ \E is_x \in BOOLEAN, amt, min \in Amounts : Swap(w, s, is_x, amt, min)
      BY <1>2 DEF Program
    <2>2. ASSUME NEW mint_x \in Mints, NEW mint_y \in Mints, NEW fee \in Fees,
                 Initialize(s, mint_x, mint_y, fee)
          PROVE  IInv'
      BY <2>2, InitializeInv
    <2>3. ASSUME NEW amt \in Amounts, NEW a \in Amounts, NEW b \in Amounts,
                 Deposit(w, s, amt, a, b)
          PROVE  IInv'
      <3>1. TypesKept /\ config' = config /\ atas \subseteq atas' /\ OthersKept(s) /\ IsPool(s)
        BY <2>3, DepositEffect DEF Deposit
      <3> QED
        BY <3>1, VaultsIn, InvKept DEF IInv, PoolsFirst, OthersKept
    <2>4. ASSUME NEW amt \in Amounts, NEW a \in Amounts, NEW b \in Amounts,
                 Withdraw(w, s, amt, a, b)
          PROVE  IInv'
      <3>1. TypesKept /\ config' = config /\ atas' = atas /\ OthersKept(s) /\ IsPool(s)
        BY <2>4, WithdrawEffect DEF Withdraw, CanWithdraw, WithdrawPaid
      <3> QED
        BY <3>1, VaultsIn, InvKept DEF IInv, PoolsFirst, OthersKept
    <2>5. ASSUME NEW is_x \in BOOLEAN, NEW amt \in Amounts, NEW min \in Amounts,
                 Swap(w, s, is_x, amt, min)
          PROVE  IInv'
      <3>1. TypesKept /\ config' = config /\ atas' = atas /\ OthersKept(s) /\ IsPool(s)
        BY <2>5, SwapEffect DEF Swap
      <3> QED
        BY <3>1, VaultsIn, InvKept DEF IInv, PoolsFirst, OthersKept
    <2> QED
      BY <2>1, <2>2, <2>3, <2>4, <2>5
  <1>3. CASE Environment(w)
    <2>1. ASSUME NEW o \in Owners, NEW m \in Mints, NEW n \in Amounts, Send(w, m, o, n)
          PROVE  IInv'
      BY <2>1, SendEffect, VaultsIn, InvKept DEF IInv, PoolsFirst
    <2>2. ASSUME NEW s \in Seeds, NEW n \in Amounts, BurnLp(w, s, n)
          PROVE  IInv'
      <3>1. /\ TypesKept /\ config' = config /\ atas' = atas
            /\ \A t \in Seeds : supply'[t] <= supply[t]
        BY <2>2, BurnLpEffect
      <3>2. ASSUME NEW t \in Seeds, supply'[t] > 0 PROVE IsPool(t)
        <4>1. supply[t] \in Nat /\ supply'[t] \in Nat
          BY <3>1, ArgumentsAssumption DEF IInv, TypeOK, TypesKept, U64
        <4> QED
          BY <4>1, <3>1, <3>2 DEF IInv, PoolsFirst
      <3> QED
        BY <3>1, <3>2, VaultsIn, InvKept
    <2> QED
      BY <1>3, <2>1, <2>2, OpenAtaInv, CloseAtaInv DEF Environment
  <1> QED
    BY <1>1, <1>2, <1>3

LEMMA StepInv == IInv /\ [Next]_vars => IInv'
  <1>1. ASSUME IInv, UNCHANGED vars PROVE IInv'
    BY <1>1 DEF IInv, TypeOK, VaultsStand, PoolsFirst, vars, IsPool, Vault, Account, MintOf
  <1> QED
    BY <1>1, NextInv

(* Accounts keep their type, and balances and supplies fit in a u64.       *)
THEOREM TypeCorrect == Spec => []TypeOK
  <1>1. IInv => TypeOK
    BY DEF IInv
  <1> QED
    BY <1>1, InitIInv, StepInv, PTL DEF Spec

(* A pool's two vaults stand apart, for any mints it was made for          *)
(* (initialize.rs:16-50).                                                  *)
THEOREM VaultsAlwaysStand == Spec => []VaultsStand
  <1>1. IInv => VaultsStand
    BY DEF IInv
  <1> QED
    BY <1>1, InitIInv, StepInv, PTL DEF Spec

-----------------------------------------------------------------------------
(* The value of an LP token                                                *)

LEMMA ProductsOrdered ==
    ASSUME NEW a \in Nat, NEW b \in Nat, NEW c \in Nat, NEW d \in Nat, a >= b, c >= d
    PROVE  a * c >= b * d
  <1>1. PICK i \in Nat : a = b + i
    BY SMT
  <1>2. PICK j \in Nat : c = d + j
    BY SMT
  <1>3. a * c = b * d + b * j + i * d + i * j
    BY <1>1, <1>2, SMT
  <1>4. b * j >= 0 /\ i * d >= 0 /\ i * j >= 0
    BY SMT
  <1> QED
    BY <1>3, <1>4, SMT

(* When neither reserve falls in relation to the supply, their product     *)
(* does not fall in relation to its square.                                *)
LEMMA PartKept ==
    ASSUME NEW x \in Nat, NEW y \in Nat, NEW l \in Nat,
           NEW x2 \in Nat, NEW y2 \in Nat, NEW l2 \in Nat,
           x2 * l >= x * l2, y2 * l >= y * l2
    PROVE  x2 * y2 * (l * l) >= x * y * (l2 * l2)
  <1>1. x2 * l \in Nat /\ x * l2 \in Nat /\ y2 * l \in Nat /\ y * l2 \in Nat
    BY SMT
  <1>2. (x2 * l) * (y2 * l) >= (x * l2) * (y * l2)
    BY <1>1, ProductsOrdered
  <1>3. (x2 * l) * (y2 * l) = x2 * y2 * (l * l) /\ (x * l2) * (y * l2) = x * y * (l2 * l2)
    BY SMT
  <1> QED
    BY <1>2, <1>3

KeptAt(s) == supply[s] > 0 /\ supply'[s] > 0 => WorthKept(s)

(* What OnlyTheCurveDilutes says of pool s.                                *)
Explained(s) ==
    supply[s] > 0 /\ supply'[s] > 0 /\ ~WorthKept(s) =>
        SoldBelowWorth(s) \/ RedeemedAboveWorth(s) \/ SwappedAsQuoted(s)

LEMMA ReserveAfter ==
    ASSUME IInv, TypesKept, config' = config, NEW s \in Seeds, IsPool(s), NEW b \in BOOLEAN
    PROVE  /\ Reserve(s, b)' = amount'[Vault(s, b)]
           /\ Reserve(s, b)' \in Nat /\ supply'[s] \in Nat
           /\ Reserve(s, b) \in Nat /\ supply[s] \in Nat
  <1>1. Reserve(s, b)' = amount'[Vault(s, b)]
    BY DEF Reserve, Vault, Account, MintOf
  <1>2. Vault(s, b) \in Ata /\ Reserve(s, b) \in U64 /\ supply[s] \in U64
    BY ReserveTypes DEF IInv
  <1> QED
    BY <1>1, <1>2, ArgumentsAssumption DEF TypesKept, U64

(* A pool whose reserves do not fall and whose supply does not grow.       *)
LEMMA GrownPartKept ==
    ASSUME IInv, TypesKept, config' = config, NEW s \in Seeds,
           IsPool(s) => \A b \in BOOLEAN : amount'[Vault(s, b)] >= amount[Vault(s, b)],
           supply'[s] <= supply[s]
    PROVE  KeptAt(s)
  <1> SUFFICES ASSUME supply[s] > 0 PROVE KeptAt(s)
    BY DEF KeptAt
  <1>1. IsPool(s)
    BY DEF IInv, PoolsFirst
  <1> DEFINE x == Reserve(s, TRUE)
             y == Reserve(s, FALSE)
             l == supply[s]
             x2 == Reserve(s, TRUE)'
             y2 == Reserve(s, FALSE)'
             l2 == supply'[s]
  <1>2. x \in Nat /\ y \in Nat /\ l \in Nat /\ x2 \in Nat /\ y2 \in Nat /\ l2 \in Nat
    BY <1>1, ReserveAfter
  <1>3. x2 >= x /\ y2 >= y /\ l2 <= l
    BY <1>1, ReserveAfter DEF Reserve
  <1> HIDE DEF x, y, l, x2, y2, l2
  <1>4. x2 * l >= x * l2 /\ y2 * l >= y * l2
    BY <1>2, <1>3, ProductsOrdered
  <1>5. x2 * y2 * (l * l) >= x * y * (l2 * l2)
    BY <1>2, <1>4, PartKept
  <1> QED
    BY <1>5 DEF KeptAt, WorthKept, x, y, l, x2, y2, l2

LEMMA OthersPartKept ==
    ASSUME IInv, TypesKept, config' = config, NEW s \in Seeds, OthersKept(s),
           NEW t \in Seeds, t # s
    PROVE  KeptAt(t)
  <1>1. supply[t] \in Nat /\ supply'[t] = supply[t]
    BY ArgumentsAssumption DEF OthersKept, IInv, TypeOK, U64
  <1>2. ASSUME IsPool(t), NEW b \in BOOLEAN PROVE amount'[Vault(t, b)] >= amount[Vault(t, b)]
    <2>1. amount'[Vault(t, b)] = amount[Vault(t, b)] /\ amount[Vault(t, b)] \in Nat
      BY <1>2, ReserveAfter DEF OthersKept, Reserve
    <2> QED
      BY <2>1
  <1> QED
    BY <1>1, <1>2, GrownPartKept

LEMMA DepositPartKept ==
    ASSUME IInv, NEW w \in Wallets, NEW s \in Seeds,
           NEW amt \in Amounts, NEW max_x \in Amounts, NEW max_y \in Amounts,
           Deposit(w, s, amt, max_x, max_y), supply[s] > 0
    PROVE  KeptAt(s) \/ SoldBelowWorth(s)
  <1> DEFINE due == DepositDue(s, amt, max_x, max_y)
             x == Reserve(s, TRUE)
             y == Reserve(s, FALSE)
             l == supply[s]
             x2 == Reserve(s, TRUE)'
             y2 == Reserve(s, FALSE)'
             l2 == supply'[s]
             dx == due.x
             dy == due.y
  <1>1. IsPool(s) /\ due # CurveError
    BY DEF Deposit
  <1>2. /\ TypesKept /\ config' = config /\ due \in [x : U64, y : U64]
        /\ amount'[Vault(s, TRUE)] = x + dx /\ amount'[Vault(s, FALSE)] = y + dy
        /\ l2 = l + amt
    <2>1. /\ TypesKept /\ config' = config /\ due \in [x : U64, y : U64]
          /\ PaidIn(s, due)
      BY DepositEffect
    <2>2. l2 = l + amt
      BY DepositSupply
    <2> QED
      BY <2>1, <2>2 DEF PaidIn
  <1>3. x \in Nat /\ y \in Nat /\ l \in Nat /\ x2 \in Nat /\ y2 \in Nat /\ l2 \in Nat
    BY <1>1, <1>2, ReserveAfter
  <1>4. x2 = x + dx /\ y2 = y + dy
    BY <1>1, <1>2, ReserveAfter
  <1>5. x \in U64 /\ y \in U64 /\ l \in U64 /\ amt \in U64
    BY <1>1, ReserveTypes, ArgumentsAssumption DEF IInv
  <1>6. due = DepositAmounts(x, y, l, amt)
    <2>1. supply[s] # 0
      BY <1>3
    <2>2. ~FirstDeposit(s)
      BY <2>1 DEF FirstDeposit
    <2> QED
      BY <2>2 DEF DepositDue
  <1>7. dx \in Nat /\ dy \in Nat /\ amt \in Nat
    BY <1>2, <1>5, ArgumentsAssumption DEF U64
  <1>8. amt > 0 /\ amt = l2 - l
    <2>1. amt # 0
      BY DEF Deposit
    <2> HIDE DEF l, l2
    <2> QED
      BY <1>2, <1>3, <1>7, <2>1
  <1>9. CASE dx * l < x * amt \/ dy * l < y * amt
    BY <1>1, <1>4, <1>6, <1>8, <1>9 DEF SoldBelowWorth
  <1>10. CASE dx * l >= x * amt /\ dy * l >= y * amt
    <2> HIDE DEF due, x, y, l, x2, y2, l2, dx, dy
    <2>1. x2 * l >= x * l2
      BY <1>2, <1>3, <1>4, <1>7, <1>10
    <2>2. y2 * l >= y * l2
      BY <1>2, <1>3, <1>4, <1>7, <1>10
    <2>3. x2 * y2 * (l * l) >= x * y * (l2 * l2)
      BY <1>3, <2>1, <2>2, PartKept
    <2> QED
      BY <2>3 DEF KeptAt, WorthKept, x, y, l, x2, y2, l2
  <1>11. x * amt \in Nat /\ y * amt \in Nat /\ dx * l \in Nat /\ dy * l \in Nat
    <2> HIDE DEF due, x, y, l, dx, dy
    <2> QED
      BY <1>3, <1>7
  <1> HIDE DEF due, x, y, l, dx, dy
  <1> QED
    BY <1>9, <1>10, <1>11

LEMMA WithdrawPartKept ==
    ASSUME IInv, NEW w \in Wallets, NEW s \in Seeds,
           NEW amt \in Amounts, NEW min_x \in Amounts, NEW min_y \in Amounts,
           Withdraw(w, s, amt, min_x, min_y)
    PROVE  KeptAt(s) \/ RedeemedAboveWorth(s)
  <1> DEFINE due == WithdrawDue(s, amt)
             x == Reserve(s, TRUE)
             y == Reserve(s, FALSE)
             l == supply[s]
             x2 == Reserve(s, TRUE)'
             y2 == Reserve(s, FALSE)'
             l2 == supply'[s]
             dx == due.x
             dy == due.y
  <1>1. IsPool(s) /\ due # CurveError
    BY DEF Withdraw, CanWithdraw, WithdrawPaid
  <1>2. /\ TypesKept /\ config' = config /\ due \in [x : U64, y : U64]
        /\ amount'[Vault(s, TRUE)] = x - dx /\ amount'[Vault(s, FALSE)] = y - dy
        /\ l2 = l - amt
    BY WithdrawEffect
  <1>3. x \in Nat /\ y \in Nat /\ l \in Nat /\ x2 \in Nat /\ y2 \in Nat /\ l2 \in Nat
    BY <1>1, <1>2, ReserveAfter
  <1>4. x2 = x - dx /\ y2 = y - dy
    BY <1>1, <1>2, ReserveAfter
  <1>5. x \in U64 /\ y \in U64 /\ l \in U64 /\ amt \in U64
    BY <1>1, ReserveTypes, ArgumentsAssumption DEF IInv
  <1>6. due = WithdrawAmounts(x, y, l, amt)
    BY DEF WithdrawDue
  <1>7. dx \in Nat /\ dy \in Nat /\ amt \in Nat
    BY <1>2, <1>5, ArgumentsAssumption DEF U64
  <1>8. amt > 0 /\ amt = l - l2
    <2>1. amt # 0
      BY DEF Withdraw, CanWithdraw, WithdrawPaid
    <2> HIDE DEF l, l2
    <2> QED
      BY <1>2, <1>3, <1>7, <2>1
  <1>9. CASE dx * l > x * amt \/ dy * l > y * amt
    BY <1>1, <1>4, <1>6, <1>8, <1>9 DEF RedeemedAboveWorth
  <1>10. CASE dx * l <= x * amt /\ dy * l <= y * amt
    <2> HIDE DEF due, x, y, l, x2, y2, l2, dx, dy
    <2>1. x2 * l >= x * l2
      BY <1>2, <1>3, <1>4, <1>7, <1>10
    <2>2. y2 * l >= y * l2
      BY <1>2, <1>3, <1>4, <1>7, <1>10
    <2>3. x2 * y2 * (l * l) >= x * y * (l2 * l2)
      BY <1>3, <2>1, <2>2, PartKept
    <2> QED
      BY <2>3 DEF KeptAt, WorthKept, x, y, l, x2, y2, l2
  <1>11. x * amt \in Nat /\ y * amt \in Nat /\ dx * l \in Nat /\ dy * l \in Nat
    <2> HIDE DEF due, x, y, l, dx, dy
    <2> QED
      BY <1>3, <1>7
  <1> HIDE DEF due, x, y, l, dx, dy
  <1> QED
    BY <1>9, <1>10, <1>11

LEMMA SwapQuoted ==
    ASSUME IInv, NEW w \in Wallets, NEW s \in Seeds, NEW is_x \in BOOLEAN,
           NEW amt \in Amounts, NEW min \in Amounts,
           Swap(w, s, is_x, amt, min)
    PROVE  SwappedAsQuoted(s)
  <1> DEFINE due == SwapDue(s, is_x, amt, min)
  <1>1. IsPool(s) /\ due # CurveError
    BY DEF Swap
  <1>2. /\ TypesKept /\ config' = config /\ supply'[s] = supply[s]
        /\ amount'[Vault(s, is_x)] = Reserve(s, is_x) + due.deposit
        /\ amount'[Vault(s, ~is_x)] = Reserve(s, ~is_x) - due.withdraw
    BY SwapEffect
  <1>3. /\ Reserve(s, is_x)' = Reserve(s, is_x) + due.deposit
        /\ Reserve(s, ~is_x)' = Reserve(s, ~is_x) - due.withdraw
    BY <1>1, <1>2, ReserveAfter
  <1> QED
    BY <1>1, <1>2, <1>3 DEF SwappedAsQuoted, SwapDue

LEMMA NextKept ==
    ASSUME IInv, Next, NEW t \in Seeds
    PROVE  Explained(t)
  <1>1. PICK w \in Wallets : Program(w) \/ Environment(w)
    BY DEF Next
  <1>2. IInv'
    BY NextInv
  <1>3. supply[t] \in Nat /\ (IsPool(t) => \A b \in BOOLEAN : amount[Vault(t, b)] \in Nat)
    BY ReserveTypes, ArgumentsAssumption DEF IInv, TypeOK, U64, Reserve
  <1>4. CASE Program(w)
    <2>1. PICK s \in Seeds :
            \/ \E mint_x, mint_y \in Mints, fee \in Fees : Initialize(s, mint_x, mint_y, fee)
            \/ \E amt, a, b \in Amounts : Deposit(w, s, amt, a, b) \/ Withdraw(w, s, amt, a, b)
            \/ \E is_x \in BOOLEAN, amt, min \in Amounts : Swap(w, s, is_x, amt, min)
      BY <1>4 DEF Program
    <2>2. ASSUME NEW mint_x \in Mints, NEW mint_y \in Mints, NEW fee \in Fees,
                 Initialize(s, mint_x, mint_y, fee)
          PROVE  Explained(t)
      <3> SUFFICES ASSUME supply[t] > 0 PROVE KeptAt(t)
        BY DEF KeptAt, Explained
      <3>1. IsPool(t) /\ ~IsPool(s) /\ amount' = amount /\ supply' = supply
        BY <2>2 DEF IInv, PoolsFirst, Initialize
      <3>2. config'[t] = config[t]
        BY <2>2, <3>1 DEF Initialize, IInv, TypeOK
      <3>3. \A b \in BOOLEAN : Reserve(t, b)' = Reserve(t, b)
        BY <3>1, <3>2 DEF Reserve, Vault, Account, MintOf
      <3>4. \A b \in BOOLEAN : Reserve(t, b) \in Nat
        BY <1>3, <3>1 DEF Reserve
      <3> DEFINE x == Reserve(t, TRUE)
                 y == Reserve(t, FALSE)
                 l == supply[t]
                 whole == x * y * (l * l)
      <3>5. whole >= whole
        <4>1. x \in Nat /\ y \in Nat /\ l \in Nat
          BY <1>3, <3>4
        <4> HIDE DEF x, y, l
        <4> QED
          BY <4>1
      <3>6. Reserve(t, TRUE)' * Reserve(t, FALSE)' * (supply[t] * supply[t]) = whole
        BY <3>3
      <3>7. Reserve(t, TRUE) * Reserve(t, FALSE) * (supply'[t] * supply'[t]) = whole
        BY <3>1
      <3> HIDE DEF whole
      <3> QED
        BY <3>5, <3>6, <3>7 DEF KeptAt, WorthKept
    <2>3. ASSUME NEW amt \in Amounts, NEW a \in Amounts, NEW b \in Amounts,
                 Deposit(w, s, amt, a, b)
          PROVE  Explained(t)
      <3>1. TypesKept /\ config' = config /\ OthersKept(s)
        BY <2>3, DepositEffect
      <3> QED
        BY <2>3, <3>1, OthersPartKept, DepositPartKept DEF KeptAt, Explained
    <2>4. ASSUME NEW amt \in Amounts, NEW a \in Amounts, NEW b \in Amounts,
                 Withdraw(w, s, amt, a, b)
          PROVE  Explained(t)
      <3>1. TypesKept /\ config' = config /\ OthersKept(s)
        BY <2>4, WithdrawEffect
      <3> QED
        BY <2>4, <3>1, OthersPartKept, WithdrawPartKept DEF KeptAt, Explained
    <2>5. ASSUME NEW is_x \in BOOLEAN, NEW amt \in Amounts, NEW min \in Amounts,
                 Swap(w, s, is_x, amt, min)
          PROVE  Explained(t)
      <3>1. TypesKept /\ config' = config /\ OthersKept(s)
        BY <2>5, SwapEffect
      <3> QED
        BY <2>5, <3>1, OthersPartKept, SwapQuoted DEF KeptAt, Explained
    <2> QED
      BY <2>1, <2>2, <2>3, <2>4, <2>5
  <1>5. CASE Environment(w)
    <2>1. ASSUME config' = config, amount' = amount, supply' = supply PROVE Explained(t)
      <3>1. TypesKept
        BY <1>2 DEF IInv, TypeOK, TypesKept
      <3> QED
        BY <1>3, <2>1, <3>1, GrownPartKept DEF KeptAt, Explained
    <2>2. ASSUME NEW o \in Owners, NEW m \in Mints, NEW n \in Amounts, Send(w, m, o, n)
          PROVE  Explained(t)
      <3>1. /\ TypesKept /\ config' = config /\ supply' = supply
            /\ \A b \in BOOLEAN : IsPool(t) => amount'[Vault(t, b)] >= amount[Vault(t, b)]
        BY <2>2, SendEffect
      <3> QED
        BY <1>3, <3>1, GrownPartKept DEF KeptAt, Explained
    <2>3. ASSUME NEW s \in Seeds, NEW n \in Amounts, BurnLp(w, s, n)
          PROVE  Explained(t)
      <3>1. /\ TypesKept /\ config' = config /\ supply'[t] <= supply[t]
            /\ \A b \in BOOLEAN : IsPool(t) => amount'[Vault(t, b)] = amount[Vault(t, b)]
        BY <2>3, BurnLpEffect
      <3>2. IsPool(t) => \A b \in BOOLEAN : amount'[Vault(t, b)] >= amount[Vault(t, b)]
        BY <1>3, <3>1
      <3> QED
        BY <3>1, <3>2, GrownPartKept DEF KeptAt, Explained
    <2>4. ASSUME NEW o \in Owners, NEW m \in Mints, OpenAta(o, m) PROVE Explained(t)
      BY <2>1, <2>4 DEF OpenAta
    <2>5. ASSUME NEW m \in Mints, CloseAta(w, m) PROVE Explained(t)
      BY <2>1, <2>5 DEF CloseAta
    <2> QED
      BY <1>5, <2>2, <2>3, <2>4, <2>5 DEF Environment
  <1> QED
    BY <1>1, <1>4, <1>5

(* For every curve, however it rounds: an LP token loses worth only by a   *)
(* quote of the curve that is against the holders, applied exactly as the  *)
(* curve states it for the reserves, the supply and the fee at that        *)
(* moment.  Nothing else that anyone does to any number of pools dilutes   *)
(* (deposit.rs:83-115, withdraw.rs:76-90, swap.rs:69-87).                  *)
THEOREM DilutionIsTheCurves == Spec => OnlyTheCurveDilutes
  <1> DEFINE Good == \A s \in Seeds : Explained(s)
  <1>1. IInv /\ [Next]_vars => [Good]_vars
    BY NextKept
  <1>2. [][Good]_vars => OnlyTheCurveDilutes
    BY PTL DEF OnlyTheCurveDilutes, Explained
  <1> QED
    BY <1>1, <1>2, InitIInv, StepInv, PTL DEF Spec

-----------------------------------------------------------------------------
(* Tokens                                                                  *)

(* What TokensAccounted says of the balances bal and the supplies lps.     *)
TotalOf(bal, m) == SumFunctionOnSet(bal, Owners \X {m})

Accounted(bal, lps) ==
    /\ \A m \in Tokens : TotalOf(bal, m) = SumFunctionOnSet(Wealth, Wallets \X {m})
    /\ \A s \in Seeds : TotalOf(bal, LpMint(s)) = lps[s]

LEMMA AccountsOfMint ==
    ASSUME NEW m \in Mints
    PROVE  Owners \X {m} \subseteq Ata /\ IsFiniteSet(Owners \X {m})
<1>1. IsFiniteSet(Owners)
  BY FinitenessAssumption, FS_Union DEF Owners
<1>2. IsFiniteSet({m})
  BY FS_Singleton
<1>3. IsFiniteSet(Owners \X {m})
  BY <1>1, <1>2, FS_Product
<1> QED
  BY <1>3 DEF Ata

LEMMA BalancesAreIntegral ==
    ASSUME NEW bal \in [Ata -> U64], NEW m \in Mints
    PROVE  Integral(bal, Owners \X {m}) /\ TotalOf(bal, m) \in Int
<1>1. Integral(bal, Owners \X {m})
  <2> DEFINE T == Owners \X {m}
  <2>1. T \subseteq Ata
    BY AccountsOfMint
  <2>2. \A n \in U64 : n \in Int
    BY ArgumentsAssumption DEF U64
  <2> HIDE DEF T
  <2>3. Integral(bal, T)
    BY <2>1, <2>2 DEF Integral
  <2> QED
    BY <2>3 DEF T
<1> QED
  BY <1>1, AccountsOfMint, SumType DEF TotalOf

(* A transfer between two accounts of one mint leaves every total as it    *)
(* was.                                                                    *)
LEMMA TransferTotal ==
    ASSUME NEW bal \in [Ata -> U64], NEW accts, NEW x \in Owners, NEW y \in Owners,
           NEW mint \in Mints, NEW n \in U64,
           CanTransfer(accts, bal, <<x, mint>>, <<y, mint>>, n), NEW m \in Mints
    PROVE  TotalOf(Transferred(bal, <<x, mint>>, <<y, mint>>, n), m) = TotalOf(bal, m)
<1> DEFINE from == <<x, mint>>
           to == <<y, mint>>
           T == Owners \X {m}
           after == Transferred(bal, from, to, n)
<1>1. from \in Ata /\ to \in Ata /\ (from \in T <=> to \in T)
  BY DEF Ata
<1>2. T \subseteq Ata /\ IsFiniteSet(T) /\ Integral(bal, T)
  BY AccountsOfMint, BalancesAreIntegral
<1>3. MaxU64 \in Nat /\ n <= bal[from]
  BY ArgumentsAssumption DEF CanTransfer
<1> HIDE DEF T, from, to
<1>4. /\ after \in [Ata -> U64]
      /\ \A z \in Ata : z # from /\ z # to => after[z] = bal[z]
      /\ from # to => after[to] = bal[to] + n /\ after[from] = bal[from] - n
  BY <1>1, TransferLaws DEF from, to
<1>5. from = to => after[to] = bal[to]
  BY <1>1, <1>3 DEF Transferred, U64
<1>6. Integral(after, T)
  BY <1>2, <1>3, <1>4 DEF Integral, U64
<1> HIDE DEF after
<1>7. CASE from \notin T \/ from = to
  <2>1. \A z \in T : after[z] = bal[z]
    BY <1>1, <1>2, <1>4, <1>5, <1>7
  <2> QED
    BY <1>2, <2>1, SumEqual DEF TotalOf, after, T, from, to
<1>8. CASE from \in T /\ from # to
  <2>1. SumFunctionOnSet(after, T) =
            SumFunctionOnSet(bal, T) - bal[from] + after[from] - bal[to] + after[to]
    BY <1>1, <1>2, <1>4, <1>6, <1>8, SumChangeTwo
  <2>2. SumFunctionOnSet(bal, T) \in Int /\ bal[from] \in Int /\ bal[to] \in Int /\ n \in Int
    BY <1>1, <1>2, <1>3, <1>8, SumType DEF Integral, U64
  <2>3. SumFunctionOnSet(after, T) = SumFunctionOnSet(bal, T)
    BY <1>4, <1>8, <2>1, <2>2
  <2> QED
    BY <2>3 DEF TotalOf, after, T, from, to
<1> QED
  BY <1>7, <1>8

LEMMA TransferAccounted ==
    ASSUME NEW bal \in [Ata -> U64], NEW lps, Accounted(bal, lps),
           NEW accts, NEW x \in Owners, NEW y \in Owners, NEW mint \in Mints, NEW n \in U64,
           CanTransfer(accts, bal, <<x, mint>>, <<y, mint>>, n)
    PROVE  LET after == Transferred(bal, <<x, mint>>, <<y, mint>>, n)
           IN  after \in [Ata -> U64] /\ Accounted(after, lps)
<1> DEFINE after == Transferred(bal, <<x, mint>>, <<y, mint>>, n)
<1>1. after \in [Ata -> U64]
  BY TransferLaws DEF Ata
<1>2. \A m \in Mints : TotalOf(after, m) = TotalOf(bal, m)
  BY TransferTotal
<1>3. Tokens \subseteq Mints /\ \A s \in Seeds : LpMint(s) \in Mints
  BY DEF Mints
<1> HIDE DEF after
<1>4. Accounted(after, lps)
  BY <1>2, <1>3 DEF Accounted
<1> QED
  BY <1>1, <1>4 DEF after

(* LP tokens that come into or go out of an account, and that the pool     *)
(* counts.                                                                 *)
LEMMA LpAccounted ==
    ASSUME NEW bal \in [Ata -> U64], NEW lps \in [Seeds -> U64], Accounted(bal, lps),
           NEW after \in [Ata -> U64], NEW counted,
           NEW o \in Owners, NEW s \in Seeds, NEW d \in Int,
           after[<<o, LpMint(s)>>] = bal[<<o, LpMint(s)>>] + d,
           \A z \in Ata : z # <<o, LpMint(s)>> => after[z] = bal[z],
           counted[s] = lps[s] + d,
           \A t \in Seeds : t # s => counted[t] = lps[t]
    PROVE  Accounted(after, counted)
<1> DEFINE lp == <<o, LpMint(s)>>
<1>1. ASSUME NEW m \in Mints, m # LpMint(s)
      PROVE  TotalOf(after, m) = TotalOf(bal, m)
  <2> DEFINE T == Owners \X {m}
  <2>1. T \subseteq Ata /\ IsFiniteSet(T)
    BY AccountsOfMint
  <2>2. lp \notin T
    BY <1>1
  <2> HIDE DEF T
  <2>3. \A z \in T : after[z] = bal[z]
    BY <2>1, <2>2
  <2> QED
    BY <2>1, <2>3, SumEqual DEF TotalOf, T
<1>2. TotalOf(after, LpMint(s)) = TotalOf(bal, LpMint(s)) + d
  <2> DEFINE T == Owners \X {LpMint(s)}
  <2>1. LpMint(s) \in Mints
    BY DEF Mints
  <2>2. T \subseteq Ata /\ IsFiniteSet(T) /\ Integral(bal, T) /\ Integral(after, T)
    BY <2>1, AccountsOfMint, BalancesAreIntegral
  <2>3. lp \in T
    OBVIOUS
  <2>4. Shifted(bal, after, T, lp, d)
    BY <2>2 DEF Shifted
  <2> HIDE DEF T, lp
  <2>5. SumFunctionOnSet(after, T) = SumFunctionOnSet(bal, T) + d
    BY <2>2, <2>3, <2>4, SumShift
  <2> QED
    BY <2>5 DEF TotalOf, T
<1>3. \A m \in Tokens : m \in Mints /\ m # LpMint(s)
  BY AddressAssumption DEF Mints
<1>4. \A t \in Seeds : t # s => LpMint(t) \in Mints /\ LpMint(t) # LpMint(s)
  BY DEF Mints, LpMint
<1> HIDE DEF lp
<1> QED
  BY <1>1, <1>2, <1>3, <1>4 DEF Accounted

LEMMA DepositAccounted ==
    ASSUME IInv, Accounted(amount, supply), NEW w \in Wallets, NEW s \in Seeds,
           NEW amt \in Amounts, NEW max_x \in Amounts, NEW max_y \in Amounts,
           Deposit(w, s, amt, max_x, max_y)
    PROVE  Accounted(amount', supply')
<1> DEFINE due == DepositDue(s, amt, max_x, max_y)
           dx == due.x
           dy == due.y
           mx == MintOf(s, TRUE)
           my == MintOf(s, FALSE)
           lp == <<w, LpMint(s)>>
           accts == atas \union {lp}
           paid == Transferred(amount, <<w, mx>>, <<s, mx>>, dx)
           final == Transferred(paid, <<w, my>>, <<s, my>>, dy)
<1>1. dx \in U64 /\ dy \in U64
  BY DepositEffect
<1>2. mx \in Mints /\ my \in Mints
  BY DEF Deposit, IInv, TypeOK, IsPool, MintOf, Config
<1>3. w \in Owners /\ s \in Owners /\ lp \in Ata /\ amt \in U64 /\ MaxU64 \in Nat
  BY LpAccount, ArgumentsAssumption DEF Owners
<1>4. /\ CanTransfer(accts, amount, <<w, mx>>, <<s, mx>>, dx)
      /\ CanTransfer(accts, paid, <<w, my>>, <<s, my>>, dy)
      /\ MintLp(final, lp, s, amt)
  BY DEF Deposit, Vault, Account
<1>5. amount \in [Ata -> U64] /\ supply \in [Seeds -> U64]
  BY DEF IInv, TypeOK
<1> HIDE DEF dx, dy, mx, my, lp, accts
<1>6. paid \in [Ata -> U64] /\ Accounted(paid, supply)
  BY <1>1, <1>2, <1>3, <1>4, <1>5, TransferAccounted
<1> HIDE DEF paid
<1>7. final \in [Ata -> U64] /\ Accounted(final, supply)
  BY <1>1, <1>2, <1>3, <1>4, <1>6, TransferAccounted
<1> HIDE DEF final
<1>8. /\ amount' \in [Ata -> U64]
      /\ amount'[lp] = final[lp] + amt
      /\ \A z \in Ata : z # lp => amount'[z] = final[z]
      /\ supply'[s] = supply[s] + amt
      /\ \A t \in Seeds : t # s => supply'[t] = supply[t]
  BY <1>3, <1>4, <1>5, <1>7 DEF MintLp, U64
<1>9. amt \in Int
  BY <1>3 DEF U64
<1> QED
  BY <1>3, <1>5, <1>7, <1>8, <1>9, LpAccounted DEF lp

(* What both a withdrawal and a holder who burns do first.                 *)
LEMMA BurnAccounted ==
    ASSUME IInv, Accounted(amount, supply), NEW w \in Wallets, NEW s \in Seeds,
           NEW n \in Amounts, CanBurn(<<w, LpMint(s)>>, s, n)
    PROVE  /\ Burned(<<w, LpMint(s)>>, n) \in [Ata -> U64]
           /\ Accounted(Burned(<<w, LpMint(s)>>, n), [supply EXCEPT ![s] = @ - n])
<1> DEFINE lp == <<w, LpMint(s)>>
           after == Burned(lp, n)
           counted == [supply EXCEPT ![s] = @ - n]
           d == 0 - n
<1>1. w \in Owners /\ lp \in Ata /\ n \in U64 /\ MaxU64 \in Nat
  BY LpAccount, ArgumentsAssumption DEF Owners
<1>2. amount \in [Ata -> U64] /\ supply \in [Seeds -> U64]
  BY DEF IInv, TypeOK
<1>3. n <= amount[lp] /\ n <= supply[s]
  BY DEF CanBurn
<1> HIDE DEF lp
<1>4. /\ after \in [Ata -> U64] /\ d \in Int
      /\ after[lp] = amount[lp] + d
      /\ \A z \in Ata : z # lp => after[z] = amount[z]
      /\ counted[s] = supply[s] + d
      /\ \A t \in Seeds : t # s => counted[t] = supply[t]
  BY <1>1, <1>2, <1>3 DEF Burned, U64
<1> HIDE DEF after, counted, d
<1>5. Accounted(after, counted)
  BY <1>1, <1>2, <1>4, LpAccounted DEF lp
<1> QED
  BY <1>4, <1>5 DEF after, counted, lp

LEMMA WithdrawAccounted ==
    ASSUME IInv, Accounted(amount, supply), NEW w \in Wallets, NEW s \in Seeds,
           NEW amt \in Amounts, NEW min_x \in Amounts, NEW min_y \in Amounts,
           Withdraw(w, s, amt, min_x, min_y)
    PROVE  Accounted(amount', supply')
<1> DEFINE due == WithdrawDue(s, amt)
           dx == due.x
           dy == due.y
           mx == MintOf(s, TRUE)
           my == MintOf(s, FALSE)
           burned == Burned(<<w, LpMint(s)>>, amt)
           paid == Transferred(burned, <<s, mx>>, <<w, mx>>, dx)
           final == Transferred(paid, <<s, my>>, <<w, my>>, dy)
<1>1. dx \in U64 /\ dy \in U64
  BY WithdrawEffect
<1>2. mx \in Mints /\ my \in Mints
  BY DEF Withdraw, CanWithdraw, WithdrawPaid, IInv, TypeOK, IsPool, MintOf, Config
<1>3. w \in Owners /\ s \in Owners
  BY DEF Owners
<1>4. /\ CanBurn(<<w, LpMint(s)>>, s, amt)
      /\ CanTransfer(atas, burned, <<s, mx>>, <<w, mx>>, dx)
      /\ CanTransfer(atas, paid, <<s, my>>, <<w, my>>, dy)
      /\ amount' = final /\ supply' = [supply EXCEPT ![s] = @ - amt]
  BY DEF Withdraw, CanWithdraw, WithdrawPaid, Vault, Account, BurnedSupply
<1> HIDE DEF dx, dy, mx, my
<1>5. burned \in [Ata -> U64] /\ Accounted(burned, supply')
  BY <1>4, BurnAccounted
<1> HIDE DEF burned
<1>6. paid \in [Ata -> U64] /\ Accounted(paid, supply')
  BY <1>1, <1>2, <1>3, <1>4, <1>5, TransferAccounted
<1> HIDE DEF paid
<1>7. Accounted(final, supply')
  BY <1>1, <1>2, <1>3, <1>4, <1>6, TransferAccounted
<1> QED
  BY <1>4, <1>7

LEMMA SwapAccounted ==
    ASSUME IInv, Accounted(amount, supply), NEW w \in Wallets, NEW s \in Seeds,
           NEW is_x \in BOOLEAN, NEW amt \in Amounts, NEW min \in Amounts,
           Swap(w, s, is_x, amt, min)
    PROVE  Accounted(amount', supply')
<1> DEFINE due == SwapDue(s, is_x, amt, min)
           paid_in == due.deposit
           paid_out == due.withdraw
           m_in == MintOf(s, is_x)
           m_out == MintOf(s, ~is_x)
           paid == Transferred(amount, <<w, m_in>>, <<s, m_in>>, paid_in)
           final == Transferred(paid, <<s, m_out>>, <<w, m_out>>, paid_out)
<1>1. paid_in \in U64 /\ paid_out \in U64
  BY SwapEffect
<1>2. m_in \in Mints /\ m_out \in Mints
  BY DEF Swap, IInv, TypeOK, IsPool, MintOf, Config
<1>3. w \in Owners /\ s \in Owners /\ amount \in [Ata -> U64]
  BY DEF Owners, IInv, TypeOK
<1>4. /\ CanTransfer(atas, amount, <<w, m_in>>, <<s, m_in>>, paid_in)
      /\ CanTransfer(atas, paid, <<s, m_out>>, <<w, m_out>>, paid_out)
      /\ amount' = final /\ supply' = supply
  BY DEF Swap, Vault, Account
<1> HIDE DEF paid_in, paid_out, m_in, m_out
<1>5. paid \in [Ata -> U64] /\ Accounted(paid, supply)
  BY <1>1, <1>2, <1>3, <1>4, TransferAccounted
<1> HIDE DEF paid
<1>6. Accounted(final, supply)
  BY <1>1, <1>2, <1>3, <1>4, <1>5, TransferAccounted
<1> QED
  BY <1>4, <1>6

LEMMA EnvironmentAccounted ==
    ASSUME IInv, Accounted(amount, supply), NEW w \in Wallets, Environment(w)
    PROVE  Accounted(amount', supply')
<1>1. ASSUME NEW o \in Owners, NEW m \in Mints, NEW n \in Amounts, Send(w, m, o, n)
      PROVE  Accounted(amount', supply')
  <2>1. /\ CanTransfer(atas, amount, <<w, m>>, <<o, m>>, n)
        /\ amount' = Transferred(amount, <<w, m>>, <<o, m>>, n) /\ supply' = supply
    BY <1>1 DEF Send
  <2>2. w \in Owners /\ n \in U64 /\ amount \in [Ata -> U64]
    BY ArgumentsAssumption DEF Owners, IInv, TypeOK
  <2> QED
    BY <2>1, <2>2, TransferAccounted
<1>2. ASSUME NEW s \in Seeds, NEW n \in Amounts, BurnLp(w, s, n)
      PROVE  Accounted(amount', supply')
  BY <1>2, BurnAccounted DEF BurnLp
<1> QED
  BY <1>1, <1>2 DEF Environment, OpenAta, CloseAta

LEMMA NextAccounted ==
    ASSUME IInv, Accounted(amount, supply), [Next]_vars
    PROVE  Accounted(amount', supply')
<1>1. CASE UNCHANGED vars
  BY <1>1 DEF vars
<1>2. ASSUME NEW w \in Wallets, Program(w)
      PROVE  Accounted(amount', supply')
  <2>1. ASSUME NEW s \in Seeds, NEW mint_x \in Mints, NEW mint_y \in Mints, NEW fee \in Fees,
               Initialize(s, mint_x, mint_y, fee)
        PROVE  Accounted(amount', supply')
    BY <2>1 DEF Initialize
  <2> QED
    BY <1>2, <2>1, DepositAccounted, WithdrawAccounted, SwapAccounted DEF Program
<1> QED
  BY <1>1, <1>2, EnvironmentAccounted DEF Next

LEMMA InitAccounted == Init => Accounted(amount, supply)
<1> SUFFICES ASSUME Init PROVE Accounted(amount, supply)
  OBVIOUS
<1>1. IsFiniteSet(Wallets)
  BY FinitenessAssumption
<1>2. ASSUME NEW m \in Tokens
      PROVE  TotalOf(amount, m) = SumFunctionOnSet(Wealth, Wallets \X {m})
  <2> DEFINE T == Owners \X {m}
             W == Wallets \X {m}
  <2>1. T \subseteq Ata /\ IsFiniteSet(T) /\ W \subseteq T /\ W \subseteq Wallets \X Tokens
    BY AccountsOfMint DEF Mints, Owners
  <2>2. IsFiniteSet(W)
    BY <2>1, FS_Subset
  <2>3. \A z \in W : amount[z] = Wealth[z] /\ Wealth[z] \in Int
    BY <2>1, WealthAssumption, ArgumentsAssumption DEF Init, U64
  <2>4. \A z \in T \ W : amount[z] = 0
    <3>1. \A z \in T \ W : z \in Ata /\ z \notin Wallets \X Tokens
      BY <2>1
    <3> HIDE DEF T, W
    <3> QED
      BY <3>1 DEF Init
  <2>5. Integral(amount, W)
    BY <2>3 DEF Integral
  <2> HIDE DEF T, W
  <2>6. SumFunctionOnSet(amount, T) = SumFunctionOnSet(amount, W)
    BY <2>1, <2>4, <2>5, SumZeros
  <2>7. SumFunctionOnSet(amount, W) = SumFunctionOnSet(Wealth, W)
    BY <2>2, <2>3, SumEqual
  <2> QED
    BY <2>6, <2>7 DEF TotalOf, T, W
<1>3. ASSUME NEW s \in Seeds
      PROVE  TotalOf(amount, LpMint(s)) = supply[s]
  <2> DEFINE T == Owners \X {LpMint(s)}
  <2>1. T \subseteq Ata /\ IsFiniteSet(T)
    BY AccountsOfMint DEF Mints
  <2>2. \A z \in T \ {} : amount[z] = 0
    BY <2>1, AddressAssumption DEF Init
  <2> HIDE DEF T
  <2>3. SumFunctionOnSet(amount, T) = SumFunctionOnSet(amount, {})
    BY <2>1, <2>2, SumZeros DEF Integral
  <2> QED
    BY <2>3, SumEmpty DEF TotalOf, T, Init
<1> QED
  BY <1>2, <1>3 DEF Accounted

(* No token is created or destroyed, and the LP tokens in accounts are     *)
(* those the pool counts, for every curve and for pools of other pools' LP *)
(* tokens (deposit.rs:111-115, withdraw.rs:88-90, swap.rs:86-87).          *)
THEOREM TokensAreAccounted == Spec => []TokensAccounted
<1>1. IInv /\ Accounted(amount, supply) /\ [Next]_vars => Accounted(amount, supply)'
  <2> SUFFICES ASSUME IInv, Accounted(amount, supply), [Next]_vars
               PROVE  Accounted(amount', supply')
    BY DEF Accounted, TotalOf
  <2> QED
    BY NextAccounted
<1>2. Accounted(amount, supply) => TokensAccounted
  BY DEF Accounted, TotalOf, TokensAccounted, Held
<1> QED
  BY <1>1, <1>2, InitAccounted, InitIInv, StepInv, PTL DEF Spec

-----------------------------------------------------------------------------
(* When LP tokens can be redeemed                                          *)

(* Only Initialize writes the lock, and it writes FALSE.                   *)
Unlocked == \A s \in Seeds : IsPool(s) => ~config[s].locked

(* A holder of LP tokens can redeem any part of them exactly when it has   *)
(* an account for both tokens and the curve states a due that is no more   *)
(* than the reserves and no less than the minima: the lock never stands in *)
(* the way, the pool counts at least the tokens that are burnt, and no     *)
(* balance overflows.                                                      *)
GuardsWithdraw ==
    \A s \in Seeds, w \in Wallets, amt \in U64 \ {0}, min_x, min_y \in U64 :
        LET due == WithdrawDue(s, amt)
        IN  IsPool(s) =>
                (CanWithdraw(w, s, amt, min_x, min_y) <=>
                    /\ <<w, LpMint(s)>> \in atas /\ amt <= amount[<<w, LpMint(s)>>]
                    /\ {Account(w, s, TRUE), Account(w, s, FALSE)} \subseteq atas
                    /\ due # CurveError
                    /\ min_x <= due.x /\ due.x <= Reserve(s, TRUE)
                    /\ min_y <= due.y /\ due.y <= Reserve(s, FALSE))

LEMMA UnlockedPreserved == IInv /\ Unlocked /\ [Next]_vars => Unlocked'
<1> SUFFICES ASSUME IInv, Unlocked, [Next]_vars, NEW t \in Seeds, IsPool(t)'
             PROVE  ~config'[t].locked
  BY DEF Unlocked
<1>1. ASSUME NEW s \in Seeds, NEW mint_x \in Mints, NEW mint_y \in Mints, NEW fee \in Fees,
             Initialize(s, mint_x, mint_y, fee)
      PROVE  ~config'[t].locked
  <2>1. config' = [config EXCEPT ![s] = [mint_x |-> mint_x, mint_y |-> mint_y,
                                         fee |-> fee, locked |-> FALSE]]
    BY <1>1 DEF Initialize
  <2>2. CASE t = s
    BY <2>1, <2>2 DEF IInv, TypeOK
  <2>3. CASE t # s
    BY <2>1, <2>3 DEF IInv, TypeOK, Unlocked, IsPool
  <2> QED
    BY <2>2, <2>3
<1>2. CASE config' = config
  BY <1>2 DEF Unlocked, IsPool
<1>3. ASSUME NEW w \in Wallets, Environment(w)
      PROVE  config' = config
  BY <1>3 DEF Environment, OpenAta, Send, CloseAta, BurnLp
<1>4. ASSUME NEW w \in Wallets, NEW s \in Seeds,
             \/ \E amt, a, b \in Amounts : Deposit(w, s, amt, a, b) \/ Withdraw(w, s, amt, a, b)
             \/ \E is_x \in BOOLEAN, amt, min \in Amounts : Swap(w, s, is_x, amt, min)
      PROVE  config' = config
  BY <1>4 DEF Deposit, Withdraw, Swap
<1>5. CASE UNCHANGED vars
  BY <1>2, <1>5 DEF vars
<1> QED
  BY <1>1, <1>2, <1>3, <1>4, <1>5 DEF Next, Program

(* The accounts of one mint hold no more than a u64 together, and those of *)
(* an LP mint no more than the pool counts.                                *)
LEMMA MintsAreBounded ==
    ASSUME IInv, Accounted(amount, supply), NEW m \in Mints, NEW o \in Owners
    PROVE  /\ \A s \in Seeds : m = LpMint(s) => amount[<<o, m>>] <= supply[s]
           /\ \A q \in Owners : q # o => amount[<<o, m>>] + amount[<<q, m>>] <= MaxU64
<1> DEFINE T == Owners \X {m}
           total == SumFunctionOnSet(amount, T)
<1>1. MaxU64 \in Nat /\ amount \in [Ata -> U64] /\ supply \in [Seeds -> U64]
  BY ArgumentsAssumption DEF IInv, TypeOK
<1>2. T \subseteq Ata /\ IsFiniteSet(T)
  BY AccountsOfMint
<1>3. \A q \in Owners : <<q, m>> \in T
  OBVIOUS
<1>4. total = TotalOf(amount, m)
  BY DEF TotalOf
<1> HIDE DEF T
<1>5. \A z \in T : amount[z] \in Nat
  BY <1>1, <1>2 DEF U64
<1>6. total \in Nat
  BY <1>2, <1>5, SumIsNatural
<1>7. \A s \in Seeds : m = LpMint(s) => total = supply[s]
  BY <1>4 DEF Accounted
<1>8. total <= MaxU64
  <2>1. CASE m \in Tokens
    BY <2>1, <1>4, SupplyAssumption DEF Accounted
  <2>2. CASE \E s \in Seeds : m = LpMint(s)
    BY <1>1, <1>7, <2>2 DEF U64
  <2> QED
    BY <2>1, <2>2 DEF Mints
<1>9. amount[<<o, m>>] <= total
  BY <1>2, <1>3, <1>5, SumBoundsTerms
<1>10. ASSUME NEW q \in Owners, q # o
       PROVE  amount[<<o, m>>] + amount[<<q, m>>] <= MaxU64
  <2>1. <<o, m>> # <<q, m>>
    BY <1>10
  <2>2. amount[<<o, m>>] + amount[<<q, m>>] <= total
    BY <1>2, <1>3, <1>5, <2>1, SumBoundsTerms
  <2>3. amount[<<o, m>>] \in Nat /\ amount[<<q, m>>] \in Nat
    BY <1>3, <1>5
  <2> QED
    BY <1>1, <1>6, <1>8, <2>2, <2>3
<1> QED
  BY <1>7, <1>9, <1>10

(* One share can be paid out of the balances bal if the vault covers it:   *)
(* the account can hold it, as long as both hold what they hold now.       *)
LEMMA ShareCanBePaid ==
    ASSUME IInv, Accounted(amount, supply), NEW s \in Seeds, IsPool(s), NEW w \in Wallets,
           NEW b \in BOOLEAN, NEW n \in U64, NEW bal,
           bal[Vault(s, b)] = amount[Vault(s, b)],
           bal[Account(w, s, b)] = amount[Account(w, s, b)]
    PROVE  CanTransfer(atas, bal, Vault(s, b), Account(w, s, b), n)
               <=> n <= Reserve(s, b) /\ Account(w, s, b) \in atas
<1>1. MintOf(s, b) \in Mints
  BY DEF IInv, TypeOK, IsPool, MintOf, Config
<1>2. w \in Owners /\ s \in Owners /\ w # s
  BY AddressAssumption DEF Owners
<1>3. amount[Account(w, s, b)] + amount[Vault(s, b)] <= MaxU64
  BY <1>1, <1>2, MintsAreBounded DEF Account, Vault
<1>4. /\ amount[Account(w, s, b)] \in Nat /\ amount[Vault(s, b)] \in Nat
      /\ n \in Nat /\ MaxU64 \in Nat
  BY <1>2, AccountTypes, ReserveTypes, ArgumentsAssumption DEF IInv, TypeOK, U64
<1>5. Reserve(s, b) = amount[Vault(s, b)]
  BY DEF Reserve
<1>6. n <= amount[Vault(s, b)] => amount[Account(w, s, b)] + n <= MaxU64
  BY <1>3, <1>4
<1> QED
  BY <1>5, <1>6, VaultsIn DEF CanTransfer

LEMMA WithdrawGuard ==
    ASSUME IInv, Accounted(amount, supply), Unlocked, NEW s \in Seeds, IsPool(s),
           NEW w \in Wallets, NEW amt \in U64 \ {0}, NEW min_x \in U64, NEW min_y \in U64
    PROVE  LET due == WithdrawDue(s, amt)
           IN  CanWithdraw(w, s, amt, min_x, min_y) <=>
                   /\ <<w, LpMint(s)>> \in atas /\ amt <= amount[<<w, LpMint(s)>>]
                   /\ {Account(w, s, TRUE), Account(w, s, FALSE)} \subseteq atas
                   /\ due # CurveError
                   /\ min_x <= due.x /\ due.x <= Reserve(s, TRUE)
                   /\ min_y <= due.y /\ due.y <= Reserve(s, FALSE)
<1> DEFINE due == WithdrawDue(s, amt)
           lp == <<w, LpMint(s)>>
           ux == Account(w, s, TRUE)
           uy == Account(w, s, FALSE)
           vx == Vault(s, TRUE)
           vy == Vault(s, FALSE)
           burned == Burned(lp, amt)
           paid == Transferred(burned, vx, ux, due.x)
<1>1. /\ ux \in Ata /\ uy \in Ata /\ vx \in Ata /\ vy \in Ata /\ lp \in Ata
      /\ Reserve(s, TRUE) \in U64 /\ Reserve(s, FALSE) \in U64 /\ supply[s] \in U64
  BY AccountTypes, ReserveTypes, LpAccount DEF Owners, IInv
<1>2. /\ ux # uy /\ vx # vy /\ ux # vx /\ ux # vy /\ uy # vx /\ uy # vy
      /\ lp # vx /\ lp # vy /\ lp # ux /\ lp # uy
  <2>1. lp # ux /\ lp # uy
    BY DEF IInv, VaultsStand, Account, MintOf
  <2> QED
    BY <2>1, AccountsApart DEF IInv, Mints
<1>3. amt \in Nat /\ amt > 0 /\ amt \in U64 /\ MaxU64 \in Nat /\ amount \in [Ata -> U64]
  BY ArgumentsAssumption DEF U64, IInv, TypeOK
<1>4. amount[lp] <= supply[s]
  BY MintsAreBounded DEF Owners, Mints
<1>5. amt <= amount[lp] => amt <= supply[s]
  BY <1>1, <1>3, <1>4, ArgumentsAssumption DEF U64
<1>6. ~config[s].locked /\ amt # 0
  BY <1>3 DEF Unlocked
<1>7. ASSUME due # CurveError, amt <= amount[lp]
      PROVE  /\ due.x \in Nat /\ due.y \in Nat
             /\ CanTransfer(atas, burned, vx, ux, due.x)
                    <=> due.x <= Reserve(s, TRUE) /\ ux \in atas
             /\ CanTransfer(atas, paid, vy, uy, due.y)
                    <=> due.y <= Reserve(s, FALSE) /\ uy \in atas
  <2>1. due = WithdrawAmounts(Reserve(s, TRUE), Reserve(s, FALSE), supply[s], amt)
    BY DEF WithdrawDue
  <2>2. due \in [x : U64, y : U64]
    <3>1. WithdrawAmounts(Reserve(s, TRUE), Reserve(s, FALSE), supply[s], amt)
              \in [x : U64, y : U64] \union {CurveError}
      BY <1>1, <1>3, CurveAssumption
    <3> QED
      BY <1>7, <2>1, <3>1
  <2>4. due.x \in U64 /\ due.y \in U64 /\ due.x \in Nat /\ due.y \in Nat
    <3>1. due.x \in U64 /\ due.y \in U64
      <4> HIDE DEF due
      <4> QED BY <2>2
    <3> HIDE DEF due
    <3> QED
      BY <1>3, <3>1 DEF U64
  <2>6. \A z \in Ata \ {lp} : burned[z] = amount[z]
    BY <1>3 DEF Burned
  <2> DEFINE n == due.x
  <2>7. \A z \in Ata \ {lp, vx, ux} : paid[z] = amount[z]
    <3>1. burned \in [Ata -> Int]
      BY <1>1, <1>3 DEF Burned, U64
    <3> HIDE DEF burned, vx, ux, n, lp
    <3> QED
      BY <2>6, <3>1 DEF Transferred
  <2>8. /\ burned[vx] = amount[vx] /\ burned[ux] = amount[ux]
        /\ paid[vy] = amount[vy] /\ paid[uy] = amount[uy]
    <3> HIDE DEF burned, paid, vx, vy, ux, uy, lp
    <3> QED
      BY <1>1, <1>2, <2>6, <2>7
  <2> HIDE DEF due, burned, paid
  <2>9. CanTransfer(atas, burned, vx, ux, due.x) <=> due.x <= Reserve(s, TRUE) /\ ux \in atas
    BY <2>4, <2>8, ShareCanBePaid
  <2>10. CanTransfer(atas, paid, vy, uy, due.y) <=> due.y <= Reserve(s, FALSE) /\ uy \in atas
    BY <2>4, <2>8, ShareCanBePaid
  <2> QED
    BY <2>4, <2>9, <2>10
<1>8. CanWithdraw(w, s, amt, min_x, min_y) <=>
          /\ due # CurveError /\ due.x >= min_x /\ due.y >= min_y
          /\ lp \in atas /\ amt <= amount[lp] /\ amt <= supply[s]
          /\ CanTransfer(atas, burned, vx, ux, due.x)
          /\ CanTransfer(atas, paid, vy, uy, due.y)
  BY <1>6 DEF CanWithdraw, CanBurn, WithdrawPaid
<1> HIDE DEF due, burned, paid, vx, vy
<1>9. CanWithdraw(w, s, amt, min_x, min_y) <=>
          /\ lp \in atas /\ amt <= amount[lp]
          /\ ux \in atas /\ uy \in atas
          /\ due # CurveError /\ due.x >= min_x /\ due.y >= min_y
          /\ due.x <= Reserve(s, TRUE) /\ due.y <= Reserve(s, FALSE)
  BY <1>5, <1>7, <1>8
<1>10. due # CurveError /\ amt <= amount[lp] =>
           (due.x >= min_x <=> min_x <= due.x) /\ (due.y >= min_y <=> min_y <= due.y)
  BY <1>7
<1> QED
  BY <1>9, <1>10 DEF due

(* A provider can redeem LP tokens in every reachable state and in any     *)
(* part, unless the curve refuses or quotes more than the reserves: no     *)
(* pool is ever locked, no trade, gift or burn leaves the supply short of  *)
(* the tokens burnt, and tokens that fit in a u64 as a supply fit in any   *)
(* account (withdraw.rs:52-91).  Nothing is assumed of how the curve       *)
(* rounds.                                                                 *)
THEOREM OnlyTheCurveRefusesWithdrawals == Spec => []GuardsWithdraw
<1>1. IInv /\ Accounted(amount, supply) /\ [Next]_vars => Accounted(amount, supply)'
  <2> SUFFICES ASSUME IInv, Accounted(amount, supply), [Next]_vars
               PROVE  Accounted(amount', supply')
    BY DEF Accounted, TotalOf
  <2> QED
    BY NextAccounted
<1>2. Init => Unlocked
  BY DEF Init, Unlocked, IsPool
<1>3. IInv /\ Accounted(amount, supply) /\ Unlocked => GuardsWithdraw
  BY WithdrawGuard DEF GuardsWithdraw
<1> QED
  BY <1>1, <1>2, <1>3, InitAccounted, InitIInv, StepInv, UnlockedPreserved, PTL DEF Spec

=============================================================================
