# Verification of the Turbin3 builder programs

TLA+ models, TLC model checks and TLAPS proofs of the six Solana programs in
`src/`. This file is for a reader who has the repository: it lists the parts of
the system, says which module models which code and how, what every run and
every proof shows, on which assumptions, and what is left.

Paths below are relative to `src/`; `README.md:NN` next to a component means
that component's own README.

## 1. The system

Six independent Anchor programs. None calls another; they meet only in the
programs they all call: the system program (lamports), the SPL token programs
(token accounts, mints) and MPL Core (NFT assets). A program keeps no memory:
its state is the set of accounts it owns, and those the other programs own.

| component | code | state it keeps | operations | status |
|---|---|---|---|---|
| escrow | `escrow/programs/escrow/src` | `Escrow` account per (maker, seed); a vault token account owned by it | `make`, `take`, `refund` | modelled |
| vault | `vault/programs/vault/src` | `vault_state` account per user; lamports at the vault address | `initialize`, `deposit`, `withdraw`, `close` | modelled |
| dice ("introspection") | `introspection/programs/introspection/src` | a vault per house; `Bet` account per (house, seed) | `initialize`, `place_bet`, `resolve_bet`, `refund_bet` | modelled |
| nft-staking | `nft-staking/programs/nft-staking/src` | `Config` per collection; attributes and freeze plugin of each asset (in MPL Core) | `create_collection`, `initialize`, `mint_assets`, `stake`, `unstake` | modelled |
| marketplace | `marketplace/programs/marketplace/src` | `Marketplace` per name, treasury, rewards mint; `Listing` per asset | `initialize`, `list`, `buy` | modelled |
| amm | `amm/programs/amm/src` | `Config` per seed, LP mint, two vaults | `initialize`, `deposit`, `withdraw`, `swap` | modelled, with the curve external |
| clients, tests, deployment | `*/tests`, `*/migrations`, `amm/runbooks` | none | - | an escrow client is modelled, the rest not |

### One transaction, one action

A Solana transaction is atomic: an instruction that fails, in Anchor's account
checks, in its own code or in a program it calls, leaves no trace. So each
action of a module is one transaction with one instruction, its guard is the
conjunction of everything that can make it fail, and its effect is all the
writes of the instruction, those of the called programs and of Anchor's account
constraints (`init`, `init_if_needed`, `close`) included. Interleaving is
between transactions. What other people can do to the same accounts without
going through the program (send tokens or lamports, open and close token
accounts, sell an asset) is modelled as environment actions.

### What is hard, per component

- **Escrow.** Anyone may send tokens to a vault while the offer is open, so its
  balance is not the deposit; token accounts of maker and taker come and go;
  maker and taker, or the two mints, may be the same; the address of a closed
  offer is used again with other terms; a `take` may execute long after it was
  signed. Correct means: an open offer is backed by its vault, keeps its terms,
  never closes at the maker's loss, can always be refunded, and a taker gets the
  terms they agreed to.
- **Vault.** The vault is an address without data: it can be paid before
  `initialize` and after `close`, and the runtime's rent rule makes some
  withdrawals fail. Correct means: only the owner takes lamports out, nothing is
  stranded, `close` returns everything.
- **Dice.** All bets of a house share one vault; resolution and refund race;
  bet addresses are used again; the payout arithmetic has a divisor that can be
  zero, a difference that can underflow and a cast that can drop bits. Correct
  means: each bet is paid at most once, from its own house's vault; the edge is
  what it claims; bets can be resolved.
- **NFT staking.** The truth about an asset is spread over an attribute list and
  a plugin of another program, both written by separate calls, with owners who
  may sell, add and remove plugins in between. Correct means: what is called staked
  is frozen, staked assets stay, they are released after the freeze period and not before.
- **Marketplace.** A listing is not bound to a marketplace, a purchase has five
  effects, and account addresses depend on a stored bump. Correct means: a
  listed asset is held until bought and stays for sale, points and fees follow
  purchases, fees are bounded.
- **AMM.** Amounts follow from vault balances and LP supply at the time of
  execution; first deposit and empty pool are special; burning and two payments
  belong together; LP tokens are ordinary tokens that may be burnt, given away or
  put into other pools; the fee is unchecked; the curve is called with a very low
  precision. Correct means: nothing but the rounding of the curve makes an LP
  token worth less, tokens and supplies stay accounted for, and a provider can
  always leave.

The full list of hazards, each at its line, is in `PROJECT.json`.

## 2. Modules

| module | what it is |
|---|---|
| `Escrow` | the escrow program, with the token programs it calls and what wallets do besides it |
| `AtomicSwap` | the promise of the escrow program: offers, lots and purses, no accounts |
| `EscrowRefinement` | the mapping from `Escrow` to `AtomicSwap` and the property `ImplementsSwap` |
| `EscrowClients` | composes `Escrow` with clients: takes that are read, signed, delayed, reordered, dropped |
| `Dice` | the dice program with clock, rent and the signed message |
| `Vault` | the vault program with the rent rule |
| `NftStaking` | the staking program with attribute lists, freeze plugin and clock |
| `Marketplace` | the marketplace program with bumps, token programs of mints, and rent |
| `Amm` | the pool program, with the token program it calls and what wallets do besides it |
| `XProofs` | theorems about `X` (`AmmProofs`, `EscrowProofs`, `DiceProofs`, `VaultProofs`, `NftStakingProofs`, `MarketplaceProofs`) |
| `EscrowPromiseProofs` | theorems about `EscrowRefinement` and `EscrowClients` |
| `SumProofs` | the laws of sums over finite sets that the conservation theorems use |
| `MCX` | instances for TLC, and the fairness of the runs that check liveness |

### Escrow

`escrow[p]` is the `Escrow` account at the address derived from maker and seed
(`p`), `atas`/`amount` the token accounts by owner and mint, with the vault of
`p` being the account owned by `p`; `sol` collects what wrapped-SOL accounts pay
out when closed; `deposited` is a history variable that only properties read.
`Make`, `Take`, `Refund` follow `make.rs`, `take.rs`, `refund.rs`: account
constraints first (`MakeInits`, `TakeHasOne`, `TakeInits`), then the transfers,
then the closing of vault and account. Three details of the code shape the
model and are easily overlooked:

- `take` pays out `escrow.receive` of mint A, not the vault's balance
  (`take.rs:109`), and then closes the vault, which the token program refuses
  while it holds tokens (`CanClose`), except for wrapped SOL.
- `maker_ata_b` is created at the expense of the maker, who need not sign, so
  that the creation fails unless they do (`CanInitMakerAtaB`).
- `refund` closes the vault through `anchor_spl::token`, which calls the
  original token program whoever owns the vault (`CanRefundClose`), while `take`
  uses the interface.

`OpenAta`, `CloseAta` and `Send` are what anyone can do with token accounts.
Rent is left out here (the maker pays it and gets it back in every path), as are
Token-2022 extensions such as transfer fees, lamports sent to a wrapped-SOL
account without `sync_native`, and `instructions/initialize.rs`, which no entry
point reaches. Where maker and taker are one wallet and Anchor would refuse to
take the same account twice, the model is more permissive than the code: its
safety properties then hold for more behaviours than the program has.

`AtomicSwap` states the promise: an offer holds a lot; it ends when a taker pays
the price and gets the *whole* lot, or when the maker cancels and gets the whole
lot; others may only add to a lot. `EscrowRefinement` maps an open offer to its
account and its vault's balance, a purse to the wallet's token account.

`EscrowClients` adds `signed`, the takes in flight, each with the account its
taker read. A take carries mints, maker and seed but no amounts, so executing it
(`LandTake`) settles whatever is at that address by then, and a maker may have
closed the offer and opened another under the same seed. `outlived` is a history
variable that only properties read: the takes in flight whose offer was closed
since it was read.

### Vault

`vault_state` is the set of users whose account exists, `vault[u]` the lamports
at the vault address, `lamports[u]` the wallet. `RentOk` is the runtime's rule
that an account a transaction writes ends empty or above the minimum; it makes
some deposits and withdrawals fail. `initialize` neither creates nor funds the
vault. `SeedsOf` is what ties all accounts to the signer. Stored bumps are the
canonical ones and are left out; lamports sent to the address of a
`vault_state` before it exists are not modelled.

### Dice

`bet[p]` is the bet account by house and seed, `slot` the clock. In `Resolve`
the first instruction of the transaction is a record (`Ed25519`) with what the
introspection code reads of it: signer, signature, message; the byte layout is
abstracted. The message is the whole bet account, so it is compared with the
stored bet. A signature stands for the roll its hash gives. `Chance` is computed
before the comparison and panics above a roll of 100 (`overflow-checks = true`),
`Payout` keeps `checked_div` and the truncating cast to u64. `Refund` follows
the code in paying whichever wallet signs it, and in never being held back by the
timeout (`TimeoutReached`).

### NftStaking

One collection. `collection` says whether it exists and whether the program's
address is its update authority. `asset[a]` has an owner, the attributes the
program reads and writes, and the state of `FreezeDelegate`. Assets of
`mint_assets` have no Attributes plugin, and only the update authority could add
one; so assets with attributes come from collections made elsewhere and handed
over (`CreateOutside`, `CreateWithAttributes`, `HandOver`), and are assumed not
to use the program's own keys before. `Stake` keeps the code's structure, in
which everything, the freezing included, happens inside the branch for assets
that have attributes (`stake.rs:64-132`): on others it succeeds and does
nothing. Time is in units of which `SecondsPerDay` make a day. `Transfer`,
`AddFreeze` and `RemoveFreeze` are what MPL Core lets an owner do: a frozen
asset is neither sold nor stripped of the plugin, and the plugin is the owner's to
add. `stake` shows that the owner alone authorises the addition, frozen and under
the authority of the collection (a plain `invoke`, `stake.rs:122-130`), so
`AddFreeze` lets an owner do the same without staking, or add it thawed, or under
an authority of their own (`"own"`, which the program cannot thaw). The bound on rewards (`MaxRewards`) is in
`RemoveFreeze`, without which no further rewards can be earned.

### Marketplace

`market[m]`, `listing[a]`, `owner[a]` (a wallet, or `Listing` for the address of
`a`'s own listing), `treasury[m]`, `lamports`, `points[m][w]`. The three
constants `TreasuryBump`, `RewardsBump` and the stored `rewards_bump` carry the
bumps, because `initialize` stores the treasury's bump as the rewards mint's and
`buy` recomputes the mint's address from it. `CanMintPoint` only holds for
mints of the original token program, which is the one `anchor_spl::token::mint_to`
calls. `AfterBuy` and `CanPay` keep the payments of the code: account rent and fee,
then the listing's rent to the maker at the end; the payment of the price to the maker
is commented out in the code and so is not there. Purchases use a transaction that
marks the rewards mint writable, which the `Buy` accounts do not ask for but the
mint needs. `MaxPoints` stands for the u64 limit of the supply; only an empty
treasury receives gifts, since more lamports in it change nothing.

### Amm

`config[s]` is the pool's account, `atas`/`amount` the token accounts by owner
and mint as in `Escrow`, a pool's vaults being those its config owns, and
`supply[s]` the LP tokens in existence. An LP mint is a mint like any other, so
pools of LP tokens are part of the model. `Initialize`, `Deposit`, `Withdraw` and
`Swap` follow the four files of `instructions/`: constraints, `require!`s, the
amounts, then the calls in their order. Where the pool's own code decides
something the model keeps it:

- `FirstDeposit` takes the client's maxima as amounts only while supply *and*
  both vaults are zero (`deposit.rs:84`); any gift or leftover ends that.
- `withdraw.rs:76` computes the share from the supply *before* the burn
  (`WithdrawDue`); `withdraw.rs:88` burns first and pays then.
- `Swap` checks neither the lock nor the limits itself: the minimum goes into the
  curve (`swap.rs:83`), as does the fee, of which any u16 was stored
  (`initialize.rs:64`).

The arithmetic is that of an external crate whose code is not in the repository.
It enters as three constant operators (`DepositAmounts`, `WithdrawAmounts`,
`SwapResult`), of which only `CurveAssumption` is assumed: results are u64, a swap
takes at most what is offered and gives at least the minimum. Nothing is assumed
of its rounding, as the code calls it with the literal precision 6. `MCAmm` gives
the runs a curve that takes that argument as the number of steps in which a part
of the supply is counted (`Ratio`), with everything rounded down; parts then come
out coarse, and a deposit can be charged less than its part or nothing.
`OpenAta`, `CloseAta`, `Send` and `BurnLp` are what
anyone can do with tokens. Rent and the stored `authority`, which no instruction
reads, are left out.

## 3. Runs

| run | instance | shows |
|---|---|---|
| `escrow_safety` | two wallets that both make and take, two mints, gold being wrapped SOL, one seed per maker, amounts 0..2 | `VaultBacked`: every open offer's vault exists and covers the deposit. `OpenOfferStable`: an open offer keeps its terms and its vault never shrinks. `MakerMadeWhole`: the step that closes an offer pays the maker the price, or everything the vault held. `TokensConserved`: tokens only move, wrapped SOL counted with the lamports unwrapped. `AlwaysRefundable`: whatever happened to the vault, a maker with an account for mint A can get a refund. |
| `escrow_promise` | the same without wrapped SOL, amounts 1..2, with fairness | `ImplementsSwap`: every transaction is a step of `AtomicSwap` or invisible to it. `EveryOfferEnds`. |
| `escrow_clients` | a take in flight, offers closed and made again under the same seed | `SettledOnReadTerms`: a take settles an offer of the mints it was signed for at that offer's price, and the terms its taker read unless that offer was closed meanwhile. |
| `amm` | one pool, two wallets that provide, trade, give and burn, amounts 0..2, u64 up to 3, fees 0 and 20000 basis points, with fairness | `OnlyTheCurveDilutes`: the product of the reserves per square of the supply falls only in a step that moves exactly what the curve quotes at that moment, a quote that is itself against the holders. `TokensAccounted`: no token is created or lost, and the LP tokens held are those the supply counts. `VaultsStand`: two vaults of two mints. `Withdrawable`, `EveryProviderLeaves`: a provider can redeem everything, and does if they keep asking, also at a pool whose fee refuses every swap. |
| `dice_table` | two tables with two bets each, one player, with fairness | `VaultPaysForSettlements`: vaults only pay for their own bets, each once. `HouseEdge`: over the hundred rolls at most 98.5% of a stake returns, and less only by rounding. `Resolvable`: no roll makes the resolution of a bet up to 100 fail. `LamportsConserved`. `EveryBetEnds`: whatever the others at the same table do, a player who keeps asking gets out of every bet the vault can cover. |
| `vault` | three users, one rich, one who has to choose, one with the rent alone | `OnlyOwnerDrains`, `CloseReturnsAll`, `Recoverable`: nothing is stranded. `LamportsConserved`. |
| `nft_staking` | two owners, two assets, days of two seconds, periods of 0 and 2 days, with fairness | `StakedIsFrozen`: what the attributes call staked is frozen, also among assets their owners freeze without staking. `StakedStays`. `Releasable`: nothing is held longer than the period. `EveryStakeEnds`: an owner who keeps asking gets a staked asset back. |
| `marketplace` | two wallets, two assets, a marketplace whose bumps agree, one whose bumps do not, one blank name; fees 0, 1000 and 1500 | `ListedIsHeld`, `HeldUntilBought`, `PointsForPurchases`, `FeeAtMostTenth`, `Sellable`: no listing is stuck where the bumps agree and the treasury is funded. `LamportsConserved`. |

Four runs end in a violation: each checks something a document, a comment or an
error message of the repository says, which the code does not do.

| run | property | what happens |
|---|---|---|
| `escrow_takeable` | `FundedTakeable` | an offer whose deposit differs from its price, or whose vault got a gift, can be taken by nobody: the vault does not close (`take.rs:109`; README.md:28) |
| `escrow_token2022` | `AlwaysRefundable` | an offer under Token-2022 can never be refunded (`refund.rs:3`; README.md:122,136) |
| `amm_precision` | `LpForContribution` | a deposit of one LP token into a supply of eight is charged nothing, the curve being called with a precision of 6 (`deposit.rs:96`; amm README.md:87) |
| `nft_freeze` | `FreezePeriodHolds` | an asset is unstaked before its freeze period: `stake` writes `stake_at`, `unstake` reads `staked_at` (`unstake.rs:96`; `config.rs:7`) |

`amm_precision` is about the call, not about the crate, which is not in the
repository: it holds for every curve that counts parts in as many steps as its
last argument says. Its instance has one provider with sixteen of each token, so
that eight LP tokens are a supply against which one is small.

Disagreements that the models contain and no run is spent on: a bet can be
refunded in the slot it was placed in, as the difference of two u64 is compared
with `>= 0` (`refund_bet.rs:33`), although `errors.rs:17` has an error for a
timeout not yet reached, which is proved of every bet (`TimeoutNeverRefuses`); a
take in flight may settle another offer, made later under the same seed, at a
higher price than its taker read, as the instruction carries no amount
(`lib.rs:25`); a pool whose vaults hold anything while its supply is
zero, after a gift or after the last LP tokens were burnt outside the program,
takes no deposit again (`deposit.rs:84`, amm README.md:135-140); a fee above
100 % is stored (`initialize.rs:64`), although an error of amm `error.rs` says
that it can only be between 0 and 100; nothing sets a pool's lock and `swap` does
not look at it (`swap.rs:67`, amm README.md:244-256); amm README.md:173-174 burns
before it computes the share, the code computes first; a take by a taker
who signs alone fails when `maker_ata_b` is missing, although escrow
README.md:112 has it created; with wrapped SOL as mint A the difference of
deposit and price goes back to the maker as lamports, although README.md:114
gives the taker everything; a bet on more than 100 is accepted and can never be
resolved, although the comment at `resolve_bet.rs:107` excludes it; vault
README.md:22 has `initialize` create a vault it does not create; `stake` does
nothing for an asset of `mint_assets`, although the comment at `stake.rs:96`
adds the plugin; an asset that its owner froze under the authority of the
collection without staking it, and that has no `staked` attribute yet, can be
unstaked, for no rewards, although an error of `unstake.rs:93` is for assets that
are not staked, and one that was staked before, its attribute now being false,
stays frozen, as `unstake` alone thaws and refuses it; after a second staking the rewards count days since 1970.

### Bounds, and why they are enough

- *Two wallets* in the escrow runs make and take each other's offers, and their
  own; the second is also the passer-by who sends gifts. A third would repeat
  one of these parts: no guard compares more than maker and taker.
- *One seed per maker* gives two offers at a time and the rebirth of an address
  after it was closed; more seeds add offers that share only wallet balances,
  which the two makers' offers already do through payments.
- *Amounts* 0, 1, 2 against a wealth of 2 and 1 contain zero, equality of
  deposit and price, either being larger, a gift, and an overdraft.
- `MaxInFlight = 1`: a take in flight races everything else; two would race each
  other only through the escrow account, where the first to land closes it.
- *Dice*: rolls 50, 99, 100 and 101 are the middle, the last winning number, the
  zero divisor and the roll that can never be resolved; outcomes 1, 51 and 100
  fall on either side of each. `MaxSlot =
  1` is enough, as the only use of the clock is the (never failing) comparison.
  `U64` is 2^20 in the instance, above every payout, so that nothing wraps
  there; the truncation itself is part of `Payout`. `HouseEdge` is computed for the
  `Stakes` 1, 999 and 10000, and proved for every stake whose winnings fit.
- *Amm*: one pool, because no instruction touches two; that pools of each other's
  LP tokens do not disturb one another is proved (`OthersKept` in `AmmProofs`),
  for which two pools would be too large an instance. Three units of each token
  and u64 up to 3 give the first deposit, exact and rounded parts, a supply at its
  limit, an emptied pool and an unfunded one, and quotes of the curve that dilute;
  a fee of 20000 makes the curve refuse every swap.
- *Vault*: amounts 0..3 against a rent minimum of 2 give dust, exact minima and
  overdrafts.
- *NFT*: six ticks cover two stakings with their periods, and `MaxRewards` allows
  staking, selling, staking again; `Start = 3` keeps a date of zero in the past.
- *Marketplace*: prices 20 and 60 with a fee of 1000 give a fee below and above
  the rent minimum of 3; wealth 28 pays for two listings, a marketplace and
  purchases at the limit.

Deadlock is checked everywhere except for dice and marketplace, where wallets
may have spent what every instruction needs and the system really stops, and for
NFT staking, where owners may have frozen every asset for good (see
the disagreements above) and only the clock goes on, to its bound.
Symmetry is used for the marketplace only, whose wallets and assets start alike.

### Fairness

The programs never act by themselves; that a transaction sent again and again is
eventually executed is what the cluster offers a client who retries. So fairness
is only assumed of the one who wants something and keeps asking, and never of
counterparties, houses or passers-by:

- `escrow_promise`, `MakersReclaim`: strong fairness of the maker's `Refund`, weak
  fairness of opening the maker's own account for mint A.
- `dice_table`, `PlayersReclaim`: strong fairness of the refund of each bet, sent
  by its player.
- `amm`, `ProvidersLeave`: strong fairness of withdrawing everything one holds.
- `nft_staking`, `OwnersUnstake`: weak fairness of `Unstake`, and of the clock.

Strong fairness is needed where others can make and remove the condition in
between: close and open accounts, drain a vault, change a share. What the code
leaves to others is a premise instead: `EveryBetEnds` asks that time and again the
vault covers the stake (`resolve_bet.rs:124` keeps no reserve for open bets),
`EveryProviderLeaves` that time and again the provider has accounts for both
tokens (`withdraw.rs:46-58` does not create them). Unstaking, once possible, stays
so, hence weak fairness there.

## 4. Proofs

Checked by TLAPS for every value of the constants: any sets of wallets, seeds,
mints, assets, any amounts. Each proof module finds an inductive invariant, proves
that every action keeps it, with a lemma per action where that takes an argument,
and draws its theorems from it.

| module | theorem | property |
|---|---|---|
| `EscrowProofs` | `TypeCorrect`, `VaultsAreBacked`, `OffersAreStable`, `MakersAreMadeWhole`, `TokensAreConserved` | `TypeOK`, `VaultBacked`, `OpenOfferStable`, `MakerMadeWhole`, `TokensConserved` |
| `EscrowPromiseProofs` | `EscrowImplementsSwap` (no wrapped SOL), `ClientTypeCorrect`, `ClientsFollowSpec`, `TakesSettleOnReadTerms` | `ImplementsSwap`, `ClientTypeOK`, `Spec`, `SettledOnReadTerms` |
| `AmmProofs` | `TypeCorrect`, `VaultsAlwaysStand`, `DilutionIsTheCurves`, `TokensAreAccounted` | `TypeOK`, `VaultsStand`, `OnlyTheCurveDilutes`, `TokensAccounted` |
| `DiceProofs` | `TypeCorrect`, `VaultsPayForSettlements`, `LamportsAreConserved`, `HouseEdgeHolds` | `TypeOK`, `VaultPaysForSettlements`, `LamportsConserved`, `HouseEdge` |
| `VaultProofs` | `TypeCorrect`, `OwnersHold`, `ClosuresReturnAll`, `LamportsAreConserved` | `TypeOK`, `OnlyOwnerDrains`, `CloseReturnsAll`, `LamportsConserved` |
| `NftStakingProofs` | `TypeCorrect`, `FrozenWhileStaked`, `StakedAssetsStay` | `TypeOK`, `StakedIsFrozen`, `StakedStays` |
| `MarketplaceProofs` | `TypeCorrect`, `ListingsHold`, `AssetsAreBought`, `FeesAreBounded`, `PointsAreForPurchases`, `LamportsAreConserved` | `TypeOK`, `ListedIsHeld`, `HeldUntilBought`, `FeeAtMostTenth`, `PointsForPurchases`, `LamportsConserved` |

- *Escrow.* `TypeOK` is inductive: no balance is overdrawn, because
  `transfer_checked` looks (`TransferLaws`, and `SwapLaws` for the two transfers
  of a take, whose accounts may coincide). `VaultBacked` is inductive on top of
  it: each step keeps the vaults of the other offers (`NextKeeps`), because
  nobody but the program spends from an account owned by an escrow address. That
  rests on `PdaAssumption`, that a derived address is no wallet (`Addresses`).
  `MakersAreMadeWhole` looks at the closing step with both at hand and covers
  self-takes, equal mints and wrapped SOL.
- *The promise.* `EscrowImplementsSwap` maps every step to a step of `AtomicSwap`
  or to none. Beyond `TypeOK` it needs `AbsentEmpty`, that an account that does
  not exist holds nothing: a `make` whose vault is new then opens an offer whose
  lot is exactly the deposit, and closing a vault loses nothing. A take can only
  close the vault when the price equals its balance, which is why the abstract
  taker gets the whole lot, also when the maker is the taker (`TakeSwaps`). The
  theorem assumes `NativeMints = {}`: with wrapped SOL the code pays
  the maker what exceeds the price (section 3), which is not what `AtomicSwap`
  promises.
- *Clients.* Every step of a client is a step of the program or of none
  (`ClientsFollowSpec`), so everything proved of `Spec` holds with transactions in
  flight. `TakesSettleOnReadTerms` rests on `ReadsCurrent`: a take in
  flight either outlived the offer that was read or finds it open and unchanged,
  because open offers keep their account and only a take or a refund closes one. It
  holds for makers who use seeds again: a take that outlived its offer is then
  bounded by the price of the offer it settles, not by the one that was read.
- *Conservation.* `TokensConserved`, `TokensAccounted` and the three
  `LamportsConserved` are sums, written with `SumFunctionOnSet` of the community
  modules. `SumProofs` proves what such a sum does when one or two balances
  change. Induction comes as `SubsetInduction`, about a *set* of subsets instead
  of a predicate, from the well-foundedness of the subset ordering; with it the
  recursive function behind the sum is shown to exist and to be unique
  (`TablesExist`, `TablesAgree`), and its terms to be countable in any order
  (`SumRemove`). The rest is bookkeeping per action: what leaves one account
  arrives in another, and each account opened or closed moves one rent
  (`RentOfOneMore`, `RentOfOneLess`). Where two accounts may be one (the payer and
  payee of a take, the maker and buyer of a listing) the changes are taken one
  after the other. For wrapped SOL what is conserved is the sum over all native
  mints together with the lamports unwrapped, as a wallet's lamports do not say
  which mint they came from.
- *Amm.* `IInv` is `TypeOK /\ VaultsStand /\ PoolsFirst`: LP tokens exist only of
  pools that exist, so the accounts of a deposit, a withdrawal or a swap are
  different ones (`AccountsApart`) and its effect on reserves and supply can be
  read off (`DepositEffect`, `WithdrawEffect`, `SwapEffect`), with the other pools
  left alone (`OthersKept`). `DilutionIsTheCurves` then is arithmetic about one pool: either the quote is
  fair, what is paid or received against the part of the supply, and the worth is
  kept (`PartKept`), or it is not, and the reserves moved by exactly that quote.
- *Dice, Vault.* `TypeOK` (no overdraft) is inductive with the guards of the
  transfers; the action properties follow from it by cases over the actions.
  `HouseEdgeHolds` counts the winning rolls of a bet (`WinningRolls`: as many as
  its chance says) and bounds the rounding of one payout (`DivLaws`, `FairPayout`).
  It is about the stakes whose winnings fit in a u64 (`StakesAssumption`): above
  them the cast at the end of the payout (`resolve_bet.rs:130`) cuts off bits and the
  claim is false.
- *NFT.* `IInv` is `TypeOK /\ StakedIsFrozen`; both are needed, because a
  well-typed list must be told from its absence (`AbsentAssumption`) and dates lie
  in the past, so that rewards are natural numbers. `OneAsset` says once what a
  step that rewrites one asset has to show.
- *Marketplace.* `IInv` is `TypeOK /\ ListedIsHeld`. The bound on fees needs the
  bound on the stored fee from `TypeOK` and the rounding lemma `Tenth`;
  `PointsAreForPurchases` needs it to know the balance of points as a number, and
  the conservation of lamports to know that no fee is negative.

### When an instruction can run

The runs ask with `ENABLED` whether somebody can still get out. Provers do not
handle `ENABLED`, but an action here is a guard and assignments that can always be
made: `Refund` is `CanRefund` and assignments, and likewise `Take`, `Withdraw`,
`Resolve`, `Unstake`, `Buy`, `Close`, `Initialize`. So `ENABLED Refund(...)` says
what `CanRefund(...)` says, and about the guards there are theorems for all
constants. Most are stronger than the property of the run: they say *exactly when*
the guard holds, in terms of a few balances, which also explains the runs that end
in a violation.

| theorem | what it says | in the runs |
|---|---|---|
| `RefundsRunExceptForToken2022` | an open offer can be refunded exactly when the maker has an account for mint A and mint A is no Token-2022 mint (`GuardsRefund`) | `AlwaysRefundable`, and its violation in `escrow_token2022` |
| `TakesNeedTheExactVault` | an open offer can be taken exactly when the taker holds the price, the maker has an account or signs, and the vault holds the price, no more unless it is wrapped SOL (`GuardsTake`) | the violation of `FundedTakeable` in `escrow_takeable` |
| `OnlyTheCurveRefusesWithdrawals` | LP tokens, in any part, can be redeemed exactly when the accounts are there and the curve states a due within the limits and the reserves (`GuardsWithdraw`) | `Withdrawable` |
| `BetsAreResolvable` | a bet can be resolved exactly when it is on 100 or less and, if it wins, the vault covers the payout and keeps its rent (`GuardsResolve`) | `Resolvable` |
| `TimeoutNeverRefuses` | a refund depends on the vault alone: not on the slot, not on who signs (`GuardsRefund`) | section 3, disagreements |
| `SalesNeedTheRewardsMint`, `ListingsAreSellable` | a purchase needs equal bumps, a mint of the original token program, room for the points and the money (`GuardsBuy`), and no more (`GuardsSell`) | `Sellable` |
| `FreezePeriodIsNotRead`, `StakesAreReleasable` | a staked asset can be unstaked exactly when it was never unstaked before or the days since 1970 reach the period (`GuardsUnstake`), so surely when the period is over (`GuardsRelease`) | `Releasable`, and the violation of `FreezePeriodHolds` in `nft_freeze` |
| `RewardsAreForTheClock` | every step that mints rewards mints the rate for the days since 1970 | section 3, disagreements |
| `LamportsAreRecoverable` | a vault can always be closed by its owner, and opened by a user who has the rent (`GuardsRecover`) | `Recoverable` |

- *Escrow.* Beyond `VaultBacked` this needs `MakerOfAddress`: an escrow account
  names the maker its address derives from, so that the constraint `has_one` and
  the seeds ask for the same wallet. The vault is emptied before it is closed in a
  refund; in a take it holds what `SwapLaws` says.
- *Amm.* Three things could stop a withdrawal besides the curve, whose due may also
  exceed the reserves, as nothing is assumed of it. The pool might count fewer LP
  tokens than are burnt: excluded by `TokensAccounted`. The receiving account might
  overflow: all accounts of one mint together fit in a u64 (`MintsAreBounded`), for
  a token of the outside world because its mint counts its supply in one
  (`SupplyAssumption`), for the LP token of another pool because `supply` is one.
  The pool might be locked: no instruction does that (`Unlocked`).
- *Dice.* `PlacedBefore`, that no bet is from a later slot, excludes the underflow of
  the slot difference at `refund_bet.rs:33`, and `VaultsExempt`, that a vault is empty
  or holds its rent minimum, a settlement that the rent rule refuses although
  nothing is paid.
- *NFT.* `ListsMarked` is the finding: `staked_at` is never anything but absent or 0,
  because `stake` writes the date under another key. `StakesConfigured` gives the
  config that `unstake` reads.
- *Marketplace.* `BumpsStored`: what a marketplace stores as the bump of its rewards
  mint is the treasury's.

Assumptions on constants are named in the modules that declare them: wallets,
seeds, mints, assets and names are finitely many (`FinitenessAssumption`,
`UsersAssumption`: a sum needs it, and a ledger has finitely many accounts),
arguments are natural numbers, marks for absent accounts differ from accounts, derived
addresses are not wallets, the curve is as `CurveAssumption`
says, a token's wealth at the start is a supply a mint can
count (`SupplyAssumption`), the clock's bounds are ordered, the rent of an account
with data is at least that of an empty one.

Only model-checked: liveness (`EveryOfferEnds`, `EveryBetEnds`,
`EveryProviderLeaves`, `EveryStakeEnds`), which is out of the prover's reach, and,
in the form in which they are written, the six properties with `ENABLED`
(`AlwaysRefundable`, `Withdrawable`, `Resolvable`, `Recoverable`, `Releasable`,
`Sellable`). That an action is enabled when its guard holds is read off its
definition and checked by TLC, the guard is proved. Every other property of a
passing run is a theorem.

## 5. Not modelled

- The arithmetic of the curve, an external crate: constant operators and one named
  assumption stand for it. `initialize.rs`, `deposit.rs`, `withdraw.rs` and
  `swap.rs` are modelled whole around it.
- AMM instructions in flight, in the manner of `EscrowClients`: the limits an
  instruction carries are compared when it executes, so a delayed one is one of
  the instructions `Amm` already enables with any limits.
- A signature of the dice house in flight: `Resolve` may use any of its
  signatures at any time, and the message it signs is compared with the stored
  bet.
- Compute limits, transaction fees and the rent of accounts in `Escrow`.
- The programs called: token programs and MPL Core appear by the success
  conditions and effects the code relies on, marked external in `PROJECT.json`.
  Token-2022 extensions and MPL Core's other plugins are not there.
- Tests, migrations and runbooks, which keep no state.

## 6. Plan

Everything planned is there: a model of every program, a theorem for every
property of a passing run that the prover can state, and for the others one about
the guard they rest on. Liveness stays with TLC.

A promise for `Vault` and `Marketplace` in the manner of `AtomicSwap` would repeat
what `OnlyOwnerDrains`, `CloseReturnsAll`, `ListedIsHeld` and `HeldUntilBought`
already say of each step, and is not planned. Should the code come to lock pools or
to read the freeze date it writes, `Unlocked` and `ListsMarked` are the invariants
that will fail first.
