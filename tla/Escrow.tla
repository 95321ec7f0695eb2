------------------------------- MODULE Escrow -------------------------------
(***************************************************************************)
(* The token-swap program of src/escrow.  A maker opens an offer by        *)
(* locking tokens of mint A in a vault, a taker settles it by paying       *)
(* tokens of mint B, or the maker takes the deposit back.                  *)
(*                                                                         *)
(* One action is one transaction with one instruction: the runtime rolls   *)
(* back every write of an instruction that fails, so an action is enabled  *)
(* exactly when the instruction succeeds.  The vault and the wallets'      *)
(* token accounts belong to the SPL token programs, which are modelled     *)
(* here from the calls the program makes to them.                          *)
(***************************************************************************)
EXTENDS Naturals, FiniteSets, Functions

CONSTANTS
    Wallets,        \* system accounts that can sign: makers, takers, passers-by
    Seeds,          \* values of the `seed` argument
    Mints,          \* token mints
    NativeMints,    \* the mints of wrapped SOL
    Token2022Mints, \* the mints owned by the Token-2022 program
    Amounts,        \* values of the u64 arguments `receive` and `deposit`
    Wealth,         \* Wealth[<<w, m>>]: what wallet w holds of mint m at the start
    NoEscrow        \* the content of an escrow address where no account exists

(* The escrow account's address is derived from the maker and the seed.    *)
Pda == Wallets \X Seeds

(* An associated token account is determined by its owner and its mint.    *)
Owners == Wallets \union Pda
Ata == Owners \X Mints

Escrow == [maker : Wallets, seed : Seeds, mint_a : Mints, mint_b : Mints,
           receive : Amounts]

ASSUME FinitenessAssumption == IsFiniteSet(Wallets) /\ IsFiniteSet(Seeds) /\ IsFiniteSet(Mints)
ASSUME AmountsAssumption == Amounts \subseteq Nat
ASSUME WealthAssumption == Wealth \in [Wallets \X Mints -> Nat]
ASSUME MintsAssumption == NativeMints \subseteq Mints /\ Token2022Mints \subseteq Mints
ASSUME NoEscrowAssumption == NoEscrow \notin Escrow
(* A derived address is off the curve: no wallet has its key.              *)
ASSUME PdaAssumption == Wallets \intersect Pda = {}

VARIABLES
    escrow,     \* escrow[p]: the account at address p, or NoEscrow
    atas,       \* the token accounts that exist
    amount,     \* amount[a]: the tokens in account a, 0 when it does not exist
    sol,        \* sol[w]: lamports unwrapped to w by closing a native account
    deposited   \* history: what the maker of the open escrow at p put in its vault

vars == <<escrow, atas, amount, sol, deposited>>

Vault(p, mint) == <<p, mint>>

-----------------------------------------------------------------------------
(* The token programs, as the calls of the program use them.               *)

(* transfer_checked refuses a missing account and an overdraft.            *)
CanTransfer(accts, bal, from, to, n) ==
    from \in accts /\ to \in accts /\ n <= bal[from]

(* The debit is written before the credit reads, so from = to is harmless. *)
Transferred(bal, from, to, n) ==
    LET debited == [bal EXCEPT ![from] = @ - n]
    IN  [debited EXCEPT ![to] = @ + n]

(* close_account refuses an account that holds tokens, except one of the   *)
(* native mint, whose tokens are its lamports and go to the destination.   *)
CanClose(bal, acct) == acct[2] \in NativeMints \/ bal[acct] = 0

(* Two mints can be named in one instruction only under one token program. *)
SameProgram(a, b) == a \in Token2022Mints <=> b \in Token2022Mints

-----------------------------------------------------------------------------
(* Make                                                                    *)

InitEscrow_Swapped(maker, seed, a, b, receive) ==
    [maker |-> maker, seed |-> seed, mint_a |-> b, mint_b |-> a, receive |-> receive]

InitEscrow(maker, seed, a, b, receive) ==
    [maker |-> maker, seed |-> seed, mint_a |-> a, mint_b |-> b, receive |-> receive]

MakeInits_IfNeeded(p, a) == TRUE

(* `init` on both the escrow and the vault.                                *)
MakeInits(p, a) == escrow[p] = NoEscrow /\ Vault(p, a) \notin atas

MakeTransfer_Receive(from, to, receive, deposit) ==
    Transferred(amount, from, to, receive)

MakeTransfer(from, to, receive, deposit) ==
    Transferred(amount, from, to, deposit)

Make(maker, seed, a, b, receive, deposit) ==
    LET p == <<maker, seed>>
        maker_ata_a == <<maker, a>>
        vault == Vault(p, a)
    IN  /\ SameProgram(a, b)
        /\ MakeInits(p, a)
        /\ CanTransfer(atas \union {vault}, amount, maker_ata_a, vault, deposit)
        /\ escrow' = [escrow EXCEPT ![p] = InitEscrow(maker, seed, a, b, receive)]
        /\ atas' = atas \union {vault}
        /\ amount' = MakeTransfer(maker_ata_a, vault, receive, deposit)
        /\ deposited' = [deposited EXCEPT ![p] = deposit]
        /\ UNCHANGED sol

-----------------------------------------------------------------------------
(* What Take and Refund share: the vault is emptied by `payment`, closed   *)
(* into the maker's wallet, and the escrow account is closed.              *)

CloseEscrow_Kept(p) == UNCHANGED <<escrow, deposited>>

CloseEscrow(p) ==
    /\ escrow' = [escrow EXCEPT ![p] = NoEscrow]
    /\ deposited' = [deposited EXCEPT ![p] = 0]

CloseVault_Burned(accts, bal, vault, maker) ==
    /\ atas' = accts \ {vault}
    /\ amount' = [bal EXCEPT ![vault] = 0]
    /\ UNCHANGED sol

CloseVault(accts, bal, vault, maker) ==
    /\ atas' = accts \ {vault}
    /\ amount' = [bal EXCEPT ![vault] = 0]
    /\ sol' = [sol EXCEPT ![maker] = @ + bal[vault]]

-----------------------------------------------------------------------------
(* Take                                                                    *)

TakeHasOne_NoMintB(e, maker, a, b) == e.mint_a = a /\ e.maker = maker

TakeHasOne(e, maker, a, b) == e.mint_a = a /\ e.mint_b = b /\ e.maker = maker

(* The token accounts that exist once both `init_if_needed` have run.      *)
(* maker_ata_b is created at the maker's expense, so that its creation     *)
(* needs the maker's signature on the transaction.                         *)
TakeInits(taker, maker, a, b) == atas \union {<<taker, a>>, <<maker, b>>}

CanInitMakerAtaB(maker, b, makerSigns) == <<maker, b>> \in atas \/ makerSigns

(* What leaves the vault for the taker.                                    *)
TakePayout(e, vault) == e.receive

(* The balances once the maker is paid, and once the taker is.             *)
TakePaid(taker, maker, b, e) ==
    Transferred(amount, <<taker, b>>, <<maker, b>>, e.receive)

TakeSettled(taker, maker, a, b, e, vault) ==
    Transferred(TakePaid(taker, maker, b, e), vault, <<taker, a>>, TakePayout(e, vault))

CanTake(taker, maker, seed, a, b, makerSigns) ==
    LET p == <<maker, seed>>
        e == escrow[p]
        vault == Vault(p, a)
        accts == TakeInits(taker, maker, a, b)
    IN  /\ e # NoEscrow
        /\ TakeHasOne(e, maker, a, b)
        /\ CanInitMakerAtaB(maker, b, makerSigns)
        /\ <<taker, b>> \in atas
        /\ CanTransfer(accts, amount, <<taker, b>>, <<maker, b>>, e.receive)
        /\ CanTransfer(accts, TakePaid(taker, maker, b, e), vault, <<taker, a>>,
                       TakePayout(e, vault))
        /\ CanClose(TakeSettled(taker, maker, a, b, e, vault), vault)

Take(taker, maker, seed, a, b, makerSigns) ==
    LET p == <<maker, seed>>
        vault == Vault(p, a)
        accts == TakeInits(taker, maker, a, b)
    IN  /\ CanTake(taker, maker, seed, a, b, makerSigns)
        /\ CloseVault(accts, TakeSettled(taker, maker, a, b, escrow[p], vault), vault, maker)
        /\ CloseEscrow(p)

-----------------------------------------------------------------------------
(* Refund                                                                  *)

RefundPayout_Receive(p, a) == escrow[p].receive

(* The whole balance the vault has when the instruction runs.              *)
RefundPayout(p, a) == amount[Vault(p, a)]

(* close_account is taken from anchor_spl::token, which calls the original *)
(* token program whatever program owns the vault.                          *)
CanRefundClose(a) == a \notin Token2022Mints

(* The balances once the vault is emptied.                                 *)
Refunded(p, a) == Transferred(amount, Vault(p, a), <<p[1], a>>, RefundPayout(p, a))

CanRefund(maker, seed, a) ==
    LET p == <<maker, seed>>
        e == escrow[p]
    IN  /\ e # NoEscrow
        /\ e.mint_a = a /\ e.maker = maker
        /\ CanTransfer(atas, amount, Vault(p, a), <<maker, a>>, RefundPayout(p, a))
        /\ CanRefundClose(a)
        /\ CanClose(Refunded(p, a), Vault(p, a))

Refund(maker, seed, a) ==
    LET p == <<maker, seed>>
    IN  /\ CanRefund(maker, seed, a)
        /\ CloseVault(atas, Refunded(p, a), Vault(p, a), maker)
        /\ CloseEscrow(p)

-----------------------------------------------------------------------------
(* What anyone may do with the token programs between two instructions.    *)

(* Creating an associated token account needs no signature of its owner.   *)
OpenAta(acct) ==
    /\ acct \notin atas
    /\ atas' = atas \union {acct}
    /\ UNCHANGED <<escrow, amount, sol, deposited>>

CloseAta(w, mint) ==
    LET acct == <<w, mint>>
    IN  /\ acct \in atas
        /\ CanClose(amount, acct)
        /\ CloseVault(atas, amount, acct, w)
        /\ UNCHANGED <<escrow, deposited>>

(* A wallet sends tokens to any token account, a vault included.           *)
Send(w, mint, to, n) ==
    /\ n > 0
    /\ CanTransfer(atas, amount, <<w, mint>>, <<to, mint>>, n)
    /\ amount' = Transferred(amount, <<w, mint>>, <<to, mint>>, n)
    /\ UNCHANGED <<escrow, atas, sol, deposited>>

-----------------------------------------------------------------------------

Init ==
    /\ escrow = [p \in Pda |-> NoEscrow]
    /\ atas = {a \in Wallets \X Mints : Wealth[a] > 0}
    /\ amount = [a \in Ata |-> IF a \in Wallets \X Mints THEN Wealth[a] ELSE 0]
    /\ sol = [w \in Wallets |-> 0]
    /\ deposited = [p \in Pda |-> 0]

Program ==
    \E w \in Wallets, seed \in Seeds, a \in Mints :
        \/ Refund(w, seed, a)
        \/ \E b \in Mints :
              \/ \E receive, deposit \in Amounts : Make(w, seed, a, b, receive, deposit)
              \/ \E taker \in Wallets, makerSigns \in BOOLEAN :
                    Take(taker, w, seed, a, b, makerSigns)

Environment ==
    \/ \E acct \in Ata : OpenAta(acct)
    \/ \E w \in Wallets, mint \in Mints :
          \/ CloseAta(w, mint)
          \/ \E to \in Owners, n \in Amounts : Send(w, mint, to, n)

Next == Program \/ Environment

Spec == Init /\ [][Next]_vars

-----------------------------------------------------------------------------
(* Properties                                                              *)

(* Every variable keeps the type its accounts have on chain: an escrow     *)
(* address holds an account or nothing, balances and credits are natural.  *)
TypeOK ==
    /\ escrow \in [Pda -> Escrow \union {NoEscrow}]
    /\ atas \subseteq Ata
    /\ amount \in [Ata -> Nat]
    /\ sol \in [Wallets -> Nat]
    /\ deposited \in [Pda -> Nat]

(* As long as an offer is open its vault exists and holds at least the     *)
(* deposit: no interleaving of other offers, transfers or closures can     *)
(* draw on the vault of an open escrow (make.rs:43-50, take.rs:63-69).     *)
VaultBacked ==
    \A p \in Pda :
        escrow[p] # NoEscrow =>
            /\ Vault(p, escrow[p].mint_a) \in atas
            /\ amount[Vault(p, escrow[p].mint_a)] >= deposited[p]

(* While an offer stays open its terms stay as they were made and its      *)
(* vault only grows: a second make under the same seed, a race of takers   *)
(* and gifts to the vault change neither (make.rs:34-50).                  *)
OpenOfferStable ==
    [][\A p \in Pda :
          (escrow[p] # NoEscrow /\ escrow'[p] # NoEscrow) =>
              /\ escrow'[p] = escrow[p]
              /\ amount'[Vault(p, escrow[p].mint_a)] >= amount[Vault(p, escrow[p].mint_a)]
      ]_vars

(* What wallet w owns of a mint in its token account and, for wrapped SOL, *)
(* in lamports.                                                            *)
Holdings(bal, credit, w, mint) ==
    bal[<<w, mint>>] + (IF mint \in NativeMints THEN credit[w] ELSE 0)

(* An escrow never closes at its maker's loss: in the very step that       *)
(* closes it the maker receives the price in mint B or everything the      *)
(* vault held in mint A (take.rs:78-119, refund.rs:50-77).                 *)
MakerMadeWhole ==
    [][\A p \in Pda :
          (escrow[p] # NoEscrow /\ escrow'[p] = NoEscrow) =>
              LET e == escrow[p]
                  gain(mint) == Holdings(amount', sol', p[1], mint)
                  had(mint) == Holdings(amount, sol, p[1], mint)
              IN  \/ gain(e.mint_b) >= had(e.mint_b) + e.receive
                  \/ gain(e.mint_a) >= had(e.mint_a) + amount[Vault(p, e.mint_a)]
      ]_vars

(* The tokens of the mints S in accounts, and what there was at the start. *)
Held(S) == SumFunctionOnSet(amount, Owners \X S)
HeldAtStart(S) == SumFunctionOnSet(Wealth, Wallets \X S)

(* No transaction of the program mints or burns: whoever the taker is, and *)
(* when maker and taker or mint A and mint B are the same, the tokens of a *)
(* mint stay as many as they were, those of wrapped SOL together with the  *)
(* lamports unwrapped (take.rs:78-119, refund.rs:50-77).                   *)
TokensConserved ==
    /\ \A mint \in Mints \ NativeMints : Held({mint}) = HeldAtStart({mint})
    /\ Held(NativeMints) + SumFunctionOnSet(sol, Wallets) = HeldAtStart(NativeMints)

(* README.md:28, "a taker can then fulfil those terms": a wallet that      *)
(* holds the price can take an open offer whose maker has a token account  *)
(* to be paid on.                                                          *)
FundedTakeable ==
    \A p \in Pda, taker \in Wallets :
        LET e == escrow[p]
        IN  (/\ e # NoEscrow
             /\ taker # p[1]
             /\ {<<taker, e.mint_b>>, <<p[1], e.mint_b>>} \subseteq atas
             /\ amount[<<taker, e.mint_b>>] >= e.receive)
            => ENABLED Take(taker, p[1], p[2], e.mint_a, e.mint_b, FALSE)

(* README.md:122, a refund "can be called at any point while the escrow is *)
(* still open": whatever happened to its vault, the maker of an open offer *)
(* who has a token account for mint A can take the deposit back.           *)
AlwaysRefundable ==
    \A p \in Pda :
        (escrow[p] # NoEscrow /\ <<p[1], escrow[p].mint_a>> \in atas) =>
            ENABLED Refund(p[1], p[2], escrow[p].mint_a)

=============================================================================
