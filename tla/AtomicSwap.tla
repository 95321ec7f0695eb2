----------------------------- MODULE AtomicSwap -----------------------------
(***************************************************************************)
(* What the escrow program promises, without addresses, token accounts or  *)
(* vaults: an offer holds a lot of one mint; it ends when a taker pays its *)
(* price in the other mint and receives the whole lot, or when its maker   *)
(* cancels it and receives the whole lot.  Nothing else touches a lot,     *)
(* except that anyone may add to it.                                       *)
(***************************************************************************)
EXTENDS Naturals

CONSTANTS
    Wallets,    \* makers and takers
    Seeds,      \* what tells the offers of one maker apart
    Mints,      \* kinds of tokens
    Amounts,    \* prices and lots
    Wealth,     \* Wealth[<<w, m>>]: what w owns of m at the start
    NoOffer     \* no offer is open

OfferId == Wallets \X Seeds

VARIABLES
    offer,  \* offer[i]: the terms and the lot of the open offer i, or NoOffer
    purse   \* purse[<<w, m>>]: what w owns of m

vars == <<offer, purse>>

(* The owner's purse after paying n to the payee.                          *)
Paid(money, payer, payee, m, n) ==
    LET debited == [money EXCEPT ![<<payer, m>>] = @ - n]
    IN  [debited EXCEPT ![<<payee, m>>] = @ + n]

(* Maker w locks a lot of mint a and asks a price in mint b.               *)
Open(w, s, a, b, price, lot) ==
    /\ offer[<<w, s>>] = NoOffer
    /\ lot <= purse[<<w, a>>]
    /\ offer' = [offer EXCEPT ![<<w, s>>] =
                    [mint_a |-> a, mint_b |-> b, price |-> price, lot |-> lot]]
    /\ purse' = [purse EXCEPT ![<<w, a>>] = @ - lot]

(* The taker pays the price and receives the whole lot, in one step.       *)
Swap(taker, w, s) ==
    LET o == offer[<<w, s>>]
    IN  /\ o # NoOffer
        /\ o.price <= purse[<<taker, o.mint_b>>]
        /\ offer' = [offer EXCEPT ![<<w, s>>] = NoOffer]
        /\ purse' = [Paid(purse, taker, w, o.mint_b, o.price)
                        EXCEPT ![<<taker, o.mint_a>>] = @ + o.lot]

(* The maker takes the whole lot back.                                     *)
Cancel(w, s) ==
    LET o == offer[<<w, s>>]
    IN  /\ o # NoOffer
        /\ offer' = [offer EXCEPT ![<<w, s>>] = NoOffer]
        /\ purse' = [purse EXCEPT ![<<w, o.mint_a>>] = @ + o.lot]

(* Tokens move outside the offers: to a wallet, into a lot, or to a place  *)
(* no offer and no wallet can spend from.                                  *)
Pay(w, payee, m, n) ==
    /\ n <= purse[<<w, m>>]
    /\ purse' = Paid(purse, w, payee, m, n)
    /\ UNCHANGED offer

Gift(w, i, n) ==
    /\ offer[i] # NoOffer
    /\ n <= purse[<<w, offer[i].mint_a>>]
    /\ purse' = [purse EXCEPT ![<<w, offer[i].mint_a>>] = @ - n]
    /\ offer' = [offer EXCEPT ![i].lot = @ + n]

Lose(w, m, n) ==
    /\ n <= purse[<<w, m>>]
    /\ purse' = [purse EXCEPT ![<<w, m>>] = @ - n]
    /\ UNCHANGED offer

Init ==
    /\ offer = [i \in OfferId |-> NoOffer]
    /\ purse = Wealth

Trade ==
    \E w \in Wallets, s \in Seeds :
        \/ \E a, b \in Mints, price, lot \in Amounts : Open(w, s, a, b, price, lot)
        \/ \E taker \in Wallets : Swap(taker, w, s)
        \/ Cancel(w, s)

Transfer ==
    \E w \in Wallets, n \in Amounts :
        \/ \E m \in Mints, payee \in Wallets : Pay(w, payee, m, n)
        \/ \E i \in OfferId : Gift(w, i, n)
        \/ \E m \in Mints : Lose(w, m, n)

Next == Trade \/ Transfer

Spec == Init /\ [][Next]_vars

=============================================================================
