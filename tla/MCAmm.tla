------------------------------- MODULE MCAmm -------------------------------
(* Instances of the pool program for TLC.                                  *)
EXTENDS Amm

CONSTANTS alice, bob, gold, silver

CONSTANTS
    Gold, Silver,   \* what Alice and Bob own: Gold[w], Silver[w]
    Precision       \* the last argument of the curve, the literal 6 of the code

MCWealth ==
    [a \in Wallets \X Tokens |-> IF a[2] = gold THEN Gold[a[1]] ELSE Silver[a[1]]]

MCGold == [w \in {alice, bob} |-> IF w = alice THEN 1 ELSE 2]
MCSilver == [w \in {alice, bob} |-> IF w = alice THEN 2 ELSE 1]

(* For deposits that are small against the supply.                         *)
MCOneProvider == [w \in {alice, bob} |-> IF w = alice THEN 16 ELSE 0]

-----------------------------------------------------------------------------
(* A curve: what LP tokens are to the supply is counted in 1/Precision and *)
(* rounded down, a reserve after a withdrawal or a swap is rounded down.   *)
(* It refuses an empty supply, more than the supply, empty reserves, fees  *)
(* above 100 % and results that do not fit in a u64.                       *)

Ratio(part, l) == (part * Precision) \div l

MCDepositAmounts(x, y, l, a) ==
    LET Grown(n) == (n * Ratio(l + a, l)) \div Precision - n
    IN  IF l = 0 \/ Grown(x) > MaxU64 \/ Grown(y) > MaxU64
        THEN CurveError
        ELSE [x |-> Grown(x), y |-> Grown(y)]

MCWithdrawAmounts(x, y, l, a) ==
    LET Shrunk(n) == n - (n * Ratio(l - a, l)) \div Precision
    IN  IF l = 0 \/ a > l
        THEN CurveError
        ELSE [x |-> Shrunk(x), y |-> Shrunk(y)]

MCSwapResult(x, y, l, fee, a, min) ==
    LET taxed == (a * (10000 - fee)) \div 10000
        out == y - (x * y) \div (x + taxed)
    IN  IF x = 0 \/ y = 0 \/ fee > 10000 \/ out < min
        THEN CurveError
        ELSE [deposit |-> a, withdraw |-> out]

-----------------------------------------------------------------------------
(* A provider who wants out sends the withdrawal of everything again and    *)
(* again.                                                                   *)
ProvidersLeave ==
    \A w \in Wallets, s \in Seeds : SF_vars(Withdraw(w, s, amount[<<w, LpMint(s)>>], 0, 0))

FairSpec == Spec /\ ProvidersLeave

CanReceive(w, s) ==
    IsPool(s) => {Account(w, s, TRUE), Account(w, s, FALSE)} \subseteq atas

(* README.md:169, "redeem their proportional share": a provider who keeps   *)
(* asking, and time and again has accounts for both tokens, gets out, while *)
(* others deposit, trade, give and burn.                                    *)
EveryProviderLeaves ==
    \A w \in Wallets, s \in Seeds :
        []<>CanReceive(w, s) =>
            (amount[<<w, LpMint(s)>>] > 0 ~> amount[<<w, LpMint(s)>>] = 0)

=============================================================================
