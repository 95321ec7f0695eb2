----------------------------- MODULE SumProofs -----------------------------
(***************************************************************************)
(* Sums over finite sets: what the balances of many accounts add up to,    *)
(* and how the total changes when some balances do.  The laws of           *)
(* SumFunctionOnSet that the conservation theorems cite.                   *)
(***************************************************************************)
EXTENDS Functions, FiniteSetTheorems, WellFoundedInduction, TLAPS

(* Induction over the subsets of a finite set, for a set Q of them: the    *)
(* first set outside Q would have all its proper subsets in Q.             *)
LEMMA SubsetInduction ==
    ASSUME NEW S, IsFiniteSet(S), NEW Q,
           ASSUME NEW T \in SUBSET S, \A U \in SUBSET T : U # T => U \in Q
           PROVE  T \in Q
    PROVE  \A T \in SUBSET S : T \in Q
  <1> SUFFICES ASSUME NEW T \in SUBSET S, T \notin Q PROVE FALSE
    OBVIOUS
  <1> DEFINE R == StrictSubsetOrdering(S)
             bad == {U \in SUBSET S : U \notin Q}
  <1>1. IsWellFoundedOn(R, SUBSET S)
    <2>1. FiniteSubsetsOf(S) = SUBSET S
      BY FS_FiniteSubsetsOfFinite
    <2>2. IsWellFoundedOn(R, FiniteSubsetsOf(S))
      BY FS_StrictSubsetOrderingWellFounded
    <2> HIDE DEF R
    <2> QED
      BY <2>1, <2>2
  <1>2. PICK U \in bad : \A V \in bad : <<V, U>> \notin R
    <2>1. bad \subseteq SUBSET S /\ bad # {}
      OBVIOUS
    <2> HIDE DEF bad, R
    <2> QED
      BY <1>1, <2>1, WFMin
  <1>3. ASSUME NEW V \in SUBSET U, V # U
        PROVE  V \in Q
    BY <1>2, <1>3 DEF StrictSubsetOrdering
  <1>4. U \in Q
    BY <1>2, <1>3
  <1> QED
    BY <1>2, <1>4

-----------------------------------------------------------------------------
(* The recursive function behind the sum exists and is unique.             *)

Pick(s) == CHOOSE x \in s : TRUE

Rest(s) == s \ {Pick(s)}

LEMMA PickRest ==
    ASSUME NEW s, s # {}
    PROVE  Pick(s) \in s /\ Rest(s) \in SUBSET s /\ Rest(s) # s
  BY DEF Pick, Rest

(* g sums f over every subset of S.                                        *)
IsTable(g, f, S) ==
    g = [s \in SUBSET S |-> IF s = {} THEN 0 ELSE f[Pick(s)] + g[Rest(s)]]

LEMMA SumIsTable ==
    ASSUME NEW f, NEW S
    PROVE  SumFunctionOnSet(f, S) = (CHOOSE g : IsTable(g, f, S))[S]
  BY DEF SumFunctionOnSet, FoldFunctionOnSet, MapThenFoldSet, Pick, Rest, IsTable

LEMMA TableValue ==
    ASSUME NEW f, NEW S, NEW g, IsTable(g, f, S), NEW s \in SUBSET S
    PROVE  g[s] = IF s = {} THEN 0 ELSE f[Pick(s)] + g[Rest(s)]
  BY DEF IsTable

LEMMA TablesAgree ==
    ASSUME NEW f, NEW S, IsFiniteSet(S), NEW g, IsTable(g, f, S),
           NEW T \in SUBSET S, NEW h, IsTable(h, f, T)
    PROVE  \A s \in SUBSET T : g[s] = h[s]
  <1> DEFINE Q == {s \in SUBSET T : g[s] = h[s]}
  <1>1. ASSUME NEW s \in SUBSET T, \A u \in SUBSET s : u # s => u \in Q
        PROVE  s \in Q
    <2>1. /\ g[s] = IF s = {} THEN 0 ELSE f[Pick(s)] + g[Rest(s)]
          /\ h[s] = IF s = {} THEN 0 ELSE f[Pick(s)] + h[Rest(s)]
      BY TableValue
    <2>2. s # {} => g[Rest(s)] = h[Rest(s)]
      BY <1>1, PickRest
    <2> QED
      BY <2>1, <2>2
  <1>2. IsFiniteSet(T)
    BY FS_Subset
  <1> HIDE DEF Q
  <1>3. \A s \in SUBSET T : s \in Q
    BY <1>1, <1>2, SubsetInduction
  <1> QED
    BY <1>3 DEF Q

LEMMA TablesExist ==
    ASSUME NEW f, NEW S, IsFiniteSet(S)
    PROVE  \E g : IsTable(g, f, S)
  <1> DEFINE Q == {T \in SUBSET S : \E g : IsTable(g, f, T)}
             Table(T) == CHOOSE g : IsTable(g, f, T)
  <1>1. ASSUME NEW T \in SUBSET S, \A U \in SUBSET T : U # T => U \in Q
        PROVE  T \in Q
    <2>1. \A U \in SUBSET T : U # T => IsTable(Table(U), f, U)
      BY <1>1
    <2> DEFINE g == [s \in SUBSET T |->
                        IF s = {} THEN 0 ELSE f[Pick(s)] + Table(Rest(s))[Rest(s)]]
    <2>2. ASSUME NEW u \in SUBSET T, u # T
          PROVE  g[u] = Table(u)[u]
      <3>1. Table(u)[u] = IF u = {} THEN 0 ELSE f[Pick(u)] + Table(u)[Rest(u)]
        BY <2>1, <2>2, TableValue
      <3>2. ASSUME u # {}
            PROVE  Table(u)[Rest(u)] = Table(Rest(u))[Rest(u)]
        <4>1. Rest(u) \in SUBSET u /\ Rest(u) \in SUBSET T /\ Rest(u) # T /\ IsFiniteSet(u)
          BY <3>2, PickRest, FS_Subset
        <4>2. IsTable(Table(u), f, u) /\ IsTable(Table(Rest(u)), f, Rest(u))
          BY <2>1, <2>2, <4>1
        <4> HIDE DEF Table
        <4> QED
          BY <4>1, <4>2, TablesAgree
      <3> HIDE DEF Table
      <3> QED
        BY <3>1, <3>2
    <2>3. \A s \in SUBSET T : s # {} => g[Rest(s)] = Table(Rest(s))[Rest(s)]
      <3>1. \A s \in SUBSET T : s # {} => Rest(s) \in SUBSET T /\ Rest(s) # T
        BY PickRest
      <3> HIDE DEF g
      <3> QED
        BY <2>2, <3>1
    <2>4. IsTable(g, f, T)
      <3>1. g = [s \in SUBSET T |-> IF s = {} THEN 0 ELSE f[Pick(s)] + g[Rest(s)]]
        <4> DEFINE h == [s \in SUBSET T |-> IF s = {} THEN 0 ELSE f[Pick(s)] + g[Rest(s)]]
        <4> HIDE DEF Table
        <4>1. \A s \in SUBSET T : g[s] = h[s]
          BY <2>3
        <4>2. g = [s \in SUBSET T |-> g[s]] /\ h = [s \in SUBSET T |-> h[s]]
          OBVIOUS
        <4> HIDE DEF g, h
        <4>3. g = h
          BY <4>1, <4>2
        <4> QED
          BY <4>3 DEF h
      <3> HIDE DEF g
      <3> QED
        BY <3>1 DEF IsTable
    <2> QED
      BY <2>4
  <1>2. S \in Q
    <2> HIDE DEF Q
    <2> QED BY <1>1, SubsetInduction
  <1> QED
    BY <1>2

(* The sum of the empty set, and the sum without the element it picks.     *)
LEMMA SumUnfold ==
    ASSUME NEW f, NEW S, IsFiniteSet(S)
    PROVE  SumFunctionOnSet(f, S) =
               IF S = {} THEN 0 ELSE f[Pick(S)] + SumFunctionOnSet(f, Rest(S))
  <1> DEFINE Table(T) == CHOOSE g : IsTable(g, f, T)
  <1>1. \A T \in SUBSET S : IsTable(Table(T), f, T)
    BY TablesExist, FS_Subset
  <1>2. \A T : SumFunctionOnSet(f, T) = Table(T)[T]
    BY SumIsTable
  <1> HIDE DEF Table
  <1>3. Table(S)[S] = IF S = {} THEN 0 ELSE f[Pick(S)] + Table(S)[Rest(S)]
    BY <1>1, TableValue
  <1>4. ASSUME S # {}
        PROVE  Table(S)[Rest(S)] = Table(Rest(S))[Rest(S)]
    <2>1. Rest(S) \in SUBSET S
      BY <1>4, PickRest
    <2> QED
      BY <1>1, <2>1, TablesAgree
  <1> QED
    BY <1>2, <1>3, <1>4

-----------------------------------------------------------------------------
(* The laws of sums                                                        *)

Integral(f, S) == \A x \in S : f[x] \in Int

LEMMA SumEmpty ==
    ASSUME NEW f
    PROVE  SumFunctionOnSet(f, {}) = 0
  BY SumUnfold, FS_EmptySet

LEMMA SumType ==
    ASSUME NEW f, NEW S, IsFiniteSet(S), Integral(f, S)
    PROVE  SumFunctionOnSet(f, S) \in Int
  <1> DEFINE Q == {T \in SUBSET S : SumFunctionOnSet(f, T) \in Int}
  <1>1. ASSUME NEW T \in SUBSET S, \A U \in SUBSET T : U # T => U \in Q
        PROVE  T \in Q
    <2>1. SumFunctionOnSet(f, T) =
              IF T = {} THEN 0 ELSE f[Pick(T)] + SumFunctionOnSet(f, Rest(T))
      BY FS_Subset, SumUnfold
    <2>2. T # {} => f[Pick(T)] \in Int /\ SumFunctionOnSet(f, Rest(T)) \in Int
      BY <1>1, PickRest DEF Integral
    <2> QED
      BY <2>1, <2>2
  <1>2. S \in Q
    <2> HIDE DEF Q
    <2> QED BY <1>1, SubsetInduction
  <1> QED
    BY <1>2

(* Only the values on the set count.                                       *)
LEMMA SumEqual ==
    ASSUME NEW f, NEW g, NEW S, IsFiniteSet(S), \A x \in S : f[x] = g[x]
    PROVE  SumFunctionOnSet(f, S) = SumFunctionOnSet(g, S)
  <1> DEFINE Q == {T \in SUBSET S : SumFunctionOnSet(f, T) = SumFunctionOnSet(g, T)}
  <1>1. ASSUME NEW T \in SUBSET S, \A U \in SUBSET T : U # T => U \in Q
        PROVE  T \in Q
    <2>1. /\ SumFunctionOnSet(f, T) =
                 IF T = {} THEN 0 ELSE f[Pick(T)] + SumFunctionOnSet(f, Rest(T))
          /\ SumFunctionOnSet(g, T) =
                 IF T = {} THEN 0 ELSE g[Pick(T)] + SumFunctionOnSet(g, Rest(T))
      BY FS_Subset, SumUnfold
    <2>2. T # {} => /\ f[Pick(T)] = g[Pick(T)]
                    /\ SumFunctionOnSet(f, Rest(T)) = SumFunctionOnSet(g, Rest(T))
      BY <1>1, PickRest
    <2> QED
      BY <2>1, <2>2
  <1>2. S \in Q
    <2> HIDE DEF Q
    <2> QED BY <1>1, SubsetInduction
  <1> QED
    BY <1>2

(* Any element can be taken out of a sum, whichever one it picks first.    *)
LEMMA SumRemove ==
    ASSUME NEW f, NEW S, IsFiniteSet(S), Integral(f, S), NEW x \in S
    PROVE  SumFunctionOnSet(f, S) = f[x] + SumFunctionOnSet(f, S \ {x})
  <1> DEFINE Total(T) == SumFunctionOnSet(f, T)
             Q == {T \in SUBSET S : \A y \in T : Total(T) = f[y] + Total(T \ {y})}
  <1>1. ASSUME NEW T \in SUBSET S, \A U \in SUBSET T : U # T => U \in Q
        PROVE  T \in Q
    <2> SUFFICES ASSUME NEW y \in T PROVE Total(T) = f[y] + Total(T \ {y})
      OBVIOUS
    <2> DEFINE p == Pick(T)
    <2>1. p \in T /\ Rest(T) = T \ {p}
      BY PickRest DEF Rest
    <2> HIDE DEF p
    <2>2. Total(T) = f[p] + Total(T \ {p})
      BY <2>1, FS_Subset, SumUnfold DEF p
    <2>3. CASE y = p
      BY <2>2, <2>3
    <2>4. CASE y # p
      <3> DEFINE both == T \ {p, y}
      <3>1. /\ (T \ {p}) \ {y} = both /\ (T \ {y}) \ {p} = both
            /\ T \ {p} \in SUBSET T /\ T \ {p} # T /\ y \in T \ {p}
            /\ T \ {y} \in SUBSET T /\ T \ {y} # T /\ p \in T \ {y}
        BY <2>1, <2>4
      <3>2. T \ {p} \in Q /\ T \ {y} \in Q
        BY <1>1, <3>1
      <3>3. Total(T \ {p}) = f[y] + Total(both) /\ Total(T \ {y}) = f[p] + Total(both)
        <4> HIDE DEF Total, both
        <4> QED BY <3>1, <3>2
      <3>4. f[p] \in Int /\ f[y] \in Int /\ Total(both) \in Int
        <4>1. both \in SUBSET S /\ IsFiniteSet(both)
          BY FS_Subset
        <4>2. Integral(f, both)
          BY <4>1 DEF Integral
        <4> QED
          BY <2>1, <4>1, <4>2, SumType DEF Integral
      <3> HIDE DEF Total, both
      <3> QED
        BY <2>2, <3>3, <3>4
    <2> QED
      BY <2>3, <2>4
  <1>2. S \in Q
    <2> HIDE DEF Q
    <2> QED BY <1>1, SubsetInduction
  <1> QED
    BY <1>2

(* A sum changes by what changes in its terms: in one place, and in two.   *)
LEMMA SumChange ==
    ASSUME NEW f, NEW g, NEW S, IsFiniteSet(S), Integral(f, S), Integral(g, S),
           NEW x \in S, \A z \in S : z # x => g[z] = f[z]
    PROVE  SumFunctionOnSet(g, S) = SumFunctionOnSet(f, S) - f[x] + g[x]
  <1> DEFINE others == S \ {x}
  <1>1. IsFiniteSet(others) /\ Integral(f, others)
    BY FS_Subset DEF Integral
  <1>2. SumFunctionOnSet(f, S) = f[x] + SumFunctionOnSet(f, others)
    BY SumRemove
  <1>3. SumFunctionOnSet(g, S) = g[x] + SumFunctionOnSet(g, others)
    BY SumRemove
  <1>4. SumFunctionOnSet(g, others) = SumFunctionOnSet(f, others)
    BY <1>1, SumEqual
  <1>5. f[x] \in Int /\ g[x] \in Int /\ SumFunctionOnSet(f, others) \in Int
    BY <1>1, SumType DEF Integral
  <1> HIDE DEF others
  <1> QED
    BY <1>2, <1>3, <1>4, <1>5

LEMMA SumChangeTwo ==
    ASSUME NEW f, NEW g, NEW S, IsFiniteSet(S), Integral(f, S), Integral(g, S),
           NEW x \in S, NEW y \in S, x # y,
           \A z \in S : z # x /\ z # y => g[z] = f[z]
    PROVE  SumFunctionOnSet(g, S) =
               SumFunctionOnSet(f, S) - f[x] + g[x] - f[y] + g[y]
  <1> DEFINE others == S \ {x}
  <1>1. IsFiniteSet(others) /\ Integral(f, others) /\ Integral(g, others) /\ y \in others
    BY FS_Subset DEF Integral
  <1>2. SumFunctionOnSet(f, S) = f[x] + SumFunctionOnSet(f, others)
    BY SumRemove
  <1>3. SumFunctionOnSet(g, S) = g[x] + SumFunctionOnSet(g, others)
    BY SumRemove
  <1>4. SumFunctionOnSet(g, others) = SumFunctionOnSet(f, others) - f[y] + g[y]
    <2>1. \A z \in others : z # y => g[z] = f[z]
      OBVIOUS
    <2> HIDE DEF others
    <2> QED BY <1>1, <2>1, SumChange
  <1>5. /\ f[x] \in Int /\ g[x] \in Int /\ f[y] \in Int /\ g[y] \in Int
        /\ SumFunctionOnSet(f, others) \in Int
    BY <1>1, SumType DEF Integral
  <1> HIDE DEF others
  <1> QED
    BY <1>2, <1>3, <1>4, <1>5

(* The same for balances: one account is credited or debited.              *)
Shifted(f, g, S, x, n) ==
    /\ Integral(f, S) /\ Integral(g, S)
    /\ g[x] = f[x] + n
    /\ \A z \in S : z # x => g[z] = f[z]

LEMMA SumShift ==
    ASSUME NEW f, NEW g, NEW S, IsFiniteSet(S), NEW x \in S, NEW n \in Int,
           Shifted(f, g, S, x, n)
    PROVE  SumFunctionOnSet(g, S) = SumFunctionOnSet(f, S) + n
  <1>1. SumFunctionOnSet(g, S) = SumFunctionOnSet(f, S) - f[x] + g[x]
    BY SumChange DEF Shifted
  <1>2. SumFunctionOnSet(f, S) \in Int /\ f[x] \in Int /\ g[x] = f[x] + n
    BY SumType DEF Integral, Shifted
  <1> QED
    BY <1>1, <1>2

Credited(f, g, S, x, n) ==
    f \in [S -> Nat] /\ g \in [S -> Nat] /\ g = [f EXCEPT ![x] = @ + n]

Debited(f, g, S, x, n) ==
    f \in [S -> Nat] /\ g \in [S -> Nat] /\ g = [f EXCEPT ![x] = @ - n]

LEMMA SumCredit ==
    ASSUME NEW S, IsFiniteSet(S), NEW f, NEW g, NEW x \in S, NEW n \in Int,
           Credited(f, g, S, x, n)
    PROVE  SumFunctionOnSet(g, S) = SumFunctionOnSet(f, S) + n
  <1>1. Shifted(f, g, S, x, n)
    BY DEF Credited, Shifted, Integral
  <1> QED
    BY <1>1, SumShift

LEMMA SumDebit ==
    ASSUME NEW S, IsFiniteSet(S), NEW f, NEW g, NEW x \in S, NEW n \in Int,
           Debited(f, g, S, x, n)
    PROVE  SumFunctionOnSet(g, S) = SumFunctionOnSet(f, S) - n
  <1> DEFINE m == 0 - n
  <1>1. Shifted(f, g, S, x, m) /\ m \in Int
    BY DEF Debited, Shifted, Integral
  <1>2. SumFunctionOnSet(f, S) \in Int
    BY SumType DEF Debited, Integral
  <1>3. SumFunctionOnSet(g, S) = SumFunctionOnSet(f, S) + m
    <2> HIDE DEF m
    <2> QED BY <1>1, SumShift
  <1> QED
    BY <1>2, <1>3

LEMMA SumOfNaturals ==
    ASSUME NEW S, IsFiniteSet(S), NEW f \in [S -> Nat]
    PROVE  SumFunctionOnSet(f, S) \in Int
  BY SumType DEF Integral

(* No two terms exceed the sum of naturals.                                *)
LEMMA SumIsNatural ==
    ASSUME NEW f, NEW S, IsFiniteSet(S), \A x \in S : f[x] \in Nat
    PROVE  SumFunctionOnSet(f, S) \in Nat
  <1> DEFINE Q == {T \in SUBSET S : SumFunctionOnSet(f, T) \in Nat}
  <1>1. ASSUME NEW T \in SUBSET S, \A U \in SUBSET T : U # T => U \in Q
        PROVE  T \in Q
    <2>1. SumFunctionOnSet(f, T) =
              IF T = {} THEN 0 ELSE f[Pick(T)] + SumFunctionOnSet(f, Rest(T))
      BY SumUnfold, FS_Subset
    <2>2. CASE T = {}
      BY <2>1, <2>2
    <2>3. CASE T # {}
      <3>1. f[Pick(T)] \in Nat /\ SumFunctionOnSet(f, Rest(T)) \in Nat
        BY <1>1, <2>3, PickRest
      <3> QED
        BY <2>1, <2>3, <3>1
    <2> QED
      BY <2>2, <2>3
  <1> HIDE DEF Q
  <1>2. \A T \in SUBSET S : T \in Q
    BY <1>1, SubsetInduction
  <1> QED
    BY <1>2 DEF Q

LEMMA SumBoundsTerms ==
    ASSUME NEW f, NEW S, IsFiniteSet(S), \A x \in S : f[x] \in Nat,
           NEW x \in S, NEW y \in S
    PROVE  /\ f[x] <= SumFunctionOnSet(f, S)
           /\ x # y => f[x] + f[y] <= SumFunctionOnSet(f, S)
  <1>1. ASSUME NEW T \in SUBSET S, NEW z \in T
        PROVE  /\ SumFunctionOnSet(f, T) = f[z] + SumFunctionOnSet(f, T \ {z})
               /\ SumFunctionOnSet(f, T \ {z}) \in Nat
    <2>1. IsFiniteSet(T) /\ IsFiniteSet(T \ {z})
      BY FS_Subset
    <2>2. Integral(f, T)
      BY DEF Integral
    <2> QED
      BY <2>1, <2>2, SumRemove, SumIsNatural
  <1>2. SumFunctionOnSet(f, S) = f[x] + SumFunctionOnSet(f, S \ {x})
        /\ SumFunctionOnSet(f, S \ {x}) \in Nat
    BY <1>1
  <1>3. CASE x # y
    <2>1. /\ SumFunctionOnSet(f, S \ {x}) = f[y] + SumFunctionOnSet(f, (S \ {x}) \ {y})
          /\ SumFunctionOnSet(f, (S \ {x}) \ {y}) \in Nat
      BY <1>1, <1>3
    <2> QED
      BY <1>2, <2>1
  <1> QED
    BY <1>2, <1>3

(* Accounts that each hold the same rent, when one is opened or closed.    *)
LEMMA RentOfOneMore ==
    ASSUME NEW S, IsFiniteSet(S), NEW x, x \notin S, NEW rent \in Nat
    PROVE  /\ rent * Cardinality(S) \in Nat
           /\ rent * Cardinality(S \union {x}) = rent * Cardinality(S) + rent
  <1>1. Cardinality(S) \in Nat /\ Cardinality(S \union {x}) = Cardinality(S) + 1
    BY FS_CardinalityType, FS_AddElement
  <1> QED
    BY <1>1

LEMMA RentOfOneLess ==
    ASSUME NEW S, IsFiniteSet(S), NEW x \in S, NEW rent \in Nat
    PROVE  /\ rent * Cardinality(S) \in Nat
           /\ rent * Cardinality(S \ {x}) = rent * Cardinality(S) - rent
  <1>1. Cardinality(S) \in Nat /\ Cardinality(S \ {x}) = Cardinality(S) - 1
    BY FS_CardinalityType, FS_RemoveElement
  <1> QED
    BY <1>1

(* Terms that are zero do not count.                                       *)
LEMMA SumZeros ==
    ASSUME NEW f, NEW S, IsFiniteSet(S), NEW T \in SUBSET S, Integral(f, T),
           \A x \in S \ T : f[x] = 0
    PROVE  SumFunctionOnSet(f, S) = SumFunctionOnSet(f, T)
  <1> DEFINE Total(U) == SumFunctionOnSet(f, U)
             Q == {U \in SUBSET S : T \subseteq U => Total(U) = Total(T)}
  <1>1. ASSUME NEW U \in SUBSET S, \A V \in SUBSET U : V # U => V \in Q
        PROVE  U \in Q
    <2>1. CASE U = T \/ ~(T \subseteq U)
      BY <2>1
    <2>2. CASE T \subseteq U /\ U # T
      <3>1. PICK x \in U : x \notin T
        BY <2>2
      <3>2. U \ {x} \in SUBSET U /\ U \ {x} # U /\ T \subseteq U \ {x}
        BY <2>2, <3>1
      <3>3. Total(U \ {x}) = Total(T)
        <4> HIDE DEF Total
        <4> QED BY <1>1, <3>2
      <3>4. IsFiniteSet(U) /\ Integral(f, U) /\ f[x] = 0
        BY <3>1, FS_Subset DEF Integral
      <3>5. Total(U) = f[x] + Total(U \ {x})
        BY <3>4, SumRemove
      <3>6. IsFiniteSet(T) /\ Total(T) \in Int
        BY FS_Subset, SumType
      <3> HIDE DEF Total
      <3> QED
        BY <3>3, <3>4, <3>5, <3>6
    <2> QED
      BY <2>1, <2>2
  <1>2. S \in Q
    <2> HIDE DEF Q
    <2> QED BY <1>1, SubsetInduction
  <1> QED
    BY <1>2

=============================================================================
