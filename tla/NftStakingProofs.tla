-------------------------- MODULE NftStakingProofs --------------------------
(***************************************************************************)
(* What the staking program guarantees for every set of users and assets,  *)
(* every configuration and clock: what is called staked is frozen, and a   *)
(* staked asset stays where it is.                                         *)
(***************************************************************************)
EXTENDS NftStaking, TLAPS

-----------------------------------------------------------------------------
(* The inductive invariant                                                 *)

(* The clock only moves on, so that what is dated in the past stays so.    *)
LEMMA AssetsAge ==
    ASSUME NEW n \in Nat, NEW m \in Nat, n <= m
    PROVE  Asset(n) \subseteq Asset(m) /\ Attributes(n) \subseteq Attributes(m)
<1>1. Times(n) \subseteq Times(m)
  BY DEF Times
<1> QED
  BY <1>1 DEF Asset, Attributes

(* The attributes that stake writes are dated by the clock.                *)
LEMMA StakeAttributesType ==
    ASSUME NEW n \in Nat, n = now, NEW list \in Attributes(n)
    PROVE  StakeAttributes(list) \in Attributes(n) /\ StakeAttributes(list).staked = "true"
<1>1. n \in Times(n)
  BY DEF Times
<1> QED
  BY <1>1 DEF Attributes, StakeAttributes

(* Those that unstake writes are dated zero.                               *)
LEMMA UnstakeAttributesType ==
    ASSUME NEW n \in Nat, NEW list \in Attributes(n)
    PROVE  UnstakeAttributes(list) \in Attributes(n) /\ UnstakeAttributes(list).staked = "false"
<1>1. 0 \in Times(n)
  BY DEF Times
<1> QED
  BY <1>1 DEF Attributes, UnstakeAttributes

(* A list without the program's keys has no date.                          *)
LEMMA NoKeysType ==
    ASSUME NEW n \in Nat
    PROVE  NoKeys \in Attributes(n) /\ NoKeys.staked # "true"
BY DEF Attributes, Times, NoKeys

(* Rewards are never negative: what is dated zero or in the past gives a   *)
(* natural number of days.                                                 *)
LEMMA RewardType ==
    ASSUME TypeOK, config # NoConfig, NEW list \in Attributes(now)
    PROVE  Reward(list) \in Nat
<1>1. config.rewards_bps \in Nat
  <2>1. config \in Config
    BY DEF TypeOK
  <2> QED
    BY <2>1, ArgumentsAssumption DEF Config
<1>2. StakedDays(list) \in Nat
  <2>1. now \in Nat /\ SecondsPerDay \in Nat \ {0}
    BY ClockAssumption DEF TypeOK
  <2>2. list.staked_at = Unset \/ list.staked_at \in 0..now
    BY DEF Attributes, Times
  <2>3. CASE list.staked_at # Unset
    <3>1. now - list.staked_at \in Nat
      BY <2>1, <2>2, <2>3
    <3>2. (now - list.staked_at) \div SecondsPerDay \in Nat
      BY <2>1, <3>1
    <3> QED
      BY <2>3, <3>2 DEF StakedDays
  <2>4. CASE list.staked_at = Unset
    BY <2>4 DEF StakedDays
  <2> QED
    BY <2>3, <2>4
<1>3. StakedDays(list) * config.rewards_bps \in Nat
  BY <1>1, <1>2
<1> QED
  BY <1>3 DEF Reward

IInv == TypeOK /\ StakedIsFrozen

(* What a step that touches one asset has to keep.                         *)
Agrees(x) ==
    (x.attributes # NoAttributes /\ x.attributes.staked = "true") => x.freeze = "frozen"

(* A step that puts a well-typed asset, frozen if it is called staked, at  *)
(* one address keeps the invariant.                                        *)
LEMMA OneAsset ==
    ASSUME IInv, NEW a \in Assets, NEW x \in Asset(now), Agrees(x), x # NoAsset,
           asset' = [asset EXCEPT ![a] = x], rewards' \in [Users -> Nat],
           UNCHANGED <<collection, config, now>>
    PROVE  IInv'
<1>1. TypeOK'
  BY DEF IInv, TypeOK
<1>2. asset'[a] = x /\ \A b \in Assets \ {a} : asset'[b] = asset[b]
  BY DEF IInv, TypeOK
<1>3. StakedIsFrozen'
  BY <1>2 DEF IInv, StakedIsFrozen, IsAsset, IsStaked, Agrees
<1> QED
  BY <1>1, <1>3 DEF IInv

(* Nothing that exists is one of the marks for what does not.              *)
LEMMA Distinct ==
    ASSUME TypeOK
    PROVE  NoAsset \notin Asset(now) /\ NoAttributes \notin Attributes(now) /\ now \in Nat
<1>1. now \in Nat /\ End \in Nat /\ now <= End
  BY ClockAssumption DEF TypeOK
<1>2. Asset(now) \subseteq Asset(End) /\ Attributes(now) \subseteq Attributes(End)
  BY <1>1, AssetsAge
<1> QED
  BY <1>1, <1>2, AbsentAssumption

(* An asset that exists is typed, and frozen if it is called staked.       *)
LEMMA Existing ==
    ASSUME IInv, NEW a \in Assets, IsAsset(a)
    PROVE  asset[a] \in Asset(now) /\ Agrees(asset[a])
BY DEF IInv, TypeOK, StakedIsFrozen, IsAsset, IsStaked, Agrees

-----------------------------------------------------------------------------
(* Every step keeps the invariant                                          *)

(* Creating an asset, with or without attributes, starts it unfrozen.      *)
LEMMA CreateStep ==
    ASSUME IInv, NEW u \in Users, NEW a \in Assets, NEW list \in {NoAttributes, NoKeys},
           Create(u, a, list)
    PROVE  IInv'
<1> DEFINE x == [owner |-> u, attributes |-> list, freeze |-> "absent"]
<1>1. x \in Asset(now) /\ x # NoAsset /\ Agrees(x)
  BY Distinct, NoKeysType DEF IInv, Asset, Freeze, Agrees
<1>2. rewards' \in [Users -> Nat] /\ UNCHANGED <<collection, config, now>>
      /\ asset' = [asset EXCEPT ![a] = x]
  BY DEF IInv, TypeOK, Create
<1> QED
  BY <1>1, <1>2, OneAsset

(* A stake that does something freezes what it marks.                      *)
LEMMA StakeStep ==
    ASSUME IInv, NEW u \in Users, NEW a \in Assets, Stake(u, a)
    PROVE  IInv'
<1>1. IsAsset(a) /\ asset[a] \in Asset(now)
      /\ UNCHANGED <<collection, config, rewards, now>>
  BY Existing DEF Stake
<1>2. CASE UNCHANGED asset
  BY <1>1, <1>2 DEF IInv, TypeOK, StakedIsFrozen, IsAsset, IsStaked
<1>3. CASE asset[a].attributes # NoAttributes
           /\ asset' = [asset EXCEPT ![a] =
                    [owner |-> u, attributes |-> StakeAttributes(@.attributes), freeze |-> Frozen]]
  <2> DEFINE list == StakeAttributes(asset[a].attributes)
             x == [owner |-> asset[a].owner, attributes |-> list, freeze |-> "frozen"]
  <2>1. asset[a].attributes \in Attributes(now) /\ asset[a].owner \in Users
    BY <1>1, <1>3 DEF Asset
  <2>2. list \in Attributes(now) /\ list.staked = "true" /\ list # NoAttributes
    BY <2>1, Distinct, StakeAttributesType DEF IInv
  <2> HIDE DEF list
  <2>3. x \in Asset(now) /\ x # NoAsset /\ Agrees(x)
    BY <2>1, <2>2, Distinct DEF IInv, Asset, Freeze, Agrees
  <2>4. asset' = [asset EXCEPT ![a] = x]
    BY <1>1, <1>3 DEF Stake, Frozen, list
  <2>5. rewards' \in [Users -> Nat]
    BY <1>1 DEF IInv, TypeOK
  <2> QED
    BY <1>1, <2>3, <2>4, <2>5, OneAsset
<1> QED
  BY <1>2, <1>3 DEF Stake

(* An unstake thaws what it unmarks and mints a natural number of rewards. *)
LEMMA UnstakeStep ==
    ASSUME IInv, NEW u \in Users, NEW a \in Assets, Unstake(u, a)
    PROVE  IInv'
<1> DEFINE old == asset[a].attributes
           list == UnstakeAttributes(old)
           x == [owner |-> asset[a].owner, attributes |-> list, freeze |-> "thawed"]
<1>1. /\ IsAsset(a) /\ asset[a] \in Asset(now) /\ config # NoConfig
      /\ old # NoAttributes
      /\ UNCHANGED <<collection, config, now>>
  BY Existing DEF Unstake, CanUnstake
<1>2. old \in Attributes(now) /\ asset[a].owner \in Users
  BY <1>1 DEF Asset
<1>3. list \in Attributes(now) /\ list.staked = "false"
  BY <1>2, Distinct, UnstakeAttributesType DEF IInv
<1>4. asset' = [asset EXCEPT ![a] = x]
  BY DEF Unstake, CanUnstake
<1>5. rewards' \in [Users -> Nat]
  <2>1. Reward(old) \in Nat
    BY <1>1, <1>2, RewardType DEF IInv
  <2> QED
    BY <2>1 DEF Unstake, IInv, TypeOK
<1> HIDE DEF list
<1>6. x \in Asset(now) /\ x # NoAsset /\ Agrees(x)
  BY <1>2, <1>3, Distinct DEF IInv, Asset, Freeze, Agrees
<1> QED
  BY <1>1, <1>4, <1>5, <1>6, OneAsset

(* A sale changes only the owner.                                          *)
LEMMA TransferStep ==
    ASSUME IInv, NEW u \in Users, NEW a \in Assets, NEW v \in Users, Transfer(u, a, v)
    PROVE  IInv'
<1> DEFINE x == [asset[a] EXCEPT !.owner = v]
<1>1. asset[a] \in Asset(now) /\ Agrees(asset[a])
      /\ UNCHANGED <<collection, config, rewards, now>>
  BY Existing DEF Transfer
<1>2. x \in Asset(now) /\ Agrees(x)
  BY <1>1 DEF Asset, Agrees
<1>3. x # NoAsset
  BY <1>2, Distinct DEF IInv
<1>4. asset' = [asset EXCEPT ![a] = x] /\ rewards' \in [Users -> Nat]
  BY <1>1 DEF Transfer, IInv, TypeOK
<1> QED
  BY <1>1, <1>2, <1>3, <1>4, OneAsset

(* The plugin is removed from assets that are not staked.                  *)
LEMMA RemoveFreezeStep ==
    ASSUME IInv, NEW u \in Users, NEW a \in Assets, RemoveFreeze(u, a)
    PROVE  IInv'
<1> DEFINE x == [asset[a] EXCEPT !.freeze = "absent"]
<1>1. asset[a] \in Asset(now) /\ Agrees(asset[a]) /\ asset[a].freeze # "frozen"
      /\ UNCHANGED <<collection, config, rewards, now>>
  BY Existing DEF RemoveFreeze
<1>2. x \in Asset(now) /\ Agrees(x)
  BY <1>1 DEF Asset, Freeze, Agrees
<1>3. x # NoAsset
  BY <1>2, Distinct DEF IInv
<1>4. asset' = [asset EXCEPT ![a] = x] /\ rewards' \in [Users -> Nat]
  BY <1>1 DEF RemoveFreeze, IInv, TypeOK
<1> QED
  BY <1>1, <1>2, <1>3, <1>4, OneAsset

(* An asset without the plugin is not staked: however the owner adds it,   *)
(* frozen under the authority of the collection included, nothing is       *)
(* called staked that is not frozen.                                       *)
LEMMA AddFreezeStep ==
    ASSUME IInv, NEW u \in Users, NEW a \in Assets, AddFreeze(u, a)
    PROVE  IInv'
<1>1. asset[a] \in Asset(now) /\ Agrees(asset[a]) /\ asset[a].freeze = "absent"
      /\ UNCHANGED <<collection, config, rewards, now>>
  BY Existing DEF AddFreeze
<1> PICK freeze \in Freeze \ {"absent"} : asset' = [asset EXCEPT ![a].freeze = freeze]
  BY DEF AddFreeze
<1> DEFINE x == [asset[a] EXCEPT !.freeze = freeze]
<1>2. x \in Asset(now) /\ Agrees(x)
  BY <1>1 DEF Asset, Freeze, Agrees
<1>3. x # NoAsset
  BY <1>2, Distinct DEF IInv
<1>4. asset' = [asset EXCEPT ![a] = x] /\ rewards' \in [Users -> Nat]
  BY <1>1 DEF IInv, TypeOK
<1> QED
  BY <1>1, <1>2, <1>3, <1>4, OneAsset

LEMMA InvStep == IInv /\ [Next]_vars => IInv'
<1> SUFFICES ASSUME IInv, [Next]_vars PROVE IInv'
  OBVIOUS
<1>1. CASE UNCHANGED vars
  BY <1>1 DEF IInv, TypeOK, StakedIsFrozen, IsAsset, IsStaked, vars
<1>2. CASE CreateCollection \/ CreateOutside \/ HandOver
  BY <1>2 DEF CreateCollection, CreateOutside, HandOver, IInv, TypeOK, StakedIsFrozen, IsAsset, IsStaked
<1>3. ASSUME NEW bps \in RewardsBps, NEW period \in FreezePeriods, Initialize(bps, period)
      PROVE  IInv'
  BY <1>3 DEF Initialize, Config, IInv, TypeOK, StakedIsFrozen, IsAsset, IsStaked
<1>4. ASSUME NEW u \in Users, NEW a \in Assets, Program(u, a) \/ Environment(u, a)
      PROVE  IInv'
  BY <1>4, CreateStep, StakeStep, UnstakeStep, TransferStep, AddFreezeStep, RemoveFreezeStep
     DEF Program, Environment, MintAsset, CreateWithAttributes
<1>5. CASE Tick
  <2>1. now \in Nat /\ now' \in Nat /\ now <= now' /\ now' \in Start..End
    BY <1>5, ClockAssumption DEF Tick, IInv, TypeOK
  <2>2. Asset(now) \subseteq Asset(now')
    BY <2>1, AssetsAge
  <2>3. asset' \in [Assets -> Asset(now') \union {NoAsset}]
    BY <1>5, <2>2 DEF Tick, IInv, TypeOK
  <2>4. TypeOK'
    BY <1>5, <2>1, <2>3 DEF Tick, IInv, TypeOK
  <2>5. StakedIsFrozen'
    BY <1>5 DEF Tick, IInv, StakedIsFrozen, IsAsset, IsStaked
  <2> QED
    BY <2>4, <2>5 DEF IInv
<1> QED
  BY <1>1, <1>2, <1>3, <1>4, <1>5 DEF Next

LEMMA Invariant == Spec => []IInv
<1>1. ASSUME Init PROVE IInv
  <2>1. collection \in {"none", "outside", "program"}
    BY <1>1 DEF Init
  <2>2. now \in Start..End
    BY <1>1, ClockAssumption DEF Init
  <2>3. rewards \in [Users -> Nat] /\ config \in Config \union {NoConfig}
    BY <1>1 DEF Init
  <2>4. asset \in [Assets -> Asset(now) \union {NoAsset}]
    BY <1>1 DEF Init
  <2>5. StakedIsFrozen
    BY <1>1 DEF Init, StakedIsFrozen, IsStaked, IsAsset
  <2> QED
    BY <2>1, <2>2, <2>3, <2>4, <2>5 DEF IInv, TypeOK
<1> QED
  BY <1>1, InvStep, PTL DEF Spec

-----------------------------------------------------------------------------
(* Theorems                                                                *)

(* The program's state is well typed and dated in the past                 *)
(* (NftStaking.TypeOK).                                                    *)
THEOREM TypeCorrect == Spec => []TypeOK
BY Invariant, PTL DEF IInv

(* What the attributes call staked is frozen by the program, also when      *)
(* owners add the plugin of stake themselves, frozen or not, without       *)
(* staking (stake.rs:96-130, unstake.rs:130-147).                          *)
THEOREM FrozenWhileStaked == Spec => []StakedIsFrozen
BY Invariant, PTL DEF IInv

(* A staked asset is neither sold nor staked again: the plugin stops the   *)
(* first, the attribute the second (stake.rs:66-67,122-130).               *)
THEOREM StakedAssetsStay == Spec => StakedStays
<1> DEFINE Stays(a) == IsStaked(a) /\ IsStaked(a)' =>
                /\ asset'[a].owner = asset[a].owner
                /\ asset'[a].attributes.stake_at = asset[a].attributes.stake_at
<1>1. ASSUME IInv, [Next]_vars PROVE \A a \in Assets : Stays(a)
  <2>1. CASE UNCHANGED asset
    BY <2>1
  <2>2. ASSUME NEW u \in Users, NEW b \in Assets,
               Program(u, b) \/ Environment(u, b), ~UNCHANGED asset
        PROVE  \A a \in Assets : Stays(a)
    <3>1. \A a \in Assets \ {b} : asset'[a] = asset[a]
      BY <1>1, <2>2 DEF IInv, TypeOK, Program, MintAsset, Stake, Unstake, Environment,
         CreateWithAttributes, Create, Transfer, AddFreeze, RemoveFreeze
    <3>2. ASSUME IsStaked(b) PROVE ~IsStaked(b)'
      <4>1. IsAsset(b) /\ asset[b].freeze = "frozen" /\ asset \in [Assets -> Asset(now) \union {NoAsset}]
        BY <1>1, <3>2 DEF IInv, TypeOK, StakedIsFrozen, IsStaked
      <4>2. Unstake(u, b)
        BY <2>2, <3>2, <4>1 DEF Program, MintAsset, Stake, MayStake, IsStaked, Environment,
           CreateWithAttributes, Create, Transfer, AddFreeze, RemoveFreeze
      <4>3. asset[b].attributes \in Attributes(now)
        BY <3>2, <4>1 DEF IsStaked, IsAsset, Asset
      <4>4. UnstakeAttributes(asset[b].attributes).staked = "false"
        BY <1>1, <4>3, Distinct, UnstakeAttributesType DEF IInv
      <4> QED
        BY <4>1, <4>2, <4>4 DEF Unstake, IsStaked
    <3> QED
      BY <3>1, <3>2
  <2> QED
    BY <1>1, <2>1, <2>2 DEF Next, vars, CreateCollection, CreateOutside, HandOver, Initialize, Tick
<1> QED
  BY <1>1, Invariant, PTL DEF Spec, StakedStays

-----------------------------------------------------------------------------
(* What unstake reads                                                      *)

(* The attributes of an asset: staked_at is never the time of a staking,   *)
(* it is missing until the first unstake writes a zero; stake_at is there  *)
(* from the first staking on.                                              *)
Marked(list) ==
    list # NoAttributes =>
        /\ list.staked_at \in {Unset, 0}
        /\ list.staked = "true" => list.stake_at # Unset

ListsMarked == \A a \in Assets : IsAsset(a) => Marked(asset[a].attributes)

(* Nothing is staked before the collection is configured.                  *)
StakesConfigured == \A a \in Assets : IsStaked(a) => config # NoConfig

(* Of the attributes that an instruction writes.                           *)
LEMMA MarkedLists ==
    ASSUME TypeOK, NEW list \in Attributes(now), Marked(list)
    PROVE  /\ Marked(NoKeys)
           /\ Marked(StakeAttributes(list))
           /\ Marked(UnstakeAttributes(list))
<1>1. list # NoAttributes /\ now # Unset
  BY Distinct DEF Unset
<1> QED
  BY <1>1 DEF Marked, NoKeys, StakeAttributes, UnstakeAttributes, Attributes

LEMMA MarksStep ==
    ASSUME IInv, ListsMarked, StakesConfigured, [Next]_vars
    PROVE  ListsMarked' /\ StakesConfigured'
<1>1. CASE UNCHANGED asset
  <2>1. ListsMarked'
    BY <1>1 DEF ListsMarked, IsAsset
  <2>2. \A a \in Assets : IsStaked(a)' <=> IsStaked(a)
    BY <1>1 DEF IsStaked, IsAsset
  <2>3. config' = config \/ config = NoConfig
    BY DEF Next, vars, CreateCollection, CreateOutside, HandOver, Initialize, Tick, Program,
       MintAsset, Stake, Unstake, Environment, CreateWithAttributes, Create, Transfer,
       AddFreeze, RemoveFreeze
  <2> QED
    BY <2>1, <2>2, <2>3 DEF StakesConfigured
<1>2. ASSUME NEW u \in Users, NEW b \in Assets,
             Program(u, b) \/ Environment(u, b), ~UNCHANGED asset
      PROVE  ListsMarked' /\ StakesConfigured'
  <2> DEFINE old == asset[b].attributes
             new == asset'[b].attributes
  <2>1. /\ config' = config
        /\ \A a \in Assets \ {b} : asset'[a] = asset[a]
    BY <1>2 DEF IInv, TypeOK, Program, MintAsset, Stake, Unstake, Environment,
       CreateWithAttributes, Create, Transfer, AddFreeze, RemoveFreeze
  <2>2. \/ new \in {NoAttributes, NoKeys}
        \/ IsAsset(b) /\ new = old
        \/ IsAsset(b) /\ old # NoAttributes /\ new = UnstakeAttributes(old)
        \/ /\ IsAsset(b) /\ old # NoAttributes /\ config # NoConfig
           /\ new = StakeAttributes(old)
    BY <1>2, Existing DEF IInv, TypeOK, Program, MintAsset, Stake, Unstake, CanUnstake,
       Environment, CreateWithAttributes, Create, Transfer, AddFreeze, RemoveFreeze, Asset
  <2>3. IsAsset(b) /\ old # NoAttributes => old \in Attributes(now) /\ Marked(old)
    BY Existing DEF ListsMarked, Asset
  <2>4. Marked(new)
    <3>1. Marked(NoAttributes) /\ Marked(NoKeys)
      BY DEF Marked, NoKeys
    <3>2. IsAsset(b) => Marked(old)
      BY DEF ListsMarked
    <3> HIDE DEF old, new
    <3> QED
      BY <2>2, <2>3, <3>1, <3>2, MarkedLists DEF IInv
  <2>5. ListsMarked'
    BY <2>1, <2>4 DEF ListsMarked, IsAsset
  <2>6. IsStaked(b)' => config # NoConfig
    <3>1. IsStaked(b)' => new # NoAttributes /\ new.staked = "true"
      BY DEF IsStaked, IsAsset
    <3>2. NoKeys.staked # "true"
      BY DEF NoKeys
    <3>3. IsAsset(b) /\ old # NoAttributes => UnstakeAttributes(old).staked # "true"
      BY <2>3, Distinct, UnstakeAttributesType DEF IInv
    <3>4. IsAsset(b) /\ new = old /\ IsStaked(b)' => IsStaked(b)
      BY <3>1 DEF IsStaked
    <3> HIDE DEF old, new
    <3> QED
      BY <2>2, <3>1, <3>2, <3>3, <3>4 DEF StakesConfigured
  <2> QED
    BY <2>1, <2>5, <2>6 DEF StakesConfigured, IsStaked, IsAsset
<1> QED
  BY <1>1, <1>2 DEF Next, vars, CreateCollection, CreateOutside, HandOver, Initialize, Tick

LEMMA Marks == Spec => [](ListsMarked /\ StakesConfigured)
<1>1. Init => ListsMarked /\ StakesConfigured
  BY DEF Init, ListsMarked, StakesConfigured, IsStaked, IsAsset
<1> QED
  BY <1>1, Invariant, MarksStep, PTL DEF Spec

(* The whole days from zero, that is 1970, to the clock.                   *)
DaysOfClock == now \div SecondsPerDay

(* What the guard of unstake comes to for a staked asset: there is no      *)
(* condition the first time, and then one on the clock alone.              *)
GuardsUnstake ==
    \A a \in Assets :
        IsStaked(a) =>
            (CanUnstake(asset[a].owner, a)
                <=> \/ asset[a].attributes.staked_at = Unset
                    \/ DaysOfClock >= config.freeze_period)

LEMMA DaysRead ==
    ASSUME IInv, ListsMarked, NEW a \in Assets, IsAsset(a), asset[a].attributes # NoAttributes
    PROVE  LET list == asset[a].attributes
           IN  StakedDays(list) = IF list.staked_at = Unset THEN 0 ELSE DaysOfClock
<1>1. asset[a].attributes.staked_at \in {Unset, 0}
  BY DEF ListsMarked, Marked
<1>2. now - 0 = now
  BY Distinct DEF IInv
<1> QED
  BY <1>1, <1>2 DEF StakedDays, DaysOfClock, Unset

LEMMA UnstakeGuard ==
    ASSUME IInv, ListsMarked, StakesConfigured
    PROVE  GuardsUnstake
<1> SUFFICES ASSUME NEW a \in Assets, IsStaked(a)
             PROVE  CanUnstake(asset[a].owner, a)
                      <=> \/ asset[a].attributes.staked_at = Unset
                          \/ DaysOfClock >= config.freeze_period
  BY DEF GuardsUnstake
<1>1. /\ IsAsset(a) /\ asset[a].attributes # NoAttributes
      /\ asset[a].attributes.staked # "false"
      /\ config # NoConfig /\ asset[a].freeze = "frozen"
  BY DEF IsStaked, IInv, StakedIsFrozen, StakesConfigured
<1>2. LET list == asset[a].attributes
      IN  StakedDays(list) = IF list.staked_at = Unset THEN 0 ELSE DaysOfClock
  BY <1>1, DaysRead
<1> QED
  BY <1>1, <1>2 DEF CanUnstake, MayUnstake

(* The freeze period of a staking is not looked at: the first unstake of   *)
(* an asset has no condition, and every later one only that as many days   *)
(* as the period have passed since 1970, whenever the asset was staked;    *)
(* why the run nft_freeze finds an asset unstaked early                    *)
(* (stake.rs:86-89, unstake.rs:92-108).                                    *)
THEOREM FreezePeriodIsNotRead == Spec => []GuardsUnstake
BY Invariant, Marks, UnstakeGuard, PTL

(* What Releasable says with ENABLED, said of the guard.                   *)
GuardsRelease ==
    \A a \in Assets :
        IsStaked(a) /\ (now - asset[a].attributes.stake_at) \div SecondsPerDay
                            >= config.freeze_period
            => CanUnstake(asset[a].owner, a)

(* No asset is stuck: when the freeze period has passed since it was       *)
(* staked, its owner can unstake it, whatever became of its plugin and its *)
(* attributes in earlier stakings (unstake.rs:92-147).                     *)
THEOREM StakesAreReleasable == Spec => []GuardsRelease
<1>1. IInv /\ ListsMarked /\ StakesConfigured => GuardsRelease
  <2> SUFFICES ASSUME IInv, ListsMarked, StakesConfigured, NEW a \in Assets, IsStaked(a),
                      (now - asset[a].attributes.stake_at) \div SecondsPerDay
                            >= config.freeze_period
               PROVE  CanUnstake(asset[a].owner, a)
    BY DEF GuardsRelease
  <2> DEFINE at == asset[a].attributes.stake_at
             period == config.freeze_period
  <2>1. at \in 0..now
    <3>1. IsAsset(a) /\ asset[a].attributes # NoAttributes
      BY DEF IsStaked
    <3>2. asset[a].attributes \in Attributes(now) /\ at # Unset
      BY <3>1, Existing DEF IsStaked, ListsMarked, Marked, Asset
    <3> QED
      BY <3>2 DEF Attributes, Times
  <2>2. now \in Nat /\ SecondsPerDay \in Nat \ {0} /\ period \in Nat
    <3>1. config \in Config
      BY DEF IInv, TypeOK, StakesConfigured
    <3> QED
      BY <3>1, Distinct, ArgumentsAssumption, ClockAssumption DEF Config, IInv
  <2>3. (now - at) \div SecondsPerDay <= now \div SecondsPerDay
    <3> HIDE DEF at
    <3> QED BY <2>1, <2>2, Z3
  <2>4. DaysOfClock >= period
    <3>1. (now - at) \div SecondsPerDay \in Int /\ now \div SecondsPerDay \in Int
      BY <2>1, <2>2
    <3> HIDE DEF at, period
    <3> QED BY <2>2, <2>3, <3>1 DEF DaysOfClock, at, period
  <2> QED
    BY <2>4, UnstakeGuard DEF GuardsUnstake
<1> QED
  BY <1>1, Invariant, Marks, PTL

(* What a step pays in rewards: nothing, or the rate for every day of the  *)
(* clock.                                                                  *)
PaidByTheClock ==
    \A u \in Users :
        rewards'[u] # rewards[u] =>
            rewards'[u] = rewards[u] + DaysOfClock * config.rewards_bps * 100

(* Rewards are not for the time an asset was staked: a step that mints     *)
(* any, to whomever and for whichever asset, mints the rate for every day  *)
(* since 1970 (unstake.rs:92-108,149-155).                                 *)
THEOREM RewardsAreForTheClock == Spec => [][PaidByTheClock]_vars
<1>1. IInv /\ ListsMarked /\ [Next]_vars => [PaidByTheClock]_vars
  <2> SUFFICES ASSUME IInv, ListsMarked, Next, NEW v \in Users, rewards'[v] # rewards[v]
               PROVE  rewards'[v] = rewards[v] + DaysOfClock * config.rewards_bps * 100
    BY DEF PaidByTheClock
  <2>1. PICK u \in Users, a \in Assets : Unstake(u, a)
    BY DEF Next, CreateCollection, CreateOutside, HandOver, Initialize, Tick, Program,
       MintAsset, Stake, Environment, CreateWithAttributes, Create, Transfer, AddFreeze,
       RemoveFreeze
  <2> DEFINE list == asset[a].attributes
  <2>2. /\ IsAsset(a) /\ list # NoAttributes /\ config # NoConfig
        /\ rewards' = [rewards EXCEPT ![u] = @ + Reward(list)]
    BY <2>1 DEF Unstake, CanUnstake
  <2>3. StakedDays(list) = IF list.staked_at = Unset THEN 0 ELSE DaysOfClock
    BY <2>2, DaysRead
  <2>4. config.rewards_bps \in Nat /\ rewards \in [Users -> Nat]
    BY <2>2, ArgumentsAssumption DEF IInv, TypeOK, Config
  <2>5. v = u /\ rewards'[v] = rewards[v] + Reward(list)
    <3> HIDE DEF list
    <3> QED BY <2>2, <2>4
  <2>6. Reward(list) \in {0, DaysOfClock * config.rewards_bps * 100}
    <3> HIDE DEF list
    <3> QED BY <2>3, <2>4 DEF Reward
  <2> HIDE DEF list
  <2> QED
    BY <2>4, <2>5, <2>6
<1> QED
  BY <1>1, Invariant, Marks, PTL DEF Spec

=============================================================================
