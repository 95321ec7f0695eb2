----------------------------- MODULE NftStaking -----------------------------
(***************************************************************************)
(* The program of src/nft-staking for one collection of MPL Core assets.   *)
(* Staking an asset writes attributes and freezes it; unstaking reads the  *)
(* attributes back, thaws the asset and mints rewards.  One action is one  *)
(* transaction, enabled when it succeeds.                                  *)
(***************************************************************************)
EXTENDS Integers

CONSTANTS
    Users,          \* wallets
    Assets,         \* asset addresses of the collection
    RewardsBps,     \* values of the u16 argument `rewards_bps`
    FreezePeriods,  \* values of the u16 argument `freeze_period`, in days
    SecondsPerDay,  \* SECONDS_PER_DAY
    Start, End,     \* the clock when the model begins, and its bound
    MaxRewards,     \* bound on the rewards of a user who stakes again
    NoConfig, NoAsset, NoAttributes     \* what is not there

ASSUME ArgumentsAssumption == RewardsBps \subseteq Nat /\ FreezePeriods \subseteq Nat
ASSUME ClockAssumption ==
    /\ SecondsPerDay \in Nat \ {0}
    /\ Start \in Nat /\ End \in Nat /\ Start <= End
ASSUME MaxRewardsAssumption == MaxRewards \in Nat

VARIABLES
    collection, \* whose the collection is: "none" yet, "outside" the program, or the "program"
    config,     \* the config account of the collection
    asset,      \* asset[a]: the asset at address a, with its two plugins
    rewards,    \* rewards[u]: reward tokens of u
    now         \* unix_timestamp

vars == <<collection, config, asset, rewards, now>>

Config == [rewards_bps : RewardsBps, freeze_period : FreezePeriods]

(* The attributes with a meaning to the program; Unset where the list has  *)
(* no such key.                                                            *)
Unset == -1
Times(last) == {Unset} \union 0..last
Attributes(last) ==
    [staked : {"unset", "true", "false"}, stake_at : Times(last), staked_at : Times(last)]
NoKeys == [staked |-> "unset", stake_at |-> Unset, staked_at |-> Unset]

(* FreezeDelegate: absent, frozen or thawed under the program's authority, *)
(* or under the owner's own, who then freezes and thaws at will.           *)
Freeze == {"absent", "frozen", "thawed", "own"}

Asset(last) ==
    [owner : Users, attributes : Attributes(last) \union {NoAttributes}, freeze : Freeze]

ASSUME AbsentAssumption ==
    NoConfig \notin Config /\ NoAsset \notin Asset(End) /\ NoAttributes \notin Attributes(End)

IsAsset(a) == asset[a] # NoAsset
IsStaked(a) ==
    /\ IsAsset(a)
    /\ asset[a].attributes # NoAttributes
    /\ asset[a].attributes.staked = "true"

-----------------------------------------------------------------------------
(* The program's own collection: its address signs for every asset.        *)
CreateCollection ==
    /\ collection = "none"
    /\ collection' = "program"
    /\ UNCHANGED <<config, asset, rewards, now>>

(* `init` on the config of a collection under the program's authority.     *)
Initialize(rewards_bps, freeze_period) ==
    /\ collection = "program" /\ config = NoConfig
    /\ config' = [rewards_bps |-> rewards_bps, freeze_period |-> freeze_period]
    /\ UNCHANGED <<collection, asset, rewards, now>>

(* MPL Core creates an asset at an unused address.                         *)
Create(user, a, attributes) ==
    /\ ~IsAsset(a)
    /\ asset' = [asset EXCEPT ![a] =
                    [owner |-> user, attributes |-> attributes, freeze |-> "absent"]]
    /\ UNCHANGED <<collection, config, rewards, now>>

(* The program's own mint gives an asset no plugins.                       *)
MintAsset(user, a) == collection = "program" /\ Create(user, a, NoAttributes)

-----------------------------------------------------------------------------
(* Stake                                                                   *)

(* A `staked` attribute must say false.                                    *)
MayStake(list) == list.staked # "true"

StakeAttributes_Until(list) ==
    [list EXCEPT !.staked = "true", !.stake_at = now + config.freeze_period * SecondsPerDay]

(* `stake_at` is replaced; any `staked_at` is copied like other attributes.*)
StakeAttributes(list) == [list EXCEPT !.staked = "true", !.stake_at = now]

Frozen_False == "thawed"

Frozen_Owner == "own"

(* The plugin is added frozen, under the authority of the collection.      *)
Frozen == "frozen"

(* On an asset without attributes stake succeeds and does nothing; on any  *)
(* other it writes the attributes and adds FreezeDelegate, which MPL Core  *)
(* refuses when the asset has one.                                         *)
Stake(owner, a) ==
    /\ config # NoConfig
    /\ IsAsset(a) /\ asset[a].owner = owner
    /\ \/ asset[a].attributes = NoAttributes /\ UNCHANGED asset
       \/ /\ asset[a].attributes # NoAttributes
          /\ MayStake(asset[a].attributes)
          /\ asset[a].freeze = "absent"
          /\ asset' = [asset EXCEPT ![a] =
                          [owner |-> owner,
                           attributes |-> StakeAttributes(@.attributes),
                           freeze |-> Frozen]]
    /\ UNCHANGED <<collection, config, rewards, now>>

-----------------------------------------------------------------------------
(* Unstake                                                                 *)

(* The time since `staked_at`, in whole days; zero without that attribute. *)
StakedDays(list) ==
    IF list.staked_at = Unset THEN 0 ELSE (now - list.staked_at) \div SecondsPerDay

MayUnstake_NeedsTime(list) ==
    /\ list.staked # "false"
    /\ list.staked_at # Unset
    /\ StakedDays(list) >= config.freeze_period

(* A `staked` attribute must say true; the freeze period is looked at only *)
(* where there is a `staked_at`.                                           *)
MayUnstake(list) ==
    /\ list.staked # "false"
    /\ list.staked_at # Unset => StakedDays(list) >= config.freeze_period

(* Both are reset; any `stake_at` is copied like other attributes.         *)
UnstakeAttributes(list) == [list EXCEPT !.staked = "false", !.staked_at = 0]

(* Of a mint with six decimals: 10^6 / 10000.                              *)
Reward(list) == StakedDays(list) * config.rewards_bps * 100

(* Thawing updates FreezeDelegate, for which it must be under the          *)
(* program's authority.                                                    *)
CanUnstake(owner, a) ==
    /\ config # NoConfig
    /\ IsAsset(a) /\ asset[a].owner = owner
    /\ asset[a].attributes # NoAttributes
    /\ MayUnstake(asset[a].attributes)
    /\ asset[a].freeze \in {"frozen", "thawed"}

Unstake(owner, a) ==
    LET list == asset[a].attributes
    IN  /\ CanUnstake(owner, a)
        /\ asset' = [asset EXCEPT ![a] =
                        [owner |-> owner, attributes |-> UnstakeAttributes(list), freeze |-> "thawed"]]
        /\ rewards' = [rewards EXCEPT ![owner] = @ + Reward(list)]
        /\ UNCHANGED <<collection, config, now>>

-----------------------------------------------------------------------------
(* What MPL Core and the cluster do without the program.                   *)

(* Only a collection made elsewhere and handed to the program has assets   *)
(* with attributes; they are assumed not to use the program's keys.        *)
CreateOutside ==
    /\ collection = "none"
    /\ collection' = "outside"
    /\ UNCHANGED <<config, asset, rewards, now>>

CreateWithAttributes(user, a) == collection = "outside" /\ Create(user, a, NoKeys)

HandOver ==
    /\ collection = "outside"
    /\ collection' = "program"
    /\ UNCHANGED <<config, asset, rewards, now>>

Transfer(owner, a, new) ==
    /\ IsAsset(a) /\ asset[a].owner = owner /\ new # owner
    /\ asset[a].freeze # "frozen"
    /\ asset' = [asset EXCEPT ![a].owner = new]
    /\ UNCHANGED <<collection, config, rewards, now>>

(* FreezeDelegate is managed by the owner, who may add it alone, under an   *)
(* own authority or, as stake does, under that of the collection, frozen or *)
(* not, and may remove it from a thawed asset.                              *)
AddFreeze(owner, a) ==
    /\ IsAsset(a) /\ asset[a].owner = owner
    /\ asset[a].freeze = "absent"
    /\ \E freeze \in Freeze \ {"absent"} : asset' = [asset EXCEPT ![a].freeze = freeze]
    /\ UNCHANGED <<collection, config, rewards, now>>

RemoveFreeze(owner, a) ==
    /\ IsAsset(a) /\ asset[a].owner = owner
    /\ asset[a].freeze \in {"thawed", "own"}
    /\ \A u \in Users : rewards[u] < MaxRewards
    /\ asset' = [asset EXCEPT ![a].freeze = "absent"]
    /\ UNCHANGED <<collection, config, rewards, now>>

Tick ==
    /\ now < End
    /\ now' = now + 1
    /\ UNCHANGED <<collection, config, asset, rewards>>

Init ==
    /\ collection = "none"
    /\ config = NoConfig
    /\ asset = [a \in Assets |-> NoAsset]
    /\ rewards = [u \in Users |-> 0]
    /\ now = Start

Program(user, a) == MintAsset(user, a) \/ Stake(user, a) \/ Unstake(user, a)

Environment(user, a) ==
    \/ CreateWithAttributes(user, a)
    \/ \E new \in Users : Transfer(user, a, new)
    \/ AddFreeze(user, a)
    \/ RemoveFreeze(user, a)

Next ==
    \/ CreateCollection \/ CreateOutside \/ HandOver
    \/ \E bps \in RewardsBps, period \in FreezePeriods : Initialize(bps, period)
    \/ \E user \in Users, a \in Assets : Program(user, a) \/ Environment(user, a)
    \/ Tick

Spec == Init /\ [][Next]_vars

-----------------------------------------------------------------------------
(* Properties                                                              *)

(* Well typed, and no attribute is dated in the future.                    *)
TypeOK ==
    /\ collection \in {"none", "outside", "program"}
    /\ config \in Config \union {NoConfig}
    /\ asset \in [Assets -> Asset(now) \union {NoAsset}]
    /\ rewards \in [Users -> Nat]
    /\ now \in Start..End

(* What the attributes call staked, the program holds frozen, through any  *)
(* order of staking, unstaking, selling, adding and removing the plugin    *)
(* and staking again (stake.rs:96-130, unstake.rs:130-147).  The converse  *)
(* is not the program's to keep: an owner may freeze an asset alone.       *)
StakedIsFrozen == \A a \in Assets : IsStaked(a) => asset[a].freeze = "frozen"

(* From staking to unstaking an asset stays with its owner and keeps the   *)
(* time it was staked at (stake.rs:66-67,122-130).                         *)
StakedStays ==
    [][\A a \in Assets :
          IsStaked(a) /\ IsStaked(a)' =>
              /\ asset'[a].owner = asset[a].owner
              /\ asset'[a].attributes.stake_at = asset[a].attributes.stake_at
      ]_vars

(* Once the freeze period has passed since it was staked, an asset can be  *)
(* unstaked by its owner, for the first time or after other stakings, by   *)
(* this owner or an earlier one (unstake.rs:92-108).                       *)
Releasable ==
    \A a \in Assets :
        IsStaked(a) /\ (now - asset[a].attributes.stake_at) \div SecondsPerDay
                            >= config.freeze_period
            => ENABLED Unstake(asset[a].owner, a)

(* config.rs:7, "minimum freeze period in days": no asset is unstaked      *)
(* before it (unstake.rs:96-104).                                          *)
FreezePeriodHolds ==
    [][\A a \in Assets :
          IsStaked(a) /\ ~IsStaked(a)' =>
              (now - asset[a].attributes.stake_at) \div SecondsPerDay >= config.freeze_period
      ]_vars

=============================================================================
