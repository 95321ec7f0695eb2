---------------------------- MODULE MCNftStaking ----------------------------
(* Instances of the staking program for TLC.                               *)
EXTENDS NftStaking

CONSTANTS alice, bob, a1, a2

(* The clock goes on, and an owner who wants an asset back sends unstake    *)
(* again and again.                                                         *)
OwnersUnstake == \A u \in Users, a \in Assets : WF_vars(Unstake(u, a))

FairSpec == Spec /\ WF_vars(Tick) /\ OwnersUnstake

(* config.rs:7, "freeze period": a period ends.  A staked asset is given    *)
(* back to an owner who keeps asking, whether it was staked for the first   *)
(* time or bought from somebody who had staked it before                    *)
(* (unstake.rs:92-147).                                                     *)
EveryStakeEnds == \A a \in Assets : IsStaked(a) ~> ~IsStaked(a)

=============================================================================
