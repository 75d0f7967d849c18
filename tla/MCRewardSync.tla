---------------------------- MODULE MCRewardSync ----------------------------
(* Instances of RewardSync for TLC: see the .cfg file.                     *)
EXTENDS RewardSync
=============================================================================
