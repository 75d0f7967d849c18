-------------------------- MODULE MCDelegationSync --------------------------
(* Instances of DelegationSync for TLC: see the .cfg files.                *)
EXTENDS DelegationSync, TLC

\* TzKT's four statuses fall in two classes for the code: applied, and others.
MCOpStatus == {"applied", "backtracked"}

\* Wallets and hashes are only compared for equality.
MCSymmetry == Permutations(Wallet) \cup Permutations(Hash)
=============================================================================
