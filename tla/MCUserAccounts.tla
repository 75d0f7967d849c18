--------------------------- MODULE MCUserAccounts ---------------------------
(* Instances of UserAccounts for TLC: see the .cfg files.                  *)
EXTENDS UserAccounts, TLC

MCSymmetry == Permutations(Wallet) \cup Permutations(Email) \cup Permutations(Chat)
=============================================================================
