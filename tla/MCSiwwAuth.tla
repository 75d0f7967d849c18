----------------------------- MODULE MCSiwwAuth -----------------------------
(* Instances of SiwwAuth for TLC: see the .cfg files.                      *)
EXTENDS SiwwAuth, TLC

\* Tabs, and wallets of one kind, are only compared for equality.
MCSymmetry == Permutations(Tab) \cup Permutations(Edpk) \cup Permutations(Wallet \ Edpk)
=============================================================================
