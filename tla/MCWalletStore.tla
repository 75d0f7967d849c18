---------------------------- MODULE MCWalletStore ----------------------------
(* Instances of WalletStore for TLC: see the .cfg files.                   *)
EXTENDS WalletStore
=============================================================================
