----------------------------- MODULE MCBakerSync ----------------------------
(* Instances of BakerListing for TLC: see the .cfg files.                  *)
EXTENDS BakerListing

\* Fees of 0.05 % and 0.07 %, and the 5 % of the comment in the code.
MCFees == {5, 7, 500}

\* Pauses of one unit where the code sleeps 1 s, 3 s and 5 s.
MCBackoff == <<1, 1>>
=============================================================================
