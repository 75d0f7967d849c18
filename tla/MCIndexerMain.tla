--------------------------- MODULE MCIndexerMain ---------------------------
(* An instance of IndexerMain for TLC: see the .cfg file.                  *)
EXTENDS IndexerMain
=============================================================================
