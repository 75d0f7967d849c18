---------------------------- MODULE MCApiQueries ----------------------------
(* Instances of ApiQueries for TLC: see the .cfg files.                    *)
EXTENDS ApiQueries

MCPages == {{k} : k \in Keys}
=============================================================================
