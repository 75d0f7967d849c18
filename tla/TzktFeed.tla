------------------------------ MODULE TzktFeed ------------------------------
(***************************************************************************)
(* The TzKT HTTP API as the indexer of apps/indexer uses it.  It is an     *)
(* external service: what is stated here is read off the queries that      *)
(* apps/indexer/src/sync builds and off what they do with the answers.     *)
(*                                                                         *)
(* An operation's TzKT id is its position in the list of operations, which *)
(* grows in block order.  below[l] is the number of operations at or below *)
(* level l, so Len(below) is the head and the operations of level l are    *)
(* those with an id in below[l-1]+1 .. below[l].                           *)
(***************************************************************************)
EXTENDS Naturals, Sequences

CONSTANTS Batch,       \* BATCH_SIZE, the "limit" of a page
          LevelParam   \* how the service reads the query parameter "level"

ASSUME BatchAssumption == Batch \in Nat \ {0}

\* "ge": as the lower bound that the headers of the sync modules announce
\* (level.ge); "eq": as an equality filter on the level.
ASSUME LevelParamAssumption == LevelParam \in {"ge", "eq"}

Upto(below, l) == IF l = 0 THEN 0 ELSE below[l]

\* Mutated form: a lower bound read as level.gt.
WindowStartGt(below, from) == Upto(below, from)

\* The operations that answer  level=<from>&level.le=<to>  are those with an
\* id in WindowStart+1 .. WindowEnd.
WindowStart(below, from) == IF from = 0 THEN 0 ELSE Upto(below, from - 1)

WindowEnd(below, from, to) ==
  Upto(below, IF LevelParam = "eq" THEN from ELSE to)

PageFirst(below, from, offset) == WindowStart(below, from) + offset + 1

\* The last id of the page at this offset; smaller than PageFirst when the
\* page is empty.
PageLast(below, from, to, offset) ==
  LET full == WindowStart(below, from) + offset + Batch
      end  == WindowEnd(below, from, to)
  IN  IF full <= end THEN full ELSE end
=============================================================================
