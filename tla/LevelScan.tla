----------------------------- MODULE LevelScan -----------------------------
(***************************************************************************)
(* The loop that RewardSync.run and DelegationSync.run share: from the     *)
(* saved level to the head, page by page, one operation after the other,   *)
(* and the level saved when all pages were handled.  Every await is a step *)
(* of its own.  What is done with an operation is left to the two modules  *)
(* that extend this one.                                                   *)
(***************************************************************************)
EXTENDS TzktFeed, FiniteSets

CONSTANTS MaxLevel,      \* bound: blocks produced
          MaxPerBlock    \* bound: operations of this resource in one block

VARIABLES
  ops, below,            \* TzKT: the operations of this resource, by id
  lastSeen,              \* IndexerState of this resource
  pc,                    \* "idle" between two runs, else the next await
  from, to, offset, scanned,   \* the locals of the run
  cursor, pageEnd        \* the ids of the operation at hand, the page's last

feedVars == <<ops, below>>
scanVars == <<pc, from, to, offset, scanned, cursor, pageEnd>>

head == Len(below)

ScanInit ==
  /\ ops = <<>> /\ below = <<>> /\ lastSeen = 0
  /\ pc = "idle" /\ from = 0 /\ to = 0 /\ offset = 0 /\ scanned = 0
  /\ cursor = 0 /\ pageEnd = 0

\* A block with up to MaxPerBlock operations drawn from Content.
AddBlock(Content) ==
  /\ head < MaxLevel
  /\ \E n \in 0..MaxPerBlock : \E es \in [1..n -> Content] :
       /\ ops' = ops \o es
       /\ below' = Append(below, Len(ops) + n)

\* The levels below this one are, or will be when the run in progress ends,
\* no longer scanned.
Frontier == IF pc = "idle" THEN lastSeen ELSE to

\* The operations that the run in progress has dealt with, by id: those of the
\* pages and of the cursor behind it.
Handled(i) ==
  CASE pc = "page" -> i < PageFirst(below, from, offset)
    [] pc \in {"find", "update"} -> i < cursor
    [] OTHER -> TRUE

\* Mutated form: a run waits for two new levels.
BeginScanLagging ==
  /\ pc = "idle" /\ head > lastSeen + 1
  /\ pc' = "page" /\ from' = lastSeen /\ to' = head
  /\ UNCHANGED <<offset, scanned, cursor, pageEnd>>

\* getLastSeen and GET /v1/head.  A failed head call counts as "no new
\* level"; without one the run returns at once, as if it had never begun.
BeginScan ==
  /\ pc = "idle" /\ head > lastSeen
  /\ pc' = "page" /\ from' = lastSeen /\ to' = head
  /\ UNCHANGED <<offset, scanned, cursor, pageEnd>>

\* One GET of a page.  An empty page ends the scan.
GetPage ==
  /\ pc = "page"
  /\ LET first == PageFirst(below, from, offset)
         last  == PageLast(below, from, to, offset)
     IN \/ /\ last < first
           /\ pc' = "finish"
           /\ UNCHANGED <<scanned, cursor, pageEnd>>
        \/ /\ first <= last
           /\ pc' = "find"
           /\ scanned' = scanned + (last - first + 1)
           /\ cursor' = first /\ pageEnd' = last
  /\ UNCHANGED <<from, to, offset>>

\* Mutated form: no further page is asked for when this one is full.
LastPageNonStrict ==
  pageEnd - PageFirst(below, from, offset) + 1 <= Batch

\* The page was shorter than the limit: there is no other one.
LastPage == pageEnd - PageFirst(below, from, offset) + 1 < Batch

LeavePage == cursor' = 0 /\ pageEnd' = 0

\* The end of the loop body: the next operation, the end, or the next page.
NextOp ==
  /\ \/ /\ cursor < pageEnd
        /\ pc' = "find" /\ cursor' = cursor + 1 /\ UNCHANGED <<offset, pageEnd>>
     \/ /\ cursor = pageEnd /\ LastPage
        /\ pc' = "finish" /\ LeavePage /\ UNCHANGED offset
     \/ /\ cursor = pageEnd /\ ~LastPage
        /\ pc' = "page" /\ LeavePage /\ offset' = offset + Batch
  /\ UNCHANGED <<from, to, scanned>>

\* The run ends, or throws, or its process dies: its locals are gone.
EndScan ==
  /\ pc' = "idle" /\ from' = 0 /\ to' = 0 /\ offset' = 0 /\ scanned' = 0
  /\ cursor' = 0 /\ pageEnd' = 0

\* Mutated form: setLastSeen saves the first level not scanned.
SaveLevelPast ==
  /\ pc = "finish"
  /\ lastSeen' = IF scanned > 0 THEN to + 1 ELSE lastSeen
  /\ EndScan

\* setLastSeen, unless nothing was scanned.
SaveLevel ==
  /\ pc = "finish"
  /\ lastSeen' = IF scanned > 0 THEN to ELSE lastSeen
  /\ EndScan

\* The types of the loop; lastSeen is a level that the chain has reached.
ScanTypeOK ==
  /\ below \in Seq(Nat)
  /\ lastSeen \in 0..head
  /\ pc \in {"idle", "page", "find", "update", "finish"}
  /\ from \in Nat /\ to \in Nat /\ offset \in Nat /\ scanned \in Nat
  /\ cursor \in Nat /\ pageEnd \in Nat

\* What the headers of the two sync modules say the scan asks TzKT for
\* (level.ge): at the end of a run every operation from lastSeen up to the
\* head that the run saw was scanned, each one once.
ScanCoversWindow ==
  pc = "finish" =>
    scanned = Cardinality({i \in DOMAIN ops :
                             from <= ops[i].level /\ ops[i].level <= to})
=============================================================================
