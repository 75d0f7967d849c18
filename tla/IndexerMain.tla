---------------------------- MODULE IndexerMain ----------------------------
(***************************************************************************)
(* The indexer process: runMain calls the three syncs in turn, at every    *)
(* tick, catches what each of them throws, and leaves its loop when a      *)
(* signal has cleared "running".  The two scans are instances of           *)
(* LevelScan; what they do with an operation is in RewardSync and          *)
(* DelegationSync and is here one step, which may throw.                   *)
(***************************************************************************)
EXTENDS Naturals, Sequences

CONSTANTS Batch, LevelParam, MaxLevel, MaxPerBlock,
          MaxFailures,  \* bound: failures of the delegation scan
          MaxSignals    \* bound: stops and restarts of the process

\* That of TzktFeed, of which R and D below are instances.
ASSUME BatchAssumption == Batch \in Nat \ {0}

VARIABLES
  rOps, rBelow, rSeen, rPc, rFrom, rTo, rOffset, rScanned, rCursor, rPageEnd,
  dOps, dBelow, dSeen, dPc, dFrom, dTo, dOffset, dScanned, dCursor, dPageEnd,
  turn,       \* what the loop of runMain is at
  running,    \* cleared by SIGINT and SIGTERM
  failures,   \* failures of the delegation scan
  signals     \* signals so far

rewardVars     == <<rOps, rBelow, rSeen, rPc, rFrom, rTo, rOffset, rScanned,
                    rCursor, rPageEnd>>
delegationVars == <<dOps, dBelow, dSeen, dPc, dFrom, dTo, dOffset, dScanned,
                    dCursor, dPageEnd>>
vars == <<rewardVars, delegationVars, turn, running, failures, signals>>

R == INSTANCE LevelScan WITH
       ops <- rOps, below <- rBelow, lastSeen <- rSeen, pc <- rPc, from <- rFrom,
       to <- rTo, offset <- rOffset, scanned <- rScanned, cursor <- rCursor,
       pageEnd <- rPageEnd
D == INSTANCE LevelScan WITH
       ops <- dOps, below <- dBelow, lastSeen <- dSeen, pc <- dPc, from <- dFrom,
       to <- dTo, offset <- dOffset, scanned <- dScanned, cursor <- dCursor,
       pageEnd <- dPageEnd

Init == /\ R!ScanInit /\ D!ScanInit
        /\ turn = "bakers" /\ running = TRUE /\ failures = 0 /\ signals = 0

\* A block: operations of both kinds, at the same new level.
NewBlock ==
  /\ R!AddBlock([level: {R!head + 1}]) /\ D!AddBlock([level: {D!head + 1}])
  /\ UNCHANGED <<rSeen, rPc, rFrom, rTo, rOffset, rScanned, rCursor, rPageEnd>>
  /\ UNCHANGED <<dSeen, dPc, dFrom, dTo, dOffset, dScanned, dCursor, dPageEnd>>
  /\ UNCHANGED <<turn, running, failures, signals>>

\* Mutated form: an error of one sync ends the tick before the others ran.
AfterEndsTick(sync) == "sleep"

\* The sync that the loop calls when this one returned or threw.
After(sync) == CASE sync = "bakers" -> "rewards"
                 [] sync = "rewards" -> "delegations"
                 [] OTHER -> "sleep"

\* Mutated form: the loop over the syncs does not look at "running".
NextTurnUnguarded(sync) ==
  turn' = After(sync)

\* if (!running) break;
NextTurn(sync) == turn' = IF running THEN After(sync) ELSE "sleep"

\* BakerSync.run, which returns or throws.
Bakers ==
  /\ turn = "bakers" /\ NextTurn("bakers")
  /\ UNCHANGED <<rewardVars, delegationVars, running, failures, signals>>

\* A sync without a new level returns at once.
NothingNew(sync) ==
  /\ turn = sync /\ NextTurn(sync)
  /\ \/ sync = "rewards" /\ rPc = "idle" /\ R!head = rSeen
     \/ sync = "delegations" /\ dPc = "idle" /\ D!head = dSeen
  /\ UNCHANGED <<rewardVars, delegationVars, running, failures, signals>>

Unchanged(sync) ==
  /\ IF sync = "rewards" THEN UNCHANGED <<delegationVars, rOps, rBelow>>
                         ELSE UNCHANGED <<rewardVars, dOps, dBelow>>
  /\ UNCHANGED <<running, signals>>

\* Mutated form: runMain does not wait for the promise of the rewards sync.
RewardStepNotAwaited ==
  /\ turn = "rewards" /\ turn' = "delegations" /\ UNCHANGED failures
  /\ R!BeginScan /\ UNCHANGED rSeen
  /\ Unchanged("rewards")

\* An await of RewardSync.run that does not end it.
RewardStep ==
  /\ turn = "rewards" /\ UNCHANGED <<turn, failures>>
  /\ \/ R!BeginScan /\ UNCHANGED rSeen
     \/ R!GetPage /\ UNCHANGED rSeen
     \/ rPc = "find" /\ R!NextOp /\ UNCHANGED rSeen
  /\ Unchanged("rewards")

\* It returns, or throws: the reward scan may do so at every single tick.
RewardEnd ==
  /\ turn = "rewards" /\ NextTurn("rewards") /\ UNCHANGED failures
  /\ \/ R!SaveLevel
     \/ rPc # "idle" /\ R!EndScan /\ UNCHANGED rSeen
  /\ Unchanged("rewards")

DelegationStep ==
  /\ turn = "delegations" /\ UNCHANGED <<turn, failures>>
  /\ \/ D!BeginScan /\ UNCHANGED dSeen
     \/ D!GetPage /\ UNCHANGED dSeen
     \/ dPc = "find" /\ D!NextOp /\ UNCHANGED dSeen
  /\ Unchanged("delegations")

DelegationReturn ==
  /\ turn = "delegations" /\ NextTurn("delegations") /\ UNCHANGED failures
  /\ D!SaveLevel
  /\ Unchanged("delegations")

DelegationThrow ==
  /\ turn = "delegations" /\ NextTurn("delegations")
  /\ dPc # "idle" /\ D!EndScan /\ UNCHANGED dSeen
  /\ failures < MaxFailures /\ failures' = failures + 1
  /\ Unchanged("delegations")

\* Mutated form: the loop is "while (true)".
SleepForever ==
  /\ turn = "sleep" /\ turn' = "bakers"
  /\ UNCHANGED <<rewardVars, delegationVars, running, failures, signals>>

\* The sleep, and the test of the while loop.
Sleep ==
  /\ turn = "sleep" /\ turn' = IF running THEN "bakers" ELSE "stopped"
  /\ UNCHANGED <<rewardVars, delegationVars, running, failures, signals>>

Signal ==
  /\ running /\ running' = FALSE
  /\ signals < MaxSignals /\ signals' = signals + 1
  /\ UNCHANGED <<rewardVars, delegationVars, turn, failures>>

\* The process is started again: only the two levels saved are left.
Restart ==
  /\ turn = "stopped" /\ turn' = "bakers" /\ running' = TRUE
  /\ UNCHANGED <<rewardVars, delegationVars, failures, signals>>

LoopStep == \/ Bakers \/ NothingNew("rewards") \/ NothingNew("delegations")
            \/ RewardStep \/ RewardEnd
            \/ DelegationStep \/ DelegationReturn \/ DelegationThrow
            \/ Sleep

Next == NewBlock \/ LoopStep \/ Signal \/ Restart

\* The loop of runMain always goes on, and an operator starts a process that
\* stopped.  Blocks and signals come when they come.
Spec == Init /\ [][Next]_vars /\ WF_vars(LoopStep) /\ WF_vars(Restart)

-----------------------------------------------------------------------------
(* Properties                                                              *)

\* Every variable has its type, and no scan is ahead of the chain.
TypeOK ==
  /\ R!ScanTypeOK /\ D!ScanTypeOK
  /\ rOps \in Seq([level: Nat]) /\ dOps \in Seq([level: Nat])
  /\ turn \in {"bakers", "rewards", "delegations", "sleep", "stopped"}
  /\ running \in BOOLEAN /\ failures \in Nat /\ signals \in Nat

\* "Errors are caught per-resource so a single broken sync doesn't stall the
\* others": even if the rewards scan throws at every tick, a delegation that
\* the chain has moved past is scanned.
BrokenSyncStallsNoOther ==
  \A l \in 1..MaxLevel :
    (l < D!head /\ \E i \in DOMAIN dOps : dOps[i].level = l) ~> dSeen >= l

\* After a signal the sync at hand may finish, but no other one begins: the
\* process stops with no scan half done, from whatever point it was at.
NoSyncBeginsAfterSignal ==
  [][~running /\ running' = FALSE =>
       (turn' # turn => turn' \in {"sleep", "stopped"})]_vars

\* A signal stops the process: graceful shutdown ends.
SignalStops == ~running ~> turn = "stopped"

\* The TzKT client throttles only callers that wait for each other, as the
\* syncs of one tick do: no two scans are under way at the same time.
OneScanAtATime == rPc = "idle" \/ dPc = "idle"
=============================================================================
