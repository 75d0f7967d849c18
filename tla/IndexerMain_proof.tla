------------------------- MODULE IndexerMain_proof -------------------------
(***************************************************************************)
(* IndexerMain proved for every Batch, chain, number of failures and of    *)
(* signals: the scans keep their types and stay below the head, no two of  *)
(* them are under way at the same time, and after a signal none begins.    *)
(***************************************************************************)
EXTENDS IndexerMain, SequenceTheorems, TLAPS

-----------------------------------------------------------------------------
(* The inductive invariant                                                 *)

\* The types of each scan; the window of a run is inside the chain.
RewardsScan ==
  /\ R!ScanTypeOK /\ rOps \in Seq([level: Nat])
  /\ rPc # "idle" => rFrom <= R!head /\ rTo <= R!head

DelegationsScan ==
  /\ D!ScanTypeOK /\ dOps \in Seq([level: Nat])
  /\ dPc # "idle" => dFrom <= D!head /\ dTo <= D!head

\* A scan is under way only while the loop of runMain waits for it.
ScanHasTheTurn ==
  /\ rPc # "idle" => turn = "rewards"
  /\ dPc # "idle" => turn = "delegations"

LoopTypes ==
  /\ turn \in {"bakers", "rewards", "delegations", "sleep", "stopped"}
  /\ running \in BOOLEAN /\ failures \in Nat /\ signals \in Nat

IInv == RewardsScan /\ DelegationsScan /\ LoopTypes /\ ScanHasTheTurn

-----------------------------------------------------------------------------
(* What both scans read and write                                          *)

\* A block is drawn as a function on 1..n.
LEMMA BlockIsSeq ==
  ASSUME NEW S, NEW n \in Nat, NEW es \in [1..n -> S]
  PROVE  es \in Seq(S)
  BY SeqDef

\* A block of n operations, appended.
LEMMA BlockTyped ==
  ASSUME NEW s \in Seq([level: Nat]), NEW b \in Seq(Nat), NEW h \in Nat, NEW n \in Nat,
         NEW es \in [1..n -> [level: {h}]]
  PROVE  /\ s \o es \in Seq([level: Nat])
         /\ Append(b, Len(s) + n) \in Seq(Nat)
         /\ Len(Append(b, Len(s) + n)) = Len(b) + 1
  <1>1. es \in [1..n -> [level: Nat]]
    OBVIOUS
  <1>2. es \in Seq([level: Nat])
    BY <1>1, BlockIsSeq
  <1>3. Len(s) + n \in Nat
    BY LenProperties
  <1> QED
    BY <1>2, <1>3, ConcatProperties, AppendProperties

\* The bounds of a page of a window inside the chain are numbers.
LEMMA PageTyped ==
  ASSUME NEW b \in Seq(Nat), NEW f \in 0..Len(b), NEW t \in 0..Len(b), NEW o \in Nat
  PROVE  /\ R!PageFirst(b, f, o) \in Nat /\ R!PageLast(b, f, t, o) \in Nat
         /\ D!PageFirst(b, f, o) \in Nat /\ D!PageLast(b, f, t, o) \in Nat
  <1>1. \A l \in 1..Len(b) : b[l] \in Nat
    BY ElementOfSeq
  <1>2. Len(b) \in Nat
    BY LenProperties
  <1>3. /\ R!WindowStart(b, f) \in Nat /\ R!WindowEnd(b, f, t) \in Nat
        /\ D!WindowStart(b, f) \in Nat /\ D!WindowEnd(b, f, t) \in Nat
    BY <1>1, <1>2 DEF R!WindowStart, R!WindowEnd, R!Upto, D!WindowStart, D!WindowEnd, D!Upto
  <1> QED
    BY <1>3, BatchAssumption
       DEF R!PageFirst, R!PageLast, D!PageFirst, D!PageLast

-----------------------------------------------------------------------------
(* The reward scan                                                       *)

\* A block that is added leaves a run as it was, below the head.
LEMMA RewardsBlock ==
  ASSUME RewardsScan, R!AddBlock([level: {R!head + 1}]),
         UNCHANGED <<rSeen, rPc, rFrom, rTo, rOffset, rScanned,
                     rCursor, rPageEnd>>
  PROVE  RewardsScan'
  <1>0. PICK n \in 0..MaxPerBlock :
          \E es \in [1..n -> [level: {R!head + 1}]] :
            /\ rOps' = rOps \o es
            /\ rBelow' = Append(rBelow, Len(rOps) + n)
    BY DEF R!AddBlock
  <1>1. PICK es \in [1..n -> [level: {R!head + 1}]] :
          /\ rOps' = rOps \o es
          /\ rBelow' = Append(rBelow, Len(rOps) + n)
    BY <1>0
  <1>2. /\ n \in Nat /\ R!head \in Nat /\ R!head = Len(rBelow)
        /\ rBelow \in Seq(Nat) /\ rOps \in Seq([level: Nat])
    BY LenProperties DEF RewardsScan, R!ScanTypeOK, R!head
  <1>3. PICK h \in Nat : h = R!head + 1
    BY <1>2
  <1>4. /\ rOps' \in Seq([level: Nat]) /\ rBelow' \in Seq(Nat)
        /\ Len(rBelow') = Len(rBelow) + 1
    BY <1>1, <1>2, <1>3, BlockTyped
  <1> QED
    BY <1>2, <1>4 DEF RewardsScan, R!ScanTypeOK, R!head

\* Awaits that leave the run in progress: it is inside the chain that it saw.
LEMMA RewardsStep ==
  ASSUME RewardsScan, UNCHANGED <<rOps, rBelow, rSeen>>,
         \/ R!BeginScan
         \/ R!GetPage
         \/ rPc = "find" /\ R!NextOp
  PROVE  RewardsScan'
  <1>1. /\ R!head \in Nat /\ R!head = Len(rBelow) /\ rBelow \in Seq(Nat)
        /\ R!head' = R!head
    BY LenProperties DEF RewardsScan, R!ScanTypeOK, R!head
  <1>2. CASE R!BeginScan
    BY <1>1, <1>2 DEF R!BeginScan, RewardsScan, R!ScanTypeOK
  <1>3. CASE R!GetPage
    <2>1. rFrom \in 0..Len(rBelow) /\ rTo \in 0..Len(rBelow) /\ rOffset \in Nat
      BY <1>1, <1>3 DEF R!GetPage, RewardsScan, R!ScanTypeOK
    <2>2. PICK first \in Nat, last \in Nat :
            /\ first = R!PageFirst(rBelow, rFrom, rOffset)
            /\ last = R!PageLast(rBelow, rFrom, rTo, rOffset)
      BY <1>1, <2>1, PageTyped
    <2>3. /\ UNCHANGED <<rFrom, rTo, rOffset>>
          /\ \/ rPc' = "finish" /\ UNCHANGED <<rScanned, rCursor, rPageEnd>>
             \/ /\ first <= last /\ rPc' = "find"
                /\ rScanned' = rScanned + (last - first + 1)
                /\ rCursor' = first /\ rPageEnd' = last
      BY <1>3, <2>2 DEF R!GetPage
    <2>4. rScanned' \in Nat /\ rCursor' \in Nat /\ rPageEnd' \in Nat
      BY <2>2, <2>3 DEF RewardsScan, R!ScanTypeOK
    <2> QED
      BY <1>1, <1>3, <2>3, <2>4 DEF R!GetPage, RewardsScan, R!ScanTypeOK
  <1>4. CASE rPc = "find" /\ R!NextOp
    <2>1. /\ UNCHANGED <<rFrom, rTo, rScanned>>
          /\ rPc' \in {"find", "finish", "page"}
          /\ rCursor' \in {rCursor + 1, 0} /\ rPageEnd' \in {rPageEnd, 0}
          /\ rOffset' \in {rOffset, rOffset + Batch}
      BY <1>4 DEF R!NextOp, R!LeavePage
    <2>2. rCursor' \in Nat /\ rPageEnd' \in Nat /\ rOffset' \in Nat
      BY <2>1, BatchAssumption DEF RewardsScan, R!ScanTypeOK
    <2> QED
      BY <1>1, <1>4, <2>1, <2>2 DEF RewardsScan, R!ScanTypeOK
  <1> QED
    BY <1>2, <1>3, <1>4

\* A run that returns or throws is over, and saves a level of the chain.
LEMMA RewardsRunEnds ==
  ASSUME RewardsScan, UNCHANGED <<rOps, rBelow>>,
         R!SaveLevel \/ (rPc # "idle" /\ R!EndScan /\ UNCHANGED rSeen)
  PROVE  RewardsScan' /\ rPc' = "idle"
  <1>1. R!head \in Nat /\ R!head' = R!head
    BY LenProperties DEF RewardsScan, R!ScanTypeOK, R!head
  <1>2. rSeen' \in {rSeen, rTo} /\ rPc # "idle"
    BY DEF R!SaveLevel
  <1>3. /\ rPc' = "idle" /\ rFrom' = 0 /\ rTo' = 0 /\ rOffset' = 0
        /\ rScanned' = 0 /\ rCursor' = 0 /\ rPageEnd' = 0
    BY DEF R!SaveLevel, R!EndScan
  <1> QED
    BY <1>1, <1>2, <1>3 DEF RewardsScan, R!ScanTypeOK

-----------------------------------------------------------------------------
(* The delegation scan                                                       *)

\* A block that is added leaves a run as it was, below the head.
LEMMA DelegationsBlock ==
  ASSUME DelegationsScan, D!AddBlock([level: {D!head + 1}]),
         UNCHANGED <<dSeen, dPc, dFrom, dTo, dOffset, dScanned,
                     dCursor, dPageEnd>>
  PROVE  DelegationsScan'
  <1>0. PICK n \in 0..MaxPerBlock :
          \E es \in [1..n -> [level: {D!head + 1}]] :
            /\ dOps' = dOps \o es
            /\ dBelow' = Append(dBelow, Len(dOps) + n)
    BY DEF D!AddBlock
  <1>1. PICK es \in [1..n -> [level: {D!head + 1}]] :
          /\ dOps' = dOps \o es
          /\ dBelow' = Append(dBelow, Len(dOps) + n)
    BY <1>0
  <1>2. /\ n \in Nat /\ D!head \in Nat /\ D!head = Len(dBelow)
        /\ dBelow \in Seq(Nat) /\ dOps \in Seq([level: Nat])
    BY LenProperties DEF DelegationsScan, D!ScanTypeOK, D!head
  <1>3. PICK h \in Nat : h = D!head + 1
    BY <1>2
  <1>4. /\ dOps' \in Seq([level: Nat]) /\ dBelow' \in Seq(Nat)
        /\ Len(dBelow') = Len(dBelow) + 1
    BY <1>1, <1>2, <1>3, BlockTyped
  <1> QED
    BY <1>2, <1>4 DEF DelegationsScan, D!ScanTypeOK, D!head

\* Awaits that leave the run in progress: it is inside the chain that it saw.
LEMMA DelegationsStep ==
  ASSUME DelegationsScan, UNCHANGED <<dOps, dBelow, dSeen>>,
         \/ D!BeginScan
         \/ D!GetPage
         \/ dPc = "find" /\ D!NextOp
  PROVE  DelegationsScan'
  <1>1. /\ D!head \in Nat /\ D!head = Len(dBelow) /\ dBelow \in Seq(Nat)
        /\ D!head' = D!head
    BY LenProperties DEF DelegationsScan, D!ScanTypeOK, D!head
  <1>2. CASE D!BeginScan
    BY <1>1, <1>2 DEF D!BeginScan, DelegationsScan, D!ScanTypeOK
  <1>3. CASE D!GetPage
    <2>1. dFrom \in 0..Len(dBelow) /\ dTo \in 0..Len(dBelow) /\ dOffset \in Nat
      BY <1>1, <1>3 DEF D!GetPage, DelegationsScan, D!ScanTypeOK
    <2>2. PICK first \in Nat, last \in Nat :
            /\ first = D!PageFirst(dBelow, dFrom, dOffset)
            /\ last = D!PageLast(dBelow, dFrom, dTo, dOffset)
      BY <1>1, <2>1, PageTyped
    <2>3. /\ UNCHANGED <<dFrom, dTo, dOffset>>
          /\ \/ dPc' = "finish" /\ UNCHANGED <<dScanned, dCursor, dPageEnd>>
             \/ /\ first <= last /\ dPc' = "find"
                /\ dScanned' = dScanned + (last - first + 1)
                /\ dCursor' = first /\ dPageEnd' = last
      BY <1>3, <2>2 DEF D!GetPage
    <2>4. dScanned' \in Nat /\ dCursor' \in Nat /\ dPageEnd' \in Nat
      BY <2>2, <2>3 DEF DelegationsScan, D!ScanTypeOK
    <2> QED
      BY <1>1, <1>3, <2>3, <2>4 DEF D!GetPage, DelegationsScan, D!ScanTypeOK
  <1>4. CASE dPc = "find" /\ D!NextOp
    <2>1. /\ UNCHANGED <<dFrom, dTo, dScanned>>
          /\ dPc' \in {"find", "finish", "page"}
          /\ dCursor' \in {dCursor + 1, 0} /\ dPageEnd' \in {dPageEnd, 0}
          /\ dOffset' \in {dOffset, dOffset + Batch}
      BY <1>4 DEF D!NextOp, D!LeavePage
    <2>2. dCursor' \in Nat /\ dPageEnd' \in Nat /\ dOffset' \in Nat
      BY <2>1, BatchAssumption DEF DelegationsScan, D!ScanTypeOK
    <2> QED
      BY <1>1, <1>4, <2>1, <2>2 DEF DelegationsScan, D!ScanTypeOK
  <1> QED
    BY <1>2, <1>3, <1>4

\* A run that returns or throws is over, and saves a level of the chain.
LEMMA DelegationsRunEnds ==
  ASSUME DelegationsScan, UNCHANGED <<dOps, dBelow>>,
         D!SaveLevel \/ (dPc # "idle" /\ D!EndScan /\ UNCHANGED dSeen)
  PROVE  DelegationsScan' /\ dPc' = "idle"
  <1>1. D!head \in Nat /\ D!head' = D!head
    BY LenProperties DEF DelegationsScan, D!ScanTypeOK, D!head
  <1>2. dSeen' \in {dSeen, dTo} /\ dPc # "idle"
    BY DEF D!SaveLevel
  <1>3. /\ dPc' = "idle" /\ dFrom' = 0 /\ dTo' = 0 /\ dOffset' = 0
        /\ dScanned' = 0 /\ dCursor' = 0 /\ dPageEnd' = 0
    BY DEF D!SaveLevel, D!EndScan
  <1> QED
    BY <1>1, <1>2, <1>3 DEF DelegationsScan, D!ScanTypeOK

-----------------------------------------------------------------------------
(* The loop                                                                *)

LEMMA InitIInv == Init => IInv
  <1> SUFFICES ASSUME Init PROVE IInv
    OBVIOUS
  <1>1. /\ rOps = <<>> /\ rBelow = <<>> /\ rSeen = 0 /\ rPc = "idle" /\ rFrom = 0
        /\ rTo = 0 /\ rOffset = 0 /\ rScanned = 0 /\ rCursor = 0 /\ rPageEnd = 0
    BY DEF Init, R!ScanInit
  <1>2. /\ dOps = <<>> /\ dBelow = <<>> /\ dSeen = 0 /\ dPc = "idle" /\ dFrom = 0
        /\ dTo = 0 /\ dOffset = 0 /\ dScanned = 0 /\ dCursor = 0 /\ dPageEnd = 0
    BY DEF Init, D!ScanInit
  <1>3. <<>> \in Seq(Nat) /\ <<>> \in Seq([level: Nat]) /\ Len(<<>>) = 0
    BY EmptySeq
  <1>4. RewardsScan
    BY <1>1, <1>3 DEF RewardsScan, R!ScanTypeOK, R!head
  <1>5. DelegationsScan
    BY <1>2, <1>3 DEF DelegationsScan, D!ScanTypeOK, D!head
  <1> QED
    BY <1>1, <1>2, <1>4, <1>5 DEF Init, IInv, LoopTypes, ScanHasTheTurn

LEMMA TurnTyped ==
  ASSUME LoopTypes, turn # "stopped",
         \/ turn' = turn
         \/ \E sync \in {"bakers", "rewards", "delegations"} : NextTurn(sync)
  PROVE  turn' \in {"bakers", "rewards", "delegations", "sleep", "stopped"}
  BY DEF LoopTypes, NextTurn, After

\* What a scan that is not at work, or the other one, leaves as it was.
LEMMA RewardsRest == ASSUME RewardsScan, UNCHANGED rewardVars PROVE RewardsScan'
  BY DEF RewardsScan, R!ScanTypeOK, R!head, rewardVars

LEMMA DelegationsRest ==
  ASSUME DelegationsScan, UNCHANGED delegationVars PROVE DelegationsScan'
  BY DEF DelegationsScan, D!ScanTypeOK, D!head, delegationVars

LEMMA NextKeepsIInv == IInv /\ [Next]_vars => IInv'
  <1> SUFFICES ASSUME IInv, [Next]_vars PROVE IInv'
    OBVIOUS
  <1>0. RewardsScan /\ DelegationsScan /\ LoopTypes /\ ScanHasTheTurn
    BY DEF IInv
  <1>1. CASE NewBlock
    <2>1. RewardsScan'
      BY <1>0, <1>1, RewardsBlock DEF NewBlock
    <2>2. DelegationsScan'
      BY <1>0, <1>1, DelegationsBlock DEF NewBlock
    <2>3. UNCHANGED <<rPc, dPc, turn, running, failures, signals>>
      BY <1>1 DEF NewBlock
    <2> QED
      BY <1>0, <2>1, <2>2, <2>3 DEF IInv, LoopTypes, ScanHasTheTurn
  <1>2. CASE Bakers \/ NothingNew("rewards") \/ NothingNew("delegations")
             \/ Sleep \/ Signal \/ Restart \/ UNCHANGED vars
    <2>1. UNCHANGED <<rewardVars, delegationVars>>
      BY <1>2 DEF Bakers, NothingNew, Sleep, Signal, Restart, vars
    <2>2. RewardsScan' /\ DelegationsScan' /\ rPc' = rPc /\ dPc' = dPc
      BY <1>0, <2>1, RewardsRest, DelegationsRest DEF rewardVars, delegationVars
    <2>3. LoopTypes'
      <3>1. CASE Bakers \/ NothingNew("rewards") \/ NothingNew("delegations")
        BY <1>0, <3>1, TurnTyped DEF LoopTypes, Bakers, NothingNew
      <3>2. CASE Sleep \/ Restart
        BY <1>0, <3>2 DEF LoopTypes, Sleep, Restart
      <3>3. CASE Signal
        <4>1. signals \in Nat /\ signals' = signals + 1
          BY <1>0, <3>3 DEF LoopTypes, Signal
        <4>2. signals' \in Nat
          BY <4>1
        <4>3. running' = FALSE /\ UNCHANGED <<turn, failures>>
          BY <3>3 DEF Signal
        <4> QED
          BY <1>0, <4>2, <4>3, Zenon DEF LoopTypes
      <3>4. CASE UNCHANGED vars
        BY <1>0, <3>4 DEF LoopTypes, vars
      <3> QED
        BY <1>2, <3>1, <3>2, <3>3, <3>4
    <2>4. ScanHasTheTurn'
      BY <1>0, <1>2, <2>2 DEF ScanHasTheTurn, Bakers, NothingNew, Sleep, Signal, Restart,
                              vars
    <2> QED
      BY <2>2, <2>3, <2>4 DEF IInv
  <1>3. CASE RewardStep \/ RewardEnd
    <2>1. /\ turn = "rewards" /\ UNCHANGED <<running, signals, failures>>
          /\ UNCHANGED delegationVars /\ UNCHANGED <<rOps, rBelow>>
      BY <1>3 DEF RewardStep, RewardEnd, Unchanged
    <2>2. DelegationsScan' /\ dPc' = "idle"
      BY <1>0, <2>1, DelegationsRest DEF ScanHasTheTurn, delegationVars
    <2>3. RewardsScan' /\ (turn' = turn \/ rPc' = "idle")
      BY <1>0, <1>3, <2>1, RewardsStep, RewardsRunEnds DEF RewardStep, RewardEnd
    <2>4. LoopTypes'
      BY <1>0, <1>3, <2>1, TurnTyped DEF LoopTypes, RewardStep, RewardEnd
    <2> QED
      BY <2>1, <2>2, <2>3, <2>4 DEF IInv, ScanHasTheTurn
  <1>4. CASE DelegationStep \/ DelegationReturn \/ DelegationThrow
    <2>1. /\ turn = "delegations" /\ UNCHANGED <<running, signals>>
          /\ UNCHANGED rewardVars /\ UNCHANGED <<dOps, dBelow>>
      BY <1>4 DEF DelegationStep, DelegationReturn, DelegationThrow, Unchanged
    <2>2. RewardsScan' /\ rPc' = "idle"
      BY <1>0, <2>1, RewardsRest DEF ScanHasTheTurn, rewardVars
    <2>3. DelegationsScan' /\ (turn' = turn \/ dPc' = "idle")
      BY <1>0, <1>4, <2>1, DelegationsStep, DelegationsRunEnds
         DEF DelegationStep, DelegationReturn, DelegationThrow
    <2>4. LoopTypes'
      <3>1. failures' \in {failures, failures + 1} /\ failures' \in Nat
        BY <1>0, <1>4 DEF LoopTypes, DelegationStep, DelegationReturn, DelegationThrow
      <3> QED
        BY <1>0, <1>4, <2>1, <3>1, TurnTyped
           DEF LoopTypes, DelegationStep, DelegationReturn, DelegationThrow
    <2> QED
      BY <2>1, <2>2, <2>3, <2>4 DEF IInv, ScanHasTheTurn
  <1> QED
    BY <1>1, <1>2, <1>3, <1>4 DEF Next, LoopStep

\* The inductive invariant: it relates the two scans through the turn.
THEOREM Invariance == Spec => []IInv
  BY InitIInv, NextKeepsIInv, PTL DEF Spec

\* Every variable keeps its type, and no scan is ahead of the chain.
THEOREM TypeCorrect == Spec => []TypeOK
  <1>1. IInv => TypeOK
    BY DEF IInv, TypeOK, RewardsScan, DelegationsScan, LoopTypes
  <1> QED
    BY <1>1, Invariance, PTL

\* runMain awaits one sync before it calls the next one: at no time are two
\* scans under way, whatever fails and whenever the process is told to stop.
THEOREM NeverTwoScans == Spec => []OneScanAtATime
  <1>1. IInv => OneScanAtATime
    BY DEF IInv, ScanHasTheTurn, OneScanAtATime
  <1> QED
    BY <1>1, Invariance, PTL

\* if (!running) break, and the test of the while loop: after a signal no other
\* sync begins.
THEOREM Graceful == Spec => NoSyncBeginsAfterSignal
  <1>1. ASSUME IInv, [Next]_vars
        PROVE  [~running /\ running' = FALSE =>
                  (turn' # turn => turn' \in {"sleep", "stopped"})]_vars
    <2>1. SUFFICES ASSUME Next, ~running, running' = FALSE, turn' # turn
                   PROVE  turn' \in {"sleep", "stopped"}
      BY <1>1
    <2> QED
      BY <2>1 DEF Next, LoopStep, NewBlock, Bakers, NothingNew, RewardStep, RewardEnd,
                  DelegationStep, DelegationReturn, DelegationThrow, Sleep, Signal, Restart,
                  NextTurn
  <1> QED
    BY <1>1, Invariance, PTL DEF Spec, NoSyncBeginsAfterSignal
=============================================================================
