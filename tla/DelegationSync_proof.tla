------------------------ MODULE DelegationSync_proof ------------------------
(***************************************************************************)
(* Proofs about DelegationSync for every value of its constants: types,    *)
(* the truth of the promoted rows, that paging, failed runs and concurrent *)
(* requests strand no row but those that were posted late, and that the    *)
(* rows implement the ledger.                                              *)
(***************************************************************************)
EXTENDS DelegationSync, LevelScan_proof

USE DEF vars, feedVars, dbVars, runVars, scanVars, history

-----------------------------------------------------------------------------
(* The inductive invariant                                                 *)

IInv == TypeOK /\ ScanInv

\* The cursor of a run denotes an operation.
LEMMA CursorIsOp ==
  ASSUME IInv, pc \in {"find", "update"}
  PROVE  cursor \in DOMAIN ops /\ ops[cursor] \in Op
  <1>1. cursor \in DOMAIN ops
    BY CursorInFeed DEF IInv
  <1>2. \A i \in DOMAIN ops : ops[i] \in Op
    BY ElementOfSeq, LenProperties DEF IInv, TypeOK
  <1> QED
    BY <1>1, <1>2

\* The empty database and the empty chain satisfy it.
LEMMA InitIInv == ASSUME Init PROVE IInv
  <1>1. ScanInv /\ ops \in Seq(Op)
    BY ScanInitInv DEF Init, ScanInit
  <1>2. TypeOK
    BY <1>1 DEF Init, TypeOK, Call, Idle, ScanInv
  <1> QED
    BY <1>1, <1>2 DEF IInv

\* The operations that a block may have.
NewOps == {op \in [hash: Hash, status: OpStatus, level: {head + 1}] : ~OnChain(op.hash)}

\* They are operations of the level that the block brings.
LEMMA NewOpsTyped ==
  ASSUME IInv
  PROVE  NewOps \subseteq Op /\ \A op \in NewOps : op.level = head + 1
  BY LenProperties DEF IInv, TypeOK, ScanTypeOK, head, NewOps, Op

\* A new block.
LEMMA NewBlockIInv == ASSUME IInv, NewBlock PROVE IInv'
  <1>1. AddBlock(NewOps) /\ ops \in Seq(Op) /\ ScanInv
        /\ UNCHANGED <<lastSeen, scanVars>>
    BY DEF NewBlock, NewOps, IInv, TypeOK
  <1>2. ScanInv' /\ ops' \in Seq(Op)
    BY <1>1, NewOpsTyped, BlockKeepsScanInv, BlockAdded
  <1> QED
    BY <1>2 DEF NewBlock, IInv, TypeOK, ScanInv

\* The steps that leave the feed and the indexer alone.
LEMMA ApiIInv == ASSUME IInv, ApiStep PROVE IInv'
  <1> USE DEF IInv
  <1>1. UNCHANGED <<feedVars, lastSeen, runVars, aborts>>
    BY DEF ApiStep, Upsert, Insert, ReadExisting, DeleteAccount
  <1>2. ScanInv'
    BY <1>1, ScanStutter
  <1>3. (/\ users \subseteq Wallet /\ rows \in [Hash -> Row \cup {NoRow}]
         /\ nextId \in Nat /\ req \in [Slot -> Call]
         /\ late \subseteq Nat /\ behind \subseteq Nat)'
    <2>1. CASE \E r \in Slot : Upsert(r)
      BY <2>1 DEF TypeOK, ScanTypeOK, Upsert, Call, Idle
    <2>2. CASE \E r \in Slot : Insert(r)
      <3>1. PICK r \in Slot : Insert(r)
        BY <2>2
      <3>2. /\ req[r] \in [pc: {"insert", "existing"}, wallet: Wallet, hash: Hash]
        BY <3>1 DEF Insert, TypeOK, ScanTypeOK, Call, Idle
      <3>3. [req[r] EXCEPT !.pc = "existing"] \in Call
        BY <3>2 DEF Call
      <3>4. [id |-> nextId, wallet |-> req[r].wallet, status |-> "PENDING",
             blockLevel |-> 0] \in Row
        BY <3>2 DEF Row, TypeOK, ScanTypeOK
      <3>5. req' \in [Slot -> Call]
        <4>1. req' = [req EXCEPT ![r] = Idle]
              \/ req' = [req EXCEPT ![r] = [req[r] EXCEPT !.pc = "existing"]]
          BY <3>1 DEF Insert
        <4> QED
          BY <3>3, <4>1 DEF TypeOK, ScanTypeOK, Call
      <3>6. /\ users' = users
            /\ rows' \in [Hash -> Row \cup {NoRow}]
            /\ nextId' \in Nat /\ late' \subseteq Nat /\ behind' \subseteq Nat
        <4>1. users' = users
          BY <3>1 DEF Insert
        <4>2. \/ UNCHANGED <<rows, nextId, late, behind>>
              \/ /\ rows' = [rows EXCEPT ![req[r].hash] =
                              [id |-> nextId, wallet |-> req[r].wallet,
                               status |-> "PENDING", blockLevel |-> 0]]
                 /\ nextId' = nextId + 1
                 /\ late' \in {late, late \cup {nextId}}
                 /\ behind' \in {behind, behind \cup {nextId}}
          BY <3>1 DEF Insert
        <4>3. rows \in [Hash -> Row \cup {NoRow}] /\ nextId \in Nat
              /\ late \subseteq Nat /\ behind \subseteq Nat
          BY DEF TypeOK, ScanTypeOK
        <4>4. rows' \in [Hash -> Row \cup {NoRow}]
          BY <3>4, <4>2, <4>3
        <4>5. nextId' \in Nat /\ late' \subseteq Nat /\ behind' \subseteq Nat
          <5>1. nextId' \in {nextId, nextId + 1}
            BY <4>2
          <5>2. late' \in {late, late \cup {nextId}}
                /\ behind' \in {behind, behind \cup {nextId}}
            BY <4>2
          <5> QED
            BY <4>3, <5>1, <5>2
        <4> QED
          BY <4>1, <4>4, <4>5
      <3> QED
        BY <3>5, <3>6 DEF TypeOK, ScanTypeOK
    <2>3. CASE \E r \in Slot : ReadExisting(r)
      BY <2>3 DEF TypeOK, ScanTypeOK, ReadExisting, Call
    <2>4. CASE \E w \in Wallet : DeleteAccount(w)
      BY <2>4 DEF TypeOK, ScanTypeOK, DeleteAccount
    <2> QED
      BY <2>1, <2>2, <2>3, <2>4 DEF ApiStep
  <1>4. TypeOK'
    BY <1>1, <1>2, <1>3 DEF TypeOK, ScanInv
  <1> QED
    BY <1>2, <1>4

\* The steps of a run, and its failures.
LEMMA RunIInv == ASSUME IInv, RunStep \/ Abort PROVE IInv'
  <1> USE DEF IInv
  <1>1. /\ UNCHANGED <<feedVars, users, nextId, req>>
        /\ late' \subseteq Nat /\ behind' \subseteq Nat
    <2>1. UNCHANGED <<feedVars, users, nextId, req>>
          /\ late' \in {late, late \cup behind} /\ behind' \in {behind, {}}
      BY DEF RunStep, BeginRun, FetchPage, FindRow, UpdateRow, Finish, Abort
    <2> QED
      BY <2>1 DEF TypeOK
  <1>2. SUFFICES ScanInv' /\ rows' \in [Hash -> Row \cup {NoRow}]
                 /\ picked' \in Nat /\ aborts' \in Nat
    BY <1>1 DEF TypeOK, ScanInv
  <1>3. rows \in [Hash -> Row \cup {NoRow}] /\ picked \in Nat /\ aborts \in Nat
    BY DEF TypeOK
  <1>4. CASE BeginRun
    BY <1>1, <1>3, <1>4, BeginKeepsScanInv DEF BeginRun
  <1>5. CASE FetchPage
    BY <1>1, <1>3, <1>5, PageKeepsScanInv DEF FetchPage
  <1>6. CASE FindRow
    <2>1. CASE ~Pending(ops[cursor].hash)
      BY <1>1, <1>3, <1>6, <2>1, NextOpKeepsScanInv DEF FindRow
    <2>2. CASE Pending(ops[cursor].hash)
      <3>1. rows[ops[cursor].hash] \in Row
        BY <1>3, <1>6, <2>2, CursorIsOp DEF FindRow, Pending, Op
      <3>2. picked' \in Nat /\ pc = "find" /\ pc' = "update"
            /\ UNCHANGED <<rows, aborts, lastSeen, from, to, offset, scanned, cursor, pageEnd>>
        BY <1>6, <2>2, <3>1 DEF FindRow, Row
      <3> QED
        BY <1>1, <1>3, <3>2, UpdateKeepsScanInv
    <2> QED
      BY <2>1, <2>2
  <1>7. CASE UpdateRow
    <2> DEFINE op == ops[cursor]
    <2>1. CASE rows[op.hash] # NoRow /\ rows[op.hash].id = picked
      <3>1. /\ rows' = [rows EXCEPT ![op.hash].status = Outcome(op),
                                    ![op.hash].blockLevel = op.level]
            /\ NextOp /\ picked' = 0 /\ pc = "update" /\ UNCHANGED <<lastSeen, aborts>>
        BY <1>7, <2>1 DEF UpdateRow
      <3>2. op \in Op /\ rows[op.hash] \in Row
        BY <1>3, <1>7, <2>1, CursorIsOp DEF UpdateRow, Op
      <3>3. Outcome(op) \in {"CONFIRMED", "FAILED"}
        BY DEF Outcome
      <3>4. rows' \in [Hash -> Row \cup {NoRow}]
        BY <1>3, <3>1, <3>2, <3>3 DEF Op, Row
      <3> QED
        BY <1>1, <1>3, <3>1, <3>4, NextOpKeepsScanInv
    <2>2. CASE ~(rows[op.hash] # NoRow /\ rows[op.hash].id = picked)
      BY <1>1, <1>3, <1>7, <2>2, EndKeepsScanInv DEF UpdateRow
    <2> QED
      BY <2>1, <2>2
  <1>8. CASE Finish
    BY <1>1, <1>3, <1>8, SaveKeepsScanInv DEF Finish
  <1>9. CASE Abort
    BY <1>1, <1>3, <1>9, EndKeepsScanInv DEF Abort
  <1> QED
    BY <1>4, <1>5, <1>6, <1>7, <1>8, <1>9 DEF RunStep

\* IInv holds in every reachable state.
THEOREM Invariance == Spec => []IInv
  <1>1. Init => IInv
    BY InitIInv
  <1>2. IInv /\ [Next]_vars => IInv'
    <2>1. ASSUME IInv, UNCHANGED vars PROVE IInv'
      BY <2>1, ScanStutter DEF IInv, TypeOK, ScanInv
    <2> QED
      BY <2>1, NewBlockIInv, RunIInv, ApiIInv DEF Next
  <1> QED
    BY <1>1, <1>2, PTL DEF Spec

\* Every variable keeps its type, and lastSeen never runs ahead of the chain.
THEOREM TypeCorrect == Spec => []TypeOK
  BY Invariance, PTL DEF IInv

\* When TzKT reads "level" as the lower bound of the window, every run that
\* ends has scanned each operation of its window once, for any page size and
\* any number of operations in a block, however often runs failed before.
THEOREM WindowScanned ==
  ASSUME LevelParam = "ge"
  PROVE  Spec => []ScanCoversWindow
  <1>1. IInv => ScanCoversWindow
    BY WindowCovered DEF IInv
  <1> QED
    BY <1>1, Invariance, PTL

-----------------------------------------------------------------------------
(* The truth of the promoted rows                                          *)

\* A promoted row says what the chain says of its operation: an update writes
\* the outcome of the operation under the cursor, and no operation changes.
THEOREM Truthful == Spec => []RowsTellTheTruth
  <1>1. Init => RowsTellTheTruth
    BY DEF Init, ScanInit, RowsTellTheTruth
  <1>2. ASSUME IInv, RowsTellTheTruth, [Next]_vars PROVE RowsTellTheTruth'
    <2> SUFFICES ASSUME NEW h \in Hash,
                        rows'[h] # NoRow, rows'[h].status # "PENDING"
                 PROVE  \E i \in DOMAIN ops' :
                          /\ ops'[i].hash = h
                          /\ ops'[i].level = rows'[h].blockLevel
                          /\ rows'[h].status = "CONFIRMED"
                               <=> ops'[i].status = "applied"
      BY DEF RowsTellTheTruth
    <2>1. CASE rows'[h] = rows[h]
      <3>1. PICK i \in DOMAIN ops :
              /\ ops[i].hash = h /\ ops[i].level = rows[h].blockLevel
              /\ rows[h].status = "CONFIRMED" <=> ops[i].status = "applied"
        BY <1>2, <2>1 DEF RowsTellTheTruth
      <3>2. i \in DOMAIN ops' /\ ops'[i] = ops[i]
        <4>1. CASE NewBlock
          BY <1>2, <4>1, NewOpsTyped, BlockAdded DEF IInv, TypeOK, NewBlock, NewOps
        <4>2. CASE UNCHANGED ops
          BY <4>2
        <4> QED
          BY <1>2, <4>1, <4>2 DEF Next, ApiStep, RunStep, Upsert, Insert,
             ReadExisting, DeleteAccount, BeginRun, BeginScan, FetchPage, GetPage, FindRow,
             UpdateRow, Finish, SaveLevel, Abort
      <3> QED
        BY <2>1, <3>1, <3>2
    <2>2. CASE rows'[h] # rows[h]
      <3>1. CASE UpdateRow
        <4>1. cursor \in DOMAIN ops /\ ops[cursor] \in Op
          BY <1>2, <3>1, CursorIsOp DEF UpdateRow
        <4>2. /\ rows' = [rows EXCEPT ![ops[cursor].hash].status = Outcome(ops[cursor]),
                                      ![ops[cursor].hash].blockLevel = ops[cursor].level]
              /\ rows[ops[cursor].hash] # NoRow
              /\ UNCHANGED ops
          BY <2>2, <3>1 DEF UpdateRow
        <4>3. rows \in [Hash -> Row \cup {NoRow}]
          BY <1>2 DEF IInv, TypeOK, ScanTypeOK
        <4>4. h = ops[cursor].hash /\ rows[h] \in Row
          BY <2>2, <4>1, <4>2, <4>3
        <4>5. rows'[h].status = Outcome(ops[cursor])
              /\ rows'[h].blockLevel = ops[cursor].level
          BY <4>1, <4>2, <4>3, <4>4 DEF Row, Op
        <4> QED
          BY <4>1, <4>2, <4>4, <4>5 DEF Outcome
      <3>2. CASE \E r \in Slot : Insert(r)
        <4>1. PICK r \in Slot : Insert(r)
          BY <3>2
        <4>2. rows' = [rows EXCEPT ![req[r].hash] =
                         [id |-> nextId, wallet |-> req[r].wallet,
                          status |-> "PENDING", blockLevel |-> 0]]
          BY <2>2, <4>1 DEF Insert
        <4>3. rows'[h].status = "PENDING"
          BY <1>2, <2>2, <4>2 DEF IInv, TypeOK, ScanTypeOK
        <4> QED
          BY <4>3
      <3>3. CASE \E w \in Wallet : DeleteAccount(w)
        BY <2>2, <3>3 DEF DeleteAccount
      <3>4. CASE UNCHANGED rows
        BY <2>2, <3>4
      <3> QED
        BY <1>2, <3>1, <3>2, <3>3, <3>4 DEF Next, ApiStep, RunStep, NewBlock,
           Upsert, ReadExisting, BeginRun, BeginScan, FetchPage, GetPage, FindRow, Finish, SaveLevel, Abort
    <2> QED
      BY <2>1, <2>2
  <1> QED
    BY <1>1, <1>2, Invariance, PTL DEF Spec


-----------------------------------------------------------------------------
(* No row is stranded but the late ones                                    *)

\* The operations that a scan need not see again.
Settled == {i \in DOMAIN ops :
              Pending(ops[i].hash) => rows[ops[i].hash].id \in late \cup behind}

\* What the run in progress has dealt with below its end is settled, and what
\* the runs before it have dealt with is settled for good.  Neither holds
\* without the other: a failed run falls back on the second, and saving the
\* level turns the first into the second.
SweepInv == Swept(Settled) /\ OnlyLateRowsAreStranded

\* After a step that ends a run the second says it all.
LEMMA SweptWhenIdle ==
  ASSUME ScanInv', pc' = "idle", OnlyLateRowsAreStranded'
  PROVE  SweepInv'
  <1>1. lastSeen' \in Nat /\ \A i \in DOMAIN ops' : ops'[i].level \in Nat
    BY DEF ScanInv, ScanTypeOK, LevelsInv
  <1> QED
    BY <1>1 DEF SweepInv, Swept, Settled, Frontier, OnlyLateRowsAreStranded

\* An operation's hash is one.
LEMMA HashOf == ASSUME IInv, NEW i \in DOMAIN ops PROVE ops[i].hash \in Hash
  <1>1. ops[i] \in Op
    BY ElementOfSeq, LenProperties DEF IInv, TypeOK
  <1> QED
    BY <1>1 DEF Op

\* A request leaves a pending row as it is, or posts it and tells where the
\* runs stand.
LEMMA ApiPending ==
  ASSUME IInv, ApiStep, NEW i \in DOMAIN ops, Pending(ops[i].hash)'
  PROVE  LET h == ops[i].hash
         IN \/ /\ Pending(h) /\ rows'[h].id = rows[h].id
               /\ late \subseteq late' /\ behind \subseteq behind'
            \/ /\ OutOfReach(h) => rows'[h].id \in late'
               /\ JustPassed(h) => rows'[h].id \in behind'
  <1> DEFINE h == ops[i].hash
  <1>1. h \in Hash /\ rows \in [Hash -> Row \cup {NoRow}] /\ ops' = ops
    BY HashOf DEF IInv, TypeOK, ApiStep, Upsert, Insert, ReadExisting, DeleteAccount
  <1>2. rows'[h] # NoRow /\ rows'[h].status = "PENDING"
    BY <1>1 DEF Pending
  <1>3. CASE rows'[h] = rows[h] /\ late \subseteq late' /\ behind \subseteq behind'
    BY <1>2, <1>3 DEF Pending
  <1>4. CASE \E r \in Slot : Insert(r) /\ rows'[h] # rows[h]
    <2>1. PICK r \in Slot : Insert(r) /\ rows'[h] # rows[h]
      BY <1>4
    <2>2. /\ rows' = [rows EXCEPT ![req[r].hash] =
                        [id |-> nextId, wallet |-> req[r].wallet,
                         status |-> "PENDING", blockLevel |-> 0]]
          /\ OutOfReach(req[r].hash) => nextId \in late'
          /\ JustPassed(req[r].hash) => nextId \in behind'
      BY <2>1 DEF Insert
    <2>3. req[r].hash = h /\ rows'[h].id = nextId
      BY <1>1, <2>1, <2>2
    <2> QED
      BY <2>2, <2>3
  <1>5. CASE \E r \in Slot : Insert(r) /\ rows'[h] = rows[h]
    <2>1. late \subseteq late' /\ behind \subseteq behind'
      BY <1>5 DEF Insert
    <2> QED
      BY <1>3, <1>5, <2>1
  <1>6. CASE \E w \in Wallet : DeleteAccount(w)
    BY <1>1, <1>2, <1>3, <1>6 DEF DeleteAccount
  <1> QED
    BY <1>3, <1>4, <1>5, <1>6 DEF ApiStep, Upsert, ReadExisting

\* A row that a request posts is late, behind the run, or still to be swept.
LEMMA ApiSweep == ASSUME IInv, SweepInv, ApiStep PROVE SweepInv'
  <1>1. UNCHANGED <<feedVars, runVars, lastSeen>>
    BY DEF ApiStep, Upsert, Insert, ReadExisting, DeleteAccount
  <1>2. /\ lastSeen \in Nat /\ Frontier \in Nat
        /\ \A i \in DOMAIN ops : ops[i].level \in Nat
    BY DEF IInv, ScanInv, ScanTypeOK, LevelsInv, Frontier
  <1>3. ASSUME NEW i \in DOMAIN ops, Handled(i), i \notin Settled'
        PROVE  Frontier <= ops[i].level
    <2> DEFINE h == ops[i].hash
    <2>1. Pending(h)' /\ rows'[h].id \notin late' \cup behind'
      BY <1>1, <1>3 DEF Settled
    <2>2. CASE ~OutOfReach(h) /\ ~JustPassed(h)
      <3>1. ~(ops[i].level < lastSeen)
        BY <2>2 DEF OutOfReach
      <3> QED
        BY <1>2, <1>3, <2>2, <3>1 DEF JustPassed
    <2>3. CASE Pending(h) /\ rows[h].id \notin late \cup behind
      BY <1>3, <2>3 DEF SweepInv, Swept, Settled
    <2> QED
      BY <2>1, <2>2, <2>3, ApiPending
  <1>4. ASSUME NEW i \in DOMAIN ops, ops[i].level < lastSeen, Pending(ops[i].hash)'
        PROVE  rows'[ops[i].hash].id \in late'
    <2>1. OutOfReach(ops[i].hash)
      BY <1>4 DEF OutOfReach
    <2> QED
      BY <1>4, <2>1, ApiPending DEF SweepInv, OnlyLateRowsAreStranded
  <1>5. Swept(Settled)'
    BY <1>1, <1>3 DEF Swept, Handled, Frontier
  <1>6. OnlyLateRowsAreStranded'
    BY <1>1, <1>4 DEF OnlyLateRowsAreStranded
  <1> QED
    BY <1>5, <1>6 DEF SweepInv

\* Without a new block, post or saved level a pending row stays where it was.
LEMMA StrandedStays ==
  ASSUME OnlyLateRowsAreStranded, UNCHANGED <<ops, lastSeen>>, late \subseteq late',
         \A i \in DOMAIN ops : Pending(ops[i].hash)' =>
           Pending(ops[i].hash) /\ rows'[ops[i].hash].id = rows[ops[i].hash].id
  PROVE  OnlyLateRowsAreStranded'
  BY DEF OnlyLateRowsAreStranded

\* At the end of a run all of its window is settled: what it leaves behind
\* becomes late when the level is saved.
LEMMA FinishSweep == ASSUME IInv, SweepInv, Finish PROVE SweepInv'
  <1>1. /\ pc = "finish" /\ pc' = "idle" /\ UNCHANGED <<ops, rows>>
        /\ scanned > 0 => late' = late \cup behind /\ lastSeen' = to
        /\ ~(scanned > 0) => late' = late /\ lastSeen' = lastSeen
    BY DEF Finish, SaveLevel, EndScan
  <1>2. ScanInv' /\ \A i \in DOMAIN ops : ops[i].level \in Nat
    BY SaveKeepsScanInv DEF IInv, Finish, ScanInv, LevelsInv
  <1>3. OnlyLateRowsAreStranded'
    <2>1. SUFFICES ASSUME NEW i \in DOMAIN ops, ops[i].level < lastSeen',
                          Pending(ops[i].hash)
                   PROVE  rows[ops[i].hash].id \in late'
      BY <1>1 DEF OnlyLateRowsAreStranded, Pending
    <2>2. CASE ~(scanned > 0)
      BY <1>1, <2>1, <2>2 DEF SweepInv, OnlyLateRowsAreStranded
    <2>3. CASE scanned > 0
      <3>1. ops[i].level < to /\ Handled(i) /\ Frontier = to /\ to \in Nat
        BY <1>1, <2>1, <2>3 DEF Handled, Frontier, IInv, ScanInv, ScanTypeOK
      <3>2. i \in Settled
        BY <1>2, <3>1 DEF SweepInv, Swept
      <3> QED
        BY <1>1, <2>1, <2>3, <3>2 DEF Settled
    <2> QED
      BY <2>2, <2>3
  <1> QED
    BY <1>1, <1>2, <1>3, SweptWhenIdle

\* A run that fails falls back on what the runs before it have settled.
LEMMA FailSweep ==
  ASSUME IInv, SweepInv, pc' = "idle", EndScan, UNCHANGED <<feedVars, lastSeen, rows, late>>
  PROVE  SweepInv'
  <1>1. ScanInv'
    BY EndKeepsScanInv DEF IInv
  <1>2. OnlyLateRowsAreStranded'
    BY DEF SweepInv, OnlyLateRowsAreStranded, Pending
  <1> QED
    BY <1>1, <1>2, SweptWhenIdle

\* The steps of a run keep what was swept and what is still to be swept.
LEMMA RunSweep ==
  ASSUME IInv, SweepInv, LevelParam = "ge", RunStep \/ Abort
  PROVE  SweepInv'
  <1>1. UNCHANGED feedVars /\ ScanInv
    BY DEF RunStep, BeginRun, FetchPage, FindRow, UpdateRow, Finish, Abort, IInv
  <1>2. PICK Done : Done = Settled
    OBVIOUS
  <1>3. Swept(Done) /\ OnlyLateRowsAreStranded
    BY <1>2 DEF SweepInv
  <1>4. ASSUME NEW Done2, Swept(Done2)', \A i \in DOMAIN ops : i \in Done2 => i \in Settled'
        PROVE  Swept(Settled)'
    BY <1>1, <1>4 DEF Swept
  <1>5. CASE Swept(Done)' /\ UNCHANGED <<rows, history, lastSeen>>
    <2>1. Swept(Settled)'
      BY <1>1, <1>2, <1>4, <1>5 DEF Settled, Pending
    <2>2. OnlyLateRowsAreStranded'
      BY <1>1, <1>3, <1>5 DEF OnlyLateRowsAreStranded, Pending
    <2> QED
      BY <2>1, <2>2 DEF SweepInv
  <1>6. CASE BeginRun
    BY <1>3, <1>5, <1>6, BeginKeepsSwept, <1>1 DEF BeginRun
  <1>7. CASE FetchPage
    BY <1>3, <1>5, <1>7, PageKeepsSwept, <1>1 DEF FetchPage
  <1>8. CASE FindRow
    <2>1. pc = "find" /\ UNCHANGED <<rows, lastSeen, history>>
      BY <1>8 DEF FindRow
    <2>2. CASE Pending(ops[cursor].hash)
      BY <1>1, <1>3, <1>5, <1>8, <2>1, <2>2, UpdateKeepsScanInv DEF FindRow
    <2>3. CASE ~Pending(ops[cursor].hash)
      <3>1. NextOp
        BY <1>8, <2>3 DEF FindRow
      <3>2. cursor \in Done
        BY <1>2, <2>1, <2>3, CursorIsOp DEF Settled
      <3>3. PICK c : c = cursor
        OBVIOUS
      <3>4. Swept(Done)'
        BY <1>1, <1>3, <2>1, <3>1, <3>2, <3>3, NextOpKeepsSwept
      <3> QED
        BY <1>5, <2>1, <3>4
    <2> QED
      BY <2>2, <2>3
  <1>9. CASE UpdateRow
    <2>1. CASE rows[ops[cursor].hash] # NoRow /\ rows[ops[cursor].hash].id = picked
      <3>1. PICK c : c = cursor
        OBVIOUS
      <3>2. /\ rows' = [rows EXCEPT ![ops[c].hash].status = Outcome(ops[c]),
                                    ![ops[c].hash].blockLevel = ops[c].level]
            /\ NextOp /\ pc = "update" /\ UNCHANGED <<lastSeen, history>>
        BY <1>9, <2>1, <3>1 DEF UpdateRow
      <3>3. rows \in [Hash -> Row \cup {NoRow}] /\ ops[c].hash \in Hash
            /\ rows[ops[c].hash] \in Row /\ c \in DOMAIN ops
        BY <2>1, <3>1, <3>2, CursorIsOp DEF IInv, TypeOK, Op
      <3>4. rows'[ops[c].hash].status # "PENDING"
        BY <3>2, <3>3 DEF Row, Outcome
      <3>5. \A i \in DOMAIN ops : i \in Done \cup {c} => i \in Settled'
        <4>1. ASSUME NEW i \in DOMAIN ops, i \in Done \cup {c}, i \notin Settled'
              PROVE  FALSE
          <5>1. Pending(ops[i].hash)' /\ rows'[ops[i].hash].id \notin late \cup behind
            BY <1>1, <3>2, <4>1 DEF Settled
          <5>2. ops[i].hash # ops[c].hash
            BY <1>1, <3>4, <5>1 DEF Pending
          <5>3. rows'[ops[i].hash] = rows[ops[i].hash]
            BY <3>2, <3>3, <5>2, HashOf
          <5>4. i \in Settled
            BY <1>2, <4>1, <5>2
          <5> QED
            BY <1>1, <5>1, <5>3, <5>4 DEF Settled, Pending
        <4> QED
          BY <4>1
      <3>6. Swept(Done \cup {c})'
        <4>1. PICK Done2 : Done2 = Done \cup {c}
          OBVIOUS
        <4>2. Swept(Done2)'
          BY <1>1, <1>3, <3>1, <3>2, <4>1, NextOpKeepsSwept
        <4> QED
          BY <4>1, <4>2
      <3>7. \A i \in DOMAIN ops : Pending(ops[i].hash)' =>
              Pending(ops[i].hash) /\ rows'[ops[i].hash].id = rows[ops[i].hash].id
        <4>1. \A i \in DOMAIN ops :
                ops[i].hash = ops[c].hash \/ rows'[ops[i].hash] = rows[ops[i].hash]
          BY <3>2, <3>3, HashOf
        <4> QED
          BY <1>1, <3>4, <4>1 DEF Pending
      <3>8. OnlyLateRowsAreStranded'
        BY <1>1, <1>3, <3>2, <3>7, StrandedStays
      <3> QED
        BY <1>4, <3>5, <3>6, <3>8 DEF SweepInv
    <2>2. CASE ~(rows[ops[cursor].hash] # NoRow /\ rows[ops[cursor].hash].id = picked)
      <3>1. EndScan /\ UNCHANGED <<rows, lastSeen, late>> /\ pc' = "idle"
        BY <1>9, <2>2 DEF UpdateRow, EndScan
      <3> QED
        BY <1>1, <3>1, FailSweep
    <2> QED
      BY <2>1, <2>2
  <1>10. CASE Finish
    BY <1>10, FinishSweep
  <1>11. CASE Abort
    BY <1>1, <1>11, FailSweep DEF Abort, EndScan
  <1> QED
    BY <1>6, <1>7, <1>8, <1>9, <1>10, <1>11 DEF RunStep

\* When TzKT reads "level" as the lower bound of the window, every row whose
\* operation lies below lastSeen is promoted, unless it was posted when
\* lastSeen was already past its operation, or behind the cursor of the run
\* that took it there: full, short and empty pages, failed runs, deletions and
\* posts at any moment of a run included.
THEOREM NoneStranded ==
  ASSUME LevelParam = "ge"
  PROVE  Spec => []OnlyLateRowsAreStranded
  <1>1. Init => SweepInv
    BY DEF Init, ScanInit, SweepInv, Swept, OnlyLateRowsAreStranded
  <1>2. ASSUME IInv, SweepInv, NewBlock PROVE SweepInv'
    <2>1. PICK Done : Done = Settled
      OBVIOUS
    <2>2. AddBlock(NewOps) /\ ops \in Seq(Op)
          /\ UNCHANGED <<lastSeen, scanVars, rows, history>>
      BY <1>2 DEF NewBlock, NewOps, IInv, TypeOK
    <2>3. Swept(Done)'
      BY <1>2, <2>1, <2>2, NewOpsTyped, BlockKeepsSwept DEF IInv, SweepInv
    <2>4. DOMAIN ops \subseteq DOMAIN ops' /\ \A i \in DOMAIN ops : ops'[i] = ops[i]
      BY <1>2, <2>2, NewOpsTyped, BlockAdded DEF IInv
    <2>5. Done \subseteq Settled'
      BY <2>1, <2>2, <2>4 DEF Settled, Pending
    <2>6. \A i \in DOMAIN ops' \ DOMAIN ops : ~(ops'[i].level < lastSeen)
      <3>1. \A i \in DOMAIN ops' \ DOMAIN ops : ops'[i].level = head + 1
        BY <1>2, <2>2, NewOpsTyped, BlockAdded DEF IInv
      <3>2. head \in Nat /\ lastSeen \in 0..head
        BY <1>2, LenProperties DEF IInv, ScanInv, ScanTypeOK, head
      <3> QED
        BY <3>1, <3>2
    <2>7. OnlyLateRowsAreStranded'
      BY <1>2, <2>2, <2>4, <2>6 DEF SweepInv, OnlyLateRowsAreStranded, Pending
    <2> QED
      BY <2>3, <2>5, <2>7 DEF SweepInv, Swept
  <1>3. IInv /\ SweepInv /\ [Next]_vars => SweepInv'
    <2>1. ASSUME IInv, SweepInv, UNCHANGED vars PROVE SweepInv'
      BY <2>1 DEF SweepInv, Settled, Swept, Handled, Frontier, Pending,
                  OnlyLateRowsAreStranded
    <2> QED
      BY <1>2, <2>1, ApiSweep, RunSweep DEF Next
  <1>4. SweepInv => OnlyLateRowsAreStranded
    BY DEF SweepInv
  <1> QED
    BY <1>1, <1>3, <1>4, Invariance, PTL DEF Spec

-----------------------------------------------------------------------------
(* The rows implement the ledger                                           *)

\* What the step simulation needs besides IInv: an operation's hash denotes
\* it, a new row gets an id that no row has, and the row that a run is about
\* to promote is PENDING, or gone.
LedgerInv ==
  /\ \A i, j \in DOMAIN ops : ops[i].hash = ops[j].hash => i = j
  /\ nextId >= 1
  /\ \A h \in Hash : rows[h] # NoRow => rows[h].id < nextId
  /\ pc = "update" =>
       LET row == rows[ops[cursor].hash]
       IN row # NoRow /\ row.id = picked => row.status = "PENDING"

\* What an insert writes: the row of a registered wallet, at a free hash.
LEMMA Inserted ==
  ASSUME IInv, \E r \in Slot : Insert(r), rows' # rows
  PROVE  /\ \E w \in users \cap Wallet, h \in Hash :
              /\ rows[h] = NoRow
              /\ rows' = [rows EXCEPT ![h] =
                            [id |-> nextId, wallet |-> w,
                             status |-> "PENDING", blockLevel |-> 0]]
         /\ nextId <= MaxRows /\ nextId' = nextId + 1 /\ nextId \in Nat
         /\ UNCHANGED <<feedVars, lastSeen, runVars, users>>
  <1>1. PICK r \in Slot : Insert(r)
    OBVIOUS
  <1>2. req[r] \in [pc: {"insert", "existing"}, wallet: Wallet, hash: Hash]
    BY <1>1 DEF Insert, IInv, TypeOK, Call, Idle
  <1>3. req[r].wallet \in users \cap Wallet /\ req[r].hash \in Hash
    BY <1>1, <1>2 DEF Insert
  <1> QED
    BY <1>1, <1>3 DEF Insert, IInv, TypeOK

\* Requests keep it.
LEMMA ApiLedgerInv == ASSUME IInv, LedgerInv, ApiStep PROVE LedgerInv'
  <1>1. UNCHANGED <<feedVars, runVars, lastSeen>>
    BY DEF ApiStep, Upsert, Insert, ReadExisting, DeleteAccount
  <1>2. /\ rows \in [Hash -> Row \cup {NoRow}] /\ nextId \in Nat
        /\ pc = "update" => ops[cursor].hash \in Hash
    BY CursorInFeed, HashOf DEF IInv, TypeOK
  <1>3. CASE (\E r \in Slot : Insert(r)) /\ rows' # rows
    <2>1. PICK w \in Wallet, k \in Hash :
            rows' = [rows EXCEPT ![k] = [id |-> nextId, wallet |-> w,
                                         status |-> "PENDING", blockLevel |-> 0]]
      BY <1>3, Inserted
    <2>2. \A h \in Hash : \/ rows'[h] = rows[h]
                          \/ rows'[h].id = nextId /\ rows'[h].status = "PENDING"
      BY <1>2, <2>1
    <2>3. nextId' = nextId + 1
      BY <1>3, Inserted
    <2>4. \A h \in Hash : rows[h] # NoRow => rows[h].id \in Nat
      BY <1>2 DEF Row
    <2>5. \A h \in Hash : rows'[h] # NoRow => rows'[h].id < nextId'
      BY <1>2, <2>2, <2>3, <2>4 DEF LedgerInv
    <2>6. pc = "update" => LET row == rows'[ops[cursor].hash]
                           IN row # NoRow /\ row.id = picked => row.status = "PENDING"
      BY <1>2, <2>2 DEF LedgerInv
    <2> QED
      BY <1>1, <1>2, <2>3, <2>5, <2>6 DEF LedgerInv
  <1>4. CASE \E w \in Wallet : DeleteAccount(w)
    <2>1. nextId' = nextId
          /\ \A h \in Hash : rows'[h] = NoRow \/ rows'[h] = rows[h]
      BY <1>4 DEF DeleteAccount
    <2> QED
      BY <1>1, <1>2, <2>1 DEF LedgerInv
  <1>5. CASE rows' = rows
    <2>1. nextId' \in {nextId, nextId + 1}
      BY <1>5 DEF ApiStep, Upsert, Insert, ReadExisting, DeleteAccount
    <2>2. \A h \in Hash : rows[h] # NoRow => rows[h].id \in Nat
      BY <1>2 DEF Row
    <2> QED
      BY <1>1, <1>2, <1>5, <2>1, <2>2 DEF LedgerInv
  <1> QED
    BY <1>3, <1>4, <1>5 DEF ApiStep, Upsert, ReadExisting

\* Blocks, and the steps of a run, keep it.
LEMMA ScanLedgerInv ==
  ASSUME IInv, LedgerInv, NewBlock \/ RunStep \/ Abort
  PROVE  LedgerInv'
  <1>1. rows \in [Hash -> Row \cup {NoRow}] /\ nextId \in Nat
        /\ nextId' = nextId
    BY DEF IInv, TypeOK, NewBlock, RunStep, BeginRun, FetchPage, FindRow, UpdateRow,
           Finish, Abort
  <1>2. CASE NewBlock
    <2>1. UNCHANGED <<rows, pc, cursor, picked>>
          /\ \A i, j \in DOMAIN ops' : ops'[i].hash = ops'[j].hash => i = j
      BY <1>2 DEF NewBlock
    <2>2. pc = "update" => ops'[cursor] = ops[cursor]
      BY <1>2, NewOpsTyped, BlockAdded, CursorInFeed DEF IInv, TypeOK, NewBlock, NewOps
    <2> QED
      BY <1>1, <2>1, <2>2 DEF LedgerInv
  <1>3. CASE pc' # "update" /\ UNCHANGED <<ops, rows>>
    BY <1>1, <1>3 DEF LedgerInv
  <1>4. CASE FindRow
    <2>1. CASE Pending(ops[cursor].hash)
      BY <1>1, <1>4, <2>1 DEF FindRow, LedgerInv, Pending
    <2>2. CASE ~Pending(ops[cursor].hash)
      BY <1>3, <1>4, <2>2, NextOpCases DEF FindRow, IInv, Turn
    <2> QED
      BY <2>1, <2>2
  <1>5. CASE UpdateRow
    <2>1. CASE rows' = rows
      BY <1>3, <1>5, <2>1, NextOpCases DEF UpdateRow, IInv, Turn, EndScan
    <2>2. CASE rows' # rows
      <3> DEFINE h == ops[cursor].hash
      <3>1. /\ rows' = [rows EXCEPT ![h].status = Outcome(ops[cursor]),
                                    ![h].blockLevel = ops[cursor].level]
            /\ NextOp /\ pc = "update" /\ rows[h] # NoRow /\ UNCHANGED ops
        BY <1>5, <2>2 DEF UpdateRow
      <3>2. h \in Hash /\ rows[h] \in Row
        BY <1>1, <3>1, CursorIsOp DEF Op
      <3>3. \A g \in Hash : rows'[g] # NoRow => rows[g] # NoRow /\ rows'[g].id = rows[g].id
        BY <1>1, <3>1, <3>2 DEF Row
      <3>4. pc' # "update"
        BY <3>1, NextOpCases DEF IInv, Turn
      <3> QED
        BY <1>1, <3>1, <3>3, <3>4 DEF LedgerInv
    <2> QED
      BY <2>1, <2>2
  <1>6. CASE BeginRun \/ FetchPage \/ Finish \/ Abort
    BY <1>3, <1>6 DEF BeginRun, BeginScan, FetchPage, GetPage, Finish, SaveLevel,
                      Abort, EndScan
  <1> QED
    BY <1>2, <1>4, <1>5, <1>6 DEF RunStep

\* A hash that denotes one operation picks it out.
LEMMA ChosenIndex ==
  ASSUME NEW o, NEW h, NEW i \in DOMAIN o, o[i].hash = h,
         \A j \in DOMAIN o : o[j].hash = h => j = i
  PROVE  (CHOOSE j \in DOMAIN o : o[j].hash = h) = i
  OBVIOUS

\* The fate of an operation is what its block says of it.
LEMMA FateOfOp ==
  ASSUME LedgerInv, NEW i \in DOMAIN ops, NEW h, ops[i].hash = h
  PROVE  FateOf(h) = [status |-> Outcome(ops[i]), level |-> ops[i].level]
  <1>1. OnChain(h)
    BY DEF OnChain
  <1>2. (CHOOSE j \in DOMAIN ops : ops[j].hash = h) = i
    BY ChosenIndex DEF LedgerInv
  <1> QED
    BY <1>1, <1>2 DEF FateOf

\* Without a block fates stay as they are.
LEMMA FateUnchanged ==
  ASSUME UNCHANGED ops
  PROVE  [h \in Hash |-> FateOf(h)]' = [h \in Hash |-> FateOf(h)]
  BY DEF FateOf, OnChain, Outcome

\* A block decides the fates of its operations, and no other one.
LEMMA BlockDecides ==
  ASSUME IInv, LedgerInv, IInv', LedgerInv', NewBlock
  PROVE  Ledger!Decide
  <1>1. /\ \A i \in DOMAIN ops : i \in DOMAIN ops' /\ ops'[i] = ops[i]
        /\ UNCHANGED <<users, rows>>
    BY NewOpsTyped, BlockAdded DEF NewBlock, NewOps, IInv, TypeOK
  <1>2. ASSUME NEW i \in DOMAIN ops', NEW h, ops'[i].hash = h
        PROVE  FateOf(h)' = [status |-> Outcome(ops'[i]), level |-> ops'[i].level]
    <2>1. OnChain(h)'
      BY <1>2 DEF OnChain
    <2>2. (CHOOSE j \in DOMAIN ops' : ops'[j].hash = h) = i
      BY <1>2, ChosenIndex DEF LedgerInv
    <2> QED
      BY <2>1, <2>2 DEF FateOf, Outcome
  <1>3. ASSUME NEW h \in Hash PROVE FateOf(h)' \in Ledger!Fate \cup {NoRow}
    <2>1. CASE OnChain(h)'
      <3>1. PICK i \in DOMAIN ops' : ops'[i].hash = h
        BY <2>1 DEF OnChain
      <3>2. ops'[i].level \in Nat
        BY DEF IInv, ScanInv, LevelsInv
      <3> QED
        BY <1>2, <3>1, <3>2 DEF Ledger!Fate, Outcome
    <2>2. CASE ~OnChain(h)'
      BY <2>2 DEF FateOf, OnChain
    <2> QED
      BY <2>1, <2>2
  <1>4. ASSUME NEW h \in Hash, FateOf(h) # NoRow PROVE FateOf(h)' = FateOf(h)
    <2>1. PICK i \in DOMAIN ops : ops[i].hash = h
      BY <1>4 DEF FateOf, OnChain
    <2>2. FateOf(h) = [status |-> Outcome(ops[i]), level |-> ops[i].level]
      BY <2>1, FateOfOp
    <2>3. FateOf(h)' = [status |-> Outcome(ops[i]), level |-> ops[i].level]
      BY <1>1, <1>2, <2>1 DEF Outcome
    <2> QED
      BY <2>2, <2>3
  <1> QED
    BY <1>1, <1>3, <1>4 DEF Ledger!Decide

\* An insert posts a row.
LEMMA InsertPosts ==
  ASSUME IInv, LedgerInv, \E r \in Slot : Insert(r), rows' # rows
  PROVE  Ledger!Next
  <1>1. PICK w \in users \cap Wallet, h \in Hash :
          /\ rows[h] = NoRow
          /\ rows' = [rows EXCEPT ![h] = [id |-> nextId, wallet |-> w,
                                          status |-> "PENDING", blockLevel |-> 0]]
    BY Inserted
  <1>2. nextId \in 1..MaxRows /\ UNCHANGED <<ops, users>>
    BY Inserted DEF LedgerInv
  <1>3. Ledger!Post(w, h, nextId)
    BY <1>1, <1>2, FateUnchanged DEF Ledger!Post, LedgerInv
  <1> QED
    BY <1>2, <1>3 DEF Ledger!Next

\* The deletion of an account deletes its rows.
LEMMA DeleteDeletes ==
  ASSUME IInv, \E w \in Wallet : DeleteAccount(w)
  PROVE  Ledger!Next
  <1>1. PICK w \in Wallet : DeleteAccount(w)
    OBVIOUS
  <1>2. Ledger!Delete(w)
    BY <1>1, FateUnchanged DEF DeleteAccount, Ledger!Delete
  <1> QED
    BY <1>2 DEF Ledger!Next

\* A promotion resolves the row to the fate of its operation.
LEMMA UpdateResolves ==
  ASSUME IInv, LedgerInv, UpdateRow, rows' # rows
  PROVE  Ledger!Next
  <1> DEFINE h == ops[cursor].hash
  <1>1. /\ rows' = [rows EXCEPT ![h].status = Outcome(ops[cursor]),
                                ![h].blockLevel = ops[cursor].level]
        /\ pc = "update" /\ rows[h] # NoRow /\ rows[h].id = picked
        /\ UNCHANGED <<ops, users>>
    BY DEF UpdateRow
  <1>2. h \in Hash /\ cursor \in DOMAIN ops /\ rows[h].status = "PENDING"
    BY <1>1, CursorIsOp, HashOf DEF LedgerInv
  <1>3. FateOf(h) = [status |-> Outcome(ops[cursor]), level |-> ops[cursor].level]
    BY <1>2, FateOfOp
  <1>4. FateOf(h) # NoRow
    <2>1. ops[cursor].level \in Nat
      BY <1>2 DEF IInv, ScanInv, LevelsInv
    <2> QED
      BY <1>3, <2>1, NoFateAssumption DEF Outcome
  <1>5. Ledger!Resolve(h)
    <2> DEFINE fate == [g \in Hash |-> FateOf(g)]
    <2>1. fate[h] = FateOf(h)
      BY <1>2
    <2>2. fate[h].status = Outcome(ops[cursor]) /\ fate[h].level = ops[cursor].level
      BY <1>3, <2>1
    <2>3. fate' = fate
      BY <1>1, FateUnchanged
    <2> HIDE DEF fate
    <2>4. /\ rows[h] # NoRow /\ rows[h].status = "PENDING" /\ fate[h] # NoRow
          /\ rows' = [rows EXCEPT ![h].status = fate[h].status,
                                  ![h].blockLevel = fate[h].level]
          /\ UNCHANGED <<fate, users>>
      BY <1>1, <1>2, <1>4, <2>1, <2>2, <2>3
    <2> QED
      BY <2>4 DEF Ledger!Resolve, fate
  <1> QED
    BY <1>2, <1>5 DEF Ledger!Next

\* Whatever the requests, the scan, its failures and the deletions interleave
\* to, the rows behave as DelegationLedger says: each step is one of the
\* ledger's, or changes none of the fates, the users and the rows.
THEOREM Refinement == Spec => ImplementsLedger
  <1>1. Init => LedgerInv /\ Ledger!Init
    BY DEF Init, ScanInit, LedgerInv, Ledger!Init, FateOf, OnChain
  <1>2. IInv /\ LedgerInv /\ [Next]_vars => LedgerInv'
    <2>1. ASSUME LedgerInv, UNCHANGED vars PROVE LedgerInv'
      BY <2>1 DEF LedgerInv
    <2> QED
      BY <2>1, ApiLedgerInv, ScanLedgerInv DEF Next
  <1>3. IInv /\ LedgerInv /\ IInv' /\ LedgerInv' /\ [Next]_vars => [Ledger!Next]_(Ledger!vars)
    <2> SUFFICES ASSUME IInv, LedgerInv, IInv', LedgerInv', [Next]_vars
                 PROVE  Ledger!Next \/ UNCHANGED Ledger!vars
      OBVIOUS
    <2>1. CASE UNCHANGED <<ops, users, rows>>
      BY <2>1, FateUnchanged DEF Ledger!vars
    <2>2. CASE NewBlock
      BY <2>2, BlockDecides DEF Ledger!Next
    <2>3. CASE \E r \in Slot : Upsert(r)
      <3>1. PICK w \in Wallet : users' = users \cup {w} /\ UNCHANGED <<ops, rows>>
        BY <2>3 DEF Upsert
      <3>2. Ledger!Register(w)
        BY <3>1, FateUnchanged DEF Ledger!Register
      <3> QED
        BY <3>2 DEF Ledger!Next
    <2>4. CASE \E r \in Slot : Insert(r)
      <3>1. UNCHANGED <<ops, users>>
        BY <2>4 DEF Insert
      <3> QED
        BY <2>1, <2>4, <3>1, InsertPosts
    <2>5. CASE \E w \in Wallet : DeleteAccount(w)
      BY <2>5, DeleteDeletes
    <2>6. CASE UpdateRow
      <3>1. UNCHANGED <<ops, users>>
        BY <2>6 DEF UpdateRow
      <3> QED
        BY <2>1, <2>6, <3>1, UpdateResolves
    <2> QED
      BY <2>1, <2>2, <2>3, <2>4, <2>5, <2>6
         DEF Next, ApiStep, RunStep, ReadExisting, BeginRun, FetchPage, FindRow, Finish, Abort
  <1> QED
    BY <1>1, <1>2, <1>3, Invariance, PTL DEF Spec, ImplementsLedger, Ledger!Spec
=============================================================================
