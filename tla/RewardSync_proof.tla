-------------------------- MODULE RewardSync_proof --------------------------
(***************************************************************************)
(* Proofs about RewardSync for every value of its constants: who owns a    *)
(* reward row, which rows may be missing, that a rescan changes no row,    *)
(* and when a claim is final.                                              *)
(***************************************************************************)
EXTENDS RewardSync, LevelScan_proof

USE DEF vars, feedVars, dbVars, runVars, scanVars

-----------------------------------------------------------------------------
(* The inductive invariant                                                 *)

\* Account ids are never used twice, and 0 is none of them.
AccountsInv ==
  /\ nextUser >= 1
  /\ \A w \in Wallet : users[w] < nextUser
  /\ \A v, w \in Wallet : users[v] = users[w] /\ users[v] # 0 => v = w

\* The account that a run has found is the one of the recipient, or is gone.
FoundInv ==
  pc = "update" =>
    /\ 0 < found /\ found < nextUser
    /\ \A w \in Wallet : users[w] = found => w = ops[cursor].recipient

\* A row is about an operation of the feed, and about an account.
RowsInv ==
  /\ \A x \in rewards : x.op \in DOMAIN ops /\ x.user # 0
  /\ RewardsWellOwned

IInv == TypeOK /\ ScanInv /\ AccountsInv /\ FoundInv /\ RowsInv

\* The recipient of an operation is a wallet.
LEMMA OpsTyped ==
  ASSUME IInv, NEW i \in DOMAIN ops
  PROVE  ops[i] \in Op /\ ops[i].recipient \in Wallet /\ i \in Nat
  <1>1. ops[i] \in Op /\ i \in Nat
    BY ElementOfSeq, LenProperties DEF IInv, TypeOK, ScanInv, LevelsInv
  <1> QED
    BY <1>1 DEF Op

\* What the proofs use of the types.
LEMMA Types ==
  ASSUME IInv
  PROVE  /\ users \in [Wallet -> Nat] /\ nextUser \in Nat /\ found \in Nat
         /\ rewards \subseteq Reward
         /\ \A x \in rewards : x.op \in Nat /\ x.user \in Nat
         /\ req \in [Slot -> Call] /\ missed \subseteq Nat /\ erased \subseteq Nat
         /\ aborts \in Nat /\ overlap \subseteq Slot
         /\ ops \in Seq(Op)
  BY DEF IInv, TypeOK, Reward

\* The operation that a call in flight is about.
LEMMA CallTyped ==
  ASSUME IInv, NEW r \in Slot, req[r].pc = "update"
  PROVE  req[r].op \in Nat
  BY Types DEF Call, Idle

\* The empty database and the empty chain satisfy it.
LEMMA InitIInv == ASSUME Init PROVE IInv
  <1>1. ScanInv /\ ops \in Seq(Op)
    BY ScanInitInv DEF Init, ScanInit
  <1>2. TypeOK
    BY <1>1 DEF Init, TypeOK, Call, Idle, ScanInv
  <1>3. AccountsInv /\ FoundInv /\ RowsInv
    BY DEF Init, ScanInit, AccountsInv, FoundInv, RowsInv, RewardsWellOwned
  <1> QED
    BY <1>1, <1>2, <1>3 DEF IInv

\* The operations that a block may have.
NewOps == [recipient: Wallet, baker: BOOLEAN, level: {head + 1}]

\* They are operations of the level that the block brings.
LEMMA NewOpsTyped ==
  ASSUME IInv
  PROVE  NewOps \subseteq Op /\ \A op \in NewOps : op.level = head + 1
  BY LenProperties DEF IInv, TypeOK, ScanTypeOK, head, NewOps, Op

\* A new block.
LEMMA NewBlockIInv ==
  ASSUME IInv, NewBlock
  PROVE  IInv' /\ DOMAIN ops \subseteq DOMAIN ops' /\ \A i \in DOMAIN ops : ops'[i] = ops[i]
  <1>1. AddBlock(NewOps) /\ ops \in Seq(Op) /\ ScanInv
        /\ UNCHANGED <<lastSeen, scanVars, users, nextUser, rewards, found,
                       req, aborts, missed, erased, overlap>>
    BY DEF NewBlock, NewOps, IInv, TypeOK
  <1>2. ScanInv' /\ ops' \in Seq(Op)
        /\ DOMAIN ops \subseteq DOMAIN ops' /\ \A i \in DOMAIN ops : ops'[i] = ops[i]
    BY <1>1, NewOpsTyped, BlockKeepsScanInv, BlockAdded
  <1>3. TypeOK'
    BY <1>1, <1>2 DEF IInv, TypeOK, ScanInv
  <1>4. AccountsInv' /\ RowsInv'
    BY <1>1, <1>2 DEF IInv, AccountsInv, RowsInv, RewardsWellOwned
  <1>5. FoundInv'
    BY <1>1, <1>2, CursorInFeed DEF IInv, FoundInv
  <1> QED
    BY <1>2, <1>3, <1>4, <1>5 DEF IInv

\* What a claim does to the rows: it marks the one of its operation.
LEMMA Marked ==
  ASSUME IInv, NEW r \in Slot, MarkClaimed(r)
  PROVE  /\ \A x \in rewards : \E y \in rewards' : y.op = x.op
         /\ \E c \in ClaimHash : \A y \in rewards' :
              /\ y \in Reward
              /\ \/ y \in rewards /\ y.op # req[r].op
                 \/ \E x \in rewards :
                      /\ x.op = req[r].op /\ y.op = x.op /\ y.user = x.user
                      /\ y = [x EXCEPT !.claim = c]
  <1>1. PICK c \in ClaimHash :
          rewards' = (rewards \ RowOf(req[r].op)) \cup
                     {[x EXCEPT !.claim = c] : x \in RowOf(req[r].op)}
    BY DEF MarkClaimed
  <1>2. \A x \in rewards : LET y == [x EXCEPT !.claim = c]
                           IN y \in Reward /\ y.op = x.op /\ y.user = x.user
    BY <1>1, Types DEF Reward
  <1>3. ASSUME NEW x \in rewards PROVE \E y \in rewards' : y.op = x.op
    <2>1. CASE x.op = req[r].op
      BY <1>1, <1>2, <2>1 DEF RowOf
    <2>2. CASE x.op # req[r].op
      BY <1>1, <2>2 DEF RowOf
    <2> QED
      BY <2>1, <2>2
  <1>4. ASSUME NEW y \in rewards'
        PROVE  /\ y \in Reward
               /\ \/ y \in rewards /\ y.op # req[r].op
                  \/ \E x \in rewards :
                       /\ x.op = req[r].op /\ y.op = x.op /\ y.user = x.user
                       /\ y = [x EXCEPT !.claim = c]
    BY <1>1, <1>2, Types DEF RowOf
  <1> QED
    BY <1>3, <1>4

\* A claim, from the read to the update.
LEMMA ClaimIInv ==
  ASSUME IInv, NEW r \in Slot, ReadReward(r) \/ MarkClaimed(r)
  PROVE  IInv'
  <1>1. UNCHANGED <<feedVars, lastSeen, runVars, users, nextUser, aborts, missed, erased>>
    BY DEF ReadReward, MarkClaimed
  <1>2. ScanInv' /\ AccountsInv' /\ FoundInv'
    BY <1>1, ScanStutter DEF IInv, AccountsInv, FoundInv
  <1>3. CASE ReadReward(r)
    <2>1. PICK x \in rewards :
            req' = [req EXCEPT ![r] = [pc |-> "update", op |-> x.op]]
      BY <1>3 DEF ReadReward
    <2>2. rewards' = rewards /\ req' \in [Slot -> Call] /\ overlap' = overlap
      BY <1>3, <2>1, Types DEF ReadReward, Call
    <2> QED
      BY <1>1, <1>2, <2>2 DEF IInv, TypeOK, RowsInv, RewardsWellOwned, ScanInv
  <1>4. CASE MarkClaimed(r)
    <2>1. req' \in [Slot -> Call] /\ overlap' \subseteq Slot
      BY <1>4, Types DEF MarkClaimed, Call
    <2>2. rewards' \subseteq Reward
      BY <1>4, Marked
    <2>3. \A y \in rewards' : \E x \in rewards : y.op = x.op /\ y.user = x.user
      BY <1>4, Marked
    <2>4. ASSUME NEW y \in rewards', NEW z \in rewards', y.op = z.op PROVE y = z
      <3>1. CASE y.op # req[r].op
        BY <1>4, <2>4, <3>1, Marked DEF IInv, RowsInv, RewardsWellOwned
      <3>2. CASE y.op = req[r].op
        <4> PICK c \in ClaimHash : \A t \in rewards' :
              t.op # req[r].op \/ \E x \in rewards :
                x.op = req[r].op /\ t = [x EXCEPT !.claim = c]
          BY <1>4, Marked
        <4>1. PICK x1 \in rewards : x1.op = req[r].op /\ y = [x1 EXCEPT !.claim = c]
          BY <3>2
        <4>2. z.op = req[r].op
          BY <2>4, <3>2
        <4>3. PICK x2 \in rewards : x2.op = req[r].op /\ z = [x2 EXCEPT !.claim = c]
          BY <4>2
        <4>4. x1 = x2
          BY <4>1, <4>3 DEF IInv, RowsInv, RewardsWellOwned
        <4> QED
          BY <4>1, <4>3, <4>4
      <3> QED
        BY <3>1, <3>2
    <2>5. RowsInv'
      BY <1>1, <2>3, <2>4 DEF IInv, RowsInv, RewardsWellOwned
    <2> QED
      BY <1>1, <1>2, <2>1, <2>2, <2>5 DEF IInv, TypeOK, ScanInv
  <1> QED
    BY <1>3, <1>4

\* An account comes: it takes an id that no account and no row has.
LEMMA RegisterIInv ==
  ASSUME IInv, NEW w \in Wallet, Register(w)
  PROVE  IInv'
  <1>1. /\ UNCHANGED <<feedVars, lastSeen, runVars, rewards, req, aborts, missed, erased, overlap>>
        /\ users[w] = 0 /\ users' = [users EXCEPT ![w] = nextUser]
        /\ nextUser' = nextUser + 1
    BY DEF Register
  <1>2. ScanInv'
    BY <1>1, ScanStutter DEF IInv
  <1>3. /\ users' \in [Wallet -> Nat] /\ nextUser' \in Nat
        /\ \A v \in Wallet : users'[v] = IF v = w THEN nextUser ELSE users[v]
        /\ \A v \in Wallet : users[v] \in Nat /\ users[v] < nextUser
        /\ nextUser \in Nat /\ nextUser >= 1 /\ found \in Nat
    BY <1>1, Types DEF IInv, AccountsInv
  <1>4. AccountsInv'
    BY <1>1, <1>3 DEF IInv, AccountsInv
  <1>5. FoundInv'
    BY <1>1, <1>3 DEF IInv, FoundInv
  <1>6. RowsInv'
    <2>1. \A x \in rewards : ops[x.op].recipient \in Wallet
      BY OpsTyped DEF IInv, RowsInv
    <2> QED
      BY <1>1, <1>3, <2>1 DEF IInv, RowsInv, RewardsWellOwned
  <1> QED
    BY <1>1, <1>2, <1>3, <1>4, <1>5, <1>6 DEF IInv, TypeOK, ScanInv

\* An account goes, and its rows with it.
LEMMA DeleteIInv ==
  ASSUME IInv, NEW w \in Wallet, DeleteAccount(w)
  PROVE  IInv'
  <1>1. /\ UNCHANGED <<feedVars, lastSeen, runVars, nextUser, req, aborts, missed, overlap>>
        /\ users[w] # 0 /\ users' = [users EXCEPT ![w] = 0]
        /\ rewards' = {x \in rewards : x.user # users[w]}
        /\ erased' = erased \cup {x.op : x \in rewards \ rewards'}
    BY DEF DeleteAccount
  <1>2. ScanInv'
    BY <1>1, ScanStutter DEF IInv
  <1>3. /\ users' \in [Wallet -> Nat] /\ nextUser \in Nat
        /\ \A v \in Wallet : users'[v] = IF v = w THEN 0 ELSE users[v]
        /\ rewards' \subseteq rewards /\ rewards' \subseteq Reward
        /\ erased' \subseteq Nat
    BY <1>1, Types
  <1>4. AccountsInv' /\ FoundInv'
    BY <1>1, <1>3 DEF IInv, AccountsInv, FoundInv
  <1>5. RowsInv'
    <2>1. \A x \in rewards : ops[x.op].recipient \in Wallet
      BY OpsTyped DEF IInv, RowsInv
    <2> QED
      BY <1>1, <1>3, <2>1 DEF IInv, RowsInv, RewardsWellOwned
  <1> QED
    BY <1>1, <1>2, <1>3, <1>4, <1>5 DEF IInv, TypeOK, ScanInv

\* What an upsert does to the rows: nothing, or it adds one for the operation
\* under the cursor, which has none, and for the account of its recipient.
LEMMA Upserted ==
  ASSUME IInv, UpsertReward
  PROVE  /\ cursor \in DOMAIN ops /\ pc = "update" /\ found' = 0
         /\ \/ NextOp /\ rewards' = rewards /\ RowOf(cursor) # {}
            \/ /\ NextOp /\ rewards' = rewards \cup {Fresh} /\ RowOf(cursor) = {}
               /\ users[ops[cursor].recipient] = found
               /\ Fresh \in Reward /\ found # 0
            \/ EndScan /\ rewards' = rewards
         /\ UNCHANGED <<feedVars, lastSeen, users, nextUser, req, aborts, missed, erased, overlap>>
  <1>1. pc = "update" /\ cursor \in DOMAIN ops /\ cursor \in Nat /\ found \in Nat
        /\ Fresh \in Reward /\ found # 0
    BY CursorInFeed, Types, OpsTyped DEF UpsertReward, IInv, Fresh, Reward, FoundInv
  <1>2. (\E w \in Wallet : users[w] = found) => users[ops[cursor].recipient] = found
    BY <1>1 DEF IInv, FoundInv
  <1> QED
    BY <1>1, <1>2 DEF UpsertReward

\* The steps of a run, and its failures.
LEMMA RunIInv == ASSUME IInv, RunStep \/ Abort PROVE IInv'
  <1>1. /\ UNCHANGED <<feedVars, users, nextUser, req, erased, overlap>>
    BY DEF RunStep, BeginRun, FetchPage, FindUser, UpsertReward, Finish, Abort
  <1>2. AccountsInv'
    BY <1>1 DEF IInv, AccountsInv
  <1>3. SUFFICES /\ ScanInv' /\ FoundInv' /\ RowsInv'
                 /\ rewards' \subseteq Reward /\ found' \in Nat
                 /\ missed' \subseteq Nat /\ aborts' \in Nat
    BY <1>1, <1>2, Types DEF IInv, TypeOK, ScanInv
  <1>4. CASE pc' # "update" /\ ScanInv' /\ found' \in Nat /\ missed' \subseteq Nat
             /\ aborts' \in Nat /\ rewards' = rewards
    BY <1>1, <1>4, Types DEF FoundInv, RowsInv, RewardsWellOwned, IInv
  <1>5. CASE BeginRun
    BY <1>1, <1>4, <1>5, Types, BeginKeepsScanInv DEF BeginRun, BeginScan, IInv
  <1>6. CASE FetchPage
    BY <1>1, <1>4, <1>6, Types, PageKeepsScanInv DEF FetchPage, GetPage, IInv
  <1>7. CASE FindUser
    <2> DEFINE op == ops[cursor]
    <2>1. op.recipient \in Wallet /\ cursor \in Nat /\ pc = "find"
          /\ UNCHANGED <<lastSeen, rewards, aborts>>
      BY <1>7, CursorInFeed, OpsTyped DEF FindUser, IInv
    <2>2. CASE users[op.recipient] = 0 \/ ~op.baker
      <3>1. NextOp /\ missed' = missed \cup {cursor} /\ UNCHANGED found
        BY <1>7, <2>2 DEF FindUser
      <3>2. pc' # "update"
        BY <2>1, <3>1, NextOpCases DEF IInv, Turn
      <3>3. ScanInv'
        BY <1>1, <2>1, <3>1, NextOpKeepsScanInv DEF IInv
      <3> QED
        BY <1>4, <2>1, <3>1, <3>2, <3>3, Types
    <2>3. CASE ~(users[op.recipient] = 0 \/ ~op.baker)
      <3>1. /\ found' = users[op.recipient] /\ pc' = "update" /\ users[op.recipient] # 0
            /\ UNCHANGED <<from, to, offset, scanned, cursor, pageEnd, missed>>
        BY <1>7, <2>3 DEF FindUser
      <3>2. ScanInv'
        BY <1>1, <2>1, <3>1, UpdateKeepsScanInv DEF IInv
      <3>3. found' \in Nat /\ 0 < found' /\ found' < nextUser
        BY <2>1, <3>1, Types DEF IInv, AccountsInv
      <3>4. FoundInv'
        BY <1>1, <2>1, <3>1, <3>3 DEF FoundInv, IInv, AccountsInv
      <3> QED
        BY <1>1, <2>1, <3>1, <3>2, <3>3, <3>4, Types
           DEF RowsInv, RewardsWellOwned, IInv
    <2> QED
      BY <2>2, <2>3
  <1>8. CASE UpsertReward
    <2>1. cursor \in DOMAIN ops /\ pc = "update" /\ found' = 0
          /\ UNCHANGED <<lastSeen, missed, aborts>>
      BY <1>8, Upserted
    <2>2. CASE NextOp
      <3>1. pc' # "update" /\ ScanInv'
        BY <1>1, <2>1, <2>2, NextOpKeepsScanInv, NextOpCases DEF IInv, Turn
      <3>2. CASE rewards' = rewards
        BY <1>4, <2>1, <3>1, <3>2, Types
      <3>3. CASE rewards' # rewards
        <4>1. /\ rewards' = rewards \cup {Fresh} /\ RowOf(cursor) = {}
              /\ users[ops[cursor].recipient] = found
              /\ Fresh \in Reward /\ found # 0
          BY <1>8, <3>3, Upserted DEF EndScan
        <4>2. Fresh.op = cursor /\ Fresh.user = found
          BY DEF Fresh
        <4>3. RowsInv'
          BY <1>1, <2>1, <4>1, <4>2 DEF IInv, RowsInv, RewardsWellOwned, RowOf
        <4> QED
          BY <1>1, <2>1, <3>1, <4>1, <4>3, Types DEF FoundInv
      <3> QED
        BY <3>2, <3>3
    <2>3. CASE EndScan /\ rewards' = rewards
      BY <1>1, <1>4, <2>1, <2>3, Types, EndKeepsScanInv DEF EndScan, IInv
    <2> QED
      BY <1>8, <2>2, <2>3, Upserted
  <1>9. CASE Finish
    BY <1>1, <1>4, <1>9, Types, SaveKeepsScanInv DEF Finish, SaveLevel, EndScan, IInv
  <1>10. CASE Abort
    BY <1>1, <1>4, <1>10, Types, EndKeepsScanInv DEF Abort, EndScan, IInv
  <1> QED
    BY <1>5, <1>6, <1>7, <1>8, <1>9, <1>10 DEF RunStep

\* IInv holds in every reachable state.
THEOREM Invariance == Spec => []IInv
  <1>1. Init => IInv
    BY InitIInv
  <1>2. IInv /\ [Next]_vars => IInv'
    <2>1. ASSUME IInv, UNCHANGED vars PROVE IInv'
      BY <2>1, ScanStutter
         DEF IInv, TypeOK, ScanInv, AccountsInv, FoundInv, RowsInv, RewardsWellOwned
    <2> QED
      BY <2>1, NewBlockIInv, RunIInv, ClaimIInv, RegisterIInv, DeleteIInv DEF Next, ApiStep
  <1> QED
    BY <1>1, <1>2, PTL DEF Spec

\* Every variable keeps its type.
THEOREM TypeCorrect == Spec => []TypeOK
  BY Invariance, PTL DEF IInv

\* Whatever is rescanned, registered, deleted and claimed in between, an
\* operation has one row at most and it belongs to the account that its
\* recipient has now.
THEOREM WellOwned == Spec => []RewardsWellOwned
  BY Invariance, PTL DEF IInv, RowsInv

\* The scan of the rewards covers its window too.
THEOREM WindowScanned ==
  ASSUME LevelParam = "ge"
  PROVE  Spec => []ScanCoversWindow
  <1>1. IInv => ScanCoversWindow
    BY WindowCovered DEF IInv
  <1> QED
    BY <1>1, Invariance, PTL

-----------------------------------------------------------------------------
(* No reward is missing but the skipped and the erased ones                *)

\* The operations that a scan need not see again.
Dealt == missed \cup erased \cup {x.op : x \in rewards}

SweepInv == Swept(Dealt)

\* Requests take no operation out of Dealt.
LEMMA ApiDealt == ASSUME IInv, ApiStep PROVE Dealt \subseteq Dealt'
  <1>1. CASE \E w \in Wallet : Register(w)
    BY <1>1 DEF Register, Dealt
  <1>2. CASE \E w \in Wallet : DeleteAccount(w)
    BY <1>2 DEF DeleteAccount, Dealt
  <1>3. CASE \E r \in Slot : ReadReward(r)
    BY <1>3 DEF ReadReward, Dealt
  <1>4. CASE \E r \in Slot : MarkClaimed(r)
    <2>1. PICK r \in Slot : MarkClaimed(r)
      BY <1>4
    <2>2. \A x \in rewards : \E y \in rewards' : y.op = x.op
      BY <2>1, Marked
    <2> QED
      BY <2>1, <2>2 DEF MarkClaimed, Dealt
  <1> QED
    BY <1>1, <1>2, <1>3, <1>4 DEF ApiStep

\* The steps of a run keep what was swept and what is still to be swept.
LEMMA RunSweep ==
  ASSUME IInv, SweepInv, LevelParam = "ge", RunStep \/ Abort
  PROVE  SweepInv'
  <1>1. UNCHANGED <<feedVars, erased>> /\ ScanInv
    BY DEF RunStep, BeginRun, FetchPage, FindUser, UpsertReward, Finish, Abort, IInv
  <1>2. PICK Done : Done = Dealt
    OBVIOUS
  <1>3. Swept(Done)
    BY <1>2 DEF SweepInv
  <1>4. ASSUME NEW Done2, Swept(Done2)', Done2 \subseteq Dealt'
        PROVE  SweepInv'
    BY <1>4 DEF SweepInv, Swept
  <1>5. CASE Swept(Done)' /\ UNCHANGED <<rewards, missed>>
    BY <1>1, <1>2, <1>4, <1>5 DEF Dealt
  <1>6. CASE BeginRun
    BY <1>1, <1>3, <1>5, <1>6, BeginKeepsSwept DEF BeginRun
  <1>7. CASE FetchPage
    BY <1>1, <1>3, <1>5, <1>7, PageKeepsSwept DEF FetchPage
  <1>8. PICK c : c = cursor
    OBVIOUS
  <1>9. ASSUME NextOp, pc \in {"find", "update"}, UNCHANGED lastSeen,
               c \in Dealt', Done \subseteq Dealt'
        PROVE  SweepInv'
    <2>1. PICK Done2 : Done2 = Done \cup {c}
      OBVIOUS
    <2>2. Swept(Done2)'
      BY <1>1, <1>3, <1>8, <1>9, <2>1, NextOpKeepsSwept
    <2> QED
      BY <1>4, <1>9, <2>1, <2>2
  <1>10. CASE FindUser
    <2>1. pc = "find" /\ UNCHANGED <<rewards, lastSeen>>
      BY <1>10 DEF FindUser
    <2>2. CASE NextOp /\ missed' = missed \cup {cursor}
      BY <1>1, <1>2, <1>8, <1>9, <2>1, <2>2 DEF Dealt
    <2>3. CASE pc' = "update"
               /\ UNCHANGED <<from, to, offset, scanned, cursor, pageEnd, missed>>
      BY <1>1, <1>3, <1>5, <2>1, <2>3, UpdateKeepsScanInv
    <2> QED
      BY <1>10, <2>2, <2>3 DEF FindUser
  <1>11. CASE UpsertReward
    <2>1. pc = "update" /\ UNCHANGED <<lastSeen, missed>>
      BY <1>11, Upserted
    <2>2. CASE NextOp /\ rewards' = rewards /\ RowOf(cursor) # {}
      <3>1. c \in Dealt' /\ Done \subseteq Dealt'
        BY <1>1, <1>2, <1>8, <2>1, <2>2 DEF Dealt, RowOf
      <3> QED
        BY <1>9, <2>1, <2>2, <3>1
    <2>3. CASE NextOp /\ rewards' = rewards \cup {Fresh}
      <3>1. Fresh \in rewards' /\ Fresh.op = c /\ rewards \subseteq rewards'
        BY <1>8, <2>3 DEF Fresh
      <3>2. c \in Dealt' /\ Done \subseteq Dealt'
        BY <1>1, <1>2, <2>1, <3>1 DEF Dealt
      <3> QED
        BY <1>9, <2>1, <2>3, <3>2
    <2>4. CASE EndScan /\ rewards' = rewards
      BY <1>1, <1>3, <1>5, <2>1, <2>4, EndKeepsSwept
    <2> QED
      BY <1>11, <2>2, <2>3, <2>4, Upserted
  <1>12. CASE Finish
    BY <1>1, <1>3, <1>5, <1>12, SaveKeepsScanInv DEF Finish
  <1>13. CASE Abort
    BY <1>1, <1>3, <1>5, <1>13, EndKeepsSwept DEF Abort
  <1> QED
    BY <1>6, <1>7, <1>10, <1>11, <1>12, <1>13 DEF RunStep

\* When TzKT reads "level" as the lower bound of the window, an operation
\* below lastSeen has its row, or it was skipped, or its account was deleted:
\* failed runs, pages and a user deleted in the middle of a run lose none.
THEOREM NoneLost ==
  ASSUME LevelParam = "ge"
  PROVE  Spec => []OnlySkippedAreMissing
  <1>1. Init => SweepInv
    BY DEF Init, ScanInit, SweepInv, Swept
  <1>2. ASSUME IInv, SweepInv, NewBlock PROVE SweepInv'
    <2>1. PICK Done : Done = Dealt
      OBVIOUS
    <2>2. AddBlock(NewOps) /\ ops \in Seq(Op)
          /\ UNCHANGED <<lastSeen, scanVars, rewards, missed, erased>>
      BY <1>2 DEF NewBlock, NewOps, IInv, TypeOK
    <2>3. Swept(Done)'
      BY <1>2, <2>1, <2>2, NewOpsTyped, BlockKeepsSwept DEF IInv, SweepInv
    <2> QED
      BY <2>1, <2>2, <2>3 DEF SweepInv, Dealt
  <1>3. ASSUME IInv, SweepInv, ApiStep PROVE SweepInv'
    <2>1. UNCHANGED <<feedVars, lastSeen, scanVars>>
      BY <1>3 DEF ApiStep, Register, DeleteAccount, ReadReward, MarkClaimed
    <2> QED
      BY <1>3, <2>1, ApiDealt DEF SweepInv, Swept, Handled, Frontier
  <1>4. IInv /\ SweepInv /\ [Next]_vars => SweepInv'
    <2>1. ASSUME SweepInv, UNCHANGED vars PROVE SweepInv'
      BY <2>1 DEF SweepInv, Dealt, Swept, Handled, Frontier
    <2> QED
      BY <1>2, <1>3, <2>1, RunSweep DEF Next
  <1>5. IInv /\ SweepInv => OnlySkippedAreMissing
    BY SweptBelowLastSeen DEF IInv, SweepInv, Dealt, OnlySkippedAreMissing, RowOf
  <1> QED
    BY <1>1, <1>4, <1>5, Invariance, PTL DEF Spec

-----------------------------------------------------------------------------
(* What a step may never do                                                *)

\* Rows are immutable once inserted: no step of a run changes or removes one.
THEOREM RowsImmutable == Spec => ScanKeepsRows
  <1>1. ASSUME RunStep PROVE rewards \subseteq rewards'
    BY <1>1 DEF RunStep, BeginRun, FetchPage, FindUser, UpsertReward, Finish
  <1> QED
    BY <1>1, PTL DEF Spec, ScanKeepsRows

\* The row that a claim in flight is about is not claimed, unless another call
\* claimed it since the read.
ClaimInv ==
  \A r \in Slot \ overlap : req[r].pc = "update" =>
    \A x \in rewards : x.op = req[r].op => x.claim = NoClaim

\* The update of one call: the others that are in flight for its row overlap.
LEMMA MarkClaimInv ==
  ASSUME IInv, ClaimInv, NEW r \in Slot, MarkClaimed(r)
  PROVE  ClaimInv'
  <1>1. SUFFICES ASSUME NEW s \in Slot, s \notin overlap', req'[s].pc = "update",
                        NEW y \in rewards', y.op = req'[s].op
                 PROVE  y.claim = NoClaim
    BY DEF ClaimInv
  <1>2. s # r /\ req'[s] = req[s] /\ s \notin overlap
        /\ (req[s].op = req[r].op => RowOf(req[r].op) = {})
    <2>1. req \in [Slot -> Call] /\ req' = [req EXCEPT ![r] = Idle]
          /\ overlap' = (overlap \ {r}) \cup
                        {t \in Slot \ {r} : /\ req[t].pc = "update"
                                            /\ req[t].op = req[r].op
                                            /\ RowOf(req[r].op) # {}}
      BY Types DEF MarkClaimed
    <2>2. s # r
      BY <1>1, <2>1 DEF Idle
    <2> QED
      BY <1>1, <2>1, <2>2
  <1>3. y \in rewards
    <2>1. CASE y.op # req[r].op
      BY <2>1, Marked
    <2>2. CASE y.op = req[r].op
      <3>1. \E x \in rewards : x.op = req[r].op
        BY <2>2, Marked
      <3> QED
        BY <1>1, <1>2, <2>2, <3>1 DEF RowOf
    <2> QED
      BY <2>1, <2>2
  <1> QED
    BY <1>1, <1>2, <1>3 DEF ClaimInv

\* Every step keeps it.
LEMMA ClaimInvNext ==
  ASSUME IInv, ClaimInv, [Next]_vars
  PROVE  ClaimInv'
  <1>1. req \in [Slot -> Call]
    BY Types
  <1>2. CASE \E r \in Slot : ReadReward(r)
    <2>1. PICK r \in Slot, x \in rewards :
            /\ x.claim = NoClaim /\ rewards' = rewards /\ overlap' = overlap
            /\ req' = [req EXCEPT ![r] = [pc |-> "update", op |-> x.op]]
      BY <1>2 DEF ReadReward
    <2>2. \A y \in rewards : y.op = x.op => y.claim = NoClaim
      BY <2>1 DEF IInv, RowsInv, RewardsWellOwned
    <2>3. \A s \in Slot : req'[s] = req[s] \/ req'[s].op = x.op
      BY <1>1, <2>1
    <2> QED
      BY <2>1, <2>2, <2>3 DEF ClaimInv
  <1>3. CASE \E r \in Slot : MarkClaimed(r)
    BY <1>3, MarkClaimInv
  <1>4. CASE UpsertReward
    <2>1. req' = req /\ overlap' = overlap
          /\ (rewards' = rewards \/ rewards' = rewards \cup {Fresh})
      BY <1>4 DEF UpsertReward
    <2> QED
      BY <2>1 DEF ClaimInv, Fresh
  <1>5. CASE req' = req /\ overlap' = overlap /\ rewards' \subseteq rewards
    BY <1>5 DEF ClaimInv
  <1> QED
    BY <1>2, <1>3, <1>4, <1>5 DEF Next, ApiStep, RunStep, NewBlock, Register, DeleteAccount,
       BeginRun, FetchPage, FindUser, Finish, Abort

\* For any number of calls in flight: a claimed row keeps its claim, whatever
\* is rescanned, deleted and claimed again, unless the writer is a call that
\* had read the row before it was claimed.
THEOREM ClaimsAreFinal == Spec => ClaimIsFinal
  <1>1. Init => ClaimInv
    BY DEF Init, ClaimInv, Idle
  <1>2. IInv /\ ClaimInv /\ [Next]_vars => ClaimInv'
    BY ClaimInvNext
  <1>3. ASSUME IInv, ClaimInv, [Next]_vars,
               NEW x \in rewards, x.claim # NoClaim,
               NEW y \in rewards', y.op = x.op
        PROVE  y.claim = x.claim \/ \E r \in overlap : req[r].op = x.op /\ req'[r] = Idle
    <2>1. CASE y \in rewards
      BY <1>3, <2>1 DEF IInv, RowsInv, RewardsWellOwned
    <2>2. CASE \E r \in Slot : MarkClaimed(r)
      <3>1. PICK r \in Slot : MarkClaimed(r)
        BY <2>2
      <3>2. CASE req[r].op # x.op
        BY <1>3, <2>1, <3>1, <3>2, Marked
      <3>3. CASE req[r].op = x.op
        <4>1. r \in overlap
          BY <1>3, <3>1, <3>3 DEF ClaimInv, MarkClaimed
        <4>2. req'[r] = Idle
          BY <1>3, <3>1, Types DEF MarkClaimed
        <4> QED
          BY <3>3, <4>1, <4>2
      <3> QED
        BY <3>2, <3>3
    <2>3. CASE UpsertReward
      <3>1. \/ rewards' = rewards
            \/ rewards' = rewards \cup {Fresh} /\ RowOf(cursor) = {}
        BY <2>3 DEF UpsertReward
      <3>2. y # Fresh \/ rewards' = rewards
        BY <1>3, <3>1 DEF Fresh, RowOf
      <3> QED
        BY <2>1, <3>1, <3>2
    <2>4. CASE rewards' \subseteq rewards
      BY <2>1, <2>4
    <2> QED
      BY <1>3, <2>2, <2>3, <2>4 DEF Next, ApiStep, RunStep, NewBlock, Register, DeleteAccount,
         ReadReward, BeginRun, FetchPage, FindUser, Finish, Abort
  <1>4. IInv /\ ClaimInv /\ [Next]_vars =>
          [\A x \in rewards : x.claim # NoClaim =>
             \A y \in rewards' : y.op = x.op =>
               y.claim = x.claim \/ \E r \in overlap : req[r].op = x.op /\ req'[r] = Idle]_vars
    BY <1>3
  <1> QED
    BY <1>1, <1>2, <1>4, Invariance, PTL DEF Spec, ClaimIsFinal
=============================================================================
