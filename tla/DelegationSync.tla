--------------------------- MODULE DelegationSync ---------------------------
(***************************************************************************)
(* The delegation rows of the shared database: the API creates them in     *)
(* state PENDING after the wallet broadcast the operation                  *)
(* (DelegationsService.create), the indexer promotes them from what TzKT   *)
(* reports (DelegationSync.run), and account deletion removes them         *)
(* (UsersService.deleteAccount).  Every await of the two handlers is a     *)
(* step of its own, so that requests, the scan, new blocks, deletions and  *)
(* failures interleave.                                                    *)
(***************************************************************************)
EXTENDS LevelScan

CONSTANTS Wallet, Hash,
          Slot,          \* POST /delegations requests that can be in flight
          OpStatus,      \* the statuses TzKT reports for an operation
          NoRow,         \* no Delegation row has this opsHash
          MaxRows,       \* bound: rows ever inserted
          MaxAborts      \* bound: runs of the indexer that fail or are killed

ASSUME OpStatusAssumption == "applied" \in OpStatus
ASSUME NoRowAssumption ==
  NoRow \notin [id: Nat, wallet: Wallet,
                status: {"PENDING", "CONFIRMED", "FAILED"}, blockLevel: Nat]
ASSUME NoFateAssumption == NoRow \notin [status: {"CONFIRMED", "FAILED"}, level: Nat]

VARIABLES
  users,                       \* User: the registered wallets
  rows,                        \* Delegation, by opsHash
  nextId,                      \* the id of the next inserted row
  picked,                      \* DelegationSync.run: the id of the row found
  req,                         \* DelegationsService.create: calls in flight
  aborts,                      \* failures so far, bounded by MaxAborts
  late,                        \* history: rows posted after the runs were past
  behind                       \* history: rows posted behind the run in progress

runVars  == <<scanVars, picked>>
dbVars   == <<users, rows, nextId>>
history  == <<late, behind>>
vars     == <<feedVars, lastSeen, runVars, dbVars, req, aborts, history>>

Row == [id: Nat, wallet: Wallet,
        status: {"PENDING", "CONFIRMED", "FAILED"}, blockLevel: Nat]
Op  == [hash: Hash, status: OpStatus, level: Nat]
Idle == [pc |-> "idle"]
Call == {Idle} \cup [pc: {"insert", "existing"}, wallet: Wallet, hash: Hash]

Init ==
  /\ ScanInit /\ picked = 0
  /\ users = {} /\ rows = [h \in Hash |-> NoRow] /\ nextId = 1
  /\ req = [r \in Slot |-> Idle]
  /\ aborts = 0 /\ late = {} /\ behind = {}

-----------------------------------------------------------------------------
(* The chain: a block with any operations that are not included yet.       *)

OnChain(h) == \E i \in DOMAIN ops : ops[i].hash = h

\* The operations a wallet signed have hashes of their own.
NewBlock ==
  /\ AddBlock({op \in [hash: Hash, status: OpStatus, level: {head + 1}] :
                ~OnChain(op.hash)})
  /\ \A i, j \in DOMAIN ops' : ops'[i].hash = ops'[j].hash => i = j
  /\ UNCHANGED <<lastSeen, runVars, dbVars, req, aborts, history>>

-----------------------------------------------------------------------------
(* DelegationsService.create and UsersService.deleteAccount                *)

\* The user upsert, then the lookup of the baker, a table no handler deletes
\* from: an unknown baker ends the call with 404, the user stays registered.
Upsert(r) ==
  /\ req[r] = Idle
  /\ \E w \in Wallet, h \in Hash, known \in BOOLEAN :
       /\ users' = users \cup {w}
       /\ req' = [req EXCEPT ![r] =
                    IF known THEN [pc |-> "insert", wallet |-> w, hash |-> h]
                             ELSE Idle]
  /\ UNCHANGED <<feedVars, lastSeen, runVars, rows, nextId, aborts, history>>

\* The operation of h lies where no run looks again.
OutOfReach(h) == \E i \in DOMAIN ops : ops[i].hash = h /\ ops[i].level < lastSeen

\* The run in progress has dealt with the operation of h, and none will look
\* at it again if this one succeeds.
JustPassed(h) ==
  \E i \in DOMAIN ops :
    /\ ops[i].hash = h /\ lastSeen <= ops[i].level /\ ops[i].level < Frontier
    /\ Handled(i)

\* Mutated form: an upsert on the opsHash that takes the row over.
InsertOverwrites(r) ==
  /\ req[r].pc = "insert" /\ req[r].wallet \in users /\ nextId <= MaxRows
  /\ rows' = [rows EXCEPT ![req[r].hash] =
                [id |-> nextId, wallet |-> req[r].wallet, status |-> "PENDING",
                 blockLevel |-> 0]]
  /\ nextId' = nextId + 1 /\ req' = [req EXCEPT ![r] = Idle]
  /\ UNCHANGED <<feedVars, lastSeen, runVars, users, aborts, history>>

\* The insert.  It fails when the account was deleted since the upsert, and
\* raises P2002 when the opsHash is taken.  The history variables tell the
\* rows that a finished run, or the run in progress, has already passed.
Insert(r) ==
  /\ req[r].pc = "insert"
  /\ LET w == req[r].wallet
         h == req[r].hash
     IN \/ /\ w \notin users
           /\ req' = [req EXCEPT ![r] = Idle]
           /\ UNCHANGED <<rows, nextId, history>>
        \/ /\ w \in users /\ rows[h] # NoRow
           /\ req' = [req EXCEPT ![r].pc = "existing"]
           /\ UNCHANGED <<rows, nextId, history>>
        \/ /\ w \in users /\ rows[h] = NoRow /\ nextId <= MaxRows
           /\ rows' = [rows EXCEPT ![h] =
                         [id |-> nextId, wallet |-> w, status |-> "PENDING",
                          blockLevel |-> 0]]
           /\ nextId' = nextId + 1
           /\ late' = IF OutOfReach(h) THEN late \cup {nextId} ELSE late
           /\ behind' = IF JustPassed(h) THEN behind \cup {nextId} ELSE behind
           /\ req' = [req EXCEPT ![r] = Idle]
  /\ UNCHANGED <<feedVars, lastSeen, runVars, users, aborts>>

\* The read after P2002: the existing row is returned, or, when it was
\* deleted meanwhile, the error is rethrown.  Neither changes the state.
ReadExisting(r) ==
  /\ req[r].pc = "existing"
  /\ req' = [req EXCEPT ![r] = Idle]
  /\ UNCHANGED <<feedVars, lastSeen, runVars, dbVars, aborts, history>>

\* One transaction: the rows of the wallet, then the user.
DeleteAccount(w) ==
  /\ w \in users
  /\ users' = users \ {w}
  /\ rows' = [h \in Hash |->
                IF rows[h] # NoRow /\ rows[h].wallet = w THEN NoRow ELSE rows[h]]
  /\ UNCHANGED <<feedVars, lastSeen, runVars, nextId, req, aborts, history>>

-----------------------------------------------------------------------------
(* DelegationSync.run                                                      *)

BeginRun ==
  BeginScan /\ UNCHANGED <<feedVars, lastSeen, dbVars, picked, req, aborts, history>>

FetchPage ==
  GetPage /\ UNCHANGED <<feedVars, lastSeen, dbVars, picked, req, aborts, history>>

Pending(h) == rows[h] # NoRow /\ rows[h].status = "PENDING"

\* findFirst where opsHash = op.hash and status = PENDING.
FindRow ==
  /\ pc = "find"
  /\ LET h == ops[cursor].hash
     IN \/ ~Pending(h) /\ NextOp /\ UNCHANGED picked
        \/ /\ Pending(h)
           /\ picked' = rows[h].id /\ pc' = "update"
           /\ UNCHANGED <<from, to, offset, scanned, cursor, pageEnd>>
  /\ UNCHANGED <<feedVars, lastSeen, dbVars, req, aborts, history>>

\* Mutated form: whatever is on the chain was applied.
OutcomeUnread(op) == "CONFIRMED"

Outcome(op) == IF op.status = "applied" THEN "CONFIRMED" ELSE "FAILED"

\* Mutated form: a row that was deleted meanwhile is passed over.
UpdateRowOrSkip ==
  /\ pc = "update" /\ picked' = 0 /\ NextOp
  /\ LET op    == ops[cursor]
         alive == rows[op.hash] # NoRow /\ rows[op.hash].id = picked
     IN rows' = IF alive
                THEN [rows EXCEPT ![op.hash].status = Outcome(op),
                                  ![op.hash].blockLevel = op.level]
                ELSE rows
  /\ UNCHANGED <<feedVars, lastSeen, users, nextId, req, aborts, history>>

\* update where id = row.id.  A row that was deleted since findFirst makes it
\* throw, and the whole run ends with its lastSeen unsaved.
UpdateRow ==
  /\ pc = "update" /\ picked' = 0
  /\ LET op    == ops[cursor]
         alive == rows[op.hash] # NoRow /\ rows[op.hash].id = picked
     IN \/ /\ alive
           /\ rows' = [rows EXCEPT ![op.hash].status = Outcome(op),
                                   ![op.hash].blockLevel = op.level]
           /\ NextOp /\ UNCHANGED behind
        \/ ~alive /\ EndScan /\ behind' = {} /\ UNCHANGED rows
  /\ UNCHANGED <<feedVars, lastSeen, users, nextId, req, aborts, late>>

\* Once lastSeen is saved the rows behind the run are out of reach.
Finish ==
  /\ SaveLevel
  /\ late' = IF scanned > 0 THEN late \cup behind ELSE late
  /\ behind' = {}
  /\ UNCHANGED <<feedVars, dbVars, picked, req, aborts>>

\* Any of the awaits throws (TzKT after its retries, the database), or the
\* process is killed and restarted: lastSeen is not saved, and the next run
\* scans the window again, with the rows posted meanwhile.  runMain catches
\* the error and calls run again on its next tick.
Abort ==
  /\ pc # "idle" /\ aborts < MaxAborts
  /\ EndScan /\ picked' = 0 /\ aborts' = aborts + 1 /\ behind' = {}
  /\ UNCHANGED <<feedVars, lastSeen, dbVars, req, late>>

RunStep == BeginRun \/ FetchPage \/ FindRow \/ UpdateRow \/ Finish

ApiStep == \/ \E r \in Slot : Upsert(r) \/ Insert(r) \/ ReadExisting(r)
           \/ \E w \in Wallet : DeleteAccount(w)

Next == NewBlock \/ RunStep \/ ApiStep \/ Abort

Spec == Init /\ [][Next]_vars

\* runMain calls run again and again and a run always reaches its next await,
\* so the indexer's own steps are fair.  Blocks, requests and failures are not.
FairSpec == Spec /\ WF_vars(RunStep)

-----------------------------------------------------------------------------
(* Properties                                                              *)

\* Every variable has its type, and lastSeen is a level that the chain has
\* reached (IndexerState is only written by setLastSeen).
TypeOK ==
  /\ ScanTypeOK
  /\ ops \in Seq(Op)
  /\ users \subseteq Wallet
  /\ rows \in [Hash -> Row \cup {NoRow}]
  /\ nextId \in Nat /\ picked \in Nat
  /\ req \in [Slot -> Call]
  /\ aborts \in Nat
  /\ late \subseteq Nat /\ behind \subseteq Nat

\* A row says CONFIRMED only of an operation that was applied, FAILED only of
\* one that is on the chain and was not, and in both cases at its level
\* (the update in DelegationSync.run), whatever was deleted and posted again
\* between the page, the findFirst and the update.
RowsTellTheTruth ==
  \A h \in Hash : rows[h] # NoRow /\ rows[h].status # "PENDING" =>
    \E i \in DOMAIN ops :
      /\ ops[i].hash = h /\ ops[i].level = rows[h].blockLevel
      /\ rows[h].status = "CONFIRMED" <=> ops[i].status = "applied"

\* Once lastSeen is past the level of an operation no run asks for it again.
\* The only rows still PENDING there are those that were posted when lastSeen
\* was already past it, or behind the cursor of the very run that took
\* lastSeen past it.  A row posted ahead of the cursor, while its page is
\* processed, or in a run that fails, is not lost; neither is one to paging,
\* failed runs and the level that two successive windows share.
OnlyLateRowsAreStranded ==
  \A i \in DOMAIN ops :
    ops[i].level < lastSeen /\ Pending(ops[i].hash) =>
      rows[ops[i].hash].id \in late

\* Every other row is promoted (or deleted) once the chain has moved past the
\* level of its operation: also one posted before the cursor of a run reaches
\* its operation, or behind the cursor of a run that fails.
TimelyRowsSettle ==
  \A h \in Hash : \A id \in 1..MaxRows :
    (/\ rows[h] # NoRow /\ rows[h].id = id /\ id \notin late \cup behind
     /\ \E i \in DOMAIN ops : ops[i].hash = h /\ ops[i].level < head)
      ~> (rows[h] = NoRow \/ rows[h].id # id \/ rows[h].status # "PENDING")

-----------------------------------------------------------------------------
(* The rows implement the ledger of DelegationLedger: the scan, its pages, *)
(* its failures and the requests in flight are stuttering steps of it.     *)

FateOf(h) ==
  IF OnChain(h)
  THEN LET i == CHOOSE i \in DOMAIN ops : ops[i].hash = h
       IN  [status |-> Outcome(ops[i]), level |-> ops[i].level]
  ELSE NoRow

Ledger == INSTANCE DelegationLedger
            WITH fate <- [h \in Hash |-> FateOf(h)], Unknown <- NoRow,
                 Id <- 1..MaxRows

\* The rows behave as the ledger promises: whatever interleaves, a row is
\* promoted once, from PENDING, to the fate of its operation, and a
\* second post or a repeated scan changes no row.
ImplementsLedger == Ledger!Spec
=============================================================================
