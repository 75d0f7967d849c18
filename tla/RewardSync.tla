----------------------------- MODULE RewardSync -----------------------------
(***************************************************************************)
(* The reward rows of the shared database: the indexer inserts one for     *)
(* every reward operation whose recipient is registered (RewardSync.run),  *)
(* claims mark them (RewardsService.claim), and account deletion removes   *)
(* them (UsersService.deleteAccount).  Every await is a step.              *)
(***************************************************************************)
EXTENDS LevelScan

CONSTANTS Wallet,
          ClaimHash,   \* operations that pay a reward out
          NoClaim,     \* Reward.claimed = false
          Slot,        \* calls of claim that can be in flight
          MaxUsers,    \* bound: accounts ever created
          MaxAborts    \* bound: runs of the indexer that fail or are killed

ASSUME NoClaimAssumption == NoClaim \notin ClaimHash

VARIABLES
  users,      \* User.id of each registered wallet, 0 for the others
  nextUser,   \* the id of the next account
  rewards,    \* the Reward rows; op is the TzKT id in their opsHash
  found,      \* RewardSync.run: the id of the user found
  req,        \* RewardsService.claim: calls in flight
  aborts,     \* failures so far, bounded by MaxAborts
  missed,     \* history: the operations that the scan skipped
  erased,     \* history: the operations whose row was deleted
  overlap     \* history: calls of claim whose row another call has claimed

runVars == <<scanVars, found>>
dbVars  == <<users, nextUser, rewards>>
vars    == <<feedVars, lastSeen, runVars, dbVars, req, aborts, missed, erased,
             overlap>>

Op     == [recipient: Wallet, baker: BOOLEAN, level: Nat]
Reward == [op: Nat, user: Nat, claim: ClaimHash \cup {NoClaim}]
Idle   == [pc |-> "idle"]
Call   == {Idle} \cup [pc: {"update"}, op: Nat]

Init ==
  /\ ScanInit /\ found = 0
  /\ users = [w \in Wallet |-> 0] /\ nextUser = 1 /\ rewards = {}
  /\ req = [r \in Slot |-> Idle]
  /\ aborts = 0 /\ missed = {} /\ erased = {} /\ overlap = {}

RowOf(i) == {x \in rewards : x.op = i}

-----------------------------------------------------------------------------
(* The chain and the API                                                   *)

\* TzKT may name neither a baker nor a proposer.
NewBlock ==
  /\ AddBlock([recipient: Wallet, baker: BOOLEAN, level: {head + 1}])
  /\ UNCHANGED <<lastSeen, runVars, dbVars, req, aborts, missed, erased, overlap>>

\* The user upsert of UsersService.register.
Register(w) ==
  /\ users[w] = 0 /\ nextUser <= MaxUsers
  /\ users' = [users EXCEPT ![w] = nextUser] /\ nextUser' = nextUser + 1
  /\ UNCHANGED <<feedVars, lastSeen, runVars, rewards, req, aborts, missed, erased, overlap>>

\* One transaction: the rows of the wallet, then the user.
DeleteAccount(w) ==
  /\ users[w] # 0
  /\ users' = [users EXCEPT ![w] = 0]
  /\ rewards' = {x \in rewards : x.user # users[w]}
  /\ erased' = erased \cup {x.op : x \in rewards \ rewards'}
  /\ UNCHANGED <<feedVars, lastSeen, runVars, nextUser, req, aborts, missed, overlap>>

\* Mutated form: the read does not look at claimed.
ReadRewardAnyway(r) ==
  /\ req[r] = Idle
  /\ \E x \in rewards : req' = [req EXCEPT ![r] = [pc |-> "update", op |-> x.op]]
  /\ UNCHANGED <<feedVars, lastSeen, runVars, dbVars, aborts, missed, erased, overlap>>

\* claim: findUnique.  An unknown reward is a 404, a claimed one is returned.
ReadReward(r) ==
  /\ req[r] = Idle
  /\ \E x \in rewards :
       /\ x.claim = NoClaim
       /\ req' = [req EXCEPT ![r] = [pc |-> "update", op |-> x.op]]
  /\ UNCHANGED <<feedVars, lastSeen, runVars, dbVars, aborts, missed, erased, overlap>>

\* claim: update where opsHash, whatever the row's state is by now.  Without
\* a row it throws.  The claimedOpsHash is an input of the call that is not
\* looked at before.  The calls that read the row before it was claimed here
\* are from now on overlapping ones.
MarkClaimed(r) ==
  /\ req[r].pc = "update"
  /\ \E c \in ClaimHash :
       rewards' = (rewards \ RowOf(req[r].op)) \cup
                    {[x EXCEPT !.claim = c] : x \in RowOf(req[r].op)}
  /\ req' = [req EXCEPT ![r] = Idle]
  /\ overlap' = (overlap \ {r}) \cup
                {s \in Slot \ {r} : /\ req[s].pc = "update"
                                    /\ req[s].op = req[r].op
                                    /\ RowOf(req[r].op) # {}}
  /\ UNCHANGED <<feedVars, lastSeen, runVars, users, nextUser, aborts, missed, erased>>

-----------------------------------------------------------------------------
(* RewardSync.run                                                          *)

BeginRun ==
  /\ BeginScan
  /\ UNCHANGED <<feedVars, lastSeen, dbVars, found, req, aborts, missed, erased, overlap>>

FetchPage ==
  /\ GetPage
  /\ UNCHANGED <<feedVars, lastSeen, dbVars, found, req, aborts, missed, erased, overlap>>

\* Mutated form: the first unknown recipient ends the page loop.
FindUserBreaks ==
  /\ pc = "find"
  /\ LET op == ops[cursor]
     IN \/ /\ users[op.recipient] = 0 \/ ~op.baker
           /\ pc' = "finish" /\ LeavePage /\ missed' = missed \cup {cursor}
           /\ UNCHANGED <<from, to, offset, scanned, found>>
        \/ /\ users[op.recipient] # 0 /\ op.baker
           /\ found' = users[op.recipient] /\ pc' = "update"
           /\ UNCHANGED <<from, to, offset, scanned, cursor, pageEnd, missed>>
  /\ UNCHANGED <<feedVars, lastSeen, dbVars, req, aborts, erased, overlap>>

\* user.findUnique: an operation with an unknown recipient, or without a
\* baker, is skipped.
FindUser ==
  /\ pc = "find"
  /\ LET op == ops[cursor]
     IN \/ /\ users[op.recipient] = 0 \/ ~op.baker
           /\ NextOp /\ missed' = missed \cup {cursor} /\ UNCHANGED found
        \/ /\ users[op.recipient] # 0 /\ op.baker
           /\ found' = users[op.recipient] /\ pc' = "update"
           /\ UNCHANGED <<from, to, offset, scanned, cursor, pageEnd, missed>>
  /\ UNCHANGED <<feedVars, lastSeen, dbVars, req, aborts, erased, overlap>>

Fresh == [op |-> cursor, user |-> found, claim |-> NoClaim]

\* Mutated form: the insert does not check that the user still exists.
UpsertRewardUnchecked ==
  /\ pc = "update" /\ found' = 0 /\ NextOp
  /\ rewards' = IF RowOf(cursor) = {} THEN rewards \cup {Fresh} ELSE rewards
  /\ UNCHANGED <<feedVars, lastSeen, users, nextUser, req, aborts, missed, erased, overlap>>

\* Mutated form: the update branch writes the row again.
UpsertRewardResets ==
  /\ pc = "update" /\ found' = 0 /\ NextOp
  /\ rewards' = (rewards \ RowOf(cursor)) \cup {Fresh}
  /\ UNCHANGED <<feedVars, lastSeen, users, nextUser, req, aborts, missed, erased, overlap>>

\* GET /v1/cycles, then the upsert: a row that exists is left as it is.  An
\* insert whose user was deleted since findUnique violates the foreign key,
\* and the whole run ends with its lastSeen unsaved.
UpsertReward ==
  /\ pc = "update" /\ found' = 0
  /\ \/ RowOf(cursor) # {} /\ NextOp /\ UNCHANGED rewards
     \/ /\ RowOf(cursor) = {} /\ \E w \in Wallet : users[w] = found
        /\ rewards' = rewards \cup {Fresh} /\ NextOp
     \/ /\ RowOf(cursor) = {} /\ \A w \in Wallet : users[w] # found
        /\ EndScan /\ UNCHANGED rewards
  /\ UNCHANGED <<feedVars, lastSeen, users, nextUser, req, aborts, missed, erased, overlap>>

Finish ==
  SaveLevel /\ UNCHANGED <<feedVars, dbVars, found, req, aborts, missed, erased, overlap>>

\* Any of the awaits throws, or the process dies: see DelegationSync.
Abort ==
  /\ pc # "idle" /\ aborts < MaxAborts
  /\ EndScan /\ found' = 0 /\ aborts' = aborts + 1
  /\ UNCHANGED <<feedVars, lastSeen, dbVars, req, missed, erased, overlap>>

RunStep == BeginRun \/ FetchPage \/ FindUser \/ UpsertReward \/ Finish

ApiStep == \/ \E w \in Wallet : Register(w) \/ DeleteAccount(w)
           \/ \E r \in Slot : ReadReward(r) \/ MarkClaimed(r)

Next == NewBlock \/ RunStep \/ ApiStep \/ Abort

Spec == Init /\ [][Next]_vars

\* As in DelegationSync: only the indexer's own steps are fair.
FairSpec == Spec /\ WF_vars(RunStep)

-----------------------------------------------------------------------------
(* Properties                                                              *)

\* Every variable has its type.
TypeOK ==
  /\ ScanTypeOK
  /\ ops \in Seq(Op)
  /\ users \in [Wallet -> Nat] /\ nextUser \in Nat
  /\ rewards \subseteq Reward
  /\ found \in Nat
  /\ req \in [Slot -> Call]
  /\ aborts \in Nat /\ missed \subseteq Nat /\ erased \subseteq Nat
  /\ overlap \subseteq Slot

\* An operation has one row, and it belongs to the account that its recipient
\* has now: neither a rescan, nor an account that is deleted (and created
\* again) between the findUnique and the upsert of RewardSync.run, doubles or
\* misplaces a reward.
RewardsWellOwned ==
  \A x \in rewards :
    /\ users[ops[x.op].recipient] = x.user
    /\ \A y \in rewards : y.op = x.op => y = x

\* Below lastSeen, where no run looks again, every reward of a registered
\* recipient has its row, unless the scan skipped the operation or the
\* account was deleted.
OnlySkippedAreMissing ==
  \A i \in DOMAIN ops :
    ops[i].level < lastSeen /\ i \notin missed \cup erased => RowOf(i) # {}

\* "immutable once inserted" (the upsert's update branch): a rescan of the
\* level that two windows share, or after a failure, changes no row.
ScanKeepsRows == [][RunStep => rewards \subseteq rewards']_vars

\* A registered wallet gets the reward of an operation that the runs before and
\* the run in progress have not passed yet, once the chain is past its level,
\* or loses the account.
EligibleGetCredited ==
  \A w \in Wallet, u \in 1..MaxUsers, i \in 1..((MaxLevel - 1) * MaxPerBlock) :
    (/\ users[w] = u /\ i \in DOMAIN ops
     /\ ops[i].recipient = w /\ ops[i].baker
     /\ Frontier <= ops[i].level \/ ~Handled(i)
     /\ ops[i].level < head)
      ~> (RowOf(i) # {} \/ users[w] # u)

\* Once claimed, a row keeps its claimedOpsHash, whatever is rescanned, deleted
\* and claimed again, with the same operation or another one.  The only call
\* that can overwrite it is one that had read the row before it was claimed:
\* two claims that overlap are not kept apart (the update of claim has no
\* condition on claimed).
ClaimIsFinal ==
  [][\A x \in rewards : x.claim # NoClaim =>
       \A y \in rewards' : y.op = x.op =>
         y.claim = x.claim \/ \E r \in overlap : req[r].op = x.op /\ req'[r] = Idle]_vars
=============================================================================
