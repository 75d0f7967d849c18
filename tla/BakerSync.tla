----------------------------- MODULE BakerSync -----------------------------
(***************************************************************************)
(* The Baker table, refreshed at every tick from one snapshot of TzKT's    *)
(* delegates (BakerSync.run).  Bakers register, change their fee and are   *)
(* deactivated on the chain while a snapshot is asked for, through         *)
(* TzktClient, and its rows are written one await after the other.         *)
(***************************************************************************)
EXTENDS TzktClient, FiniteSets, SequencesExt

CONSTANTS Baker,
          Fees,         \* the fees that occur, in basis points
          NoRow,        \* the baker has no row
          SnapshotLimit,  \* delegates in one answer: 500 in the code
          MaxChanges,   \* bound: changes on the chain
          MaxAborts     \* bound: writes that fail and processes that die

ASSUME BakerAssumption == IsFiniteSet(Baker)
ASSUME FeesAssumption == Fees \subseteq Nat
ASSUME SnapshotLimitAssumption == SnapshotLimit \in Nat \ {0}

VARIABLES
  chain,      \* the delegates: active or not, and their fee
  table,      \* the Baker rows
  pc, todo,   \* BakerSync.run: its state, and the delegates still to write
  changes, aborts

vars == <<chain, table, pc, todo, changes, aborts, clientVars>>

\* The fee of a delegate that is not active is never asked for.
Retired  == [active |-> FALSE, fee |-> 0]
Delegate == [active: {TRUE}, fee: Fees] \cup {Retired}
Row      == [status: {"active", "closed"}, fee: Fees]
Item     == [pkh: Baker, active: BOOLEAN, fee: Fees]

Init ==
  /\ chain \in [Baker -> Delegate] /\ table = [b \in Baker |-> NoRow]
  /\ pc = "idle" /\ todo = <<>> /\ changes = 0 /\ aborts = 0
  /\ ClientInit

ChainChange ==
  /\ changes < MaxChanges /\ changes' = changes + 1
  /\ \E b \in Baker, d \in Delegate : chain' = [chain EXCEPT ![b] = d]
  /\ UNCHANGED <<table, pc, todo, aborts, clientVars>>

Active == {b \in Baker : chain[b].active}

\* GET /v1/delegates?active=true&limit=500: one page, in any order.
Snapshot ==
  LET item(b) == [pkh |-> b, active |-> chain[b].active, fee |-> chain[b].fee]
      page == {S \in SUBSET Active : Cardinality(S) <= SnapshotLimit
                 /\ (S = Active \/ Cardinality(S) = SnapshotLimit)}
  IN  UNION {SetToSeqs({item(b) : b \in S}) : S \in page}

FetchDelegates ==
  /\ pc = "idle" /\ pc' = "fetch" /\ CallGet
  /\ UNCHANGED <<chain, table, todo, changes, aborts>>

Fetching ==
  /\ pc = "fetch" /\ ClientStep
  /\ UNCHANGED <<chain, table, pc, todo, changes, aborts>>

GotDelegates ==
  /\ pc = "fetch" /\ pc' = "write" /\ AnswerOk
  /\ todo' \in Snapshot /\ UNCHANGED <<chain, table, changes, aborts>>

\* get throws, and BakerSync.run with it: runMain catches it.
FetchFails ==
  /\ pc = "fetch" /\ pc' = "idle" /\ ClientThrow
  /\ UNCHANGED <<chain, table, todo, changes, aborts>>

\* Baker.fee is a Decimal(5,3): three digits are after the point, two before.
Fits(fee) == fee < 100

\* Mutated form: the status in upper case, as in the other tables.
RowForUpperCase(d) == [status |-> IF d.active THEN "ACTIVE" ELSE "CLOSED",
                       fee |-> d.fee]

\* The columns that the upsert writes, on creation and on update alike.
RowFor(d) == [status |-> IF d.active THEN "active" ELSE "closed",
              fee |-> d.fee]

\* One upsert.  A fee that does not fit makes it throw, and ends the run.
UpsertBaker ==
  /\ pc = "write" /\ todo # <<>>
  /\ LET d == Head(todo)
     IN \/ /\ Fits(d.fee)
           /\ table' = [table EXCEPT ![d.pkh] = RowFor(d)]
           /\ todo' = Tail(todo) /\ UNCHANGED pc
        \/ /\ ~Fits(d.fee)
           /\ pc' = "idle" /\ todo' = <<>> /\ UNCHANGED table
  /\ UNCHANGED <<chain, changes, aborts, clientVars>>

EndRun ==
  /\ pc = "write" /\ todo = <<>>
  /\ pc' = "idle"
  /\ UNCHANGED <<chain, table, todo, changes, aborts, clientVars>>

\* The database fails, or the process dies and is started again, which takes
\* longer than the throttle and loses lastCallAt; the next tick starts over.
Abort ==
  /\ pc # "idle" /\ aborts < MaxAborts /\ aborts' = aborts + 1
  /\ pc' = "idle" /\ todo' = <<>> /\ UNCHANGED <<chain, table, changes>>
  /\ \/ pc = "write" /\ UNCHANGED clientVars
     \/ /\ phase' = "free" /\ attempt' = 0 /\ timer' = 0
        /\ since' = ThrottleUnits /\ UNCHANGED <<bad, threw>>

Tick == TimePasses /\ UNCHANGED <<chain, table, pc, todo, changes, aborts>>

RunStep == \/ FetchDelegates \/ Fetching \/ GotDelegates \/ FetchFails
           \/ UpsertBaker \/ EndRun
Next == ChainChange \/ RunStep \/ Abort \/ Tick

\* The tick loop runs BakerSync again and again (main.ts); the order of the
\* delegates in the answers is TzKT's.  fetch ends, and timers fire.
Spec == Init /\ [][Next]_vars /\ WF_vars(RunStep) /\ WF_vars(Tick)

-----------------------------------------------------------------------------
(* Properties                                                              *)

\* Every variable has its type, and get is called by the run alone.
TypeOK ==
  /\ ClientTypeOK /\ (phase # "free") = (pc = "fetch")
  /\ chain \in [Baker -> Delegate]
  /\ table \in [Baker -> Row \cup {NoRow}]
  /\ pc \in {"idle", "fetch", "write"} /\ todo \in Seq(Item)
  /\ changes \in Nat /\ aborts \in Nat
=============================================================================
