--------------------------- MODULE Clients_proof ---------------------------
(***************************************************************************)
(* Three components that are clients of somebody else's service, proved    *)
(* for every value of their constants: the baker sync with its TzktClient, *)
(* the wallet store of a page and its query cache.  They share no state    *)
(* and no step; each has its own part here.                                *)
(***************************************************************************)
EXTENDS BakerSync, WalletStore, ApiQueries, SequenceTheorems,
        FunctionTheorems, FiniteSetTheorems, TLAPS


-----------------------------------------------------------------------------
(* TzktClient and BakerSync                                                *)

\* The bad answers that the call at hand has had: as many as its requests,
\* less the one that is not answered yet.
Suffered ==
  CASE phase \in {"throttled", "backoff"} -> attempt
    [] phase = "asked" -> attempt - 1
    [] OTHER -> 0

\* A throttled call sleeps until the throttle is over; each call that threw
\* has had MaxRetries bad answers.
ClientInv ==
  /\ ClientTypeOK
  /\ phase = "throttled" => since + timer >= ThrottleUnits /\ attempt < MaxRetries
  /\ phase \in {"asked", "backoff"} => attempt >= 1
  /\ threw * MaxRetries + Suffered <= bad

BakerIInv == ClientInv /\ TypeOK

LEMMA ClientTypes ==
  ASSUME ClientInv
  PROVE  /\ MaxRetries \in Nat \ {0} /\ ThrottleUnits \in Nat
         /\ attempt \in Nat /\ timer \in Nat /\ since \in Nat /\ bad \in Nat
         /\ threw \in Nat /\ threw * MaxRetries \in Nat
         /\ attempt <= MaxRetries /\ since <= ThrottleUnits
         /\ \A a \in 1..MaxRetries : Backoff[a] \in Nat
         /\ Throttle \in Nat /\ since + Throttle >= ThrottleUnits
  <1>1. /\ MaxRetries \in Nat \ {0} /\ ThrottleUnits \in Nat
        /\ attempt \in Nat /\ timer \in Nat /\ since \in Nat /\ bad \in Nat
        /\ threw \in Nat /\ attempt <= MaxRetries /\ since <= ThrottleUnits
    BY RetriesAssumption DEF ClientInv, ClientTypeOK
  <1>2. \A a \in 1..MaxRetries : Backoff[a] \in Nat
    <2>1. Len(Backoff) \in Nat /\ MaxRetries <= Len(Backoff) /\ Backoff \in Seq(Nat)
      BY RetriesAssumption, LenProperties
    <2>2. \A a \in 1..MaxRetries : a \in 1..Len(Backoff)
      BY <1>1, <2>1
    <2> QED
      BY <2>1, <2>2, ElementOfSeq
  <1>3. Throttle \in Nat /\ since + Throttle >= ThrottleUnits
    BY <1>1 DEF Throttle
  <1>4. threw * MaxRetries \in Nat
    BY <1>1
  <1> QED
    BY <1>1, <1>2, <1>3, <1>4

\* One more call threw: MaxRetries more bad answers are accounted for.
LEMMA OneMoreThrow ==
  ASSUME NEW n \in Nat, NEW m \in Nat
  PROVE  (n + 1) * m = n * m + m
  OBVIOUS

LEMMA CallGetKeeps == ASSUME ClientInv, CallGet PROVE ClientInv'
  BY ClientTypes DEF ClientInv, ClientTypeOK, CallGet, Suffered

LEMMA AskKeeps == ASSUME ClientInv, Ask PROVE ClientInv'
  BY ClientTypes DEF ClientInv, ClientTypeOK, Ask, Suffered

LEMMA AnswerOkKeeps == ASSUME ClientInv, AnswerOk PROVE ClientInv'
  BY ClientTypes DEF ClientInv, ClientTypeOK, AnswerOk, Suffered

LEMMA AnswerBusyKeeps == ASSUME ClientInv, AnswerBusy PROVE ClientInv'
  BY ClientTypes DEF ClientInv, ClientTypeOK, AnswerBusy, CountBad, Suffered

LEMMA ThrowKeeps ==
  ASSUME ClientInv, Throw, attempt = MaxRetries, UNCHANGED <<attempt, timer, since>>,
         \/ phase = "backoff" /\ bad' = bad
         \/ phase = "asked" /\ bad' = bad + 1
  PROVE  ClientInv'
  <1>1. /\ phase' = "free" /\ threw' = threw + 1 /\ bad' \in Nat
        /\ threw' * MaxRetries = threw * MaxRetries + MaxRetries
    BY ClientTypes, OneMoreThrow DEF Throw
  <1>2. threw' * MaxRetries <= bad'
    BY <1>1, ClientTypes DEF ClientInv, Suffered
  <1>3. Suffered' = 0
    BY <1>1 DEF Suffered
  <1> QED
    BY <1>1, <1>2, <1>3, ClientTypes DEF ClientInv, ClientTypeOK

LEMMA AnswerRefusedKeeps == ASSUME ClientInv, AnswerRefused PROVE ClientInv'
  <1>1. phase = "asked" /\ bad' = bad + 1 /\ UNCHANGED <<attempt, since>>
    BY DEF AnswerRefused, CountBad
  <1>2. CASE attempt < MaxRetries /\ UNCHANGED threw /\ phase' = "backoff"
             /\ timer' = Backoff[attempt]
    BY <1>1, <1>2, ClientTypes DEF ClientInv, ClientTypeOK, Suffered
  <1>3. CASE attempt = MaxRetries /\ Throw /\ UNCHANGED timer
    BY <1>1, <1>3, ThrowKeeps
  <1> QED
    BY <1>2, <1>3 DEF AnswerRefused

LEMMA RetryKeeps == ASSUME ClientInv, Retry PROVE ClientInv'
  <1>1. phase = "backoff" /\ UNCHANGED <<attempt, since, bad>>
    BY DEF Retry
  <1>2. CASE attempt < MaxRetries /\ UNCHANGED threw /\ phase' = "throttled"
             /\ timer' = Throttle
    BY <1>1, <1>2, ClientTypes DEF ClientInv, ClientTypeOK, Suffered
  <1>3. CASE attempt = MaxRetries /\ Throw /\ UNCHANGED timer
    BY <1>1, <1>3, ThrowKeeps
  <1> QED
    BY <1>2, <1>3 DEF Retry

LEMMA TimeKeeps == ASSUME ClientInv, TimePasses PROVE ClientInv'
  BY ClientTypes DEF ClientInv, ClientTypeOK, TimePasses, Suffered

LEMMA ClientRests == ASSUME ClientInv, UNCHANGED clientVars PROVE ClientInv'
  BY DEF ClientInv, ClientTypeOK, Suffered, clientVars

\* The process dies: the call at hand is forgotten, with the last request.
LEMMA ClientForgotten ==
  ASSUME ClientInv, phase' = "free", attempt' = 0, timer' = 0, since' = ThrottleUnits,
         UNCHANGED <<bad, threw>>
  PROVE  ClientInv'
  BY ClientTypes DEF ClientInv, ClientTypeOK, Suffered

\* A snapshot is a sequence of delegates.
LEMMA SnapshotTyped == ASSUME TypeOK, NEW s \in Snapshot PROVE s \in Seq(Item)
  <1>1. PICK S \in SUBSET Active :
          s \in SetToSeqs({[pkh |-> b, active |-> chain[b].active, fee |-> chain[b].fee] :
                             b \in S})
    BY DEF Snapshot
  <1>2. PICK T : T = {[pkh |-> b, active |-> chain[b].active, fee |-> chain[b].fee] : b \in S}
    OBVIOUS
  <1>3. IsFiniteSet(S) /\ S \subseteq Baker
    BY <1>1, BakerAssumption, FS_Subset DEF Active
  <1>4. IsFiniteSet(T)
    <2>1. PICK f : f = [b \in S |-> [pkh |-> b, active |-> chain[b].active,
                                     fee |-> chain[b].fee]]
      OBVIOUS
    <2>2. f \in [S -> T] /\ \A r \in T : \E b \in S : f[b] = r
      BY <1>2, <2>1
    <2>3. f \in Surjection(S, T)
      BY <2>2, Fun_IsSurj
    <2> QED
      BY <1>3, <2>3, FS_Surjection
  <1>5. Cardinality(T) \in Nat
    BY <1>4, FS_CardinalityType
  <1>6. T \subseteq Item
    <2>1. ASSUME NEW b \in S PROVE chain[b].active = TRUE /\ chain[b].fee \in Fees
      <3>1. chain[b] \in Delegate /\ chain[b].active
        BY <1>1, <1>3 DEF TypeOK, Active
      <3>2. chain[b] # Retired
        BY <3>1 DEF Retired
      <3> QED
        BY <3>1, <3>2 DEF Delegate
    <2>2. ASSUME NEW b \in S
          PROVE  [pkh |-> b, active |-> chain[b].active, fee |-> chain[b].fee] \in Item
      BY <1>3, <2>1, <2>2 DEF Item
    <2> QED
      BY <1>2, <2>2
  <1>7. s \in [1..Cardinality(T) -> T]
    BY <1>1, <1>2 DEF SetToSeqs
  <1>8. s \in [1..Cardinality(T) -> Item]
    BY <1>6, <1>7
  <1> QED
    BY <1>5, <1>8, SeqDef

LEMMA BakerInit == Init => BakerIInv
  <1> SUFFICES ASSUME Init PROVE BakerIInv
    OBVIOUS
  <1>1. ClientInv
    BY RetriesAssumption DEF Init, ClientInit, ClientInv, ClientTypeOK, Suffered
  <1>2. TypeOK
    BY <1>1, EmptySeq DEF Init, ClientInit, TypeOK, ClientInv
  <1> QED
    BY <1>1, <1>2 DEF BakerIInv

\* The variables of the run keep their types.
RunTypes ==
  /\ chain \in [Baker -> Delegate]
  /\ table \in [Baker -> Row \cup {NoRow}]
  /\ pc \in {"idle", "fetch", "write"} /\ todo \in Seq(Item)
  /\ changes \in Nat /\ aborts \in Nat

LEMMA UpsertKeeps == ASSUME RunTypes, UpsertBaker PROVE RunTypes'
  <1>1. /\ pc = "write" /\ todo # <<>> /\ UNCHANGED <<chain, changes, aborts>>
        /\ todo \in Seq(Item)
    BY DEF UpsertBaker, RunTypes
  <1>2. PICK d \in Item : d = Head(todo)
    BY <1>1, HeadTailProperties
  <1>3. CASE /\ table' = [table EXCEPT ![d.pkh] = RowFor(d)]
             /\ todo' = Tail(todo) /\ UNCHANGED pc
    <2>1. RowFor(d) \in Row /\ d.pkh \in Baker
      BY <1>2 DEF RowFor, Row, Item
    <2>2. todo' \in Seq(Item)
      BY <1>1, <1>3, HeadTailProperties
    <2> QED
      BY <1>1, <1>3, <2>1, <2>2 DEF RunTypes
  <1>4. CASE pc' = "idle" /\ todo' = <<>> /\ UNCHANGED table
    BY <1>1, <1>4, EmptySeq DEF RunTypes
  <1> QED
    BY <1>2, <1>3, <1>4 DEF UpsertBaker

LEMMA BakerNext == BakerIInv /\ [Next]_vars => BakerIInv'
  <1> SUFFICES ASSUME BakerIInv, [Next]_vars PROVE BakerIInv'
    OBVIOUS
  <1>0. ClientInv /\ TypeOK /\ RunTypes /\ ((phase # "free") <=> (pc = "fetch"))
    BY DEF BakerIInv, TypeOK, RunTypes
  <1>1. SUFFICES ClientInv' /\ RunTypes' /\ ((phase' # "free") <=> (pc' = "fetch"))
    <2>1. ASSUME ClientInv', RunTypes', (phase' # "free") <=> (pc' = "fetch")
          PROVE  TypeOK'
      <3>1. ClientTypeOK'
        BY <2>1 DEF ClientInv
      <3>2. (phase' # "free") = (pc' = "fetch")
        BY <2>1, Zenon
      <3> QED
        BY <2>1, <3>1, <3>2 DEF TypeOK, RunTypes
    <2> QED
      BY <2>1 DEF BakerIInv
  <1>2. CASE ChainChange
    <2>1. UNCHANGED <<table, pc, todo, aborts, clientVars>> /\ changes' = changes + 1
      BY <1>2 DEF ChainChange
    <2>2. chain' \in [Baker -> Delegate] /\ changes' \in Nat
      BY <1>0, <1>2, <2>1 DEF ChainChange, RunTypes
    <2> QED
      BY <1>0, <2>1, <2>2, ClientRests DEF RunTypes, clientVars
  <1>3. CASE FetchDelegates
    BY <1>0, <1>3, CallGetKeeps DEF FetchDelegates, CallGet, RunTypes
  <1>4. CASE Fetching
    <2>1. ClientInv' /\ phase' # "free"
      BY <1>0, <1>4, AskKeeps, AnswerBusyKeeps, AnswerRefusedKeeps, RetryKeeps
         DEF Fetching, ClientStep, Ask, AnswerBusy
    <2> QED
      BY <1>0, <1>4, <2>1 DEF Fetching, RunTypes
  <1>5. CASE GotDelegates
    <2>1. ClientInv' /\ phase' = "free"
      BY <1>0, <1>5, AnswerOkKeeps DEF GotDelegates, AnswerOk
    <2>2. todo' \in Seq(Item)
      BY <1>0, <1>5, SnapshotTyped DEF GotDelegates
    <2> QED
      BY <1>0, <1>5, <2>1, <2>2 DEF GotDelegates, RunTypes
  <1>6. CASE FetchFails
    <2>1. ClientInv' /\ phase' = "free"
      BY <1>0, <1>6, AnswerRefusedKeeps, RetryKeeps DEF FetchFails, ClientThrow
    <2> QED
      BY <1>0, <1>6, <2>1 DEF FetchFails, RunTypes
  <1>7. CASE UpsertBaker
    <2>1. RunTypes' /\ UNCHANGED clientVars /\ pc = "write" /\ pc' # "fetch"
      BY <1>0, <1>7, UpsertKeeps DEF UpsertBaker
    <2> QED
      BY <1>0, <2>1, ClientRests DEF clientVars
  <1>8. CASE EndRun
    BY <1>0, <1>8, ClientRests DEF EndRun, RunTypes, clientVars
  <1>9. CASE Abort
    <2>1. RunTypes'
      <3>1. aborts' \in Nat
        BY <1>0, <1>9 DEF Abort, RunTypes
      <3> QED
        BY <1>0, <1>9, <3>1, EmptySeq DEF Abort, RunTypes
    <2>2. ClientInv' /\ phase' = "free" /\ pc' = "idle"
      <3>1. CASE pc = "write" /\ UNCHANGED clientVars
        BY <1>0, <1>9, <3>1, ClientRests DEF Abort, clientVars
      <3>2. CASE /\ phase' = "free" /\ attempt' = 0 /\ timer' = 0
                 /\ since' = ThrottleUnits /\ UNCHANGED <<bad, threw>>
        BY <1>0, <1>9, <3>2, ClientForgotten DEF Abort
      <3> QED
        BY <1>9, <3>1, <3>2 DEF Abort
    <2> QED
      BY <2>1, <2>2
  <1>10. CASE Tick
    BY <1>0, <1>10, TimeKeeps DEF Tick, TimePasses, RunTypes
  <1>11. CASE UNCHANGED vars
    BY <1>0, <1>11, ClientRests DEF vars, RunTypes, clientVars
  <1> QED
    BY <1>2, <1>3, <1>4, <1>5, <1>6, <1>7, <1>8, <1>9, <1>10, <1>11 DEF Next, RunStep

\* The inductive invariant of the baker sync and its client.
THEOREM BakerInvariance == Spec => []BakerIInv
  BY BakerInit, BakerNext, PTL DEF Spec

\* Every variable has its type, and get is called by the run alone.
THEOREM BakerTypes == Spec => []TypeOK
  <1>1. BakerIInv => TypeOK
    BY DEF BakerIInv
  <1> QED
    BY <1>1, BakerInvariance, PTL

\* get gives up only after MaxRetries bad answers: whatever the pauses and the
\* throttle are, a shorter outage costs no sync its run.
THEOREM OutagesAbsorbed == Spec => []ShortOutagesAreAbsorbed
  <1>1. BakerIInv => ShortOutagesAreAbsorbed
    <2> SUFFICES ASSUME BakerIInv PROVE ShortOutagesAreAbsorbed
      OBVIOUS
    <2>1. threw * MaxRetries + Suffered <= bad /\ threw * MaxRetries \in Nat /\ bad \in Nat
      BY ClientTypes DEF BakerIInv, ClientInv
    <2>2. Suffered \in Nat
      BY ClientTypes DEF BakerIInv, ClientInv, Suffered
    <2> QED
      BY <2>1, <2>2 DEF ShortOutagesAreAbsorbed
  <1> QED
    BY <1>1, BakerInvariance, PTL

\* "10 req/s throttle": a request goes out at least ThrottleUnits after the one
\* before, be it a retry or another call.
THEOREM RequestsSpaced == Spec => RequestsAreSpaced
  <1>1. ASSUME BakerIInv, [Next]_vars
        PROVE  [phase # "asked" /\ phase' = "asked" => since = ThrottleUnits]_clientVars
    <2>1. SUFFICES ASSUME Next, phase # "asked", phase' = "asked"
                   PROVE  since = ThrottleUnits
      BY <1>1 DEF vars, clientVars
    <2>2. Ask
      BY <2>1 DEF Next, RunStep, ChainChange, FetchDelegates, CallGet, Fetching, ClientStep,
                  AnswerBusy, AnswerRefused, Retry, Throw, GotDelegates, AnswerOk, FetchFails,
                  ClientThrow, UpsertBaker, EndRun, Abort, Tick, TimePasses, clientVars
    <2> QED
      BY <1>1, <2>2, ClientTypes DEF BakerIInv, ClientInv, Ask
  <1> QED
    BY <1>1, BakerInvariance, PTL DEF Spec, RequestsAreSpaced

-----------------------------------------------------------------------------
(* The wallet store of a page.                                             *)

Ops == {"restore", "abandoned", "connect", "disconnect", "signIn"}
Pcs == {"import", "account", "permission", "destroy", "challenge", "sign", "address"}
Calls == {"removeAllAccounts", "removeAllPeers", "disconnect"}
Task == [no : Nat, op : Ops, pc : Pcs, signer : Account \cup {None}, todo : Seq(Calls)]

\* Where each of the asynchronous functions can wait.
WaitsWell(t) ==
  /\ t.pc \in {"challenge", "sign", "address"} => t.op = "signIn"
  /\ t.pc = "permission" => t.op \in {"connect", "signIn"}
  /\ t.pc = "account" => t.op \in {"restore", "connect"}
  /\ t.pc = "destroy" => t.op = "disconnect"

\* The tasks that have yet to make an instance of the wallet, if they do.
MayImport(t) == t.pc \in {"import", "challenge"}
Importers(T) == {t \in T : MayImport(t)}

\* No page makes more instances than functions were called.
TasksInv ==
  /\ started \in Nat /\ started <= MaxTasks /\ instances \in Nat
  /\ IsFiniteSet(tasks)
  /\ \A t \in tasks : t \in Task /\ WaitsWell(t) /\ t.no \in 1..started
  /\ Cardinality(Importers(tasks)) + instances <= started

\* The store and what it shares, but for what TasksInv says.
StoreInv ==
  /\ ui \in {"idle", "restoring", "connecting", "connected", "error"}
  /\ address \in Account \cup {None} /\ paired \in Account \cup {None}
  /\ token \in Account \cup {None}
  /\ wallet \in Nat /\ wallet <= instances
  /\ flag \in BOOLEAN /\ subscribed \in BOOLEAN /\ listening \in BOOLEAN
  /\ late \in BOOLEAN /\ signingIn \in BOOLEAN /\ crashed \in BOOLEAN
  /\ ui = "connected" => address # None

PageIInv == TasksInv /\ StoreInv /\ BusyHasATask

LEMMA PageTypeOK == ASSUME TasksInv, StoreInv PROVE WalletTypeOK
  <1>1. Cardinality(Importers(tasks)) \in Nat
    BY FS_CardinalityType, FS_Subset DEF TasksInv, Importers
  <1>2. instances \in 0..MaxTasks /\ wallet \in 0..instances
    <2>1. /\ started \in Nat /\ started <= MaxTasks /\ instances \in Nat
          /\ Cardinality(Importers(tasks)) + instances <= started
          /\ wallet \in Nat /\ wallet <= instances /\ MaxTasks \in Nat
      BY TasksAssumption DEF TasksInv, StoreInv
    <2> QED
      BY <1>1, <2>1
  <1>3. {flag, subscribed, listening, late, signingIn, crashed} \subseteq BOOLEAN
    BY DEF StoreInv
  <1> QED
    BY <1>2, <1>3 DEF TasksInv, StoreInv, WalletTypeOK

\* What a step can do to the tasks: one ends, goes on, or begins.
Ends(t) == tasks' = tasks \ {t} /\ UNCHANGED started
GoesOn(t, s) == tasks' = (tasks \ {t}) \cup {s} /\ UNCHANGED started
Begins(s) == tasks' = tasks \cup {s} /\ started' = started + 1

LEMMA EndsKeeps ==
  ASSUME TasksInv, NEW t \in tasks, Ends(t),
         instances' = instances \/ (MayImport(t) /\ instances' = instances + 1)
  PROVE  TasksInv'
  <1>1. IsFiniteSet(Importers(tasks)) /\ Cardinality(Importers(tasks)) \in Nat
    BY FS_CardinalityType, FS_Subset DEF TasksInv, Importers
  <1>2. IsFiniteSet(tasks')
    BY FS_Subset DEF TasksInv, Ends
  <1>3. Importers(tasks)' = Importers(tasks) \ {t}
    BY DEF Ends, Importers
  <1>4. /\ Cardinality(Importers(tasks) \ {t}) =
             IF t \in Importers(tasks) THEN Cardinality(Importers(tasks)) - 1
             ELSE Cardinality(Importers(tasks))
    BY <1>1, FS_RemoveElement
  <1>5. MayImport(t) => t \in Importers(tasks)
    BY DEF Importers
  <1>6. Cardinality(Importers(tasks)') + instances' <= started'
    <2>1. /\ started' = started /\ instances \in Nat /\ started \in Nat
          /\ Cardinality(Importers(tasks)) + instances <= started
      BY DEF TasksInv, Ends
    <2>2. Cardinality(Importers(tasks)') = Cardinality(Importers(tasks) \ {t})
      BY <1>3
    <2> QED
      BY <1>1, <1>4, <1>5, <2>1, <2>2
  <1> QED
    BY <1>2, <1>6 DEF TasksInv, Ends

LEMMA GoesOnKeeps ==
  ASSUME TasksInv, NEW t \in tasks, NEW s \in Task, GoesOn(t, s),
         WaitsWell(s), s.no = t.no,
         \/ instances' = instances /\ (MayImport(s) => MayImport(t))
         \/ instances' = instances + 1 /\ MayImport(t) /\ ~MayImport(s)
  PROVE  TasksInv'
  <1>1. IsFiniteSet(Importers(tasks)) /\ Cardinality(Importers(tasks)) \in Nat
    BY FS_CardinalityType, FS_Subset DEF TasksInv, Importers
  <1> DEFINE Rest == Importers(tasks) \ {t}
  <1>2. IsFiniteSet(tasks')
    <2>1. IsFiniteSet(tasks \ {t})
      BY FS_Subset DEF TasksInv
    <2> QED
      BY <2>1, FS_AddElement DEF GoesOn
  <1>3. Importers(tasks)' = IF MayImport(s) THEN Rest \cup {s} ELSE Rest
    BY DEF GoesOn, Importers
  <1>4. /\ IsFiniteSet(Rest) /\ Cardinality(Rest) \in Nat
        /\ Cardinality(Rest) = IF t \in Importers(tasks) THEN Cardinality(Importers(tasks)) - 1
                               ELSE Cardinality(Importers(tasks))
    BY <1>1, FS_RemoveElement, FS_CardinalityType
  <1>5. Cardinality(Rest \cup {s}) = Cardinality(Rest)
          \/ Cardinality(Rest \cup {s}) = Cardinality(Rest) + 1
    BY <1>4, FS_AddElement
  <1>6. MayImport(t) <=> t \in Importers(tasks)
    BY DEF Importers
  <1>7. Cardinality(Importers(tasks)') + instances' <= started'
    <2> HIDE DEF Rest
    <2>1. Cardinality(Importers(tasks)') = IF MayImport(s) THEN Cardinality(Rest \cup {s})
                                           ELSE Cardinality(Rest)
      BY <1>3
    <2>2. started' = started /\ instances \in Nat /\ started \in Nat
          /\ Cardinality(Importers(tasks)) + instances <= started
      BY DEF GoesOn, TasksInv
    <2>3. CASE instances' = instances /\ (MayImport(s) => MayImport(t))
      BY <1>1, <1>4, <1>5, <1>6, <2>1, <2>2, <2>3
    <2>4. CASE instances' = instances + 1 /\ MayImport(t) /\ ~MayImport(s)
      BY <1>1, <1>4, <1>6, <2>1, <2>2, <2>4
    <2> QED
      BY <2>3, <2>4
  <1>8. \A u \in tasks' : u \in Task /\ WaitsWell(u) /\ u.no \in 1..started'
    BY DEF GoesOn, TasksInv
  <1>9. instances' \in Nat
    BY DEF TasksInv
  <1> QED
    BY <1>2, <1>7, <1>8, <1>9 DEF TasksInv, GoesOn

LEMMA BeginsKeeps ==
  ASSUME TasksInv, NEW s \in Task, Begins(s), WaitsWell(s), s.no = started',
         started < MaxTasks, instances' = instances
  PROVE  TasksInv'
  <1>1. IsFiniteSet(Importers(tasks)) /\ Cardinality(Importers(tasks)) \in Nat
    BY FS_CardinalityType, FS_Subset DEF TasksInv, Importers
  <1>2. IsFiniteSet(tasks')
    BY FS_AddElement DEF TasksInv, Begins
  <1>3. Importers(tasks)' = IF MayImport(s) THEN Importers(tasks) \cup {s}
                            ELSE Importers(tasks)
    BY DEF Begins, Importers
  <1>4. Cardinality(Importers(tasks) \cup {s}) = Cardinality(Importers(tasks))
          \/ Cardinality(Importers(tasks) \cup {s}) = Cardinality(Importers(tasks)) + 1
    BY <1>1, FS_AddElement
  <1>5. /\ started' = started + 1 /\ started \in Nat /\ instances \in Nat
        /\ Cardinality(Importers(tasks)) + instances <= started
    BY DEF Begins, TasksInv
  <1>6. Cardinality(Importers(tasks)') + instances' <= started'
    BY <1>1, <1>3, <1>4, <1>5
  <1>7. 1..started \subseteq 1..started' /\ started' \in 1..started'
    BY <1>5
  <1>8. \A u \in tasks' : u \in Task /\ WaitsWell(u) /\ u.no \in 1..started'
    BY <1>7 DEF Begins, TasksInv
  <1> QED
    BY <1>2, <1>5, <1>6, <1>8, TasksAssumption DEF TasksInv

\* The next place of a task.
LEMMA NextTask ==
  ASSUME NEW t \in Task, NEW place \in Pcs
  PROVE  /\ [t EXCEPT !.pc = place] \in Task
         /\ [t EXCEPT !.pc = place].pc = place
         /\ [t EXCEPT !.pc = place].op = t.op /\ [t EXCEPT !.pc = place].no = t.no
  BY DEF Task

\* destroy goes on to its next call.
LEMMA NextCall ==
  ASSUME NEW t \in Task, t.todo # <<>>
  PROVE  /\ [t EXCEPT !.todo = Tail(@)] \in Task
         /\ [t EXCEPT !.todo = Tail(@)].pc = t.pc
         /\ [t EXCEPT !.todo = Tail(@)].op = t.op /\ [t EXCEPT !.todo = Tail(@)].no = t.no
  <1>1. Tail(t.todo) \in Seq(Calls)
    BY HeadTailProperties DEF Task
  <1> QED
    BY <1>1 DEF Task

\* A store that is not waiting for anything.
Quiet == ui \notin {"connecting", "restoring"}

\* The flag of the sign-in is the presence of one.
LEMMA BusyRests ==
  ASSUME BusyHasATask, UNCHANGED <<tasks, signingIn>>,
         UNCHANGED ui \/ Quiet', crashed => crashed'
  PROVE  BusyHasATask'
  BY DEF BusyHasATask, Quiet

LEMMA BusyGoesOn ==
  ASSUME BusyHasATask, NEW t \in tasks, NEW s, GoesOn(t, s), UNCHANGED signingIn,
         UNCHANGED ui \/ Quiet', crashed => crashed',
         s.op = t.op \/ (t.op = "restore" /\ s.op = "abandoned" /\ Quiet')
  PROVE  BusyHasATask'
  <1>1. ui' = "connecting" => \E u \in tasks' : u.op = "connect"
    BY DEF BusyHasATask, Quiet, GoesOn
  <1>2. ui' = "restoring" => crashed' \/ \E u \in tasks' : u.op = "restore"
    BY DEF BusyHasATask, Quiet, GoesOn
  <1>3. \A u, v \in tasks' : u.op = "signIn" /\ v.op = "signIn" => u = v /\ signingIn'
    <2>1. CASE s.op = t.op
      BY <2>1 DEF BusyHasATask, GoesOn
    <2>2. CASE s.op = "abandoned"
      BY <2>2 DEF BusyHasATask, GoesOn
    <2> QED
      BY <2>1, <2>2
  <1>4. signingIn' => \E u \in tasks' : u.op = "signIn"
    BY DEF BusyHasATask, GoesOn
  <1> QED
    BY <1>1, <1>2, <1>3, <1>4 DEF BusyHasATask

LEMMA BusyEnds ==
  ASSUME BusyHasATask, NEW t \in tasks, Ends(t),
         UNCHANGED ui \/ Quiet', crashed => crashed',
         t.op = "connect" => Quiet', t.op = "restore" => Quiet' \/ crashed',
         t.op = "signIn" => ~signingIn', t.op # "signIn" => UNCHANGED signingIn
  PROVE  BusyHasATask'
  <1>1. ui' = "connecting" => \E u \in tasks' : u.op = "connect"
    BY DEF BusyHasATask, Quiet, Ends
  <1>2. ui' = "restoring" => crashed' \/ \E u \in tasks' : u.op = "restore"
    BY DEF BusyHasATask, Quiet, Ends
  <1>3. \A u, v \in tasks' : u.op = "signIn" /\ v.op = "signIn" => u = v /\ signingIn'
    BY DEF BusyHasATask, Ends
  <1>4. signingIn' => \E u \in tasks' : u.op = "signIn"
    BY DEF BusyHasATask, Ends
  <1> QED
    BY <1>1, <1>2, <1>3, <1>4 DEF BusyHasATask

LEMMA BusyBegins ==
  ASSUME BusyHasATask, NEW s, Begins(s), UNCHANGED crashed,
         \/ Quiet'
         \/ s.op = "connect" /\ ui' = "connecting"
         \/ s.op = "restore" /\ ui' = "restoring",
         s.op # "signIn" => UNCHANGED signingIn,
         s.op = "signIn" => ~signingIn /\ signingIn'
  PROVE  BusyHasATask'
  <1>1. ui' = "connecting" => \E u \in tasks' : u.op = "connect"
    BY DEF Quiet, Begins
  <1>2. ui' = "restoring" => crashed' \/ \E u \in tasks' : u.op = "restore"
    BY DEF Quiet, Begins
  <1>3. \A u, v \in tasks' : u.op = "signIn" /\ v.op = "signIn" => u = v /\ signingIn'
    BY DEF BusyHasATask, Begins
  <1>4. signingIn' => \E u \in tasks' : u.op = "signIn"
    BY DEF BusyHasATask, Begins
  <1> QED
    BY <1>1, <1>2, <1>3, <1>4 DEF BusyHasATask

\* A call begins at its first await.
LEMMA BeginBegins ==
  ASSUME TasksInv, NEW op \in Ops, NEW place \in Pcs, Begin(op, place),
         UNCHANGED instances,
         \A s \in Task : s.op = op /\ s.pc = place => WaitsWell(s)
  PROVE  TasksInv' /\ \E s \in Task : Begins(s) /\ s.op = op
  <1>1. PICK s : s = [no |-> started', op |-> op, pc |-> place, signer |-> None, todo |-> <<>>]
    OBVIOUS
  <1>2. started < MaxTasks /\ started' = started + 1 /\ tasks' = tasks \cup {s}
    BY <1>1 DEF Begin
  <1>3. started' \in Nat
    BY <1>2 DEF TasksInv
  <1>4. s \in Task /\ s.no = started' /\ s.op = op /\ s.pc = place
    BY <1>1, <1>3, EmptySeq DEF Task
  <1>5. Begins(s)
    BY <1>2 DEF Begins
  <1>6. WaitsWell(s)
    BY <1>4
  <1> QED
    BY <1>2, <1>4, <1>5, <1>6, BeginsKeeps

LEMMA DestroyTyped == DestroyCalls \in Seq(Calls)
  <1>1. DestroyCalls \in [1..3 -> Calls]
    BY DEF DestroyCalls, Calls
  <1> QED
    BY <1>1, SeqDef

LEMMA RestoreKeeps ==
  ASSUME PageIInv, Restore PROVE PageIInv'
  <1>1. PICK place : place = Obtained("account")
    OBVIOUS
  <1>2. place \in {"import", "account"}
    BY <1>1 DEF Obtained
  <1>3. Begin("restore", place) /\ ui' = "restoring" /\ UNCHANGED <<instances, crashed, signingIn>>
    BY <1>1 DEF Restore, beacon, authStore
  <1>4. TasksInv' /\ \E s \in Task : Begins(s) /\ s.op = "restore"
    <2>1. \A s \in Task : s.op = "restore" /\ s.pc = place => WaitsWell(s)
      BY <1>2 DEF WaitsWell
    <2> QED
      BY <1>2, <1>3, <2>1, BeginBegins DEF PageIInv, Ops, Pcs
  <1>5. StoreInv'
    BY DEF PageIInv, StoreInv, Restore, beacon, authStore
  <1>6. BusyHasATask'
    BY <1>3, <1>4, BusyBegins DEF PageIInv
  <1> QED
    BY <1>4, <1>5, <1>6 DEF PageIInv

LEMMA ConnectKeeps ==
  ASSUME PageIInv, Connect PROVE PageIInv'
  <1>1. PICK place : place = Obtained("permission")
    OBVIOUS
  <1>2. place \in {"import", "permission"}
    BY <1>1 DEF Obtained
  <1>3. Begin("connect", place) /\ ui' = "connecting" /\ UNCHANGED <<instances, crashed, signingIn>>
    BY <1>1 DEF Connect, beacon, authStore
  <1>4. TasksInv' /\ \E s \in Task : Begins(s) /\ s.op = "connect"
    <2>1. \A s \in Task : s.op = "connect" /\ s.pc = place => WaitsWell(s)
      BY <1>2 DEF WaitsWell
    <2> QED
      BY <1>2, <1>3, <2>1, BeginBegins DEF PageIInv, Ops, Pcs
  <1>5. StoreInv'
    BY DEF PageIInv, StoreInv, Connect, beacon, authStore
  <1>6. BusyHasATask'
    BY <1>3, <1>4, BusyBegins DEF PageIInv
  <1> QED
    BY <1>4, <1>5, <1>6 DEF PageIInv

LEMMA SignInKeeps ==
  ASSUME PageIInv, SignIn PROVE PageIInv'
  <1>1. /\ Begin("signIn", "challenge") /\ ui' = ui /\ ui = "connected"
        /\ ~signingIn /\ signingIn' /\ UNCHANGED <<instances, crashed>>
    BY DEF SignIn, beacon, store
  <1>2. TasksInv' /\ \E s \in Task : Begins(s) /\ s.op = "signIn"
    <2>1. \A s \in Task : s.op = "signIn" /\ s.pc = "challenge" => WaitsWell(s)
      BY DEF WaitsWell
    <2> QED
      BY <1>1, <2>1, BeginBegins DEF PageIInv, Ops, Pcs
  <1>3. StoreInv'
    BY DEF PageIInv, StoreInv, SignIn, beacon, store
  <1>4. Quiet'
    BY <1>1 DEF Quiet
  <1>5. BusyHasATask'
    BY <1>1, <1>2, <1>4, BusyBegins DEF PageIInv
  <1> QED
    BY <1>2, <1>3, <1>5 DEF PageIInv

LEMMA DisconnectKeeps ==
  ASSUME PageIInv, Disconnect PROVE PageIInv'
  <1>1. PICK place : place = Obtained("destroy")
    OBVIOUS
  <1>2. place \in {"import", "destroy"}
    BY <1>1 DEF Obtained
  <1>3. PICK left : left = IF wallet = 0 THEN <<>> ELSE DestroyCalls
    OBVIOUS
  <1>4. left \in Seq(Calls)
    BY <1>3, EmptySeq, DestroyTyped
  <1>5. PICK s : s = [no |-> started', op |-> "disconnect", pc |-> place, signer |-> None,
                      todo |-> left]
    OBVIOUS
  <1>6. /\ started < MaxTasks /\ started' = started + 1 /\ tasks' = tasks \cup {s}
        /\ ui = "connected" /\ UNCHANGED <<ui, instances, signingIn, crashed>>
    BY <1>1, <1>3, <1>5 DEF Disconnect, store, beacon, authStore
  <1>7. started' \in Nat
    BY <1>6 DEF PageIInv, TasksInv
  <1>8. s \in Task /\ s.no = started' /\ s.op = "disconnect" /\ s.pc = place
    BY <1>2, <1>4, <1>5, <1>7 DEF Task, Ops, Pcs
  <1>9. Begins(s) /\ WaitsWell(s) /\ Quiet'
    BY <1>2, <1>6, <1>8 DEF Begins, WaitsWell, Quiet
  <1>10. TasksInv'
    BY <1>6, <1>8, <1>9, BeginsKeeps DEF PageIInv
  <1>11. BusyHasATask'
    BY <1>6, <1>8, <1>9, BusyBegins DEF PageIInv
  <1>12. StoreInv'
    BY DEF PageIInv, StoreInv, Disconnect, store, beacon, authStore
  <1> QED
    BY <1>10, <1>11, <1>12 DEF PageIInv

LEMMA GotAccountKeeps ==
  ASSUME PageIInv, NEW t \in tasks, GotAccount(t) PROVE PageIInv'
  <1>1. Ends(t) /\ UNCHANGED instances
    BY DEF GotAccount, End, Ends, beacon
  <1>2. TasksInv'
    BY <1>1, EndsKeeps DEF PageIInv
  <1>3. StoreInv'
    BY DEF PageIInv, StoreInv, GotAccount, store, beacon, authStore
  <1>4. /\ UNCHANGED ui \/ Quiet'
        /\ crashed => crashed'
        /\ t.op = "connect" => Quiet'
        /\ t.op = "restore" => Quiet' \/ crashed'
        /\ t.op = "signIn" => ~signingIn'
        /\ t.op # "signIn" => UNCHANGED signingIn
    BY DEF PageIInv, TasksInv, WaitsWell, Quiet, GotAccount, store, authStore
  <1>5. BusyHasATask'
    BY <1>1, <1>4, BusyEnds DEF PageIInv
  <1> QED
    BY <1>2, <1>3, <1>5 DEF PageIInv

LEMMA RestoreThrowsKeeps ==
  ASSUME PageIInv, NEW t \in tasks, RestoreThrows(t) PROVE PageIInv'
  <1>1. Ends(t) /\ UNCHANGED instances
    BY DEF RestoreThrows, End, Ends, beacon
  <1>2. TasksInv'
    BY <1>1, EndsKeeps DEF PageIInv
  <1>3. StoreInv'
    BY DEF PageIInv, StoreInv, RestoreThrows, store, beacon, authStore
  <1>4. /\ UNCHANGED ui \/ Quiet'
        /\ crashed => crashed'
        /\ t.op = "connect" => Quiet'
        /\ t.op = "restore" => Quiet' \/ crashed'
        /\ t.op = "signIn" => ~signingIn'
        /\ t.op # "signIn" => UNCHANGED signingIn
    BY DEF PageIInv, TasksInv, WaitsWell, Quiet, RestoreThrows, store, authStore
  <1>5. BusyHasATask'
    BY <1>1, <1>4, BusyEnds DEF PageIInv
  <1> QED
    BY <1>2, <1>3, <1>5 DEF PageIInv

LEMMA ConnectThrowsKeeps ==
  ASSUME PageIInv, NEW t \in tasks, ConnectThrows(t) PROVE PageIInv'
  <1>1. Ends(t) /\ UNCHANGED instances
    BY DEF ConnectThrows, End, Ends, beacon
  <1>2. TasksInv'
    BY <1>1, EndsKeeps DEF PageIInv
  <1>3. StoreInv'
    BY DEF PageIInv, StoreInv, ConnectThrows, store, beacon, authStore
  <1>4. /\ UNCHANGED ui \/ Quiet'
        /\ crashed => crashed'
        /\ t.op = "connect" => Quiet'
        /\ t.op = "restore" => Quiet' \/ crashed'
        /\ t.op = "signIn" => ~signingIn'
        /\ t.op # "signIn" => UNCHANGED signingIn
    BY DEF PageIInv, TasksInv, WaitsWell, Quiet, ConnectThrows, store, authStore
  <1>5. BusyHasATask'
    BY <1>1, <1>4, BusyEnds DEF PageIInv
  <1> QED
    BY <1>2, <1>3, <1>5 DEF PageIInv

LEMMA DisconnectDoneKeeps ==
  ASSUME PageIInv, NEW t \in tasks, DisconnectDone(t) PROVE PageIInv'
  <1>1. Ends(t) /\ UNCHANGED instances
    BY DEF DisconnectDone, End, Ends, beacon, DropWallet
  <1>2. TasksInv'
    BY <1>1, EndsKeeps DEF PageIInv
  <1>3. StoreInv'
    <2>1. wallet' \in Nat /\ wallet' <= instances'
      BY <1>1 DEF PageIInv, TasksInv, DisconnectDone, DropWallet
    <2> QED
      BY <2>1 DEF PageIInv, StoreInv, DisconnectDone, authStore, DropWallet, Idle
  <1>4. /\ UNCHANGED ui \/ Quiet'
        /\ crashed => crashed'
        /\ t.op = "connect" => Quiet'
        /\ t.op = "restore" => Quiet' \/ crashed'
        /\ t.op = "signIn" => ~signingIn'
        /\ t.op # "signIn" => UNCHANGED signingIn
    BY DEF PageIInv, TasksInv, WaitsWell, Quiet, DisconnectDone, store, authStore, Idle
  <1>5. BusyHasATask'
    BY <1>1, <1>4, BusyEnds DEF PageIInv
  <1> QED
    BY <1>2, <1>3, <1>5 DEF PageIInv

LEMMA VerifyKeeps ==
  ASSUME PageIInv, NEW t \in tasks, Verify(t) PROVE PageIInv'
  <1>1. Ends(t) /\ UNCHANGED instances
    BY DEF Verify, End, Ends, beacon
  <1>2. TasksInv'
    BY <1>1, EndsKeeps DEF PageIInv
  <1>3. StoreInv'
    BY DEF PageIInv, StoreInv, Verify, store, beacon, authStore
  <1>4. /\ UNCHANGED ui \/ Quiet'
        /\ crashed => crashed'
        /\ t.op = "connect" => Quiet'
        /\ t.op = "restore" => Quiet' \/ crashed'
        /\ t.op = "signIn" => ~signingIn'
        /\ t.op # "signIn" => UNCHANGED signingIn
    BY DEF PageIInv, TasksInv, WaitsWell, Quiet, Verify, store, authStore
  <1>5. BusyHasATask'
    BY <1>1, <1>4, BusyEnds DEF PageIInv
  <1> QED
    BY <1>2, <1>3, <1>5 DEF PageIInv

LEMMA SignInFailsKeeps ==
  ASSUME PageIInv, NEW t \in tasks, SignInFails(t) PROVE PageIInv'
  <1>1. Ends(t) /\ UNCHANGED instances
    BY DEF SignInFails, End, Ends, beacon
  <1>2. TasksInv'
    BY <1>1, EndsKeeps DEF PageIInv
  <1>3. StoreInv'
    BY DEF PageIInv, StoreInv, SignInFails, store, beacon, authStore
  <1>4. /\ UNCHANGED ui \/ Quiet'
        /\ crashed => crashed'
        /\ t.op = "connect" => Quiet'
        /\ t.op = "restore" => Quiet' \/ crashed'
        /\ t.op = "signIn" => ~signingIn'
        /\ t.op # "signIn" => UNCHANGED signingIn
    BY DEF PageIInv, TasksInv, WaitsWell, Quiet, SignInFails, store, authStore
  <1>5. BusyHasATask'
    BY <1>1, <1>4, BusyEnds DEF PageIInv
  <1> QED
    BY <1>2, <1>3, <1>5 DEF PageIInv

LEMMA AbandonedFailsKeeps ==
  ASSUME PageIInv, NEW t \in tasks, AbandonedFails(t) PROVE PageIInv'
  <1>1. Ends(t) /\ UNCHANGED instances
    BY DEF AbandonedFails, End, Ends, beacon
  <1>2. TasksInv'
    BY <1>1, EndsKeeps DEF PageIInv
  <1>3. StoreInv'
    BY DEF PageIInv, StoreInv, AbandonedFails, store, beacon, authStore
  <1>4. /\ UNCHANGED ui \/ Quiet'
        /\ crashed => crashed'
        /\ t.op = "connect" => Quiet'
        /\ t.op = "restore" => Quiet' \/ crashed'
        /\ t.op = "signIn" => ~signingIn'
        /\ t.op # "signIn" => UNCHANGED signingIn
    BY DEF PageIInv, TasksInv, WaitsWell, Quiet, AbandonedFails, store, authStore
  <1>5. BusyHasATask'
    BY <1>1, <1>4, BusyEnds DEF PageIInv
  <1> QED
    BY <1>2, <1>3, <1>5 DEF PageIInv

LEMMA PermitKeeps ==
  ASSUME PageIInv, NEW t \in tasks, Permit(t) PROVE PageIInv'
  <1>1. t \in Task /\ WaitsWell(t)
    BY DEF PageIInv, TasksInv
  <1>2. PICK s : s = [t EXCEPT !.pc = IF t.op = "connect" THEN "account" ELSE "sign"]
    OBVIOUS
  <1>3. /\ s \in Task /\ s.op = t.op /\ s.no = t.no
        /\ s.pc = IF t.op = "connect" THEN "account" ELSE "sign"
    <2>1. PICK place : place = IF t.op = "connect" THEN "account" ELSE "sign"
      OBVIOUS
    <2>2. place \in Pcs
      BY <2>1 DEF Pcs
    <2> QED
      BY <1>1, <1>2, <2>1, <2>2, NextTask
  <1>4. GoesOn(t, s) /\ UNCHANGED <<instances, ui, crashed, signingIn>>
    BY <1>2 DEF Permit, Goto, GoesOn, store, beacon, authStore
  <1>5. WaitsWell(s) /\ (MayImport(s) => MayImport(t))
    BY <1>1, <1>3 DEF Permit, WaitsWell, MayImport, Obtained
  <1>6. TasksInv'
    BY <1>3, <1>4, <1>5, GoesOnKeeps DEF PageIInv
  <1>7. StoreInv'
    BY DEF PageIInv, StoreInv, Permit, store, beacon, authStore
  <1>8. BusyHasATask'
    BY <1>3, <1>4, BusyGoesOn DEF PageIInv
  <1> QED
    BY <1>6, <1>7, <1>8 DEF PageIInv

LEMMA GotChallengeKeeps ==
  ASSUME PageIInv, NEW t \in tasks, GotChallenge(t) PROVE PageIInv'
  <1>1. t \in Task /\ WaitsWell(t)
    BY DEF PageIInv, TasksInv
  <1>2. PICK s : s = [t EXCEPT !.pc = Obtained("permission")]
    OBVIOUS
  <1>3. /\ s \in Task /\ s.op = t.op /\ s.no = t.no
        /\ s.pc = Obtained("permission")
    <2>1. PICK place : place = Obtained("permission")
      OBVIOUS
    <2>2. place \in Pcs
      BY <2>1 DEF Pcs, Obtained
    <2> QED
      BY <1>1, <1>2, <2>1, <2>2, NextTask
  <1>4. GoesOn(t, s) /\ UNCHANGED <<instances, ui, crashed, signingIn>>
    BY <1>2 DEF GotChallenge, Goto, GoesOn, store, beacon, authStore
  <1>5. WaitsWell(s) /\ (MayImport(s) => MayImport(t))
    BY <1>1, <1>3 DEF GotChallenge, WaitsWell, MayImport, Obtained
  <1>6. TasksInv'
    BY <1>3, <1>4, <1>5, GoesOnKeeps DEF PageIInv
  <1>7. StoreInv'
    BY DEF PageIInv, StoreInv, GotChallenge, store, beacon, authStore
  <1>8. BusyHasATask'
    BY <1>3, <1>4, BusyGoesOn DEF PageIInv
  <1> QED
    BY <1>6, <1>7, <1>8 DEF PageIInv

LEMMA SignKeeps ==
  ASSUME PageIInv, NEW t \in tasks, Sign(t) PROVE PageIInv'
  <1>1. t \in Task /\ WaitsWell(t)
    BY DEF PageIInv, TasksInv
  <1>2. PICK s : s = [t EXCEPT !.pc = "address", !.signer = paired]
    OBVIOUS
  <1>3. /\ s \in Task /\ s.op = t.op /\ s.no = t.no
        /\ s.pc = "address"
    BY <1>1, <1>2 DEF Task, Pcs, PageIInv, StoreInv
  <1>4. GoesOn(t, s) /\ UNCHANGED <<instances, ui, crashed, signingIn>>
    BY <1>2 DEF Sign, Goto, GoesOn, store, beacon, authStore
  <1>5. WaitsWell(s) /\ (MayImport(s) => MayImport(t))
    BY <1>1, <1>3 DEF Sign, WaitsWell, MayImport, Obtained
  <1>6. TasksInv'
    BY <1>3, <1>4, <1>5, GoesOnKeeps DEF PageIInv
  <1>7. StoreInv'
    BY DEF PageIInv, StoreInv, Sign, store, beacon, authStore
  <1>8. BusyHasATask'
    BY <1>3, <1>4, BusyGoesOn DEF PageIInv
  <1> QED
    BY <1>6, <1>7, <1>8 DEF PageIInv

LEMMA BeaconReturnsKeeps ==
  ASSUME PageIInv, NEW t \in tasks, BeaconReturns(t) PROVE PageIInv'
  <1>1. t \in Task /\ WaitsWell(t)
    BY DEF PageIInv, TasksInv
  <1>2. PICK s : s = [t EXCEPT !.todo = Tail(@)]
    OBVIOUS
  <1>3. /\ s \in Task /\ s.op = t.op /\ s.no = t.no
        /\ s.pc = t.pc
    BY <1>1, <1>2, NextCall DEF BeaconReturns
  <1>4. GoesOn(t, s) /\ UNCHANGED <<instances, ui, crashed, signingIn>>
    BY <1>2 DEF BeaconReturns, Goto, GoesOn, store, beacon, authStore
  <1>5. WaitsWell(s) /\ (MayImport(s) => MayImport(t))
    BY <1>1, <1>3 DEF BeaconReturns, WaitsWell, MayImport, Obtained
  <1>6. TasksInv'
    BY <1>3, <1>4, <1>5, GoesOnKeeps DEF PageIInv
  <1>7. StoreInv'
    BY DEF PageIInv, StoreInv, BeaconReturns, store, beacon, authStore
  <1>8. BusyHasATask'
    BY <1>3, <1>4, BusyGoesOn DEF PageIInv
  <1> QED
    BY <1>6, <1>7, <1>8 DEF PageIInv

LEMMA SafeBeaconCallKeeps ==
  ASSUME PageIInv, NEW t \in tasks, SafeBeaconCall(t) PROVE PageIInv'
  <1>1. t \in Task /\ WaitsWell(t)
    BY DEF PageIInv, TasksInv
  <1>2. PICK s : s = [t EXCEPT !.todo = Tail(@)]
    OBVIOUS
  <1>3. /\ s \in Task /\ s.op = t.op /\ s.no = t.no
        /\ s.pc = t.pc
    BY <1>1, <1>2, NextCall DEF SafeBeaconCall
  <1>4. GoesOn(t, s) /\ UNCHANGED <<instances, ui, crashed, signingIn>>
    BY <1>2 DEF SafeBeaconCall, Goto, GoesOn, store, beacon, authStore
  <1>5. WaitsWell(s) /\ (MayImport(s) => MayImport(t))
    BY <1>1, <1>3 DEF SafeBeaconCall, WaitsWell, MayImport, Obtained
  <1>6. TasksInv'
    BY <1>3, <1>4, <1>5, GoesOnKeeps DEF PageIInv
  <1>7. StoreInv'
    BY DEF PageIInv, StoreInv, SafeBeaconCall, store, beacon, authStore
  <1>8. BusyHasATask'
    BY <1>3, <1>4, BusyGoesOn DEF PageIInv
  <1> QED
    BY <1>6, <1>7, <1>8 DEF PageIInv

LEMMA RestoreTimeoutKeeps ==
  ASSUME PageIInv, NEW t \in tasks, RestoreTimeout(t) PROVE PageIInv'
  <1>1. t \in Task /\ WaitsWell(t) /\ t.op = "restore" /\ t.pc = "import"
    BY DEF PageIInv, TasksInv, RestoreTimeout
  <1>2. PICK s : s = [t EXCEPT !.op = "abandoned"]
    OBVIOUS
  <1>3. s \in Task /\ s.op = "abandoned" /\ s.no = t.no /\ s.pc = "import"
    BY <1>1, <1>2 DEF Task, Ops
  <1>4. GoesOn(t, s) /\ UNCHANGED <<instances, crashed, signingIn>> /\ Quiet'
    BY <1>2 DEF RestoreTimeout, GoesOn, beacon, authStore, Quiet
  <1>5. WaitsWell(s) /\ MayImport(t)
    BY <1>1, <1>3 DEF WaitsWell, MayImport
  <1>6. TasksInv'
    BY <1>3, <1>4, <1>5, GoesOnKeeps DEF PageIInv
  <1>7. StoreInv'
    BY DEF PageIInv, StoreInv, RestoreTimeout, beacon, authStore
  <1>8. BusyHasATask'
    BY <1>1, <1>3, <1>4, BusyGoesOn DEF PageIInv
  <1> QED
    BY <1>6, <1>7, <1>8 DEF PageIInv

\* The task that has imported the SDK makes one instance more.
LEMMA CreateInstanceKeeps ==
  ASSUME PageIInv, NEW t \in tasks, CreateInstance(t) PROVE PageIInv'
  <1>1. t \in Task /\ WaitsWell(t) /\ t.pc = "import" /\ MayImport(t)
    BY DEF PageIInv, TasksInv, CreateInstance, MayImport
  <1>2. instances' = instances + 1 /\ wallet' = instances' /\ UNCHANGED <<ui, crashed, signingIn>>
    BY DEF CreateInstance, store, authStore
  <1>3. StoreInv'
    <2>1. wallet' \in Nat /\ wallet' <= instances'
      BY <1>2 DEF PageIInv, TasksInv
    <2> QED
      BY <2>1 DEF PageIInv, StoreInv, CreateInstance, store, authStore
  <1>4. CASE t.op = "abandoned"
    <2>1. Ends(t)
      BY <1>4 DEF CreateInstance, End, Ends
    <2>2. TasksInv'
      BY <1>1, <1>2, <2>1, EndsKeeps DEF PageIInv
    <2>3. BusyHasATask'
      BY <1>2, <1>4, <2>1, BusyEnds DEF PageIInv
    <2> QED
      BY <1>3, <2>2, <2>3 DEF PageIInv
  <1>5. CASE t.op # "abandoned"
    <2>1. PICK left : left = IF t.op = "disconnect" THEN DestroyCalls ELSE <<>>
      OBVIOUS
    <2>2. left \in Seq(Calls)
      BY <2>1, EmptySeq, DestroyTyped
    <2>3. PICK place : place = AfterWallet(t.op)
      OBVIOUS
    <2>4. /\ t.op = "restore" => place = "account"
          /\ t.op \in {"connect", "signIn"} => place = "permission"
          /\ t.op = "disconnect" => place = "destroy"
      BY <2>3 DEF AfterWallet
    <2>5. place \in Pcs /\ place \notin {"import", "challenge", "sign", "address"}
      BY <1>1, <1>5, <2>4 DEF Task, Ops, Pcs
    <2>6. PICK s : s = [t EXCEPT !.pc = place, !.todo = left]
      OBVIOUS
    <2>7. s \in Task /\ s.op = t.op /\ s.no = t.no /\ s.pc = place
      BY <1>1, <2>2, <2>5, <2>6 DEF Task
    <2>8. GoesOn(t, s)
      BY <1>5, <2>1, <2>3, <2>6 DEF CreateInstance, GoesOn
    <2>9. WaitsWell(s) /\ ~MayImport(s)
      BY <1>1, <1>5, <2>4, <2>5, <2>7 DEF WaitsWell, MayImport, Task, Ops
    <2>10. TasksInv'
      BY <1>1, <1>2, <2>7, <2>8, <2>9, GoesOnKeeps DEF PageIInv
    <2>11. BusyHasATask'
      BY <1>2, <2>7, <2>8, BusyGoesOn DEF PageIInv
    <2> QED
      BY <1>3, <2>10, <2>11 DEF PageIInv
  <1> QED
    BY <1>4, <1>5

LEMMA HandleExternalDisconnectKeeps ==
  ASSUME PageIInv, HandleExternalDisconnect PROVE PageIInv'
  <1>1. UNCHANGED <<tasks, started, instances, crashed, signingIn>> /\ Quiet'
    BY DEF HandleExternalDisconnect, DropWallet, Idle, authStore, Quiet
  <1>2. TasksInv'
    BY <1>1 DEF PageIInv, TasksInv
  <1>3. StoreInv'
    <2>1. wallet' \in Nat /\ wallet' <= instances'
      BY <1>1 DEF PageIInv, TasksInv, HandleExternalDisconnect, DropWallet
    <2> QED
      BY <2>1 DEF PageIInv, StoreInv, HandleExternalDisconnect, DropWallet, Idle,
                  authStore
  <1> QED
    BY <1>1, <1>2, <1>3, BusyRests DEF PageIInv

LEMMA LateCallKeeps == ASSUME PageIInv, LateCall PROVE PageIInv'
  <1>1. UNCHANGED <<tasks, started, instances, crashed, signingIn, ui>>
    BY DEF LateCall, store, beacon, authStore
  <1>2. TasksInv'
    BY <1>1 DEF PageIInv, TasksInv
  <1>3. StoreInv'
    BY DEF PageIInv, StoreInv, LateCall, store, beacon, authStore
  <1> QED
    BY <1>1, <1>2, <1>3, BusyRests DEF PageIInv

LEMMA SignOutKeeps == ASSUME PageIInv, SignOut PROVE PageIInv'
  <1>1. UNCHANGED <<tasks, started, instances, crashed, signingIn, ui>>
    BY DEF SignOut, store, beacon
  <1>2. TasksInv'
    BY <1>1 DEF PageIInv, TasksInv
  <1>3. StoreInv'
    BY DEF PageIInv, StoreInv, SignOut, store, beacon
  <1> QED
    BY <1>1, <1>2, <1>3, BusyRests DEF PageIInv

\* A page without tasks.
LEMMA NoTasks ==
  ASSUME tasks = {}, instances = 0, started \in Nat, started <= MaxTasks,
         ui = "idle", ~signingIn
  PROVE  TasksInv /\ BusyHasATask
  <1>1. Importers(tasks) = {}
    BY DEF Importers
  <1>2. Cardinality(Importers(tasks)) = 0 /\ IsFiniteSet(tasks)
    BY <1>1, FS_EmptySet
  <1>3. TasksInv
    BY <1>2 DEF TasksInv
  <1> QED
    BY <1>3 DEF BusyHasATask

LEMMA ReloadKeeps == ASSUME PageIInv, Reload PROVE PageIInv'
  <1>1. /\ tasks' = {} /\ instances' = 0 /\ UNCHANGED started /\ ui' = "idle"
        /\ ~signingIn'
    BY DEF Reload, Idle
  <1>2. TasksInv' /\ BusyHasATask'
    <2>1. Importers(tasks)' = {}
      BY <1>1 DEF Importers
    <2>2. Cardinality(Importers(tasks)') = 0 /\ IsFiniteSet(tasks')
      BY <1>1, <2>1, FS_EmptySet
    <2>3. TasksInv'
      BY <1>1, <2>2 DEF PageIInv, TasksInv
    <2> QED
      BY <1>1, <2>3 DEF BusyHasATask
  <1>3. StoreInv'
    <2>1. wallet' \in Nat /\ wallet' <= instances'
      BY <1>1 DEF Reload
    <2> QED
      BY <2>1 DEF PageIInv, StoreInv, Reload, Idle
  <1> QED
    BY <1>2, <1>3 DEF PageIInv

\* The store, its tasks and the types of both survive every step of the page.
THEOREM PageInvariance == WalletSpec => []PageIInv
  <1>1. WalletInit => PageIInv
    <2> SUFFICES ASSUME WalletInit PROVE PageIInv
      OBVIOUS
    <2>1. TasksInv /\ BusyHasATask
      BY NoTasks, TasksAssumption DEF WalletInit
    <2>2. StoreInv
      <3>1. wallet \in Nat /\ wallet <= instances
        BY DEF WalletInit
      <3> QED
        BY <3>1 DEF WalletInit, StoreInv
    <2> QED
      BY <2>1, <2>2 DEF PageIInv
  <1>2. PageIInv /\ [WalletNext]_walletVars => PageIInv'
    <2> SUFFICES ASSUME PageIInv, [WalletNext]_walletVars PROVE PageIInv'
      OBVIOUS
    <2>1. CASE User
      BY <2>1, RestoreKeeps, ConnectKeeps, DisconnectKeeps, SignInKeeps, SignOutKeeps,
         ReloadKeeps DEF User
    <2>2. CASE Outside
      BY <2>2, HandleExternalDisconnectKeeps, LateCallKeeps, PermitKeeps, GotAccountKeeps,
         BeaconReturnsKeeps, GotChallengeKeeps, SignKeeps, VerifyKeeps, RestoreThrowsKeeps,
         ConnectThrowsKeeps, SignInFailsKeeps, AbandonedFailsKeeps DEF Outside
    <2>3. CASE \E t \in tasks : Page(t)
      BY <2>3, CreateInstanceKeeps, RestoreTimeoutKeeps, SafeBeaconCallKeeps,
         DisconnectDoneKeeps DEF Page
    <2>4. CASE UNCHANGED walletVars
      <3>1. UNCHANGED <<tasks, started, instances, crashed, signingIn, ui>>
        BY <2>4 DEF walletVars, store, beacon, authStore
      <3>2. TasksInv'
        BY <3>1 DEF PageIInv, TasksInv
      <3>3. StoreInv'
        BY <2>4 DEF PageIInv, StoreInv, walletVars, store, beacon, authStore
      <3> QED
        BY <3>1, <3>2, <3>3, BusyRests DEF PageIInv
    <2> QED
      BY <2>1, <2>2, <2>3, <2>4 DEF WalletNext
  <1> QED
    BY <1>1, <1>2, PTL DEF WalletSpec

\* Every variable of the page keeps its type, no page makes more instances of
\* the wallet than functions were called, and a connected store has an address.
THEOREM PageTypes == WalletSpec => []WalletTypeOK
  <1>1. PageIInv => WalletTypeOK
    BY PageTypeOK DEF PageIInv
  <1> QED
    BY <1>1, PageInvariance, PTL

\* Whatever overlaps, for any number of calls: a disabled button is enabled
\* again by a call that is under way, unless a restore died of an exception, and
\* there is one sign-in exactly while isSigningIn.
THEOREM ButtonsComeBack == WalletSpec => []BusyHasATask
  <1>1. PageIInv => BusyHasATask
    BY DEF PageIInv
  <1> QED
    BY <1>1, PageInvariance, PTL

-----------------------------------------------------------------------------
(* The query cache of a page.                                              *)

Value == [Parts -> Nat \cup {Nil}]
Entry == [data : Value, fetch : {"idle", "asked", "paused"}, got : Value,
          auth : BOOLEAN, tries : 0..1, invalid : BOOLEAN, error : BOOLEAN,
          late : BOOLEAN]

\* What is shown for good, or has been read for it, is not older than the last
\* write of the page that was answered.
ShowsOwn(k, c) ==
  ~c.late /\ c.data # Nothing /\ c.fetch = "idle" /\ ~c.invalid
    => \A p \in Reads(k) : c.data[p] >= own[Resource(k)]
ReadsOwn(k, c) ==
  ~c.late /\ c.fetch # "idle"
    => \A p \in Reads(k) : c.got[p] # Nil => c.got[p] >= own[Resource(k)]

EntryOK(k, c) ==
  /\ c \in Entry
  /\ c.fetch = "paused" => c.tries = 1
  /\ ShowsOwn(k, c) /\ ReadsOwn(k, c)

Entries ==
  /\ cache \in [Keys -> Entry]
  /\ \A k \in Keys : EntryOK(k, cache[k])

\* No answer that the page has seen, or is to see, is ahead of the tables.
Versions ==
  /\ ver \in [Resources -> Nat] /\ own \in [Resources -> Nat]
  /\ \A r \in Resources : own[r] <= ver[r]
  /\ pending # Nil => /\ pending.m \in MutationHooks
                      /\ pending.at \in [Resources -> Nat]
                      /\ \A r \in Resources : pending.at[r] <= ver[r]

Visit ==
  /\ page \in Pages /\ mounted \subseteq page
  /\ session \in {"none", "good", "expired"}

QueryIInv == Entries /\ Versions /\ Visit

LEMMA HooksTyped ==
  ASSUME NEW k \in Keys
  PROVE  Resource(k) \in Resources /\ Reads(k) \subseteq Parts
  BY DEF Keys, Resource, Reads, Hook, Resources, Parts, UseBakers, UseRewards,
         UseDelegations, UseUser, UseNotifications, UseUnreadCount, ListBakers,
         ListRewards, ListDelegations, FindByPkh, ListByUser

\* onSuccess hits every key of what its mutation wrote, the deletion excepted.
LEMMA WritesAreHit ==
  ASSUME NEW m \in MutationHooks, m # UseDeleteAccount,
         NEW k \in Keys, Resource(k) \in m.writes
  PROVE  k \in m.hits
  <1>1. /\ k = "bakers" => Resource(k) = "bakers"
        /\ k = "rewards" => Resource(k) = "rewards"
        /\ k = "delegations" => Resource(k) = "delegations"
        /\ k = "user" => Resource(k) = "user"
        /\ k \in {"inbox", "badge"} => Resource(k) = "notifications"
    BY DEF Resource, Hook, UseBakers, UseRewards, UseDelegations, UseUser,
           UseNotifications, UseUnreadCount
  <1>2. \/ m.writes = {"rewards"} /\ m.hits = {"rewards"}
        \/ m.writes = {"delegations"} /\ m.hits = {"delegations"}
        \/ m.writes = {"user"} /\ m.hits = {"user"}
        \/ m.writes = {"notifications"} /\ m.hits = {"inbox", "badge"}
    BY DEF MutationHooks, UseClaimReward, UseCreateDelegation, UseUpdateEmail,
           UseUpdatePreferences, UseUpdateConsent, UseMarkRead
  <1> QED
    BY <1>1, <1>2 DEF Keys

LEMMA NothingTyped == Nothing \in Value /\ \A p \in Parts : Nothing[p] = Nil
  BY DEF Nothing, Value

LEMMA EmptyFields == Empty \in Entry /\ Empty.data = Nothing /\ Empty.fetch = "idle"
  BY NothingTyped DEF Empty, Entry

LEMMA EmptyIsOK == ASSUME NEW k \in Keys PROVE EntryOK(k, Empty)
  BY EmptyFields DEF EntryOK, ShowsOwn, ReadsOwn

LEMMA AskingTyped ==
  ASSUME NEW k \in Keys, NEW c \in Entry, NEW auth \in BOOLEAN,
         NEW d, d = Asking(k, c, auth)
  PROVE  d \in Entry /\ d.fetch = "asked" /\ d.got = Nothing
  <1>1. PICK e : e = (c.error /\ c.data # Nothing)
    OBVIOUS
  <1>2. e \in BOOLEAN
    BY <1>1
  <1>3. d = [c EXCEPT !.fetch = "asked", !.got = Nothing, !.tries = 0, !.auth = auth,
                      !.error = e, !.late = FALSE]
    BY <1>1 DEF Asking
  <1>4. 0 \in 0..1
    OBVIOUS
  <1> QED
    BY <1>2, <1>3, <1>4, NothingTyped DEF Entry

\* A fetch that begins has read nothing.
LEMMA AskingIsOK ==
  ASSUME NEW k \in Keys, NEW c \in Entry, NEW auth \in BOOLEAN
  PROVE  EntryOK(k, Asking(k, c, auth))
  <1>1. PICK d : d = Asking(k, c, auth)
    OBVIOUS
  <1>2. d \in Entry /\ d.fetch = "asked" /\ d.got = Nothing
    BY <1>1, AskingTyped
  <1>3. EntryOK(k, d)
    BY <1>2, NothingTyped, HooksTyped DEF EntryOK, ShowsOwn, ReadsOwn
  <1> QED
    BY <1>1, <1>3

LEMMA AuthorisedTyped == ASSUME NEW k \in Keys PROVE Authorised(k) \in BOOLEAN
  BY DEF Authorised

\* One entry changes, and what it is compared with does not.
LEMMA OneEntryKeeps ==
  ASSUME Entries, NEW k \in Keys, NEW c, EntryOK(k, c), UNCHANGED own,
         cache' = [cache EXCEPT ![k] = c]
  PROVE  Entries'
  <1>1. cache' \in [Keys -> Entry]
    BY DEF Entries, EntryOK
  <1>2. ASSUME NEW j \in Keys PROVE EntryOK(j, cache'[j])
    <2>1. CASE j = k
      BY <2>1 DEF Entries
    <2>2. CASE j # k
      BY <2>2 DEF Entries
    <2> QED
      BY <2>1, <2>2
  <1>3. ASSUME NEW j \in Keys PROVE EntryOK(j, cache[j])'
    BY <1>2 DEF EntryOK, ShowsOwn, ReadsOwn
  <1> QED
    BY <1>1, <1>3 DEF Entries

\* What does not touch the entries or their last write.
LEMMA EntriesRest == ASSUME Entries, UNCHANGED <<cache, own>> PROVE Entries'
  BY DEF Entries, EntryOK, ShowsOwn, ReadsOwn

LEMMA VersionsRest == ASSUME Versions, UNCHANGED <<ver, own, pending>> PROVE Versions'
  BY DEF Versions

LEMMA SetEntryKeeps ==
  ASSUME QueryIInv, NEW k \in Keys, NEW c, EntryOK(k, c), SetEntry(k, c)
  PROVE  QueryIInv'
  <1>1. Entries'
    BY OneEntryKeeps DEF QueryIInv, SetEntry
  <1>2. Versions' /\ Visit'
    BY VersionsRest DEF QueryIInv, SetEntry, Visit
  <1> QED
    BY <1>1, <1>2 DEF QueryIInv

LEMMA MountKeeps == ASSUME QueryIInv, NEW k \in Keys, Mount(k) PROVE QueryIInv'
  <1>1. PICK c : /\ c = cache[k] \/ \E auth \in BOOLEAN : c = Asking(k, cache[k], auth)
                 /\ cache' = [cache EXCEPT ![k] = c]
    BY AuthorisedTyped DEF Mount
  <1>2. EntryOK(k, c)
    BY <1>1, AskingIsOK DEF QueryIInv, Entries
  <1>3. Entries'
    BY <1>1, <1>2, OneEntryKeeps DEF QueryIInv, Mount
  <1>4. Versions' /\ Visit'
    BY VersionsRest DEF QueryIInv, Mount, Visit
  <1> QED
    BY <1>3, <1>4 DEF QueryIInv

LEMMA UnmountKeeps == ASSUME QueryIInv, NEW k \in Keys, Unmount(k) PROVE QueryIInv'
  <1>1. Entries' /\ Versions' /\ Visit'
    BY EntriesRest, VersionsRest DEF QueryIInv, Unmount, Visit
  <1> QED
    BY <1>1 DEF QueryIInv

LEMMA CollectKeeps == ASSUME QueryIInv, NEW k \in Keys, Collect(k) PROVE QueryIInv'
  BY EmptyIsOK, SetEntryKeeps DEF Collect

LEMMA PollKeeps == ASSUME QueryIInv, NEW k \in Keys, Poll(k) PROVE QueryIInv'
  <1>1. EntryOK(k, Asking(k, cache[k], Authorised(k)))
    BY AuthorisedTyped, AskingIsOK DEF QueryIInv, Entries
  <1> QED
    BY <1>1, SetEntryKeeps DEF Poll

\* A row is read at the version that its table has, which no write of the
\* page is ahead of.
LEMMA ReadKeeps ==
  ASSUME QueryIInv, NEW k \in Keys, NEW p \in Reads(k), Read(k, p) PROVE QueryIInv'
  <1>1. PICK n : n = ver[Resource(k)]
    OBVIOUS
  <1>2. n \in Nat /\ n >= own[Resource(k)] /\ p \in Parts
    BY <1>1, HooksTyped DEF QueryIInv, Versions
  <1>3. PICK c : c = [cache[k] EXCEPT !.got[p] = n]
    OBVIOUS
  <1>4. EntryOK(k, cache[k]) /\ cache[k].fetch = "asked"
    BY DEF QueryIInv, Entries, Read
  <1>5. PICK g : g = [cache[k].got EXCEPT ![p] = n]
    OBVIOUS
  <1>6. g \in Value /\ \A q \in Parts : g[q] = IF q = p THEN n ELSE cache[k].got[q]
    BY <1>2, <1>4, <1>5 DEF EntryOK, Entry, Value
  <1>7. /\ c \in Entry /\ c.fetch = "asked" /\ c.got = g
        /\ c.late = cache[k].late
    BY <1>3, <1>4, <1>5, <1>6 DEF EntryOK, Entry
  <1>8. EntryOK(k, c)
    <2>1. ShowsOwn(k, c)
      BY <1>7 DEF ShowsOwn
    <2>2. ReadsOwn(k, c)
      BY <1>2, <1>4, <1>6, <1>7, HooksTyped DEF ReadsOwn, EntryOK
    <2> QED
      BY <1>7, <2>1, <2>2 DEF EntryOK
  <1>9. SetEntry(k, c)
    BY <1>1, <1>3 DEF Read
  <1> QED
    BY <1>8, <1>9, SetEntryKeeps

LEMMA AnswerKeeps == ASSUME QueryIInv, NEW k \in Keys, Answer(k) PROVE QueryIInv'
  <1>1. PICK c : c = [Empty EXCEPT !.data = cache[k].got, !.late = cache[k].late]
    OBVIOUS
  <1>2. /\ EntryOK(k, cache[k]) /\ cache[k].fetch = "asked"
        /\ \A p \in Reads(k) : cache[k].got[p] # Nil
    BY DEF QueryIInv, Entries, Answer
  <1>3. cache[k].got \in Value /\ cache[k].late \in BOOLEAN
    BY <1>2 DEF EntryOK, Entry
  <1>4. c \in Entry /\ c.fetch = "idle" /\ c.data = cache[k].got /\ c.late = cache[k].late
    BY <1>1, <1>3, EmptyFields DEF Entry
  <1>5. ShowsOwn(k, c)
    BY <1>2, <1>4 DEF ShowsOwn, ReadsOwn, EntryOK
  <1>6. EntryOK(k, c)
    BY <1>4, <1>5 DEF EntryOK, ReadsOwn
  <1>7. SetEntry(k, c)
    BY <1>1 DEF Answer
  <1> QED
    BY <1>6, <1>7, SetEntryKeeps

LEMMA FailKeeps == ASSUME QueryIInv, NEW k \in Keys, Fail(k) PROVE QueryIInv'
  <1>1. EntryOK(k, cache[k])
    BY DEF QueryIInv, Entries
  <1>2. CASE cache[k].tries = 0
    <2>1. PICK c : c = [cache[k] EXCEPT !.fetch = "paused", !.got = Nothing, !.tries = 1,
                                        !.auth = FALSE]
      OBVIOUS
    <2>2. c \in Entry /\ c.fetch = "paused" /\ c.got = Nothing /\ c.tries = 1
      <3>1. cache[k] \in Entry /\ 1 \in 0..1 /\ Nothing \in Value
        BY <1>1, NothingTyped DEF EntryOK
      <3> QED
        BY <2>1, <3>1 DEF Entry
    <2>3. EntryOK(k, c)
      BY <2>2, NothingTyped, HooksTyped DEF EntryOK, ShowsOwn, ReadsOwn
    <2>4. SetEntry(k, c)
      BY <1>2, <2>1 DEF Fail
    <2> QED
      BY <2>3, <2>4, SetEntryKeeps
  <1>3. CASE cache[k].tries # 0
    <2>1. PICK c : c = [Empty EXCEPT !.data = cache[k].data, !.invalid = TRUE,
                                     !.error = TRUE]
      OBVIOUS
    <2>2. cache[k].data \in Value
      BY <1>1 DEF EntryOK, Entry
    <2>3. c \in Entry /\ c.fetch = "idle" /\ c.invalid
      BY <2>1, <2>2, EmptyFields DEF Entry
    <2>4. EntryOK(k, c)
      BY <2>3 DEF EntryOK, ShowsOwn, ReadsOwn
    <2>5. SetEntry(k, c)
      BY <1>3, <2>1 DEF Fail
    <2> QED
      BY <2>4, <2>5, SetEntryKeeps
  <1> QED
    BY <1>2, <1>3

LEMMA RetryAskKeeps == ASSUME QueryIInv, NEW k \in Keys, RetryAsk(k) PROVE QueryIInv'
  <1>1. PICK a : a = Authorised(k)
    OBVIOUS
  <1>2. PICK c : c = [cache[k] EXCEPT !.fetch = "asked", !.auth = a]
    OBVIOUS
  <1>3. EntryOK(k, cache[k]) /\ cache[k].fetch = "paused" /\ a \in BOOLEAN
    BY <1>1, AuthorisedTyped DEF QueryIInv, Entries, RetryAsk
  <1>4. /\ c \in Entry /\ c.fetch = "asked" /\ c.got = cache[k].got
        /\ c.late = cache[k].late
    BY <1>2, <1>3 DEF EntryOK, Entry
  <1>5. EntryOK(k, c)
    BY <1>3, <1>4 DEF EntryOK, ShowsOwn, ReadsOwn
  <1>6. SetEntry(k, c)
    BY <1>1, <1>2 DEF RetryAsk
  <1> QED
    BY <1>5, <1>6, SetEntryKeeps

LEMMA ForeignWriteKeeps ==
  ASSUME QueryIInv, NEW r \in OnPage, ForeignWrite(r) PROVE QueryIInv'
  <1>1. Entries' /\ Visit'
    BY EntriesRest DEF QueryIInv, ForeignWrite, Visit
  <1>2. ver' \in [Resources -> Nat] /\ \A s \in Resources : ver[s] <= ver'[s]
    <2>1. ver \in [Resources -> Nat] /\ ver' = [ver EXCEPT ![r] = ver[r] + 1]
      BY DEF QueryIInv, Versions, ForeignWrite
    <2>2. ASSUME NEW s \in Resources PROVE ver'[s] \in Nat /\ ver[s] <= ver'[s]
      <3>1. ver'[s] = ver[s] \/ ver'[s] = ver[s] + 1
        BY <2>1
      <3>2. ver[s] \in Nat
        BY <2>1
      <3> QED
        BY <3>1, <3>2
    <2>3. ver' = [s \in Resources |-> ver'[s]]
      BY <2>1
    <2> QED
      BY <2>2, <2>3
  <1>3. UNCHANGED <<own, pending>>
    BY DEF ForeignWrite
  <1>4. \A s \in Resources : own[s] <= ver'[s]
    BY <1>2 DEF QueryIInv, Versions
  <1>5. pending # Nil => \A s \in Resources : pending.at[s] <= ver'[s]
    BY <1>2 DEF QueryIInv, Versions
  <1>6. Versions'
    BY <1>2, <1>3, <1>4, <1>5 DEF QueryIInv, Versions
  <1> QED
    BY <1>1, <1>6 DEF QueryIInv

LEMMA MutateKeeps ==
  ASSUME QueryIInv, NEW m \in MutationHooks, Mutate(m) PROVE QueryIInv'
  <1>1. Entries' /\ Visit'
    BY EntriesRest DEF QueryIInv, Mutate, Visit
  <1>2. ver' \in [Resources -> Nat] /\ \A s \in Resources : ver[s] <= ver'[s]
    BY DEF QueryIInv, Versions, Mutate
  <1>3. UNCHANGED own /\ pending'.m = m /\ pending'.at = ver'
    BY DEF Mutate
  <1>4. \A s \in Resources : own[s] <= ver'[s] /\ ver'[s] <= ver'[s]
    BY <1>2 DEF QueryIInv, Versions
  <1>5. Versions'
    BY <1>2, <1>3, <1>4 DEF QueryIInv, Versions
  <1> QED
    BY <1>1, <1>5 DEF QueryIInv

\* An entry that is invalidated is asked for again, or is known to be late or
\* invalid: it is right whatever write it is to be compared with.
LEMMA InvalidatedIsOK ==
  ASSUME Entries, NEW k \in Keys, NEW c, c = Invalidated(k) PROVE EntryOK(k, c)'
  <1>1. PICK d : d = [cache[k] EXCEPT !.invalid = TRUE, !.late = cache[k].fetch # "idle"]
    OBVIOUS
  <1>2. cache[k] \in Entry /\ (cache[k].fetch = "paused" => cache[k].tries = 1)
    BY DEF Entries, EntryOK
  <1>3. /\ d \in Entry /\ d.invalid /\ d.late = (cache[k].fetch # "idle")
        /\ d.fetch = cache[k].fetch /\ d.tries = cache[k].tries
    BY <1>1, <1>2 DEF Entry
  <1>4. CASE Restartable(k)
    <2>1. c = Asking(k, d, Authorised(k))
      BY <1>1, <1>4 DEF Invalidated
    <2>2. PICK a : a = Authorised(k)
      OBVIOUS
    <2>3. c = Asking(k, d, a) /\ a \in BOOLEAN
      BY <2>1, <2>2, AuthorisedTyped
    <2>4. c \in Entry /\ c.fetch = "asked" /\ c.got = Nothing
      BY <1>3, <2>3, AskingTyped
    <2> QED
      BY <2>4, NothingTyped, HooksTyped DEF EntryOK, ShowsOwn, ReadsOwn
  <1>5. CASE ~Restartable(k)
    <2>1. c = d
      BY <1>1, <1>5 DEF Invalidated
    <2> QED
      BY <1>2, <1>3, <2>1 DEF EntryOK, ShowsOwn, ReadsOwn
  <1> QED
    BY <1>4, <1>5

LEMMA MutationSucceedsKeeps == ASSUME QueryIInv, MutationSucceeds PROVE QueryIInv'
  <1> DEFINE hit == {k \in pending.m.hits : cache[k] # Empty}
  <1>1. /\ pending # Nil /\ pending' = Nil /\ UNCHANGED <<page, ver, mounted>>
        /\ cache' = [k \in Keys |-> IF k \in hit THEN Invalidated(k) ELSE cache[k]]
    BY DEF MutationSucceeds
  <1>2. /\ own' \in [Resources -> Nat]
        /\ \A r \in Resources : own'[r] <= ver[r]
        /\ \A k \in Keys : own'[Resource(k)] = own[Resource(k)] \/ k \in pending.m.hits
    <2>1. CASE pending.m = UseDeleteAccount
      <3>1. UNCHANGED own
        BY <2>1 DEF MutationSucceeds
      <3> QED
        BY <3>1 DEF QueryIInv, Versions
    <2>2. CASE pending.m # UseDeleteAccount
      <3>1. own' = [r \in Resources |-> IF r \in pending.m.writes THEN pending.at[r]
                                        ELSE own[r]]
        BY <2>2 DEF MutationSucceeds
      <3>2. /\ pending.m \in MutationHooks
            /\ pending.at \in [Resources -> Nat] /\ own \in [Resources -> Nat]
            /\ \A r \in Resources : pending.at[r] <= ver[r] /\ own[r] <= ver[r]
        BY <1>1 DEF QueryIInv, Versions
      <3>3. \A k \in Keys : Resource(k) \in pending.m.writes => k \in pending.m.hits
        BY <2>2, <3>2, WritesAreHit
      <3>4. own' \in [Resources -> Nat] /\ \A r \in Resources : own'[r] <= ver[r]
        BY <3>1, <3>2
      <3>5. \A k \in Keys : own'[Resource(k)] = own[Resource(k)] \/ k \in pending.m.hits
        BY <3>1, <3>3, HooksTyped
      <3> QED
        BY <3>4, <3>5
    <2> QED
      BY <2>1, <2>2
  <1>3. ASSUME NEW k \in Keys
        PROVE  EntryOK(k, cache[k])'
    <2>1. CASE k \in hit
      <3>1. PICK c : c = Invalidated(k)
        OBVIOUS
      <3>2. cache'[k] = c
        BY <1>1, <2>1, <3>1
      <3>3. EntryOK(k, c)'
        BY <3>1, InvalidatedIsOK DEF QueryIInv
      <3> QED
        BY <3>2, <3>3 DEF EntryOK, ShowsOwn, ReadsOwn
    <2>2. CASE k \notin hit
      <3>1. cache'[k] = cache[k]
        BY <1>1, <2>2
      <3>2. CASE k \in pending.m.hits
        <4>1. cache'[k] = Empty
          BY <2>2, <3>1, <3>2
        <4> QED
          BY <4>1, EmptyFields DEF EntryOK, ShowsOwn, ReadsOwn
      <3>3. CASE k \notin pending.m.hits
        <4>1. own'[Resource(k)] = own[Resource(k)] /\ EntryOK(k, cache[k])
          BY <1>2, <3>3 DEF QueryIInv, Entries
        <4> QED
          BY <3>1, <4>1 DEF EntryOK, ShowsOwn, ReadsOwn
      <3> QED
        BY <3>2, <3>3
    <2> QED
      BY <2>1, <2>2
  <1>4. Entries'
    <2>1. \A k \in Keys : cache'[k] \in Entry
      BY <1>3 DEF EntryOK
    <2>2. cache' \in [Keys -> Entry]
      <3>1. cache' = [k \in Keys |-> cache'[k]]
        BY <1>1
      <3> QED
        BY <2>1, <3>1
    <2> QED
      BY <1>3, <2>2 DEF Entries
  <1>5. Versions'
    BY <1>1, <1>2 DEF QueryIInv, Versions
  <1>6. Visit'
    BY <1>1 DEF QueryIInv, Visit, MutationSucceeds
  <1> QED
    BY <1>4, <1>5, <1>6 DEF QueryIInv

LEMMA MutationLostKeeps == ASSUME QueryIInv, MutationLost PROVE QueryIInv'
  <1>1. Entries' /\ Visit'
    BY EntriesRest DEF QueryIInv, MutationLost, Visit
  <1>2. Versions'
    BY DEF QueryIInv, Versions, MutationLost
  <1> QED
    BY <1>1, <1>2 DEF QueryIInv

LEMMA BeginSessionKeeps == ASSUME QueryIInv, BeginSession PROVE QueryIInv'
  <1>1. PICK stale \in BOOLEAN :
          cache' = [k \in Keys |->
                     IF k \in mounted /\ ~Enabled(k) /\ Wanted(cache[k], stale)
                       THEN Asking(k, cache[k], TRUE) ELSE cache[k]]
    BY DEF BeginSession
  <1>2. ASSUME NEW k \in Keys PROVE EntryOK(k, cache'[k])
    <2>1. EntryOK(k, cache[k]) /\ cache[k] \in Entry
      BY DEF QueryIInv, Entries
    <2>2. EntryOK(k, Asking(k, cache[k], TRUE))
      BY <2>1, AskingIsOK
    <2>3. cache'[k] = cache[k] \/ cache'[k] = Asking(k, cache[k], TRUE)
      BY <1>1
    <2> QED
      BY <2>1, <2>2, <2>3
  <1>3. UNCHANGED own
    BY DEF BeginSession
  <1>4. ASSUME NEW k \in Keys PROVE EntryOK(k, cache[k])'
    BY <1>2, <1>3 DEF EntryOK, ShowsOwn, ReadsOwn
  <1>5. Entries'
    <2>1. cache' = [k \in Keys |-> cache'[k]]
      BY <1>1
    <2>2. cache' \in [Keys -> Entry]
      BY <1>2, <2>1 DEF EntryOK
    <2> QED
      BY <1>4, <2>2 DEF Entries
  <1>6. Versions' /\ Visit'
    BY VersionsRest DEF QueryIInv, BeginSession, Visit
  <1> QED
    BY <1>5, <1>6 DEF QueryIInv

LEMMA EndSessionKeeps == ASSUME QueryIInv, EndSession PROVE QueryIInv'
  <1>1. Entries' /\ Versions' /\ Visit'
    BY EntriesRest, VersionsRest DEF QueryIInv, EndSession, Visit
  <1> QED
    BY <1>1 DEF QueryIInv

\* The entries, the versions they are compared with and the visit survive every
\* step of the page, of the API and of everybody else who writes.
THEOREM QueryInvariance == QuerySpec => []QueryIInv
  <1>1. QueryInit => QueryIInv
    <2> SUFFICES ASSUME QueryInit PROVE QueryIInv
      OBVIOUS
    <2>1. Entries
      BY EmptyIsOK, EmptyFields DEF QueryInit, Entries
    <2>2. Versions
      BY DEF QueryInit, Versions
    <2>3. Visit
      BY DEF QueryInit, Visit
    <2> QED
      BY <2>1, <2>2, <2>3 DEF QueryIInv
  <1>2. QueryIInv /\ [QueryNext]_queryVars => QueryIInv'
    <2> SUFFICES ASSUME QueryIInv, [QueryNext]_queryVars PROVE QueryIInv'
      OBVIOUS
    <2>1. ASSUME NEW k \in Keys, FetchStep(k) PROVE QueryIInv'
      BY <2>1, ReadKeeps, AnswerKeeps, FailKeeps, RetryAskKeeps DEF FetchStep
    <2>2. ASSUME NEW k \in Keys, Mount(k) \/ Unmount(k) \/ Collect(k) \/ Poll(k)
          PROVE  QueryIInv'
      BY <2>2, MountKeeps, UnmountKeeps, CollectKeeps, PollKeeps
    <2>3. CASE \E r \in OnPage : ForeignWrite(r)
      BY <2>3, ForeignWriteKeeps
    <2>4. CASE \E m \in MutationHooks : Mutate(m)
      BY <2>4, MutateKeeps
    <2>5. CASE MutationSucceeds \/ MutationLost \/ BeginSession \/ EndSession
      BY <2>5, MutationSucceedsKeeps, MutationLostKeeps, BeginSessionKeeps, EndSessionKeeps
    <2>6. CASE UNCHANGED queryVars
      <3>1. Entries' /\ Versions' /\ Visit'
        BY <2>6, EntriesRest, VersionsRest DEF QueryIInv, queryVars, Visit
      <3> QED
        BY <3>1 DEF QueryIInv
    <2> QED
      BY <2>1, <2>2, <2>3, <2>4, <2>5, <2>6 DEF QueryNext
  <1> QED
    BY <1>1, <1>2, PTL DEF QuerySpec

\* Every variable of the page keeps its type, and no request is tried more than
\* twice, for any pages and any number of writes, mutations and failures.
THEOREM QueryTypes == QuerySpec => []QueryTypeOK
  <1>1. QueryIInv => QueryTypeOK
    BY DEF QueryIInv, Entries, EntryOK, Entry, Value, Versions, Visit, QueryTypeOK
  <1> QED
    BY <1>1, QueryInvariance, PTL

\* A visitor sees what he did: what an entry shows at rest, not invalidated, is
\* not older than the last mutation of the page that succeeded, in its rows or
\* in its total; a fetch that invalidateQueries did not restart is excepted.
THEOREM VisitorsSeeTheirWrites == QuerySpec => []OwnWritesShown
  <1>1. QueryIInv => OwnWritesShown
    BY DEF QueryIInv, Entries, EntryOK, ShowsOwn, OwnWritesShown
  <1> QED
    BY <1>1, QueryInvariance, PTL
=============================================================================
