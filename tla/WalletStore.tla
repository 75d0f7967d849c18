----------------------------- MODULE WalletStore -----------------------------
(***************************************************************************)
(* One page of apps/web: the wallet store (model.ts), the lazily made      *)
(* Beacon wallet that it shares with the sign-in (beacon.ts, subscribe.ts, *)
(* packages/sdk/src/wallet.ts), and the session (auth-store.ts, auth.ts).  *)
(* restore, connect, disconnect and signIn are asynchronous functions that *)
(* nothing serialises: tasks holds those that wait at an await.            *)
(*                                                                         *)
(* Beacon, the wallet extension and the network answer when they like, or  *)
(* never, or with an exception.  ACTIVE_ACCOUNT_SET may fire at any time   *)
(* once a client is subscribed; the subscription cannot be cancelled.      *)
(***************************************************************************)
EXTENDS Naturals, Sequences

CONSTANTS Account,
          None,       \* null
          MaxTasks,   \* bound: calls of the four functions, on all pages
          MaxReloads  \* bound: page loads after the first one

ASSUME TasksAssumption == MaxTasks \in Nat

VARIABLES
  ui, address,    \* the store: state and address
  flag,           \* sessionStorage: disconnected in this session
  wallet,         \* beacon.ts _wallet: 0, or the number of the instance
  subscribed,     \* beacon.ts _unsubscribe is set
  instances,      \* instances made on this page
  listening,      \* some client calls handleExternalDisconnect
  paired,         \* Beacon's active account, in localStorage
  late,           \* a removeAllAccounts that timed out still runs
  token,          \* auth-store: the wallet of the access token, or None
  signingIn,      \* auth-store: isSigningIn
  tasks, started, reloads,
  crashed         \* history: a restore of this page died of an exception

store == <<ui, address, flag>>
beacon == <<wallet, subscribed, instances, listening>>
authStore == <<token, signingIn>>
walletVars == <<store, beacon, paired, late, authStore, tasks, started, reloads, crashed>>

Idle == ui' = "idle" /\ address' = None

WalletInit ==
  /\ ui = "idle" /\ address = None /\ flag = FALSE
  /\ wallet = 0 /\ subscribed = FALSE /\ instances = 0 /\ listening = FALSE
  /\ paired \in Account \cup {None} /\ late = FALSE
  /\ token = None /\ signingIn = FALSE
  /\ tasks = {} /\ started = 0 /\ reloads = 0 /\ crashed = FALSE

-----------------------------------------------------------------------------
(* Tasks                                                                   *)

Begin(op, pc) ==
  /\ started < MaxTasks /\ started' = started + 1
  /\ tasks' = tasks \cup {[no |-> started', op |-> op, pc |-> pc, signer |-> None,
                           todo |-> <<>>]}

Goto(t, pc) == tasks' = (tasks \ {t}) \cup {[t EXCEPT !.pc = pc]} /\ UNCHANGED started
End(t) == tasks' = tasks \ {t} /\ UNCHANGED started

\* getOrCreateWallet: at once when there is an instance, else after import().
Obtained(pc) == IF wallet = 0 THEN "import" ELSE pc

\* Where each function goes on with its wallet.
AfterWallet(op) ==
  CASE op = "restore" -> "account"
    [] op \in {"connect", "signIn"} -> "permission"
    [] op = "disconnect" -> "destroy"

\* The three calls that destroy wraps with safeBeaconCall.
DestroyCalls == <<"removeAllAccounts", "removeAllPeers", "disconnect">>

\* import() is done: another caller may have made an instance meanwhile, and
\* only the first one is subscribed to.
CreateInstance(t) ==
  /\ t.pc = "import"
  /\ instances' = instances + 1 /\ wallet' = instances'
  /\ subscribed' = TRUE
  /\ listening' = TRUE
  /\ IF t.op = "abandoned" THEN End(t)
     ELSE /\ tasks' = (tasks \ {t}) \cup
               {[t EXCEPT !.pc = AfterWallet(t.op),
                          !.todo = IF t.op = "disconnect" THEN DestroyCalls ELSE <<>>]}
          /\ UNCHANGED started
  /\ UNCHANGED <<store, paired, late, authStore, reloads, crashed>>

\* destroyWallet
DropWallet == wallet' = 0 /\ subscribed' = FALSE /\ UNCHANGED <<instances, listening>>

-----------------------------------------------------------------------------
(* restore                                                                 *)

\* ConnectButton is mounted.
Restore ==
  /\ ui # "connected" /\ ~flag
  /\ ui' = "restoring"
  /\ Begin("restore", Obtained("account"))
  /\ UNCHANGED <<address, flag, beacon, paired, late, authStore, reloads, crashed>>

\* The ceiling of five seconds, over getOrCreateWallet only; the import goes
\* on without the task.
RestoreTimeout(t) ==
  /\ t.op = "restore" /\ t.pc = "import"
  /\ tasks' = (tasks \ {t}) \cup {[t EXCEPT !.op = "abandoned"]}
  /\ ui' = "idle"
  /\ UNCHANGED <<address, flag, beacon, paired, late, authStore, started, reloads, crashed>>

\* getActiveAccount answers a restore or a connect; no account is an error
\* of the latter.
GotAccount(t) ==
  /\ t.op \in {"restore", "connect"} /\ t.pc = "account"
  /\ IF paired # None
     THEN /\ ui' = "connected" /\ address' = paired
          /\ flag' = IF t.op = "connect" THEN FALSE ELSE flag
     ELSE /\ ui' = IF t.op = "connect" THEN "error" ELSE "idle"
          /\ UNCHANGED <<address, flag>>
  /\ End(t)
  /\ UNCHANGED <<beacon, paired, late, authStore, reloads, crashed>>

\* restore has no catch.
RestoreThrows(t) ==
  /\ t.op = "restore" /\ t.pc \in {"import", "account"}
  /\ End(t) /\ crashed' = TRUE
  /\ UNCHANGED <<store, beacon, paired, late, authStore, reloads>>

-----------------------------------------------------------------------------
(* connect                                                                 *)

Connect ==
  /\ ui \in {"idle", "error"}
  /\ ui' = "connecting"
  /\ Begin("connect", Obtained("permission"))
  /\ UNCHANGED <<address, flag, beacon, paired, late, authStore, reloads, crashed>>

\* The user approves in the wallet, with some account.
Permit(t) ==
  /\ t.pc = "permission"
  /\ paired' \in Account
  /\ Goto(t, IF t.op = "connect" THEN "account" ELSE "sign")
  /\ UNCHANGED <<store, beacon, late, authStore, reloads, crashed>>

\* Mutated form: the error is not caught.
ConnectThrowsUncaught(t) ==
  /\ t.op = "connect" /\ t.pc \in {"import", "permission", "account"}
  /\ End(t)
  /\ UNCHANGED <<store, beacon, paired, late, authStore, reloads, crashed>>

ConnectThrows(t) ==
  /\ t.op = "connect" /\ t.pc \in {"import", "permission", "account"}
  /\ ui' = "error" /\ End(t)
  /\ UNCHANGED <<address, flag, beacon, paired, late, authStore, reloads, crashed>>

-----------------------------------------------------------------------------
(* disconnect                                                              *)

Disconnect ==
  /\ ui = "connected"
  /\ started < MaxTasks /\ started' = started + 1
  /\ tasks' = tasks \cup {[no |-> started', op |-> "disconnect", pc |-> Obtained("destroy"),
                           signer |-> None,
                           todo |-> IF wallet = 0 THEN <<>> ELSE DestroyCalls]}
  /\ UNCHANGED <<store, beacon, paired, late, authStore, reloads, crashed>>

\* A call of destroy returns, with its effect.
BeaconReturns(t) ==
  /\ t.pc = "destroy" /\ t.todo # <<>>
  /\ paired' = IF Head(t.todo) = "removeAllAccounts" THEN None ELSE paired
  /\ tasks' = (tasks \ {t}) \cup {[t EXCEPT !.todo = Tail(@)]}
  /\ UNCHANGED <<store, beacon, late, authStore, started, reloads, crashed>>

\* Mutated form: the first call alone is wrapped.
SafeBeaconCallFirst(t) ==
  /\ t.pc = "destroy" /\ Len(t.todo) = 3
  /\ late' \in {late, TRUE}
  /\ tasks' = (tasks \ {t}) \cup {[t EXCEPT !.todo = Tail(@)]}
  /\ UNCHANGED <<store, beacon, paired, authStore, started, reloads, crashed>>

\* safeBeaconCall: the call threw or 1.5 seconds have passed, and then it may
\* go on unobserved.
SafeBeaconCall(t) ==
  /\ t.pc = "destroy" /\ t.todo # <<>>
  /\ late' \in {late, Head(t.todo) = "removeAllAccounts" \/ late}
  /\ tasks' = (tasks \ {t}) \cup {[t EXCEPT !.todo = Tail(@)]}
  /\ UNCHANGED <<store, beacon, paired, authStore, started, reloads, crashed>>

LateCall ==
  /\ late /\ late' = FALSE /\ paired' = None
  /\ UNCHANGED <<store, beacon, authStore, tasks, started, reloads, crashed>>

\* Mutated form: the address is forgotten, the state is not.
DisconnectDoneHalf(t) ==
  /\ t.op = "disconnect"
  /\ \/ t.pc = "destroy" /\ t.todo = <<>> /\ paired' = None
     \/ t.pc = "import" /\ UNCHANGED paired
  /\ address' = None /\ flag' = TRUE /\ DropWallet /\ End(t)
  /\ UNCHANGED <<ui, late, authStore, reloads, crashed>>

\* The keys of Beacon are removed from localStorage, unless there was no
\* wallet to destroy; then the store is reset.
DisconnectDone(t) ==
  /\ t.op = "disconnect"
  /\ \/ t.pc = "destroy" /\ t.todo = <<>> /\ paired' = None
     \/ t.pc = "import" /\ UNCHANGED paired
  /\ Idle /\ flag' = TRUE /\ DropWallet /\ End(t)
  /\ UNCHANGED <<late, authStore, reloads, crashed>>

\* ACTIVE_ACCOUNT_SET: the user has disconnected, or chosen an account.
HandleExternalDisconnect ==
  /\ listening
  /\ paired' \in Account \cup {None}
  /\ Idle /\ flag' = TRUE /\ DropWallet
  /\ UNCHANGED <<late, authStore, tasks, started, reloads, crashed>>

-----------------------------------------------------------------------------
(* The session                                                             *)

\* SignInButton: signIn, up to the request for a challenge.
SignIn ==
  /\ ui = "connected" /\ token = None /\ ~signingIn
  /\ signingIn' = TRUE
  /\ Begin("signIn", "challenge")
  /\ UNCHANGED <<store, beacon, paired, late, token, reloads, crashed>>

GotChallenge(t) ==
  /\ t.pc = "challenge" /\ Goto(t, Obtained("permission"))
  /\ UNCHANGED <<store, beacon, paired, late, authStore, reloads, crashed>>

\* signMessage, with the account that is active now.
Sign(t) ==
  /\ t.pc = "sign" /\ paired # None
  /\ tasks' = (tasks \ {t}) \cup {[t EXCEPT !.pc = "address", !.signer = paired]}
  /\ UNCHANGED <<store, beacon, paired, late, authStore, started, reloads, crashed>>

\* getActiveAccount, then POST /auth/verify, which accepts the address of the
\* signer only (see SiwwAuth).
Verify(t) ==
  /\ t.pc = "address" /\ paired = t.signer
  /\ token' = paired /\ signingIn' = FALSE
  /\ End(t)
  /\ UNCHANGED <<store, beacon, paired, late, reloads, crashed>>

\* Any step of signIn throws.
SignInFails(t) ==
  /\ t.op = "signIn"
  /\ signingIn' = FALSE /\ End(t)
  /\ UNCHANGED <<store, beacon, paired, late, token, reloads, crashed>>

\* signOut, or the token expires: the wallet is left alone.
SignOut ==
  /\ token # None /\ token' = None
  /\ UNCHANGED <<store, beacon, paired, late, signingIn, tasks, started, reloads, crashed>>

\* The import of an abandoned restore fails unobserved.
AbandonedFails(t) ==
  /\ t.op = "abandoned" /\ End(t)
  /\ UNCHANGED <<store, beacon, paired, late, authStore, reloads, crashed>>

\* A page load: what is persisted stays.
Reload ==
  /\ reloads < MaxReloads /\ reloads' = reloads + 1
  /\ Idle /\ wallet' = 0 /\ subscribed' = FALSE /\ instances' = 0 /\ listening' = FALSE
  /\ late' = FALSE /\ signingIn' = FALSE /\ tasks' = {} /\ crashed' = FALSE
  /\ UNCHANGED <<flag, paired, token, started>>

-----------------------------------------------------------------------------

User == Restore \/ Connect \/ Disconnect \/ SignIn \/ SignOut \/ Reload

\* The extension, Beacon and the network.
Outside ==
  \/ HandleExternalDisconnect \/ LateCall
  \/ \E t \in tasks :
       \/ Permit(t) \/ GotAccount(t) \/ BeaconReturns(t) \/ GotChallenge(t)
       \/ Sign(t) \/ Verify(t)
       \/ RestoreThrows(t) \/ ConnectThrows(t) \/ SignInFails(t) \/ AbandonedFails(t)

\* import() ends, and so do the timers and what follows them.
Page(t) == CreateInstance(t) \/ RestoreTimeout(t) \/ SafeBeaconCall(t) \/ DisconnectDone(t)

WalletNext == User \/ Outside \/ \E t \in tasks : Page(t)

Fairness == WF_walletVars(\E t \in tasks : Page(t))

WalletSpec == WalletInit /\ [][WalletNext]_walletVars /\ Fairness

-----------------------------------------------------------------------------
(* Properties                                                              *)

\* The types; a connected store has an address, which WalletInfo needs to
\* offer the button that disconnects.
WalletTypeOK ==
  /\ ui \in {"idle", "restoring", "connecting", "connected", "error"}
  /\ address \in Account \cup {None} /\ paired \in Account \cup {None}
  /\ token \in Account \cup {None}
  /\ wallet \in 0..instances /\ instances \in 0..MaxTasks
  /\ {flag, subscribed, listening, late, signingIn, crashed} \subseteq BOOLEAN
  /\ \A t \in tasks : t.no \in 1..started
  /\ ui = "connected" => address # None

\* A store that is busy, so that its button is disabled, has a call that will
\* end that, unless a restore of this page died of an exception; and there is
\* one sign-in at a time, while the button says so.
BusyHasATask ==
  /\ ui = "connecting" => \E t \in tasks : t.op = "connect"
  /\ ui = "restoring" => crashed \/ \E t \in tasks : t.op = "restore"
  /\ \A t, u \in tasks : t.op = "signIn" /\ u.op = "signIn" => t = u /\ signingIn
  /\ signingIn => \E t \in tasks : t.op = "signIn"

\* "SDK may hang on disconnect; UI must still reset": whatever Beacon does, a
\* disconnect ends.
DisconnectEnds ==
  \A n \in 1..MaxTasks :
    (\E t \in tasks : t.no = n /\ t.op = "disconnect") ~>
      ~(\E t \in tasks : t.no = n /\ t.op = "disconnect")
=============================================================================
