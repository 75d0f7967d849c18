# GalataBaker in TLA+

GalataBaker is a Tezos baker's dashboard: an API (NestJS, PostgreSQL through
Prisma), an indexer that copies what TzKT serves into the same database, and a
web front end with a Beacon wallet. This directory holds TLA+ specifications of
the parts whose correctness depends on the order of events, TLC
configurations that check them on small instances, and proofs, which TLAPS checks, that
the safety properties of those runs hold for all values of the constants.

Run `tlc -workers 2 -config <run>.cfg <module>.tla` for a model-checking run and
`tlapm <module>_proof.tla` for the proofs of a module. `PROJECT.json` lists runs,
mutants, theorems, hazards, and the source lines of every definition.

## Inventory

| Part | State | Operations | Hard behaviour | Correct when |
| --- | --- | --- | --- | --- |
| indexer loop (`apps/indexer/src/main.ts`) | `running` | three syncs in turn, catch, sleep, signal | a sync that always throws; a signal at any await | no sync stalls another; a signal ends the process with nothing half begun |
| delegation sync | `IndexerState('delegations')`, `Delegation.status` | scan a window of levels page by page, promote PENDING rows | crash between promotion and saved level; rows posted or deleted meanwhile; page and window boundaries | promoted rows say what the chain says; none is passed over |
| reward sync | `IndexerState('rewards')`, `Reward` | the same scan, upsert by `tzkt:<id>` | account deleted or created between two awaits; claims meanwhile; repeated windows | rewards belong to accounts that exist; none is lost or duplicated; a repeated window leaves a claim alone |
| baker sync | `Baker` | one snapshot, one upsert per delegate | a snapshot that ages while it is written; one upsert that throws | rows catch up with the chain |
| TzKT client | `lastCallAt`, `waitQueue` | throttle, try, back off, throw | overlapping callers; an outage that begins or ends between two tries | requests keep their distance; only an outage as long as all tries is seen by a caller |
| sign-in (API `auth`, web `lib/auth.ts`) | the challenge map, `User` | challenge, sign, verify, create user, JWT, welcome | double delivery, lost answers, expiry at the second, restart, two tabs, account switched in the wallet | accepted exactly when it is the first timely use of a challenge by the signer |
| users (API) | `User`, in-memory verification tokens | register, e-mail, Telegram, preferences, consent, deletion | tokens spent before their update; lookups one await before the write; deletion under everything else | a token counts once; addresses are exclusive; an account begins blank and sets only what was asked for |
| delegations (API) | `Delegation` | create: user upsert, baker lookup, insert, read on P2002 | two posts of a hash; deletion between the awaits | one row per hash |
| rewards (API) | `Reward.claimed` | claim: read, then update | two parallel claims | a claim that has ended stands against every later call |
| notifications (API) with its templates and providers | `Notification` | enqueue: read user, one row per channel, send, mark | fire-and-forget, account deleted or changed underneath, crash, provider that answers late, wrongly or never | a row says sent only if it was; no row is forgotten |
| Telegram linking (API) | `pendingTokens` | init, bot callback | expiry, consumed token and failed link | one token links once |
| wallet store (web), Beacon wallet (SDK) | zustand state, the shared wallet, Beacon's storage, a session flag, the token | restore, connect, disconnect, sign in, Beacon event, reload | promises that interleave, a wallet that never answers | busy only while a call runs that will end it; a disconnect ends |
| bakers (API) | none (reads `Baker`) | list, one baker | the table is written meanwhile | an active baker is listed as it is |
| queries (web) over the list handlers (API) | the query cache, the session | mount, fetch, retry, poll, mutate, invalidate | a write during a fetch; a list and its total read separately; a lost answer; an expired token | a visitor sees what he did; the badge catches up |
| health, UI, seed, scripts | none, or third-party | I/O, rendering | - | - |

The parts interact through the database (the indexer and the API share
tables), through TzKT (the chain is seen only through it), through un-awaited
calls of `NotificationService.enqueue`, and through cascades of
`deleteAccount`, which removes rows under the feet of every other part.

## Modules

Every step of an action is what the code does between two awaits, so that all
interleavings of awaits of different calls are explored. The database is
sequentially consistent per statement, transactions are one step.

| Module | Models | Composition |
| --- | --- | --- |
| `TzktFeed` | TzKT as the syncs query it (external) | extended by `LevelScan` |
| `LevelScan` | the loop that both syncs share: read the saved level and the head, page by page, save the level | extended by the two syncs, instantiated twice by `IndexerMain` |
| `DelegationSync` | `DelegationSync.run`, `DelegationsService.create`, `deleteAccount` | EXTENDS `LevelScan` |
| `DelegationLedger` | abstract: what a delegation row may do, no scan at all | refined by `DelegationSync` |
| `RewardSync` | `RewardSync.run`, `RewardsService.claim`, first sign-ins, `deleteAccount` | EXTENDS `LevelScan` |
| `TzktClient` | `TzktHttpClient.get` with `throttle`, one caller | extended by `BakerSync` |
| `BakerSync` | `BakerSync.run` against a changing chain, through the client | EXTENDS `TzktClient` |
| `BakerListing` | `BakersService`: what is shown of the table | EXTENDS `BakerSync` |
| `IndexerMain` | `runMain`, its three syncs, signals, restart | two INSTANCEs of `LevelScan` |
| `SiwwAuth` | browser tabs, `ChallengeService`, `AuthService` | - |
| `Providers` | the templates, `EmailService` and the providers, as sets of outcomes (no variables) | extended by `Notifications` |
| `Notifications` | `NotificationService` and the changes of an account that call it | EXTENDS `Providers` |
| `UserAccounts` | `UsersService`, `TelegramService`, their controllers and the JWT guard | - |
| `WalletStore` | the wallet store, `beacon.ts`, `subscribe.ts`, the SDK's wallet, `signIn` and the auth store of one page | - |
| `ApiQueries` | the hooks of `features/api`, `api-client.ts`, the list handlers | - |
| `LevelScan_proof` | lemmas about the scan loop, proved once for both syncs | EXTENDS `LevelScan` |
| `DelegationSync_proof`, `RewardSync_proof` | theorems and proofs | EXTENDS the sync and `LevelScan_proof` |
| `IndexerMain_proof`, `SiwwAuth_proof`, `UserAccounts_proof`, `Notifications_proof` | theorems and proofs | EXTENDS the module it is named after |
| `Clients_proof` | theorems and proofs of `BakerSync` with `TzktClient`, of `WalletStore` and of `ApiQueries` | EXTENDS all three, which share no name (hence `WalletSpec`, `QuerySpec`) |
| `MC*` | constants and symmetry sets for TLC | EXTENDS the module it is named after |

State and code correspond as follows.

- `ops`, `below`: the operations that TzKT serves, in the order of their ids,
  and how many there are up to each level. `lastSeen` is the `IndexerState`
  row. `pc`, `from`, `to`, `offset`, `scanned`, `cursor`, `pageEnd` are the locals of
  `run`; `pc` names the await at hand. `BeginScan`, `GetPage`, `NextOp` and
  `SaveLevel` are the awaits of the loop, `EndScan` what forgets the locals; a
  failure (`Abort`) can happen at any await, and also stands for the death of the
  process, which loses the same locals.
- `DelegationSync`: `rows[h]` is the row with `opsHash` h (the column is
  unique); `req[r]` is a call of `create` in flight; `Upsert`, `Insert` and
  `ReadExisting` are its awaits. `behind` and `late` are history variables: the rows
  posted behind the cursor of the run in progress (empty again when it ends), and those
  that no run will look for, because `lastSeen` was past their operation when they were posted or
  because the run they were posted behind succeeded.
- `RewardSync`: a `rewards` record stands for a row, `users` maps a wallet to the
  id of its present account, `found` is the user that `findUnique` returned.
  `missed` and `erased` are history variables: operations that were skipped
  because there was no user or no baker, and those whose rows a deletion removed;
  `overlap`, the calls of `claim` that had read a row when another call claimed it.
- `TzktClient`: `phase` is what `get` is doing (waiting for the throttle, asking,
  sleeping), `attempt` its loop counter, `since` the time since `lastCallAt` and `timer` what
  is left of a sleep, both in units of which `ThrottleUnits` make the throttle.
- `BakerSync`: `todo` is the part of the snapshot not yet written; `Visible` and
  `ListBakers` in `BakerListing` are the `where` and the answers of the API's list. The fee of
  a delegate that is not active is never asked for, so `Retired` has a fixed one.
- `IndexerMain`: `turn` is what the loop is at; one step stands for what a sync
  does with an operation, which `RewardSync` and `DelegationSync` detail.
- `SiwwAuth`: `store` is the challenge map, `tab[t]` the locals of `signIn`,
  `body[t]` its last request (it may be delivered again), `calls` the verified
  calls between their awaits. `WellFormed` is the DTO, which refuses keys of other curves
  before their challenge is consumed. `issuedAt` and `issuedIn` are histories: when a
  challenge was issued, and after how many restarts. A signature is the pair of the signing account and
  the signed message; nobody else can make it.
- `Notifications`: `calls[c]` is the c-th call of `enqueue` with its locals, among
  them the user as it was read and the channels still to do (a set: `Current` is the
  one the loop is at, EMAIL before TELEGRAM); `notes` is the table; `delivered` is a history
  variable. `UpdatePreferences` may write any set of channels, which is what a
  partial update merged with a stale reading can come to.

- `Providers`: a provider call is the set of pairs (delivered or not, what the caller is
  told). `deployed` in `Notifications` is the choice of `EMAIL_PROVIDER` and
  `TELEGRAM_PROVIDER`.
- `UserAccounts`: `requests` are the handlers that wait at an await, with what they
  read; tokens bear the number of the request that made them; `used` is a
  history variable. So is `asked`: the columns that each account was asked to set since it was
  made, or that a request or a token of its wallet was still to set when it was made.
  `AutoRegister` is the user upsert of `POST /delegations`, whose remainder is in
  `DelegationSync`.
- `WalletStore`: `tasks` are the asynchronous functions that wait at an await; `paired`
  is what Beacon's storage says, `flag` the disconnect flag of the session storage,
  `late` a `removeAllAccounts` that was given up and still runs, `crashed` a restore that
  ended in an uncaught exception.
- `ApiQueries`: the value of a table is the number of its writes (`ver`), so that an answer is as
  old as the writes it has seen; `cache[k]` is an entry of the query cache. Each hook is a
  record of what it asks, keeps, polls, writes and invalidates. What a page
  computes of the whole table (count, aggregate, groupBy) is one part, "total", read
  apart from the rows. `own` and the field `late` are history.

## Runs

Bounds are CONSTANTS whose comment says "bound". They are chosen so that each
hazard fits: two pages and a window over several levels (pages of one
operation), one failure at any await, an account that leaves and comes back,
two actors wherever two race.

| Run | Shows | Bounds |
| --- | --- | --- |
| `delegation_safety` | promoted rows are true; only rows posted behind the cursor of a run that succeeds, or later, are left behind; each window is read exactly once | 2 wallets, 2 hashes, 3 levels of up to 2 operations, pages of 1, 1 failure |
| `delegation_settle` | all other rows are settled, those posted during a run or in one that fails included; the whole implements `DelegationLedger` | 2 wallets racing with 2 calls for 1 hash, 3 levels, 1 failure |
| `delegation_eq` (violation) | with `level` read as an equality the window is not covered | 3 levels |
| `rewards` | ownership, completeness up to the documented skips, idempotence of a repeated window, credit in the end, a claim that only an overlapping one overwrites | 2 accounts in sequence for 1 wallet, 3 levels, pages of 1, 1 failure, 2 claims that may overlap, 2 hashes |
| `bakers` | active bakers are shown as they are once the chain rests and fits a page, and listed if the visible ones fit the list; short outages are absorbed; requests are spaced | 3 bakers, of which a page of the snapshot and a list hold 2, 3 fees, 1 change, 3 bad answers with 2 tries per call, 1 write or process that fails |
| `indexer_loop` | isolation of failures, one scan at a time, orderly stop | 3 levels, a reward scan that may throw at every tick, 1 failure of the other, 1 signal |
| `sign_in` | accepted = good, but for challenges issued before a restart; one welcome per account | 1 tab (its lost calls overlap with the next ones), 2 accounts, 2 challenges, deliveries up to 2, times past the time to live, 1 restart |
| `sign_in_timestamp` (violation) | the posted timestamp is not the signed one | 1 tab, 1 second |
| `notifications` | sent means delivered; no pending row is forgotten; a returned call tried all its channels | 2 accounts, 2 dispatches, 1 restart or database fault, 3 deployments that use every provider |
| `accounts` | tokens are spent once; addresses are exclusive; accounts begin blank and set only what was asked for | 2 accounts racing for 1 address and 1 chat, 3 requests of any kinds, 1 restart |
| `wallet` | busy stores have a call that ends it; disconnects end | 2 accounts, 3 calls of any kinds that may all overlap, 1 reload |
| `queries` | own writes are shown; the badge catches up | one list per behaviour, all six of them; 2 writes, 1 of them own, 2 failures, a second sign-in |

Every property of a passing run has a mutant: a definition of the model changed the
way a plausible bug would (an exclusive lower bound, a missing break, an early
return, a dropped guard), kept in the module as "Mutated form" next to the
definition; the run then reports the property violated.

`CHECK_DEADLOCK FALSE` is set where the bound on calls or blocks makes
the instance stop; the remaining runs are checked for deadlock.

### Fairness

Weak fairness is assumed of the code's own steps and of nothing else: of
`RunStep` in the syncs (`runMain` calls them again at every tick, whether they
returned or threw), of `LoopStep` and of `Restart` in `IndexerMain` (an operator or the
container's restart policy starts a stopped process). Users, wallets, the
chain, signals and failures have none. Liveness is stated for runs whose
failures are finitely many, except in `indexer_loop`, where the reward scan may
fail for ever and the delegation scan must progress all the same. `BakerSync` assumes
it of the run and of the clock (a sleep ends). `WalletStore` assumes it of the page's own
`import()` and timers only: the wallet extension, Beacon and the network may be
silent for ever. `ApiQueries` assumes it, key by key, of a fetch (a request ends,
or fails) and of the poll timer; visitors may do nothing. Delegations
are promoted only once the chain has a level above that of their operation and a later
run begins, which the properties say explicitly.

## What the code does differently from its documents

The first two have a violation run. The others were met while modelling; the models
do what the code does, and the properties except them by name.

1. (`delegation_eq`) The syncs send `level=<n>`, an equality in TzKT's syntax, where the
   comments and the indexer's README say `level.ge`. All other runs use the documented
   reading (`LevelParam = "ge"`), so that the rest of the loop can be judged; what
   they show holds of the code once the parameter is right.
2. (`sign_in_timestamp`) `signIn` posts the browser's time instead of the challenge's
   creation time, so a signature that takes a second or more to make is refused.
3. `RewardsService.claim` reads, tests `claimed`, and updates by `opsHash` alone; its comment
   calls this atomic. Of two claims that overlap the second overwrites the first:
   `ClaimIsFinal` lets a call overwrite a claim only if it had read the row before it was claimed.
4. A delegation row posted after the indexer passed its operation, behind the cursor of a run
   that succeeds or later, is never promoted, although the module calls itself the
   truth-teller. `OnlyLateRowsAreStranded` and `TimelyRowsSettle` except these rows and
   no others: one posted ahead of the cursor, or behind the cursor of a run that then
   fails, is promoted.
5. The first sign-in is a `findUnique` and a `create`, not the idempotent upsert of
   the comment: of two at once one fails, after its challenge was consumed.
6. The baker snapshot asks for active delegates only: a baker that is deactivated never gets
   the status `closed` that the header promises, and stays in the list.
   It asks for one page of 500, and the API's list shows at most 100 bakers (20 unless
   asked for more) and has no second page, where closed ones that kept their row count too:
   `ActiveBakersListed` has both conditions, and the instance goes beyond both.
7. `Baker.fee` is a `Decimal(5,3)` and is given basis points: a fee of 100 or more
   does not fit, the upsert throws, and the bakers after it in the snapshot are not
   refreshed at that or any later tick. `AllFit` excepts this.
8. `enqueue` is documented never to throw; it rejects when the account is
   deleted between the lookup and the insert, or when the `markFailed` of the catch
   throws (its callers catch and log this). Model: `Create` and `MarkRow` can end in
   `"rejected"`.
9. `PUT /users/:pkh/email` discards the verification token, which no e-mail carries; the
   comment of `updateEmail` expects the controller to send it. `GET /users/verify-email`
   reads its token from the body of a GET, which is not parsed: no client reaches
   `verifyEmail`, which the model lets be called all the same.
10. `deleteAccount` ("full wipe") leaves the access token and the one-time tokens of the
    wallet, and the requests that wait. None of them makes an account with what the
    deleted one had (`NewAccountsAreBlank`). But when the wallet registers again meanwhile, by a
    sign-in, `register` or a posted delegation, they write into the new account what they
    were to write into the old one: an old e-mail token marks it verified, and an
    `updatePreferences` that had read the old account writes the old preferences, merged with its own,
    into the new one. `ChoicesWereAskedFor` says that nothing else is carried over: no
    column that no waiting request or token was to set.
11. The ceiling of five seconds on `restore` covers the creation of the wallet only, and
    `restore` has no catch: a `getActiveAccount` that hangs or throws leaves the store in
    `restoring`. `BusyHasATask` excepts the exception (`crashed`), and does not promise that a
    restore ends.
12. `getOrCreateWallet` makes two wallets when two callers find none, against the
    "singleton" of its header; the second one wins and the first is not listened to
    any more.
13. Every `ACTIVE_ACCOUNT_SET` is taken as a disconnect, also the one that selects an
    account. A `removeAllAccounts` that was given up after 1.5 s can take effect
    later, on the next pairing (`LateCall`).
14. `signOut` of `auth.ts` is said to clear the wallet connection and clears the token.
15. An invalidation does not restart the first fetch of a list that is under way, so a list can
    show, for its stale time, rows older than what the visitor just did: the field `late`
    of `ApiQueries` excepts this from `OwnWritesShown`, and polling repairs it for the badge.
    `useDeleteAccount` invalidates nothing. An answer of 401 does not sign the visitor out.
16. The dashboard says that it refreshes every 60 s; `useBakers` has no `refetchInterval`.

## Proofs

Every invariant and every action property of the passing runs is a theorem too, for
all values of the constants that meet the hypotheses below, and so is the refinement of `DelegationLedger`. The
runs are there to find errors fast, and for liveness.

| Module | Theorem | Property | For |
| --- | --- | --- | --- |
| `DelegationSync_proof` | `TypeCorrect`, `Truthful` | `TypeOK`, `RowsTellTheTruth` | all constants |
| | `WindowScanned`, `NoneStranded` | `ScanCoversWindow`, `OnlyLateRowsAreStranded` | `LevelParam = "ge"` |
| | `Refinement` | `ImplementsLedger` | all constants |
| `RewardSync_proof` | `TypeCorrect`, `WellOwned`, `RowsImmutable` | `TypeOK`, `RewardsWellOwned`, `ScanKeepsRows` | all constants |
| | `WindowScanned`, `NoneLost` | `ScanCoversWindow`, `OnlySkippedAreMissing` | `LevelParam = "ge"` |
| | `ClaimsAreFinal` | `ClaimIsFinal` | all constants |
| `IndexerMain_proof` | `TypeCorrect`, `NeverTwoScans`, `Graceful` | `TypeOK`, `OneScanAtATime`, `NoSyncBeginsAfterSignal` | all constants |
| `SiwwAuth_proof` | `TypeCorrect`, `Sound`, `Complete`, `Welcomed` | `TypeOK`, `AcceptedAreGood`, `GoodAreAccepted`, `WelcomedOnce` | all constants |
| `UserAccounts_proof` | `TypeCorrect`, `SpentOnce`, `Exclusive`, `BeginsBlank`, `AskedFirst` | `TypeOK`, `TokensAreSpentOnce`, `AddressesAreExclusive`, `NewAccountsAreBlank`, `ChoicesWereAskedFor` | all constants |
| `Notifications_proof` | `TypeCorrect`, `Delivered`, `NoneForgotten`, `AllTried` | `TypeOK`, `SentWasDelivered`, `PendingRowsHaveADispatch`, `ReturnedCallsTriedAllChannels` | all constants |
| `Clients_proof` | `BakerTypes`, `OutagesAbsorbed`, `RequestsSpaced` | `TypeOK`, `ShortOutagesAreAbsorbed`, `RequestsAreSpaced` (of `BakerSync`) | all constants |
| | `PageTypes`, `ButtonsComeBack` | `WalletTypeOK`, `BusyHasATask` | all constants |
| | `QueryTypes`, `VisitorsSeeTheirWrites` | `QueryTypeOK`, `OwnWritesShown` | all constants |

The runs evaluate `ScanCoversWindow`, a formula of `LevelScan`, on the delegation sync; for the
reward sync it is proved and the run `rewards` checks what follows from it, `OnlySkippedAreMissing`.

Each component has an invariance theorem (`Invariance`; in `Clients_proof` `BakerInvariance`,
`PageInvariance` and `QueryInvariance`) for its inductive invariant, with one lemma per action under it.

### Assumptions

Besides the hypotheses of the table the proofs use the named ASSUMEs of the modules, which the
runs evaluate: the page size is a positive number; "applied" is an operation
status; `NoRow`, `NoClaim` and `None` are not rows, claims or accounts (and `NoRow` no fate);
the bounds of `UserAccounts` and `WalletStore` are numbers; the bakers are finitely many and the client's
tries, pauses and throttle are as `RetriesAssumption` says; fees and page sizes are numbers; `TTL` and `Skew` are numbers.

`LevelParam = "ge"` is the documented reading of the query (see the first divergence
above; under the other one the run `delegation_eq` refutes `ScanCoversWindow`).

### The scan (`LevelScan_proof`)

`TypeOK` is not inductive: `lastSeen \in 0..head`, and that the cursor denotes an
operation, depend on the shape of the feed and of the window. `ScanInv` says that
`below` separates the operations of the levels (`FeedInv`: the ids up to
`Upto(below, l)` are exactly those at levels up to l), that every operation is at a
level of the chain (`LevelsInv`), that a run in progress scans from `lastSeen` to
a level that was the head, with its cursor inside its page (`RunInv`), and that
`scanned` counts the operations that the pages had so far (`CountInv`), which gives
`ScanCoversWindow` when the run ends. Its lemmas say that each step of the loop
and each new block keeps it.

`Swept(Done)` is what both completeness theorems share: every operation that the scan has
dealt with (`Handled`: below the saved level, before the page or before the cursor) is in `Done`.
A new block adds operations above the head only. A failed or
finished run hands back only operations at or above `lastSeen`, because all those
below lay before its window: this is where the lower bound enters, the window must
begin at the saved level and not above it.

### The syncs

`DelegationSync`: `Truthful` follows because an update writes the outcome of the operation
under the cursor to a row of that operation's hash, and the feed only grows.
`NoneStranded` is `Swept` for the operations that have no PENDING row or one that is `late`
or `behind`: an insert leaves that set only behind the cursor, where it makes the row one of
these; when a run succeeds the rows behind it become `late`. When it fails, `OnlyLateRowsAreStranded`, which
speaks of the runs before, settles what lies below `lastSeen`, and the rest is handed back
with them (`SweepInv`).
`Refinement` maps the feed to the ledger's `fate`, and adds to `IInv`
that ids of rows grow, that an operation's hash is on the chain once, and that the row which a run has
picked is PENDING as long as it has that id (`LedgerInv`);
an update of a row is the ledger's `Resolve`, an insert its `Post`,
a new block its `Decide`, and all else stutters.

`RewardSync`: a row is upserted for the user that an earlier await found. `RewardsWellOwned`
needs that ids of accounts are never used twice (`AccountsInv`) and that the
user a run has found is still the account of the recipient or is gone, and then
the insert fails (`FoundInv`). `NoneLost` is `Swept` for the operations that have a row, were
skipped, or lost their row to a deletion. `ClaimsAreFinal` needs that a call that has read an
unclaimed row still finds it unclaimed unless it is in `overlap`: a rescan cannot change
it, and another claim puts all that had read the row there (`ClaimInv`).

`IndexerMain`: a scan under way has its sync's turn (`ScanHasTheTurn`), which every throw,
signal and restart keeps.

`BakerSync` with `TzktClient`: bad answers are accounted for. Those of the calls that
threw, `threw * MaxRetries`, and those of the call at hand (`Suffered`) are at most
`bad`. A call that sleeps for the throttle wakes up when it is over
(`since + timer >= ThrottleUnits`).

### The API

`SiwwAuth`: a request is judged by the store, and the property by the history. `StoreInv` and
`MessagesInv` connect them: a challenge in the store has not been judged and bears the time it was issued
at, and what tabs sign and post was issued by the API. `LostInv`, a challenge issued since the last
restart that left the store was judged or is too old, is what makes `Complete` true. `WelcomeInv`: of the calls
that created an account there is one that has yet to welcome it, or it did.

`UserAccounts`: a token leaves its map before the update that it authorises, which lies an await
later. So `SpentInv` speaks of the requests in flight as well: the tokens kept, those
borne by a request and those used are apart, and the number of a request that is about to
mint is no token yet. A token's number is one token in one map. `AskedInv` adds to
`ChoicesWereAskedFor` that what still waits for an account (`Pending`) is in `asked` too: no step makes a
wallet's handlers or tokens wait for more than it was asked for (`NothingNew`), and a handler's
update stays within its columns (`RowWritten`).

`Notifications`: a call of `enqueue` works on a copy of the user, so `RowsInv` relates a row
to that copy and to the place of its call: one row for each channel of a call, and while the
channel is to be done, the row is the one that the call deals with. `ProgressInv` says where the row of
each due channel is: there, still to be made, or given up. `AnswersInv` remembers what the
provider said until it is marked. Rows of deleted accounts are gone
(`NotesInv`), so the copy's id must not come back: ids are not reused.

### The web

`WalletStore`: `BusyHasATask` itself is inductive once it is known at which awaits each
function can wait (`WaitsWell`). That a page makes no more instances than functions were called
needs a count: those made, and the tasks that may still make one (`Importers`), are at most those
started.

`ApiQueries`: what is shown was read before, so `ReadsOwn` says of a fetch under way what
`OwnWritesShown` says of one that is over. A mutation raises the bar for all of its
keys; the lemma `WritesAreHit` says that `onSuccess` invalidates every key of
what was written (the deletion of the account, which does not, raises no bar), and
`InvalidatedIsOK` that an entry is then asked for again, invalid or known to be late.

### Left to TLC

Liveness: `TimelyRowsSettle`, `EligibleGetCredited`, `ActiveBakersListed`, `DisconnectEnds`,
`BadgeCatchesUp`, `BrokenSyncStallsNoOther`, `SignalStops`. Their proofs need ENABLED and
induction over a measure, which the installed provers do not do. Likewise what a
sum over a set comes to (`TotalWrites` of `ApiQueries`) and which sequences `ListBakers`
answers; no safety theorem needs them. No module uses RECURSIVE.

## Plan

Done: the modules above, in that order, because the indexer decides what all
users see and has no tests of its interleavings; then their theorems.

Left, in this order:

1. Refinement: each scan of `IndexerMain` is a behaviour of `LevelScan` for itself; what a single
   row or token may do, as action properties next to the invariants
   (a notification is marked once, a token is never kept again after it was spent).
2. The steps of the liveness arguments that are safety: what a run under way cannot undo
   of a row to be settled, and of a baker to be listed.
3. Pure helpers against reference definitions: template rendering, address checks
   of the SDK.

## Not modelled

Rendering and layout (pages, e-mail HTML, the substitution of template variables),
configuration parsing, NestJS wiring, the throttler (library), health checks and `ping`, the formats
of HTTP and SMTP, cryptography beyond "a signature names its signer and its message" (the
bot's HMAC is a callback that is accepted or not there), the amounts and the cycle number of a reward, the
columns of a baker other than status and fee, offsets and filters of the lists,
`refetchOnWindowFocus` (the poll covers what it does), reorganisations of the chain (the
indexer does not handle them), seed data and scripts, and third-party code (Beacon,
TanStack Query, Prisma) beyond what the code relies on, which the map marks as external.
The limits of 500 delegates per snapshot and of 100 rows per list are parameters
of the models (`SnapshotLimit`, `Limit`), which the run `bakers` sets to 2 so that three bakers exceed both.
