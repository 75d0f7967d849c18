---------------------------- MODULE UserAccounts ----------------------------
(***************************************************************************)
(* UsersService and TelegramService of apps/api behind their controllers:  *)
(* the account of each wallet, the one-time tokens for its email address   *)
(* and its Telegram chat, and the requests that are in flight.  A step is  *)
(* what a handler does between two awaits; at an await other requests run, *)
(* the account may be deleted and made again, and the process may restart, *)
(* which empties both token maps.                                          *)
(*                                                                         *)
(* A token has the number of the request that made it.  Time only passes   *)
(* as far as it matters: a token or a JWT lapses at some point.  The       *)
(* notifications that the handlers enqueue are in Notifications.           *)
(***************************************************************************)
EXTENDS Naturals, FiniteSets

CONSTANTS Wallet, Email, Chat,
          None,         \* null
          MaxRequests,  \* bound: requests that reach a handler
          MaxRestarts   \* bound: restarts of the API

ASSUME BoundsAssumption == MaxRequests \in Nat /\ MaxRestarts \in Nat

VARIABLES
  users,        \* User, by wallet
  jwts,         \* the wallets that hold a valid access token
  emailTokens,  \* UsersService.emailVerificationTokens
  linkTokens,   \* TelegramService.pendingTokens
  requests,     \* the handlers that wait at an await, with their locals
  started,      \* requests so far
  restarts,
  used,         \* history: tokens whose update was made, with the request
  asked         \* history: the columns that each account was asked to set

vars == <<users, jwts, emailTokens, linkTokens, requests, started, restarts, used, asked>>
tokenVars == <<emailTokens, linkTokens, used>>

Toggle == {"emailEnabled", "telegramEnabled"}
DefaultPreferences == {"emailEnabled"}

Account == [email: Email \cup {None}, emailVerified: BOOLEAN,
            chat: Chat \cup {None}, telegramVerified: BOOLEAN,
            preferences: {None} \cup SUBSET Toggle, consent: BOOLEAN]

NewAccount == [email |-> None, emailVerified |-> FALSE,
               chat |-> None, telegramVerified |-> FALSE,
               preferences |-> None, consent |-> FALSE]

Column == DOMAIN NewAccount

Token == [no: 1..MaxRequests, wallet: Wallet, lapsed: BOOLEAN]

Init ==
  /\ users = [w \in Wallet |-> None] /\ jwts = {}
  /\ emailTokens = {} /\ linkTokens = {} /\ used = {}
  /\ requests = {} /\ started = 0 /\ restarts = 0
  /\ asked = [w \in Wallet |-> {}]

-----------------------------------------------------------------------------
(* Requests                                                                *)

\* Another request reaches its handler, which waits at pc.
Start(pc, w, arg, token) ==
  /\ started < MaxRequests /\ started' = started + 1
  /\ requests' = requests \cup {[no |-> started', pc |-> pc, wallet |-> w, arg |-> arg,
                                 token |-> token, seen |-> None]}

\* The handler is done, or an exception ends it.
End(r) == requests' = requests \ {r} /\ UNCHANGED started

Goto(r, pc, seen) ==
  /\ requests' = (requests \ {r}) \cup {[r EXCEPT !.pc = pc, !.seen = seen]}
  /\ UNCHANGED started

\* JwtAuthGuard: the bearer of a valid access token, whatever became of the
\* account since it was issued.
Guarded(by) == by \in jwts

\* assertOwner: the token is the one of the wallet in the URL.
AssertOwner(by, w) == by = w

\* What a handler that waits at pc is to set, the token it makes included.
ColumnsOf(pc) ==
  CASE pc \in {"email.lookup", "email.update", "email.mint"} -> {"email", "emailVerified"}
    [] pc = "verify.update" -> {"emailVerified"}
    [] pc = "link.update" -> {"chat", "telegramVerified"}
    [] pc \in {"preferences.read", "preferences.write"} -> {"preferences"}
    [] pc \in {"consent.read", "consent.write"} -> {"consent"}

\* What the handlers and the tokens of a wallet may still set.
Pending(w) ==
  {c \in Column :
     \/ \E r \in requests : r.wallet = w /\ c \in ColumnsOf(r.pc)
     \/ c = "emailVerified" /\ \E t \in emailTokens : t.wallet = w
     \/ c \in {"chat", "telegramVerified"} /\ \E t \in linkTokens : t.wallet = w}

\* The history, when an account that exists is asked for these columns, and
\* when one appears that is made with them.
Ask(w, columns) ==
  asked' = [asked EXCEPT ![w] = IF users[w] = None THEN {} ELSE @ \cup columns]
Appear(w, columns) == asked' = [asked EXCEPT ![w] = Pending(w) \cup columns]

\* A protected request for the account w.
Protected(pc, w, arg) ==
  /\ \E by \in Wallet : Guarded(by) /\ AssertOwner(by, w)
  /\ Start(pc, w, arg, 0) /\ Ask(w, ColumnsOf(pc))
  /\ UNCHANGED <<users, jwts, tokenVars, restarts>>

\* What the unique columns of User refuse.
EmailTaken(w, e) == \E v \in Wallet \ {w} : users[v] # None /\ users[v].email = e
ChatTaken(w, c) == \E v \in Wallet \ {w} : users[v] # None /\ users[v].chat = c

\* user.update of this wallet's row; without a row it throws.
Update(w, row) == users[w] # None /\ users' = [users EXCEPT ![w] = row]

\* A database call of a waiting handler fails: an error 500.
Fail(r) == End(r) /\ UNCHANGED <<users, jwts, tokenVars, restarts, asked>>

-----------------------------------------------------------------------------
(* Sign-in and the legacy registration                                     *)

\* The account is made when there is none, and left alone otherwise.
MakeIfNone(w) ==
  \/ users[w] = None /\ users' = [users EXCEPT ![w] = NewAccount] /\ Appear(w, {})
  \/ users[w] # None /\ UNCHANGED <<users, asked>>

\* POST /auth/verify has accepted the wallet: see SiwwAuth.
SignIn(w) ==
  /\ w \notin jwts \/ users[w] = None
  /\ jwts' = jwts \cup {w}
  /\ MakeIfNone(w)
  /\ UNCHANGED <<tokenVars, requests, started, restarts>>

\* JWT_TTL_SECONDS have passed.
Expire(w) ==
  /\ jwts' = jwts \ {w} /\ w \in jwts
  /\ UNCHANGED <<users, tokenVars, requests, started, restarts, asked>>

\* POST /delegations: the upsert that DelegationsService.create begins with.
\* Nobody has to be signed in.  The rest of it is in DelegationSync.
AutoRegister(w) ==
  /\ started < MaxRequests /\ started' = started + 1
  /\ MakeIfNone(w)
  /\ UNCHANGED <<jwts, tokenVars, requests, restarts>>

\* register: one upsert.  A field that is not sent (None) is left alone, and
\* an address that is replaced keeps its verified mark.
Register(w, e, c) ==
  /\ started < MaxRequests /\ started' = started + 1
  /\ ~EmailTaken(w, e) \/ e = None
  /\ ~ChatTaken(w, c) \/ c = None
  /\ LET old == IF users[w] = None THEN NewAccount ELSE users[w]
     IN users' = [users EXCEPT ![w] =
                    [old EXCEPT !.email = IF e = None THEN @ ELSE e,
                                !.chat = IF c = None THEN @ ELSE c]]
  /\ LET given == (IF e = None THEN {} ELSE {"email"}) \cup (IF c = None THEN {} ELSE {"chat"})
     IN IF users[w] = None THEN Appear(w, given) ELSE Ask(w, given)
  /\ UNCHANGED <<jwts, tokenVars, requests, restarts>>

-----------------------------------------------------------------------------
(* The email address                                                       *)

PutEmail(w, e) == Protected("email.lookup", w, e)

\* user.findUnique by the address: 409 when another wallet has it.
LookUpEmail(r) ==
  /\ r.pc = "email.lookup"
  /\ IF EmailTaken(r.wallet, r.arg) THEN End(r) ELSE Goto(r, "email.update", None)
  /\ UNCHANGED <<users, jwts, tokenVars, restarts, asked>>

\* Mutated form: the lookup is all that stands between two wallets.
WriteEmailUnindexed(r) ==
  /\ r.pc = "email.update"
  /\ Update(r.wallet, [users[r.wallet] EXCEPT !.email = r.arg, !.emailVerified = FALSE])
  /\ Goto(r, "email.mint", None)
  /\ UNCHANGED <<jwts, tokenVars, restarts, asked>>

\* The update: it throws when the address was taken since (see Fail).
WriteEmail(r) ==
  /\ r.pc = "email.update" /\ ~EmailTaken(r.wallet, r.arg)
  /\ Update(r.wallet, [users[r.wallet] EXCEPT !.email = r.arg, !.emailVerified = FALSE])
  /\ Goto(r, "email.mint", None)
  /\ UNCHANGED <<jwts, tokenVars, restarts, asked>>

\* The token, which names the wallet and not the address.
MintEmailToken(r) ==
  /\ r.pc = "email.mint"
  /\ emailTokens' = emailTokens \cup {[no |-> r.no, wallet |-> r.wallet, lapsed |-> FALSE]}
  /\ End(r)
  /\ UNCHANGED <<users, jwts, linkTokens, used, restarts, asked>>

\* verifyEmail up to its await.
VerifyEmail(t) ==
  /\ t \in emailTokens /\ emailTokens' = emailTokens \ {t}
  /\ IF t.lapsed THEN UNCHANGED <<requests, started>>
                 ELSE Start("verify.update", t.wallet, None, t.no)
  /\ UNCHANGED <<users, jwts, linkTokens, used, restarts, asked>>

\* The history of an update that a token has authorised.
Use(r) == used' = used \cup {[no |-> r.no, token |-> r.token]}

WriteVerified(r) ==
  /\ r.pc = "verify.update"
  /\ Update(r.wallet, [users[r.wallet] EXCEPT !.emailVerified = TRUE])
  /\ Use(r) /\ End(r)
  /\ UNCHANGED <<jwts, emailTokens, linkTokens, restarts, asked>>

-----------------------------------------------------------------------------
(* The Telegram chat                                                       *)

\* init: a token for the wallet that the caller names.
InitTelegram(w) ==
  /\ started < MaxRequests /\ started' = started + 1
  /\ linkTokens' = linkTokens \cup {[no |-> started', wallet |-> w, lapsed |-> FALSE]}
  /\ Ask(w, ColumnsOf("link.update"))
  /\ UNCHANGED <<users, jwts, emailTokens, requests, restarts, used>>

\* Mutated form: the token is consumed when the chat is linked.
HandleCallbackKeeps(t, c) ==
  /\ t \in linkTokens /\ ~t.lapsed
  /\ Start("link.update", t.wallet, c, t.no)
  /\ UNCHANGED <<users, jwts, tokenVars, restarts, asked>>

\* handleCallback up to its await, for a callback that the bot has signed in
\* time: the token is gone, also when it has lapsed or the link fails.
HandleCallback(t, c) ==
  /\ t \in linkTokens /\ linkTokens' = linkTokens \ {t}
  /\ IF t.lapsed THEN UNCHANGED <<requests, started>>
                 ELSE Start("link.update", t.wallet, c, t.no)
  /\ UNCHANGED <<users, jwts, emailTokens, used, restarts, asked>>

\* PUT /users/:walletPkh/telegram: the same update, without a token.
PutTelegram(w, c) == Protected("link.update", w, c)

\* Mutated form: the chat is written into the column of the address.
LinkTelegramSwapped(r) ==
  /\ r.pc = "link.update" /\ ~ChatTaken(r.wallet, r.arg)
  /\ Update(r.wallet, [users[r.wallet] EXCEPT !.email = r.arg, !.telegramVerified = TRUE])
  /\ IF r.token = 0 THEN UNCHANGED used ELSE Use(r)
  /\ End(r)
  /\ UNCHANGED <<jwts, emailTokens, linkTokens, restarts, asked>>

\* linkTelegram
LinkTelegram(r) ==
  /\ r.pc = "link.update" /\ ~ChatTaken(r.wallet, r.arg)
  /\ Update(r.wallet, [users[r.wallet] EXCEPT !.chat = r.arg, !.telegramVerified = TRUE])
  /\ IF r.token = 0 THEN UNCHANGED used ELSE Use(r)
  /\ End(r)
  /\ UNCHANGED <<jwts, emailTokens, linkTokens, restarts, asked>>

-----------------------------------------------------------------------------
(* Preferences, consent, deletion                                          *)

\* A partial body: the toggles of one value.
PutPreferences(w, partial) == Protected("preferences.read", w, partial)
PutConsent(w, given) == Protected("consent.read", w, given)

\* findUnique of updatePreferences and updateConsent: 404 without a row.
ReadAccount(r) ==
  /\ r.pc \in {"preferences.read", "consent.read"}
  /\ IF users[r.wallet] = None THEN End(r)
     ELSE Goto(r, IF r.pc = "consent.read" THEN "consent.write" ELSE "preferences.write",
               users[r.wallet].preferences)
  /\ UNCHANGED <<users, jwts, tokenVars, restarts, asked>>

\* { ...(seen ?? DEFAULT_PREFERENCES), ...partial }
Merged(seen, partial) ==
  LET current == IF seen = None THEN DefaultPreferences ELSE seen
  IN IF partial.value THEN current \cup partial.toggles ELSE current \ partial.toggles

\* Mutated form: the row is made again when it is gone.
WritePreferencesUpserts(r) ==
  /\ r.pc = "preferences.write"
  /\ LET old == IF users[r.wallet] = None THEN NewAccount ELSE users[r.wallet]
     IN users' = [users EXCEPT ![r.wallet] =
                    [old EXCEPT !.preferences = Merged(r.seen, r.arg)]]
  /\ End(r)
  /\ UNCHANGED <<jwts, tokenVars, restarts, asked>>

\* The whole merge of what was read before is written.
WritePreferences(r) ==
  /\ r.pc = "preferences.write"
  /\ Update(r.wallet, [users[r.wallet] EXCEPT !.preferences = Merged(r.seen, r.arg)])
  /\ End(r)
  /\ UNCHANGED <<jwts, tokenVars, restarts, asked>>

\* Mutated form: the row that was read is saved, with the consent changed.
WriteConsentWholeRow(r) ==
  /\ r.pc = "consent.write"
  /\ Update(r.wallet, [users[r.wallet] EXCEPT !.consent = r.arg, !.preferences = r.seen])
  /\ End(r)
  /\ UNCHANGED <<jwts, tokenVars, restarts, asked>>

\* The columns of the consent alone are written.
WriteConsent(r) ==
  /\ r.pc = "consent.write"
  /\ Update(r.wallet, [users[r.wallet] EXCEPT !.consent = r.arg])
  /\ End(r)
  /\ UNCHANGED <<jwts, tokenVars, restarts, asked>>

\* deleteAccount: one transaction.  The access token and the one-time tokens
\* of the wallet stay, and so do the requests that wait.
DeleteAccount(w) ==
  /\ \E by \in Wallet : Guarded(by) /\ AssertOwner(by, w)
  /\ started < MaxRequests /\ started' = started + 1
  /\ Update(w, None) /\ asked' = [asked EXCEPT ![w] = {}]
  /\ UNCHANGED <<jwts, tokenVars, requests, restarts>>

-----------------------------------------------------------------------------

\* A token is 24 hours, or five minutes, old.
Lapse(t) ==
  LET aged(tokens) == IF t \in tokens THEN (tokens \ {t}) \cup {[t EXCEPT !.lapsed = TRUE]}
                      ELSE tokens
  IN /\ ~t.lapsed
     /\ emailTokens' = aged(emailTokens) /\ linkTokens' = aged(linkTokens)
     /\ UNCHANGED <<users, jwts, requests, started, restarts, used, asked>>

\* The API process restarts.
Restart ==
  /\ restarts < MaxRestarts /\ restarts' = restarts + 1
  /\ emailTokens' = {} /\ linkTokens' = {} /\ requests' = {}
  /\ UNCHANGED <<users, jwts, started, used, asked>>

Partial == [toggles: SUBSET Toggle \ {{}}, value: BOOLEAN]

Arrive ==
  \/ \E w \in Wallet :
       \/ SignIn(w) \/ Expire(w) \/ AutoRegister(w) \/ DeleteAccount(w) \/ InitTelegram(w)
       \/ \E e \in Email : PutEmail(w, e)
       \/ \E c \in Chat : PutTelegram(w, c)
       \/ \E p \in Partial : PutPreferences(w, p)
       \/ \E given \in BOOLEAN : PutConsent(w, given)
       \/ \E e \in Email \cup {None}, c \in Chat \cup {None} : Register(w, e, c)
  \/ \E t \in emailTokens : VerifyEmail(t)
  \/ \E t \in linkTokens, c \in Chat : HandleCallback(t, c)

Continue ==
  \E r \in requests :
    \/ LookUpEmail(r) \/ WriteEmail(r) \/ MintEmailToken(r) \/ WriteVerified(r)
    \/ LinkTelegram(r) \/ ReadAccount(r) \/ WritePreferences(r) \/ WriteConsent(r)
    \/ r.pc # "email.mint" /\ Fail(r)

Next == Arrive \/ Continue \/ Restart \/ \E t \in emailTokens \cup linkTokens : Lapse(t)

Spec == Init /\ [][Next]_vars

-----------------------------------------------------------------------------
(* Properties                                                              *)

\* The types; that of the history asked is with its invariant in the proofs.
TypeOK ==
  /\ users \in [Wallet -> {None} \cup Account]
  /\ jwts \subseteq Wallet
  /\ emailTokens \subseteq Token /\ linkTokens \subseteq Token
  /\ started \in 0..MaxRequests /\ restarts \in 0..MaxRestarts
  /\ \A r \in requests : r.no \in 1..started /\ r.wallet \in Wallet
  /\ \A r, s \in requests : r.no = s.no => r = s
  /\ used \subseteq [no: 1..started, token: 1..started]

\* A one-time token authorises at most one update, whatever runs between the
\* check of the token and that update: as soon as a handler waits on it, or
\* has used it, no map has it any more ("Token tek kullanimlik").
TokensAreSpentOnce ==
  LET spent == {[no |-> r.no, token |-> r.token] : r \in {q \in requests : q.token # 0}}
                 \cup used
      kept == {t.no : t \in emailTokens \cup linkTokens}
  IN \A s, u \in spent : s.token \notin kept /\ (s.token = u.token => s = u)

\* Two wallets never have the same address or the same chat, although
\* updateEmail looks for the address one await before it writes it.
AddressesAreExclusive ==
  \A v, w \in Wallet : v # w /\ users[v] # None /\ users[w] # None =>
    /\ users[v].email = users[w].email => users[v].email = None
    /\ users[v].chat = users[w].chat => users[v].chat = None

\* An account that appears, by a sign-in, a registration or a delegation that
\* is posted, has no preference, no consent and no verified mark.  Neither a
\* request that was waiting when the account was deleted nor an access token
\* that outlived it makes one with what the deleted account had.  What they
\* may write once there is an account again is in ChoicesWereAskedFor.
NewAccountsAreBlank ==
  [][\A w \in Wallet : users[w] = None /\ users'[w] # None =>
       /\ ~users'[w].emailVerified /\ ~users'[w].telegramVerified
       /\ users'[w].preferences = None /\ ~users'[w].consent]_vars

\* Every column that an account has set was asked for: since it was made, or
\* by a request or a one-time token of its wallet that was waiting when it was
\* made.  So a deleted account leaves nothing in the next one of its wallet
\* but what had been asked for and was not done yet: the preferences that an
\* updatePreferences still merges into, or the mark that an old token sets.
ChoicesWereAskedFor ==
  \A w \in Wallet : users[w] # None =>
    \A c \in Column : users[w][c] # NewAccount[c] => c \in asked[w]
=============================================================================
