------------------------------ MODULE SiwwAuth ------------------------------
(***************************************************************************)
(* Sign-in with the wallet: the browser tabs (signIn of apps/web), the     *)
(* one-time challenges (ChallengeService) and their verification           *)
(* (AuthService.verifyAndConnect).  A request may be delivered again, an   *)
(* answer may be lost, the API may restart, time passes in between, and    *)
(* the user may switch accounts in the wallet.                             *)
(*                                                                         *)
(* A signature is the pair of the signer and the signed message; a message *)
(* is the pair of its nonce and its timestamp.                             *)
(***************************************************************************)
EXTENDS Integers, Sequences

CONSTANTS Tab, Wallet,
          Edpk,           \* the wallets whose key is an edpk (tz1)
          TTL,            \* SIWW_CHALLENGE_TTL_SECONDS
          Skew,           \* SIWW_MAX_TIMESTAMP_SKEW
          MaxTime,        \* bound: seconds
          MaxNonces,      \* bound: challenges issued
          MaxDeliveries,  \* bound: deliveries of one request
          MaxRestarts     \* bound: restarts of the API

ASSUME ConfigAssumption == TTL \in Nat /\ Skew \in Nat /\ Edpk \subseteq Wallet

VARIABLES
  now,         \* seconds
  store,       \* ChallengeService.store: the time of creation, by nonce
  nonces,      \* challenges issued so far
  users,       \* User: the registered wallets
  tab,         \* signIn: where each tab is, with its locals
  body,        \* the request that each tab has posted last
  deliveries,  \* how often it was delivered
  calls,       \* verifyAndConnect: the calls in flight after the checks
  restarts,
  issuedAt,    \* history: the time of creation of every challenge
  issuedIn,    \* history: the restarts before it was issued
  verdicts,    \* history: how each delivery was judged, see Deliver
  welcomes     \* history: register_confirmation enqueued for these accounts

apiVars == <<store, nonces, users, calls>>
history == <<issuedAt, issuedIn, verdicts, welcomes>>
vars == <<now, apiVars, tab, body, deliveries, restarts, history>>

NoTab  == [pc |-> "idle"]
Body   == [wallet: Wallet, key: Wallet, message: Nat \X Nat, nonce: Nat, timestamp: Nat]
Call   == [tab: Tab, pc: {"lookup", "create", "reply"}, wallet: Wallet,
           nonce: Nat, first: BOOLEAN]

Init ==
  /\ now = 0 /\ store = {} /\ nonces = 0 /\ users = {}
  /\ tab = [t \in Tab |-> NoTab] /\ body = [t \in Tab |-> NoTab]
  /\ deliveries = [t \in Tab |-> 0] /\ calls = {} /\ restarts = 0
  /\ issuedAt = <<>> /\ issuedIn = <<>> /\ verdicts = {}
  /\ welcomes = [w \in Wallet |-> 0]

Tick == /\ now < MaxTime /\ now' = now + 1
        /\ UNCHANGED <<apiVars, tab, body, deliveries, restarts, history>>

-----------------------------------------------------------------------------
(* The tab: signIn                                                         *)

\* Mutated form: milliseconds where the checks count seconds.
CreatedAtMillis == 1000 * now

CreatedAt == now

\* GET /auth/challenge, answered by ChallengeService.create.
GetChallenge(t) ==
  /\ tab[t].pc = "idle" /\ nonces < MaxNonces
  /\ nonces' = nonces + 1
  /\ store' = store \cup {[nonce |-> nonces', createdAt |-> CreatedAt]}
  /\ issuedAt' = Append(issuedAt, now) /\ issuedIn' = Append(issuedIn, restarts)
  /\ tab' = [tab EXCEPT ![t] = [pc |-> "sign", message |-> <<nonces', now>>]]
  /\ UNCHANGED <<now, users, calls, body, deliveries, restarts, verdicts, welcomes>>

\* wallet.signMessage: the user signs with some account, or declines.
Sign(t) ==
  /\ tab[t].pc = "sign"
  /\ tab' = [tab EXCEPT ![t] = NoTab]
     \/ \E w \in Wallet :
          tab' = [tab EXCEPT ![t] = [pc |-> "post", message |-> tab[t].message, key |-> w]]
  /\ UNCHANGED <<now, apiVars, body, deliveries, restarts, history>>

\* getActiveAccount, then POST /auth/verify with the time of the browser.
Post(t) ==
  /\ tab[t].pc = "post"
  /\ \E w \in Wallet :
       body' = [body EXCEPT ![t] =
                  [wallet |-> w, key |-> tab[t].key, message |-> tab[t].message,
                   nonce |-> tab[t].message[1], timestamp |-> now]]
  /\ deliveries' = [deliveries EXCEPT ![t] = 0]
  /\ tab' = [tab EXCEPT ![t] = [pc |-> "posted"]]
  /\ UNCHANGED <<now, apiVars, restarts, history>>

\* The request failed or its answer was lost: the error is shown.
GiveUp(t) ==
  /\ tab[t].pc = "posted"
  /\ tab' = [tab EXCEPT ![t] = NoTab]
  /\ UNCHANGED <<now, apiVars, body, deliveries, restarts, history>>

-----------------------------------------------------------------------------
(* ChallengeService                                                        *)

Expired(createdAt) == now - createdAt > TTL

\* Mutated form: the challenge is kept for the checks that follow.
StoreAfterKeeps(nonce) == store

\* consume: found or not, expired or not, the nonce is gone.
StoreAfter(nonce) == {s \in store : s.nonce # nonce}

Consumable(nonce) == \E s \in store : s.nonce = nonce /\ ~Expired(s.createdAt)

\* Mutated form: challenges are swept in their last second.
CleanupEarly ==
  /\ \E s \in store : now - s.createdAt >= TTL
  /\ store' = {s \in store : now - s.createdAt < TTL}
  /\ UNCHANGED <<now, nonces, users, calls, tab, body, deliveries, restarts, history>>

\* The interval timer.
Cleanup ==
  /\ \E s \in store : Expired(s.createdAt)
  /\ store' = {s \in store : ~Expired(s.createdAt)}
  /\ UNCHANGED <<now, nonces, users, calls, tab, body, deliveries, restarts, history>>

-----------------------------------------------------------------------------
(* AuthService                                                             *)

\* buildCanonicalMessage, of the nonce and the timestamp that were posted.
SignedMessage(b) == <<b.nonce, b.timestamp>>

\* verifyTezosSignedMessage: the signature, by b.key over b.message, is one
\* over the message rebuilt here.  Keys of other curves than edpk throw.
SignatureVerifies(b) == b.key \in Edpk /\ b.message = SignedMessage(b)

\* publicKeyToAddress, against the address posted.  A key has the name of the
\* wallet that its hash is the address of.
KeyMatches(b) == b.key \in Edpk /\ b.key = b.wallet

\* The checks of verifyAndConnect up to the first await: the nonce, the skew
\* of the timestamp, the signature, and the address of the key.
Accepts(b) ==
  /\ Consumable(b.nonce)
  /\ now - b.timestamp <= Skew /\ b.timestamp - now <= Skew
  /\ SignatureVerifies(b) /\ KeyMatches(b)

\* What an acceptable request is, said without the store: it is the first one
\* for its nonce, in time, signed by the wallet that it names, whose key is
\* an edpk, and it states the timestamp of the challenge.
Good(b) ==
  /\ \A v \in verdicts : v.nonce # b.nonce
  /\ now - issuedAt[b.nonce] <= TTL
  /\ now - issuedAt[b.nonce] <= Skew
  /\ b.timestamp = issuedAt[b.nonce]
  /\ b.key = b.wallet /\ b.key \in Edpk

\* siwwInputSchema: a body with a key of another curve is refused at the
\* controller, before its challenge is consumed.
WellFormed(b) == b.key \in Edpk

\* The answer is an error: the tab that still waits for it shows it.
Refuse(t) == tab' = IF tab[t].pc = "posted" THEN [tab EXCEPT ![t] = NoTab] ELSE tab

\* verifyAndConnect up to its first await.
Judge(t, b) ==
  /\ store' = StoreAfter(b.nonce)
  /\ verdicts' = verdicts \cup
       {[nonce |-> b.nonce, delivery |-> deliveries'[t], good |-> Good(b),
         accepted |-> Accepts(b), restarts |-> restarts]}
  /\ \/ /\ Accepts(b) /\ UNCHANGED tab
        /\ calls' = calls \cup {[tab |-> t, pc |-> "lookup", wallet |-> b.wallet,
                                 nonce |-> b.nonce, first |-> FALSE]}
     \/ ~Accepts(b) /\ Refuse(t) /\ UNCHANGED calls

\* A delivery of the request of a tab, the first one or another one.
Deliver(t) ==
  /\ body[t] # NoTab /\ deliveries[t] < MaxDeliveries
  /\ deliveries' = [deliveries EXCEPT ![t] = @ + 1]
  /\ \/ WellFormed(body[t]) /\ Judge(t, body[t])
     \/ ~WellFormed(body[t]) /\ Refuse(t) /\ UNCHANGED <<store, calls, verdicts>>
  /\ UNCHANGED <<now, nonces, users, body, restarts, issuedAt, issuedIn, welcomes>>

Step(c, d) == calls' = (calls \ {c}) \cup {d}

\* user.findUnique
LookUp(c) ==
  /\ c.pc = "lookup"
  /\ Step(c, [c EXCEPT !.pc = IF c.wallet \in users THEN "reply" ELSE "create"])
  /\ UNCHANGED <<now, store, nonces, users, tab, body, deliveries, restarts, history>>

\* Mutated form: an upsert, with the first time still decided by the lookup.
CreateUpserts(c) ==
  /\ c.pc = "create" /\ users' = users \cup {c.wallet}
  /\ Step(c, [c EXCEPT !.pc = "reply", !.first = TRUE])
  /\ UNCHANGED <<now, store, nonces, tab, body, deliveries, restarts, history>>

\* user.create, which throws when the wallet is registered by now.
Create(c) ==
  /\ c.pc = "create"
  /\ \/ /\ c.wallet \notin users
        /\ users' = users \cup {c.wallet}
        /\ Step(c, [c EXCEPT !.pc = "reply", !.first = TRUE])
        /\ UNCHANGED tab
     \/ /\ c.wallet \in users
        /\ calls' = calls \ {c}
        /\ tab' = IF tab[c.tab].pc = "posted" THEN [tab EXCEPT ![c.tab] = NoTab] ELSE tab
        /\ UNCHANGED users
  /\ UNCHANGED <<now, store, nonces, body, deliveries, restarts, issuedAt, issuedIn,
                 verdicts, welcomes>>

\* The JWT is signed, a first sign-in is welcomed, and the tab that still
\* waits is signed in.
Reply(c) ==
  /\ c.pc = "reply"
  /\ calls' = calls \ {c}
  /\ welcomes' = IF c.first THEN [welcomes EXCEPT ![c.wallet] = @ + 1] ELSE welcomes
  /\ tab' = IF tab[c.tab].pc = "posted" /\ body[c.tab].nonce = c.nonce
            THEN [tab EXCEPT ![c.tab] = [pc |-> "in", wallet |-> c.wallet]] ELSE tab
  /\ UNCHANGED <<now, store, nonces, users, body, deliveries, restarts,
                 issuedAt, issuedIn, verdicts>>

\* The API process restarts: challenges and calls in flight are gone.
Restart ==
  /\ restarts < MaxRestarts /\ restarts' = restarts + 1
  /\ store' = {} /\ calls' = {}
  /\ UNCHANGED <<now, nonces, users, tab, body, deliveries, history>>

Next == \/ Tick \/ Cleanup \/ Restart
        \/ \E t \in Tab : GetChallenge(t) \/ Sign(t) \/ Post(t) \/ GiveUp(t) \/ Deliver(t)
        \/ \E c \in calls : LookUp(c) \/ Create(c) \/ Reply(c)

Spec == Init /\ [][Next]_vars

-----------------------------------------------------------------------------
(* Properties                                                              *)

\* Every variable has its type; no challenge is stored twice.
TypeOK ==
  /\ now \in Nat /\ nonces \in Nat /\ restarts \in Nat
  /\ users \subseteq Wallet
  /\ store \subseteq [nonce: 1..nonces, createdAt: 0..now]
  /\ \A s, u \in store : s.nonce = u.nonce => s = u
  /\ body \in [Tab -> Body \cup {NoTab}]
  /\ calls \subseteq Call

\* Only an acceptable request is accepted: no challenge opens two sessions,
\* however often it is delivered, and none opens one after its time to live
\* (ChallengeService.consume, "tek kullanimlik").
AcceptedAreGood == \A v \in verdicts : v.accepted => v.good

\* And an acceptable one is accepted, at the last second too: the cleanup
\* timer and the checks agree on what is expired.  Only a challenge that was
\* issued before a restart may be gone; one issued after it is as good as any.
GoodAreAccepted ==
  \A v \in verdicts : v.good /\ v.restarts = issuedIn[v.nonce] => v.accepted

\* The welcome of verifyAndConnect's isFirstTime goes out once per account,
\* even if two tabs sign in for the first time at once.
WelcomedOnce == \A w \in Wallet : welcomes[w] <= 1

\* "timestamp: unix seconds (challenge creation time)": what the web client
\* posts is the timestamp of the message that was signed.
PostedTimestampIsSigned ==
  \A t \in Tab : body[t] # NoTab => body[t].timestamp = body[t].message[2]
=============================================================================
