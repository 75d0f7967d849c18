------------------------- MODULE UserAccounts_proof -------------------------
(***************************************************************************)
(* Proofs about UserAccounts for every value of its constants: the tokens  *)
(* are spent once, the addresses belong to one wallet, an account begins   *)
(* blank, and every column that it has set was asked for, however the      *)
(* handlers interleave with its deletion.                                  *)
(***************************************************************************)
EXTENDS UserAccounts, TLAPS

USE DEF vars, tokenVars

-----------------------------------------------------------------------------
(* The inductive invariant                                                 *)

EmailPcs == {"email.lookup", "email.update", "email.mint"}
Pcs == EmailPcs \cup {"verify.update", "link.update", "preferences.read",
                      "preferences.write", "consent.read", "consent.write"}
Args == Email \cup Chat \cup Partial \cup BOOLEAN \cup {None}
Seen == {None} \cup SUBSET Toggle

Request == [no: Nat, pc: Pcs, wallet: Wallet, arg: Args, token: Nat, seen: Seen]

\* The locals of a handler are what its await needs.
ArgOK(r) ==
  /\ r.pc \in EmailPcs => r.arg \in Email /\ r.token = 0
  /\ r.pc = "verify.update" => r.token # 0
  /\ r.pc = "link.update" => r.arg \in Chat
  /\ r.pc \in {"preferences.read", "preferences.write"} => r.arg \in Partial
  /\ r.pc \in {"consent.read", "consent.write"} => r.arg \in BOOLEAN

RequestsInv == \A r \in requests : r \in Request /\ ArgOK(r)

\* The requests that a token has authorised, and the tokens that may still
\* authorise one.
Spent == {[no |-> r.no, token |-> r.token] : r \in {q \in requests : q.token # 0}}
           \cup used
Kept == {t.no : t \in emailTokens \cup linkTokens}

\* A number is that of one token in one map.
TokensUnique ==
  /\ \A t, u \in emailTokens : t.no = u.no => t = u
  /\ \A t, u \in linkTokens : t.no = u.no => t = u
  /\ \A t \in emailTokens, u \in linkTokens : t.no # u.no

\* The number of a request that will make a token is not a token yet.
SpentInv ==
  /\ TokensUnique
  /\ Kept \subseteq 1..started
  /\ \A s \in Spent : s.token \in 1..started /\ s.token \notin Kept
  /\ \A s, u \in Spent : s.token = u.token => s = u
  /\ \A r \in requests : r.pc \in EmailPcs =>
       r.no \notin Kept /\ \A s \in Spent : s.token # r.no

IInv == TypeOK /\ RequestsInv /\ SpentInv /\ AddressesAreExclusive

\* The empty database.
LEMMA InitIInv == ASSUME Init PROVE IInv
  <1>1. TypeOK /\ RequestsInv
    BY BoundsAssumption DEF Init, TypeOK, RequestsInv
  <1>2. SpentInv
    BY DEF Init, SpentInv, Spent, Kept, TokensUnique
  <1>3. AddressesAreExclusive
    BY DEF Init, AddressesAreExclusive
  <1> QED
    BY <1>1, <1>2, <1>3 DEF IInv

-----------------------------------------------------------------------------
(* What a step does to the requests                                        *)

\* A request arrives.
LEMMA Started ==
  ASSUME IInv, NEW pc \in Pcs, NEW w \in Wallet, NEW arg \in Args,
         NEW token \in 0..started, Start(pc, w, arg, token)
  PROVE  /\ started' = started + 1 /\ started' \in 0..MaxRequests
         /\ \E q \in Request :
              /\ requests' = requests \cup {q}
              /\ q.no = started + 1 /\ q.pc = pc /\ q.wallet = w
              /\ q.arg = arg /\ q.token = token
  <1> DEFINE q == [no |-> started', pc |-> pc, wallet |-> w, arg |-> arg,
                   token |-> token, seen |-> None]
  <1>1. started \in Nat /\ started < MaxRequests /\ started' = started + 1
    BY DEF Start, IInv, TypeOK
  <1>2. q \in Request
    BY <1>1 DEF Request, Seen
  <1>3. requests' = requests \cup {q}
    BY DEF Start
  <1> QED
    BY <1>1, <1>2, <1>3, BoundsAssumption

\* A request goes on to its next await.
LEMMA Went ==
  ASSUME IInv, NEW r \in requests, NEW pc \in Pcs, NEW seen \in Seen,
         Goto(r, pc, seen)
  PROVE  /\ started' = started
         /\ \E q \in Request :
              /\ requests' = (requests \ {r}) \cup {q}
              /\ q.no = r.no /\ q.pc = pc /\ q.wallet = r.wallet
              /\ q.arg = r.arg /\ q.token = r.token
  <1> DEFINE q == [r EXCEPT !.pc = pc, !.seen = seen]
  <1>1. r \in Request
    BY DEF IInv, RequestsInv
  <1>2. /\ q \in Request /\ q.no = r.no /\ q.pc = pc /\ q.wallet = r.wallet
        /\ q.arg = r.arg /\ q.token = r.token
    BY <1>1 DEF Request
  <1>3. started' = started /\ requests' = (requests \ {r}) \cup {q}
    BY DEF Goto
  <1> QED
    BY <1>2, <1>3

\* What remains to be said of the requests after a step.
RequestTypes ==
  /\ started \in 0..MaxRequests
  /\ \A r \in requests : r.no \in 1..started /\ r.wallet \in Wallet
  /\ \A r, s \in requests : r.no = s.no => r = s
  /\ RequestsInv

\* Requests that end.
LEMMA EndTyped ==
  ASSUME IInv, requests' \subseteq requests, started' \in {started, started + 1},
         started' \in 0..MaxRequests
  PROVE  RequestTypes'
  <1>1. started \in Nat /\ started' \in Nat /\ started <= started'
    BY DEF IInv, TypeOK
  <1>2. \A r \in requests : r.no \in 1..started'
    BY <1>1 DEF IInv, TypeOK
  <1> QED
    BY <1>1, <1>2 DEF IInv, TypeOK, RequestTypes, RequestsInv, ArgOK

\* One that begins.
LEMMA StartTyped ==
  ASSUME IInv, NEW q \in Request, ArgOK(q), requests' = requests \cup {q},
         q.no = started + 1, started' = started + 1, started' \in 0..MaxRequests
  PROVE  RequestTypes'
  <1>1. started \in Nat /\ q.wallet \in Wallet
    BY DEF IInv, TypeOK, Request
  <1>2. \A r \in requests : r.no \in 1..started /\ r.no # q.no
    BY <1>1 DEF IInv, TypeOK
  <1>3. ArgOK(q)'
    BY DEF ArgOK
  <1>4. \A r \in requests' : r.no \in 1..started' /\ r.wallet \in Wallet
    BY <1>1, <1>2 DEF IInv, TypeOK
  <1>5. \A r, s \in requests' : r.no = s.no => r = s
    BY <1>2 DEF IInv, TypeOK
  <1>6. RequestsInv'
    BY <1>3 DEF IInv, RequestsInv, ArgOK
  <1> QED
    BY <1>4, <1>5, <1>6 DEF RequestTypes

\* One that goes on.
LEMMA GotoTyped ==
  ASSUME IInv, NEW r \in requests, NEW q \in Request, ArgOK(q),
         requests' = (requests \ {r}) \cup {q}, q.no = r.no, started' = started
  PROVE  RequestTypes'
  <1>1. q.wallet \in Wallet /\ q.no \in 1..started
    BY DEF IInv, TypeOK, Request
  <1>2. \A s \in requests \ {r} : s.no # q.no
    BY DEF IInv, TypeOK
  <1>3. RequestsInv'
    BY DEF IInv, RequestsInv, ArgOK
  <1> QED
    BY <1>1, <1>2, <1>3 DEF IInv, TypeOK, RequestTypes

-----------------------------------------------------------------------------
(* What a step does to the tokens                                          *)

\* Tokens are spent or lost, requests end, go on or use their token.
LEMMA TokensGo ==
  ASSUME IInv, TokensUnique', started' \in Nat, started <= started',
         \A q \in requests' : \E r \in requests :
           q.no = r.no /\ q.token = r.token /\ (q.pc \in EmailPcs => r.pc \in EmailPcs),
         used' \subseteq Spent,
         \A t \in emailTokens' \cup linkTokens' :
           \E u \in emailTokens \cup linkTokens : t.no = u.no
  PROVE  SpentInv'
  <1>1. started \in Nat
    BY DEF IInv, TypeOK
  <1>2. Kept' \subseteq Kept
    BY DEF Kept
  <1>3. Spent' \subseteq Spent
    BY DEF Spent
  <1>4. \A q \in requests' : q.pc \in EmailPcs =>
          q.no \notin Kept /\ \A s \in Spent : s.token # q.no
    BY DEF IInv, SpentInv
  <1>5. 1..started \subseteq 1..started'
    BY <1>1
  <1>6. Kept' \subseteq 1..started' /\ \A s \in Spent' : s.token \in 1..started'
    BY <1>2, <1>3, <1>5 DEF IInv, SpentInv
  <1> QED
    BY <1>2, <1>3, <1>4, <1>6 DEF IInv, SpentInv

\* A request arrives, without a token or for one that leaves its map.
LEMMA TokensAuthorise ==
  ASSUME IInv, started' = started + 1, used' = used,
         emailTokens' \subseteq emailTokens, linkTokens' \subseteq linkTokens,
         NEW q, requests' = requests \cup {q}, q.no = started + 1,
         q.token = 0 \/ (q.token \in Kept /\ q.token \notin Kept' /\ q.pc \notin EmailPcs)
  PROVE  SpentInv'
  <1>1. started \in Nat /\ Kept \subseteq 1..started /\ Kept' \subseteq Kept
    BY DEF IInv, TypeOK, SpentInv, Kept
  <1>2. TokensUnique'
    BY DEF IInv, SpentInv, TokensUnique
  <1>3. \A s \in Spent' :
          s \in Spent \/ (s = [no |-> q.no, token |-> q.token] /\ q.token # 0)
    BY DEF Spent
  <1>4. \A s \in Spent' : s.token \in 1..started /\ s.token \notin Kept'
    <2>1. \A s \in Spent : s.token \in 1..started /\ s.token \notin Kept'
      BY <1>1 DEF IInv, SpentInv
    <2>2. q.token # 0 => q.token \in 1..started /\ q.token \notin Kept'
      BY <1>1
    <2> QED
      BY <1>3, <2>1, <2>2
  <1>5. \A s, u \in Spent' : s.token = u.token => s = u
    <2>1. \A s \in Spent : q.token # 0 => s.token # q.token
      BY DEF IInv, SpentInv
    <2> QED
      BY <1>3, <2>1 DEF IInv, SpentInv
  <1>6. ASSUME NEW r \in requests', r.pc \in EmailPcs
        PROVE  r.no \notin Kept' /\ \A s \in Spent' : s.token # r.no
    <2>1. CASE r \in requests
      <3>1. r.no \notin Kept /\ \A s \in Spent : s.token # r.no
        BY <1>6, <2>1 DEF IInv, SpentInv
      <3>2. CASE q.token = 0
        BY <1>1, <1>3, <3>1, <3>2
      <3>3. CASE q.token \in Kept
        <4>1. q.token # r.no /\ r.no \notin Kept'
          BY <1>1, <3>1, <3>3
        <4> QED
          BY <1>3, <3>1, <4>1
      <3> QED
        BY <3>2, <3>3
    <2>2. CASE r = q
      BY <1>1, <1>4, <2>2
    <2> QED
      BY <2>1, <2>2
  <1> QED
    BY <1>1, <1>2, <1>4, <1>5, <1>6 DEF SpentInv

\* A token is made, with the number of its request.
LEMMA TokensCome ==
  ASSUME IInv, started' \in Nat, started <= started', used' = used,
         requests' \subseteq requests,
         NEW k, k.no \in 1..started', k.no \notin Kept,
         \A s \in Spent : s.token # k.no,
         \A r \in requests' : r.pc \in EmailPcs => r.no # k.no,
         \/ emailTokens' = emailTokens \cup {k} /\ linkTokens' = linkTokens
         \/ emailTokens' = emailTokens /\ linkTokens' = linkTokens \cup {k}
  PROVE  SpentInv'
  <1>1. started \in Nat
    BY DEF IInv, TypeOK
  <1>2. Kept' = Kept \cup {k.no}
    BY DEF Kept
  <1>3. Spent' \subseteq Spent
    BY DEF Spent
  <1>4. TokensUnique'
    <2>1. \A t \in emailTokens \cup linkTokens : t.no # k.no
      BY DEF Kept
    <2> QED
      BY <2>1 DEF IInv, SpentInv, TokensUnique
  <1>5. 1..started \subseteq 1..started'
    BY <1>1
  <1>6. Kept' \subseteq 1..started'
    BY <1>2, <1>5 DEF IInv, SpentInv
  <1>7. \A s \in Spent' : s.token \in 1..started' /\ s.token \notin Kept'
    BY <1>2, <1>3, <1>5 DEF IInv, SpentInv
  <1>8. \A r \in requests' : r.pc \in EmailPcs =>
          r.no \notin Kept' /\ \A s \in Spent' : s.token # r.no
    BY <1>2, <1>3 DEF IInv, SpentInv
  <1> QED
    BY <1>3, <1>4, <1>6, <1>7, <1>8 DEF IInv, SpentInv

-----------------------------------------------------------------------------
(* What a step does to the accounts                                        *)

\* A row that does not exist yet is made without a mark or a choice.
Untouched(row) ==
  ~row.emailVerified /\ ~row.telegramVerified /\ row.preferences = None /\ ~row.consent

\* A write of one row that keeps its addresses, or that brings some which no
\* other wallet has.
Wrote(w, row) ==
  /\ users' = [users EXCEPT ![w] = row]
  /\ row \in Account
  /\ \/ users[w] # None /\ row.email = users[w].email
     \/ row.email = None \/ ~EmailTaken(w, row.email)
  /\ \/ users[w] # None /\ row.chat = users[w].chat
     \/ row.chat = None \/ ~ChatTaken(w, row.chat)
  /\ users[w] = None => Untouched(row)

Removed(w) == users' = [users EXCEPT ![w] = None]

AccountStep ==
  \/ users' = users
  \/ \E w \in Wallet : Removed(w)
  \/ \E w \in Wallet, row \in Account : Wrote(w, row)

\* Such a write keeps the types and the addresses apart.
LEMMA AccountStepKeeps ==
  ASSUME IInv, AccountStep
  PROVE  users' \in [Wallet -> {None} \cup Account] /\ AddressesAreExclusive'
  <1>1. users \in [Wallet -> {None} \cup Account]
    BY DEF IInv, TypeOK
  <1>2. CASE users' = users
    BY <1>1, <1>2 DEF IInv, AddressesAreExclusive
  <1>3. CASE \E w \in Wallet : Removed(w)
    BY <1>1, <1>3 DEF Removed, IInv, AddressesAreExclusive
  <1>4. CASE \E w \in Wallet, row \in Account : Wrote(w, row)
    <2>1. PICK w \in Wallet, row \in Account : Wrote(w, row)
      BY <1>4
    <2>2. /\ users' \in [Wallet -> {None} \cup Account]
          /\ \A v \in Wallet : users'[v] = IF v = w THEN row ELSE users[v]
      BY <1>1, <2>1 DEF Wrote
    <2>3. ASSUME NEW v \in Wallet, v # w, users[v] # None
          PROVE  /\ users[v].email = row.email => row.email = None
                 /\ users[v].chat = row.chat => row.chat = None
      BY <2>1, <2>3 DEF Wrote, EmailTaken, ChatTaken, IInv, AddressesAreExclusive
    <2>4. AddressesAreExclusive'
      <3> SUFFICES ASSUME NEW v \in Wallet, NEW u \in Wallet, v # u,
                          users'[v] # None, users'[u] # None
                   PROVE  /\ users'[v].email = users'[u].email => users'[v].email = None
                          /\ users'[v].chat = users'[u].chat => users'[v].chat = None
        BY DEF AddressesAreExclusive
      <3>1. CASE v # w /\ u # w
        BY <2>2, <3>1 DEF IInv, AddressesAreExclusive
      <3>2. CASE v = w
        BY <2>2, <2>3, <3>2
      <3>3. CASE u = w
        BY <2>2, <2>3, <3>3
      <3> QED
        BY <3>1, <3>2, <3>3
    <2> QED
      BY <2>2, <2>4
  <1> QED
    BY <1>2, <1>3, <1>4 DEF AccountStep

\* An update of a row that exists.
LEMMA Updated ==
  ASSUME IInv, NEW w \in Wallet, NEW row \in Account, Update(w, row),
         row.email = users[w].email \/ ~EmailTaken(w, row.email),
         row.chat = users[w].chat \/ ~ChatTaken(w, row.chat)
  PROVE  AccountStep
  BY DEF Update, Wrote, AccountStep

-----------------------------------------------------------------------------
(* The actions                                                             *)

\* An action that leaves requests and tokens alone.
LEMMA OnlyAccounts ==
  ASSUME IInv, AccountStep, UNCHANGED <<tokenVars, restarts>>,
         jwts' \subseteq Wallet, requests' \subseteq requests,
         started' \in {started, started + 1}, started' \in 0..MaxRequests
  PROVE  IInv'
  <1>1. RequestTypes'
    BY EndTyped
  <1>2. started \in Nat /\ started' \in Nat /\ started <= started'
    BY DEF IInv, TypeOK
  <1>3. SpentInv'
    <2>1. TokensUnique' /\ used' \subseteq Spent
      BY DEF IInv, SpentInv, TokensUnique, Spent
    <2> QED
      BY <1>2, <2>1, TokensGo
  <1>4. used' \subseteq [no: 1..started', token: 1..started']
    <2>1. 1..started \subseteq 1..started'
      BY <1>2
    <2> QED
      BY <2>1 DEF IInv, TypeOK
  <1>5. TypeOK'
    BY <1>1, <1>4, AccountStepKeeps DEF IInv, TypeOK, RequestTypes
  <1> QED
    BY <1>1, <1>3, <1>5, AccountStepKeeps DEF IInv, RequestTypes

\* Sign-in, the end of an access token, registration and deletion.
LEMMA AccountActions ==
  ASSUME IInv, NEW w \in Wallet,
         \/ SignIn(w) \/ Expire(w) \/ AutoRegister(w) \/ DeleteAccount(w)
         \/ \E e \in Email \cup {None}, c \in Chat \cup {None} : Register(w, e, c)
  PROVE  IInv' /\ AccountStep
  <1>1. users \in [Wallet -> {None} \cup Account] /\ jwts \subseteq Wallet
        /\ started \in 0..MaxRequests /\ started \in Nat /\ MaxRequests \in Nat
    BY BoundsAssumption DEF IInv, TypeOK
  <1>2. NewAccount \in Account /\ Untouched(NewAccount)
        /\ NewAccount.email = None /\ NewAccount.chat = None
    BY DEF NewAccount, Account, Untouched
  <1>3. CASE SignIn(w)
    <2>1. AccountStep
      BY <1>2, <1>3 DEF SignIn, MakeIfNone, AccountStep, Wrote
    <2> QED
      BY <1>1, <1>3, <2>1, OnlyAccounts DEF SignIn
  <1>4. CASE Expire(w)
    <2>1. AccountStep
      BY <1>4 DEF Expire, AccountStep
    <2> QED
      BY <1>1, <1>4, <2>1, OnlyAccounts DEF Expire
  <1>5. CASE DeleteAccount(w)
    <2>1. AccountStep
      BY <1>5 DEF DeleteAccount, Update, AccountStep, Removed
    <2>2. started < MaxRequests /\ started' = started + 1 /\ jwts' = jwts
          /\ UNCHANGED <<tokenVars, requests, restarts>>
      BY <1>5 DEF DeleteAccount
    <2> QED
      BY <1>1, <2>1, <2>2, OnlyAccounts
  <1>6. CASE \E e \in Email \cup {None}, c \in Chat \cup {None} : Register(w, e, c)
    <2>1. PICK e \in Email \cup {None}, c \in Chat \cup {None} : Register(w, e, c)
      BY <1>6
    <2>2. PICK old : old = IF users[w] = None THEN NewAccount ELSE users[w]
      OBVIOUS
    <2>3. PICK row : row = [old EXCEPT !.email = IF e = None THEN @ ELSE e,
                                       !.chat = IF c = None THEN @ ELSE c]
      OBVIOUS
    <2>4. old \in Account /\ (users[w] = None => old = NewAccount)
          /\ (users[w] # None => old = users[w])
      BY <1>1, <1>2, <2>2
    <2>5. /\ row \in Account
          /\ row.email = IF e = None THEN old.email ELSE e
          /\ row.chat = IF c = None THEN old.chat ELSE c
          /\ row.emailVerified = old.emailVerified
          /\ row.telegramVerified = old.telegramVerified
          /\ row.preferences = old.preferences /\ row.consent = old.consent
      BY <2>3, <2>4 DEF Account
    <2>6. /\ users' = [users EXCEPT ![w] = row]
          /\ ~EmailTaken(w, e) \/ e = None
          /\ ~ChatTaken(w, c) \/ c = None
      BY <2>1, <2>2, <2>3 DEF Register
    <2>7. Wrote(w, row)
      <3>1. \/ users[w] # None /\ row.email = users[w].email
            \/ row.email = None \/ ~EmailTaken(w, row.email)
        BY <1>2, <2>4, <2>5, <2>6
      <3>2. \/ users[w] # None /\ row.chat = users[w].chat
            \/ row.chat = None \/ ~ChatTaken(w, row.chat)
        BY <1>2, <2>4, <2>5, <2>6
      <3>3. users[w] = None => Untouched(row)
        BY <1>2, <2>4, <2>5 DEF Untouched
      <3> QED
        BY <2>5, <2>6, <3>1, <3>2, <3>3 DEF Wrote
    <2>8. AccountStep
      BY <2>5, <2>7 DEF AccountStep
    <2>9. started < MaxRequests /\ started' = started + 1 /\ jwts' = jwts
          /\ UNCHANGED <<tokenVars, requests, restarts>>
      BY <2>1 DEF Register
    <2> QED
      BY <1>1, <2>8, <2>9, OnlyAccounts
  <1>7. CASE AutoRegister(w)
    <2>1. AccountStep
      BY <1>2, <1>7 DEF AutoRegister, MakeIfNone, AccountStep, Wrote
    <2>2. started < MaxRequests /\ started' = started + 1 /\ jwts' = jwts
          /\ UNCHANGED <<tokenVars, requests, restarts>>
      BY <1>7 DEF AutoRegister
    <2> QED
      BY <1>1, <2>1, <2>2, OnlyAccounts
  <1> QED
    BY <1>3, <1>4, <1>5, <1>6, <1>7

\* A protected request arrives.
LEMMA ProtectedArrives ==
  ASSUME IInv, NEW pc \in Pcs, NEW w \in Wallet, NEW arg \in Args,
         Protected(pc, w, arg),
         \A q : q.pc = pc /\ q.arg = arg /\ q.token = 0 => ArgOK(q)
  PROVE  IInv'
  <1>1. Start(pc, w, arg, 0) /\ UNCHANGED <<users, jwts, tokenVars, restarts>>
    BY DEF Protected
  <1>2. started \in Nat /\ 0 \in 0..started
    BY DEF IInv, TypeOK
  <1>3. /\ started' = started + 1 /\ started' \in 0..MaxRequests
        /\ \E q \in Request :
             /\ requests' = requests \cup {q}
             /\ q.no = started + 1 /\ q.pc = pc /\ q.wallet = w
             /\ q.arg = arg /\ q.token = 0
    BY <1>1, <1>2, Started
  <1>4. PICK q \in Request :
          /\ requests' = requests \cup {q}
          /\ q.no = started + 1 /\ q.pc = pc /\ q.arg = arg /\ q.token = 0
    BY <1>3
  <1>5. ArgOK(q)
    BY <1>4
  <1>6. RequestTypes'
    BY <1>3, <1>4, <1>5, StartTyped
  <1>7. SpentInv'
    BY <1>1, <1>3, <1>4, TokensAuthorise
  <1>8. used' \subseteq [no: 1..started', token: 1..started']
    <2>1. 1..started \subseteq 1..started'
      BY <1>2, <1>3
    <2> QED
      BY <1>1, <2>1 DEF IInv, TypeOK
  <1>9. TypeOK'
    BY <1>1, <1>6, <1>8 DEF IInv, TypeOK, RequestTypes
  <1> QED
    BY <1>1, <1>6, <1>7, <1>9 DEF IInv, RequestTypes, AddressesAreExclusive

\* The protected endpoints.
LEMMA ProtectedActions ==
  ASSUME IInv, NEW w \in Wallet,
         \/ \E e \in Email : PutEmail(w, e)
         \/ \E c \in Chat : PutTelegram(w, c)
         \/ \E p \in Partial : PutPreferences(w, p)
         \/ \E given \in BOOLEAN : PutConsent(w, given)
  PROVE  IInv' /\ users' = users
  <1>1. CASE \E e \in Email : PutEmail(w, e)
    <2>1. PICK e \in Email : Protected("email.lookup", w, e)
      BY <1>1 DEF PutEmail
    <2>2. \A q : q.pc = "email.lookup" /\ q.arg = e /\ q.token = 0 => ArgOK(q)
      BY DEF ArgOK, EmailPcs
    <2>3. "email.lookup" \in Pcs /\ e \in Args
      BY DEF Pcs, EmailPcs, Args
    <2> QED
      BY <2>1, <2>2, <2>3, ProtectedArrives DEF Protected
  <1>2. CASE \E c \in Chat : PutTelegram(w, c)
    <2>1. PICK c \in Chat : Protected("link.update", w, c)
      BY <1>2 DEF PutTelegram
    <2>2. \A q : q.pc = "link.update" /\ q.arg = c /\ q.token = 0 => ArgOK(q)
      BY DEF ArgOK, EmailPcs
    <2>3. "link.update" \in Pcs /\ c \in Args
      BY DEF Pcs, EmailPcs, Args
    <2> QED
      BY <2>1, <2>2, <2>3, ProtectedArrives DEF Protected
  <1>3. CASE \E p \in Partial : PutPreferences(w, p)
    <2>1. PICK p \in Partial : Protected("preferences.read", w, p)
      BY <1>3 DEF PutPreferences
    <2>2. \A q : q.pc = "preferences.read" /\ q.arg = p /\ q.token = 0 => ArgOK(q)
      BY DEF ArgOK, EmailPcs
    <2>3. "preferences.read" \in Pcs /\ p \in Args
      BY DEF Pcs, EmailPcs, Args
    <2> QED
      BY <2>1, <2>2, <2>3, ProtectedArrives DEF Protected
  <1>4. CASE \E given \in BOOLEAN : PutConsent(w, given)
    <2>1. PICK given \in BOOLEAN : Protected("consent.read", w, given)
      BY <1>4 DEF PutConsent
    <2>2. \A q : q.pc = "consent.read" /\ q.arg = given /\ q.token = 0 => ArgOK(q)
      BY DEF ArgOK, EmailPcs
    <2>3. "consent.read" \in Pcs /\ given \in Args
      BY DEF Pcs, EmailPcs, Args
    <2> QED
      BY <2>1, <2>2, <2>3, ProtectedArrives DEF Protected
  <1> QED
    BY <1>1, <1>2, <1>3, <1>4

\* What remains to be said of used: the numbers are those of requests.
LEMMA UsedTyped ==
  ASSUME IInv, used' \subseteq Spent, started' \in Nat, started <= started'
  PROVE  used' \subseteq [no: 1..started', token: 1..started']
  <1>1. 1..started \subseteq 1..started'
    BY DEF IInv, TypeOK
  <1>2. \A r \in requests : r.token # 0 =>
          [no |-> r.no, token |-> r.token] \in [no: 1..started, token: 1..started]
    <2>1. ASSUME NEW r \in requests, r.token # 0
          PROVE  r.no \in 1..started /\ r.token \in 1..started
      <3>1. r.no \in 1..started
        BY DEF IInv, TypeOK
      <3>2. PICK s \in Spent : s = [no |-> r.no, token |-> r.token]
        BY <2>1 DEF Spent
      <3>3. s.token \in 1..started
        BY DEF IInv, SpentInv
      <3> QED
        BY <3>1, <3>2, <3>3
    <2> QED
      BY <2>1
  <1>3. Spent \subseteq [no: 1..started, token: 1..started]
    BY <1>2 DEF Spent, IInv, TypeOK
  <1> QED
    BY <1>1, <1>3

\* A token is shown: it leaves its map, and authorises a request unless it
\* has lapsed.
LEMMA TokenShown ==
  ASSUME IInv, NEW t \in emailTokens \cup linkTokens, NEW pc \in Pcs, NEW arg \in Args,
         \/ emailTokens' = emailTokens \ {t} /\ t \in emailTokens /\ linkTokens' = linkTokens
         \/ linkTokens' = linkTokens \ {t} /\ t \in linkTokens /\ emailTokens' = emailTokens,
         IF t.lapsed THEN UNCHANGED <<requests, started>> ELSE Start(pc, t.wallet, arg, t.no),
         UNCHANGED <<users, jwts, used, restarts>>,
         \A q : q.pc = pc /\ q.arg = arg /\ q.token # 0 => ArgOK(q),
         pc \notin EmailPcs
  PROVE  IInv'
  <1>1. t \in Token /\ t.wallet \in Wallet /\ t.no \in Kept
        /\ t.no \in 1..started /\ started \in Nat
    BY DEF IInv, TypeOK, Token, SpentInv, Kept
  <1>2. /\ emailTokens' \subseteq emailTokens /\ linkTokens' \subseteq linkTokens
        /\ TokensUnique' /\ t.no \notin Kept'
    BY DEF IInv, SpentInv, TokensUnique, Kept
  <1>3. used' \subseteq Spent
    BY DEF Spent
  <1>4. RequestTypes' /\ SpentInv' /\ started' \in Nat /\ started <= started'
    <2>1. CASE t.lapsed
      <3>1. RequestTypes'
        BY <2>1, EndTyped DEF IInv, TypeOK
      <3>2. SpentInv'
        BY <1>1, <1>2, <1>3, <2>1, TokensGo
      <3> QED
        BY <1>1, <2>1, <3>1, <3>2
    <2>2. CASE ~t.lapsed
      <3>1. Start(pc, t.wallet, arg, t.no)
        BY <2>2
      <3>2. PICK w \in Wallet, no \in 0..started : w = t.wallet /\ no = t.no
        BY <1>1
      <3>3. /\ started' = started + 1 /\ started' \in 0..MaxRequests
            /\ \E q \in Request :
                 /\ requests' = requests \cup {q}
                 /\ q.no = started + 1 /\ q.pc = pc /\ q.wallet = w
                 /\ q.arg = arg /\ q.token = no
        BY <3>1, <3>2, Started
      <3>4. PICK q \in Request :
              /\ requests' = requests \cup {q}
              /\ q.no = started + 1 /\ q.pc = pc /\ q.arg = arg /\ q.token = t.no
        BY <3>2, <3>3
      <3>5. ArgOK(q)
        BY <1>1, <3>4
      <3>6. RequestTypes'
        BY <3>3, <3>4, <3>5, StartTyped
      <3>7. SpentInv'
        BY <1>1, <1>2, <3>3, <3>4, TokensAuthorise
      <3> QED
        BY <1>1, <3>3, <3>6, <3>7
    <2> QED
      BY <2>1, <2>2
  <1>5. used' \subseteq [no: 1..started', token: 1..started']
    BY <1>3, <1>4, UsedTyped
  <1>6. TypeOK'
    BY <1>2, <1>4, <1>5 DEF IInv, TypeOK, RequestTypes
  <1> QED
    BY <1>4, <1>6 DEF IInv, RequestTypes, AddressesAreExclusive

\* The two handlers that take a token.
LEMMA TokenActions ==
  ASSUME IInv,
         \/ \E t \in emailTokens : VerifyEmail(t)
         \/ \E t \in linkTokens, c \in Chat : HandleCallback(t, c)
  PROVE  IInv' /\ users' = users
  <1>1. CASE \E t \in emailTokens : VerifyEmail(t)
    <2>1. PICK t \in emailTokens : VerifyEmail(t)
      BY <1>1
    <2>2. \A q : q.pc = "verify.update" /\ q.arg = None /\ q.token # 0 => ArgOK(q)
      BY DEF ArgOK, EmailPcs
    <2>3. "verify.update" \in Pcs /\ None \in Args /\ "verify.update" \notin EmailPcs
      BY DEF Pcs, EmailPcs, Args
    <2>4. /\ emailTokens' = emailTokens \ {t} /\ linkTokens' = linkTokens
          /\ UNCHANGED <<users, jwts, used, restarts>>
          /\ IF t.lapsed THEN UNCHANGED <<requests, started>>
             ELSE Start("verify.update", t.wallet, None, t.no)
      BY <2>1 DEF VerifyEmail
    <2> QED
      BY <2>2, <2>3, <2>4, TokenShown
  <1>2. CASE \E t \in linkTokens, c \in Chat : HandleCallback(t, c)
    <2>1. PICK t \in linkTokens, c \in Chat : HandleCallback(t, c)
      BY <1>2
    <2>2. \A q : q.pc = "link.update" /\ q.arg = c /\ q.token # 0 => ArgOK(q)
      BY DEF ArgOK, EmailPcs
    <2>3. "link.update" \in Pcs /\ c \in Args /\ "link.update" \notin EmailPcs
      BY DEF Pcs, EmailPcs, Args
    <2>4. /\ linkTokens' = linkTokens \ {t} /\ emailTokens' = emailTokens
          /\ UNCHANGED <<users, jwts, used, restarts>>
          /\ IF t.lapsed THEN UNCHANGED <<requests, started>>
             ELSE Start("link.update", t.wallet, c, t.no)
      BY <2>1 DEF HandleCallback
    <2> QED
      BY <2>2, <2>3, <2>4, TokenShown
  <1> QED
    BY <1>1, <1>2

\* A token is made: at the end of updateEmail, or by telegram init at once.
LEMMA MintActions ==
  ASSUME IInv,
         \/ \E r \in requests : MintEmailToken(r)
         \/ \E w \in Wallet : InitTelegram(w)
  PROVE  IInv' /\ users' = users
  <1>1. started \in Nat /\ started \in 0..MaxRequests /\ MaxRequests \in Nat
    BY BoundsAssumption DEF IInv, TypeOK
  <1>2. SUFFICES ASSUME NEW w \in Wallet, NEW no \in 1..started', no \notin Kept,
                        \A s \in Spent : s.token # no,
                        \A r \in requests' : r.pc \in EmailPcs => r.no # no,
                        NEW k, k = [no |-> no, wallet |-> w, lapsed |-> FALSE],
                        \/ emailTokens' = emailTokens \cup {k} /\ linkTokens' = linkTokens
                        \/ emailTokens' = emailTokens /\ linkTokens' = linkTokens \cup {k},
                        started' \in {started, started + 1}, started' \in 0..MaxRequests,
                        requests' \subseteq requests,
                        UNCHANGED <<users, jwts, used, restarts>>
                 PROVE  IInv'
    <2>1. CASE \E r \in requests : MintEmailToken(r)
      <3>1. PICK r \in requests : MintEmailToken(r)
        BY <2>1
      <3>2. PICK w \in Wallet, no \in 1..started : w = r.wallet /\ no = r.no
        BY DEF IInv, TypeOK
      <3>3. /\ r.pc = "email.mint" /\ requests' = requests \ {r}
            /\ emailTokens' = emailTokens \cup {[no |-> no, wallet |-> w, lapsed |-> FALSE]}
            /\ started' = started
            /\ UNCHANGED <<linkTokens, users, jwts, used, restarts>>
        BY <3>1, <3>2 DEF MintEmailToken, End
      <3>4. no \notin Kept /\ \A s \in Spent : s.token # no
        BY <3>2, <3>3 DEF IInv, SpentInv, EmailPcs
      <3>5. \A s \in requests' : s.no # no
        BY <3>2, <3>3 DEF IInv, TypeOK
      <3>6. requests' \subseteq requests /\ no \in 1..started'
        BY <3>3
      <3> QED
        BY <1>1, <1>2, <3>3, <3>4, <3>5, <3>6
    <2>2. CASE \E w \in Wallet : InitTelegram(w)
      <3>1. PICK w \in Wallet : InitTelegram(w)
        BY <2>2
      <3>2. PICK no : no = started + 1
        OBVIOUS
      <3>3. /\ linkTokens' = linkTokens \cup {[no |-> no, wallet |-> w, lapsed |-> FALSE]}
            /\ started < MaxRequests /\ started' = started + 1
            /\ UNCHANGED <<emailTokens, users, jwts, requests, used, restarts>>
        BY <3>1, <3>2 DEF InitTelegram
      <3>4. no \in 1..started' /\ started' \in 0..MaxRequests
        BY <1>1, <3>2, <3>3
      <3>5. no \notin Kept /\ \A s \in Spent : s.token # no
        BY <1>1, <3>2 DEF IInv, SpentInv
      <3>6. \A r \in requests : r.no # no
        BY <1>1, <3>2 DEF IInv, TypeOK
      <3> QED
        BY <1>1, <1>2, <3>3, <3>4, <3>5, <3>6
    <2> QED
      BY <2>1, <2>2
  <1>3. RequestTypes'
    BY <1>2, EndTyped
  <1>4. SpentInv' /\ started' \in Nat /\ started <= started'
    <2>1. started' \in Nat /\ started <= started'
      BY <1>1, <1>2
    <2>2. k.no = no
      BY <1>2
    <2>3. /\ k.no \in 1..started' /\ k.no \notin Kept
          /\ \A s \in Spent : s.token # k.no
          /\ \A r \in requests' : r.pc \in EmailPcs => r.no # k.no
      BY <1>2, <2>2
    <2>4. used' = used /\ requests' \subseteq requests
      BY <1>2
    <2>5. \/ emailTokens' = emailTokens \cup {k} /\ linkTokens' = linkTokens
          \/ emailTokens' = emailTokens /\ linkTokens' = linkTokens \cup {k}
      BY <1>2
    <2> QED
      BY <2>1, <2>3, <2>4, <2>5, TokensCome
  <1>5. used' \subseteq [no: 1..started', token: 1..started']
    BY <1>2, <1>4, UsedTyped DEF Spent
  <1>6. k \in Token
    BY <1>1, <1>2 DEF Token
  <1>7. TypeOK'
    BY <1>2, <1>3, <1>5, <1>6 DEF IInv, TypeOK, RequestTypes
  <1> QED
    BY <1>2, <1>3, <1>4, <1>7 DEF IInv, RequestTypes, AddressesAreExclusive

\* A handler ends, with an update that its token has authorised or without.
LEMMA HandlerEnds ==
  ASSUME IInv, AccountStep, NEW r \in requests, End(r),
         used' = used \/ (Use(r) /\ r.token # 0),
         UNCHANGED <<jwts, emailTokens, linkTokens, restarts>>
  PROVE  IInv'
  <1>1. requests' = requests \ {r} /\ started' = started /\ started \in 0..MaxRequests
    BY DEF End, IInv, TypeOK
  <1>2. RequestTypes'
    BY <1>1, EndTyped
  <1>3. used' \subseteq Spent
    BY DEF Spent, Use
  <1>4. SpentInv'
    BY <1>1, <1>3, TokensGo DEF IInv, SpentInv, TokensUnique
  <1>5. used' \subseteq [no: 1..started', token: 1..started']
    BY <1>1, <1>3, UsedTyped
  <1>6. TypeOK'
    BY <1>2, <1>5, AccountStepKeeps DEF IInv, TypeOK, RequestTypes
  <1> QED
    BY <1>2, <1>4, <1>6, AccountStepKeeps DEF IInv, RequestTypes

\* A handler goes on to its next await.
LEMMA HandlerGoesOn ==
  ASSUME IInv, AccountStep, NEW r \in requests, NEW pc \in Pcs, NEW seen \in Seen,
         Goto(r, pc, seen), UNCHANGED <<jwts, tokenVars, restarts>>,
         \A q : q.pc = pc /\ q.arg = r.arg /\ q.token = r.token => ArgOK(q),
         pc \in EmailPcs => r.pc \in EmailPcs
  PROVE  IInv'
  <1>1. /\ started' = started
        /\ \E q \in Request :
             /\ requests' = (requests \ {r}) \cup {q}
             /\ q.no = r.no /\ q.pc = pc /\ q.wallet = r.wallet
             /\ q.arg = r.arg /\ q.token = r.token
    BY Went
  <1>2. PICK q \in Request :
          /\ requests' = (requests \ {r}) \cup {q}
          /\ q.no = r.no /\ q.pc = pc /\ q.arg = r.arg /\ q.token = r.token
    BY <1>1
  <1>3. ArgOK(q)
    BY <1>2
  <1>4. RequestTypes'
    BY <1>1, <1>2, <1>3, GotoTyped
  <1>5. used' \subseteq Spent
    BY DEF Spent
  <1>6. SpentInv'
    BY <1>1, <1>2, <1>5, TokensGo DEF IInv, TypeOK, SpentInv, TokensUnique
  <1>7. TypeOK'
    BY <1>1, <1>4, AccountStepKeeps DEF IInv, TypeOK, RequestTypes
  <1> QED
    BY <1>4, <1>6, <1>7, AccountStepKeeps DEF IInv, RequestTypes

\* The updates of a row that exists: each writes some of its columns.
LEMMA RowUpdates ==
  ASSUME IInv, NEW w \in Wallet, users[w] # None
  PROVE  /\ \A e \in Email : LET row == [users[w] EXCEPT !.email = e, !.emailVerified = FALSE]
                             IN row \in Account /\ row.email = e /\ row.chat = users[w].chat
         /\ \A c \in Chat : LET row == [users[w] EXCEPT !.chat = c, !.telegramVerified = TRUE]
                            IN row \in Account /\ row.chat = c /\ row.email = users[w].email
         /\ LET row == [users[w] EXCEPT !.emailVerified = TRUE]
            IN row \in Account /\ row.email = users[w].email /\ row.chat = users[w].chat
         /\ \A p \in SUBSET Toggle :
              LET row == [users[w] EXCEPT !.preferences = p]
              IN row \in Account /\ row.email = users[w].email /\ row.chat = users[w].chat
         /\ \A given \in BOOLEAN :
              LET row == [users[w] EXCEPT !.consent = given]
              IN row \in Account /\ row.email = users[w].email /\ row.chat = users[w].chat
  <1>1. users[w] \in Account
    BY DEF IInv, TypeOK
  <1> QED
    BY <1>1 DEF Account

\* The merge of partial preferences is a set of toggles.
LEMMA MergedTyped ==
  ASSUME NEW seen \in Seen, NEW p \in Partial
  PROVE  Merged(seen, p) \in SUBSET Toggle
  BY DEF Merged, Seen, Partial, DefaultPreferences, Toggle

\* The handlers that wait.
LEMMA ContinueActions ==
  ASSUME IInv, NEW r \in requests,
         \/ LookUpEmail(r) \/ WriteEmail(r) \/ WriteVerified(r) \/ LinkTelegram(r)
         \/ ReadAccount(r) \/ WritePreferences(r) \/ WriteConsent(r) \/ Fail(r)
  PROVE  IInv' /\ AccountStep
  <1>1. r \in Request /\ ArgOK(r) /\ r.wallet \in Wallet /\ r.seen \in Seen
    BY DEF IInv, RequestsInv, Request
  <1>2. users' = users => AccountStep
    BY DEF AccountStep
  <1>3. CASE LookUpEmail(r)
    <2>1. \A q : q.pc = "email.update" /\ q.arg = r.arg /\ q.token = r.token => ArgOK(q)
      BY <1>1, <1>3 DEF LookUpEmail, ArgOK, EmailPcs
    <2>2. "email.update" \in Pcs /\ None \in Seen /\ r.pc \in EmailPcs
      BY <1>3 DEF Pcs, EmailPcs, Seen, LookUpEmail
    <2>3. End(r) \/ Goto(r, "email.update", None)
      BY <1>3 DEF LookUpEmail
    <2>4. UNCHANGED <<users, jwts, tokenVars, restarts>>
      BY <1>3 DEF LookUpEmail
    <2> QED
      BY <1>2, <2>1, <2>2, <2>3, <2>4, HandlerEnds, HandlerGoesOn
  <1>4. CASE WriteEmail(r)
    <2>1. PICK row : row = [users[r.wallet] EXCEPT !.email = r.arg, !.emailVerified = FALSE]
      OBVIOUS
    <2>2. r.arg \in Email /\ users[r.wallet] # None /\ Update(r.wallet, row)
          /\ ~EmailTaken(r.wallet, r.arg)
      BY <1>1, <1>4, <2>1 DEF WriteEmail, ArgOK, EmailPcs, Update
    <2>3. row \in Account /\ row.email = r.arg /\ row.chat = users[r.wallet].chat
      BY <1>1, <2>1, <2>2, RowUpdates
    <2>4. AccountStep
      BY <1>1, <2>2, <2>3, Updated
    <2>5. \A q : q.pc = "email.mint" /\ q.arg = r.arg /\ q.token = r.token => ArgOK(q)
      BY <1>1, <1>4 DEF WriteEmail, ArgOK, EmailPcs
    <2>6. "email.mint" \in Pcs /\ None \in Seen /\ r.pc \in EmailPcs
      BY <1>4 DEF Pcs, EmailPcs, Seen, WriteEmail
    <2>7. Goto(r, "email.mint", None) /\ UNCHANGED <<jwts, tokenVars, restarts>>
      BY <1>4 DEF WriteEmail
    <2> QED
      BY <2>4, <2>5, <2>6, <2>7, HandlerGoesOn
  <1>5. CASE WriteVerified(r)
    <2>1. PICK row : row = [users[r.wallet] EXCEPT !.emailVerified = TRUE]
      OBVIOUS
    <2>2. users[r.wallet] # None /\ Update(r.wallet, row) /\ r.token # 0
      BY <1>1, <1>5, <2>1 DEF WriteVerified, ArgOK, Update
    <2>3. row \in Account /\ row.email = users[r.wallet].email
          /\ row.chat = users[r.wallet].chat
      BY <1>1, <2>1, <2>2, RowUpdates
    <2>4. AccountStep
      BY <1>1, <2>2, <2>3, Updated
    <2>5. End(r) /\ Use(r) /\ UNCHANGED <<jwts, emailTokens, linkTokens, restarts>>
      BY <1>5 DEF WriteVerified
    <2> QED
      BY <2>2, <2>4, <2>5, HandlerEnds
  <1>6. CASE LinkTelegram(r)
    <2>1. PICK row : row = [users[r.wallet] EXCEPT !.chat = r.arg, !.telegramVerified = TRUE]
      OBVIOUS
    <2>2. r.arg \in Chat /\ users[r.wallet] # None /\ Update(r.wallet, row)
          /\ ~ChatTaken(r.wallet, r.arg)
      BY <1>1, <1>6, <2>1 DEF LinkTelegram, ArgOK, Update
    <2>3. row \in Account /\ row.chat = r.arg /\ row.email = users[r.wallet].email
      BY <1>1, <2>1, <2>2, RowUpdates
    <2>4. AccountStep
      BY <1>1, <2>2, <2>3, Updated
    <2>5. End(r) /\ UNCHANGED <<jwts, emailTokens, linkTokens, restarts>>
          /\ (used' = used \/ (Use(r) /\ r.token # 0))
      BY <1>6 DEF LinkTelegram
    <2> QED
      BY <2>4, <2>5, HandlerEnds
  <1>7. CASE ReadAccount(r)
    <2>1. UNCHANGED <<users, jwts, tokenVars, restarts>>
      BY <1>7 DEF ReadAccount
    <2>2. CASE users[r.wallet] = None
      <3>1. End(r)
        BY <1>7, <2>2 DEF ReadAccount
      <3> QED
        BY <1>2, <2>1, <3>1, HandlerEnds
    <2>3. CASE users[r.wallet] # None
      <3>1. PICK pc, seen :
              /\ pc = IF r.pc = "consent.read" THEN "consent.write" ELSE "preferences.write"
              /\ seen = users[r.wallet].preferences
        OBVIOUS
      <3>2. Goto(r, pc, seen) /\ r.pc \in {"preferences.read", "consent.read"}
        BY <1>7, <2>3, <3>1 DEF ReadAccount
      <3>3. users[r.wallet] \in Account
        BY <1>1, <2>3 DEF IInv, TypeOK
      <3>4. seen \in Seen
        BY <3>1, <3>3 DEF Account, Seen
      <3>5. pc \in Pcs /\ pc \notin EmailPcs
        BY <3>1 DEF Pcs, EmailPcs
      <3>6. \A q : q.pc = pc /\ q.arg = r.arg /\ q.token = r.token => ArgOK(q)
        BY <1>1, <3>1, <3>2 DEF ArgOK, EmailPcs
      <3> QED
        BY <1>2, <2>1, <3>2, <3>4, <3>5, <3>6, HandlerGoesOn
    <2> QED
      BY <2>2, <2>3
  <1>8. CASE WritePreferences(r)
    <2>1. PICK p : p = Merged(r.seen, r.arg)
      OBVIOUS
    <2>2. PICK row : row = [users[r.wallet] EXCEPT !.preferences = p]
      OBVIOUS
    <2>3. r.arg \in Partial /\ users[r.wallet] # None /\ Update(r.wallet, row)
      BY <1>1, <1>8, <2>1, <2>2 DEF WritePreferences, ArgOK, Update
    <2>4. p \in SUBSET Toggle
      BY <1>1, <2>1, <2>3, MergedTyped
    <2>5. row \in Account /\ row.email = users[r.wallet].email
          /\ row.chat = users[r.wallet].chat
      BY <1>1, <2>2, <2>3, <2>4, RowUpdates
    <2>6. AccountStep
      BY <1>1, <2>3, <2>5, Updated
    <2>7. End(r) /\ UNCHANGED <<jwts, tokenVars, restarts>>
      BY <1>8 DEF WritePreferences
    <2> QED
      BY <2>6, <2>7, HandlerEnds
  <1>9. CASE WriteConsent(r)
    <2>1. PICK row : row = [users[r.wallet] EXCEPT !.consent = r.arg]
      OBVIOUS
    <2>2. r.arg \in BOOLEAN /\ users[r.wallet] # None /\ Update(r.wallet, row)
      BY <1>1, <1>9, <2>1 DEF WriteConsent, ArgOK, Update
    <2>3. row \in Account /\ row.email = users[r.wallet].email
          /\ row.chat = users[r.wallet].chat
      BY <1>1, <2>1, <2>2, RowUpdates
    <2>4. AccountStep
      BY <1>1, <2>2, <2>3, Updated
    <2>5. End(r) /\ UNCHANGED <<jwts, tokenVars, restarts>>
      BY <1>9 DEF WriteConsent
    <2> QED
      BY <2>4, <2>5, HandlerEnds
  <1>10. CASE Fail(r)
    BY <1>2, <1>10, HandlerEnds DEF Fail
  <1> QED
    BY <1>3, <1>4, <1>5, <1>6, <1>7, <1>8, <1>9, <1>10

\* Time and restarts take tokens and requests away, and add none.
LEMMA LossActions ==
  ASSUME IInv, Restart \/ \E t \in emailTokens \cup linkTokens : Lapse(t)
  PROVE  IInv' /\ users' = users
  <1>1. started \in Nat /\ started \in 0..MaxRequests /\ used \subseteq Spent
    BY DEF IInv, TypeOK, Spent
  <1>2. CASE Restart
    <2>1. /\ emailTokens' = {} /\ linkTokens' = {} /\ requests' = {}
          /\ UNCHANGED <<users, jwts, started, used>>
          /\ restarts < MaxRestarts /\ restarts' = restarts + 1
      BY <1>2 DEF Restart
    <2>2. RequestTypes'
      BY <1>1, <2>1, EndTyped
    <2>3. SpentInv'
      BY <1>1, <2>1, TokensGo DEF TokensUnique
    <2>4. TypeOK'
      BY <2>1, BoundsAssumption DEF IInv, TypeOK
    <2> QED
      BY <2>1, <2>2, <2>3, <2>4 DEF IInv, RequestTypes, AddressesAreExclusive
  <1>3. CASE \E t \in emailTokens \cup linkTokens : Lapse(t)
    <2>1. PICK t \in emailTokens \cup linkTokens : Lapse(t)
      BY <1>3
    <2>2. PICK k : k = [t EXCEPT !.lapsed = TRUE]
      OBVIOUS
    <2>3. k \in Token /\ k.no = t.no
      BY <2>2 DEF IInv, TypeOK, Token
    <2>4. /\ emailTokens' = IF t \in emailTokens THEN (emailTokens \ {t}) \cup {k}
                                                 ELSE emailTokens
          /\ linkTokens' = IF t \in linkTokens THEN (linkTokens \ {t}) \cup {k}
                                               ELSE linkTokens
          /\ UNCHANGED <<users, jwts, requests, started, restarts, used>>
      BY <2>1, <2>2 DEF Lapse
    <2>5. /\ \A u \in emailTokens' : \E v \in emailTokens : u.no = v.no
          /\ \A u \in linkTokens' : \E v \in linkTokens : u.no = v.no
      BY <2>3, <2>4
    <2>6. TokensUnique'
      BY <2>3, <2>4 DEF IInv, SpentInv, TokensUnique
    <2>7. SpentInv'
      BY <1>1, <2>4, <2>5, <2>6, TokensGo
    <2>8. emailTokens' \subseteq Token /\ linkTokens' \subseteq Token
      BY <2>3, <2>4 DEF IInv, TypeOK
    <2> QED
      BY <2>4, <2>7, <2>8 DEF IInv, TypeOK, RequestsInv, ArgOK, AddressesAreExclusive
  <1> QED
    BY <1>2, <1>3

-----------------------------------------------------------------------------
(* What the accounts were asked to set                                     *)

\* The handlers and the tokens that wait set what an account was asked for,
\* and so did those that are done.
AskedInv ==
  /\ asked \in [Wallet -> SUBSET Column]
  /\ \A w \in Wallet : users[w] # None => Pending(w) \subseteq asked[w]
  /\ ChoicesWereAskedFor

LEMMA Columns ==
  Column = {"email", "emailVerified", "chat", "telegramVerified", "preferences", "consent"}
  BY DEF Column, NewAccount

\* What each handler sets.
LEMMA ColumnsSet ==
  /\ \A pc \in EmailPcs : ColumnsOf(pc) = {"email", "emailVerified"}
  /\ ColumnsOf("verify.update") = {"emailVerified"}
  /\ ColumnsOf("link.update") = {"chat", "telegramVerified"}
  /\ \A pc \in {"preferences.read", "preferences.write"} : ColumnsOf(pc) = {"preferences"}
  /\ \A pc \in {"consent.read", "consent.write"} : ColumnsOf(pc) = {"consent"}
  /\ \A pc \in Pcs : ColumnsOf(pc) \subseteq Column
  <1>1. \A pc \in EmailPcs : ColumnsOf(pc) = {"email", "emailVerified"}
    BY DEF ColumnsOf, EmailPcs
  <1>2. ColumnsOf("verify.update") = {"emailVerified"}
    BY DEF ColumnsOf
  <1>3. ColumnsOf("link.update") = {"chat", "telegramVerified"}
    BY DEF ColumnsOf
  <1>4. \A pc \in {"preferences.read", "preferences.write"} : ColumnsOf(pc) = {"preferences"}
    BY DEF ColumnsOf
  <1>5. \A pc \in {"consent.read", "consent.write"} : ColumnsOf(pc) = {"consent"}
    BY DEF ColumnsOf
  <1>6. \A pc \in Pcs : ColumnsOf(pc) \subseteq Column
    BY <1>1, <1>2, <1>3, <1>4, <1>5, Columns DEF Pcs
  <1> QED
    BY <1>1, <1>2, <1>3, <1>4, <1>5, <1>6

\* Nothing begins to wait that a wallet had nothing waiting for: each request
\* and each token comes of a request or a token of its wallet.
NothingNew ==
  /\ \A q \in requests' :
       \/ \E r \in requests : q.wallet = r.wallet /\ ColumnsOf(q.pc) \subseteq ColumnsOf(r.pc)
       \/ \E t \in emailTokens : q.wallet = t.wallet /\ q.pc = "verify.update"
       \/ \E t \in linkTokens : q.wallet = t.wallet /\ q.pc = "link.update"
  /\ \A t \in emailTokens' :
       \/ \E u \in emailTokens : t.wallet = u.wallet
       \/ \E r \in requests : t.wallet = r.wallet /\ r.pc = "email.mint"
  /\ \A t \in linkTokens' : \E u \in linkTokens : t.wallet = u.wallet

LEMMA PendingShrinks ==
  ASSUME NothingNew, NEW w
  PROVE  Pending(w)' \subseteq Pending(w)
  <1>1. ColumnsOf("email.mint") = {"email", "emailVerified"}
    BY ColumnsSet DEF EmailPcs
  <1> SUFFICES ASSUME NEW c, c \in Pending(w)' PROVE c \in Pending(w)
    OBVIOUS
  <1>2. c \in Column
    BY DEF Pending
  <1>3. CASE \E q \in requests' : q.wallet = w /\ c \in ColumnsOf(q.pc)
    BY <1>2, <1>3, ColumnsSet DEF NothingNew, Pending
  <1>4. CASE c = "emailVerified" /\ \E t \in emailTokens' : t.wallet = w
    BY <1>1, <1>2, <1>4 DEF NothingNew, Pending
  <1>5. CASE c \in {"chat", "telegramVerified"} /\ \E t \in linkTokens' : t.wallet = w
    BY <1>2, <1>5 DEF NothingNew, Pending
  <1> QED
    BY <1>3, <1>4, <1>5 DEF Pending, ColumnsOf

\* A step that only finishes what was waiting: an account that is there was
\* there, and has set no column but one that was pending.
LEMMA OnlyPendingIsSet ==
  ASSUME IInv, AskedInv, asked' = asked, NothingNew,
         \A w \in Wallet : users'[w] # None =>
           /\ users[w] # None
           /\ \A c \in Column : users'[w][c] # NewAccount[c] =>
                users[w][c] # NewAccount[c] \/ c \in Pending(w)
  PROVE  AskedInv'
  <1>1. \A w \in Wallet : users'[w] # None => Pending(w)' \subseteq asked'[w]
    BY PendingShrinks DEF AskedInv
  <1>2. ChoicesWereAskedFor'
    BY DEF AskedInv, ChoicesWereAskedFor
  <1> QED
    BY <1>1, <1>2 DEF AskedInv

\* The same, for a handler that writes one row.
LEMMA RowWritten ==
  ASSUME IInv, AskedInv, asked' = asked, NothingNew, NEW r \in requests,
         NEW row \in Account, Update(r.wallet, row),
         \A c \in Column : c \in ColumnsOf(r.pc) \/ row[c] = NewAccount[c]
                             \/ row[c] = users[r.wallet][c]
  PROVE  AskedInv'
  <1>1. users \in [Wallet -> {None} \cup Account] /\ r.wallet \in Wallet
    BY DEF IInv, TypeOK
  <1>2. users[r.wallet] # None /\ users' = [users EXCEPT ![r.wallet] = row]
    BY DEF Update
  <1>3. ColumnsOf(r.pc) \subseteq Pending(r.wallet)
    BY ColumnsSet DEF Pending, IInv, RequestsInv, Request
  <1> QED
    BY <1>1, <1>2, <1>3, OnlyPendingIsSet

\* An account that is there is asked to set these columns, or sets them now.
LEMMA AskedFor ==
  ASSUME IInv, AskedInv, NEW w \in Wallet, NEW columns \in SUBSET Column, Ask(w, columns),
         \A v \in Wallet : Pending(v)' \subseteq Pending(v) \cup (IF v = w THEN columns ELSE {}),
         \A v \in Wallet : users'[v] # None =>
           /\ users[v] # None
           /\ \A c \in Column : users'[v][c] # NewAccount[c] =>
                users[v][c] # NewAccount[c] \/ (v = w /\ c \in columns)
  PROVE  AskedInv'
  <1>1. asked' \in [Wallet -> SUBSET Column]
    BY DEF AskedInv, Ask
  <1>2. \A v \in Wallet : users[v] # None =>
          asked'[v] = asked[v] \cup (IF v = w THEN columns ELSE {})
    BY DEF AskedInv, Ask
  <1>3. \A v \in Wallet : users'[v] # None => Pending(v)' \subseteq asked'[v]
    BY <1>2 DEF AskedInv
  <1>4. ChoicesWereAskedFor'
    BY <1>2 DEF AskedInv, ChoicesWereAskedFor
  <1> QED
    BY <1>1, <1>3, <1>4 DEF AskedInv

\* An account appears, made with these columns.
LEMMA Appeared ==
  ASSUME IInv, AskedInv, NEW w \in Wallet, NEW columns \in SUBSET Column, Appear(w, columns),
         UNCHANGED <<requests, emailTokens, linkTokens>>, NEW row,
         users' = [users EXCEPT ![w] = row],
         \A c \in Column : row[c] # NewAccount[c] => c \in columns
  PROVE  AskedInv'
  <1>1. \A v \in Wallet : Pending(v)' = Pending(v)
    BY DEF Pending, ColumnsOf
  <1>2. Pending(w) \in SUBSET Column
    BY DEF Pending
  <1>3. asked' \in [Wallet -> SUBSET Column]
        /\ \A v \in Wallet : asked'[v] = IF v = w THEN Pending(w) \cup columns ELSE asked[v]
    BY <1>2 DEF AskedInv, Appear
  <1>4. users \in [Wallet -> {None} \cup Account]
    BY DEF IInv, TypeOK
  <1>5. \A v \in Wallet : users'[v] = IF v = w THEN row ELSE users[v]
    BY <1>4
  <1>6. \A v \in Wallet : users'[v] # None => Pending(v)' \subseteq asked'[v]
    BY <1>1, <1>3, <1>5 DEF AskedInv
  <1>7. ChoicesWereAskedFor'
    BY <1>3, <1>5 DEF AskedInv, ChoicesWereAskedFor
  <1> QED
    BY <1>3, <1>6, <1>7 DEF AskedInv

\* Sign-in, the end of an access token, registration and deletion.
LEMMA AccountsAsked ==
  ASSUME IInv, AskedInv, NEW w \in Wallet,
         \/ SignIn(w) \/ Expire(w) \/ AutoRegister(w) \/ DeleteAccount(w)
         \/ \E e \in Email \cup {None}, c \in Chat \cup {None} : Register(w, e, c)
  PROVE  AskedInv'
  <1>1. UNCHANGED <<requests, emailTokens, linkTokens>>
    BY DEF SignIn, Expire, AutoRegister, DeleteAccount, Register
  <1>2. NothingNew /\ \A v \in Wallet : Pending(v)' = Pending(v)
    BY <1>1 DEF NothingNew, Pending, ColumnsOf
  <1>3. users \in [Wallet -> {None} \cup Account] /\ NewAccount \in Account
    BY DEF IInv, TypeOK, NewAccount, Account
  <1>4. ASSUME MakeIfNone(w) PROVE AskedInv'
    <2>1. CASE users[w] = None
      BY <1>1, <1>4, <2>1, Appeared DEF MakeIfNone
    <2>2. CASE users[w] # None
      BY <1>2, <1>4, <2>2, OnlyPendingIsSet DEF MakeIfNone
    <2> QED
      BY <2>1, <2>2
  <1>5. CASE SignIn(w)
    BY <1>4, <1>5 DEF SignIn
  <1>6. CASE AutoRegister(w)
    BY <1>4, <1>6 DEF AutoRegister
  <1>7. CASE Expire(w)
    BY <1>2, <1>7, OnlyPendingIsSet DEF Expire
  <1>8. CASE DeleteAccount(w)
    <2>1. users' = [users EXCEPT ![w] = None] /\ asked' = [asked EXCEPT ![w] = {}]
      BY <1>8 DEF DeleteAccount, Update
    <2>2. \A v \in Wallet : users'[v] # None => users'[v] = users[v] /\ asked'[v] = asked[v]
      BY <1>3, <2>1 DEF AskedInv
    <2>3. asked' \in [Wallet -> SUBSET Column]
      BY <2>1 DEF AskedInv
    <2>4. ChoicesWereAskedFor'
      BY <2>2 DEF AskedInv, ChoicesWereAskedFor
    <2> QED
      BY <1>2, <2>2, <2>3, <2>4 DEF AskedInv
  <1>9. CASE \E e \in Email \cup {None}, c \in Chat \cup {None} : Register(w, e, c)
    <2>1. PICK e \in Email \cup {None}, c \in Chat \cup {None} : Register(w, e, c)
      BY <1>9
    <2>2. PICK given : given = (IF e = None THEN {} ELSE {"email"})
                                 \cup (IF c = None THEN {} ELSE {"chat"})
      OBVIOUS
    <2>3. PICK old : old = IF users[w] = None THEN NewAccount ELSE users[w]
      OBVIOUS
    <2>4. PICK row : row = [old EXCEPT !.email = IF e = None THEN @ ELSE e,
                                       !.chat = IF c = None THEN @ ELSE c]
      OBVIOUS
    <2>5. users' = [users EXCEPT ![w] = row]
          /\ (IF users[w] = None THEN Appear(w, given) ELSE Ask(w, given))
      BY <2>1, <2>2, <2>3, <2>4 DEF Register
    <2>6. given \in SUBSET Column /\ old \in Account
      BY <1>3, <2>2, <2>3, Columns
    <2>7. \A k \in Column : row[k] = old[k] \/ k \in given
      BY <2>2, <2>4, <2>6, Columns DEF Account
    <2>8. CASE users[w] = None
      BY <1>1, <2>3, <2>5, <2>6, <2>7, <2>8, Appeared
    <2>9. CASE users[w] # None
      <3>1. \A v \in Wallet : users'[v] = IF v = w THEN row ELSE users[v]
        BY <1>3, <2>5
      <3> QED
        BY <1>2, <2>3, <2>5, <2>6, <2>7, <2>9, <3>1, AskedFor
    <2> QED
      BY <2>8, <2>9
  <1> QED
    BY <1>5, <1>6, <1>7, <1>8, <1>9

\* A protected request, or one for a Telegram token.
LEMMA RequestsAsked ==
  ASSUME IInv, AskedInv, NEW w \in Wallet,
         \/ \E pc \in Pcs, arg \in Args : Protected(pc, w, arg)
         \/ InitTelegram(w)
  PROVE  AskedInv'
  <1>1. users' = users
    BY DEF Protected, InitTelegram
  <1>2. CASE InitTelegram(w)
    <2>1. PICK columns : columns = {"chat", "telegramVerified"}
      OBVIOUS
    <2>2. columns \in SUBSET Column /\ Ask(w, columns)
      BY <1>2, <2>1, Columns, ColumnsSet DEF InitTelegram
    <2>3. PICK t : t.wallet = w /\ linkTokens' = linkTokens \cup {t}
                   /\ UNCHANGED <<requests, emailTokens>>
      BY <1>2 DEF InitTelegram
    <2>4. \A v \in Wallet :
            Pending(v)' \subseteq Pending(v) \cup (IF v = w THEN columns ELSE {})
      BY <2>1, <2>3 DEF Pending, ColumnsOf
    <2> QED
      BY <1>1, <2>2, <2>4, AskedFor
  <1>3. CASE \E pc \in Pcs, arg \in Args : Protected(pc, w, arg)
    <2>1. PICK pc \in Pcs, arg \in Args : Protected(pc, w, arg)
      BY <1>3
    <2>2. PICK columns : columns = ColumnsOf(pc)
      OBVIOUS
    <2>3. columns \in SUBSET Column /\ Ask(w, columns)
      BY <2>1, <2>2, ColumnsSet DEF Protected
    <2>4. Start(pc, w, arg, 0) /\ UNCHANGED tokenVars
      BY <2>1 DEF Protected
    <2>5. PICK q : q.wallet = w /\ q.pc = pc /\ requests' = requests \cup {q}
      BY <2>4 DEF Start
    <2>6. \A v \in Wallet :
            Pending(v)' \subseteq Pending(v) \cup (IF v = w THEN columns ELSE {})
      <3>1. ASSUME NEW v \in Wallet, NEW c, c \in Pending(v)', c \notin Pending(v)
            PROVE  v = w /\ c \in columns
        <4>1. c \in Column /\ \E r \in requests' : r.wallet = v /\ c \in ColumnsOf(r.pc)
          BY <2>4, <3>1 DEF Pending, ColumnsOf
        <4>2. \A r \in requests : ~(r.wallet = v /\ c \in ColumnsOf(r.pc))
          BY <3>1, <4>1 DEF Pending
        <4> QED
          BY <2>2, <2>5, <4>1, <4>2
      <3> QED
        BY <3>1
    <2> QED
      BY <1>1, <2>3, <2>6, AskedFor
  <1> QED
    BY <1>2, <1>3

\* A token is shown, lapses or is lost in a restart.
LEMMA TokensAsked ==
  ASSUME IInv, AskedInv,
         \/ \E t \in emailTokens : VerifyEmail(t)
         \/ \E t \in linkTokens, c \in Chat : HandleCallback(t, c)
         \/ Restart
         \/ \E t \in emailTokens \cup linkTokens : Lapse(t)
  PROVE  AskedInv'
  <1>1. users' = users /\ asked' = asked
    BY DEF VerifyEmail, HandleCallback, Restart, Lapse
  <1>2. NothingNew
    <2>1. CASE Restart
      BY <2>1 DEF Restart, NothingNew
    <2>2. CASE \E t \in emailTokens : VerifyEmail(t)
      <3>1. PICK t \in emailTokens : VerifyEmail(t)
        BY <2>2
      <3>2. emailTokens' \subseteq emailTokens /\ linkTokens' = linkTokens
        BY <3>1 DEF VerifyEmail
      <3>3. \A q \in requests' :
              q \in requests \/ (q.wallet = t.wallet /\ q.pc = "verify.update")
        BY <3>1 DEF VerifyEmail, Start
      <3> QED
        BY <3>2, <3>3 DEF NothingNew
    <2>3. CASE \E t \in linkTokens, c \in Chat : HandleCallback(t, c)
      <3>1. PICK t \in linkTokens, c \in Chat : HandleCallback(t, c)
        BY <2>3
      <3>2. linkTokens' \subseteq linkTokens /\ emailTokens' = emailTokens
        BY <3>1 DEF HandleCallback
      <3>3. \A q \in requests' :
              q \in requests \/ (q.wallet = t.wallet /\ q.pc = "link.update")
        BY <3>1 DEF HandleCallback, Start
      <3> QED
        BY <3>2, <3>3 DEF NothingNew
    <2>4. CASE \E t \in emailTokens \cup linkTokens : Lapse(t)
      <3>1. PICK t \in emailTokens \cup linkTokens : Lapse(t)
        BY <2>4
      <3>2. PICK k : k = [t EXCEPT !.lapsed = TRUE]
        OBVIOUS
      <3>3. t \in Token
        BY <3>1 DEF IInv, TypeOK
      <3>4. k.wallet = t.wallet
        BY <3>2, <3>3 DEF Token
      <3>5. /\ emailTokens' = IF t \in emailTokens THEN (emailTokens \ {t}) \cup {k}
                                                   ELSE emailTokens
            /\ linkTokens' = IF t \in linkTokens THEN (linkTokens \ {t}) \cup {k}
                                                 ELSE linkTokens
            /\ requests' = requests
        BY <3>1, <3>2 DEF Lapse
      <3> QED
        BY <3>4, <3>5 DEF NothingNew
    <2> QED
      BY <2>1, <2>2, <2>3, <2>4
  <1> QED
    BY <1>1, <1>2, OnlyPendingIsSet

\* A handler ends, or goes on to an await at which it is to set the same.
LEMMA HandlerMoves ==
  ASSUME IInv, NEW r \in requests, UNCHANGED <<emailTokens, linkTokens>>,
         \/ End(r)
         \/ \E pc \in Pcs, seen \in Seen :
              Goto(r, pc, seen) /\ ColumnsOf(pc) \subseteq ColumnsOf(r.pc)
  PROVE  NothingNew
  <1>1. CASE End(r)
    BY <1>1 DEF End, NothingNew
  <1>2. CASE \E pc \in Pcs, seen \in Seen :
               Goto(r, pc, seen) /\ ColumnsOf(pc) \subseteq ColumnsOf(r.pc)
    <2>1. PICK pc \in Pcs, seen \in Seen :
            Goto(r, pc, seen) /\ ColumnsOf(pc) \subseteq ColumnsOf(r.pc)
      BY <1>2
    <2>2. PICK q \in Request : requests' = (requests \ {r}) \cup {q}
                               /\ q.pc = pc /\ q.wallet = r.wallet
      BY <2>1, Went
    <2> QED
      BY <2>1, <2>2 DEF NothingNew
  <1> QED
    BY <1>1, <1>2

\* The handlers that wait.
LEMMA HandlersAsked ==
  ASSUME IInv, AskedInv, NEW r \in requests,
         \/ LookUpEmail(r) \/ WriteEmail(r) \/ MintEmailToken(r) \/ WriteVerified(r)
         \/ LinkTelegram(r) \/ ReadAccount(r) \/ WritePreferences(r) \/ WriteConsent(r)
         \/ Fail(r)
  PROVE  AskedInv'
  <1>1. r \in Request /\ ArgOK(r) /\ r.wallet \in Wallet /\ r.seen \in Seen
        /\ users \in [Wallet -> {None} \cup Account] /\ asked' = asked
    BY DEF IInv, TypeOK, RequestsInv, Request, LookUpEmail, WriteEmail, MintEmailToken,
       WriteVerified, LinkTelegram, ReadAccount, WritePreferences, WriteConsent, Fail
  <1>2. ASSUME users' = users, NothingNew PROVE AskedInv'
    BY <1>1, <1>2, OnlyPendingIsSet
  <1>3. CASE LookUpEmail(r)
    <2>1. ColumnsOf("email.update") \subseteq ColumnsOf(r.pc) /\ "email.update" \in Pcs
          /\ None \in Seen
      BY <1>3, ColumnsSet DEF LookUpEmail, EmailPcs, Pcs, Seen
    <2> QED
      BY <1>2, <1>3, <2>1, HandlerMoves DEF LookUpEmail
  <1>4. CASE WriteEmail(r)
    <2>1. PICK row : row = [users[r.wallet] EXCEPT !.email = r.arg, !.emailVerified = FALSE]
      OBVIOUS
    <2>2. users[r.wallet] \in Account /\ r.arg \in Email /\ Update(r.wallet, row)
      BY <1>1, <1>4, <2>1 DEF WriteEmail, ArgOK, EmailPcs, Update
    <2>3. row \in Account
      BY <2>1, <2>2 DEF Account
    <2>4. ColumnsOf(r.pc) = {"email", "emailVerified"}
          /\ ColumnsOf("email.mint") \subseteq ColumnsOf(r.pc)
          /\ "email.mint" \in Pcs /\ None \in Seen
      BY <1>4, ColumnsSet DEF WriteEmail, EmailPcs, Pcs, Seen
    <2>5. NothingNew
      BY <1>4, <2>4, HandlerMoves DEF WriteEmail
    <2>6. \A c \in Column : c \in ColumnsOf(r.pc) \/ row[c] = users[r.wallet][c]
      BY <2>1, <2>2, <2>4, Columns DEF Account
    <2> QED
      BY <1>1, <2>2, <2>3, <2>5, <2>6, RowWritten
  <1>5. CASE MintEmailToken(r)
    <2>1. PICK t : t.wallet = r.wallet /\ emailTokens' = emailTokens \cup {t}
      BY <1>5 DEF MintEmailToken
    <2>2. requests' \subseteq requests /\ linkTokens' = linkTokens /\ users' = users
          /\ r.pc = "email.mint"
      BY <1>5 DEF MintEmailToken, End
    <2> QED
      BY <1>2, <2>1, <2>2 DEF NothingNew
  <1>6. CASE WriteVerified(r)
    <2>1. PICK row : row = [users[r.wallet] EXCEPT !.emailVerified = TRUE]
      OBVIOUS
    <2>2. users[r.wallet] \in Account /\ Update(r.wallet, row)
      BY <1>1, <1>6, <2>1 DEF WriteVerified, Update
    <2>3. row \in Account
      BY <2>1, <2>2 DEF Account
    <2>4. ColumnsOf(r.pc) = {"emailVerified"} /\ NothingNew
      BY <1>6, ColumnsSet, HandlerMoves DEF WriteVerified
    <2>5. \A c \in Column : c \in ColumnsOf(r.pc) \/ row[c] = users[r.wallet][c]
      BY <2>1, <2>2, <2>4, Columns DEF Account
    <2> QED
      BY <1>1, <2>2, <2>3, <2>4, <2>5, RowWritten
  <1>7. CASE LinkTelegram(r)
    <2>1. PICK row : row = [users[r.wallet] EXCEPT !.chat = r.arg, !.telegramVerified = TRUE]
      OBVIOUS
    <2>2. users[r.wallet] \in Account /\ r.arg \in Chat /\ Update(r.wallet, row)
      BY <1>1, <1>7, <2>1 DEF LinkTelegram, ArgOK, Update
    <2>3. row \in Account
      BY <2>1, <2>2 DEF Account
    <2>4. ColumnsOf(r.pc) = {"chat", "telegramVerified"} /\ NothingNew
      BY <1>7, ColumnsSet, HandlerMoves DEF LinkTelegram
    <2>5. \A c \in Column : c \in ColumnsOf(r.pc) \/ row[c] = users[r.wallet][c]
      BY <2>1, <2>2, <2>4, Columns DEF Account
    <2> QED
      BY <1>1, <2>2, <2>3, <2>4, <2>5, RowWritten
  <1>8. CASE ReadAccount(r)
    <2>1. users' = users /\ UNCHANGED <<emailTokens, linkTokens>>
      BY <1>8 DEF ReadAccount
    <2>2. CASE users[r.wallet] = None
      BY <1>2, <1>8, <2>1, <2>2, HandlerMoves DEF ReadAccount
    <2>3. CASE users[r.wallet] # None
      <3>1. PICK pc, seen :
              /\ pc = IF r.pc = "consent.read" THEN "consent.write" ELSE "preferences.write"
              /\ seen = users[r.wallet].preferences
        OBVIOUS
      <3>2. Goto(r, pc, seen) /\ r.pc \in {"preferences.read", "consent.read"}
        BY <1>8, <2>3, <3>1 DEF ReadAccount
      <3>3. seen \in Seen
        BY <1>1, <2>3, <3>1 DEF Account, Seen
      <3>4. pc \in Pcs /\ ColumnsOf(pc) \subseteq ColumnsOf(r.pc)
        BY <3>1, <3>2, ColumnsSet DEF Pcs
      <3> QED
        BY <1>2, <2>1, <3>2, <3>3, <3>4, HandlerMoves
    <2> QED
      BY <2>2, <2>3
  <1>9. CASE WritePreferences(r)
    <2>1. PICK p : p = Merged(r.seen, r.arg)
      OBVIOUS
    <2>2. PICK row : row = [users[r.wallet] EXCEPT !.preferences = p]
      OBVIOUS
    <2>3. users[r.wallet] \in Account /\ r.arg \in Partial /\ Update(r.wallet, row)
      BY <1>1, <1>9, <2>1, <2>2 DEF WritePreferences, ArgOK, Update
    <2>4. p \in SUBSET Toggle
      BY <1>1, <2>1, <2>3, MergedTyped
    <2>5. row \in Account
      BY <2>2, <2>3, <2>4 DEF Account
    <2>6. ColumnsOf(r.pc) = {"preferences"} /\ NothingNew
      BY <1>9, ColumnsSet, HandlerMoves DEF WritePreferences
    <2>7. \A c \in Column : c \in ColumnsOf(r.pc) \/ row[c] = users[r.wallet][c]
      BY <2>2, <2>3, <2>6, Columns DEF Account
    <2> QED
      BY <1>1, <2>3, <2>5, <2>6, <2>7, RowWritten
  <1>10. CASE WriteConsent(r)
    <2>1. PICK row : row = [users[r.wallet] EXCEPT !.consent = r.arg]
      OBVIOUS
    <2>2. users[r.wallet] \in Account /\ r.arg \in BOOLEAN /\ Update(r.wallet, row)
      BY <1>1, <1>10, <2>1 DEF WriteConsent, ArgOK, Update
    <2>3. row \in Account
      BY <2>1, <2>2 DEF Account
    <2>4. ColumnsOf(r.pc) = {"consent"} /\ NothingNew
      BY <1>10, ColumnsSet, HandlerMoves DEF WriteConsent
    <2>5. \A c \in Column : c \in ColumnsOf(r.pc) \/ row[c] = users[r.wallet][c]
      BY <2>1, <2>2, <2>4, Columns DEF Account
    <2> QED
      BY <1>1, <2>2, <2>3, <2>4, <2>5, RowWritten
  <1>11. CASE Fail(r)
    BY <1>2, <1>11, HandlerMoves DEF Fail
  <1> QED
    BY <1>3, <1>4, <1>5, <1>6, <1>7, <1>8, <1>9, <1>10, <1>11

\* Every step keeps the history and the accounts together.
LEMMA NextKeepsAsked == ASSUME IInv, AskedInv, [Next]_vars PROVE AskedInv'
  <1>1. CASE Arrive
    <2>1. CASE \/ \E t \in emailTokens : VerifyEmail(t)
               \/ \E t \in linkTokens, c \in Chat : HandleCallback(t, c)
      BY <2>1, TokensAsked
    <2>2. CASE \E w \in Wallet : InitTelegram(w)
      BY <2>2, RequestsAsked
    <2>3. CASE \E w \in Wallet :
                 \/ SignIn(w) \/ Expire(w) \/ AutoRegister(w) \/ DeleteAccount(w)
                 \/ \E e \in Email \cup {None}, c \in Chat \cup {None} : Register(w, e, c)
      BY <2>3, AccountsAsked
    <2>4. CASE \E w \in Wallet :
                 \/ \E e \in Email : PutEmail(w, e)
                 \/ \E c \in Chat : PutTelegram(w, c)
                 \/ \E p \in Partial : PutPreferences(w, p)
                 \/ \E given \in BOOLEAN : PutConsent(w, given)
      <3>1. PICK w \in Wallet : \E pc \in Pcs, arg \in Args : Protected(pc, w, arg)
        BY <2>4 DEF PutEmail, PutTelegram, PutPreferences, PutConsent, Pcs, EmailPcs, Args
      <3> QED
        BY <3>1, RequestsAsked
    <2> QED
      BY <1>1, <2>1, <2>2, <2>3, <2>4 DEF Arrive
  <1>2. CASE Continue
    BY <1>2, HandlersAsked DEF Continue
  <1>3. CASE Restart \/ \E t \in emailTokens \cup linkTokens : Lapse(t)
    BY <1>3, TokensAsked
  <1>4. CASE UNCHANGED vars
    BY <1>4 DEF AskedInv, Pending, ColumnsOf, ChoicesWereAskedFor
  <1> QED
    BY <1>1, <1>2, <1>3, <1>4 DEF Next

-----------------------------------------------------------------------------
(* The theorems                                                            *)

\* Each step keeps the invariant, and writes one account at most.
LEMMA NextKeepsIInv == ASSUME IInv, [Next]_vars PROVE IInv' /\ AccountStep
  <1>1. CASE Arrive
    <2>1. CASE \E t \in emailTokens : VerifyEmail(t)
      BY <2>1, TokenActions DEF AccountStep
    <2>2. CASE \E t \in linkTokens, c \in Chat : HandleCallback(t, c)
      BY <2>2, TokenActions DEF AccountStep
    <2>3. CASE \E w \in Wallet : InitTelegram(w)
      BY <2>3, MintActions DEF AccountStep
    <2>4. CASE \E w \in Wallet :
                 \/ SignIn(w) \/ Expire(w) \/ AutoRegister(w) \/ DeleteAccount(w)
                 \/ \E e \in Email \cup {None}, c \in Chat \cup {None} : Register(w, e, c)
      BY <2>4, AccountActions
    <2>5. CASE \E w \in Wallet :
                 \/ \E e \in Email : PutEmail(w, e)
                 \/ \E c \in Chat : PutTelegram(w, c)
                 \/ \E p \in Partial : PutPreferences(w, p)
                 \/ \E given \in BOOLEAN : PutConsent(w, given)
      BY <2>5, ProtectedActions DEF AccountStep
    <2> QED
      BY <1>1, <2>1, <2>2, <2>3, <2>4, <2>5 DEF Arrive
  <1>2. CASE Continue
    <2>1. CASE \E r \in requests : MintEmailToken(r)
      BY <2>1, MintActions DEF AccountStep
    <2> QED
      BY <1>2, <2>1, ContinueActions DEF Continue
  <1>3. CASE Restart \/ \E t \in emailTokens \cup linkTokens : Lapse(t)
    BY <1>3, LossActions DEF AccountStep
  <1>4. CASE UNCHANGED vars
    BY <1>4 DEF IInv, TypeOK, RequestsInv, ArgOK, SpentInv, TokensUnique, Spent, Kept,
       AddressesAreExclusive, AccountStep
  <1> QED
    BY <1>1, <1>2, <1>3, <1>4 DEF Next

\* IInv holds in every reachable state.
THEOREM Invariance == Spec => []IInv
  BY InitIInv, NextKeepsIInv, PTL DEF Spec

\* Every variable keeps its type, and requests and tokens their numbers.
THEOREM TypeCorrect == Spec => []TypeOK
  BY Invariance, PTL DEF IInv

\* Whatever awaits lie between the check of a one-time token and the update
\* it authorises, and whatever is deleted, lapses or restarts meanwhile: a
\* token authorises one update at most.
THEOREM SpentOnce == Spec => []TokensAreSpentOnce
  <1>1. IInv => TokensAreSpentOnce
    BY DEF IInv, SpentInv, Spent, Kept, TokensAreSpentOnce
  <1> QED
    BY <1>1, Invariance, PTL

\* Any number of wallets may race for an address or a chat: one has it.
THEOREM Exclusive == Spec => []AddressesAreExclusive
  BY Invariance, PTL DEF IInv

\* An account that appears is blank, whatever handlers, access tokens and
\* one-time tokens a deleted one has left.
THEOREM BeginsBlank == Spec => NewAccountsAreBlank
  <1>1. ASSUME IInv, [Next]_vars, NEW w \in Wallet, users[w] = None, users'[w] # None
        PROVE  /\ ~users'[w].emailVerified /\ ~users'[w].telegramVerified
               /\ users'[w].preferences = None /\ ~users'[w].consent
    <2>1. users \in [Wallet -> {None} \cup Account] /\ AccountStep
      BY <1>1, NextKeepsIInv DEF IInv, TypeOK
    <2>2. PICK v \in Wallet, row \in Account : Wrote(v, row)
      BY <1>1, <2>1 DEF AccountStep, Removed
    <2>3. v = w /\ users'[w] = row
      BY <1>1, <2>1, <2>2 DEF Wrote
    <2> QED
      BY <1>1, <2>2, <2>3 DEF Wrote, Untouched
  <1>2. IInv /\ [Next]_vars =>
          [\A w \in Wallet : users[w] = None /\ users'[w] # None =>
             /\ ~users'[w].emailVerified /\ ~users'[w].telegramVerified
             /\ users'[w].preferences = None /\ ~users'[w].consent]_vars
    BY <1>1
  <1> QED
    BY <1>2, Invariance, PTL DEF Spec, NewAccountsAreBlank

\* Whatever waits while an account is deleted and made again, it sets no
\* column that it was not to set: each one that an account has was asked for
\* since it was made, or was still waiting when it was made.
THEOREM AskedFirst == Spec => []ChoicesWereAskedFor
  <1>1. Init => AskedInv
    BY DEF Init, AskedInv, ChoicesWereAskedFor
  <1>2. IInv /\ AskedInv /\ [Next]_vars => AskedInv'
    BY NextKeepsAsked
  <1>3. AskedInv => ChoicesWereAskedFor
    BY DEF AskedInv
  <1> QED
    BY <1>1, <1>2, <1>3, Invariance, PTL DEF Spec
=============================================================================
