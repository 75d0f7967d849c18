--------------------------- MODULE SiwwAuth_proof ---------------------------
(***************************************************************************)
(* Proofs about SiwwAuth for every value of its constants: which requests  *)
(* are accepted, that a challenge is good for one of them, and that an     *)
(* account is welcomed once.                                               *)
(***************************************************************************)
EXTENDS SiwwAuth, SequenceTheorems, TLAPS

USE DEF apiVars, history, vars

-----------------------------------------------------------------------------
(* The inductive invariant                                                 *)

TabState ==
  {NoTab} \cup [pc: {"sign"}, message: Nat \X Nat]
          \cup [pc: {"post"}, message: Nat \X Nat, key: Wallet]
          \cup [pc: {"posted"}] \cup [pc: {"in"}, wallet: Wallet]

\* A message that states when its challenge was issued.
Authentic(message) ==
  message[1] \in 1..nonces /\ message[2] = issuedAt[message[1]]

\* A challenge in the store was issued when it says, and no request for it
\* has been judged.
StoreInv ==
  \A s \in store :
    /\ s.createdAt = issuedAt[s.nonce]
    /\ \A v \in verdicts : v.nonce # s.nonce

\* What a tab has signed, or is about to sign, and what it has posted are
\* messages that the API has issued.
MessagesInv ==
  /\ \A t \in Tab : tab[t].pc \in {"sign", "post"} => Authentic(tab[t].message)
  /\ \A t \in Tab : body[t] # NoTab =>
       Authentic(body[t].message) /\ body[t].nonce = body[t].message[1]

\* A challenge issued since the last restart leaves the store by a request
\* that is judged, or by its age.
LostInv ==
  \A n \in 1..nonces :
    issuedIn[n] = restarts =>
      \/ \E s \in store : s.nonce = n
      \/ \E v \in verdicts : v.nonce = n
      \/ now - issuedAt[n] > TTL

\* A call that has created an account is the only one that will welcome it.
WelcomeInv ==
  /\ welcomes \in [Wallet -> {0, 1}]
  /\ \A w \in Wallet : welcomes[w] = 1 => w \in users
  /\ \A c \in calls : c.first =>
       c.pc = "reply" /\ c.wallet \in users /\ welcomes[c.wallet] = 0
  /\ \A c, d \in calls : c.first /\ d.first /\ c.wallet = d.wallet => c = d

ChallengeInv ==
  /\ TypeOK
  /\ tab \in [Tab -> TabState]
  /\ issuedAt \in Seq(Nat) /\ Len(issuedAt) = nonces
  /\ issuedIn \in Seq(Nat) /\ Len(issuedIn) = nonces
  /\ \A n \in 1..nonces : issuedIn[n] <= restarts
  /\ \A v \in verdicts : v.nonce \in 1..nonces
  /\ StoreInv /\ MessagesInv /\ LostInv

IInv == ChallengeInv /\ WelcomeInv /\ AcceptedAreGood /\ GoodAreAccepted

\* The challenges issued have their time.
LEMMA IssuedTyped ==
  ASSUME ChallengeInv, NEW n \in 1..nonces
  PROVE  issuedAt[n] \in Nat /\ issuedIn[n] \in Nat
  BY ElementOfSeq DEF ChallengeInv, TypeOK

-----------------------------------------------------------------------------
(* The judgement of a request                                              *)

\* The checks of verifyAndConnect accept the good requests only, and all of
\* those whose challenge was issued since the last restart.
LEMMA Judgement ==
  ASSUME ChallengeInv, NEW t \in Tab, body[t] # NoTab
  PROVE  /\ Accepts(body[t]) => Good(body[t])
         /\ Good(body[t]) /\ restarts = issuedIn[body[t].nonce] => Accepts(body[t])
  <1> DEFINE b == body[t]
             n == b.nonce
  <1>1. /\ b \in Body /\ n \in 1..nonces /\ nonces \in Nat /\ n \in Nat
        /\ b.message[1] = n /\ b.message[2] = issuedAt[n]
        /\ now \in Nat /\ issuedAt[n] \in Nat /\ b.timestamp \in Nat
        /\ b.message \in Nat \X Nat
    BY IssuedTyped DEF ChallengeInv, TypeOK, MessagesInv, Authentic, Body
  <1>2. b.message = SignedMessage(b) <=> b.timestamp = issuedAt[n]
    BY <1>1 DEF SignedMessage
  <1>3. \A s \in store : s.nonce = n =>
          s.createdAt = issuedAt[n] /\ \A v \in verdicts : v.nonce # n
    BY DEF ChallengeInv, StoreInv
  <1>4. Accepts(b) => Good(b)
    <2> SUFFICES ASSUME Accepts(b) PROVE Good(b)
      OBVIOUS
    <2>1. PICK s \in store : s.nonce = n /\ ~Expired(s.createdAt)
      BY DEF Accepts, Consumable
    <2>2. b.timestamp = issuedAt[n] /\ b.key = b.wallet /\ b.key \in Edpk
          /\ now - b.timestamp <= Skew
      BY <1>2 DEF Accepts, SignatureVerifies, KeyMatches
    <2>3. now - issuedAt[n] <= TTL
      BY <1>1, <1>3, <2>1, ConfigAssumption DEF Expired
    <2> QED
      BY <1>3, <2>1, <2>2, <2>3 DEF Good
  <1>5. Good(b) /\ restarts = issuedIn[n] => Accepts(b)
    <2> SUFFICES ASSUME Good(b), restarts = issuedIn[n] PROVE Accepts(b)
      OBVIOUS
    <2>0. (\A v \in verdicts : v.nonce # n) /\ ~(now - issuedAt[n] > TTL)
      BY <1>1, ConfigAssumption DEF Good
    <2>1. PICK s \in store : s.nonce = n
      BY <1>1, <2>0 DEF ChallengeInv, LostInv
    <2>2. ~Expired(s.createdAt)
      BY <1>1, <1>3, <2>1, ConfigAssumption DEF Good, Expired
    <2>3. now - b.timestamp <= Skew /\ b.timestamp - now <= Skew
      <3>1. b.timestamp = issuedAt[n] /\ now - issuedAt[n] <= Skew
        BY DEF Good
      <3>2. issuedAt[n] <= now
        BY <1>1, <1>3, <2>1 DEF ChallengeInv, TypeOK
      <3> QED
        BY <1>1, <3>1, <3>2, ConfigAssumption
    <2>4. SignatureVerifies(b) /\ KeyMatches(b)
      BY <1>2 DEF Good, SignatureVerifies, KeyMatches
    <2> QED
      BY <2>1, <2>2, <2>3, <2>4 DEF Accepts, Consumable
  <1> QED
    BY <1>4, <1>5

-----------------------------------------------------------------------------
(* Every step keeps it                                                     *)

\* The empty store.
LEMMA InitIInv == ASSUME Init PROVE IInv
  <1>1. TypeOK
    BY DEF Init, TypeOK
  <1>2. /\ tab \in [Tab -> TabState]
        /\ issuedAt \in Seq(Nat) /\ Len(issuedAt) = nonces
        /\ issuedIn \in Seq(Nat) /\ Len(issuedIn) = nonces
        /\ \A n \in 1..nonces : issuedIn[n] <= restarts
    BY DEF Init, TabState
  <1>3. StoreInv /\ MessagesInv /\ LostInv
    BY DEF Init, StoreInv, MessagesInv, LostInv, NoTab
  <1>4. WelcomeInv /\ AcceptedAreGood /\ GoodAreAccepted
    BY DEF Init, WelcomeInv, AcceptedAreGood, GoodAreAccepted
  <1> QED
    BY <1>1, <1>2, <1>3, <1>4 DEF IInv, ChallengeInv, Init

\* A challenge: a nonce that nobody has had, and the time it is now.
LEMMA ChallengeStep ==
  ASSUME ChallengeInv, NEW t \in Tab, GetChallenge(t)
  PROVE  ChallengeInv'
  <1>1. /\ nonces' = nonces + 1 /\ nonces \in Nat /\ now \in Nat /\ now' = now
        /\ store' = store \cup {[nonce |-> nonces', createdAt |-> now]}
        /\ issuedAt' = Append(issuedAt, now) /\ issuedIn' = Append(issuedIn, restarts)
        /\ tab' = [tab EXCEPT ![t] = [pc |-> "sign", message |-> <<nonces', now>>]]
        /\ UNCHANGED <<users, calls, body, verdicts, restarts>>
    BY DEF GetChallenge, CreatedAt, ChallengeInv, TypeOK
  <1>2. /\ issuedAt' \in Seq(Nat) /\ Len(issuedAt') = nonces'
        /\ issuedAt'[nonces'] = now
        /\ \A n \in 1..nonces : issuedAt'[n] = issuedAt[n]
    BY <1>1, AppendProperties DEF ChallengeInv
  <1>3. /\ issuedIn' \in Seq(Nat) /\ Len(issuedIn') = nonces'
        /\ issuedIn'[nonces'] = restarts
        /\ \A n \in 1..nonces : issuedIn'[n] = issuedIn[n]
    BY <1>1, AppendProperties DEF ChallengeInv, TypeOK
  <1>4. \A n \in 1..nonces' : issuedIn'[n] <= restarts'
    <2>1. \A n \in 1..nonces' : n = nonces' \/ n \in 1..nonces
      BY <1>1
    <2>2. restarts \in Nat /\ restarts' = restarts
      BY <1>1 DEF ChallengeInv, TypeOK
    <2>3. \A n \in 1..nonces : issuedIn[n] <= restarts
      BY DEF ChallengeInv
    <2>4. issuedIn'[nonces'] <= restarts'
      BY <1>3, <2>2
    <2> QED
      BY <1>3, <2>1, <2>2, <2>3, <2>4
  <1>5. TypeOK'
    <2>1. store' \subseteq [nonce: 1..nonces', createdAt: 0..now']
      BY <1>1 DEF ChallengeInv, TypeOK
    <2>2. \A s \in store : s.nonce # nonces'
      BY <1>1 DEF ChallengeInv, TypeOK
    <2>3. \A s, u \in store' : s.nonce = u.nonce => s = u
      BY <1>1, <2>2 DEF ChallengeInv, TypeOK
    <2> QED
      BY <1>1, <2>1, <2>3 DEF ChallengeInv, TypeOK
  <1>6. tab' \in [Tab -> TabState]
    BY <1>1 DEF ChallengeInv, TabState
  <1>7. \A v \in verdicts' : v.nonce \in 1..nonces'
    BY <1>1 DEF ChallengeInv
  <1>8. StoreInv'
    <2>1. \A s \in store : s.nonce \in 1..nonces
      BY DEF ChallengeInv, TypeOK
    <2>2. \A v \in verdicts : v.nonce # nonces'
      BY <1>1 DEF ChallengeInv
    <2> QED
      BY <1>1, <1>2, <2>1, <2>2 DEF ChallengeInv, StoreInv
  <1>9. MessagesInv'
    <2>1. \A m : Authentic(m) => Authentic(m)'
      BY <1>1, <1>2 DEF Authentic
    <2>2. ASSUME NEW u \in Tab, tab'[u].pc \in {"sign", "post"}
          PROVE  Authentic(tab[u].message)'
      <3>1. CASE u = t
        <4>1. tab'[u].message = <<nonces', now>>
          BY <1>1, <3>1 DEF ChallengeInv
        <4> QED
          BY <1>1, <1>2, <4>1 DEF Authentic
      <3>2. CASE u # t
        BY <1>1, <2>1, <2>2, <3>2 DEF ChallengeInv, MessagesInv
      <3> QED
        BY <3>1, <3>2
    <2> QED
      BY <1>1, <2>1, <2>2 DEF ChallengeInv, MessagesInv
  <1>10. LostInv'
    <2> SUFFICES ASSUME NEW n \in 1..nonces', issuedIn'[n] = restarts
                 PROVE  \/ \E s \in store' : s.nonce = n
                        \/ \E v \in verdicts : v.nonce = n
                        \/ now - issuedAt'[n] > TTL
      BY <1>1 DEF LostInv
    <2>1. CASE n = nonces'
      <3>1. PICK s \in store' : s = [nonce |-> nonces', createdAt |-> now]
        BY <1>1
      <3> QED
        BY <2>1, <3>1
    <2>2. CASE n \in 1..nonces
      BY <1>1, <1>2, <1>3, <2>2 DEF ChallengeInv, LostInv
    <2>3. n = nonces' \/ n \in 1..nonces
      BY <1>1
    <2> QED
      BY <2>1, <2>2, <2>3
  <1> QED
    BY <1>2, <1>5, <1>6, <1>7, <1>8, <1>9, <1>10, <1>3, <1>4 DEF ChallengeInv

\* The steps of a tab that only move its own state.
LEMMA TabStep ==
  ASSUME ChallengeInv,
         UNCHANGED <<now, store, nonces, users, restarts, issuedAt, issuedIn, verdicts>>,
         calls' \subseteq Call,
         tab' \in [Tab -> TabState], body' \in [Tab -> Body \cup {NoTab}],
         MessagesInv'
  PROVE  ChallengeInv'
  BY DEF ChallengeInv, TypeOK, StoreInv, LostInv

\* A tab signs, posts or gives up.
LEMMA SignOrPost ==
  ASSUME ChallengeInv, NEW t \in Tab, Sign(t) \/ Post(t) \/ GiveUp(t)
  PROVE  ChallengeInv'
  <1>1. UNCHANGED <<now, store, nonces, users, calls, restarts, issuedAt, issuedIn, verdicts>>
        /\ calls \subseteq Call
    BY DEF Sign, Post, GiveUp, ChallengeInv, TypeOK
  <1>2. tab \in [Tab -> TabState] /\ body \in [Tab -> Body \cup {NoTab}]
        /\ now \in Nat
    BY DEF ChallengeInv, TypeOK
  <1>3. \A m : Authentic(m)' <=> Authentic(m)
    BY <1>1 DEF Authentic
  <1>4. CASE Sign(t)
    <2>1. tab[t].message \in Nat \X Nat /\ Authentic(tab[t].message)
      BY <1>2, <1>4 DEF Sign, TabState, NoTab, ChallengeInv, MessagesInv
    <2>2. \/ tab' = [tab EXCEPT ![t] = NoTab]
          \/ \E w \in Wallet :
               tab' = [tab EXCEPT ![t] = [pc |-> "post", message |-> tab[t].message,
                                          key |-> w]]
      BY <1>4 DEF Sign
    <2>3. tab' \in [Tab -> TabState]
      BY <1>2, <2>1, <2>2 DEF TabState
    <2>4. body' = body
      BY <1>4 DEF Sign
    <2>5. \A u \in Tab : tab'[u].pc \in {"sign", "post"} =>
            tab[u].pc \in {"sign", "post"} /\ tab'[u].message = tab[u].message
      BY <1>2, <1>4, <2>2 DEF Sign, NoTab
    <2>6. MessagesInv'
      BY <1>3, <2>4, <2>5 DEF ChallengeInv, MessagesInv
    <2> QED
      BY <1>1, <1>2, <2>3, <2>4, <2>6, TabStep
  <1>5. CASE Post(t)
    <2>1. tab[t].message \in Nat \X Nat /\ Authentic(tab[t].message) /\ tab[t].key \in Wallet
      BY <1>2, <1>5 DEF Post, TabState, NoTab, ChallengeInv, MessagesInv
    <2>2. PICK w \in Wallet :
            body' = [body EXCEPT ![t] =
                       [wallet |-> w, key |-> tab[t].key, message |-> tab[t].message,
                        nonce |-> tab[t].message[1], timestamp |-> now]]
      BY <1>5 DEF Post
    <2>3. tab' = [tab EXCEPT ![t] = [pc |-> "posted"]]
      BY <1>5 DEF Post
    <2>4. tab' \in [Tab -> TabState] /\ body' \in [Tab -> Body \cup {NoTab}]
      BY <1>2, <2>1, <2>2, <2>3 DEF TabState, Body
    <2>5. ASSUME NEW u \in Tab, body'[u] # NoTab
          PROVE  Authentic(body'[u].message) /\ body'[u].nonce = body'[u].message[1]
      <3>1. CASE u = t
        BY <1>2, <2>1, <2>2, <3>1
      <3>2. CASE u # t
        BY <1>2, <2>2, <2>5, <3>2 DEF ChallengeInv, MessagesInv
      <3> QED
        BY <3>1, <3>2
    <2>6. \A u \in Tab : tab'[u].pc \in {"sign", "post"} => tab'[u] = tab[u]
      BY <1>2, <2>3
    <2>7. MessagesInv'
      BY <1>3, <2>5, <2>6 DEF ChallengeInv, MessagesInv
    <2> QED
      BY <1>1, <2>4, <2>7, TabStep
  <1>6. CASE GiveUp(t)
    <2>1. tab' = [tab EXCEPT ![t] = NoTab] /\ body' = body
      BY <1>6 DEF GiveUp
    <2>2. tab' \in [Tab -> TabState]
      BY <1>2, <2>1 DEF TabState
    <2>3. MessagesInv'
      BY <1>2, <1>3, <2>1 DEF ChallengeInv, MessagesInv, NoTab
    <2> QED
      BY <1>1, <1>2, <2>1, <2>2, <2>3, TabStep
  <1> QED
    BY <1>4, <1>5, <1>6

\* A delivery that is judged: the nonce leaves the store and gets its verdict.
LEMMA JudgeStep ==
  ASSUME IInv, NEW t \in Tab, Deliver(t), Judge(t, body[t])
  PROVE  IInv'
  <1> DEFINE b == body[t]
  <1>1. /\ b # NoTab /\ store' = StoreAfter(b.nonce)
        /\ UNCHANGED <<now, nonces, users, body, restarts, issuedAt, issuedIn, welcomes>>
        /\ calls' \in {calls, calls \cup {[tab |-> t, pc |-> "lookup", wallet |-> b.wallet,
                                           nonce |-> b.nonce, first |-> FALSE]}}
        /\ tab' \in {tab, [tab EXCEPT ![t] = NoTab]}
    BY DEF Deliver, Judge, Refuse
  <1>2. PICK v : /\ v.nonce = b.nonce /\ v.good = Good(b)
                 /\ v.accepted = Accepts(b) /\ v.restarts = restarts
                 /\ verdicts' = verdicts \cup {v}
    BY DEF Judge
  <1>3. b \in Body /\ b.nonce \in 1..nonces
    BY <1>1 DEF IInv, ChallengeInv, TypeOK, MessagesInv, Authentic
  <1>4. TypeOK'
    <2>1. calls' \subseteq Call
      <3>1. b.wallet \in Wallet /\ b.nonce \in Nat
        BY <1>3 DEF Body
      <3>2. [tab |-> t, pc |-> "lookup", wallet |-> b.wallet,
             nonce |-> b.nonce, first |-> FALSE] \in Call
        BY <3>1 DEF Call
      <3>3. calls \subseteq Call
        BY DEF IInv, ChallengeInv, TypeOK
      <3> QED
        BY <1>1, <3>2, <3>3
    <2> QED
      BY <1>1, <2>1 DEF IInv, ChallengeInv, TypeOK, StoreAfter
  <1>5. tab' \in [Tab -> TabState]
    BY <1>1 DEF IInv, ChallengeInv, TabState
  <1>6. MessagesInv'
    <2>1. \A u \in Tab : tab'[u].pc \in {"sign", "post"} => tab'[u] = tab[u]
      BY <1>1 DEF IInv, ChallengeInv, NoTab
    <2> QED
      BY <1>1, <2>1 DEF IInv, ChallengeInv, MessagesInv, Authentic
  <1>7. StoreInv' /\ LostInv' /\ \A u \in verdicts' : u.nonce \in 1..nonces'
    BY <1>1, <1>2, <1>3 DEF IInv, ChallengeInv, StoreInv, LostInv, StoreAfter
  <1>8. ChallengeInv'
    BY <1>1, <1>4, <1>5, <1>6, <1>7 DEF IInv, ChallengeInv
  <1>9. WelcomeInv'
    BY <1>1 DEF IInv, WelcomeInv
  <1>10. AcceptedAreGood' /\ GoodAreAccepted'
    <2>1. /\ Accepts(b) => Good(b)
          /\ Good(b) /\ restarts = issuedIn[b.nonce] => Accepts(b)
      BY <1>1, Judgement DEF IInv
    <2> QED
      BY <1>1, <1>2, <2>1 DEF IInv, AcceptedAreGood, GoodAreAccepted
  <1> QED
    BY <1>8, <1>9, <1>10 DEF IInv

\* One that the controller refuses touches no challenge.
LEMMA RefuseStep ==
  ASSUME IInv, NEW t \in Tab, Deliver(t), Refuse(t), UNCHANGED <<store, calls, verdicts>>
  PROVE  IInv'
  <1>1. UNCHANGED <<now, store, nonces, users, body, calls, restarts,
                    issuedAt, issuedIn, verdicts, welcomes>>
        /\ tab' \in {tab, [tab EXCEPT ![t] = NoTab]}
    BY DEF Deliver, Refuse
  <1>2. tab \in [Tab -> TabState] /\ calls \subseteq Call
        /\ body \in [Tab -> Body \cup {NoTab}]
    BY DEF IInv, ChallengeInv, TypeOK
  <1>3. tab' \in [Tab -> TabState]
    BY <1>1, <1>2 DEF TabState
  <1>4. \A u \in Tab : tab'[u].pc \in {"sign", "post"} => tab'[u] = tab[u]
    BY <1>1, <1>2 DEF NoTab
  <1>5. MessagesInv'
    BY <1>1, <1>4 DEF IInv, ChallengeInv, MessagesInv, Authentic
  <1>6. ChallengeInv'
    BY <1>1, <1>2, <1>3, <1>5, TabStep DEF IInv
  <1> QED
    BY <1>1, <1>6 DEF IInv, WelcomeInv, AcceptedAreGood, GoodAreAccepted

\* The calls after the checks.
LEMMA CallStep ==
  ASSUME IInv, NEW c \in calls, LookUp(c) \/ Create(c) \/ Reply(c)
  PROVE  IInv'
  <1>1. UNCHANGED <<now, store, nonces, body, restarts, issuedAt, issuedIn, verdicts>>
    BY DEF LookUp, Create, Reply
  <1>2. c \in Call /\ calls \subseteq Call /\ users \subseteq Wallet
        /\ tab \in [Tab -> TabState] /\ WelcomeInv /\ body \in [Tab -> Body \cup {NoTab}]
    BY DEF IInv, ChallengeInv, TypeOK
  <1>3. /\ c.tab \in Tab /\ c.wallet \in Wallet /\ c.first \in BOOLEAN
    BY <1>2 DEF Call
  <1>4. SUFFICES /\ calls' \subseteq Call /\ users' \subseteq Wallet /\ WelcomeInv'
                 /\ \/ tab' = tab
                    \/ tab' = [tab EXCEPT ![c.tab] = NoTab]
                    \/ tab' = [tab EXCEPT ![c.tab] = [pc |-> "in", wallet |-> c.wallet]]
    <2>1. tab' \in [Tab -> TabState]
      BY <1>2, <1>3, <1>4 DEF TabState
    <2>2. \A u \in Tab : tab'[u].pc \in {"sign", "post"} => tab'[u] = tab[u]
      BY <1>2, <1>3, <1>4 DEF NoTab
    <2>3. MessagesInv'
      BY <1>1, <2>2 DEF IInv, ChallengeInv, MessagesInv, Authentic
    <2>4. ChallengeInv'
      BY <1>1, <1>4, <2>1, <2>3 DEF IInv, ChallengeInv, TypeOK, StoreInv, LostInv
    <2> QED
      BY <1>1, <1>4, <2>4 DEF IInv, AcceptedAreGood, GoodAreAccepted
  <1>5. CASE LookUp(c)
    <2>1. PICK d : /\ calls' = (calls \ {c}) \cup {d}
                   /\ d = [c EXCEPT !.pc = IF c.wallet \in users THEN "reply" ELSE "create"]
      BY <1>5 DEF LookUp, Step
    <2>2. d \in Call /\ d.first = c.first /\ ~c.first
      BY <1>2, <1>5, <2>1 DEF Call, LookUp, WelcomeInv
    <2>3. UNCHANGED <<users, tab, welcomes>>
      BY <1>5 DEF LookUp
    <2> QED
      BY <1>2, <2>1, <2>2, <2>3 DEF WelcomeInv
  <1>6. CASE Create(c)
    <2>1. CASE c.wallet \in users
      <3>1. calls' = calls \ {c} /\ UNCHANGED <<users, welcomes>>
            /\ tab' \in {tab, [tab EXCEPT ![c.tab] = NoTab]}
        BY <1>6, <2>1 DEF Create
      <3> QED
        BY <1>2, <3>1 DEF WelcomeInv
    <2>2. CASE c.wallet \notin users
      <3>1. PICK d : /\ calls' = (calls \ {c}) \cup {d}
                     /\ d = [c EXCEPT !.pc = "reply", !.first = TRUE]
        BY <1>6, <2>2 DEF Create, Step
      <3>2. d \in Call /\ d.wallet = c.wallet /\ d.pc = "reply"
        BY <1>2, <3>1 DEF Call
      <3>3. users' = users \cup {c.wallet} /\ UNCHANGED <<tab, welcomes>>
        BY <1>6, <2>2 DEF Create
      <3>4. welcomes[c.wallet] = 0 /\ \A e \in calls : e.first => e.wallet # c.wallet
        BY <1>2, <1>3, <2>2 DEF WelcomeInv
      <3>5. WelcomeInv'
        <4>1. \A e \in calls' : e.first => e = d \/ (e \in calls /\ e.wallet # d.wallet)
          <5>1. calls' = (calls \ {c}) \cup {d}
            BY <3>1
          <5> QED
            BY <3>2, <3>4, <5>1
        <4>2. \A e \in calls' : e.first =>
                e.pc = "reply" /\ e.wallet \in users' /\ welcomes[e.wallet] = 0
          BY <1>2, <3>2, <3>3, <3>4, <4>1 DEF WelcomeInv
        <4>3. \A e, f \in calls' : e.first /\ f.first /\ e.wallet = f.wallet => e = f
          BY <1>2, <4>1 DEF WelcomeInv
        <4> QED
          BY <1>2, <3>3, <4>2, <4>3 DEF WelcomeInv
      <3> QED
        BY <1>2, <1>3, <3>1, <3>2, <3>3, <3>5
    <2> QED
      BY <2>1, <2>2
  <1>7. CASE Reply(c)
    <2>1. /\ calls' = calls \ {c} /\ users' = users
          /\ tab' \in {tab, [tab EXCEPT ![c.tab] = [pc |-> "in", wallet |-> c.wallet]]}
      BY <1>7 DEF Reply
    <2>2. CASE ~c.first
      <3>1. welcomes' = welcomes
        BY <1>7, <2>2 DEF Reply
      <3> QED
        BY <1>2, <2>1, <3>1 DEF WelcomeInv
    <2>3. CASE c.first
      <3>1. welcomes' = [welcomes EXCEPT ![c.wallet] = @ + 1]
        BY <1>7, <2>3 DEF Reply
      <3>2. welcomes[c.wallet] = 0 /\ c.wallet \in users
            /\ \A e \in calls \ {c} : e.first => e.wallet # c.wallet
        BY <1>2, <2>3 DEF WelcomeInv
      <3>3. welcomes' \in [Wallet -> {0, 1}]
            /\ \A w \in Wallet : welcomes'[w] = IF w = c.wallet THEN 1 ELSE welcomes[w]
        BY <1>2, <1>3, <3>1, <3>2 DEF WelcomeInv
      <3>4. \A e \in calls : e.wallet \in Wallet
        BY <1>2 DEF Call
      <3>5. WelcomeInv'
        BY <1>2, <2>1, <3>2, <3>3, <3>4 DEF WelcomeInv
      <3> QED
        BY <1>2, <2>1, <3>5
    <2> QED
      BY <2>2, <2>3
  <1> QED
    BY <1>5, <1>6, <1>7

\* The clock and the cleanup timer take challenges away only when they are
\* too old; those that a restart takes were issued before it.
LEMMA TimeStep ==
  ASSUME IInv, Tick \/ Cleanup \/ Restart
  PROVE  IInv'
  <1>1. UNCHANGED <<nonces, users, tab, body, issuedAt, issuedIn, verdicts, welcomes>>
        /\ calls' \subseteq calls /\ store' \subseteq store
    BY DEF Tick, Cleanup, Restart
  <1>2. now' \in Nat /\ now <= now' /\ now \in Nat /\ nonces \in Nat
        /\ restarts \in Nat /\ restarts' \in Nat /\ TTL \in Nat
    BY ConfigAssumption DEF Tick, Cleanup, Restart, IInv, ChallengeInv, TypeOK
  <1>3. LostInv'
    <2> SUFFICES ASSUME NEW n \in 1..nonces, issuedIn[n] = restarts',
                        \A v \in verdicts : v.nonce # n,
                        ~(now' - issuedAt[n] > TTL)
                 PROVE  \E s \in store' : s.nonce = n
      BY <1>1 DEF LostInv
    <2>1. /\ issuedIn[n] = restarts /\ issuedAt[n] \in Nat
          /\ Tick \/ Cleanup
      <3>1. issuedIn[n] <= restarts /\ issuedIn[n] \in Nat /\ issuedAt[n] \in Nat
        BY IssuedTyped DEF IInv, ChallengeInv
      <3>2. ~(restarts' = restarts + 1)
        BY <1>2, <3>1
      <3>3. Tick \/ Cleanup
        BY <3>2 DEF Restart
      <3> QED
        BY <3>1, <3>3 DEF Tick, Cleanup
    <2>2. ~(now - issuedAt[n] > TTL)
      BY <1>2, <2>1
    <2>3. PICK s \in store : s.nonce = n
      BY <2>1, <2>2 DEF IInv, ChallengeInv, LostInv
    <2>4. s.createdAt = issuedAt[n]
      BY <2>3 DEF IInv, ChallengeInv, StoreInv
    <2>5. s \in store'
      BY <2>1, <2>2, <2>4 DEF Tick, Cleanup, Expired
    <2> QED
      BY <2>3, <2>5
  <1>4. TypeOK'
    BY <1>1, <1>2 DEF IInv, ChallengeInv, TypeOK
  <1>5. restarts <= restarts' /\ \A n \in 1..nonces : issuedIn[n] \in Nat
    BY <1>2, IssuedTyped DEF Tick, Cleanup, Restart, IInv
  <1>6. \A n \in 1..nonces : issuedIn[n] <= restarts'
    BY <1>2, <1>5 DEF IInv, ChallengeInv
  <1>7. StoreInv' /\ MessagesInv'
    BY <1>1 DEF IInv, ChallengeInv, StoreInv, MessagesInv, Authentic
  <1>8. ChallengeInv'
    BY <1>1, <1>3, <1>4, <1>6, <1>7 DEF IInv, ChallengeInv
  <1> QED
    BY <1>1, <1>8 DEF IInv, WelcomeInv, AcceptedAreGood, GoodAreAccepted

\* IInv holds in every reachable state.
THEOREM Invariance == Spec => []IInv
  <1>1. Init => IInv
    BY InitIInv
  <1>2. IInv /\ [Next]_vars => IInv'
    <2> SUFFICES ASSUME IInv, [Next]_vars PROVE IInv'
      OBVIOUS
    <2>1. CASE Tick \/ Cleanup \/ Restart
      BY <2>1, TimeStep
    <2>2. CASE \E t \in Tab : GetChallenge(t) \/ Sign(t) \/ Post(t) \/ GiveUp(t)
      <3>1. ChallengeInv'
        BY <2>2, ChallengeStep, SignOrPost DEF IInv
      <3>2. UNCHANGED <<users, calls, verdicts, welcomes>>
        BY <2>2 DEF GetChallenge, Sign, Post, GiveUp
      <3>3. \A n \in 1..nonces : issuedIn'[n] = issuedIn[n]
        BY <2>2, AppendProperties DEF GetChallenge, Sign, Post, GiveUp, IInv, ChallengeInv, TypeOK
      <3>4. GoodAreAccepted'
        BY <3>2, <3>3 DEF IInv, ChallengeInv, GoodAreAccepted
      <3> QED
        BY <3>1, <3>2, <3>4 DEF IInv, WelcomeInv, AcceptedAreGood
    <2>3. CASE \E t \in Tab : Deliver(t)
      BY <2>3, JudgeStep, RefuseStep DEF Deliver
    <2>4. CASE \E c \in calls : LookUp(c) \/ Create(c) \/ Reply(c)
      BY <2>4, CallStep
    <2>5. CASE UNCHANGED vars
      BY <2>5 DEF IInv, ChallengeInv, TypeOK, StoreInv, MessagesInv, Authentic, LostInv,
         WelcomeInv, AcceptedAreGood, GoodAreAccepted
    <2> QED
      BY <2>1, <2>2, <2>3, <2>4, <2>5 DEF Next
  <1> QED
    BY <1>1, <1>2, PTL DEF Spec

\* Every variable keeps its type, and no challenge is stored twice.
THEOREM TypeCorrect == Spec => []TypeOK
  BY Invariance, PTL DEF IInv, ChallengeInv

\* For any number of tabs, deliveries and restarts: what is accepted is the
\* first request for its challenge, in time, and signed by the wallet it names.
THEOREM Sound == Spec => []AcceptedAreGood
  BY Invariance, PTL DEF IInv

\* And such a request is refused only when its challenge was issued before
\* the last restart: neither the clock nor the cleanup timer takes one early,
\* and no restart costs anything that is issued after it.
THEOREM Complete == Spec => []GoodAreAccepted
  BY Invariance, PTL DEF IInv

\* However many first sign-ins of an account overlap, it is welcomed once.
THEOREM Welcomed == Spec => []WelcomedOnce
  <1>1. IInv => WelcomedOnce
    BY DEF IInv, WelcomeInv, WelcomedOnce
  <1> QED
    BY <1>1, Invariance, PTL
=============================================================================
