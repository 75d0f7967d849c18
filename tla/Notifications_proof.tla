------------------------ MODULE Notifications_proof ------------------------
(***************************************************************************)
(* Notifications proved for all accounts, deployments, numbers of calls    *)
(* and of failures: a row that says "sent" was delivered, no row is        *)
(* forgotten, and a call that returns has tried all its channels.          *)
(***************************************************************************)
EXTENDS Notifications, SequenceTheorems, FunctionTheorems,
        FiniteSetTheorems, TLAPS

-----------------------------------------------------------------------------
(* The inductive invariant                                                 *)

\* A row of User, and a call of enqueue with the copy it read of one.
AccountRow == [id: Nat, email: Email \cup {None}, chat: Chat \cup {None}, on: SUBSET Channel]

Pcs == Live \cup {"done", "rejected", "lost"}

Call == [pc: Pcs, wallet: Wallet, kind: DOMAIN Template, asked: SUBSET Channel,
         user: {None} \cup AccountRow, todo: SUBSET Channel, row: Nat]

\* The pc of a call between the create and the mark of a row, and of one in
\* its loop.
InDispatch == {"send", "sent", "failed", "caught"}
InLoop == InDispatch \cup {"create"}

Counters == nextUser \in Nat /\ nextNote \in Nat /\ faults \in Nat

UsersInv ==
  /\ users \in [Wallet -> {None} \cup AccountRow]
  /\ \A w \in Wallet : users[w] # None => users[w].id \in 1..nextUser
  /\ \A w, v \in Wallet :
       w # v /\ users[w] # None /\ users[v] # None =>
         /\ users[w].id # users[v].id
         /\ users[w].email = users[v].email => users[w].email = None
         /\ users[w].chat = users[v].chat => users[w].chat = None

NotesInv ==
  /\ notes \subseteq [id: 1..nextNote, owner: 1..nextUser, call: DOMAIN calls,
                      channel: Channel, sent: BOOLEAN, error: BOOLEAN, read: BOOLEAN]
  /\ \A n, m \in notes : n.id = m.id => n = m
  /\ \A n \in notes : UserExists(n.owner)

\* A call that is past its lookup has a copy of a user there was; in its loop
\* it has channels left, all of them due; in a dispatch its row has an id.
CallsInv ==
  /\ calls \in Seq(Call)
  /\ \A c \in DOMAIN calls :
       /\ calls[c].pc = "lookup" => calls[c].user = None
       /\ calls[c].user # None => calls[c].user.id \in 1..nextUser
       /\ calls[c].pc \in InLoop =>
            /\ calls[c].user # None
            /\ calls[c].todo # {} /\ calls[c].todo \subseteq Allowed(c, calls[c].user)
       /\ calls[c].pc \in InDispatch => calls[c].row \in 1..nextNote

\* A row is that of its call's user, on a channel that was due, one for each;
\* while the call has the channel to do, the row is the one it deals with.
RowsInv ==
  /\ \A n \in notes :
       /\ calls[n.call].user # None /\ n.owner = calls[n.call].user.id
       /\ n.channel \in Allowed(n.call, calls[n.call].user)
       /\ calls[n.call].pc \in InLoop /\ n.channel \in calls[n.call].todo =>
            calls[n.call].pc \in InDispatch /\ calls[n.call].row = n.id
       /\ ~(n.sent /\ n.error)
  /\ \A n, m \in notes : n.call = m.call /\ n.channel = m.channel => n = m
  /\ \A n \in notes, c \in DOMAIN calls :
       calls[c].pc \in InDispatch /\ calls[c].row = n.id =>
         n.call = c /\ n.channel = Current(c)

\* A call that is told "sent" has the provider's word, or that of a stub.
Provider(channel) == IF channel = "EMAIL" THEN deployed.email ELSE deployed.telegram

AnswersInv ==
  /\ deployed \in Deployments
  /\ \A c \in DOMAIN calls :
       calls[c].pc = "sent" /\ Provider(Current(c)) # "noop" =>
         <<calls[c].row, Address(c)>> \in delivered

\* As long as the user of a call exists, so does a row for each channel done
\* with, and the row of the channel at hand.
HasRow(c, ch) == \E n \in notes : n.call = c /\ n.channel = ch

ProgressInv ==
  \A c \in DOMAIN calls :
    calls[c].user # None /\ UserExists(calls[c].user.id) =>
      \A ch \in Allowed(c, calls[c].user) :
        \/ HasRow(c, ch)
        \/ calls[c].pc \in {"rejected", "lost"}
        \/ calls[c].pc \in InLoop /\ ch \in calls[c].todo
             /\ (calls[c].pc \in InDispatch => ch # Current(c))

IInv == /\ Counters /\ UsersInv /\ NotesInv /\ CallsInv /\ RowsInv /\ AnswersInv
        /\ ProgressInv /\ SentWasDelivered /\ PendingRowsHaveADispatch

-----------------------------------------------------------------------------
(* Reading the invariant                                                   *)

LEMMA CallFacts ==
  ASSUME IInv
  PROVE  /\ calls \in Seq(Call) /\ DOMAIN calls = 1..Len(calls) /\ Len(calls) \in Nat
         /\ \A c \in DOMAIN calls : calls[c] \in Call
         /\ \A n \in notes : n.call \in DOMAIN calls
  <1>1. calls \in Seq(Call)
    BY DEF IInv, CallsInv
  <1>2. DOMAIN calls = 1..Len(calls) /\ Len(calls) \in Nat
    BY <1>1, LenProperties
  <1>3. \A c \in DOMAIN calls : calls[c] \in Call
    BY <1>1, <1>2, ElementOfSeq
  <1>4. \A n \in notes : n.call \in DOMAIN calls
    BY DEF IInv, NotesInv
  <1> QED
    BY <1>1, <1>2, <1>3, <1>4

\* The channel at hand is one of those that are left to do.
LEMMA CurrentIsLeft ==
  ASSUME IInv, NEW c \in DOMAIN calls, calls[c].pc \in InLoop
  PROVE  /\ Current(c) \in calls[c].todo /\ Current(c) \in Channel
         /\ Current(c) \in Allowed(c, calls[c].user)
  <1>1. calls[c].todo \subseteq Channel /\ calls[c].todo # {}
        /\ calls[c].todo \subseteq Allowed(c, calls[c].user)
    BY CallFacts DEF IInv, CallsInv, Call
  <1> QED
    BY <1>1 DEF Current, Channel

-----------------------------------------------------------------------------
(* Steps of one call                                                       *)

\* Only the call c is changed.
OnlyCall(c) ==
  /\ calls' \in Seq(Call) /\ DOMAIN calls' = DOMAIN calls
  /\ \A d \in DOMAIN calls : d # c => calls'[d] = calls[d]

LEMMA CallReplaced ==
  ASSUME IInv, NEW c \in DOMAIN calls, NEW k \in Call, calls' = [calls EXCEPT ![c] = k]
  PROVE  OnlyCall(c) /\ calls'[c] = k
  BY CallFacts, ExceptSeq DEF OnlyCall

LEMMA GotoIsOnlyCall ==
  ASSUME IInv, NEW c \in DOMAIN calls, NEW q \in Pcs, Goto(c, q)
  PROVE  /\ OnlyCall(c)
         /\ calls'[c].pc = q
         /\ calls'[c].user = calls[c].user /\ calls'[c].asked = calls[c].asked
         /\ calls'[c].todo = calls[c].todo /\ calls'[c].row = calls[c].row
  <1>1. PICK k : k = [calls[c] EXCEPT !.pc = q]
    OBVIOUS
  <1>2. calls' = [calls EXCEPT ![c] = k]
    BY <1>1, CallFacts DEF Goto
  <1>3. /\ k \in Call /\ k.pc = q /\ k.user = calls[c].user /\ k.asked = calls[c].asked
        /\ k.todo = calls[c].todo /\ k.row = calls[c].row
    BY <1>1, CallFacts DEF Call
  <1> QED
    BY <1>2, <1>3, CallReplaced

\* What a call does inside its loop, except for the rows: the answer of a
\* provider, the catch, the promise that is rejected.
LEMMA GotoKeepsIInv ==
  ASSUME IInv, NEW c \in DOMAIN calls, NEW q, Goto(c, q),
         \/ q \in InDispatch /\ calls[c].pc \in InDispatch
         \/ q = "rejected" /\ calls[c].pc \in InLoop,
         UNCHANGED <<deployed, users, nextUser, notes, nextNote>>,
         delivered \subseteq delivered',
         faults' \in Nat, faults <= faults',
         q = "sent" /\ Provider(Current(c)) # "noop" =>
           <<calls[c].row, Address(c)>> \in delivered',
         q = "rejected" => faults' > 0 \/ calls[c].pc = "create" \/ Row(c) = {}
  PROVE  IInv'
  <1>0. q \in Pcs /\ q # "lookup" /\ q # "done"
    BY DEF Pcs, Live, InDispatch
  <1>1. /\ OnlyCall(c) /\ calls'[c].pc = q
        /\ calls'[c].user = calls[c].user /\ calls'[c].asked = calls[c].asked
        /\ calls'[c].todo = calls[c].todo /\ calls'[c].row = calls[c].row
    BY <1>0, GotoIsOnlyCall
  <1>2. /\ DOMAIN calls' = DOMAIN calls /\ calls' \in Seq(Call)
        /\ \A d \in DOMAIN calls : /\ calls'[d].user = calls[d].user
                                   /\ calls'[d].asked = calls[d].asked
                                   /\ calls'[d].todo = calls[d].todo
                                   /\ calls'[d].row = calls[d].row
                                   /\ d # c => calls'[d].pc = calls[d].pc
    BY <1>1 DEF OnlyCall
  <1>3. \A d \in DOMAIN calls :
          /\ Current(d)' = Current(d)
          /\ Address(d)' = Address(d)
          /\ \A u : Allowed(d, u)' = Allowed(d, u)
    BY <1>2 DEF Current, Address, Allowed
  <1>4. \A id : UserExists(id)' <=> UserExists(id)
    BY DEF UserExists
  <1>5. Counters' /\ UsersInv' /\ NotesInv'
    BY <1>2, <1>4 DEF IInv, Counters, UsersInv, NotesInv
  <1>6. CallsInv'
    BY <1>0, <1>1, <1>2, <1>3 DEF IInv, CallsInv, InDispatch, InLoop
  <1>7. RowsInv'
    <2>1. \A d \in DOMAIN calls :
            /\ calls'[d].pc \in InDispatch => calls[d].pc \in InDispatch
            /\ calls'[d].pc \in InLoop => calls[d].pc \in InLoop
            /\ calls'[d].pc \in InLoop /\ calls[d].pc \in InDispatch =>
                 calls'[d].pc \in InDispatch
      BY <1>1, <1>2 DEF InDispatch, InLoop
    <2> QED
      BY <1>2, <1>3, <2>1, CallFacts DEF IInv, RowsInv
  <1>8. AnswersInv'
    BY <1>1, <1>2, <1>3 DEF IInv, AnswersInv, Provider
  <1>9. ProgressInv'
    <2>1. \A d, ch : HasRow(d, ch)' <=> HasRow(d, ch)
      BY DEF HasRow
    <2>2. SUFFICES ASSUME NEW d \in DOMAIN calls, calls[d].user # None,
                          UserExists(calls[d].user.id),
                          NEW ch \in Allowed(d, calls[d].user), ~HasRow(d, ch),
                          calls'[d].pc \notin {"rejected", "lost"}
                   PROVE  calls'[d].pc \in InLoop /\ ch \in calls[d].todo
                          /\ (calls'[d].pc \in InDispatch => ch # Current(d))
      BY <1>2, <1>3, <1>4, <2>1 DEF ProgressInv
    <2> QED
      BY <1>1, <1>2, <2>2 DEF IInv, ProgressInv, InLoop, InDispatch
  <1>10. SentWasDelivered'
    BY <1>2, CallFacts DEF IInv, SentWasDelivered
  <1>11. PendingRowsHaveADispatch'
    <2>1. SUFFICES ASSUME NEW n \in notes, ~n.sent, ~n.error
                   PROVE  \/ calls'[n.call].row = n.id /\ calls'[n.call].pc \in InDispatch
                          \/ calls'[n.call].pc = "lost"
                          \/ calls'[n.call].pc = "rejected" /\ faults' > 0
      BY DEF PendingRowsHaveADispatch, InDispatch
    <2>2. /\ n.call \in DOMAIN calls
          /\ \/ calls[n.call].row = n.id /\ calls[n.call].pc \in InDispatch
             \/ calls[n.call].pc = "lost"
             \/ calls[n.call].pc = "rejected" /\ faults > 0
      BY <2>1, CallFacts DEF IInv, PendingRowsHaveADispatch, InDispatch
    <2>3. CASE n.call # c
      BY <1>2, <2>2, <2>3 DEF IInv, Counters
    <2>4. CASE n.call = c
      <3>1. calls[c].row = n.id /\ calls[c].pc \in InDispatch /\ n \in Row(c)
        BY <2>2, <2>4 DEF InDispatch, InLoop, Row
      <3> QED
        BY <1>1, <2>4, <3>1 DEF InDispatch
    <2> QED
      BY <2>3, <2>4
  <1> QED
    BY <1>5, <1>6, <1>7, <1>8, <1>9, <1>10, <1>11 DEF IInv

LEMMA LookupKeepsIInv ==
  ASSUME IInv, NEW c \in DOMAIN calls, Lookup(c)
  PROVE  IInv'
  <1>0. /\ calls[c].pc = "lookup" /\ calls[c].user = None /\ calls[c] \in Call
        /\ UNCHANGED <<deployed, users, nextUser, notes, nextNote, delivered, faults>>
    BY CallFacts DEF Lookup, dispatchVars, IInv, CallsInv
  <1>1. PICK u : u = users[calls[c].wallet]
    OBVIOUS
  <1>2. u \in {None} \cup AccountRow /\ (u # None => u.id \in 1..nextUser)
    BY <1>0, <1>1 DEF IInv, UsersInv, Call
  <1>3. PICK k : k = IF u = None \/ Allowed(c, u) = {}
                     THEN [calls[c] EXCEPT !.pc = "done"]
                     ELSE [calls[c] EXCEPT !.pc = "create", !.user = u,
                                           !.todo = Allowed(c, u)]
    OBVIOUS
  <1>4. calls' = [calls EXCEPT ![c] = k]
    BY <1>1, <1>3, CallFacts DEF Lookup
  <1>5. /\ k \in Call /\ k.row = calls[c].row /\ k.asked = calls[c].asked
        /\ \/ k.pc = "done" /\ k.user = None
           \/ /\ k.pc = "create" /\ k.user = u /\ u # None
              /\ k.todo = Allowed(c, u) /\ Allowed(c, u) # {}
    <2>1. CASE u = None \/ Allowed(c, u) = {}
      BY <1>0, <1>3, <2>1 DEF Call, Pcs
    <2>2. CASE ~(u = None \/ Allowed(c, u) = {})
      <3>1. Allowed(c, u) \in SUBSET Channel
        BY <1>0 DEF Allowed, Call
      <3>2. "create" \in Pcs
        BY DEF Pcs, Live
      <3> QED
        BY <1>0, <1>2, <1>3, <2>2, <3>1, <3>2 DEF Call
    <2> QED
      BY <2>1, <2>2
  <1>6. /\ OnlyCall(c) /\ calls'[c] = k
    BY <1>4, <1>5, CallReplaced
  <1>7. /\ DOMAIN calls' = DOMAIN calls /\ calls' \in Seq(Call)
        /\ \A d \in DOMAIN calls : d # c => calls'[d] = calls[d]
        /\ \A d \in DOMAIN calls : calls'[d].asked = calls[d].asked
    BY <1>5, <1>6 DEF OnlyCall
  <1>8. /\ \A d \in DOMAIN calls : d # c => Current(d)' = Current(d) /\ Address(d)' = Address(d)
        /\ \A d \in DOMAIN calls : \A v : Allowed(d, v)' = Allowed(d, v)
        /\ \A id : UserExists(id)' <=> UserExists(id)
        /\ \A n \in notes : n.call # c
        /\ calls'[c].pc \notin InDispatch /\ "sent" \in InDispatch
    BY <1>0, <1>5, <1>6, <1>7
       DEF Current, Address, Allowed, UserExists, IInv, RowsInv, InDispatch
  <1>9. Counters' /\ UsersInv' /\ NotesInv'
    BY <1>0, <1>7, <1>8 DEF IInv, Counters, UsersInv, NotesInv
  <1>10. CallsInv'
    BY <1>0, <1>2, <1>5, <1>6, <1>7, <1>8 DEF IInv, CallsInv, InDispatch, InLoop
  <1>11. RowsInv'
    BY <1>0, <1>7, <1>8, CallFacts DEF IInv, RowsInv
  <1>12. AnswersInv'
    BY <1>0, <1>6, <1>7, <1>8 DEF IInv, AnswersInv, Provider
  <1>13. ProgressInv'
    <2>1. \A d, ch : HasRow(d, ch)' <=> HasRow(d, ch)
      BY <1>0 DEF HasRow
    <2>2. \A ch \in Allowed(c, u)' : k.pc = "create" => ch \in k.todo
      BY <1>5, <1>8
    <2> QED
      BY <1>5, <1>6, <1>7, <1>8, <2>1, <2>2 DEF IInv, ProgressInv, InLoop, InDispatch
  <1>14. SentWasDelivered' /\ PendingRowsHaveADispatch'
    BY <1>0, <1>7, <1>8, CallFacts DEF IInv, SentWasDelivered, PendingRowsHaveADispatch
  <1> QED
    BY <1>9, <1>10, <1>11, <1>12, <1>13, <1>14 DEF IInv

\* notification.create for a user that still exists: the row n is added.
LEMMA RowAdded ==
  ASSUME IInv, NEW c \in DOMAIN calls, calls[c].pc = "create",
         nextNote' = nextNote + 1,
         NEW n, notes' = notes \cup {n},
         n.id = nextNote', n.owner = calls[c].user.id, n.call = c,
         n.channel = Current(c), n.sent = FALSE, n.error = FALSE,
         n \in [id: 1..nextNote', owner: 1..nextUser, call: DOMAIN calls,
                channel: Channel, sent: BOOLEAN, error: BOOLEAN, read: BOOLEAN],
         UserExists(n.owner),
         OnlyCall(c), calls'[c].pc = "send", calls'[c].row = nextNote',
         calls'[c].user = calls[c].user, calls'[c].todo = calls[c].todo,
         calls'[c].asked = calls[c].asked,
         UNCHANGED <<deployed, users, nextUser, faults, delivered>>
  PROVE  IInv'
  <1>0. /\ nextNote \in Nat /\ nextNote' \in Nat /\ calls[c] \in Call
        /\ calls[c].pc \in InLoop /\ calls[c].user # None
        /\ calls[c].user.id \in 1..nextUser
    BY CallFacts DEF IInv, Counters, CallsInv, InLoop
  <1>2. notes' = notes \cup {n}
    OBVIOUS
  <1>3. /\ n.id = nextNote' /\ n.owner = calls[c].user.id /\ n.call = c
        /\ n.channel = Current(c) /\ ~n.sent /\ ~n.error
        /\ n \in [id: 1..nextNote', owner: 1..nextUser, call: DOMAIN calls,
                  channel: Channel, sent: BOOLEAN, error: BOOLEAN, read: BOOLEAN]
    OBVIOUS
  <1>8. /\ DOMAIN calls' = DOMAIN calls /\ calls' \in Seq(Call)
        /\ \A d \in DOMAIN calls : /\ calls'[d].user = calls[d].user
                                   /\ calls'[d].asked = calls[d].asked
                                   /\ calls'[d].todo = calls[d].todo
                                   /\ d # c => calls'[d] = calls[d]
        /\ calls'[c].pc = "send" /\ calls'[c].row = nextNote'
    BY DEF OnlyCall
  <1>9. /\ \A d \in DOMAIN calls : Current(d)' = Current(d) /\ Address(d)' = Address(d)
        /\ \A d \in DOMAIN calls :
             Allowed(d, calls[d].user)' = Allowed(d, calls[d].user)
        /\ \A id : UserExists(id)' <=> UserExists(id)
    BY <1>8 DEF Current, Address, Allowed, UserExists
  \* The new id is not one of the old rows, nor of the other calls.
  <1>10. /\ \A m \in notes : m.id \in 1..nextNote /\ m.id # nextNote'
         /\ \A d \in DOMAIN calls : calls[d].pc \in InDispatch => calls[d].row # nextNote'
         /\ \A m \in notes : m.call = c => m.channel # Current(c)
         /\ \A m \in notes : m.call = c => m.channel \notin calls[c].todo
    <2>1. /\ \A m \in notes : m.id \in 1..nextNote
          /\ \A d \in DOMAIN calls : calls[d].pc \in InDispatch => calls[d].row \in 1..nextNote
      BY DEF IInv, NotesInv, CallsInv
    <2>2. \A m \in notes : m.call = c => m.channel \notin calls[c].todo
      BY <1>0 DEF IInv, RowsInv, InDispatch
    <2> QED
      BY <1>0, <2>1, <2>2, CurrentIsLeft
  <1>11. Counters' /\ UsersInv'
    BY <1>0 DEF IInv, Counters, UsersInv
  <1>12. NotesInv'
    <2>1. notes \subseteq [id: 1..nextNote', owner: 1..nextUser, call: DOMAIN calls,
                           channel: Channel, sent: BOOLEAN, error: BOOLEAN, read: BOOLEAN]
      <3>1. 1..nextNote \subseteq 1..nextNote'
        BY <1>0
      <3> QED
        BY <3>1 DEF IInv, NotesInv
    <2> QED
      BY <1>2, <1>3, <1>8, <1>9, <1>10, <2>1 DEF IInv, NotesInv
  <1>13. CallsInv'
    <2>1. 1..nextNote \subseteq 1..nextNote' /\ nextNote' \in 1..nextNote'
      BY <1>0
    <2> QED
      BY <1>0, <1>8, <1>9, <2>1 DEF IInv, CallsInv, InDispatch, InLoop
  <1>14. RowsInv'
    <2>1. \A d \in DOMAIN calls : calls'[d].pc \in InLoop <=> calls[d].pc \in InLoop
      BY <1>0, <1>8 DEF InLoop, InDispatch
    <2>2. \A m \in notes' :
            /\ calls'[m.call].user # None /\ m.owner = calls'[m.call].user.id
            /\ m.channel \in Allowed(m.call, calls[m.call].user)'
            /\ ~(m.sent /\ m.error)
      <3>1. Current(c) \in Allowed(c, calls[c].user)
        BY <1>0, CurrentIsLeft
      <3>2. n.channel \in Allowed(n.call, calls[n.call].user)'
        BY <1>3, <1>8, <1>9, <3>1
      <3>3. \A m \in notes : m.channel \in Allowed(m.call, calls[m.call].user)'
        BY <1>8, <1>9, CallFacts DEF IInv, RowsInv
      <3> QED
        BY <1>0, <1>2, <1>3, <1>8, <3>2, <3>3, CallFacts DEF IInv, RowsInv
    <2>3. \A m \in notes' :
            calls'[m.call].pc \in InLoop /\ m.channel \in calls'[m.call].todo =>
              calls'[m.call].pc \in InDispatch /\ calls'[m.call].row = m.id
      BY <1>2, <1>3, <1>8, <1>10, <2>1, CallFacts DEF IInv, RowsInv, InDispatch
    <2>4. \A m, o \in notes' : m.call = o.call /\ m.channel = o.channel => m = o
      BY <1>2, <1>3, <1>10 DEF IInv, RowsInv
    <2>5. \A m \in notes', d \in DOMAIN calls' :
            calls'[d].pc \in InDispatch /\ calls'[d].row = m.id =>
              m.call = d /\ m.channel = Current(d)'
      <3>1. SUFFICES ASSUME NEW m \in notes', NEW d \in DOMAIN calls,
                            calls'[d].pc \in InDispatch, calls'[d].row = m.id
                     PROVE  m.call = d /\ m.channel = Current(d)
        BY <1>8, <1>9
      <3>2. CASE d = c
        BY <1>2, <1>3, <1>8, <1>10, <3>1, <3>2
      <3>3. CASE d # c
        BY <1>2, <1>3, <1>8, <1>10, <3>1, <3>3 DEF IInv, RowsInv
      <3> QED
        BY <3>2, <3>3
    <2> QED
      BY <2>2, <2>3, <2>4, <2>5 DEF RowsInv
  <1>15. AnswersInv'
    BY <1>8, <1>9 DEF IInv, AnswersInv, Provider
  <1>16. ProgressInv'
    <2>1. \A d, ch : HasRow(d, ch) => HasRow(d, ch)'
      BY <1>2 DEF HasRow
    <2>2. \A ch : ch = Current(c) => HasRow(c, ch)'
      BY <1>2, <1>3 DEF HasRow
    <2> QED
      BY <1>0, <1>8, <1>9, <2>1, <2>2 DEF IInv, ProgressInv, InLoop, InDispatch
  <1>17. SentWasDelivered'
    BY <1>2, <1>3, <1>8, CallFacts DEF IInv, SentWasDelivered
  <1>18. PendingRowsHaveADispatch'
    <2>1. \A m \in notes : ~m.sent /\ ~m.error => m.call # c
      BY <1>0 DEF IInv, PendingRowsHaveADispatch
    <2> QED
      BY <1>2, <1>3, <1>8, <2>1, CallFacts DEF IInv, PendingRowsHaveADispatch
  <1> QED
    BY <1>11, <1>12, <1>13, <1>14, <1>15, <1>16, <1>17, <1>18 DEF IInv

LEMMA CreateKeepsIInv ==
  ASSUME IInv, NEW c \in DOMAIN calls, Create(c)
  PROVE  IInv'
  <1>1. /\ calls[c].pc = "create" /\ UNCHANGED <<deployed, users, nextUser, delivered>>
        /\ calls[c].pc \in InLoop
    BY DEF Create, InLoop
  <1>2. \/ Goto(c, "rejected") /\ UNCHANGED <<notes, nextNote>> /\ (faults' = faults \/ Fault)
        \/ /\ UserExists(calls[c].user.id)
           /\ nextNote' = nextNote + 1
           /\ notes' = notes \cup
                {[id |-> nextNote', owner |-> calls[c].user.id, call |-> c,
                  channel |-> Current(c), sent |-> FALSE, error |-> FALSE, read |-> FALSE]}
           /\ calls' = [calls EXCEPT ![c].pc = "send", ![c].row = nextNote']
           /\ faults' = faults
    BY DEF Create
  <1>3. CASE Goto(c, "rejected") /\ UNCHANGED <<notes, nextNote>> /\ (faults' = faults \/ Fault)
    <2>1. faults' \in Nat /\ faults <= faults'
      BY <1>3 DEF IInv, Counters, Fault
    <2>2. PICK q : q = "rejected"
      OBVIOUS
    <2> QED
      BY <1>1, <1>3, <2>1, <2>2, GotoKeepsIInv
  <1>4. ASSUME UserExists(calls[c].user.id), nextNote' = nextNote + 1,
               notes' = notes \cup
                 {[id |-> nextNote', owner |-> calls[c].user.id, call |-> c,
                   channel |-> Current(c), sent |-> FALSE, error |-> FALSE, read |-> FALSE]},
               calls' = [calls EXCEPT ![c].pc = "send", ![c].row = nextNote'],
               faults' = faults
        PROVE  IInv'
    <2>1. /\ nextNote \in Nat /\ nextNote' \in Nat /\ calls[c] \in Call
          /\ calls[c].user # None /\ calls[c].user.id \in 1..nextUser
      BY <1>1, <1>4, CallFacts DEF IInv, Counters, CallsInv
    <2>2. PICK n : n = [id |-> nextNote', owner |-> calls[c].user.id, call |-> c,
                        channel |-> Current(c), sent |-> FALSE, error |-> FALSE,
                        read |-> FALSE]
      OBVIOUS
    <2>3. /\ notes' = notes \cup {n}
          /\ n.id = nextNote' /\ n.owner = calls[c].user.id /\ n.call = c
          /\ n.channel = Current(c) /\ n.sent = FALSE /\ n.error = FALSE
      BY <1>4, <2>2
    <2>4. n \in [id: 1..nextNote', owner: 1..nextUser, call: DOMAIN calls,
                 channel: Channel, sent: BOOLEAN, error: BOOLEAN, read: BOOLEAN]
      <3>1. nextNote' \in 1..nextNote' /\ Current(c) \in Channel
        BY <1>1, <1>4, <2>1, CurrentIsLeft
      <3> QED
        BY <2>1, <2>2, <3>1
    <2>5. PICK k : k = [calls[c] EXCEPT !.pc = "send", !.row = nextNote']
      OBVIOUS
    <2>6. calls' = [calls EXCEPT ![c] = k]
      BY <1>4, <2>5, CallFacts
    <2>7. /\ k \in Call /\ k.pc = "send" /\ k.row = nextNote' /\ k.user = calls[c].user
          /\ k.todo = calls[c].todo /\ k.asked = calls[c].asked
      BY <2>1, <2>5 DEF Call, Pcs, Live
    <2>8. OnlyCall(c) /\ calls'[c] = k
      BY <2>6, <2>7, CallReplaced
    <2> QED
      BY <1>1, <1>4, <2>3, <2>4, <2>7, <2>8, RowAdded
  <1> QED
    BY <1>2, <1>3, <1>4

-----------------------------------------------------------------------------
(* Rows that are marked                                                    *)

\* The row n becomes m, which differs in its marks.
Marked(n, m) ==
  /\ notes' = (notes \ {n}) \cup {m}
  /\ m.id = n.id /\ m.owner = n.owner /\ m.call = n.call /\ m.channel = n.channel
  /\ m \in [id: 1..nextNote, owner: 1..nextUser, call: DOMAIN calls, channel: Channel,
            sent: BOOLEAN, error: BOOLEAN, read: BOOLEAN]
  /\ UNCHANGED <<deployed, users, nextUser, nextNote, delivered>>

LEMMA MarkedRows ==
  ASSUME IInv, NEW n \in notes, NEW m, Marked(n, m), DOMAIN calls' = DOMAIN calls
  PROVE  /\ \A x \in notes' : x = m \/ (x \in notes /\ x # n)
         /\ \A x \in notes' : \E y \in notes :
              x.id = y.id /\ x.owner = y.owner /\ x.call = y.call /\ x.channel = y.channel
         /\ \A x \in notes, y \in notes : x.id = y.id => x = y
         /\ \A d, ch : HasRow(d, ch) <=> HasRow(d, ch)'
         /\ \A id : UserExists(id)' <=> UserExists(id)
         /\ NotesInv' /\ UsersInv'
         /\ \A x, y \in notes' : x.call = y.call /\ x.channel = y.channel => x = y
  <1>1. \A x \in notes' : x = m \/ (x \in notes /\ x # n)
    BY DEF Marked
  <1>2. \A x \in notes' : \E y \in notes :
          x.id = y.id /\ x.owner = y.owner /\ x.call = y.call /\ x.channel = y.channel
    BY DEF Marked
  <1>3. \A x \in notes, y \in notes : x.id = y.id => x = y
    BY DEF IInv, NotesInv
  <1>4. \A d, ch : HasRow(d, ch) <=> HasRow(d, ch)'
    <2>1. \A y \in notes : y = n \/ y \in notes'
      BY DEF Marked
    <2>2. m \in notes'
      BY DEF Marked
    <2> QED
      BY <1>1, <2>1, <2>2 DEF HasRow, Marked
  <1>5. \A id : UserExists(id)' <=> UserExists(id)
    BY DEF UserExists, Marked
  <1>6. NotesInv'
    <2>1. \A x \in notes' : UserExists(x.owner)'
      BY <1>2, <1>5 DEF IInv, NotesInv
    <2>2. \A x, y \in notes' : x.id = y.id => x = y
      BY <1>1, <1>3 DEF Marked
    <2>3. \A x \in notes : x \in [id: 1..nextNote, owner: 1..nextUser, call: DOMAIN calls,
                                  channel: Channel, sent: BOOLEAN, error: BOOLEAN,
                                  read: BOOLEAN]
      BY DEF IInv, NotesInv
    <2>4. nextNote' = nextNote /\ nextUser' = nextUser /\ DOMAIN calls' = DOMAIN calls
      BY DEF Marked
    <2>5. notes' \subseteq [id: 1..nextNote, owner: 1..nextUser, call: DOMAIN calls,
                            channel: Channel, sent: BOOLEAN, error: BOOLEAN,
                            read: BOOLEAN]
      BY <1>1, <2>3 DEF Marked
    <2> QED
      BY <2>1, <2>2, <2>4, <2>5 DEF NotesInv
  <1>7. UsersInv'
    BY DEF IInv, UsersInv, Marked
  <1>8. \A x, y \in notes' : x.call = y.call /\ x.channel = y.channel => x = y
    <2>1. \A x, y \in notes : x.call = y.call /\ x.channel = y.channel => x = y
      BY DEF IInv, RowsInv
    <2> QED
      BY <1>1, <2>1 DEF Marked
  <1> QED
    BY <1>1, <1>2, <1>3, <1>4, <1>5, <1>6, <1>7, <1>8

LEMMA MarkReadKeepsIInv ==
  ASSUME IInv, NEW w \in Wallet, NEW id, MarkRead(w, id)
  PROVE  IInv'
  <1>1. PICK n \in notes : notes' = (notes \ {n}) \cup {[n EXCEPT !.read = TRUE]}
    BY DEF MarkRead, OwnedBy
  <1>2. PICK m : m = [n EXCEPT !.read = TRUE]
    OBVIOUS
  <1>3. n \in [id: 1..nextNote, owner: 1..nextUser, call: DOMAIN calls, channel: Channel,
               sent: BOOLEAN, error: BOOLEAN, read: BOOLEAN]
    BY DEF IInv, NotesInv
  <1>4. /\ m.id = n.id /\ m.owner = n.owner /\ m.call = n.call /\ m.channel = n.channel
        /\ m.sent = n.sent /\ m.error = n.error
        /\ m \in [id: 1..nextNote, owner: 1..nextUser, call: DOMAIN calls,
                  channel: Channel, sent: BOOLEAN, error: BOOLEAN, read: BOOLEAN]
    BY <1>2, <1>3
  <1>5. UNCHANGED <<deployed, users, nextUser, nextNote, delivered, calls, faults>>
    BY DEF MarkRead
  <1>6. Marked(n, m)
    BY <1>1, <1>2, <1>4, <1>5 DEF Marked
  <1>7. /\ \A x \in notes' : x = m \/ (x \in notes /\ x # n)
        /\ \A x \in notes' : \E y \in notes :
             x.id = y.id /\ x.owner = y.owner /\ x.call = y.call /\ x.channel = y.channel
        /\ \A d, ch : HasRow(d, ch) <=> HasRow(d, ch)'
        /\ \A u : UserExists(u)' <=> UserExists(u)
        /\ NotesInv' /\ UsersInv'
        /\ \A x, y \in notes' : x.call = y.call /\ x.channel = y.channel => x = y
    BY <1>5, <1>6, MarkedRows
  <1>8. \A d : Current(d)' = Current(d) /\ Address(d)' = Address(d)
    BY <1>5 DEF Current, Address
  <1>9. \A d, v : Allowed(d, v)' = Allowed(d, v)
    BY <1>5 DEF Allowed
  <1>10. Counters' /\ CallsInv'
    BY <1>5, <1>9 DEF IInv, Counters, CallsInv
  <1>11. RowsInv'
    <2>1. \A x \in notes' : ~(x.sent /\ x.error)
      BY <1>4, <1>7 DEF IInv, RowsInv
    <2> QED
      BY <1>5, <1>7, <1>8, <1>9, <2>1 DEF IInv, RowsInv
  <1>12. AnswersInv'
    BY <1>5, <1>8 DEF IInv, AnswersInv, Provider
  <1>13. ProgressInv'
    BY <1>5, <1>7, <1>8, <1>9 DEF IInv, ProgressInv
  <1>14. SentWasDelivered'
    BY <1>4, <1>5, <1>7 DEF IInv, SentWasDelivered
  <1>15. PendingRowsHaveADispatch'
    BY <1>4, <1>5, <1>7 DEF IInv, PendingRowsHaveADispatch
  <1> QED
    BY <1>7, <1>10, <1>11, <1>12, <1>13, <1>14, <1>15 DEF IInv

\* The row of a dispatch is marked, and the call goes on.
LEMMA RowMarked ==
  ASSUME IInv, NEW c \in DOMAIN calls, calls[c].pc \in InDispatch,
         NEW n \in Row(c), NEW m, Marked(n, m), faults' = faults,
         m.sent = (calls[c].pc = "sent"), m.error = (calls[c].pc # "sent"),
         OnlyCall(c),
         calls'[c].user = calls[c].user, calls'[c].asked = calls[c].asked,
         \/ /\ calls[c].todo = {Current(c)} /\ calls'[c].pc = "done"
            /\ calls'[c].todo = calls[c].todo
         \/ /\ calls[c].todo # {Current(c)} /\ calls'[c].pc = "create"
            /\ calls'[c].todo = calls[c].todo \ {Current(c)}
  PROVE  IInv'
  <1>1. /\ n \in notes /\ n.id = calls[c].row /\ n.call = c /\ n.channel = Current(c)
        /\ calls[c].pc \in InLoop
    BY DEF Row, IInv, RowsInv, InLoop
  <1>2. /\ DOMAIN calls' = DOMAIN calls /\ calls' \in Seq(Call)
        /\ \A d \in DOMAIN calls : /\ calls'[d].user = calls[d].user
                                   /\ calls'[d].asked = calls[d].asked
                                   /\ d # c => calls'[d] = calls[d]
        /\ calls'[c].pc \notin InDispatch /\ "sent" \in InDispatch
        /\ calls'[c].pc \in InLoop => calls'[c].pc = "create"
    BY DEF OnlyCall, InDispatch, InLoop
  <1>3. /\ m.id = n.id /\ m.owner = n.owner /\ m.call = c /\ m.channel = Current(c)
        /\ UNCHANGED <<deployed, users, nextUser, nextNote, delivered>>
    BY <1>1 DEF Marked
  <1>4. /\ \A x \in notes' : x = m \/ (x \in notes /\ x # n)
        /\ \A x \in notes' : \E y \in notes :
             x.id = y.id /\ x.owner = y.owner /\ x.call = y.call /\ x.channel = y.channel
        /\ \A d, ch : HasRow(d, ch) <=> HasRow(d, ch)'
        /\ \A u : UserExists(u)' <=> UserExists(u)
        /\ NotesInv' /\ UsersInv'
        /\ \A x, y \in notes' : x.call = y.call /\ x.channel = y.channel => x = y
    BY <1>1, <1>2, MarkedRows
  <1>5. \A x \in notes : x.id = n.id => x = n
    BY <1>1 DEF IInv, NotesInv
  <1>6. /\ \A d \in DOMAIN calls : d # c => Current(d)' = Current(d) /\ Address(d)' = Address(d)
        /\ \A d \in DOMAIN calls :
             Allowed(d, calls[d].user)' = Allowed(d, calls[d].user)
    BY <1>2 DEF Current, Address, Allowed
  <1>7. Counters' /\ CallsInv'
    <2>1. Counters'
      BY <1>3 DEF IInv, Counters
    <2>2. calls'[c].pc \in InLoop => calls'[c].todo # {} /\ calls'[c].todo \subseteq calls[c].todo
      BY <1>1, <1>2, CurrentIsLeft
    <2>3. calls'[c].pc # "lookup"
      OBVIOUS
    <2>4. /\ calls[c].user # None /\ calls[c].user.id \in 1..nextUser
          /\ calls[c].todo \subseteq Allowed(c, calls[c].user)
      BY <1>1 DEF IInv, CallsInv
    <2> QED
      BY <1>2, <1>3, <1>6, <2>1, <2>2, <2>3, <2>4 DEF IInv, CallsInv
  <1>8. RowsInv'
    <2>1. \A x \in notes' :
            /\ calls'[x.call].user # None /\ x.owner = calls'[x.call].user.id
            /\ x.channel \in Allowed(x.call, calls[x.call].user)'
      BY <1>2, <1>4, <1>6, CallFacts DEF IInv, RowsInv
    <2>2. \A x \in notes' : ~(x.sent /\ x.error)
      BY <1>4 DEF IInv, RowsInv
    <2>3. ASSUME NEW x \in notes', calls'[x.call].pc \in InLoop,
                 x.channel \in calls'[x.call].todo
          PROVE  calls'[x.call].pc \in InDispatch /\ calls'[x.call].row = x.id
      <3>1. CASE x.call # c
        BY <1>2, <1>3, <1>4, <2>3, <3>1, CallFacts DEF IInv, RowsInv
      <3>2. CASE x.call = c
        <4>1. x.channel \in calls[c].todo /\ x.channel # Current(c)
          BY <1>2, <2>3, <3>2
        <4>2. x \in notes /\ x # n
          BY <1>3, <1>4, <4>1
        <4>3. x.id = calls[c].row
          BY <1>1, <3>2, <4>1, <4>2 DEF IInv, RowsInv
        <4> QED
          BY <1>1, <1>5, <4>2, <4>3
      <3> QED
        BY <3>1, <3>2
    <2>4. \A x \in notes', d \in DOMAIN calls' :
            calls'[d].pc \in InDispatch /\ calls'[d].row = x.id =>
              x.call = d /\ x.channel = Current(d)'
      BY <1>2, <1>4, <1>6 DEF IInv, RowsInv
    <2> QED
      BY <1>4, <2>1, <2>2, <2>3, <2>4 DEF RowsInv
  <1>9. AnswersInv'
    BY <1>2, <1>3, <1>6 DEF IInv, AnswersInv, Provider
  <1>10. ProgressInv'
    <2>1. SUFFICES ASSUME NEW d \in DOMAIN calls, calls[d].user # None,
                          UserExists(calls[d].user.id),
                          NEW ch \in Allowed(d, calls[d].user), ~HasRow(d, ch),
                          calls'[d].pc \notin {"rejected", "lost"}
                   PROVE  calls'[d].pc \in InLoop /\ ch \in calls'[d].todo
                          /\ (calls'[d].pc \in InDispatch => ch # Current(d)')
      BY <1>2, <1>4, <1>6 DEF ProgressInv
    <2>2. CASE d # c
      BY <1>2, <1>6, <2>1, <2>2 DEF IInv, ProgressInv
    <2>3. CASE d = c
      <3>1. calls[c].pc \notin {"rejected", "lost"}
        BY DEF InDispatch
      <3>2. ch \in calls[c].todo /\ ch # Current(c)
        BY <1>1, <2>1, <2>3, <3>1 DEF IInv, ProgressInv
      <3> QED
        BY <1>2, <2>3, <3>2 DEF InLoop
    <2> QED
      BY <2>2, <2>3
  <1>11. SentWasDelivered'
    <2>1. \A x \in notes' : x # m => (x.sent =>
            /\ ~x.error
            /\ Provider(x.channel) # "noop" =>
               \E d \in delivered :
                 /\ d[1] = x.id
                 /\ d[2] = IF x.channel = "EMAIL" THEN calls[x.call].user.email
                                                  ELSE calls[x.call].user.chat)
      BY <1>4 DEF IInv, SentWasDelivered, Provider
    <2>2. m.sent =>
            /\ ~m.error
            /\ Provider(m.channel) # "noop" =>
               \E d \in delivered :
                 /\ d[1] = m.id
                 /\ d[2] = IF m.channel = "EMAIL" THEN calls[m.call].user.email
                                                  ELSE calls[m.call].user.chat
      <3>1. SUFFICES ASSUME calls[c].pc = "sent", Provider(m.channel) # "noop"
                     PROVE  \E d \in delivered :
                              /\ d[1] = m.id
                              /\ d[2] = IF m.channel = "EMAIL"
                                        THEN calls[m.call].user.email
                                        ELSE calls[m.call].user.chat
        OBVIOUS
      <3>2. <<calls[c].row, Address(c)>> \in delivered
        BY <1>3, <3>1 DEF IInv, AnswersInv
      <3> QED
        BY <1>1, <1>3, <3>2 DEF Address
    <2>3. \A x \in notes' : calls'[x.call].user = calls[x.call].user
      BY <1>2, <1>4, CallFacts
    <2> QED
      BY <1>3, <2>1, <2>2, <2>3 DEF SentWasDelivered, Provider
  <1>12. PendingRowsHaveADispatch'
    <2>1. SUFFICES ASSUME NEW x \in notes', ~x.sent, ~x.error
                   PROVE  \/ calls'[x.call].row = x.id /\ calls'[x.call].pc \in InDispatch
                          \/ calls'[x.call].pc = "lost"
                          \/ calls'[x.call].pc = "rejected" /\ faults > 0
      BY DEF PendingRowsHaveADispatch, InDispatch
    <2>2. x \in notes /\ x # n
      BY <1>4, <2>1
    <2>3. /\ x.call \in DOMAIN calls
          /\ \/ calls[x.call].row = x.id /\ calls[x.call].pc \in InDispatch
             \/ calls[x.call].pc = "lost"
             \/ calls[x.call].pc = "rejected" /\ faults > 0
      BY <2>1, <2>2, CallFacts DEF IInv, PendingRowsHaveADispatch, InDispatch
    <2>4. x.call # c
      BY <1>1, <1>5, <2>2, <2>3 DEF InDispatch
    <2> QED
      BY <1>2, <2>3, <2>4
  <1> QED
    BY <1>4, <1>7, <1>8, <1>9, <1>10, <1>11, <1>12 DEF IInv

LEMMA MarkRowKeepsIInv ==
  ASSUME IInv, NEW c \in DOMAIN calls, MarkRow(c)
  PROVE  IInv'
  <1>1. PICK sent \in BOOLEAN, thrown \in {"caught", "rejected"} :
          /\ MarkOrThrow(c, sent, thrown)
          /\ calls[c].pc \in InDispatch /\ sent = (calls[c].pc = "sent")
    BY DEF MarkRow, InDispatch
  <1>2. UNCHANGED <<deployed, users, nextUser, nextNote, delivered>>
    BY DEF MarkRow
  <1>3. calls[c].pc \in InLoop /\ thrown \in InDispatch \cup {"rejected"}
    BY <1>1 DEF InLoop, InDispatch
  <1>4. CASE /\ Row(c) = {} \/ Fault
             /\ faults' = faults \/ Fault
             /\ UNCHANGED notes /\ Goto(c, thrown)
    <2>1. faults' \in Nat /\ faults <= faults' /\ (Fault => faults' > 0)
      BY <1>4 DEF IInv, Counters, Fault
    <2>2. thrown # "sent"
      BY <1>1
    <2> QED
      BY <1>1, <1>2, <1>3, <1>4, <2>1, <2>2, GotoKeepsIInv
  <1>5. CASE Row(c) # {} /\ Mark(c, sent) /\ NextChannel(c) /\ UNCHANGED faults
    <2>1. PICK n \in Row(c) : TRUE
      BY <1>5
    <2>2. n \in notes /\ n.id = calls[c].row
      BY <2>1 DEF Row
    <2>3. Row(c) = {n}
      BY <2>2 DEF Row, IInv, NotesInv
    <2>4. PICK m : m = [n EXCEPT !.sent = sent, !.error = ~sent]
      OBVIOUS
    <2>5. notes' = (notes \ {n}) \cup {m}
      BY <1>5, <2>3, <2>4 DEF Mark
    <2>6. n \in [id: 1..nextNote, owner: 1..nextUser, call: DOMAIN calls,
                 channel: Channel, sent: BOOLEAN, error: BOOLEAN, read: BOOLEAN]
      BY <2>2 DEF IInv, NotesInv
    <2>7. (~sent) \in BOOLEAN
      BY <1>1, Zenon
    <2>8. /\ m.id = n.id /\ m.owner = n.owner /\ m.call = n.call /\ m.channel = n.channel
          /\ m.sent = sent /\ m.error = ~sent
          /\ m \in [id: 1..nextNote, owner: 1..nextUser, call: DOMAIN calls,
                    channel: Channel, sent: BOOLEAN, error: BOOLEAN, read: BOOLEAN]
      BY <2>4, <2>6, <2>7
    <2>9. Marked(n, m)
      BY <1>2, <2>5, <2>8 DEF Marked
    <2>10. /\ m.sent = (calls[c].pc = "sent") /\ m.error = (calls[c].pc # "sent")
      BY <1>1, <2>8
    <2>11. /\ OnlyCall(c)
           /\ calls'[c].user = calls[c].user /\ calls'[c].asked = calls[c].asked
           /\ \/ /\ calls[c].todo = {Current(c)} /\ calls'[c].pc = "done"
                 /\ calls'[c].todo = calls[c].todo
              \/ /\ calls[c].todo # {Current(c)} /\ calls'[c].pc = "create"
                 /\ calls'[c].todo = calls[c].todo \ {Current(c)}
      <3>1. CASE calls[c].todo = {Current(c)}
        <4>1. Goto(c, "done") /\ "done" \in Pcs
          BY <1>5, <3>1 DEF NextChannel, Pcs
        <4>2. PICK q \in Pcs : q = "done" /\ Goto(c, q)
          BY <4>1
        <4> QED
          BY <3>1, <4>2, GotoIsOnlyCall
      <3>2. CASE calls[c].todo # {Current(c)}
        <4>1. PICK k : k = [calls[c] EXCEPT !.pc = "create", !.todo = @ \ {Current(c)},
                                            !.row = 0]
          OBVIOUS
        <4>2. calls' = [calls EXCEPT ![c] = k]
          BY <1>5, <3>2, <4>1, CallFacts DEF NextChannel
        <4>3. calls[c] \in Call /\ calls[c].todo \ {Current(c)} \in SUBSET Channel
              /\ "create" \in Pcs
          BY CallFacts DEF Call, Pcs, Live
        <4>4. /\ k \in Call /\ k.pc = "create" /\ k.user = calls[c].user
              /\ k.asked = calls[c].asked /\ k.todo = calls[c].todo \ {Current(c)}
          BY <4>1, <4>3 DEF Call
        <4>5. OnlyCall(c) /\ calls'[c] = k
          BY <4>2, <4>4, CallReplaced
        <4> QED
          BY <3>2, <4>4, <4>5
      <3> QED
        BY <3>1, <3>2
    <2>12. faults' = faults
      BY <1>5
    <2> QED
      BY <1>1, <2>1, <2>9, <2>10, <2>11, <2>12, RowMarked
  <1> QED
    BY <1>1, <1>4, <1>5 DEF MarkOrThrow

-----------------------------------------------------------------------------
(* What the providers say                                                  *)

\* "sent" stands for a delivery, unless the provider is the one that sends
\* nothing; only EmailService throws.
LEMMA ProvidersTellTheTruth ==
  ASSUME NEW d, d \in [email: EmailProviders, telegram: TelegramProviders],
         NEW kind, NEW o, NEW ch \in Channel,
         o \in IF ch = "EMAIL" THEN EmailServiceSend(d.email, kind)
                               ELSE TelegramSend(d.telegram, kind)
  PROVE  /\ o.status \in {"sent", "failed", "thrown"}
         /\ o.status = "sent" /\ (IF ch = "EMAIL" THEN d.email ELSE d.telegram) # "noop" =>
              o.delivered
  <1>1. \A f \in FarEnd : f.answer \in {"ok", "unread"} => f.delivered
    BY DEF FarEnd
  <1>2. ASSUME o \in ResendSend \/ o \in MailHogSend \/ o \in HttpSendMessage(kind)
        PROVE  o.status \in {"sent", "failed"} /\ (o.status = "sent" => o.delivered)
    BY <1>1, <1>2 DEF ResendSend, MailHogSend, HttpSendMessage, Told
  <1>3. ASSUME o \in NoopSend \/ o \in NoopSendMessage
        PROVE  o.status = "sent"
    BY <1>3 DEF NoopSend, NoopSendMessage
  <1>4. CASE ch = "EMAIL"
    <2>1. CASE "EMAIL" \notin Template[kind]
      BY <1>4, <2>1 DEF EmailServiceSend
    <2>2. CASE "EMAIL" \in Template[kind]
      <3>1. o \in EmailProviderSend(d.email)
        BY <1>4, <2>2 DEF EmailServiceSend
      <3>2. d.email \in {"resend", "mailhog", "noop"}
        BY DEF EmailProviders
      <3>3. CASE d.email = "resend"
        BY <1>2, <1>4, <3>1, <3>3 DEF EmailProviderSend
      <3>4. CASE d.email = "mailhog"
        BY <1>2, <1>4, <3>1, <3>4 DEF EmailProviderSend
      <3>5. CASE d.email = "noop"
        BY <1>3, <1>4, <3>1, <3>5 DEF EmailProviderSend
      <3> QED
        BY <3>2, <3>3, <3>4, <3>5
    <2> QED
      BY <2>1, <2>2
  <1>5. CASE ch = "TELEGRAM"
    <2>1. o \in TelegramSend(d.telegram, kind) /\ d.telegram \in {"http", "noop"}
      BY <1>5 DEF TelegramProviders
    <2> QED
      BY <1>2, <1>3, <1>5, <2>1 DEF TelegramSend
  <1> QED
    BY <1>4, <1>5 DEF Channel

LEMMA SendKeepsIInv ==
  ASSUME IInv, NEW c \in DOMAIN calls, Send(c)
  PROVE  IInv'
  <1>1. /\ calls[c].pc = "send" /\ calls[c].pc \in InDispatch /\ calls[c].pc \in InLoop
        /\ UNCHANGED <<deployed, users, nextUser, notes, nextNote, restarts, faults>>
        /\ faults' \in Nat /\ faults <= faults'
    BY DEF Send, InDispatch, InLoop, IInv, Counters
  <1>2. CASE Address(c) = None /\ Goto(c, "failed") /\ UNCHANGED delivered
    <2>1. PICK q : q = "failed" /\ q \in InDispatch /\ Goto(c, q)
      BY <1>2 DEF InDispatch
    <2> QED
      BY <1>1, <1>2, <2>1, GotoKeepsIInv
  <1>3. CASE Address(c) # None
    <2>1. PICK o \in Sending(c) :
            /\ Goto(c, IF o.status = "thrown" THEN "caught" ELSE o.status)
            /\ delivered' = IF o.delivered
                            THEN delivered \cup {<<calls[c].row, Address(c)>>}
                            ELSE delivered
      BY <1>3 DEF Send
    <2>2. /\ o.status \in {"sent", "failed", "thrown"}
          /\ o.status = "sent" /\ Provider(Current(c)) # "noop" => o.delivered
      <3>1. deployed \in [email: EmailProviders, telegram: TelegramProviders]
        BY DeploymentsAssumption DEF IInv, AnswersInv
      <3>2. Current(c) \in Channel
        BY <1>1, CurrentIsLeft
      <3>3. o \in IF Current(c) = "EMAIL"
                  THEN EmailServiceSend(deployed.email, calls[c].kind)
                  ELSE TelegramSend(deployed.telegram, calls[c].kind)
        BY <2>1 DEF Sending
      <3> QED
        BY <3>1, <3>2, <3>3, ProvidersTellTheTruth DEF Provider
    <2>3. PICK q : q = IF o.status = "thrown" THEN "caught" ELSE o.status
      OBVIOUS
    <2>4. q \in InDispatch /\ Goto(c, q) /\ q # "rejected"
      BY <2>1, <2>2, <2>3 DEF InDispatch
    <2>5. /\ delivered \subseteq delivered'
          /\ q = "sent" /\ Provider(Current(c)) # "noop" =>
               <<calls[c].row, Address(c)>> \in delivered'
      BY <2>1, <2>2, <2>3
    <2> QED
      BY <1>1, <2>4, <2>5, GotoKeepsIInv
  <1> QED
    BY <1>2, <1>3 DEF Send

\* A restart: what was under way is lost, the rows stay.
LEMMA RestartKeepsIInv ==
  ASSUME IInv, Restart
  PROVE  IInv'
  <1>1. UNCHANGED <<deployed, users, nextUser, notes, nextNote, delivered, faults>>
    BY DEF Restart, dispatchVars
  <1>2. /\ DOMAIN calls' = DOMAIN calls
        /\ \A d \in DOMAIN calls :
             /\ calls'[d] \in Call
             /\ calls'[d].user = calls[d].user /\ calls'[d].asked = calls[d].asked
             /\ calls'[d].todo = calls[d].todo /\ calls'[d].row = calls[d].row
             /\ calls'[d].pc = IF calls[d].pc \in Live THEN "lost" ELSE calls[d].pc
    <2>1. ASSUME NEW d \in DOMAIN calls
          PROVE  /\ calls'[d] \in Call
                 /\ calls'[d].user = calls[d].user /\ calls'[d].asked = calls[d].asked
                 /\ calls'[d].todo = calls[d].todo /\ calls'[d].row = calls[d].row
                 /\ calls'[d].pc = IF calls[d].pc \in Live THEN "lost" ELSE calls[d].pc
      <3>1. PICK q : q = IF calls[d].pc \in Live THEN "lost" ELSE calls[d].pc
        OBVIOUS
      <3>2. calls'[d] = [calls[d] EXCEPT !.pc = q]
        BY <2>1, <3>1 DEF Restart
      <3>3. calls[d] \in Call /\ q \in Pcs
        BY <2>1, <3>1, CallFacts DEF Call, Pcs
      <3> QED
        BY <3>1, <3>2, <3>3 DEF Call
    <2>2. DOMAIN calls' = DOMAIN calls
      BY DEF Restart
    <2> QED
      BY <2>1, <2>2
  <1>3. calls' \in Seq(Call)
    <2>1. DOMAIN calls' = 1..Len(calls) /\ Len(calls) \in Nat
      BY <1>2, CallFacts
    <2>2. calls' = [d \in 1..Len(calls) |-> calls'[d]]
      BY <2>1, CallFacts DEF Restart
    <2>3. calls' \in [1..Len(calls) -> Call]
      BY <1>2, <2>1, <2>2, CallFacts
    <2> QED
      BY <2>1, <2>3, SeqDef
  <1>4. \A d \in DOMAIN calls : calls'[d].pc \in {"done", "rejected", "lost"}
    BY <1>2, CallFacts DEF Call, Pcs
  <1>5. \A d \in DOMAIN calls :
          /\ calls'[d].pc \notin InLoop /\ calls'[d].pc \notin InDispatch
          /\ calls'[d].pc # "lookup" /\ calls'[d].pc # "sent"
    BY <1>4 DEF InLoop, InDispatch
  <1>6. /\ \A d \in DOMAIN calls : Allowed(d, calls[d].user)' = Allowed(d, calls[d].user)
        /\ \A id : UserExists(id)' <=> UserExists(id)
        /\ \A d, ch : HasRow(d, ch)' <=> HasRow(d, ch)
    BY <1>1, <1>2 DEF Allowed, UserExists, HasRow
  <1>7. Counters' /\ UsersInv' /\ NotesInv'
    BY <1>1, <1>2, <1>6 DEF IInv, Counters, UsersInv, NotesInv
  <1>8. CallsInv'
    BY <1>1, <1>2, <1>3, <1>5 DEF IInv, CallsInv
  <1>9. RowsInv'
    BY <1>1, <1>2, <1>5, <1>6, CallFacts DEF IInv, RowsInv
  <1>10. AnswersInv'
    BY <1>1, <1>2, <1>5 DEF IInv, AnswersInv
  <1>11. ProgressInv'
    <2>1. SUFFICES ASSUME NEW d \in DOMAIN calls, calls[d].user # None,
                          UserExists(calls[d].user.id),
                          NEW ch \in Allowed(d, calls[d].user), ~HasRow(d, ch),
                          calls'[d].pc \notin {"rejected", "lost"}
                   PROVE  FALSE
      BY <1>2, <1>6 DEF ProgressInv
    <2>2. calls[d].pc \notin Live /\ calls[d].pc = calls'[d].pc
      BY <1>2, <2>1
    <2> QED
      BY <2>1, <2>2 DEF IInv, ProgressInv, InLoop, InDispatch, Live
  <1>12. SentWasDelivered'
    BY <1>1, <1>2, CallFacts DEF IInv, SentWasDelivered
  <1>13. PendingRowsHaveADispatch'
    BY <1>1, <1>2, CallFacts DEF IInv, PendingRowsHaveADispatch, Live
  <1> QED
    BY <1>7, <1>8, <1>9, <1>10, <1>11, <1>12, <1>13 DEF IInv

-----------------------------------------------------------------------------
(* The changes of an account                                               *)

\* A call of enqueue is under way, or there is none.
LEMMA Enqueued ==
  ASSUME IInv, NEW w \in Wallet, NEW kind \in DOMAIN Template, NEW channels \in SUBSET Channel,
         Enqueue(w, kind, channels)
  PROVE  /\ calls' \in Seq(Call) /\ DOMAIN calls \subseteq DOMAIN calls'
         /\ \A c \in DOMAIN calls : calls'[c] = calls[c]
         /\ \A c \in DOMAIN calls' \ DOMAIN calls :
              calls'[c].pc = "lookup" /\ calls'[c].user = None
  <1>1. PICK k : k = [pc |-> "lookup", wallet |-> w, kind |-> kind, asked |-> channels,
                      user |-> None, todo |-> {}, row |-> 0]
    OBVIOUS
  <1>2. calls' = Append(calls, k)
    BY <1>1 DEF Enqueue
  <1>3. k \in Call /\ k.pc = "lookup" /\ k.user = None
    BY <1>1 DEF Call, Pcs, Live
  <1>4. /\ calls \in Seq(Call) /\ DOMAIN calls = 1..Len(calls) /\ Len(calls) \in Nat
    BY CallFacts
  <1>5. /\ calls' \in Seq(Call) /\ Len(calls') = Len(calls) + 1
        /\ \A i \in 1..Len(calls) : calls'[i] = calls[i]
        /\ calls'[Len(calls) + 1] = k
    BY <1>2, <1>3, <1>4, AppendProperties
  <1>6. DOMAIN calls' = 1..(Len(calls) + 1)
    BY <1>5, LenProperties
  <1> QED
    BY <1>3, <1>4, <1>5, <1>6

\* What an account may turn into without its rows being touched.
LEMMA AccountKeepsIInv ==
  ASSUME IInv, UNCHANGED <<deployed, notes, nextNote, delivered, faults>>,
         UsersInv', nextUser' \in Nat, nextUser <= nextUser',
         \A id \in 1..nextUser : UserExists(id)' <=> UserExists(id),
         calls' \in Seq(Call), DOMAIN calls \subseteq DOMAIN calls',
         \A c \in DOMAIN calls : calls'[c] = calls[c],
         \A c \in DOMAIN calls' \ DOMAIN calls :
           calls'[c].pc = "lookup" /\ calls'[c].user = None
  PROVE  IInv'
  <1>1. 1..nextUser \subseteq 1..nextUser' /\ nextUser \in Nat
    BY DEF IInv, Counters
  <1>2. \A c \in DOMAIN calls : /\ Current(c)' = Current(c) /\ Address(c)' = Address(c)
                                /\ Allowed(c, calls[c].user)' = Allowed(c, calls[c].user)
    BY DEF Current, Address, Allowed
  <1>3. \A c \in DOMAIN calls' \ DOMAIN calls :
          calls'[c].pc \notin InLoop /\ calls'[c].pc \notin InDispatch /\ calls'[c].pc # "sent"
    BY DEF InLoop, InDispatch
  <1>4. Counters'
    BY DEF IInv, Counters
  <1>5. NotesInv'
    <2>1. notes \subseteq [id: 1..nextNote, owner: 1..nextUser', call: DOMAIN calls',
                           channel: Channel, sent: BOOLEAN, error: BOOLEAN, read: BOOLEAN]
      BY <1>1 DEF IInv, NotesInv
    <2>2. \A n \in notes : n.owner \in 1..nextUser
      BY DEF IInv, NotesInv
    <2> QED
      BY <2>1, <2>2 DEF IInv, NotesInv
  <1>6. CallsInv'
    <2>1. \A c \in DOMAIN calls :
            /\ calls'[c].pc = "lookup" => calls'[c].user = None
            /\ calls'[c].user # None => calls'[c].user.id \in 1..nextUser'
            /\ calls'[c].pc \in InLoop =>
                 /\ calls'[c].user # None
                 /\ calls'[c].todo # {}
                 /\ calls'[c].todo \subseteq Allowed(c, calls[c].user)'
            /\ calls'[c].pc \in InDispatch => calls'[c].row \in 1..nextNote
      BY <1>1, <1>2 DEF IInv, CallsInv
    <2> QED
      BY <1>3, <2>1 DEF CallsInv
  <1>7. RowsInv'
    BY <1>2, <1>3, CallFacts DEF IInv, RowsInv
  <1>8. AnswersInv'
    BY <1>2, <1>3 DEF IInv, AnswersInv, Provider
  <1>9. ProgressInv'
    <2>1. \A c, ch : HasRow(c, ch)' <=> HasRow(c, ch)
      BY DEF HasRow
    <2>2. \A c \in DOMAIN calls : calls[c].user # None => calls[c].user.id \in 1..nextUser
      BY DEF IInv, CallsInv
    <2> QED
      BY <1>2, <2>1, <2>2 DEF IInv, ProgressInv
  <1>10. SentWasDelivered'
    BY CallFacts DEF IInv, SentWasDelivered
  <1>11. PendingRowsHaveADispatch'
    BY CallFacts DEF IInv, PendingRowsHaveADispatch
  <1> QED
    BY <1>4, <1>5, <1>6, <1>7, <1>8, <1>9, <1>10, <1>11 DEF IInv

\* An update of one account: it keeps its id, no address becomes another's.
LEMMA UserUpdated ==
  ASSUME IInv, NEW w \in Wallet, users[w] # None, NEW u \in AccountRow,
         users' = [users EXCEPT ![w] = u], nextUser' = nextUser,
         u.id = users[w].id,
         \A v \in Wallet \ {w} : users[v] # None =>
           /\ u.email = users[v].email => u.email = None
           /\ u.chat = users[v].chat => u.chat = None
  PROVE  /\ UsersInv' /\ nextUser' \in Nat /\ nextUser <= nextUser'
         /\ \A id \in 1..nextUser : UserExists(id)' <=> UserExists(id)
  <1>1. u # None
    BY NoneAssumption DEF AccountRow
  <1>2. /\ users' \in [Wallet -> {None} \cup AccountRow]
        /\ users'[w] = u /\ \A v \in Wallet \ {w} : users'[v] = users[v]
    BY DEF IInv, UsersInv
  <1>3. \A v \in Wallet : users'[v] # None <=> users[v] # None
    BY <1>1, <1>2
  <1>4. \A v \in Wallet : users'[v].id = users[v].id
    BY <1>2
  <1>5. \A id : UserExists(id)' <=> UserExists(id)
    BY <1>3, <1>4 DEF UserExists
  <1>6. UsersInv'
    <2>1. \A x, y \in Wallet :
            x # y /\ users[x] # None /\ users[y] # None =>
              /\ users[x].id # users[y].id
              /\ users[x].email = users[y].email => users[x].email = None
              /\ users[x].chat = users[y].chat => users[x].chat = None
      BY DEF IInv, UsersInv
    <2>2. \A x, y \in Wallet :
            x # y /\ users'[x] # None /\ users'[y] # None =>
              /\ users'[x].id # users'[y].id
              /\ users'[x].email = users'[y].email => users'[x].email = None
              /\ users'[x].chat = users'[y].chat => users'[x].chat = None
      BY <1>2, <1>3, <1>4, <2>1
    <2> QED
      BY <1>2, <1>3, <1>4, <2>2 DEF IInv, UsersInv
  <1> QED
    BY <1>5, <1>6 DEF IInv, Counters

LEMMA ConnectKeepsIInv ==
  ASSUME IInv, NEW w \in Wallet, Connect(w)
  PROVE  IInv'
  <1>1. /\ UNCHANGED <<deployed, notes, nextNote, delivered, faults>>
        /\ users[w] = None /\ nextUser' = nextUser + 1 /\ nextUser \in Nat
    BY DEF Connect, dispatchVars, IInv, Counters
  <1>2. PICK u : u = [id |-> nextUser', email |-> None, chat |-> None, on |-> DefaultChannels]
    OBVIOUS
  <1>3. users' = [users EXCEPT ![w] = u]
    BY <1>2 DEF Connect
  <1>4. nextUser' \in Nat /\ nextUser' \in 1..nextUser' /\ nextUser' \notin 1..nextUser
        /\ nextUser <= nextUser' /\ 1..nextUser \subseteq 1..nextUser'
    BY <1>1
  <1>5. /\ u \in AccountRow /\ u.id = nextUser' /\ u.email = None /\ u.chat = None
        /\ u # None
    BY <1>2, <1>4, NoneAssumption DEF AccountRow, DefaultChannels, Channel
  <1>6. /\ users' \in [Wallet -> {None} \cup AccountRow]
        /\ users'[w] = u /\ \A v \in Wallet \ {w} : users'[v] = users[v]
    BY <1>3, <1>5 DEF IInv, UsersInv
  <1>7. \A v \in Wallet : users[v] # None => users[v].id \in 1..nextUser
    BY DEF IInv, UsersInv
  <1>8. UsersInv'
    <2>1. \A v \in Wallet : users'[v] # None => users'[v].id \in 1..nextUser'
      BY <1>4, <1>5, <1>6, <1>7
    <2>2. \A x, y \in Wallet :
            x # y /\ users'[x] # None /\ users'[y] # None =>
              /\ users'[x].id # users'[y].id
              /\ users'[x].email = users'[y].email => users'[x].email = None
              /\ users'[x].chat = users'[y].chat => users'[x].chat = None
      <3>1. ASSUME NEW x \in Wallet, NEW y \in Wallet, x # y, users'[x] # None,
                   users'[y] # None
            PROVE  users'[x].id # users'[y].id
        BY <1>4, <1>5, <1>6, <1>7, <3>1 DEF IInv, UsersInv
      <3>2. ASSUME NEW x \in Wallet, NEW y \in Wallet, x # y, users'[x] # None,
                   users'[y] # None
            PROVE  /\ users'[x].email = users'[y].email => users'[x].email = None
                   /\ users'[x].chat = users'[y].chat => users'[x].chat = None
        BY <1>5, <1>6, <3>2 DEF IInv, UsersInv
      <3> QED
        BY <3>1, <3>2
    <2> QED
      BY <1>6, <2>1, <2>2 DEF UsersInv
  <1>9. \A id \in 1..nextUser : UserExists(id)' <=> UserExists(id)
    BY <1>1, <1>4, <1>5, <1>6 DEF UserExists
  <1>10. /\ calls' \in Seq(Call) /\ DOMAIN calls \subseteq DOMAIN calls'
         /\ \A c \in DOMAIN calls : calls'[c] = calls[c]
         /\ \A c \in DOMAIN calls' \ DOMAIN calls :
              calls'[c].pc = "lookup" /\ calls'[c].user = None
    <2>1. PICK kind \in DOMAIN Template : Enqueue(w, kind, Channel)
      BY DEF Connect, Template
    <2>2. PICK channels \in SUBSET Channel : Enqueue(w, kind, channels)
      BY <2>1
    <2> QED
      BY <2>2, Enqueued
  <1> QED
    BY <1>1, <1>4, <1>8, <1>9, <1>10, AccountKeepsIInv

\* updateEmail, linkTelegram and updatePreferences.
LEMMA UpdatesKeepIInv ==
  ASSUME IInv, NEW w \in Wallet,
         \/ UpdatePreferences(w)
         \/ \E e \in Email : UpdateEmail(w, e)
         \/ \E ch \in Chat : LinkTelegram(w, ch)
  PROVE  IInv'
  <1>1. /\ UNCHANGED <<deployed, notes, nextNote, delivered, faults, nextUser>>
        /\ users[w] # None /\ users[w] \in AccountRow
    BY DEF UpdatePreferences, UpdateEmail, LinkTelegram, dispatchVars, IInv, UsersInv
  <1>2. \A v \in Wallet \ {w} : users[v] # None =>
          /\ users[w].email = users[v].email => users[w].email = None
          /\ users[w].chat = users[v].chat => users[w].chat = None
    BY <1>1 DEF IInv, UsersInv
  <1>3. /\ UsersInv' /\ nextUser' \in Nat /\ nextUser <= nextUser'
        /\ \A id \in 1..nextUser : UserExists(id)' <=> UserExists(id)
    <2>1. CASE UpdatePreferences(w)
      <3>1. PICK on \in SUBSET Channel : users' = [users EXCEPT ![w].on = on]
        BY <2>1 DEF UpdatePreferences
      <3>2. PICK u : u = [users[w] EXCEPT !.on = on]
        OBVIOUS
      <3>3. users' = [users EXCEPT ![w] = u]
        BY <3>1, <3>2 DEF IInv, UsersInv
      <3>4. /\ u \in AccountRow /\ u.id = users[w].id /\ u.email = users[w].email
            /\ u.chat = users[w].chat
        BY <1>1, <3>2 DEF AccountRow
      <3>5. /\ u \in AccountRow /\ users' = [users EXCEPT ![w] = u] /\ nextUser' = nextUser
            /\ u.id = users[w].id /\ users[w] # None
        BY <1>1, <3>3, <3>4
      <3>6. \A v \in Wallet \ {w} : users[v] # None =>
              /\ u.email = users[v].email => u.email = None
              /\ u.chat = users[v].chat => u.chat = None
        BY <1>2, <3>3, <3>4
      <3> QED
        BY <3>5, <3>6, UserUpdated
    <2>2. CASE \E e \in Email : UpdateEmail(w, e)
      <3>1. PICK e \in Email : UpdateEmail(w, e)
        BY <2>2
      <3>2. PICK u : u = [users[w] EXCEPT !.email = e]
        OBVIOUS
      <3>3. /\ users' = [users EXCEPT ![w] = u]
            /\ \A v \in Wallet \ {w} : users[v] # None => users[v].email # e
        BY <3>1, <3>2 DEF UpdateEmail, IInv, UsersInv
      <3>4. /\ u \in AccountRow /\ u.id = users[w].id /\ u.email = e
            /\ u.chat = users[w].chat
        BY <1>1, <3>2 DEF AccountRow
      <3>5. /\ u \in AccountRow /\ users' = [users EXCEPT ![w] = u] /\ nextUser' = nextUser
            /\ u.id = users[w].id /\ users[w] # None
        BY <1>1, <3>3, <3>4
      <3>6. \A v \in Wallet \ {w} : users[v] # None =>
              /\ u.email = users[v].email => u.email = None
              /\ u.chat = users[v].chat => u.chat = None
        BY <1>2, <3>3, <3>4
      <3> QED
        BY <3>5, <3>6, UserUpdated
    <2>3. CASE \E ch \in Chat : LinkTelegram(w, ch)
      <3>1. PICK ch \in Chat : LinkTelegram(w, ch)
        BY <2>3
      <3>2. PICK u : u = [users[w] EXCEPT !.chat = ch]
        OBVIOUS
      <3>3. /\ users' = [users EXCEPT ![w] = u]
            /\ \A v \in Wallet \ {w} : users[v] # None => users[v].chat # ch
        BY <3>1, <3>2 DEF LinkTelegram, IInv, UsersInv
      <3>4. /\ u \in AccountRow /\ u.id = users[w].id /\ u.email = users[w].email
            /\ u.chat = ch
        BY <1>1, <3>2 DEF AccountRow
      <3>5. /\ u \in AccountRow /\ users' = [users EXCEPT ![w] = u] /\ nextUser' = nextUser
            /\ u.id = users[w].id /\ users[w] # None
        BY <1>1, <3>3, <3>4
      <3>6. \A v \in Wallet \ {w} : users[v] # None =>
              /\ u.email = users[v].email => u.email = None
              /\ u.chat = users[v].chat => u.chat = None
        BY <1>2, <3>3, <3>4
      <3> QED
        BY <3>5, <3>6, UserUpdated
    <2> QED
      BY <2>1, <2>2, <2>3
  <1>4. /\ calls' \in Seq(Call) /\ DOMAIN calls \subseteq DOMAIN calls'
        /\ \A c \in DOMAIN calls : calls'[c] = calls[c]
        /\ \A c \in DOMAIN calls' \ DOMAIN calls :
             calls'[c].pc = "lookup" /\ calls'[c].user = None
    <2>1. CASE UpdatePreferences(w)
      BY <2>1, CallFacts DEF UpdatePreferences
    <2>2. CASE \E e \in Email : UpdateEmail(w, e)
      <3>1. PICK kind \in DOMAIN Template, channels \in SUBSET Channel :
              Enqueue(w, kind, channels)
        BY <2>2 DEF UpdateEmail, Template, Channel
      <3> QED
        BY <3>1, Enqueued
    <2>3. CASE \E ch \in Chat : LinkTelegram(w, ch)
      <3>1. PICK kind \in DOMAIN Template, channels \in SUBSET Channel :
              Enqueue(w, kind, channels)
        BY <2>3 DEF LinkTelegram, Template, Channel
      <3> QED
        BY <3>1, Enqueued
    <2> QED
      BY <2>1, <2>2, <2>3
  <1> QED
    BY <1>1, <1>3, <1>4, AccountKeepsIInv

\* deleteAccount: the rows of the user go with it, and its id never returns.
LEMMA DeleteKeepsIInv ==
  ASSUME IInv, NEW w \in Wallet, DeleteAccount(w)
  PROVE  IInv'
  <1>1. /\ UNCHANGED <<deployed, nextUser, nextNote, calls, restarts, faults, delivered>>
        /\ users[w] # None /\ nextUser \in Nat
    BY DEF DeleteAccount, IInv, Counters
  <1>2. PICK gone : gone = users[w].id
    OBVIOUS
  <1>3. \A n : n \in notes' <=> n \in notes /\ n.owner # gone
    BY <1>2 DEF DeleteAccount, OwnedBy
  <1>4. /\ users' \in [Wallet -> {None} \cup AccountRow]
        /\ users'[w] = None /\ \A v \in Wallet \ {w} : users'[v] = users[v]
    BY DEF DeleteAccount, IInv, UsersInv
  <1>5. /\ \A id : UserExists(id)' => UserExists(id)
        /\ \A id : UserExists(id) => UserExists(id)' \/ id = gone
        /\ ~UserExists(gone)'
    <2>1. \A v \in Wallet : users'[v] # None => v # w /\ users[v] = users'[v]
      BY <1>4
    <2>2. \A v \in Wallet : users'[v] # None => users[v].id # gone
      BY <1>1, <1>2, <2>1 DEF IInv, UsersInv
    <2>3. \A id : UserExists(id)' => UserExists(id)
      BY <2>1 DEF UserExists
    <2>4. \A id : UserExists(id) => UserExists(id)' \/ id = gone
      BY <1>2, <1>4 DEF UserExists
    <2> QED
      BY <2>1, <2>2, <2>3, <2>4 DEF UserExists
  <1>6. UsersInv'
    BY <1>1, <1>4 DEF IInv, UsersInv
  <1>7. NotesInv'
    <2>1. notes' \subseteq notes
      BY <1>3
    <2>2. \A n \in notes' : UserExists(n.owner)'
      BY <1>3, <1>5 DEF IInv, NotesInv
    <2> QED
      BY <1>1, <2>1, <2>2 DEF IInv, NotesInv
  <1>8. Counters' /\ CallsInv'
    BY <1>1 DEF IInv, Counters, CallsInv, Allowed
  <1>9. RowsInv'
    BY <1>1, <1>3 DEF IInv, RowsInv, Allowed, Current
  <1>10. AnswersInv'
    BY <1>1 DEF IInv, AnswersInv, Provider, Current, Address
  <1>11. ProgressInv'
    <2>1. SUFFICES ASSUME NEW c \in DOMAIN calls, calls[c].user # None,
                          UserExists(calls[c].user.id)',
                          NEW ch \in Allowed(c, calls[c].user)
                   PROVE  \/ HasRow(c, ch)'
                          \/ calls[c].pc \in {"rejected", "lost"}
                          \/ calls[c].pc \in InLoop /\ ch \in calls[c].todo
                               /\ (calls[c].pc \in InDispatch => ch # Current(c))
      BY <1>1 DEF ProgressInv, Allowed, Current
    <2>2. UserExists(calls[c].user.id) /\ calls[c].user.id # gone
      BY <1>1, <1>5, <2>1
    <2>3. HasRow(c, ch) => HasRow(c, ch)'
      <3>1. \A n \in notes : n.call = c => n.owner = calls[c].user.id
        BY DEF IInv, RowsInv
      <3>2. \A n \in notes : n.call = c => n \in notes'
        BY <1>3, <2>2, <3>1
      <3> QED
        BY <3>2 DEF HasRow
    <2> QED
      BY <2>1, <2>2, <2>3 DEF IInv, ProgressInv
  <1>12. SentWasDelivered' /\ PendingRowsHaveADispatch'
    BY <1>1, <1>3 DEF IInv, SentWasDelivered, PendingRowsHaveADispatch
  <1> QED
    BY <1>6, <1>7, <1>8, <1>9, <1>10, <1>11, <1>12 DEF IInv

-----------------------------------------------------------------------------
(* The theorems                                                            *)

LEMMA InitIInv == Init => IInv
  <1> SUFFICES ASSUME Init PROVE IInv
    OBVIOUS
  <1>1. calls \in Seq(Call) /\ DOMAIN calls = {}
    BY EmptySeq DEF Init
  <1>2. Counters /\ UsersInv
    BY DEF Init, Counters, UsersInv
  <1>3. NotesInv /\ RowsInv /\ SentWasDelivered /\ PendingRowsHaveADispatch
    BY DEF Init, NotesInv, RowsInv, SentWasDelivered, PendingRowsHaveADispatch
  <1>4. CallsInv /\ AnswersInv /\ ProgressInv
    BY <1>1 DEF Init, CallsInv, AnswersInv, ProgressInv
  <1> QED
    BY <1>2, <1>3, <1>4 DEF IInv

LEMMA StutterKeepsIInv == IInv /\ UNCHANGED vars => IInv'
  <1> SUFFICES ASSUME IInv, UNCHANGED vars PROVE IInv'
    OBVIOUS
  <1>1. UNCHANGED <<deployed, users, nextUser, notes, nextNote, calls, faults, delivered>>
    BY DEF vars
  <1>2. Counters' /\ UsersInv' /\ NotesInv'
    BY <1>1 DEF IInv, Counters, UsersInv, NotesInv, UserExists
  <1>3. CallsInv' /\ RowsInv' /\ AnswersInv' /\ ProgressInv'
    BY <1>1 DEF IInv, CallsInv, RowsInv, AnswersInv, ProgressInv, Allowed, Current, Address,
                Provider, HasRow, UserExists
  <1>4. SentWasDelivered' /\ PendingRowsHaveADispatch'
    BY <1>1 DEF IInv, SentWasDelivered, PendingRowsHaveADispatch
  <1> QED
    BY <1>2, <1>3, <1>4 DEF IInv

LEMMA NextKeepsIInv == IInv /\ [Next]_vars => IInv'
  <1> SUFFICES ASSUME IInv, [Next]_vars PROVE IInv'
    OBVIOUS
  <1>1. CASE Dispatch
    BY <1>1, LookupKeepsIInv, CreateKeepsIInv, SendKeepsIInv, MarkRowKeepsIInv DEF Dispatch
  <1>2. CASE Account
    <2>1. PICK w \in Wallet :
            \/ Connect(w) \/ UpdatePreferences(w) \/ DeleteAccount(w)
            \/ \E e \in Email : UpdateEmail(w, e)
            \/ \E ch \in Chat : LinkTelegram(w, ch)
            \/ \E id \in 1..nextNote : MarkRead(w, id)
      BY <1>2 DEF Account
    <2>2. CASE Connect(w)
      BY <2>2, ConnectKeepsIInv
    <2>3. CASE DeleteAccount(w)
      BY <2>3, DeleteKeepsIInv
    <2>4. CASE \E id \in 1..nextNote : MarkRead(w, id)
      BY <2>4, MarkReadKeepsIInv
    <2>5. CASE \/ UpdatePreferences(w)
               \/ \E e \in Email : UpdateEmail(w, e)
               \/ \E ch \in Chat : LinkTelegram(w, ch)
      BY <2>5, UpdatesKeepIInv
    <2> QED
      BY <2>1, <2>2, <2>3, <2>4, <2>5
  <1>3. CASE Restart
    BY <1>3, RestartKeepsIInv
  <1>4. CASE UNCHANGED vars
    BY <1>4, StutterKeepsIInv
  <1> QED
    BY <1>1, <1>2, <1>3, <1>4 DEF Next

\* The inductive invariant: rows, calls and accounts agree.
THEOREM Invariance == Spec => []IInv
  BY InitIInv, NextKeepsIInv, PTL DEF Spec

\* Every variable keeps its type, no two accounts share an address or an id,
\* and every row has a user.
THEOREM TypeCorrect == Spec => []TypeOK
  <1>1. IInv => TypeOK
    <2> SUFFICES ASSUME IInv PROVE TypeOK
      OBVIOUS
    <2>1. users \in [Wallet -> {None} \cup [id: 1..nextUser, email: Email \cup {None},
                                            chat: Chat \cup {None}, on: SUBSET Channel]]
      <3>1. \A w \in Wallet :
              users[w] \in {None} \cup [id: 1..nextUser, email: Email \cup {None},
                                        chat: Chat \cup {None}, on: SUBSET Channel]
        BY DEF IInv, UsersInv, AccountRow
      <3> QED
        BY <3>1 DEF IInv, UsersInv
    <2>2. \A c \in DOMAIN calls : calls[c].pc \in Live \cup {"done", "rejected", "lost"}
      BY CallFacts DEF Call, Pcs
    <2> QED
      BY <2>1, <2>2 DEF IInv, UsersInv, NotesInv, AnswersInv, TypeOK
  <1> QED
    BY <1>1, Invariance, PTL

\* markSent: a row that says "sent" was delivered by its channel's provider to
\* the address that its call had read, unless the provider is the stub.
THEOREM Delivered == Spec => []SentWasDelivered
  <1>1. IInv => SentWasDelivered
    BY DEF IInv
  <1> QED
    BY <1>1, Invariance, PTL

\* The catch of dispatchOne: no answer and no exception leaves a row behind
\* that is neither sent nor failed; only a dead process or a database error does.
THEOREM NoneForgotten == Spec => []PendingRowsHaveADispatch
  <1>1. IInv => PendingRowsHaveADispatch
    BY DEF IInv
  <1> QED
    BY <1>1, Invariance, PTL

\* "one DB row per (user, kind, channel)": a call of enqueue that returns, while
\* its user exists, has one marked row for each channel that was due.
THEOREM AllTried == Spec => []ReturnedCallsTriedAllChannels
  <1>1. IInv => ReturnedCallsTriedAllChannels
    <2> SUFFICES ASSUME IInv, NEW c \in DOMAIN calls, calls[c].pc = "done",
                        calls[c].user # None, UserExists(calls[c].user.id),
                        NEW mine, mine = {n \in notes : n.call = c},
                        NEW due, due = calls[c].asked \cap calls[c].user.on
                 PROVE  /\ {n.channel : n \in mine} = due
                        /\ Cardinality(mine) = Cardinality(due)
                        /\ \A n \in mine : n.sent # n.error
      BY DEF ReturnedCallsTriedAllChannels
    <2>1. \A n \in mine : n.channel \in due
      BY DEF IInv, RowsInv, Allowed
    <2>2. \A ch \in due : \E n \in mine : n.channel = ch
      <3>1. \A ch \in due : HasRow(c, ch)
        BY DEF IInv, ProgressInv, Allowed, InLoop, InDispatch
      <3> QED
        BY <3>1 DEF HasRow
    <2>3. \A n, m \in mine : n.channel = m.channel => n = m
      BY DEF IInv, RowsInv
    <2>4. \A n \in mine : n.sent # n.error
      <3>1. SUFFICES ASSUME NEW n \in mine PROVE n.sent # n.error
        OBVIOUS
      <3>2. n.sent \in BOOLEAN /\ n.error \in BOOLEAN
        BY DEF IInv, NotesInv
      <3>3. ~(n.sent /\ n.error)
        BY DEF IInv, RowsInv
      <3>4. n.sent \/ n.error
        BY DEF IInv, PendingRowsHaveADispatch
      <3> QED
        BY <3>2, <3>3, <3>4
    <2>5. Cardinality(mine) = Cardinality(due)
      <3>1. PICK f : f = [n \in mine |-> n.channel]
        OBVIOUS
      <3>2. f \in Bijection(mine, due)
        <4>1. f \in [mine -> due]
          BY <2>1, <3>1
        <4>2. \A n, m \in mine : f[n] = f[m] => n = m
          BY <2>3, <3>1
        <4>3. \A ch \in due : \E n \in mine : f[n] = ch
          BY <2>2, <3>1
        <4> QED
          BY <4>1, <4>2, <4>3, Fun_IsBij
      <3>3. ExistsBijection(due, mine)
        BY <3>2, Fun_ExistsBij, Fun_ExistsBijSymmetric
      <3>4. IsFiniteSet(due)
        <4>1. IsFiniteSet({"EMAIL", "TELEGRAM"})
          <5>1. IsFiniteSet({} \cup {"EMAIL"})
            BY FS_EmptySet, FS_AddElement
          <5>2. IsFiniteSet(({} \cup {"EMAIL"}) \cup {"TELEGRAM"})
            BY <5>1, FS_AddElement
          <5>3. ({} \cup {"EMAIL"}) \cup {"TELEGRAM"} = {"EMAIL", "TELEGRAM"}
            OBVIOUS
          <5> QED
            BY <5>2, <5>3
        <4>2. due \subseteq {"EMAIL", "TELEGRAM"}
          BY CallFacts DEF Call, Channel
        <4> QED
          BY <4>1, <4>2, FS_Subset
      <3> QED
        BY <3>3, <3>4, FS_Bijection
    <2> QED
      BY <2>1, <2>2, <2>4, <2>5
  <1> QED
    BY <1>1, Invariance, PTL
=============================================================================
