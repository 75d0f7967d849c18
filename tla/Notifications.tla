--------------------------- MODULE Notifications ---------------------------
(***************************************************************************)
(* NotificationService of apps/api: enqueue is called without being        *)
(* awaited by the three services that change an account (AuthService on a  *)
(* first sign-in, UsersService.updateEmail and linkTelegram), so that any  *)
(* number of dispatches are in flight while the account goes on changing,  *)
(* and is perhaps deleted.  A step is what happens between two awaits.     *)
(*                                                                         *)
(* calls[c] is the c-th call of enqueue, with its locals; it keeps its     *)
(* place when it ends.  notes is the table Notification: an unread row     *)
(* with sent = FALSE and no error is what the code calls pending.          *)
(***************************************************************************)
EXTENDS Naturals, Sequences, FiniteSets, Providers

CONSTANTS Wallet, Email, Chat,
          None,           \* null
          Deployments,    \* the pairs of providers that the instance may run with
          MaxCalls,       \* bound: calls of enqueue
          MaxFailures     \* bound: restarts of the API and failed database calls

ASSUME DeploymentsAssumption ==
  Deployments \subseteq [email : EmailProviders, telegram : TelegramProviders]

\* null is no user of the database.
ASSUME NoneAssumption ==
  None \notin [id: Nat, email: Email \cup {None}, chat: Chat \cup {None}, on: SUBSET Channel]

VARIABLES
  deployed,    \* EMAIL_PROVIDER and TELEGRAM_PROVIDER
  users,       \* User, by wallet: the id, the addresses, the enabled channels
  nextUser,    \* ids given to users so far
  notes,       \* Notification
  nextNote,    \* ids given to notifications so far
  calls,
  restarts, faults,
  delivered    \* history: the row and the address of each delivered message

vars == <<deployed, users, nextUser, notes, nextNote, calls, restarts, faults, delivered>>
dispatchVars == <<notes, nextNote, delivered>>

Live == {"lookup", "create", "send", "sent", "failed", "caught"}

\* DEFAULT_PREFS, for a user who never saved any.
DefaultChannels == {"EMAIL"}

Init ==
  /\ deployed \in Deployments
  /\ users = [w \in Wallet |-> None] /\ nextUser = 0
  /\ notes = {} /\ nextNote = 0 /\ calls = <<>>
  /\ restarts = 0 /\ faults = 0 /\ delivered = {}

-----------------------------------------------------------------------------
(* The account, and the calls of enqueue that its changes make             *)

\* void this.notifications.enqueue(...), up to the first await.
Enqueue(w, kind, channels) ==
  /\ Len(calls) < MaxCalls
  /\ calls' = Append(calls, [pc |-> "lookup", wallet |-> w, kind |-> kind,
                             asked |-> channels, user |-> None, todo |-> {}, row |-> 0])

\* The first sign-in of a wallet, and its register_confirmation.
Connect(w) ==
  /\ users[w] = None
  /\ nextUser' = nextUser + 1
  /\ users' = [users EXCEPT ![w] = [id |-> nextUser', email |-> None, chat |-> None,
                                    on |-> DefaultChannels]]
  /\ Enqueue(w, "register_confirmation", Channel)
  /\ UNCHANGED <<deployed, dispatchVars, restarts, faults>>

\* An address that another account has is refused: by updateEmail's own
\* check or, when that came too early, by the unique index.
UpdateEmail(w, e) ==
  /\ users[w] # None
  /\ \A v \in Wallet \ {w} : users[v] # None => users[v].email # e
  /\ users' = [users EXCEPT ![w].email = e]
  /\ Enqueue(w, "email_verify", {"EMAIL"})
  /\ UNCHANGED <<deployed, nextUser, dispatchVars, restarts, faults>>

\* A chat that another account has is refused by the unique index.
LinkTelegram(w, c) ==
  /\ users[w] # None
  /\ \A v \in Wallet \ {w} : users[v] # None => users[v].chat # c
  /\ users' = [users EXCEPT ![w].chat = c]
  /\ Enqueue(w, "telegram_link", {"TELEGRAM"})
  /\ UNCHANGED <<deployed, nextUser, dispatchVars, restarts, faults>>

\* The merge of any partial preferences with those read before, stale or
\* not, can be any set of channels; the same one changes nothing.
UpdatePreferences(w) ==
  /\ users[w] # None
  /\ \E on \in (SUBSET Channel) \ {users[w].on} : users' = [users EXCEPT ![w].on = on]
  /\ UNCHANGED <<deployed, nextUser, calls, dispatchVars, restarts, faults>>

OwnedBy(u) == {n \in notes : n.owner = u}

\* Mutated form: the notifications are not among what is deleted.
DeleteAccountOnly(w) ==
  /\ users[w] # None
  /\ users' = [users EXCEPT ![w] = None]
  /\ UNCHANGED <<deployed, nextUser, notes, nextNote, calls, restarts, faults, delivered>>

\* One transaction: the notifications go with the user.
DeleteAccount(w) ==
  /\ users[w] # None
  /\ notes' = notes \ OwnedBy(users[w].id)
  /\ users' = [users EXCEPT ![w] = None]
  /\ UNCHANGED <<deployed, nextUser, nextNote, calls, restarts, faults, delivered>>

\* updateMany, of a row of this user that is not read yet.
MarkRead(w, id) ==
  /\ users[w] # None
  /\ \E n \in OwnedBy(users[w].id) :
       /\ n.id = id /\ ~n.read
       /\ notes' = (notes \ {n}) \cup {[n EXCEPT !.read = TRUE]}
  /\ UNCHANGED <<deployed, users, nextUser, nextNote, calls, restarts, faults, delivered>>

-----------------------------------------------------------------------------
(* The dispatch                                                            *)

Goto(c, pc) == calls' = [calls EXCEPT ![c].pc = pc]

UserExists(id) == \E w \in Wallet : users[w] # None /\ users[w].id = id

\* allowedChannels: those asked for that the preferences enable.
Allowed(c, u) == calls[c].asked \cap u.on

\* The channel at hand: "all" of enqueue, and so its filter, has EMAIL first.
Current(c) == IF "EMAIL" \in calls[c].todo THEN "EMAIL" ELSE "TELEGRAM"

\* findUnique: what it read of the user is used until the call ends.
Lookup(c) ==
  /\ calls[c].pc = "lookup"
  /\ LET u == users[calls[c].wallet]
     IN calls' =
          IF u = None \/ Allowed(c, u) = {}
          THEN [calls EXCEPT ![c].pc = "done"]
          ELSE [calls EXCEPT ![c].pc = "create", ![c].user = u,
                             ![c].todo = Allowed(c, u)]
  /\ UNCHANGED <<deployed, users, nextUser, dispatchVars, restarts, faults>>

\* A database call fails without having had an effect.
Fault == restarts + faults < MaxFailures /\ faults' = faults + 1

\* notification.create, outside the try.
Create(c) ==
  /\ calls[c].pc = "create"
  /\ \/ /\ UserExists(calls[c].user.id)
        /\ nextNote' = nextNote + 1
        /\ notes' = notes \cup
             {[id |-> nextNote', owner |-> calls[c].user.id, call |-> c,
               channel |-> Current(c),
               sent |-> FALSE, error |-> FALSE, read |-> FALSE]}
        /\ calls' = [calls EXCEPT ![c].pc = "send", ![c].row = nextNote']
        /\ UNCHANGED faults
     \/ /\ ~UserExists(calls[c].user.id) /\ UNCHANGED faults
        /\ Goto(c, "rejected") /\ UNCHANGED <<notes, nextNote>>
     \/ Fault /\ Goto(c, "rejected") /\ UNCHANGED <<notes, nextNote>>
  /\ UNCHANGED <<deployed, users, nextUser, restarts, delivered>>

Address(c) == IF Current(c) = "EMAIL"
              THEN calls[c].user.email ELSE calls[c].user.chat

\* Mutated form: a channel that failed ends the loop.
NextChannelStops(c) ==
  IF calls[c].todo = {Current(c)} \/ calls[c].pc # "sent"
  THEN Goto(c, "done")
  ELSE calls' = [calls EXCEPT ![c].pc = "create", ![c].todo = @ \ {Current(c)},
                             ![c].row = 0]

\* dispatchOne has returned: the next channel, or the end.
NextChannel(c) ==
  IF calls[c].todo = {Current(c)}
  THEN Goto(c, "done")
  ELSE calls' = [calls EXCEPT ![c].pc = "create", ![c].todo = @ \ {Current(c)},
                             ![c].row = 0]

\* What the provider of the channel makes of the message.
Sending(c) ==
  IF Current(c) = "EMAIL"
  THEN EmailServiceSend(deployed.email, calls[c].kind)
  ELSE TelegramSend(deployed.telegram, calls[c].kind)

\* To the address that the user had at the lookup, if he had one; what is
\* thrown goes to the catch.
Send(c) ==
  /\ calls[c].pc = "send"
  /\ \/ Address(c) = None /\ Goto(c, "failed") /\ UNCHANGED delivered
     \/ /\ Address(c) # None
        /\ \E o \in Sending(c) :
             /\ Goto(c, IF o.status = "thrown" THEN "caught" ELSE o.status)
             /\ delivered' = IF o.delivered
                             THEN delivered \cup {<<calls[c].row, Address(c)>>}
                             ELSE delivered
  /\ UNCHANGED <<deployed, users, nextUser, notes, nextNote, restarts, faults>>

Row(c) == {n \in notes : n.id = calls[c].row}

\* notification.update of one row, by markSent or markFailed.
Mark(c, sent) ==
  notes' = (notes \ Row(c)) \cup
           {[n EXCEPT !.sent = sent, !.error = ~sent] : n \in Row(c)}

\* Mutated form: the catch only logs.
MarkOrThrowSilent(c, sent, thrown) ==
  \/ Row(c) # {} /\ Mark(c, sent) /\ NextChannel(c) /\ UNCHANGED faults
  \/ Row(c) = {} /\ UNCHANGED <<notes, faults>> /\ NextChannel(c)
  \/ Fault /\ UNCHANGED notes /\ NextChannel(c)

\* The update throws when the row is gone or the database fails.
MarkOrThrow(c, sent, thrown) ==
  \/ Row(c) # {} /\ Mark(c, sent) /\ NextChannel(c) /\ UNCHANGED faults
  \/ Row(c) = {} /\ UNCHANGED <<notes, faults>> /\ Goto(c, thrown)
  \/ Fault /\ UNCHANGED notes /\ Goto(c, thrown)

\* markSent and markFailed inside the try, and markFailed in its catch.
MarkRow(c) ==
  /\ \/ calls[c].pc = "sent"   /\ MarkOrThrow(c, TRUE, "caught")
     \/ calls[c].pc = "failed" /\ MarkOrThrow(c, FALSE, "caught")
     \/ calls[c].pc = "caught" /\ MarkOrThrow(c, FALSE, "rejected")
  /\ UNCHANGED <<deployed, users, nextUser, nextNote, restarts, delivered>>

\* The API process dies, and its calls with it.
Restart ==
  /\ restarts + faults < MaxFailures /\ restarts' = restarts + 1
  /\ calls' = [c \in DOMAIN calls |->
                 [calls[c] EXCEPT !.pc = IF @ \in Live THEN "lost" ELSE @]]
  /\ UNCHANGED <<deployed, users, nextUser, dispatchVars, faults>>

Dispatch == \E c \in DOMAIN calls :
              Lookup(c) \/ Create(c) \/ Send(c) \/ MarkRow(c)

Account ==
  \E w \in Wallet :
    \/ Connect(w) \/ UpdatePreferences(w) \/ DeleteAccount(w)
    \/ \E e \in Email : UpdateEmail(w, e)
    \/ \E ch \in Chat : LinkTelegram(w, ch)
    \/ \E id \in 1..nextNote : MarkRead(w, id)

Next == Dispatch \/ Account \/ Restart

Spec == Init /\ [][Next]_vars

-----------------------------------------------------------------------------
(* Properties                                                              *)

\* The types; no two accounts share an address, ids are used once.
TypeOK ==
  /\ deployed \in Deployments
  /\ users \in [Wallet -> {None} \cup [id: 1..nextUser, email: Email \cup {None},
                                      chat: Chat \cup {None}, on: SUBSET Channel]]
  /\ \A w, v \in Wallet :
       w # v /\ users[w] # None /\ users[v] # None =>
         /\ users[w].id # users[v].id
         /\ users[w].email = users[v].email => users[w].email = None
         /\ users[w].chat = users[v].chat => users[w].chat = None
  /\ notes \subseteq [id: 1..nextNote, owner: 1..nextUser, call: DOMAIN calls,
                      channel: Channel, sent: BOOLEAN, error: BOOLEAN, read: BOOLEAN]
  /\ \A n, m \in notes : n.id = m.id => n = m
  /\ \A n \in notes : UserExists(n.owner)
  /\ \A c \in DOMAIN calls : calls[c].pc \in Live \cup {"done", "rejected", "lost"}

\* A row that says "sent" stands for a message that a provider delivered,
\* to the address its call had read for that channel (markSent), unless the
\* deployment's provider of that channel is the one that sends nothing.
SentWasDelivered ==
  \A n \in notes : n.sent =>
    /\ ~n.error
    /\ (IF n.channel = "EMAIL" THEN deployed.email ELSE deployed.telegram) # "noop" =>
       \E d \in delivered :
         /\ d[1] = n.id
         /\ d[2] = IF n.channel = "EMAIL" THEN calls[n.call].user.email
                                          ELSE calls[n.call].user.chat

\* A pending row has a dispatch that will mark it, unless the API died or
\* the database failed in the meantime: no answer, no early return and no
\* exception of the try leaves it behind (the catch of dispatchOne).
PendingRowsHaveADispatch ==
  \A n \in notes :
    ~n.sent /\ ~n.error =>
      LET call == calls[n.call]
      IN \/ call.row = n.id /\ call.pc \in {"send", "sent", "failed", "caught"}
         \/ call.pc = "lost"
         \/ call.pc = "rejected" /\ faults > 0

\* A call of enqueue that returns has one row for each allowed channel, and
\* has marked it: what happened on one channel is of no consequence to the
\* other one ("one DB row per (user, kind, channel)").
ReturnedCallsTriedAllChannels ==
  \A c \in DOMAIN calls :
    calls[c].pc = "done" /\ calls[c].user # None /\ UserExists(calls[c].user.id) =>
      LET mine == {n \in notes : n.call = c}
          due  == calls[c].asked \cap calls[c].user.on
      IN /\ {n.channel : n \in mine} = due
         /\ Cardinality(mine) = Cardinality(due)
         /\ \A n \in mine : n.sent # n.error
=============================================================================
