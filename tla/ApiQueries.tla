----------------------------- MODULE ApiQueries -----------------------------
(***************************************************************************)
(* What a page of the site shows of the API: the query cache behind the    *)
(* hooks of features/api (use-bakers, use-rewards, use-delegations,        *)
(* use-user, use-notifications), the requests of api-client.ts, and the    *)
(* API's list handlers, which read the rows and their number separately.   *)
(* The value of a resource is the number of writes it has seen.            *)
(***************************************************************************)
EXTENDS Naturals, FiniteSets, FiniteSetsExt

CONSTANTS Pages,         \* the pages of the instance: the keys that each may observe
          Nil,
          MaxWrites,     \* bound: writes to the API's tables
          MaxMutations,  \* bound: mutations of this page, among them
          MaxFailed,        \* bound: requests that fail
          MaxSignIns     \* bound: times the visitor signs in

VARIABLES
  page,       \* the page that is open
  ver,        \* the API's tables: the writes each resource has seen
  cache,      \* the query cache: one entry per key
  mounted,    \* the keys that a component on the page observes
  session,    \* the token of the auth store: none, good or expired
  pending,    \* the mutation that was applied and is not answered yet
  own,        \* history: the last write of this page that was answered
  mutations, failed, signIns

queryVars == <<page, ver, cache, mounted, session, pending, own, mutations, failed, signIns>>

Resources == {"bakers", "rewards", "delegations", "user", "notifications"}
Parts == {"rows", "total"}
Nothing == [p \in Parts |-> Nil]

\* The queries of each handler, that Promise.all awaits.  All that is
\* computed of the whole table (count, aggregate, groupBy) is its "total".
ListBakers == {"rows", "total"}
ListRewards == {"rows", "total"}
ListDelegations == {"rows", "total"}
FindByPkh == {"rows"}
ListByUser == {"rows", "total"}

\* The query hooks: what each asks for, with the token or without one, which
\* parts of the answer it keeps, and whether it polls.
UseBakers == [of |-> "bakers", reads |-> ListBakers, token |-> FALSE, polls |-> FALSE]
UseRewards == [of |-> "rewards", reads |-> ListRewards, token |-> FALSE, polls |-> FALSE]
UseDelegations ==
  [of |-> "delegations", reads |-> ListDelegations, token |-> FALSE, polls |-> FALSE]
UseUser == [of |-> "user", reads |-> FindByPkh, token |-> FALSE, polls |-> FALSE]
UseNotifications ==
  [of |-> "notifications", reads |-> ListByUser, token |-> TRUE, polls |-> FALSE]

\* Mutated form: the badge is not polled.
UseUnreadCountOnce ==
  [of |-> "notifications", reads |-> {"total"}, token |-> TRUE, polls |-> FALSE]

\* unreadCount of the controller keeps one part of listByUser.
UseUnreadCount ==
  [of |-> "notifications", reads |-> {"total"}, token |-> TRUE, polls |-> TRUE]

Keys == {"bakers", "rewards", "delegations", "user", "inbox", "badge"}
Hook(k) == CASE k = "bakers"      -> UseBakers
             [] k = "rewards"     -> UseRewards
             [] k = "delegations" -> UseDelegations
             [] k = "user"        -> UseUser
             [] k = "inbox"       -> UseNotifications
             [] k = "badge"       -> UseUnreadCount

Resource(k) == Hook(k).of
Reads(k) == Hook(k).reads

\* enabled: Boolean(walletPkh) && Boolean(token), expired or not.
Enabled(k) == Hook(k).token => session # "none"
Authorised(k) == Hook(k).token => session = "good"
Observed(k) == k \in mounted /\ Enabled(k)

\* The mutation hooks: what each writes, the keys under the prefix that
\* onSuccess invalidates, and whether the API asks for a token.
UseClaimReward == [writes |-> {"rewards"}, hits |-> {"rewards"}, token |-> FALSE]
UseCreateDelegation ==
  [writes |-> {"delegations"}, hits |-> {"delegations"}, token |-> FALSE]
UseUpdateEmail == [writes |-> {"user"}, hits |-> {"user"}, token |-> TRUE]
UseUpdatePreferences == [writes |-> {"user"}, hits |-> {"user"}, token |-> TRUE]
UseUpdateConsent == [writes |-> {"user"}, hits |-> {"user"}, token |-> TRUE]

\* Mutated form: the key of the list, and not its prefix.
UseMarkReadExactKey == [writes |-> {"notifications"}, hits |-> {"inbox"}, token |-> TRUE]

UseMarkRead == [writes |-> {"notifications"}, hits |-> {"inbox", "badge"}, token |-> TRUE]

\* It invalidates nothing, and signs out.
UseDeleteAccount == [writes |-> Resources \ {"bakers"}, hits |-> {}, token |-> TRUE]

MutationHooks ==
  {UseClaimReward, UseCreateDelegation, UseUpdateEmail, UseUpdatePreferences,
   UseUpdateConsent, UseMarkRead, UseDeleteAccount}

Empty == [data |-> Nothing, fetch |-> "idle", got |-> Nothing, auth |-> FALSE,
          tries |-> 0, invalid |-> FALSE, error |-> FALSE,
          late |-> FALSE]   \* history: invalidated, and the fetch not restarted

QueryInit ==
  /\ page \in Pages
  /\ ver = [r \in Resources |-> 0] /\ own = ver
  /\ cache = [k \in Keys |-> Empty] /\ mounted = {}
  /\ session = "good" /\ pending = Nil
  /\ mutations = 0 /\ failed = 0 /\ signIns = 0

-----------------------------------------------------------------------------
(* The life of an entry.                                                   *)

\* A fetch begins: queryFn calls apiGet with the token it was rendered with.
Asking(k, c, auth) ==
  [c EXCEPT !.fetch = "asked", !.got = Nothing, !.tries = 0, !.auth = auth,
            !.error = c.error /\ c.data # Nothing, !.late = FALSE]

\* stale: staleTime is over.
Wanted(c, stale) == c.fetch = "idle" /\ (c.data = Nothing \/ stale \/ c.invalid)

\* A component with the hook is rendered for the first time.
Mount(k) ==
  /\ k \in page \ mounted /\ mounted' = mounted \cup {k}
  /\ \E stale \in BOOLEAN :
       cache' = [cache EXCEPT ![k] = IF Enabled(k) /\ Wanted(@, stale)
                                       THEN Asking(k, @, Authorised(k)) ELSE @]
  /\ UNCHANGED <<page, ver, session, pending, own, mutations, failed, signIns>>

Unmount(k) ==
  /\ k \in mounted /\ mounted' = mounted \ {k}
  /\ UNCHANGED <<page, ver, cache, session, pending, own, mutations, failed, signIns>>

SetEntry(k, c) ==
  /\ cache' = [cache EXCEPT ![k] = c]
  /\ UNCHANGED <<page, ver, mounted, session, pending, own, mutations, signIns>>

\* gcTime is over.
Collect(k) ==
  /\ k \notin mounted /\ cache[k].fetch = "idle" /\ cache[k] # Empty
  /\ SetEntry(k, Empty) /\ UNCHANGED failed

Poll(k) ==
  /\ Hook(k).polls /\ Observed(k) /\ cache[k].fetch = "idle"
  /\ SetEntry(k, Asking(k, cache[k], Authorised(k))) /\ UNCHANGED failed

\* One of the queries that Promise.all of the list handler awaits.
Read(k, part) ==
  /\ cache[k].fetch = "asked" /\ cache[k].auth
  /\ part \in Reads(k) /\ cache[k].got[part] = Nil
  /\ SetEntry(k, [cache[k] EXCEPT !.got[part] = ver[Resource(k)]])
  /\ UNCHANGED failed

Answer(k) ==
  /\ cache[k].fetch = "asked" /\ \A p \in Reads(k) : cache[k].got[p] # Nil
  /\ SetEntry(k, [Empty EXCEPT !.data = cache[k].got, !.late = cache[k].late])
  /\ UNCHANGED failed

\* Mutated form: every failure is retried.
FailForever(k) ==
  /\ cache[k].fetch = "asked"
  /\ IF cache[k].auth THEN failed < MaxFailed /\ failed' = failed + 1 ELSE UNCHANGED failed
  /\ SetEntry(k, [cache[k] EXCEPT !.fetch = "paused", !.got = Nothing, !.tries = @ + 1])

\* request throws an ApiError, 401 among them, or fetch does.  retry: 1.
Fail(k) ==
  /\ cache[k].fetch = "asked"
  /\ IF cache[k].auth THEN failed < MaxFailed /\ failed' = failed + 1 ELSE UNCHANGED failed
  /\ SetEntry(k,
       IF cache[k].tries = 0
         THEN [cache[k] EXCEPT !.fetch = "paused", !.got = Nothing, !.tries = 1,
                               !.auth = FALSE]
         ELSE [Empty EXCEPT !.data = cache[k].data, !.invalid = TRUE, !.error = TRUE])

RetryAsk(k) ==
  /\ cache[k].fetch = "paused"
  /\ SetEntry(k, [cache[k] EXCEPT !.fetch = "asked", !.auth = Authorised(k)])
  /\ UNCHANGED failed

-----------------------------------------------------------------------------
(* Writes, and the session.                                                *)

OnPage == {Resource(k) : k \in page}
TotalWrites == MapThenSumSet(LAMBDA r : ver[r], OnPage)

\* Another device, the indexer or the API itself writes.
ForeignWrite(r) ==
  /\ TotalWrites < MaxWrites /\ ver' = [ver EXCEPT ![r] = @ + 1]
  /\ UNCHANGED <<page, cache, mounted, session, pending, own, mutations, failed, signIns>>

\* mutationFn: the API applies it.  m is a mutation hook.
Mutate(m) ==
  /\ pending = Nil /\ mutations < MaxMutations /\ mutations' = mutations + 1
  /\ m.writes \cap OnPage # {} /\ TotalWrites < MaxWrites
  /\ m.token => session = "good"
  /\ ver' = [r \in Resources |-> IF r \in m.writes THEN ver[r] + 1 ELSE ver[r]]
  /\ pending' = [m |-> m, at |-> ver']
  /\ UNCHANGED <<page, cache, mounted, session, own, failed, signIns>>

\* invalidateQueries: a fetch under way is started again, unless it is the
\* first one of its entry, or of an entry that no component observes.
Restartable(k) == Observed(k) /\ (cache[k].fetch = "idle" \/ cache[k].data # Nothing)

Invalidated(k) ==
  LET c == [cache[k] EXCEPT !.invalid = TRUE, !.late = cache[k].fetch # "idle"]
  IN  IF Restartable(k) THEN Asking(k, c, Authorised(k)) ELSE c

\* onSuccess.
MutationSucceeds ==
  /\ pending # Nil /\ pending' = Nil
  /\ LET hit == {k \in pending.m.hits : cache[k] # Empty}
     IN  /\ cache' = [k \in Keys |-> IF k \in hit THEN Invalidated(k) ELSE cache[k]]
  /\ IF pending.m = UseDeleteAccount
       THEN session' = "none" /\ UNCHANGED own
       ELSE /\ own' = [r \in Resources |-> IF r \in pending.m.writes
                                             THEN pending.at[r] ELSE own[r]]
            /\ UNCHANGED session
  /\ UNCHANGED <<page, ver, mounted, mutations, failed, signIns>>

\* The answer is lost: onSuccess is not called.
MutationLost ==
  /\ pending # Nil /\ failed < MaxFailed /\ failed' = failed + 1 /\ pending' = Nil
  /\ UNCHANGED <<page, ver, cache, mounted, session, own, mutations, signIns>>

\* A token in place of none enables the queries that need one.
BeginSession ==
  /\ session # "good" /\ signIns < MaxSignIns /\ signIns' = signIns + 1
  /\ session' = "good"
  /\ \E stale \in BOOLEAN :
       cache' = [k \in Keys |->
                 IF k \in mounted /\ ~Enabled(k) /\ Wanted(cache[k], stale)
                   THEN Asking(k, cache[k], TRUE) ELSE cache[k]]
  /\ UNCHANGED <<page, ver, mounted, pending, own, mutations, failed>>

\* Only the token goes: the cache stays, and an answer of 401 does not sign out.
EndSession ==
  /\ session' \in {"none", "expired"}
  /\ session = "good" \/ (session = "expired" /\ session' = "none")
  /\ UNCHANGED <<page, ver, cache, mounted, pending, own, mutations, failed, signIns>>

-----------------------------------------------------------------------------
FetchStep(k) == (\E p \in Reads(k) : Read(k, p)) \/ Answer(k) \/ Fail(k) \/ RetryAsk(k)

QueryNext ==
  \/ \E k \in Keys : \/ Mount(k) \/ Unmount(k) \/ Collect(k)
                     \/ Poll(k) \/ FetchStep(k)
  \/ \E r \in OnPage : ForeignWrite(r)
  \/ \E m \in MutationHooks : Mutate(m)
  \/ MutationSucceeds \/ MutationLost \/ BeginSession \/ EndSession

\* Requests end and timers fire; visitors do what they like.
QuerySpec == QueryInit /\ [][QueryNext]_queryVars
        /\ \A k \in Keys : WF_queryVars(FetchStep(k)) /\ WF_queryVars(Poll(k))

-----------------------------------------------------------------------------
(* Properties                                                              *)

\* What the pages render for an entry: error first, then isPending, then data.
Shown(k) == IF cache[k].error THEN "error"
            ELSE IF cache[k].data = Nothing THEN "loading" ELSE "data"

\* Every variable has its type; a request is tried at most twice.
QueryTypeOK ==
  LET Value == [Parts -> Nat \cup {Nil}]
  IN  /\ ver \in [Resources -> Nat] /\ own \in [Resources -> Nat]
      /\ cache \in [Keys -> [data : Value, fetch : {"idle", "asked", "paused"},
                             got : Value, auth : BOOLEAN, tries : 0..1,
                             invalid : BOOLEAN, error : BOOLEAN, late : BOOLEAN]]
      /\ page \in Pages /\ mounted \subseteq page
      /\ session \in {"none", "good", "expired"}
      /\ \A k \in Keys : cache[k].fetch = "paused" => cache[k].tries = 1

\* A visitor sees what he did: once a mutation has succeeded, an entry that is
\* at rest and not invalidated is not older, in its rows or in its total, even
\* if a request was under way at the time.  Those that invalidateQueries does
\* not restart, and the mutation that deletes the account, are excepted.
OwnWritesShown ==
  \A k \in Keys :
    ~cache[k].late /\ cache[k].data # Nothing /\ cache[k].fetch = "idle" /\ ~cache[k].invalid
      => \A p \in Reads(k) : cache[k].data[p] >= own[Resource(k)]

\* "The bell badge is allowed to refetch": while the visitor stays on the page
\* and signed in, it comes to show every write, its own or another's, through
\* failed requests and whichever fetch an invalidation missed.
BadgeCatchesUp ==
  <>[]("badge" \in mounted /\ session = "good")
    => <>[](Shown("badge") = "data" /\ cache["badge"].data.total = ver["notifications"])
=============================================================================
