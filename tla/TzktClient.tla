----------------------------- MODULE TzktClient -----------------------------
(***************************************************************************)
(* TzktHttpClient.get: up to MaxRetries requests, each of them after the   *)
(* throttle, with a pause after most failures.  The syncs of the indexer   *)
(* wait for each other (IndexerMain.OneScanAtATime), so there is one call  *)
(* at a time and the wait queue of the throttle, pushed to only when it is *)
(* not empty, stays empty.  Time is counted in units; a timer that is due  *)
(* is served before time goes on.                                          *)
(***************************************************************************)
EXTENDS Naturals, Sequences

CONSTANTS ThrottleUnits,  \* units of time between two requests
          MaxRetries,
          Backoff,        \* units of each pause
          MaxBad          \* bound: bad answers of TzKT

ASSUME RetriesAssumption ==
  /\ MaxRetries \in Nat \ {0} /\ Backoff \in Seq(Nat) /\ ThrottleUnits \in Nat
  /\ MaxRetries <= Len(Backoff)

VARIABLES
  phase,      \* free, throttled, asked, backoff: what get is at
  attempt,    \* requests of this call so far
  timer,      \* units left of the timer it sleeps on
  since,      \* units since the last request, up to ThrottleUnits
  bad,        \* bad answers so far
  threw       \* calls that threw

clientVars == <<phase, attempt, timer, since, bad, threw>>

ClientInit ==
  /\ phase = "free" /\ attempt = 0 /\ timer = 0 /\ since = ThrottleUnits
  /\ bad = 0 /\ threw = 0

\* Mutated form: the throttle forgets the requests of earlier calls.
ThrottleNow == 0

\* throttleMs - elapsed.
Throttle == IF since >= ThrottleUnits THEN 0 ELSE ThrottleUnits - since

CallGet ==
  /\ phase = "free" /\ phase' = "throttled"
  /\ attempt' = 0 /\ timer' = Throttle
  /\ UNCHANGED <<since, bad, threw>>

Ask ==
  /\ phase = "throttled" /\ timer = 0 /\ phase' = "asked"
  /\ attempt' = attempt + 1 /\ since' = 0
  /\ UNCHANGED <<timer, bad, threw>>

AnswerOk ==
  /\ phase = "asked" /\ phase' = "free"
  /\ UNCHANGED <<attempt, timer, since, bad, threw>>

CountBad == bad < MaxBad /\ bad' = bad + 1

\* 429 or 5xx: a pause, after the last attempt too.
AnswerBusy ==
  /\ phase = "asked" /\ CountBad
  /\ phase' = "backoff" /\ timer' = Backoff[attempt]
  /\ UNCHANGED <<attempt, since, threw>>

\* The for loop is left without an answer: lastErr is thrown.
Throw == phase' = "free" /\ threw' = threw + 1

\* Mutated form: an answer that is not ok is thrown at once, as 4xx reads.
AnswerRefusedThrows ==
  /\ phase = "asked" /\ CountBad
  /\ Throw /\ UNCHANGED <<attempt, timer, since>>

\* No answer, one that does not parse, or 4xx, which is thrown inside the try
\* and retried by its own catch: a pause unless this was the last attempt.
AnswerRefused ==
  /\ phase = "asked" /\ CountBad
  /\ \/ /\ attempt < MaxRetries /\ UNCHANGED threw
        /\ phase' = "backoff" /\ timer' = Backoff[attempt]
     \/ attempt = MaxRetries /\ Throw /\ UNCHANGED timer
  /\ UNCHANGED <<attempt, since>>

\* The pause is over: the next attempt, or the end of the loop.
Retry ==
  /\ phase = "backoff" /\ timer = 0
  /\ \/ /\ attempt < MaxRetries /\ UNCHANGED threw
        /\ phase' = "throttled" /\ timer' = Throttle
     \/ attempt = MaxRetries /\ Throw /\ UNCHANGED timer
  /\ UNCHANGED <<attempt, since, bad>>

\* Time passes, in the sleep of the tick loop as in a call.
TimePasses ==
  /\ since < ThrottleUnits \/ timer > 0
  /\ phase \in {"throttled", "backoff"} => timer > 0
  /\ since' = IF since < ThrottleUnits THEN since + 1 ELSE since
  /\ timer' = IF timer > 0 THEN timer - 1 ELSE 0
  /\ UNCHANGED <<phase, attempt, bad, threw>>

\* The steps of a call that end neither it nor the loop.
ClientStep == Ask \/ AnswerBusy \/ (AnswerRefused /\ phase' # "free")
              \/ (Retry /\ phase' # "free")
ClientThrow == (AnswerRefused \/ Retry) /\ phase' = "free"

-----------------------------------------------------------------------------
(* Properties                                                              *)

ClientTypeOK ==
  /\ phase \in {"free", "throttled", "asked", "backoff"}
  /\ attempt \in 0..MaxRetries /\ timer \in Nat /\ since \in 0..ThrottleUnits
  /\ bad \in Nat /\ threw \in Nat

\* "10 req/s throttle": whether it is a retry or another call, a request goes
\* out at least ThrottleUnits after the one before.
RequestsAreSpaced ==
  [][phase # "asked" /\ phase' = "asked" => since = ThrottleUnits]_clientVars

\* "We wait and retry; if it keeps failing the caller logs and moves on": a
\* failure of fewer than MaxRetries answers in a row costs no sync its run.
ShortOutagesAreAbsorbed == threw * MaxRetries <= bad
=============================================================================
