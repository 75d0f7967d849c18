-------------------------- MODULE DelegationLedger --------------------------
(***************************************************************************)
(* What the API promises of a delegation row, without any scan: a row is   *)
(* posted PENDING by a registered wallet, an opsHash has one row at a      *)
(* time, a row leaves PENDING at most once and in one step, to what the    *)
(* chain says of its operation and never to anything else, and it          *)
(* disappears only with every other row of its wallet.                     *)
(***************************************************************************)
EXTENDS Naturals

CONSTANTS Wallet, Hash, NoRow, Unknown,
          Id      \* the ids that rows are given, a set of numbers

VARIABLES fate,    \* what the chain says of each operation, or Unknown
          users,   \* the registered wallets
          rows     \* the row of each opsHash, or NoRow

vars == <<fate, users, rows>>

Fate == [status: {"CONFIRMED", "FAILED"}, level: Nat]

Init == /\ fate = [h \in Hash |-> Unknown]
        /\ users = {}
        /\ rows = [h \in Hash |-> NoRow]

\* The chain decides the fate of more operations, and revises none.
Decide == /\ fate' \in [Hash -> Fate \cup {Unknown}]
          /\ \A h \in Hash : fate[h] # Unknown => fate'[h] = fate[h]
          /\ UNCHANGED <<users, rows>>

Register(w) == users' = users \cup {w} /\ UNCHANGED <<fate, rows>>

\* Mentions the id only to say that the row is a new one.
Post(w, h, id) ==
  /\ w \in users /\ rows[h] = NoRow
  /\ \A g \in Hash : rows[g] # NoRow => rows[g].id < id
  /\ rows' = [rows EXCEPT ![h] = [id |-> id, wallet |-> w, status |-> "PENDING",
                                  blockLevel |-> 0]]
  /\ UNCHANGED <<fate, users>>

Resolve(h) ==
  /\ rows[h] # NoRow /\ rows[h].status = "PENDING" /\ fate[h] # Unknown
  /\ rows' = [rows EXCEPT ![h].status = fate[h].status,
                          ![h].blockLevel = fate[h].level]
  /\ UNCHANGED <<fate, users>>

Delete(w) ==
  /\ w \in users /\ users' = users \ {w}
  /\ rows' = [h \in Hash |->
                IF rows[h] # NoRow /\ rows[h].wallet = w THEN NoRow ELSE rows[h]]
  /\ UNCHANGED fate

Next == \/ Decide
        \/ \E w \in Wallet : Register(w) \/ Delete(w)
        \/ \E w \in Wallet, h \in Hash, id \in Id : Post(w, h, id)
        \/ \E h \in Hash : Resolve(h)

Spec == Init /\ [][Next]_vars
=============================================================================
