---------------------------- MODULE BakerListing ----------------------------
(***************************************************************************)
(* GET /api/bakers and /api/bakers/:pkh over the table that BakerSync      *)
(* fills: what a visitor of the site is shown of the chain's delegates.    *)
(* A list is one read of the table, its total another one.                 *)
(***************************************************************************)
EXTENDS BakerSync

CONSTANT Limit   \* the limit of the request

\* limit is clamped to 1..100.
Clamped == IF Limit < 1 THEN 1 ELSE IF Limit > 100 THEN 100 ELSE Limit

\* Mutated form: the status the other tables would have.
VisibleOldStatus == {b \in Baker : table[b] # NoRow /\ table[b].status = "ACTIVE"}

\* where: { status: { not: 'closed' } }
Visible == {b \in Baker : table[b] # NoRow /\ table[b].status # "closed"}

\* What findMany may answer, ordered by fee: ties come in any order.
ListBakers ==
  LET n == IF Cardinality(Visible) < Clamped THEN Cardinality(Visible) ELSE Clamped
      cheapest(S) == \A b \in S, c \in Visible \ S : table[b].fee <= table[c].fee
  IN  UNION {{s \in SetToSeqs(S) : \A i, j \in DOMAIN s :
                                     i < j => table[s[i]].fee <= table[s[j]].fee} :
               S \in {T \in SUBSET Visible : Cardinality(T) = n /\ cheapest(T)}}

\* getByPkh: any row, closed or not; NoRow is the 404.
GetByPkh(b) == table[b]

-----------------------------------------------------------------------------
(* Properties                                                              *)

\* Every delegate is in the one page that is asked for, and every fee fits its
\* column: a run whose answers are good writes every row.
AllFit == /\ Cardinality(Active) <= SnapshotLimit
          /\ \A b \in Active : Fits(chain[b].fee)

IsCurrent(b) == GetByPkh(b) = [status |-> "active", fee |-> chain[b].fee]

IsListed(b) == \A answer \in ListBakers : \E i \in DOMAIN answer : answer[i] = b

\* "We upsert by pkh so baker metadata stays current": when the chain rests,
\* its active delegates fit one page and every fee fits its column, each of
\* them comes to be shown as it is, whatever older snapshot was being written
\* and however often TzKT failed before.  It is in the list too, unless more
\* bakers are visible, the closed ones that still have an active row included,
\* than the request's limit admits: there is no second page of the list.
ActiveBakersListed ==
  \A b \in Baker :
    /\ <>[](chain[b].active /\ AllFit) => <>[]IsCurrent(b)
    /\ <>[](chain[b].active /\ AllFit /\ Cardinality(Visible) <= Clamped)
         => <>[]IsListed(b)
=============================================================================
