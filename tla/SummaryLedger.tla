---------------------------- MODULE SummaryLedger ----------------------------
(***************************************************************************)
(* What updateSummary promises: each call counts its event in one step or  *)
(* not at all; a call that succeeds has counted, a call that fails may     *)
(* have.                                                                   *)
(***************************************************************************)
EXTENDS SummaryRows

VARIABLES
    rows,     \* rows[b]: the row of bucket b
    outcome   \* outcome[e]: "pending", or how the call for e ended

Init ==
    /\ rows = [b \in Buckets |-> NoRow]
    /\ outcome = [e \in Events |-> "pending"]

Count(e) ==
    /\ outcome[e] = "pending"
    /\ \E result \in {"ok", "error"} : outcome' = [outcome EXCEPT ![e] = result]
    /\ \/ /\ rows[BucketOf(e)] = NoRow
          /\ rows' = [rows EXCEPT ![BucketOf(e)] = FirstRow(e)]
       \/ /\ rows[BucketOf(e)] # NoRow
          /\ \E row \in WithEvent(rows[BucketOf(e)], e) :
                rows' = [rows EXCEPT ![BucketOf(e)] = row]

Drop(e) ==
    /\ outcome[e] = "pending"
    /\ outcome' = [outcome EXCEPT ![e] = "error"]
    /\ UNCHANGED rows

Next == \E e \in Events : Count(e) \/ Drop(e)

Spec == Init /\ [][Next]_<<rows, outcome>>
=============================================================================
