----------------------------- MODULE EventStore -----------------------------
(***************************************************************************)
(* What processor-svc promises of its durable state, with no replica,      *)
(* channel or batch in sight: an event row is stored once and for good, it *)
(* is counted in its summary at most once and only when stored, and a      *)
(* committed offset never covers a record that still has to be stored.     *)
(* Committed offsets may go back (records are then delivered again).       *)
(***************************************************************************)
EXTENDS EventTopic

VARIABLES
    events,     \* the rows of table events, by primary key
    summary,    \* summary[e]: how often event_summaries counts event e
    committed   \* committed[q]: the group's committed offset on partition q

storeVars == <<events, summary, committed>>

Init ==
    /\ events = {}
    /\ summary = [e \in EventIds |-> 0]
    /\ committed = [q \in Partitions |-> 0]

\* New rows appear; a stored event is never stored again.
Store ==
    /\ \E new \in SUBSET (EventIds \ events) : events' = events \cup new
    /\ UNCHANGED <<summary, committed>>

\* A stored event that has not been counted is counted.
Count ==
    /\ \E e \in events :
          /\ summary[e] = 0
          /\ summary' = [summary EXCEPT ![e] = 1]
    /\ UNCHANGED <<events, committed>>

\* Offsets move, onto positions whose records are all settled.
Commit ==
    /\ committed' \in [Partitions -> Nat]
    /\ \A q \in Partitions : \A i \in 1 .. committed'[q] :
          <<q, i>> \in Records /\ Settled(<<q, i>>, events)
    /\ UNCHANGED <<events, summary>>

Next == Store \/ Count \/ Commit

Spec == Init /\ [][Next]_storeVars
=============================================================================
