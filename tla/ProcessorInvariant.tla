-------------------------- MODULE ProcessorInvariant --------------------------
(***************************************************************************)
(* The inductive invariant behind the safety properties of Processor: what *)
(* every step keeps true of the records a replica has in memory.           *)
(***************************************************************************)
EXTENDS Processor

\* The items in memory, in the order they will be committed.
Pipe(p) == batch[p] \o (chan[p] \o sending[p])

HasRecord(items, r) == \E k \in DOMAIN items : items[k].rec = r

Accounted(p, r) == Settled(r, events) \/ HasRecord(Pipe(p), r)

\* Everything before a record in the sequence is settled or further ahead.
Ordered(items) ==
    \A k \in DOMAIN items : \A i \in 1 .. items[k].rec[2] - 1 :
        \/ Settled(<<items[k].rec[1], i>>, events)
        \/ \E l \in 1 .. k - 1 : items[l].rec = <<items[k].rec[1], i>>

\* A replica that is down has nothing in memory.
DownIsEmpty(p) ==
    status[p] = "down" =>
        /\ ~ consuming[p] /\ held[p] = {} /\ stage[p] = "idle"
        /\ batch[p] = <<>> /\ chan[p] = <<>> /\ sending[p] = <<>>
        /\ \A q \in Partitions : iterPos[p][q] = iterEnd[p][q]

\* An item carries what its record decodes to.
ItemOK(x) ==
    /\ x.event = NoEvent => Poison(x.rec)
    /\ x.event # NoEvent => DecodesTo(x.rec, x.event)

ItemsOK(items) == \A k \in DOMAIN items : ItemOK(items[k])

\* Everything before the next record of the poll is settled or in memory.
IterCovered(p) ==
    consuming[p] => \A q \in Partitions : iterPos[p][q] < iterEnd[p][q] =>
        \A i \in 1 .. iterPos[p][q] : Accounted(p, <<q, i>>)

\* Everything before the client's position is settled, in memory or in the poll.
PositionCovered(p) ==
    consuming[p] => \A q \in held[p] : \A i \in 1 .. position[p][q] :
        Accounted(p, <<q, i>>) \/ i \in (iterPos[p][q] + 1) .. iterEnd[p][q]

\* How far a flush has got with the events of the batch.
StoredSoFar(p) ==
    /\ stage[p] = "copy" => at[p] = 1
    /\ stage[p] = "rowSummary" => batch[p][at[p]].event \in events
    /\ \A k \in DOMAIN batch[p] :
          \/ batch[p][k].event \in events \cup {NoEvent}
          \/ stage[p] \notin {"summaries", "commit", "row", "rowSummary"}
          \/ stage[p] \in {"row", "rowSummary"} /\ k >= at[p]

Covered(p) == Ordered(Pipe(p)) /\ IterCovered(p) /\ PositionCovered(p)

CommitInv ==
    /\ TypeOK
    /\ NoUnstoredCommit
    /\ \A q \in Partitions : committed[q] <= Len(Topic[q])
    /\ \A p \in Replicas :
          /\ DownIsEmpty(p)
          /\ ItemsOK(Pipe(p))
          /\ StoredSoFar(p)
          /\ stage[p] # "returned" => Covered(p)

\* The events of p's batch that are stored and still to be counted by p.
Pending(p, k) ==
    /\ k \in DOMAIN batch[p] /\ batch[p][k].event # NoEvent
    /\ \/ stage[p] = "summaries" /\ k >= at[p]
       \/ stage[p] = "rowSummary" /\ k = at[p]

\* Whoever stored an event is alone in counting it.
CountInv ==
    /\ CountedAtMostOnce
    /\ \A p \in Replicas : \A k \in DOMAIN batch[p] : Pending(p, k) =>
          /\ batch[p][k].event \in events /\ summary[batch[p][k].event] = 0
          /\ \A p2 \in Replicas : \A l \in DOMAIN batch[p2] :
                Pending(p2, l) /\ batch[p2][l].event = batch[p][k].event => p2 = p /\ l = k

\* The records of q up to which p has taken them into memory.
TakenUp(p, q) == IF iterPos[p][q] < iterEnd[p][q] THEN iterPos[p][q] ELSE position[p][q]

\* A partition's records lie in the sequence in the order of the log.
Increasing(items) ==
    \A k, l \in DOMAIN items :
        k < l /\ items[k].rec[1] = items[l].rec[1] => items[k].rec[2] < items[l].rec[2]

\* The client holds what the group gave it, and polls nothing else.
HoldsItsOwn(p) ==
    \A q \in Partitions :
        /\ q \in held[p] <=> owner[q] = p
        /\ iterPos[p][q] < iterEnd[p][q] => q \in held[p] /\ iterEnd[p][q] = position[p][q]
        /\ q \in held[p] => committed[q] <= TakenUp(p, q)

\* Of a partition that is p's own, p has in memory what lies between the
\* committed offset and what it has taken up.
AheadOfCommit(p, items) ==
    \A k \in DOMAIN items : LET r == items[k].rec IN
        owner[r[1]] = p /\ committed[r[1]] < r[2] /\ r[2] <= TakenUp(p, r[1])

\* While no partition is taken from a running replica, nobody has records of
\* another's partition, nor records that are committed, and everyone has its
\* records in order: the next commit can only be further on.
RewindInv ==
    rebalances = 0 => \A p \in Replicas :
        HoldsItsOwn(p) /\ Increasing(Pipe(p)) /\ AheadOfCommit(p, Pipe(p))
=============================================================================
