------------------------- MODULE ProcessorStoreProofs -------------------------
(***************************************************************************)
(* Processor implements EventStore: seen through the rows, the counts and  *)
(* the offsets alone, every step of the replicas stores new rows, counts a *)
(* stored event once, moves offsets onto settled records, or does nothing. *)
(* That an event is counted once only, and when it is stored, is CountInv: *)
(* a step of a replica makes events pending only by storing them, which    *)
(* nobody had done before; it counts only its own pending events, and      *)
(* strikes each of them off as it does.                                    *)
(***************************************************************************)
EXTENDS ProcessorCommitProofs

\* p2's flush is where it was.
Resting(p2) == batch'[p2] = batch[p2] /\ stage'[p2] = stage[p2] /\ at'[p2] = at[p2]

LEMMA RestingPending ==
    ASSUME NEW p \in Replicas, Resting(p), NEW k, Pending(p, k)'
    PROVE  Pending(p, k) /\ batch'[p][k] = batch[p][k]
  BY DEF Resting, Pending

\* What CountInv says of a pending event, and of two.
LEMMA PendingFacts ==
    ASSUME TypeOK, CountInv, NEW p \in Replicas, NEW k, Pending(p, k)
    PROVE  /\ batch[p][k].event \in events /\ batch[p][k].event \in EventIds
           /\ summary[batch[p][k].event] = 0
           /\ \A p2 \in Replicas : \A l : Pending(p2, l) /\ batch[p2][l].event = batch[p][k].event
                => p2 = p /\ l = k
  <1>1. k \in DOMAIN batch[p]
    BY DEF Pending
  <1>2. batch[p][k].event \in events /\ summary[batch[p][k].event] = 0
    BY <1>1 DEF CountInv
  <1>3. ASSUME NEW p2 \in Replicas, NEW l, Pending(p2, l),
               batch[p2][l].event = batch[p][k].event
        PROVE  p2 = p /\ l = k
    <2>1. l \in DOMAIN batch[p2]
      BY <1>3 DEF Pending
    <2> QED BY <1>1, <1>3, <2>1 DEF CountInv
  <1> QED BY <1>2, <1>3 DEF TypeOK

\* The counterpart for a state that is to be shown to satisfy CountInv.
LEMMA CountInvPrime ==
    ASSUME CountedAtMostOnce',
           \A p \in Replicas : \A k : Pending(p, k)' =>
               batch'[p][k].event \in events' /\ summary'[batch'[p][k].event] = 0,
           \A p, p2 \in Replicas : \A k, l :
               Pending(p, k)' /\ Pending(p2, l)' /\ batch'[p2][l].event = batch'[p][k].event
                 => p2 = p /\ l = k
    PROVE  CountInv'
  BY DEF CountInv

\* A step that stores at most, and makes no event of a batch pending.
LEMMA CountKept ==
    ASSUME TypeOK, CountInv, NEW p \in Replicas,
           summary' = summary, events \subseteq events',
           \A p2 \in Replicas \ {p} : Resting(p2),
           \A k : Pending(p, k)' => Pending(p, k) /\ batch'[p][k] = batch[p][k]
    PROVE  CountInv'
  <1>1. ASSUME NEW p2 \in Replicas, NEW k, Pending(p2, k)'
        PROVE  Pending(p2, k) /\ batch'[p2][k] = batch[p2][k]
    BY <1>1, RestingPending
  <1>2. CountedAtMostOnce'
    BY DEF CountInv, CountedAtMostOnce, TypeOK
  <1>3. ASSUME NEW p2 \in Replicas, NEW k, Pending(p2, k)'
        PROVE  batch'[p2][k].event \in events' /\ summary'[batch'[p2][k].event] = 0
    BY <1>1, <1>3, PendingFacts
  <1>4. ASSUME NEW p1 \in Replicas, NEW p2 \in Replicas, NEW k, NEW l,
               Pending(p1, k)', Pending(p2, l)', batch'[p2][l].event = batch'[p1][k].event
        PROVE  p2 = p1 /\ l = k
    BY <1>1, <1>4, PendingFacts
  <1> QED BY <1>2, <1>3, <1>4, CountInvPrime

\* A step that leaves processBatches alone.
LEMMA CountFrame ==
    ASSUME TypeOK, CountInv, UNCHANGED <<events, summary, flusher>>
    PROVE  CountInv'
  <1>1. summary' = summary /\ events' = events /\ \A p \in Replicas : Resting(p)
    BY DEF flusher, Resting
  <1>2. CASE Replicas = {}
    BY <1>1, <1>2 DEF CountInv, CountedAtMostOnce
  <1>3. CASE Replicas # {}
    <2> PICK p \in Replicas : TRUE
      BY <1>3
    <2> QED BY <1>1, CountKept, RestingPending
  <1> QED BY <1>2, <1>3

\* A step after which p has nothing pending.
LEMMA CountIdle ==
    ASSUME TypeOK, CountInv, NEW p \in Replicas,
           summary' = summary, events \subseteq events',
           \A p2 \in Replicas \ {p} : Resting(p2),
           stage'[p] \notin {"summaries", "rowSummary"}
    PROVE  CountInv'
  BY CountKept DEF Pending

-----------------------------------------------------------------------------
LEMMA CountInit == Init => CountInv
  BY DEF Init, CountInv, CountedAtMostOnce, Pending

LEMMA CountProcess ==
    ASSUME TypeOK, CountInv, NEW p \in Replicas, Process(p)
    PROVE  CountInv'
  <1>1. CASE Start(p) \/ Stop(p)
    BY <1>1, CountFrame DEF Start, Stop, durable, flusher
  <1>2. CASE Vanish(p)
    <2>1. summary' = summary /\ events' = events /\ stage'[p] = "idle"
      BY <1>2 DEF Vanish, durable, TypeOK
    <2>2. \A p2 \in Replicas \ {p} : Resting(p2)
      BY <1>2 DEF Vanish, TypeOK, Resting
    <2> QED BY <2>1, <2>2, CountIdle
  <1> QED BY <1>1, <1>2 DEF Process, Exit, Crash

LEMMA CountOutside ==
    ASSUME TypeOK, CountInv, NEW p \in Replicas,
           Rebalance(p) \/ Consume(p) \/ DlqAck(p) \/ DlqFail(p)
    PROVE  CountInv'
  <1>1. CASE Rebalance(p)
    BY <1>1, CountFrame DEF Rebalance, Assign, Expire, Lost, Revoke, durable, flusher
  <1>2. CASE Consume(p)
    BY <1>2, CountFrame DEF Consume, Poll, Decode, Send, Quit, durable, flusher
  <1>3. CASE DlqAck(p) \/ DlqFail(p)
    BY <1>3, CountFrame DEF DlqAck, DlqFail, durable, flusher
  <1> QED BY <1>1, <1>2, <1>3

\* The steps of processBatches that neither store, apart from failing calls,
\* nor count.
LEMMA CountCollect ==
    ASSUME TypeOK, CountInv, NEW p \in Replicas,
           Receive(p) \/ Tick(p) \/ Drain(p) \/ CopyError(p) \/ RowError(p) \/ Commit(p)
    PROVE  CountInv'
  <1>1. \A p2 \in Replicas \ {p} : Resting(p2)
    BY DEF Receive, Tick, Drain, CopyError, RowError, Commit, flusher, TypeOK, Resting
  <1>2. summary' = summary /\ events \subseteq events'
    BY DEF Receive, Tick, Drain, CopyError, RowError, Commit, durable
  <1>3. stage'[p] \notin {"summaries", "rowSummary"}
    BY DEF Receive, Tick, Drain, CopyError, RowError, Commit, FlushStage, TypeOK
  <1> QED BY <1>1, <1>2, <1>3, CountIdle

\* After a step of a loop what was pending and not yet reached still is.
LEMMA AdvancePending ==
    ASSUME TypeOK, NEW p \in Replicas, NEW loop \in {"summaries", "row"},
           Writing(p), loop = "summaries" <=> stage[p] = "summaries",
           batch' = batch, Advance(p, at[p], loop)
    PROVE  /\ \A p2 \in Replicas \ {p} : Resting(p2)
           /\ \A k : Pending(p, k)' => Pending(p, k) /\ batch'[p][k] = batch[p][k] /\ k # at[p]
  <1>1. /\ stage'[p] = IF at[p] < Len(batch[p]) THEN loop ELSE "commit"
        /\ at'[p] = IF at[p] < Len(batch[p]) THEN at[p] + 1 ELSE 1
        /\ \A p2 \in Replicas \ {p} : Resting(p2)
    BY DEF Advance, TypeOK, Resting
  <1>2. at[p] \in Nat /\ DOMAIN batch[p] = 1 .. Len(batch[p])
    BY BatchTyped
  <1>3. ASSUME NEW k, Pending(p, k)'
        PROVE  Pending(p, k) /\ batch'[p][k] = batch[p][k] /\ k # at[p]
    <2>1. stage'[p] = "summaries" /\ stage[p] = "summaries" /\ at'[p] = at[p] + 1
      BY <1>1, <1>3 DEF Pending
    <2>2. k \in DOMAIN batch[p] /\ batch[p][k].event # NoEvent /\ k >= at[p] + 1
      BY <1>3, <2>1 DEF Pending
    <2>3. k \in Nat
      BY <1>2, <2>2
    <2> QED BY <1>2, <2>1, <2>2, <2>3 DEF Pending
  <1> QED BY <1>1, <1>3
LEMMA CountSkip ==
    ASSUME TypeOK, CountInv, NEW p \in Replicas, Skip(p) \/ RowConflict(p)
    PROVE  CountInv'
  <1>1. summary' = summary /\ events' = events /\ batch' = batch
    BY DEF Skip, RowConflict, durable
  <1>2. /\ Writing(p)
        /\ \/ stage[p] = "summaries" /\ Advance(p, at[p], "summaries")
           \/ stage[p] = "row" /\ Advance(p, at[p], "row")
    BY DEF Skip, RowConflict, Writing
  <1>3. /\ \A p2 \in Replicas \ {p} : Resting(p2)
        /\ \A k : Pending(p, k)' => Pending(p, k) /\ batch'[p][k] = batch[p][k]
    BY <1>1, <1>2, AdvancePending
  <1> QED BY <1>1, <1>3, CountKept

\* The one step that counts: the event at hand is p's alone, was not counted
\* yet, and is no longer pending afterwards.
LEMMA CountCounts ==
    ASSUME TypeOK, CountInv, NEW p \in Replicas, CountEvent(p)
    PROVE  CountInv'
  <1> DEFINE e == batch[p][at[p]].event
  <1>1. /\ events' = events /\ batch' = batch /\ Writing(p)
        /\ \/ stage[p] = "summaries" /\ Advance(p, at[p], "summaries")
           \/ stage[p] = "rowSummary" /\ Advance(p, at[p], "row")
        /\ summary' = summary \/ summary' = [summary EXCEPT ![e] = @ + 1]
        /\ e # NoEvent
    BY DEF CountEvent, Writing
  <1>2. /\ \A p2 \in Replicas \ {p} : Resting(p2)
        /\ \A k : Pending(p, k)' => Pending(p, k) /\ batch'[p][k] = batch[p][k] /\ k # at[p]
    BY <1>1, AdvancePending
  <1>3. Pending(p, at[p])
    <2>1. at[p] \in DOMAIN batch[p] /\ at[p] >= at[p]
      BY <1>1, BatchTyped DEF TypeOK
    <2> QED BY <1>1, <2>1 DEF Pending
  <1>4. /\ e \in events /\ e \in EventIds /\ summary[e] = 0
        /\ \A p2 \in Replicas : \A l : Pending(p2, l) /\ batch[p2][l].event = e
              => p2 = p /\ l = at[p]
    BY <1>3, PendingFacts
  <1> HIDE DEF e
  <1>5. CASE summary' = summary
    BY <1>1, <1>2, <1>5, CountKept
  <1>6. CASE summary' = [summary EXCEPT ![e] = @ + 1]
    <2>1. /\ summary'[e] = 1
          /\ \A d \in EventIds : d # e => summary'[d] = summary[d]
      BY <1>4, <1>6 DEF TypeOK
    <2>2. CountedAtMostOnce'
      BY <1>1, <1>4, <2>1 DEF CountInv, CountedAtMostOnce
    <2>3. ASSUME NEW p2 \in Replicas, NEW k, Pending(p2, k)'
          PROVE  /\ Pending(p2, k) /\ batch'[p2][k] = batch[p2][k]
                 /\ batch[p2][k].event # e
      <3>1. CASE p2 = p
        BY <1>2, <1>4, <2>3, <3>1
      <3>2. CASE p2 # p
        <4>1. Pending(p2, k) /\ batch'[p2][k] = batch[p2][k]
          BY <1>2, <2>3, <3>2, RestingPending
        <4> QED BY <1>4, <3>2, <4>1
      <3> QED BY <3>1, <3>2
    <2>4. ASSUME NEW p2 \in Replicas, NEW k, Pending(p2, k)'
          PROVE  batch'[p2][k].event \in events' /\ summary'[batch'[p2][k].event] = 0
      BY <1>1, <2>1, <2>3, <2>4, PendingFacts
    <2>5. ASSUME NEW p1 \in Replicas, NEW p2 \in Replicas, NEW k, NEW l,
                 Pending(p1, k)', Pending(p2, l)', batch'[p2][l].event = batch'[p1][k].event
          PROVE  p2 = p1 /\ l = k
      BY <2>3, <2>5, PendingFacts
    <2> QED BY <2>2, <2>4, <2>5, CountInvPrime
  <1> QED BY <1>1, <1>5, <1>6

\* A step that stores: what p has pending after it is new in the table, so
\* nobody has counted it and nobody else has it pending.
LEMMA CountStores ==
    ASSUME TypeOK, CountInv, NEW p \in Replicas,
           summary' = summary, events \subseteq events',
           \A p2 \in Replicas \ {p} : Resting(p2),
           \A k : Pending(p, k)' =>
               batch'[p][k].event \in EventIds /\ batch'[p][k].event \in events' \ events,
           \A k, l : Pending(p, k)' /\ Pending(p, l)' /\ batch'[p][k].event = batch'[p][l].event
               => k = l
    PROVE  CountInv'
  <1>1. ASSUME NEW e \in EventIds, e \notin events PROVE summary[e] = 0
    BY <1>1 DEF CountInv, CountedAtMostOnce, TypeOK
  <1>2. ASSUME NEW p2 \in Replicas, p2 # p, NEW k, Pending(p2, k)'
        PROVE  /\ Pending(p2, k) /\ batch'[p2][k] = batch[p2][k]
               /\ batch'[p2][k].event \in events
    <2>1. Pending(p2, k) /\ batch'[p2][k] = batch[p2][k]
      BY <1>2, RestingPending
    <2> QED BY <2>1, PendingFacts
  <1>3. CountedAtMostOnce'
    BY DEF CountInv, CountedAtMostOnce, TypeOK
  <1>4. ASSUME NEW p2 \in Replicas, NEW k, Pending(p2, k)'
        PROVE  batch'[p2][k].event \in events' /\ summary'[batch'[p2][k].event] = 0
    <2>1. CASE p2 = p
      BY <1>1, <1>4, <2>1
    <2>2. CASE p2 # p
      BY <1>2, <1>4, <2>2, PendingFacts
    <2> QED BY <2>1, <2>2
  <1>5. ASSUME NEW p1 \in Replicas, NEW p2 \in Replicas, NEW k, NEW l,
               Pending(p1, k)', Pending(p2, l)', batch'[p2][l].event = batch'[p1][k].event
        PROVE  p2 = p1 /\ l = k
    <2>1. CASE p1 # p /\ p2 # p
      BY <1>2, <1>5, <2>1, PendingFacts
    <2>2. CASE p1 = p /\ p2 = p
      BY <1>5, <2>2
    <2>3. CASE p1 # p /\ p2 = p
      BY <1>2, <1>5, <2>3
    <2>4. CASE p1 = p /\ p2 # p
      BY <1>2, <1>5, <2>4
    <2> QED BY <2>1, <2>2, <2>3, <2>4
  <1> QED BY <1>3, <1>4, <1>5, CountInvPrime

LEMMA CountCopy ==
    ASSUME TypeOK, CountInv, NEW p \in Replicas, Copy(p)
    PROVE  CountInv'
  <1>1. /\ summary' = summary /\ batch' = batch /\ events' = events \cup EventsOf(batch[p])
        /\ Copyable(batch[p]) /\ \A p2 \in Replicas \ {p} : Resting(p2)
    BY DEF Copy, TypeOK, Resting
  <1>2. ASSUME NEW k, Pending(p, k)'
        PROVE  /\ k \in DOMAIN batch[p] /\ batch[p][k].event # NoEvent
               /\ batch[p][k].event \in EventIds
               /\ batch[p][k].event \in events' \ events
    <2>1. k \in DOMAIN batch[p] /\ batch[p][k].event # NoEvent
      BY <1>1, <1>2 DEF Pending
    <2>2. batch[p][k].event \in EventIds
      BY <2>1, BatchTyped DEF Items
    <2>3. batch[p][k].event \in EventsOf(batch[p])
      BY <2>1 DEF EventsOf, RangeOf
    <2>4. batch[p][k].event \notin events
      BY <1>1, <2>1 DEF Copyable
    <2> QED BY <1>1, <2>1, <2>2, <2>3, <2>4
  <1>3. ASSUME NEW k, NEW l, Pending(p, k)', Pending(p, l)',
               batch'[p][k].event = batch'[p][l].event
        PROVE  k = l
    BY <1>1, <1>2, <1>3 DEF Copyable
  <1> QED BY <1>1, <1>2, <1>3, CountStores

LEMMA CountInsert ==
    ASSUME TypeOK, CountInv, NEW p \in Replicas, InsertRow(p)
    PROVE  CountInv'
  <1> DEFINE e == batch[p][at[p]].event
  <1>1. /\ summary' = summary /\ batch' = batch /\ events' = events \cup {e}
        /\ e \notin events /\ e # NoEvent
        /\ stage[p] = "row" /\ stage'[p] = "rowSummary" /\ at'[p] = at[p]
        /\ \A p2 \in Replicas \ {p} : Resting(p2)
    BY DEF InsertRow, TypeOK, Resting
  <1>2. e \in EventIds
    <2>1. at[p] \in DOMAIN batch[p]
      BY <1>1 DEF TypeOK, Writing
    <2> QED BY <1>1, <2>1, BatchTyped DEF Items
  <1>3. ASSUME NEW k, Pending(p, k)' PROVE k = at[p]
    BY <1>1, <1>3 DEF Pending
  <1> QED BY <1>1, <1>2, <1>3, CountStores

LEMMA CountNext == TypeOK /\ CountInv /\ [Next]_vars => CountInv'
  <1> SUFFICES ASSUME TypeOK, CountInv, [Next]_vars PROVE CountInv'
    OBVIOUS
  <1>1. CASE UNCHANGED vars
    BY <1>1, CountFrame DEF vars, durable
  <1>2. CASE Next
    <2> PICK p \in Replicas :
          Process(p) \/ Rebalance(p) \/ Consume(p) \/ DlqAck(p) \/ DlqFail(p) \/ ProcessBatches(p)
      BY <1>2 DEF Next
    <2>1. CASE ProcessBatches(p)
      BY <2>1, CountCollect, CountSkip, CountCounts, CountCopy, CountInsert
         DEF ProcessBatches, Flush
    <2> QED BY <2>1, CountProcess, CountOutside
  <1> QED BY <1>1, <1>2

\* Whoever stores an event, by CopyFrom or by its own INSERT, is alone in
\* counting it: an event that is stored and still to be counted is so in one
\* place of one replica's batch.
THEOREM CountInvariant == Spec => []CountInv
  BY CountInit, CountNext, TypeCorrect, PTL DEF Spec

\* event_summaries never counts an event twice, nor one that is not stored,
\* however batches are retried and whichever replicas meet on an event.
THEOREM NothingCountedTwice == Spec => []CountedAtMostOnce
  <1>1. CountInv => CountedAtMostOnce
    BY DEF CountInv
  <1> QED BY <1>1, CountInvariant, PTL

-----------------------------------------------------------------------------
(* The refinement.                                                           *)

\* The abstract store speaks of the same topic.
LEMMA SameTopic ==
    /\ Store!Records = Records
    /\ Store!EventIds = EventIds
    /\ \A r, S : Store!Settled(r, S) <=> Settled(r, S)
  <1>1. Store!Records = Records
    BY DEF Store!Records, Records
  <1>2. Store!EventIds = EventIds
    BY <1>1 DEF Store!EventIds, EventIds
  <1>3. \A r, S : Store!Settled(r, S) <=> Settled(r, S)
    BY DEF Store!Settled, Settled, Store!Poison, Poison, Store!DecodesTo, DecodesTo, Store!Message, Message
  <1> QED BY <1>1, <1>2, <1>3

\* A step that only adds rows.
LEMMA StepStores ==
    ASSUME TypeOK', events \subseteq events', UNCHANGED <<summary, committed>>
    PROVE  Store!Store
  <1>1. events' \ events \in SUBSET (EventIds \ events)
    BY DEF TypeOK
  <1>2. events' = events \cup (events' \ events)
    OBVIOUS
  <1> QED BY <1>1, <1>2, SameTopic DEF Store!Store

\* A step that only moves offsets.
LEMMA StepCommits ==
    ASSUME CommitInv', UNCHANGED <<events, summary>>
    PROVE  Store!Commit
  <1>1. committed' \in [Partitions -> Nat]
    BY DEF CommitInv, TypeOK
  <1>2. ASSUME NEW q \in Partitions, NEW i \in 1 .. committed'[q]
        PROVE  <<q, i>> \in Records /\ Settled(<<q, i>>, events)
    <2>1. Settled(<<q, i>>, events)
      BY DEF CommitInv, NoUnstoredCommit
    <2>2. committed'[q] <= Len(Topic[q]) /\ committed'[q] \in Nat
      BY <1>1 DEF CommitInv
    <2>3. i \in 1 .. Len(Topic[q])
      BY <2>2, TopicLength
    <2> QED BY <2>1, <2>3, RecordsAre
  <1> QED BY <1>1, <1>2, SameTopic DEF Store!Commit

\* CountEvent counts a pending event, which is stored and was not counted.
LEMMA StepCounts ==
    ASSUME TypeOK, CountInv, NEW p \in Replicas, CountEvent(p)
    PROVE  Store!Count \/ UNCHANGED durable
  <1> DEFINE e == batch[p][at[p]].event
  <1>1. /\ UNCHANGED <<events, committed>>
        /\ summary' = summary \/ summary' = [summary EXCEPT ![e] = @ + 1]
        /\ stage[p] \in {"summaries", "rowSummary"} /\ e # NoEvent
    BY DEF CountEvent
  <1>2. Pending(p, at[p])
    <2>1. at[p] \in DOMAIN batch[p] /\ at[p] >= at[p]
      BY <1>1, BatchTyped DEF TypeOK, Writing
    <2> QED BY <1>1, <2>1 DEF Pending
  <1>3. e \in events /\ e \in EventIds /\ summary[e] = 0
    BY <1>2, PendingFacts
  <1> HIDE DEF e
  <1>4. CASE summary' = summary
    BY <1>1, <1>4 DEF durable
  <1>5. CASE summary' = [summary EXCEPT ![e] = @ + 1]
    <2>1. summary' = [summary EXCEPT ![e] = 1]
      BY <1>3, <1>5 DEF TypeOK
    <2> QED BY <1>1, <1>3, <2>1 DEF Store!Count
  <1> QED BY <1>1, <1>4, <1>5

LEMMA StoreInit == Init => Store!Init
  BY SameTopic DEF Init, Store!Init

LEMMA StoreNext ==
    TypeOK /\ CommitInv' /\ CountInv /\ [Next]_vars => [Store!Next]_(Store!storeVars)
  <1> SUFFICES ASSUME TypeOK, CommitInv', CountInv, [Next]_vars
               PROVE  Store!Next \/ UNCHANGED durable
    BY DEF durable, Store!storeVars
  <1>1. TypeOK'
    BY DEF CommitInv
  <1>2. CASE UNCHANGED vars
    BY <1>2 DEF vars
  <1>3. CASE Next
    <2> PICK p \in Replicas :
          Process(p) \/ Rebalance(p) \/ Consume(p) \/ DlqAck(p) \/ DlqFail(p) \/ ProcessBatches(p)
      BY <1>3 DEF Next
    <2>1. CASE Process(p)
      BY <2>1 DEF Process, Start, Stop, Exit, Crash, Vanish
    <2>2. CASE Rebalance(p)
      BY <2>2 DEF Rebalance, Assign, Expire, Lost, Revoke
    <2>3. CASE Consume(p)
      BY <2>3 DEF Consume, Poll, Decode, Send, Quit
    <2>4. CASE DlqAck(p) \/ DlqFail(p)
      BY <2>4 DEF DlqAck, DlqFail
    <2>5. CASE Receive(p) \/ Tick(p) \/ Skip(p) \/ RowConflict(p)
      BY <2>5 DEF Receive, Tick, Skip, RowConflict
    <2>6. CASE Copy(p) \/ CopyError(p) \/ InsertRow(p) \/ RowError(p)
      <3>1. events \subseteq events' /\ UNCHANGED <<summary, committed>>
        BY <2>6 DEF Copy, CopyError, InsertRow, RowError
      <3> QED BY <1>1, <3>1, StepStores DEF Store!Next
    <2>7. CASE CountEvent(p)
      BY <2>7, StepCounts DEF Store!Next
    <2>8. CASE Commit(p) \/ Drain(p)
      <3>1. UNCHANGED <<events, summary>>
        BY <2>8 DEF Commit, Drain
      <3> QED BY <3>1, StepCommits DEF Store!Next
    <2> QED BY <2>1, <2>2, <2>3, <2>4, <2>5, <2>6, <2>7, <2>8 DEF ProcessBatches, Flush
  <1> QED BY <1>2, <1>3

\* The service keeps the store's promise: rows are stored once and for good,
\* counted at most once and only when stored, and offsets stay behind what is
\* settled, in any interleaving of replicas, failures and rebalances.
THEOREM ProcessorImplementsStore == Spec => StoreSpec
  <1>1. TypeOK /\ CommitInv /\ CommitInv' /\ CountInv /\ [Next]_vars => [Store!Next]_(Store!storeVars)
    BY StoreNext
  <1> QED BY <1>1, StoreInit, TypeCorrect, CommitInvariant, CountInvariant, PTL
          DEF Spec, StoreSpec, Store!Spec
=============================================================================
