------------------------------ MODULE Processor ------------------------------
(***************************************************************************)
(* processor-svc: replicas of the service share a consumer group on the    *)
(* topic. In each replica the goroutine consume polls and decodes records, *)
(* hands poison ones to the DLQ producer and sends every record down a     *)
(* bounded channel; the goroutine processBatches collects them, writes a   *)
(* batch with CopyFrom (row by row when that fails), counts the stored     *)
(* events in their summaries and commits the batch's offsets.              *)
(*                                                                         *)
(* Kafka (rebalances, commits), PostgreSQL (statements that fail, or that  *)
(* take effect and yet report an error) and the scheduler (a replica dies, *)
(* a replica is told to stop) are the environment, with bounded budgets.   *)
(***************************************************************************)
EXTENDS EventTopic, FiniteSets

CONSTANTS
    Replicas,       \* replicas of processor-svc
    NoReplica,      \* the partition has no owner
    NoEvent,        \* the nil event of a poison record
    BatchSize,      \* cfg.BatchSize
    DlqConfigured,  \* cfg.DLQTopic is set
    MaxStops,       \* bound: crashes and SIGTERMs
    MaxFaults,      \* bound: failing calls to PostgreSQL or Kafka
    MaxRebalances   \* bound: partitions taken away from a running replica

ASSUME BatchSizeAssumption == BatchSize \in Nat \ {0}
ASSUME NoReplicaAssumption == NoReplica \notin Replicas
ASSUME NoEventAssumption == NoEvent \notin EventIds
ASSUME BoundsAssumption ==
    /\ DlqConfigured \in BOOLEAN
    /\ MaxStops \in Nat /\ MaxFaults \in Nat /\ MaxRebalances \in Nat

VARIABLES
    \* PostgreSQL and Kafka
    events, summary, committed,
    dlq,         \* records whose DLQ message the broker has
    minted,      \* random ids handed out so far
    owner,       \* the group's assignment
    \* a replica, lost when it exits
    status,      \* "down", "up", or "stopping" once kafkaCancel was called
    held,        \* partitions the replica's client believes it owns
    position,    \* per held partition, the records the client has fetched
    iterPos,     \* per partition, the last poll's records already iterated ...
    iterEnd,     \* ... and where that poll's records end
    consuming,   \* the goroutine consume has not returned
    sending,     \* the item consume is about to send, at most one
    chan,        \* batchCh
    batch,       \* the slice batch of processBatches
    stage,       \* where processBatches stands
    at,          \* index into batch of the event a loop is working on
    dlqBuf,      \* records in the DLQ producer's buffer
    \* spent budgets
    stops, faults, rebalances

durable == <<events, summary, committed>>
client == <<held, position>>
iter == <<iterPos, iterEnd>>
consumer == <<client, iter, consuming, sending>>
flusher == <<batch, stage, at>>
budgets == <<stops, faults, rebalances>>
vars == <<durable, dlq, minted, owner, status, consumer, chan, flusher, dlqBuf, budgets>>

Stages == {"idle", "copy", "summaries", "row", "rowSummary", "commit", "returned"}
Items == [rec : Records, event : EventIds \cup {NoEvent}]

RangeOf(s) == {s[k] : k \in DOMAIN s}

\* A call to PostgreSQL or Kafka fails: the outside world's fault, or the
\* doing of the cancelled context.
CallFails(p) ==
    \/ status[p] = "stopping" /\ UNCHANGED faults
    \/ status[p] = "up" /\ faults < MaxFaults /\ faults' = faults + 1

CallSucceeds(p) == status[p] = "up" /\ UNCHANGED faults

Init ==
    /\ events = {}
    /\ summary = [e \in EventIds |-> 0]
    /\ committed = [q \in Partitions |-> 0]
    /\ dlq = {}
    /\ minted = 0
    /\ owner = [q \in Partitions |-> NoReplica]
    /\ status = [p \in Replicas |-> "down"]
    /\ held = [p \in Replicas |-> {}]
    /\ position = [p \in Replicas |-> [q \in Partitions |-> 0]]
    /\ iterPos = [p \in Replicas |-> [q \in Partitions |-> 0]]
    /\ iterEnd = [p \in Replicas |-> [q \in Partitions |-> 0]]
    /\ consuming = [p \in Replicas |-> FALSE]
    /\ sending = [p \in Replicas |-> <<>>]
    /\ chan = [p \in Replicas |-> <<>>]
    /\ batch = [p \in Replicas |-> <<>>]
    /\ stage = [p \in Replicas |-> "idle"]
    /\ at = [p \in Replicas |-> 1]
    /\ dlqBuf = [p \in Replicas |-> {}]
    /\ stops = 0
    /\ faults = 0
    /\ rebalances = 0

-----------------------------------------------------------------------------
(* The process: start, SIGTERM, exit, crash.                               *)

Start(p) ==
    /\ status[p] = "down"
    /\ status' = [status EXCEPT ![p] = "up"]
    /\ consuming' = [consuming EXCEPT ![p] = TRUE]
    /\ UNCHANGED <<durable, dlq, minted, owner, client, iter, sending, chan, flusher, dlqBuf, budgets>>

\* SIGTERM: kafkaCancel cancels the context of both goroutines.
Stop(p) ==
    /\ status[p] = "up" /\ stops < MaxStops
    /\ stops' = stops + 1
    /\ status' = [status EXCEPT ![p] = "stopping"]
    /\ UNCHANGED <<durable, dlq, minted, owner, consumer, chan, flusher, dlqBuf, faults, rebalances>>

\* Whatever is in memory is gone, and the group notices.
Vanish(p) ==
    /\ status' = [status EXCEPT ![p] = "down"]
    /\ owner' = [q \in Partitions |-> IF owner[q] = p THEN NoReplica ELSE owner[q]]
    /\ held' = [held EXCEPT ![p] = {}]
    /\ position' = [position EXCEPT ![p] = [q \in Partitions |-> 0]]
    /\ iterPos' = [iterPos EXCEPT ![p] = [q \in Partitions |-> 0]]
    /\ iterEnd' = [iterEnd EXCEPT ![p] = [q \in Partitions |-> 0]]
    /\ consuming' = [consuming EXCEPT ![p] = FALSE]
    /\ sending' = [sending EXCEPT ![p] = <<>>]
    /\ chan' = [chan EXCEPT ![p] = <<>>]
    /\ batch' = [batch EXCEPT ![p] = <<>>]
    /\ stage' = [stage EXCEPT ![p] = "idle"]
    /\ at' = [at EXCEPT ![p] = 1]
    /\ dlqBuf' = [dlqBuf EXCEPT ![p] = {}]
    /\ UNCHANGED <<durable, dlq, minted, faults, rebalances>>

\* main returns after its five seconds, whatever the goroutines are doing.
Exit(p) == status[p] = "stopping" /\ Vanish(p) /\ UNCHANGED stops

Crash(p) ==
    /\ status[p] # "down" /\ stops < MaxStops
    /\ Vanish(p)
    /\ stops' = stops + 1

-----------------------------------------------------------------------------
(* The consumer group.                                                     *)

\* The group gives p a partition without an owner; the client starts at the
\* committed offset (the log's beginning when there is none).
Assign(p, q) ==
    /\ status[p] # "down" /\ owner[q] = NoReplica /\ q \notin held[p]
    /\ owner' = [owner EXCEPT ![q] = p]
    /\ held' = [held EXCEPT ![p] = @ \cup {q}]
    /\ position' = [position EXCEPT ![p][q] = committed[q]]
    /\ UNCHANGED <<durable, dlq, minted, status, iter, consuming, sending, chan, flusher, dlqBuf, budgets>>

\* The group takes q from p, whose session has expired: p does not know yet.
Expire(p, q) ==
    /\ owner[q] = p /\ rebalances < MaxRebalances
    /\ rebalances' = rebalances + 1
    /\ owner' = [owner EXCEPT ![q] = NoReplica]
    /\ UNCHANGED <<durable, dlq, minted, status, consumer, chan, flusher, dlqBuf, stops, faults>>

\* p learns that it lost q: the client drops what it has fetched and not yet
\* handed out; what consume already has in hand stays there.
Lost(p, q) ==
    /\ q \in held[p] /\ owner[q] # p
    /\ held' = [held EXCEPT ![p] = @ \ {q}]
    /\ UNCHANGED <<durable, dlq, minted, owner, status, position, iter, consuming, sending, chan, flusher, dlqBuf, budgets>>

\* A rebalance takes q from p and p gives it up.
Revoke(p, q) ==
    /\ owner[q] = p /\ q \in held[p] /\ rebalances < MaxRebalances
    /\ rebalances' = rebalances + 1
    /\ owner' = [owner EXCEPT ![q] = NoReplica]
    /\ held' = [held EXCEPT ![p] = @ \ {q}]
    /\ UNCHANGED <<durable, dlq, minted, status, position, iter, consuming, sending, chan, flusher, dlqBuf, stops, faults>>

-----------------------------------------------------------------------------
(* consume                                                                 *)

IterDone(p) == \A q \in Partitions : iterPos[p][q] = iterEnd[p][q]

\* PollFetches: some of what lies ahead on the held partitions. It does not
\* look at the context when the client has records at hand.
Poll(p) ==
    /\ consuming[p] /\ IterDone(p) /\ sending[p] = <<>>
    /\ \E upto \in [held[p] -> UNION {0 .. Len(Topic[q]) : q \in held[p]}] :
          /\ \A q \in held[p] : upto[q] \in position[p][q] .. Len(Topic[q])
          /\ \E q \in held[p] : upto[q] > position[p][q]
          /\ position' = [position EXCEPT ![p] =
                [q \in Partitions |-> IF q \in held[p] THEN upto[q] ELSE @[q]]]
          /\ iterPos' = [iterPos EXCEPT ![p] =
                [q \in Partitions |-> IF q \in held[p] THEN position[p][q] ELSE @[q]]]
          /\ iterEnd' = [iterEnd EXCEPT ![p] =
                [q \in Partitions |-> IF q \in held[p] THEN upto[q] ELSE @[q]]]
    /\ UNCHANGED <<durable, dlq, minted, owner, status, held, consuming, sending, chan, flusher, dlqBuf, budgets>>

\* Mutant: a record that fails to validate is dropped without a message.
PublishedGarbled(r) == IF DlqConfigured /\ ~ Message(r).parses THEN {r} ELSE {}

\* publishToDLQ: a message to the asynchronous producer, if there is a DLQ.
Published(r) == IF DlqConfigured THEN {r} ELSE {}

\* iter.Next and decodeEvent. A poison record goes to the DLQ producer and,
\* with a nil event, down the channel like any other.
Decode(p) ==
    /\ consuming[p] /\ sending[p] = <<>>
    /\ \E q \in Partitions :
        LET r == <<q, iterPos[p][q] + 1>> IN
        /\ iterPos[p][q] < iterEnd[p][q]
        /\ iterPos' = [iterPos EXCEPT ![p][q] = @ + 1]
        /\ IF Poison(r)
             THEN /\ sending' = [sending EXCEPT ![p] = <<[rec |-> r, event |-> NoEvent]>>]
                  /\ dlqBuf' = [dlqBuf EXCEPT ![p] = @ \cup Published(r)]
                  /\ UNCHANGED minted
             ELSE \E e \in EventIds :
                  /\ DecodesTo(r, e)
                  /\ Message(r).id = NoId => minted < MaxMints /\ e = <<r, minted + 1>>
                  /\ minted' = IF Message(r).id = NoId THEN minted + 1 ELSE minted
                  /\ sending' = [sending EXCEPT ![p] = <<[rec |-> r, event |-> e]>>]
                  /\ UNCHANGED dlqBuf
    /\ UNCHANGED <<durable, dlq, owner, status, client, iterEnd, consuming, chan, flusher, budgets>>

\* Mutant: the record in hand overtakes those in the channel.
SendAhead(p) ==
    /\ consuming[p] /\ sending[p] # <<>> /\ Len(chan[p]) < 2 * BatchSize
    /\ chan' = [chan EXCEPT ![p] = sending[p] \o @]
    /\ sending' = [sending EXCEPT ![p] = <<>>]
    /\ UNCHANGED <<durable, dlq, minted, owner, status, client, iter, consuming, flusher, dlqBuf, budgets>>

Send(p) ==
    /\ consuming[p] /\ sending[p] # <<>> /\ Len(chan[p]) < 2 * BatchSize
    /\ chan' = [chan EXCEPT ![p] = @ \o sending[p]]
    /\ sending' = [sending EXCEPT ![p] = <<>>]
    /\ UNCHANGED <<durable, dlq, minted, owner, status, client, iter, consuming, flusher, dlqBuf, budgets>>

\* The other case of the select: the context is cancelled.
Quit(p) ==
    /\ consuming[p] /\ sending[p] # <<>> /\ status[p] = "stopping"
    /\ consuming' = [consuming EXCEPT ![p] = FALSE]
    /\ UNCHANGED <<durable, dlq, minted, owner, status, client, iter, sending, chan, flusher, dlqBuf, budgets>>

-----------------------------------------------------------------------------
(* The DLQ producer                                                        *)

DlqAck(p) ==
    /\ \E r \in dlqBuf[p] :
          /\ dlq' = dlq \cup {r}
          /\ dlqBuf' = [dlqBuf EXCEPT ![p] = @ \ {r}]
    /\ UNCHANGED <<durable, minted, owner, status, consumer, chan, flusher, budgets>>

\* The callback logs the error and that is all.
DlqFail(p) ==
    /\ CallFails(p)
    /\ \E r \in dlqBuf[p] : dlqBuf' = [dlqBuf EXCEPT ![p] = @ \ {r}]
    /\ UNCHANGED <<durable, dlq, minted, owner, status, consumer, chan, flusher, stops, rebalances>>

-----------------------------------------------------------------------------
(* processBatches and flushBatchToDB                                       *)

HasEvents(b) == \E k \in DOMAIN b : b[k].event # NoEvent

\* flushBatchToDB is entered with batch b: insertEventsBatch has nothing to
\* do when every event is nil.
FlushStage(b) == IF HasEvents(b) THEN "copy" ELSE "commit"

Receive(p) ==
    /\ status[p] # "down" /\ stage[p] = "idle" /\ chan[p] # <<>>
    /\ LET b == Append(batch[p], Head(chan[p])) IN
        /\ batch' = [batch EXCEPT ![p] = b]
        /\ stage' = [stage EXCEPT ![p] = IF Len(b) >= BatchSize THEN FlushStage(b) ELSE "idle"]
    /\ chan' = [chan EXCEPT ![p] = Tail(@)]
    /\ UNCHANGED <<durable, dlq, minted, owner, status, consumer, at, dlqBuf, budgets>>

\* Mutant: the ticker flushes full batches only.
TickWhenFull(p) ==
    /\ status[p] # "down" /\ stage[p] = "idle" /\ Len(batch[p]) >= BatchSize
    /\ stage' = [stage EXCEPT ![p] = FlushStage(batch[p])]
    /\ UNCHANGED <<durable, dlq, minted, owner, status, consumer, chan, batch, at, dlqBuf, budgets>>

\* The ticker fires; on an empty batch nothing happens.
Tick(p) ==
    /\ status[p] # "down" /\ stage[p] = "idle" /\ batch[p] # <<>>
    /\ stage' = [stage EXCEPT ![p] = FlushStage(batch[p])]
    /\ UNCHANGED <<durable, dlq, minted, owner, status, consumer, chan, batch, at, dlqBuf, budgets>>

\* The rows of the batch violate no constraint.
Copyable(b) ==
    /\ \A k \in DOMAIN b : b[k].event # NoEvent =>
          b[k].event \notin events /\ Message(b[k].rec).storable
    /\ \A k, l \in DOMAIN b : b[k].event # NoEvent /\ b[k].event = b[l].event => k = l

EventsOf(b) == RangeOf([k \in DOMAIN b |-> b[k].event]) \ {NoEvent}

\* Mutant: the copied events are not counted.
CopyUncounted(p) ==
    /\ stage[p] = "copy" /\ CallSucceeds(p) /\ Copyable(batch[p])
    /\ events' = events \cup EventsOf(batch[p])
    /\ stage' = [stage EXCEPT ![p] = "commit"]
    /\ UNCHANGED <<summary, committed, dlq, minted, owner, status, consumer, chan, batch, at, dlqBuf, stops, rebalances>>

\* CopyFrom is all or nothing.
Copy(p) ==
    /\ stage[p] = "copy" /\ CallSucceeds(p) /\ Copyable(batch[p])
    /\ events' = events \cup EventsOf(batch[p])
    /\ stage' = [stage EXCEPT ![p] = "summaries"]
    /\ UNCHANGED <<summary, committed, dlq, minted, owner, status, consumer, chan, batch, at, dlqBuf, stops, rebalances>>

\* Mutant: the error of CopyFrom is dropped.
CopyErrorPasses(p) ==
    /\ stage[p] = "copy"
    /\ \/ CallSucceeds(p) /\ ~ Copyable(batch[p])
       \/ CallFails(p)
    /\ stage' = [stage EXCEPT ![p] = "summaries"]
    /\ UNCHANGED <<durable, dlq, minted, owner, status, consumer, chan, batch, at, dlqBuf, stops, rebalances>>

\* CopyFrom reports an error, a violated constraint or a failed call; the
\* failed call may have taken effect all the same.
CopyError(p) ==
    /\ stage[p] = "copy"
    /\ \/ CallSucceeds(p) /\ ~ Copyable(batch[p]) /\ UNCHANGED events
       \/ /\ CallFails(p)
          /\ \/ UNCHANGED events
             \/ Copyable(batch[p]) /\ events' = events \cup EventsOf(batch[p])
    /\ stage' = [stage EXCEPT ![p] = "row"]
    /\ UNCHANGED <<summary, committed, dlq, minted, owner, status, consumer, chan, batch, at, dlqBuf, stops, rebalances>>

\* Mutant: the loop runs one past the last event.
AdvancePastEnd(p, i, loop) ==
    /\ at' = [at EXCEPT ![p] = IF i <= Len(batch[p]) THEN i + 1 ELSE 1]
    /\ stage' = [stage EXCEPT ![p] = IF i <= Len(batch[p]) THEN loop ELSE "commit"]

\* A loop over the batch's events moves on from index i, and to the commit
\* of the offsets after the last one.
Advance(p, i, loop) ==
    /\ at' = [at EXCEPT ![p] = IF i < Len(batch[p]) THEN i + 1 ELSE 1]
    /\ stage' = [stage EXCEPT ![p] = IF i < Len(batch[p]) THEN loop ELSE "commit"]

\* A nil event is no part of the loops over the events.
Skip(p) ==
    /\ stage[p] \in {"summaries", "row"} /\ batch[p][at[p]].event = NoEvent
    /\ Advance(p, at[p], stage[p])
    /\ UNCHANGED <<durable, dlq, minted, owner, status, consumer, chan, batch, dlqBuf, budgets>>

\* updateSummary for the event at hand, after CopyFrom (loop "summaries") or
\* after its own INSERT (loop "row"): it counts, and whether it reports an
\* error or not only the log tells; or it does not count.
CountEvent(p) ==
    /\ stage[p] \in {"summaries", "rowSummary"} /\ batch[p][at[p]].event # NoEvent
    /\ \/ /\ summary' = [summary EXCEPT ![batch[p][at[p]].event] = @ + 1]
          /\ (CallSucceeds(p) \/ CallFails(p))
       \/ UNCHANGED summary /\ CallFails(p)
    /\ Advance(p, at[p], IF stage[p] = "summaries" THEN "summaries" ELSE "row")
    /\ UNCHANGED <<events, committed, dlq, minted, owner, status, consumer, chan, batch, dlqBuf, stops, rebalances>>

\* insertEvent: a new row, to be counted next.
InsertRow(p) ==
    LET e == batch[p][at[p]].event IN
    /\ stage[p] = "row" /\ e # NoEvent /\ CallSucceeds(p)
    /\ e \notin events /\ Message(batch[p][at[p]].rec).storable
    /\ events' = events \cup {e}
    /\ stage' = [stage EXCEPT ![p] = "rowSummary"]
    /\ UNCHANGED <<summary, committed, dlq, minted, owner, status, consumer, chan, batch, at, dlqBuf, stops, rebalances>>

\* Mutant: insertEvent does not look at RowsAffected.
RowConflictCounts(p) ==
    LET e == batch[p][at[p]].event IN
    /\ stage[p] = "row" /\ e \in events /\ CallSucceeds(p)
    /\ Message(batch[p][at[p]].rec).storable
    /\ stage' = [stage EXCEPT ![p] = "rowSummary"]
    /\ UNCHANGED <<durable, dlq, minted, owner, status, consumer, chan, batch, at, dlqBuf, stops, rebalances>>

\* insertEvent: ON CONFLICT (id) DO NOTHING, and no update of the summary.
RowConflict(p) ==
    LET e == batch[p][at[p]].event IN
    /\ stage[p] = "row" /\ e \in events /\ CallSucceeds(p)
    /\ Message(batch[p][at[p]].rec).storable
    /\ Advance(p, at[p], "row")
    /\ UNCHANGED <<durable, dlq, minted, owner, status, consumer, chan, batch, dlqBuf, stops, rebalances>>

\* Mutant: flushBatchToDB logs the error and goes on to the commit.
RowErrorCommits(p) ==
    LET e == batch[p][at[p]].event
        storable == Message(batch[p][at[p]].rec).storable IN
    /\ stage[p] = "row" /\ e # NoEvent
    /\ (CallSucceeds(p) /\ ~ storable) \/ CallFails(p)
    /\ stage' = [stage EXCEPT ![p] = "commit"]
    /\ at' = [at EXCEPT ![p] = 1]
    /\ UNCHANGED <<durable, dlq, minted, owner, status, consumer, chan, batch, dlqBuf, stops, rebalances>>

\* Mutant: flushBatchToDB clears the batch on every way out.
RowErrorDrops(p) ==
    LET e == batch[p][at[p]].event
        storable == Message(batch[p][at[p]].rec).storable IN
    /\ stage[p] = "row" /\ e # NoEvent
    /\ (CallSucceeds(p) /\ ~ storable) \/ CallFails(p)
    /\ stage' = [stage EXCEPT ![p] = "idle"]
    /\ at' = [at EXCEPT ![p] = 1]
    /\ batch' = [batch EXCEPT ![p] = <<>>]
    /\ UNCHANGED <<durable, dlq, minted, owner, status, consumer, chan, dlqBuf, stops, rebalances>>

\* insertEvent fails (and may have taken effect all the same): the flush is
\* over, nothing is committed, the batch is kept for the next flush.
RowError(p) ==
    LET e == batch[p][at[p]].event
        storable == Message(batch[p][at[p]].rec).storable IN
    /\ stage[p] = "row" /\ e # NoEvent
    /\ \/ CallSucceeds(p) /\ ~ storable /\ UNCHANGED events
       \/ /\ CallFails(p)
          /\ \/ UNCHANGED events
             \/ storable /\ events' = events \cup {e}
    /\ stage' = [stage EXCEPT ![p] = "idle"]
    /\ at' = [at EXCEPT ![p] = 1]
    /\ UNCHANGED <<summary, committed, dlq, minted, owner, status, consumer, chan, batch, dlqBuf, stops, rebalances>>

PartitionsOf(b) == {b[k].rec[1] : k \in DOMAIN b}

\* CommitRecords commits, per partition, the furthest offset among the
\* records; the group takes it for the partitions in landed.
CommitOffsets(b, landed) ==
    \E last \in [landed -> DOMAIN b] :
        /\ \A q \in landed :
              /\ b[last[q]].rec[1] = q
              /\ \A k \in DOMAIN b : b[k].rec[1] = q => b[k].rec[2] <= b[last[q]].rec[2]
        /\ committed' = [q \in Partitions |->
              IF q \in landed THEN b[last[q]].rec[2] ELSE committed[q]]

\* The commit goes through or not; for a partition the replica no longer owns
\* the group may refuse it or (the replica has rejoined) take it. Either way
\* the batch is cleared.
Commit(p) ==
    /\ stage[p] = "commit"
    /\ \/ /\ CallSucceeds(p)
          /\ \E landed \in SUBSET PartitionsOf(batch[p]) :
                /\ \A q \in PartitionsOf(batch[p]) : owner[q] = p => q \in landed
                /\ CommitOffsets(batch[p], landed)
       \/ /\ CallFails(p)
          /\ \E landed \in SUBSET PartitionsOf(batch[p]) : CommitOffsets(batch[p], landed)
    /\ batch' = [batch EXCEPT ![p] = <<>>]
    /\ stage' = [stage EXCEPT ![p] = "idle"]
    /\ UNCHANGED <<events, summary, dlq, minted, owner, status, consumer, chan, at, dlqBuf, stops, rebalances>>

\* The context is cancelled: drain the channel, flush, return. Under the
\* cancelled context no INSERT starts and CommitRecords may at most get out.
Drain(p) ==
    LET all == batch[p] \o chan[p] IN
    /\ stage[p] = "idle" /\ status[p] = "stopping"
    /\ chan' = [chan EXCEPT ![p] = <<>>]
    /\ IF HasEvents(all)
         THEN batch' = [batch EXCEPT ![p] = all] /\ UNCHANGED committed
         ELSE /\ batch' = [batch EXCEPT ![p] = <<>>]
              /\ \E landed \in SUBSET PartitionsOf(all) : CommitOffsets(all, landed)
    /\ stage' = [stage EXCEPT ![p] = "returned"]
    /\ UNCHANGED <<events, summary, dlq, minted, owner, status, consumer, at, dlqBuf, budgets>>

-----------------------------------------------------------------------------
Process(p) == Start(p) \/ Stop(p) \/ Exit(p) \/ Crash(p)

Rebalance(p) ==
    \E q \in Partitions : Assign(p, q) \/ Expire(p, q) \/ Lost(p, q) \/ Revoke(p, q)

Consume(p) == Poll(p) \/ Decode(p) \/ Send(p) \/ Quit(p)

Flush(p) ==
    \/ Copy(p) \/ CopyError(p) \/ Skip(p) \/ CountEvent(p)
    \/ InsertRow(p) \/ RowConflict(p) \/ RowError(p) \/ Commit(p)

ProcessBatches(p) == Receive(p) \/ Tick(p) \/ Flush(p) \/ Drain(p)

Next == \E p \in Replicas :
    Process(p) \/ Rebalance(p) \/ Consume(p) \/ DlqAck(p) \/ DlqFail(p) \/ ProcessBatches(p)

Spec == Init /\ [][Next]_vars

\* The scheduler runs both goroutines, the ticker fires, a pod is restarted
\* after it exits, the group assigns what is free, the producer's buffer drains.
Fairness == \A p \in Replicas :
    /\ WF_vars(Start(p)) /\ WF_vars(Exit(p))
    /\ \A q \in Partitions : WF_vars(Assign(p, q)) /\ WF_vars(Lost(p, q))
    /\ WF_vars(Consume(p)) /\ WF_vars(DlqAck(p))
    /\ WF_vars(Receive(p)) /\ WF_vars(Tick(p)) /\ WF_vars(Flush(p))

FairSpec == Spec /\ Fairness

-----------------------------------------------------------------------------
Writing(p) == stage[p] \in {"copy", "summaries", "row", "rowSummary"}

TypeOK ==
    /\ events \subseteq EventIds
    /\ summary \in [EventIds -> Nat]
    /\ committed \in [Partitions -> Nat]
    /\ dlq \subseteq Records
    /\ minted \in 0 .. MaxMints
    /\ owner \in [Partitions -> Replicas \cup {NoReplica}]
    /\ status \in [Replicas -> {"down", "up", "stopping"}]
    /\ held \in [Replicas -> SUBSET Partitions]
    /\ position \in [Replicas -> [Partitions -> Nat]]
    /\ iterPos \in [Replicas -> [Partitions -> Nat]]
    /\ iterEnd \in [Replicas -> [Partitions -> Nat]]
    /\ consuming \in [Replicas -> BOOLEAN]
    /\ sending \in [Replicas -> Seq(Items)]
    /\ chan \in [Replicas -> Seq(Items)]
    /\ batch \in [Replicas -> Seq(Items)]
    /\ stage \in [Replicas -> Stages]
    /\ at \in [Replicas -> Nat]
    /\ dlqBuf \in [Replicas -> SUBSET Records]
    /\ stops \in Nat /\ faults \in Nat /\ rebalances \in Nat
    /\ \A p \in Replicas :
          /\ \A q \in Partitions : iterEnd[p][q] <= Len(Topic[q])
          /\ IF Writing(p) THEN at[p] \in DOMAIN batch[p] ELSE at[p] = 1

\* No committed offset covers a record whose event is not stored, however
\* flushes fail, replicas die and partitions move: "at least once" is what
\* committing after the write is for.
NoUnstoredCommit ==
    \A q \in Partitions : \A i \in 1 .. committed[q] : Settled(<<q, i>>, events)

\* event_summaries counts no event twice and none that is not stored, though
\* the count is a transaction of its own after the insert and batches are
\* retried: a repeated insert must never lead to a second count.
CountedAtMostOnce ==
    \A e \in EventIds : summary[e] <= IF e \in events THEN 1 ELSE 0

\* Offsets on the topic only move forward as long as no partition is taken from
\* a running replica, whichever flushes fail, retry or overlap a shutdown, and
\* whoever starts on the partitions of a replica that died.
CommitsNeverRewind ==
    [][rebalances = 0 => \A q \in Partitions : committed'[q] >= committed[q]]_vars

\* The durable state moves only the way the abstract store allows.
Store == INSTANCE EventStore
StoreSpec == Store!Spec

\* A record that decodes and that PostgreSQL can store is stored in the end,
\* through crashes, lost partitions and failed calls, once those cease.
EventuallyStored ==
    \A r \in Records : Message(r).storable => <>Settled(r, events)

\* When no call fails and no partition moves, the group's offsets reach the
\* end of every log, also across a restart.
EventuallyCommitted ==
    [](faults = 0 /\ rebalances = 0) =>
        \A q \in Partitions : <>[](committed[q] = Len(Topic[q]))

\* Every poison record gets to the DLQ, duplicates and all. Only as long as no
\* replica dies and no produce fails: publishToDLQ does not wait for an answer,
\* and the record's offset is committed whatever becomes of the message.
PoisonReachesDlq ==
    DlqConfigured /\ [](stops = 0 /\ faults = 0) =>
        \A r \in Records : Poison(r) => <>(r \in dlq)

\* What is stored is counted in the end, whichever replica stores it and
\* whichever meets it as a conflict. Only as long as no replica dies and no
\* call fails: the count is not part of the insert, and is not made up for
\* when a later insert finds the row.
SummariesComplete ==
    [](stops = 0 /\ faults = 0) =>
        \A e \in EventIds : e \in events ~> summary[e] = 1

-----------------------------------------------------------------------------
(* Claims of the repository that the code does not keep.                   *)

\* processor.go:145: on shutdown the batch is drained and flushed, so nothing
\* is left unwritten in it when processBatches returns.
ShutdownFlushes ==
    \A p \in Replicas : stage[p] = "returned" => EventsOf(batch[p]) \subseteq events
=============================================================================
