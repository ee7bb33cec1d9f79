--------------------------- MODULE ProcessorProofs ---------------------------
(***************************************************************************)
(* Theorems about Processor, for every topic, number of replicas, batch    *)
(* size and budget.                                                        *)
(***************************************************************************)
EXTENDS ProcessorInvariant, SequenceTheorems, TLAPS

LEMMA RecordsAre ==
    ASSUME NEW q, NEW i
    PROVE  <<q, i>> \in Records <=> q \in Partitions /\ i \in 1 .. Len(Topic[q])
  BY DEF Records

LEMMA RecordParts ==
    ASSUME NEW r \in Records
    PROVE  /\ r[1] \in Partitions /\ r[2] \in 1 .. Len(Topic[r[1]])
           /\ r = <<r[1], r[2]>> /\ r[2] \in Nat
  BY TopicAssumption DEF Records

LEMMA EventIdsAre ==
    ASSUME NEW r \in Records, NEW n \in 1 .. MaxMints
    PROVE  <<r, n>> \in EventIds
  BY DEF EventIds

LEMMA TopicLength == \A q \in Partitions : Len(Topic[q]) \in Nat
  BY TopicAssumption

\* Facts of every typed state used again and again.
LEMMA BatchTyped ==
    ASSUME TypeOK, NEW p \in Replicas
    PROVE  /\ batch[p] \in Seq(Items) /\ chan[p] \in Seq(Items) /\ sending[p] \in Seq(Items)
           /\ Len(batch[p]) \in Nat /\ at[p] \in Nat
           /\ \A k \in DOMAIN batch[p] : batch[p][k] \in Items
           /\ DOMAIN batch[p] = 1 .. Len(batch[p])
  BY DEF TypeOK

LEMMA TypeInit == Init => TypeOK
  BY MintAssumption, TopicAssumption DEF Init, TypeOK, Stages, Writing

LEMMA TypeProcess ==
    ASSUME TypeOK, NEW p \in Replicas, Process(p)
    PROVE  TypeOK'
  <1>1. CASE Start(p)
    BY <1>1 DEF TypeOK, Start, durable, client, iter, flusher, budgets, Writing
  <1>2. CASE Stop(p)
    BY <1>2 DEF TypeOK, Stop, durable, consumer, client, iter, flusher, budgets, Writing
  <1>3. ASSUME Vanish(p), stops' \in Nat PROVE TypeOK'
    <2>1. /\ owner' \in [Partitions -> Replicas \cup {NoReplica}]
          /\ held' \in [Replicas -> SUBSET Partitions]
          /\ position' \in [Replicas -> [Partitions -> Nat]]
          /\ iterPos' \in [Replicas -> [Partitions -> Nat]]
          /\ iterEnd' \in [Replicas -> [Partitions -> Nat]]
      BY <1>3 DEF TypeOK, Vanish
    <2>2. /\ status' \in [Replicas -> {"down", "up", "stopping"}]
          /\ consuming' \in [Replicas -> BOOLEAN]
          /\ stage' \in [Replicas -> Stages]
          /\ at' \in [Replicas -> Nat]
          /\ dlqBuf' \in [Replicas -> SUBSET Records]
      BY <1>3 DEF TypeOK, Vanish, Stages
    <2>3. /\ sending' \in [Replicas -> Seq(Items)]
          /\ chan' \in [Replicas -> Seq(Items)]
          /\ batch' \in [Replicas -> Seq(Items)]
      BY <1>3 DEF TypeOK, Vanish
    <2>4. UNCHANGED <<events, summary, committed, dlq, minted, faults, rebalances>>
      BY <1>3 DEF Vanish, durable
    <2>5. ASSUME NEW p2 \in Replicas
          PROVE  /\ \A q \in Partitions : iterEnd'[p2][q] <= Len(Topic[q])
                 /\ IF Writing(p2)' THEN at'[p2] \in DOMAIN batch'[p2] ELSE at'[p2] = 1
      <3>1. CASE p2 = p
        <4>1. /\ iterEnd'[p] = [q \in Partitions |-> 0]
              /\ stage'[p] = "idle" /\ at'[p] = 1
          BY <1>3 DEF TypeOK, Vanish
        <4> QED BY <3>1, <4>1, TopicLength DEF Writing
      <3>2. CASE p2 # p
        <4>1. /\ iterEnd'[p2] = iterEnd[p2] /\ batch'[p2] = batch[p2]
              /\ stage'[p2] = stage[p2] /\ at'[p2] = at[p2]
          BY <1>3, <3>2 DEF TypeOK, Vanish
        <4> QED BY <4>1 DEF Writing, TypeOK
      <3> QED BY <3>1, <3>2
    <2> QED BY <1>3, <2>1, <2>2, <2>3, <2>4, <2>5 DEF TypeOK
  <1>4. CASE Exit(p)
    <2>1. Vanish(p) /\ stops' \in Nat
      BY <1>4 DEF TypeOK, Exit
    <2> QED BY <1>3, <2>1
  <1>5. CASE Crash(p)
    <2>1. Vanish(p) /\ stops' \in Nat
      BY <1>5 DEF TypeOK, Crash
    <2> QED BY <1>3, <2>1
  <1> QED BY <1>1, <1>2, <1>4, <1>5 DEF Process

LEMMA TypeRebalance ==
    ASSUME TypeOK, NEW p \in Replicas, Rebalance(p)
    PROVE  TypeOK'
  <1>1. PICK q \in Partitions : Assign(p, q) \/ Expire(p, q) \/ Lost(p, q) \/ Revoke(p, q)
    BY DEF Rebalance
  <1>2. CASE Assign(p, q)
    BY <1>2 DEF TypeOK, Assign, durable, iter, flusher, budgets, Writing
  <1>3. CASE Expire(p, q)
    BY <1>3 DEF TypeOK, Expire, durable, consumer, client, iter, flusher, Writing
  <1>4. CASE Lost(p, q)
    BY <1>4 DEF TypeOK, Lost, durable, iter, flusher, budgets, Writing
  <1>5. CASE Revoke(p, q)
    BY <1>5 DEF TypeOK, Revoke, durable, iter, flusher, Writing
  <1> QED BY <1>1, <1>2, <1>3, <1>4, <1>5

LEMMA TypePoll ==
    ASSUME TypeOK, NEW p \in Replicas, Poll(p)
    PROVE  TypeOK'
  <1>1. PICK upto \in [held[p] -> UNION {0 .. Len(Topic[q]) : q \in held[p]}] :
          /\ \A q \in held[p] : upto[q] \in position[p][q] .. Len(Topic[q])
          /\ position' = [position EXCEPT ![p] =
                [q \in Partitions |-> IF q \in held[p] THEN upto[q] ELSE @[q]]]
          /\ iterPos' = [iterPos EXCEPT ![p] =
                [q \in Partitions |-> IF q \in held[p] THEN position[p][q] ELSE @[q]]]
          /\ iterEnd' = [iterEnd EXCEPT ![p] =
                [q \in Partitions |-> IF q \in held[p] THEN upto[q] ELSE @[q]]]
    BY DEF Poll
  <1>2. \A q \in held[p] : q \in Partitions /\ upto[q] \in Nat /\ upto[q] <= Len(Topic[q])
    BY <1>1, TopicLength DEF TypeOK
  <1>3. /\ position' \in [Replicas -> [Partitions -> Nat]]
        /\ iterPos' \in [Replicas -> [Partitions -> Nat]]
        /\ iterEnd' \in [Replicas -> [Partitions -> Nat]]
    BY <1>1, <1>2 DEF TypeOK
  <1>4. ASSUME NEW p2 \in Replicas, NEW q \in Partitions
        PROVE  iterEnd'[p2][q] <= Len(Topic[q])
    BY <1>1, <1>2 DEF TypeOK
  <1>5. UNCHANGED <<durable, dlq, minted, owner, status, held, consuming, sending, chan, flusher, dlqBuf, budgets>>
    BY DEF Poll
  <1>6. UNCHANGED <<batch, stage, at>>
    BY <1>5 DEF flusher
  <1>7. ASSUME NEW p2 \in Replicas
        PROVE  IF Writing(p2)' THEN at'[p2] \in DOMAIN batch'[p2] ELSE at'[p2] = 1
    BY <1>6 DEF TypeOK, Writing
  <1> QED BY <1>3, <1>4, <1>5, <1>6, <1>7 DEF TypeOK, durable, budgets

\* What Decode puts in hand is an item.
LEMMA DecodedItem ==
    ASSUME TypeOK, NEW p \in Replicas, NEW q \in Partitions, iterPos[p][q] < iterEnd[p][q]
    PROVE  <<q, iterPos[p][q] + 1>> \in Records
  <1>1. iterPos[p][q] + 1 \in 1 .. Len(Topic[q])
    BY TopicLength DEF TypeOK
  <1> QED BY <1>1, RecordsAre

LEMMA TypeDecode ==
    ASSUME TypeOK, NEW p \in Replicas, Decode(p)
    PROVE  TypeOK'
  <1> PICK q \in Partitions :
        LET r == <<q, iterPos[p][q] + 1>> IN
        /\ iterPos[p][q] < iterEnd[p][q]
        /\ iterPos' = [iterPos EXCEPT ![p][q] = @ + 1]
        /\ IF Poison(r)
             THEN /\ sending' = [sending EXCEPT ![p] = <<[rec |-> r, event |-> NoEvent]>>]
                  /\ dlqBuf' = [dlqBuf EXCEPT ![p] = @ \cup Published(r)]
                  /\ UNCHANGED minted
             ELSE \E e \in EventIds :
                  /\ DecodesTo(r, e)
                  /\ Message(r).id = NoId => minted < MaxMints /\ e = <<r, minted + 1>>
                  /\ minted' = IF Message(r).id = NoId THEN minted + 1 ELSE minted
                  /\ sending' = [sending EXCEPT ![p] = <<[rec |-> r, event |-> e]>>]
                  /\ UNCHANGED dlqBuf
    BY DEF Decode
  <1> DEFINE r == <<q, iterPos[p][q] + 1>>
  <1>1. r \in Records
    BY DecodedItem
  <1>2. iterPos' \in [Replicas -> [Partitions -> Nat]]
    BY DEF TypeOK
  <1>3. UNCHANGED <<durable, dlq, owner, status, client, iterEnd, consuming, chan, flusher, budgets>>
    BY DEF Decode
  <1>4. /\ minted' \in 0 .. MaxMints
        /\ dlqBuf' \in [Replicas -> SUBSET Records]
        /\ sending' \in [Replicas -> Seq(Items)]
    <2>1. CASE Poison(r)
      <3>1. <<[rec |-> r, event |-> NoEvent]>> \in Seq(Items)
        BY <1>1 DEF Items
      <3>2. /\ sending' = [sending EXCEPT ![p] = <<[rec |-> r, event |-> NoEvent]>>]
            /\ dlqBuf' = [dlqBuf EXCEPT ![p] = @ \cup Published(r)]
            /\ UNCHANGED minted
        BY <2>1
      <3> QED BY <1>1, <3>1, <3>2 DEF TypeOK, Published
    <2>2. CASE ~ Poison(r)
      <3>1. PICK e \in EventIds :
              /\ Message(r).id = NoId => minted < MaxMints
              /\ minted' = IF Message(r).id = NoId THEN minted + 1 ELSE minted
              /\ sending' = [sending EXCEPT ![p] = <<[rec |-> r, event |-> e]>>]
              /\ UNCHANGED dlqBuf
        BY <2>2
      <3>2. <<[rec |-> r, event |-> e]>> \in Seq(Items)
        BY <1>1 DEF Items
      <3>3. minted' \in 0 .. MaxMints
        BY <3>1, MintAssumption DEF TypeOK
      <3> QED BY <3>1, <3>2, <3>3 DEF TypeOK
    <2> QED BY <2>1, <2>2
  <1> QED BY <1>2, <1>3, <1>4 DEF TypeOK, durable, client, flusher, budgets, Writing

LEMMA TypeConsume ==
    ASSUME TypeOK, NEW p \in Replicas, Consume(p)
    PROVE  TypeOK'
  <1>1. CASE Send(p)
    <2>1. chan[p] \o sending[p] \in Seq(Items)
      BY BatchTyped
    <2> QED BY <1>1, <2>1 DEF TypeOK, Send, durable, client, iter, flusher, budgets, Writing
  <1>2. CASE Quit(p)
    BY <1>2 DEF TypeOK, Quit, durable, client, iter, flusher, budgets, Writing
  <1> QED BY <1>1, <1>2, TypePoll, TypeDecode DEF Consume

LEMMA FailuresTyped ==
    ASSUME TypeOK, NEW p \in Replicas, CallFails(p) \/ CallSucceeds(p)
    PROVE  faults' \in Nat
  BY DEF TypeOK, CallFails, CallSucceeds

LEMMA TypeDlq ==
    ASSUME TypeOK, NEW p \in Replicas, DlqAck(p) \/ DlqFail(p)
    PROVE  TypeOK'
  <1>1. CASE DlqAck(p)
    BY <1>1 DEF TypeOK, DlqAck, durable, consumer, client, iter, flusher, budgets, Writing
  <1>2. CASE DlqFail(p)
    BY <1>2, FailuresTyped DEF TypeOK, DlqFail, durable, consumer, client, iter, flusher, Writing
  <1> QED BY <1>1, <1>2

\* One step of a loop over the batch keeps the index inside the batch.
LEMMA AdvanceTyped ==
    ASSUME TypeOK, NEW p \in Replicas, Writing(p), batch' = batch,
           NEW loop \in {"summaries", "row"}, Advance(p, at[p], loop)
    PROVE  /\ at' \in [Replicas -> Nat] /\ stage' \in [Replicas -> Stages]
           /\ \A p2 \in Replicas :
                IF Writing(p2)' THEN at'[p2] \in DOMAIN batch'[p2] ELSE at'[p2] = 1
  <1>1. at[p] \in 1 .. Len(batch[p]) /\ Len(batch[p]) \in Nat
    BY BatchTyped DEF TypeOK
  <1>2. /\ at' = [at EXCEPT ![p] = IF at[p] < Len(batch[p]) THEN at[p] + 1 ELSE 1]
        /\ stage' = [stage EXCEPT ![p] = IF at[p] < Len(batch[p]) THEN loop ELSE "commit"]
    BY DEF Advance
  <1>3. at' \in [Replicas -> Nat] /\ stage' \in [Replicas -> Stages]
    BY <1>1, <1>2 DEF TypeOK, Stages
  <1>4. ASSUME NEW p2 \in Replicas
        PROVE  IF Writing(p2)' THEN at'[p2] \in DOMAIN batch'[p2] ELSE at'[p2] = 1
    <2>1. CASE p2 = p
      <3>1. /\ at'[p] = IF at[p] < Len(batch[p]) THEN at[p] + 1 ELSE 1
            /\ stage'[p] = IF at[p] < Len(batch[p]) THEN loop ELSE "commit"
        BY <1>2 DEF TypeOK
      <3> QED BY <1>1, <2>1, <3>1, BatchTyped DEF Writing
    <2>2. CASE p2 # p
      <3>1. at'[p2] = at[p2] /\ stage'[p2] = stage[p2]
        BY <1>2, <2>2 DEF TypeOK
      <3> QED BY <3>1 DEF TypeOK, Writing
    <2> QED BY <2>1, <2>2
  <1> QED BY <1>3, <1>4

LEMMA CommitTyped ==
    ASSUME TypeOK, NEW b \in Seq(Items), NEW landed, CommitOffsets(b, landed)
    PROVE  committed' \in [Partitions -> Nat]
  <1> PICK last \in [landed -> DOMAIN b] :
        committed' = [q \in Partitions |->
            IF q \in landed THEN b[last[q]].rec[2] ELSE committed[q]]
    BY DEF CommitOffsets
  <1>1. ASSUME NEW k \in DOMAIN b PROVE b[k].rec[2] \in Nat
    <2>1. b[k] \in Items
      OBVIOUS
    <2>2. b[k].rec \in Records
      BY <2>1 DEF Items
    <2> QED BY <2>2, RecordParts
  <1>2. \A q \in landed : last[q] \in DOMAIN b
    OBVIOUS
  <1> QED BY <1>1, <1>2 DEF TypeOK

LEMMA TypeFlush ==
    ASSUME TypeOK, NEW p \in Replicas, Flush(p)
    PROVE  TypeOK'
  <1>1. CASE Copy(p)
    <2>1. EventsOf(batch[p]) \subseteq EventIds
      BY BatchTyped DEF EventsOf, RangeOf, Items
    <2> QED BY <1>1, <2>1, FailuresTyped
            DEF TypeOK, Copy, consumer, client, iter, Writing, Stages
  <1>2. CASE CopyError(p)
    <2>1. EventsOf(batch[p]) \subseteq EventIds
      BY BatchTyped DEF EventsOf, RangeOf, Items
    <2>2. events' \subseteq EventIds /\ faults' \in Nat
      BY <1>2, <2>1, FailuresTyped DEF TypeOK, CopyError
    <2> QED BY <1>2, <2>2 DEF TypeOK, CopyError, consumer, client, iter, Writing, Stages
  <1>3. CASE Skip(p)
    <2>1. UNCHANGED <<durable, dlq, minted, owner, status, consumer, chan, batch, dlqBuf, budgets>>
      BY <1>3 DEF Skip
    <2>2. /\ at' \in [Replicas -> Nat] /\ stage' \in [Replicas -> Stages]
          /\ \A p2 \in Replicas :
                IF Writing(p2)' THEN at'[p2] \in DOMAIN batch'[p2] ELSE at'[p2] = 1
      BY <1>3, <2>1, AdvanceTyped DEF Skip, Writing
    <2> QED BY <2>1, <2>2 DEF TypeOK, durable, consumer, client, iter, budgets
  <1>4. CASE CountEvent(p)
    <2>1. /\ UNCHANGED <<events, committed, dlq, minted, owner, status, consumer, chan, batch, dlqBuf, stops, rebalances>>
          /\ Advance(p, at[p], IF stage[p] = "summaries" THEN "summaries" ELSE "row")
          /\ Writing(p)
      BY <1>4 DEF CountEvent, Writing
    <2>2. /\ at' \in [Replicas -> Nat] /\ stage' \in [Replicas -> Stages]
          /\ \A p2 \in Replicas :
                IF Writing(p2)' THEN at'[p2] \in DOMAIN batch'[p2] ELSE at'[p2] = 1
      BY <2>1, AdvanceTyped
    <2>3. summary' \in [EventIds -> Nat] /\ faults' \in Nat
      BY <1>4, FailuresTyped DEF TypeOK, CountEvent
    <2> QED BY <2>1, <2>2, <2>3 DEF TypeOK, consumer, client, iter
  <1>5. CASE InsertRow(p)
    <2>1. batch[p][at[p]].event \in EventIds
      BY <1>5, BatchTyped DEF TypeOK, InsertRow, Writing, Items
    <2> QED BY <1>5, <2>1, FailuresTyped
            DEF TypeOK, InsertRow, consumer, client, iter, Writing, Stages
  <1>6. CASE RowConflict(p)
    <2>1. UNCHANGED <<durable, dlq, minted, owner, status, consumer, chan, batch, dlqBuf, stops, rebalances>>
      BY <1>6 DEF RowConflict
    <2>2. /\ at' \in [Replicas -> Nat] /\ stage' \in [Replicas -> Stages]
          /\ \A p2 \in Replicas :
                IF Writing(p2)' THEN at'[p2] \in DOMAIN batch'[p2] ELSE at'[p2] = 1
      BY <1>6, <2>1, AdvanceTyped DEF RowConflict, Writing
    <2> QED BY <1>6, <2>1, <2>2, FailuresTyped DEF TypeOK, RowConflict, durable, consumer, client, iter
  <1>7. CASE RowError(p)
    <2>1. batch[p][at[p]].event \in EventIds
      BY <1>7, BatchTyped DEF TypeOK, RowError, Writing, Items
    <2>2. events' \subseteq EventIds /\ faults' \in Nat
      BY <1>7, <2>1, FailuresTyped DEF TypeOK, RowError
    <2> QED BY <1>7, <2>2 DEF TypeOK, RowError, consumer, client, iter, Writing, Stages
  <1>8. CASE Commit(p)
    <2>1. committed' \in [Partitions -> Nat]
      BY <1>8, CommitTyped, BatchTyped DEF Commit
    <2>2. faults' \in Nat
      BY <1>8, FailuresTyped DEF Commit
    <2>3. /\ batch' \in [Replicas -> Seq(Items)]
          /\ stage' \in [Replicas -> Stages]
          /\ \A p2 \in Replicas :
                IF Writing(p2)' THEN at'[p2] \in DOMAIN batch'[p2] ELSE at'[p2] = 1
      BY <1>8 DEF TypeOK, Commit, Writing, Stages
    <2> QED BY <1>8, <2>1, <2>2, <2>3 DEF TypeOK, Commit, consumer, client, iter
  <1> QED BY <1>1, <1>2, <1>3, <1>4, <1>5, <1>6, <1>7, <1>8 DEF Flush

LEMMA TypeProcessBatches ==
    ASSUME TypeOK, NEW p \in Replicas, ProcessBatches(p)
    PROVE  TypeOK'
  <1>1. CASE Receive(p)
    <2> DEFINE b == Append(batch[p], Head(chan[p]))
    <2>1. b \in Seq(Items) /\ 1 \in DOMAIN b /\ Tail(chan[p]) \in Seq(Items)
      BY <1>1, BatchTyped DEF Receive
    <2>2. FlushStage(b) \in {"copy", "commit"}
      BY DEF FlushStage
    <2>3. /\ batch' = [batch EXCEPT ![p] = b]
          /\ stage' = [stage EXCEPT ![p] = IF Len(b) >= BatchSize THEN FlushStage(b) ELSE "idle"]
          /\ chan' = [chan EXCEPT ![p] = Tail(@)]
          /\ stage[p] = "idle"
      BY <1>1 DEF Receive
    <2>4. UNCHANGED <<durable, dlq, minted, owner, status, consumer, at, dlqBuf, budgets>>
      BY <1>1 DEF Receive
    <2> HIDE DEF b
    <2>5. /\ batch' \in [Replicas -> Seq(Items)] /\ chan' \in [Replicas -> Seq(Items)]
          /\ stage' \in [Replicas -> Stages]
      BY <2>1, <2>2, <2>3 DEF TypeOK, Stages
    <2>6. ASSUME NEW p2 \in Replicas
          PROVE  IF Writing(p2)' THEN at'[p2] \in DOMAIN batch'[p2] ELSE at'[p2] = 1
      BY <2>1, <2>3, <2>4 DEF TypeOK, Writing
    <2> QED BY <2>4, <2>5, <2>6 DEF TypeOK, durable, consumer, client, iter, budgets
  <1>2. CASE Tick(p)
    <2>1. FlushStage(batch[p]) \in {"copy", "commit"} /\ 1 \in DOMAIN batch[p]
      BY <1>2, BatchTyped DEF FlushStage, Tick
    <2> QED BY <1>2, <2>1 DEF TypeOK, Tick, durable, consumer, client, iter, budgets, Writing, Stages
  <1>3. CASE Drain(p)
    <2> DEFINE all == batch[p] \o chan[p]
    <2>1. all \in Seq(Items)
      BY BatchTyped
    <2>2. /\ stage' = [stage EXCEPT ![p] = "returned"]
          /\ chan' = [chan EXCEPT ![p] = <<>>]
          /\ UNCHANGED <<events, summary, dlq, minted, owner, status, consumer, at, dlqBuf, budgets>>
          /\ stage[p] = "idle"
      BY <1>3 DEF Drain
    <2>3. /\ \/ batch' = [batch EXCEPT ![p] = all] /\ UNCHANGED committed
             \/ /\ batch' = [batch EXCEPT ![p] = <<>>]
                /\ \E landed \in SUBSET PartitionsOf(all) : CommitOffsets(all, landed)
      BY <1>3 DEF Drain
    <2> HIDE DEF all
    <2>4. /\ batch' \in [Replicas -> Seq(Items)]
          /\ committed' \in [Partitions -> Nat]
      <3>1. batch' \in [Replicas -> Seq(Items)]
        <4>1. batch' = [batch EXCEPT ![p] = all] \/ batch' = [batch EXCEPT ![p] = <<>>]
          BY <2>3
        <4>2. <<>> \in Seq(Items) /\ batch \in [Replicas -> Seq(Items)]
          BY DEF TypeOK
        <4> QED BY <2>1, <4>1, <4>2
      <3>2. CASE UNCHANGED committed
        BY <3>1, <3>2 DEF TypeOK
      <3>3. CASE \E landed \in SUBSET PartitionsOf(all) : CommitOffsets(all, landed)
        BY <2>1, <3>1, <3>3, CommitTyped
      <3> QED BY <2>3, <3>2, <3>3
    <2>5. ASSUME NEW p2 \in Replicas
          PROVE  IF Writing(p2)' THEN at'[p2] \in DOMAIN batch'[p2] ELSE at'[p2] = 1
      <3>1. CASE p2 = p
        BY <2>2, <3>1 DEF TypeOK, Writing
      <3>2. CASE p2 # p
        <4>1. batch'[p2] = batch[p2] /\ stage'[p2] = stage[p2] /\ at'[p2] = at[p2]
          BY <2>2, <2>3, <3>2 DEF TypeOK
        <4> QED BY <4>1 DEF TypeOK, Writing
      <3> QED BY <3>1, <3>2
    <2>6. stage' \in [Replicas -> Stages] /\ chan' \in [Replicas -> Seq(Items)]
      BY <2>2 DEF TypeOK, Stages
    <2> QED BY <2>2, <2>4, <2>5, <2>6 DEF TypeOK, consumer, client, iter, budgets
  <1> QED BY <1>1, <1>2, <1>3, TypeFlush DEF ProcessBatches

LEMMA TypeNext == TypeOK /\ [Next]_vars => TypeOK'
  <1> SUFFICES ASSUME TypeOK, [Next]_vars PROVE TypeOK'
    OBVIOUS
  <1>1. CASE UNCHANGED vars
    BY <1>1 DEF TypeOK, vars, durable, consumer, client, iter, flusher, budgets, Writing
  <1>2. CASE Next
    <2> PICK p \in Replicas :
          Process(p) \/ Rebalance(p) \/ Consume(p) \/ DlqAck(p) \/ DlqFail(p) \/ ProcessBatches(p)
      BY <1>2 DEF Next
    <2> QED BY TypeProcess, TypeRebalance, TypeConsume, TypeDlq, TypeProcessBatches
  <1> QED BY <1>1, <1>2

\* The processor's state is well typed in every reachable state: records and
\* events are the topic's, a poll stays inside the log, the loops of a flush
\* stay inside the batch.
THEOREM TypeCorrect == Spec => []TypeOK
  BY TypeInit, TypeNext, PTL DEF Spec

-----------------------------------------------------------------------------
(* What a step does to the items in memory: nothing, as they move along, or  *)
(* the next record of the poll is appended.                                  *)

LEMMA PipeTyped ==
    ASSUME TypeOK, NEW p \in Replicas
    PROVE  Pipe(p) \in Seq(Items) /\ chan[p] \o sending[p] \in Seq(Items)
  BY BatchTyped DEF Pipe

LEMMA Reassociate ==
    ASSUME NEW s \in Seq(Items), NEW t \in Seq(Items), NEW u \in Seq(Items)
    PROVE  (s \o t) \o u = s \o (t \o u)
  BY ConcatAssociative

\* Send moves the item in hand into the channel.
LEMMA SendKeepsPipe ==
    ASSUME TypeOK, NEW p \in Replicas, Send(p) \/ Quit(p)
    PROVE  Pipe(p)' = Pipe(p)
  <1>1. CASE Send(p)
    <2>1. /\ batch[p] \in Seq(Items) /\ chan[p] \o sending[p] \in Seq(Items)
          /\ chan'[p] = chan[p] \o sending[p] /\ sending'[p] = <<>>
      BY <1>1, BatchTyped, PipeTyped DEF Send, TypeOK
    <2>2. chan'[p] \o sending'[p] = chan[p] \o sending[p]
      BY <2>1
    <2> QED BY <1>1, <2>2 DEF Pipe, Send, flusher
  <1>2. CASE Quit(p)
    BY <1>2 DEF Quit, Pipe, flusher
  <1> QED BY <1>1, <1>2

\* Receive moves the channel's first item into the batch.
LEMMA ReceiveKeepsPipe ==
    ASSUME TypeOK, NEW p \in Replicas, Receive(p) \/ Tick(p)
    PROVE  Pipe(p)' = Pipe(p)
  <1>1. CASE Tick(p)
    BY <1>1 DEF Tick, Pipe, consumer
  <1>2. CASE Receive(p)
    <2> DEFINE h == <<Head(chan[p])>>
               t == Tail(chan[p])
    <2>1. /\ batch[p] \in Seq(Items) /\ sending[p] \in Seq(Items) /\ chan[p] \in Seq(Items)
          /\ chan[p] # <<>>
      BY <1>2, BatchTyped DEF Receive
    <2>2. h \in Seq(Items) /\ t \in Seq(Items) /\ chan[p] = h \o t /\ t \o sending[p] \in Seq(Items)
          /\ Append(batch[p], Head(chan[p])) = batch[p] \o h
      <3>1. Head(chan[p]) \in Items /\ t \in Seq(Items) /\ h \in Seq(Items)
        BY <2>1
      <3>2. Append(batch[p], Head(chan[p])) = batch[p] \o h
        BY <2>1, <3>1, AppendIsConcat
      <3>3. chan[p] = h \o t
        BY <2>1
      <3>4. t \o sending[p] \in Seq(Items)
        BY <2>1, <3>1
      <3> QED BY <3>1, <3>2, <3>3, <3>4
    <2>3. batch'[p] = batch[p] \o h /\ chan'[p] = t /\ sending'[p] = sending[p]
      BY <1>2, <2>2 DEF Receive, TypeOK, consumer
    <2> HIDE DEF h, t
    <2>4. (batch[p] \o h) \o (t \o sending[p]) = batch[p] \o (h \o (t \o sending[p]))
      BY <2>1, <2>2, Reassociate
    <2>5. (h \o t) \o sending[p] = h \o (t \o sending[p])
      BY <2>1, <2>2, Reassociate
    <2>6. Pipe(p) = batch[p] \o ((h \o t) \o sending[p])
      BY <2>2 DEF Pipe
    <2>7. Pipe(p)' = (batch[p] \o h) \o (t \o sending[p])
      BY <2>3 DEF Pipe
    <2> QED BY <2>4, <2>5, <2>6, <2>7
  <1> QED BY <1>1, <1>2

\* Decode appends the poll's next record of some partition.
LEMMA DecodeAppends ==
    ASSUME TypeOK, NEW p \in Replicas, Decode(p)
    PROVE  \E q \in Partitions, x \in Items :
              /\ ItemOK(x) /\ x.rec = <<q, iterPos[p][q] + 1>>
              /\ iterPos[p][q] < iterEnd[p][q]
              /\ iterPos' = [iterPos EXCEPT ![p][q] = @ + 1]
              /\ sending' = [sending EXCEPT ![p] = <<x>>]
              /\ Pipe(p)' = Pipe(p) \o <<x>>
  <1> PICK q \in Partitions :
        LET r == <<q, iterPos[p][q] + 1>> IN
        /\ iterPos[p][q] < iterEnd[p][q]
        /\ iterPos' = [iterPos EXCEPT ![p][q] = @ + 1]
        /\ IF Poison(r)
             THEN /\ sending' = [sending EXCEPT ![p] = <<[rec |-> r, event |-> NoEvent]>>]
                  /\ dlqBuf' = [dlqBuf EXCEPT ![p] = @ \cup Published(r)]
                  /\ UNCHANGED minted
             ELSE \E e \in EventIds :
                  /\ DecodesTo(r, e)
                  /\ Message(r).id = NoId => minted < MaxMints /\ e = <<r, minted + 1>>
                  /\ minted' = IF Message(r).id = NoId THEN minted + 1 ELSE minted
                  /\ sending' = [sending EXCEPT ![p] = <<[rec |-> r, event |-> e]>>]
                  /\ UNCHANGED dlqBuf
    BY DEF Decode
  <1> DEFINE r == <<q, iterPos[p][q] + 1>>
  <1>1. r \in Records /\ r[1] = q /\ r[2] = iterPos[p][q] + 1
    BY DecodedItem
  <1>4. IF Poison(r)
          THEN sending' = [sending EXCEPT ![p] = <<[rec |-> r, event |-> NoEvent]>>]
          ELSE \E e \in EventIds :
               DecodesTo(r, e) /\ sending' = [sending EXCEPT ![p] = <<[rec |-> r, event |-> e]>>]
    OBVIOUS
  <1>2. PICK x \in Items : ItemOK(x) /\ x.rec = r /\ sending' = [sending EXCEPT ![p] = <<x>>]
    <2>1. CASE Poison(r)
      <3> DEFINE y == [rec |-> r, event |-> NoEvent]
      <3>1. y \in Items /\ ItemOK(y) /\ y.rec = r
        BY <1>1, <2>1 DEF Items, ItemOK
      <3>2. sending' = [sending EXCEPT ![p] = <<y>>]
        BY <1>4, <2>1
      <3> HIDE DEF y, r
      <3> QED BY <3>1, <3>2
    <2>2. CASE ~ Poison(r)
      <3>1. PICK e \in EventIds : /\ DecodesTo(r, e)
                                  /\ sending' = [sending EXCEPT ![p] = <<[rec |-> r, event |-> e]>>]
        BY <1>4, <2>2
      <3> DEFINE y == [rec |-> r, event |-> e]
      <3>2. y \in Items /\ ItemOK(y) /\ y.rec = r
        BY <1>1, <3>1, NoEventAssumption DEF Items, ItemOK
      <3>3. sending' = [sending EXCEPT ![p] = <<y>>]
        BY <3>1
      <3> HIDE DEF y, r
      <3> QED BY <3>2, <3>3
    <2> HIDE DEF r
    <2> QED BY <2>1, <2>2
  <1>3. Pipe(p)' = Pipe(p) \o <<x>>
    <2>0. batch' = batch /\ chan' = chan /\ sending[p] = <<>>
      BY DEF Decode, flusher
    <2>1. batch[p] \in Seq(Items) /\ chan[p] \in Seq(Items) /\ <<x>> \in Seq(Items)
      BY BatchTyped
    <2>2. /\ batch'[p] = batch[p] /\ chan'[p] = chan[p] /\ sending'[p] = <<x>>
          /\ chan[p] \o sending[p] = chan[p]
      BY <1>2, <2>0, <2>1 DEF TypeOK
    <2>3. (batch[p] \o chan[p]) \o <<x>> = batch[p] \o (chan[p] \o <<x>>)
      BY <2>1, Reassociate
    <2> QED BY <2>2, <2>3 DEF Pipe
  <1> QED BY <1>2, <1>3
=============================================================================
