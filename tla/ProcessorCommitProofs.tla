------------------------ MODULE ProcessorCommitProofs ------------------------
(***************************************************************************)
(* No committed offset covers a record that is not stored: CommitInv is    *)
(* inductive. What a replica has in memory matters only as one sequence,   *)
(* Pipe(p), from the batch to the item in consume's hand: the steps either *)
(* leave it as it is, append to it, or take a settled prefix away.         *)
(***************************************************************************)
EXTENDS ProcessorProofs

LEMMA SettledGrows ==
    ASSUME NEW r, NEW S, NEW T, S \subseteq T, Settled(r, S)
    PROVE  Settled(r, T)
  BY DEF Settled

\* An item may be appended when everything before its record is accounted for.
LEMMA OrderedAppend ==
    ASSUME NEW s \in Seq(Items), NEW x \in Items, Ordered(s),
           \A i \in 1 .. x.rec[2] - 1 :
               Settled(<<x.rec[1], i>>, events) \/ HasRecord(s, <<x.rec[1], i>>)
    PROVE  Ordered(s \o <<x>>)
  <1> DEFINE t == s \o <<x>>
  <1>1. /\ Len(t) = Len(s) + 1 /\ Len(s) \in Nat /\ DOMAIN s = 1 .. Len(s)
        /\ \A k \in 1 .. Len(s) : t[k] = s[k]
        /\ t[Len(s) + 1] = x /\ DOMAIN t = 1 .. Len(s) + 1
    OBVIOUS
  <1> HIDE DEF t
  <1>2. ASSUME NEW k \in DOMAIN t, NEW i \in 1 .. t[k].rec[2] - 1
        PROVE  \/ Settled(<<t[k].rec[1], i>>, events)
               \/ \E l \in 1 .. k - 1 : t[l].rec = <<t[k].rec[1], i>>
    <2>1. CASE k \in 1 .. Len(s)
      <3>1. t[k] = s[k] /\ k \in DOMAIN s /\ i \in 1 .. s[k].rec[2] - 1
        BY <1>1, <2>1
      <3>2. \/ Settled(<<s[k].rec[1], i>>, events)
            \/ \E l \in 1 .. k - 1 : s[l].rec = <<s[k].rec[1], i>>
        BY <3>1 DEF Ordered
      <3>3. \A l \in 1 .. k - 1 : t[l] = s[l]
        BY <1>1, <2>1
      <3> QED BY <3>1, <3>2, <3>3
    <2>2. CASE k = Len(s) + 1
      <3>1. t[k] = x
        BY <1>1, <2>2
      <3>2. CASE HasRecord(s, <<x.rec[1], i>>)
        <4>1. PICK l \in 1 .. Len(s) : s[l].rec = <<x.rec[1], i>>
          BY <1>1, <3>2 DEF HasRecord
        <4>2. t[l] = s[l] /\ l \in 1 .. k - 1
          BY <1>1, <2>2
        <4> QED BY <3>1, <4>1, <4>2
      <3> QED BY <3>1, <3>2
    <2> QED BY <1>1, <2>1, <2>2
  <1>3. Ordered(t)
    BY <1>2 DEF Ordered
  <1> QED BY <1>3 DEF t

\* A prefix whose records are settled may be taken away.
LEMMA OrderedDrop ==
    ASSUME NEW s \in Seq(Items), NEW t \in Seq(Items), Ordered(s \o t),
           \A k \in DOMAIN s : Settled(s[k].rec, events)
    PROVE  Ordered(t)
  <1> DEFINE u == s \o t
  <1>1. /\ Len(s) \in Nat /\ Len(t) \in Nat /\ DOMAIN s = 1 .. Len(s) /\ DOMAIN t = 1 .. Len(t)
        /\ \A k \in 1 .. Len(s) : u[k] = s[k]
        /\ \A k \in 1 .. Len(t) : u[Len(s) + k] = t[k]
        /\ DOMAIN u = 1 .. Len(s) + Len(t)
    OBVIOUS
  <1>2. Ordered(u)
    OBVIOUS
  <1> HIDE DEF u
  <1>3. ASSUME NEW k \in DOMAIN t, NEW i \in 1 .. t[k].rec[2] - 1,
               ~ Settled(<<t[k].rec[1], i>>, events)
        PROVE  \E l \in 1 .. k - 1 : t[l].rec = <<t[k].rec[1], i>>
    <2>1. u[Len(s) + k] = t[k] /\ Len(s) + k \in DOMAIN u
      BY <1>1
    <2>2. PICK l \in 1 .. (Len(s) + k) - 1 : u[l].rec = <<t[k].rec[1], i>>
      BY <1>2, <1>3, <2>1 DEF Ordered
    <2>3. CASE l \in 1 .. Len(s)
      BY <1>1, <1>3, <2>2, <2>3
    <2>4. CASE l \notin 1 .. Len(s)
      <3>1. l - Len(s) \in 1 .. k - 1 /\ l - Len(s) \in 1 .. Len(t)
        BY <1>1, <2>2, <2>4
      <3>2. u[Len(s) + (l - Len(s))] = t[l - Len(s)] /\ Len(s) + (l - Len(s)) = l
        BY <1>1, <2>2, <3>1
      <3> QED BY <2>2, <3>1, <3>2
    <2> QED BY <2>3, <2>4
  <1> QED BY <1>3 DEF Ordered

LEMMA HasRecordDrop ==
    ASSUME NEW s \in Seq(Items), NEW t \in Seq(Items), NEW r, HasRecord(s \o t, r),
           \A k \in DOMAIN s : Settled(s[k].rec, events)
    PROVE  Settled(r, events) \/ HasRecord(t, r)
  <1> DEFINE u == s \o t
  <1>1. /\ Len(s) \in Nat /\ Len(t) \in Nat /\ DOMAIN s = 1 .. Len(s) /\ DOMAIN t = 1 .. Len(t)
        /\ \A k \in 1 .. Len(s) : u[k] = s[k]
        /\ \A k \in 1 .. Len(t) : u[Len(s) + k] = t[k]
        /\ DOMAIN u = 1 .. Len(s) + Len(t)
    OBVIOUS
  <1>2. PICK k \in DOMAIN u : u[k].rec = r
    BY DEF HasRecord
  <1> HIDE DEF u
  <1>3. CASE k \in 1 .. Len(s)
    BY <1>1, <1>2, <1>3
  <1>4. CASE k \notin 1 .. Len(s)
    <2>1. k - Len(s) \in 1 .. Len(t)
      BY <1>1, <1>4
    <2>2. u[Len(s) + (k - Len(s))] = t[k - Len(s)] /\ Len(s) + (k - Len(s)) = k
      BY <1>1, <2>1
    <2> QED BY <1>1, <1>2, <2>1, <2>2 DEF HasRecord
  <1> QED BY <1>3, <1>4

LEMMA HasRecordAppend ==
    ASSUME NEW s \in Seq(Items), NEW x \in Items
    PROVE  /\ HasRecord(s \o <<x>>, x.rec)
           /\ \A r : HasRecord(s, r) => HasRecord(s \o <<x>>, r)
  <1> DEFINE t == s \o <<x>>
  <1>1. /\ Len(s) \in Nat /\ DOMAIN s = 1 .. Len(s)
        /\ \A k \in 1 .. Len(s) : t[k] = s[k]
        /\ t[Len(s) + 1] = x /\ DOMAIN t = 1 .. Len(s) + 1
    OBVIOUS
  <1> HIDE DEF t
  <1>2. HasRecord(t, x.rec)
    BY <1>1 DEF HasRecord
  <1>3. \A r : HasRecord(s, r) => HasRecord(t, r)
    BY <1>1 DEF HasRecord
  <1> QED BY <1>2, <1>3 DEF t

LEMMA ItemsGrow ==
    ASSUME NEW s \in Seq(Items), NEW t \in Seq(Items), ItemsOK(s), ItemsOK(t)
    PROVE  ItemsOK(s \o t)
  BY DEF ItemsOK

LEMMA ItemsPart ==
    ASSUME NEW s \in Seq(Items), NEW t \in Seq(Items), ItemsOK(s \o t)
    PROVE  ItemsOK(s) /\ ItemsOK(t)
  <1> DEFINE u == s \o t
  <1>1. /\ Len(s) \in Nat /\ Len(t) \in Nat /\ DOMAIN s = 1 .. Len(s) /\ DOMAIN t = 1 .. Len(t)
        /\ \A k \in 1 .. Len(s) : u[k] = s[k] /\ k \in DOMAIN u
        /\ \A k \in 1 .. Len(t) : u[Len(s) + k] = t[k] /\ Len(s) + k \in DOMAIN u
    OBVIOUS
  <1>2. ItemsOK(u)
    OBVIOUS
  <1> HIDE DEF u
  <1> QED BY <1>1, <1>2 DEF ItemsOK

\* A stored event settles the record of its item, and so does a nil event.
LEMMA StoredSettles ==
    ASSUME NEW x, ItemOK(x), x.event \in events \cup {NoEvent}
    PROVE  Settled(x.rec, events)
  BY DEF ItemOK, Settled

LEMMA OrderedFrame ==
    ASSUME NEW p \in Replicas, NEW s, Ordered(s), Pipe(p)' = s, events \subseteq events'
    PROVE  Ordered(Pipe(p))'
  <1>1. ASSUME NEW k \in DOMAIN s, NEW i \in 1 .. s[k].rec[2] - 1
        PROVE  \/ Settled(<<s[k].rec[1], i>>, events')
               \/ \E l \in 1 .. k - 1 : s[l].rec = <<s[k].rec[1], i>>
    <2>1. \/ Settled(<<s[k].rec[1], i>>, events)
          \/ \E l \in 1 .. k - 1 : s[l].rec = <<s[k].rec[1], i>>
      BY DEF Ordered
    <2> QED BY <2>1, SettledGrows
  <1> QED BY <1>1 DEF Ordered

LEMMA AccountedFrame ==
    ASSUME NEW p \in Replicas, events \subseteq events', NEW r, Accounted(p, r),
           HasRecord(Pipe(p), r) => HasRecord(Pipe(p)', r)
    PROVE  Accounted(p, r)'
  BY SettledGrows DEF Accounted

\* A replica whose memory does not change keeps its part of the invariant.
LEMMA CoveredFrame ==
    ASSUME NEW p \in Replicas, Covered(p), events \subseteq events',
           Pipe(p)' = Pipe(p),
           iterPos'[p] = iterPos[p], iterEnd'[p] = iterEnd[p],
           held'[p] \subseteq held[p], position'[p] = position[p],
           consuming'[p] => consuming[p]
    PROVE  Covered(p)'
  <1>1. Ordered(Pipe(p))'
    BY OrderedFrame DEF Covered
  <1>2. ASSUME NEW r, Accounted(p, r) PROVE Accounted(p, r)'
    BY <1>2, AccountedFrame
  <1>3. IterCovered(p)'
    BY <1>2 DEF Covered, IterCovered
  <1>4. PositionCovered(p)'
    BY <1>2 DEF Covered, PositionCovered
  <1> QED BY <1>1, <1>3, <1>4 DEF Covered

LEMMA StoredFrame ==
    ASSUME NEW p \in Replicas, StoredSoFar(p), events \subseteq events',
           batch'[p] = batch[p], stage'[p] = stage[p], at'[p] = at[p]
    PROVE  StoredSoFar(p)'
  BY DEF StoredSoFar

\* What CommitInv says of one replica.
Local(p) ==
    /\ DownIsEmpty(p)
    /\ ItemsOK(Pipe(p))
    /\ StoredSoFar(p)
    /\ stage[p] # "returned" => Covered(p)

LEMMA OthersFrame ==
    ASSUME NEW p \in Replicas, Local(p), events \subseteq events',
           batch'[p] = batch[p], chan'[p] = chan[p], sending'[p] = sending[p],
           stage'[p] = stage[p], at'[p] = at[p], status'[p] = status[p],
           iterPos'[p] = iterPos[p], iterEnd'[p] = iterEnd[p],
           held'[p] = held[p], position'[p] = position[p], consuming'[p] = consuming[p]
    PROVE  Local(p)'
  <1>1. Pipe(p)' = Pipe(p)
    BY DEF Pipe
  <1>2. DownIsEmpty(p)'
    BY DEF Local, DownIsEmpty
  <1>3. ItemsOK(Pipe(p))'
    BY <1>1 DEF Local, ItemsOK
  <1> QED BY <1>1, <1>2, <1>3, CoveredFrame, StoredFrame DEF Local

LEMMA CommittedFrame ==
    ASSUME NoUnstoredCommit, committed' = committed, events \subseteq events'
    PROVE  NoUnstoredCommit'
  BY SettledGrows DEF NoUnstoredCommit

LEMMA CommitInvLocal ==
    CommitInv <=> /\ TypeOK /\ NoUnstoredCommit
                  /\ \A q \in Partitions : committed[q] <= Len(Topic[q])
                  /\ \A p \in Replicas : Local(p)
  BY DEF CommitInv, Local

LEMMA CommitInit == Init => CommitInv
  <1> SUFFICES ASSUME Init PROVE CommitInv
    OBVIOUS
  <1>1. TypeOK
    BY TypeInit
  <1>2. NoUnstoredCommit /\ \A q \in Partitions : committed[q] <= Len(Topic[q])
    BY TopicLength DEF Init, NoUnstoredCommit
  <1>3. ASSUME NEW p \in Replicas PROVE Local(p)
    <2>1. Pipe(p) = <<>>
      BY DEF Init, Pipe
    <2>2. DOMAIN Pipe(p) = {} /\ DOMAIN batch[p] = {}
      BY <2>1 DEF Init
    <2> QED BY <2>1, <2>2 DEF Init, Local, DownIsEmpty, ItemsOK, StoredSoFar, Covered, Ordered,
                              IterCovered, PositionCovered
  <1> QED BY <1>1, <1>2, <1>3, CommitInvLocal

\* Nothing in the memory of p changes.
Untouched(p) ==
    /\ batch'[p] = batch[p] /\ chan'[p] = chan[p] /\ sending'[p] = sending[p]
    /\ stage'[p] = stage[p] /\ at'[p] = at[p] /\ status'[p] = status[p]
    /\ iterPos'[p] = iterPos[p] /\ iterEnd'[p] = iterEnd[p]
    /\ held'[p] = held[p] /\ position'[p] = position[p] /\ consuming'[p] = consuming[p]

\* A step of p leaves the memory of the other replicas alone: what remains to
\* be shown of it is about p and the committed offsets.
LEMMA CommitStep ==
    ASSUME CommitInv, TypeOK', NEW p \in Replicas, Local(p)', events \subseteq events',
           NoUnstoredCommit', \A q \in Partitions : committed'[q] <= Len(Topic[q]),
           \A p2 \in Replicas : p2 # p => Untouched(p2)
    PROVE  CommitInv'
  <1>1. ASSUME NEW p2 \in Replicas, p2 # p PROVE Local(p2)'
    BY <1>1, OthersFrame, CommitInvLocal DEF Untouched
  <1> QED BY <1>1 DEF CommitInv, Local

LEMMA CommitStepKeeps ==
    ASSUME CommitInv, TypeOK', NEW p \in Replicas, Local(p)', events \subseteq events',
           committed' = committed, \A p2 \in Replicas : p2 # p => Untouched(p2)
    PROVE  CommitInv'
  BY CommitStep, CommittedFrame DEF CommitInv

LEMMA CommitProcess ==
    ASSUME CommitInv, TypeOK', NEW p \in Replicas, Process(p)
    PROVE  CommitInv'
  <1> USE DEF CommitInv
  <1>1. Local(p)
    BY CommitInvLocal
  <1>2. CASE Start(p)
    <2>1. \A p2 \in Replicas : p2 # p => Untouched(p2)
      BY <1>2 DEF Start, TypeOK, Untouched, client, iter, flusher
    <2>2. events' = events /\ committed' = committed
      BY <1>2 DEF Start, durable
    <2>3. /\ Pipe(p)' = Pipe(p) /\ Pipe(p) = <<>> /\ held'[p] = {} /\ iterPos' = iterPos /\ iterEnd' = iterEnd
          /\ batch' = batch /\ stage'[p] = "idle" /\ at' = at /\ status'[p] = "up"
          /\ \A q \in Partitions : iterPos[p][q] = iterEnd[p][q]
      BY <1>1, <1>2 DEF Start, TypeOK, Pipe, Local, DownIsEmpty, client, iter, flusher
    <2>4. Local(p)'
      <3>1. DownIsEmpty(p)' /\ ItemsOK(Pipe(p))' /\ StoredSoFar(p)'
        BY <1>1, <2>2, <2>3 DEF DownIsEmpty, Local, ItemsOK, StoredSoFar
      <3>2. Ordered(Pipe(p))'
        BY <2>3 DEF Ordered
      <3>3. IterCovered(p)' /\ PositionCovered(p)'
        BY <2>3 DEF IterCovered, PositionCovered, TypeOK
      <3> QED BY <3>1, <3>2, <3>3 DEF Local, Covered
    <2> QED BY <2>1, <2>2, <2>4, CommitStepKeeps
  <1>3. CASE Stop(p)
    <2>1. \A p2 \in Replicas : p2 # p => Untouched(p2)
      BY <1>3 DEF Stop, TypeOK, Untouched, consumer, client, iter, flusher
    <2>2. /\ events' = events /\ committed' = committed /\ status'[p] = "stopping"
          /\ batch' = batch /\ chan' = chan /\ sending' = sending /\ stage' = stage /\ at' = at
          /\ iterPos' = iterPos /\ iterEnd' = iterEnd /\ held' = held /\ position' = position
          /\ consuming' = consuming
      BY <1>3 DEF Stop, TypeOK, durable, consumer, client, iter, flusher
    <2>3. Pipe(p)' = Pipe(p)
      BY <2>2 DEF Pipe
    <2>4. Local(p)'
      <3>1. DownIsEmpty(p)' /\ ItemsOK(Pipe(p))' /\ StoredSoFar(p)'
        BY <1>1, <2>2, <2>3, StoredFrame DEF DownIsEmpty, Local, ItemsOK
      <3> QED BY <1>1, <2>2, <2>3, <3>1, CoveredFrame DEF Local
    <2> QED BY <2>1, <2>2, <2>4, CommitStepKeeps
  <1>4. ASSUME Vanish(p) PROVE CommitInv'
    <2>1. \A p2 \in Replicas : p2 # p => Untouched(p2)
      BY <1>4 DEF Vanish, TypeOK, Untouched
    <2>2. events' = events /\ committed' = committed
      BY <1>4 DEF Vanish, durable
    <2>3. /\ batch'[p] = <<>> /\ chan'[p] = <<>> /\ sending'[p] = <<>>
          /\ ~ consuming'[p] /\ held'[p] = {} /\ stage'[p] = "idle"
          /\ iterPos'[p] = [q \in Partitions |-> 0] /\ iterEnd'[p] = [q \in Partitions |-> 0]
      BY <1>4 DEF Vanish, TypeOK
    <2>4. Pipe(p)' = <<>>
      BY <2>3 DEF Pipe
    <2>5. Local(p)'
      BY <2>3, <2>4 DEF Local, DownIsEmpty, ItemsOK, StoredSoFar, Covered, Ordered, IterCovered, PositionCovered
    <2> QED BY <2>1, <2>2, <2>5, CommitStepKeeps
  <1> QED BY <1>2, <1>3, <1>4 DEF Process, Exit, Crash

LEMMA CommitRebalance ==
    ASSUME CommitInv, TypeOK', NEW p \in Replicas, Rebalance(p)
    PROVE  CommitInv'
  <1> USE DEF CommitInv
  <1> PICK q \in Partitions : Assign(p, q) \/ Expire(p, q) \/ Lost(p, q) \/ Revoke(p, q)
    BY DEF Rebalance
  <1>1. /\ events' = events /\ committed' = committed /\ status' = status
        /\ batch' = batch /\ chan' = chan /\ sending' = sending /\ stage' = stage /\ at' = at
        /\ iterPos' = iterPos /\ iterEnd' = iterEnd /\ consuming' = consuming
    BY DEF Assign, Expire, Lost, Revoke, durable, consumer, client, iter, flusher
  <1>2. \A p2 \in Replicas : p2 # p => held'[p2] = held[p2] /\ position'[p2] = position[p2]
    BY DEF Assign, Expire, Lost, Revoke, consumer, client, TypeOK
  <1>3. \A p2 \in Replicas : p2 # p => Untouched(p2)
    BY <1>1, <1>2 DEF Untouched
  <1>4. Local(p) /\ Pipe(p)' = Pipe(p)
    BY <1>1, CommitInvLocal DEF Pipe
  <1>5. ItemsOK(Pipe(p))' /\ StoredSoFar(p)'
    BY <1>1, <1>4, StoredFrame DEF Local, ItemsOK
  <1>6. CASE Expire(p, q) \/ Lost(p, q) \/ Revoke(p, q)
    <2>1. held'[p] \subseteq held[p] /\ position' = position
      <3>1. CASE Expire(p, q)
        BY <3>1 DEF Expire, consumer, client
      <3>2. CASE Lost(p, q)
        BY <3>2 DEF Lost, TypeOK
      <3>3. CASE Revoke(p, q)
        BY <3>3 DEF Revoke, TypeOK
      <3> QED BY <1>6, <3>1, <3>2, <3>3
    <2>2. DownIsEmpty(p)'
      BY <1>1, <1>4, <2>1 DEF DownIsEmpty, Local
    <2>3. stage[p] # "returned" => Covered(p)'
      BY <1>1, <1>4, <2>1, CoveredFrame DEF Local
    <2> QED BY <1>1, <1>3, <1>5, <2>2, <2>3, CommitStepKeeps DEF Local
  <1>7. CASE Assign(p, q)
    <2>1. /\ held'[p] = held[p] \cup {q} /\ status[p] # "down"
          /\ position'[p] = [position[p] EXCEPT ![q] = committed[q]]
      BY <1>7 DEF Assign, TypeOK
    <2>2. DownIsEmpty(p)'
      BY <1>1, <2>1 DEF DownIsEmpty
    <2>3. ASSUME stage[p] # "returned" PROVE Covered(p)'
      <3>1. Covered(p)
        BY <1>4, <2>3 DEF Local
      <3>2. Ordered(Pipe(p))' /\ \A r : Accounted(p, r)' <=> Accounted(p, r)
        BY <1>1, <1>4, <3>1 DEF Covered, Ordered, Accounted
      <3>3. IterCovered(p)'
        BY <1>1, <3>1, <3>2 DEF Covered, IterCovered
      <3>4. PositionCovered(p)'
        <4>1. SUFFICES ASSUME consuming[p], NEW q2 \in held[p] \cup {q}, NEW i \in 1 .. position'[p][q2]
                       PROVE  \/ Accounted(p, <<q2, i>>)
                              \/ i \in (iterPos[p][q2] + 1) .. iterEnd[p][q2]
          BY <1>1, <2>1, <3>2 DEF PositionCovered
        <4>2. CASE q2 = q
          BY <2>1, <4>1, <4>2 DEF NoUnstoredCommit, Accounted, TypeOK
        <4>3. CASE q2 # q
          BY <2>1, <3>1, <4>1, <4>3 DEF Covered, PositionCovered, TypeOK
        <4> QED BY <4>2, <4>3
      <3> QED BY <3>2, <3>3, <3>4 DEF Covered
    <2> QED BY <1>1, <1>3, <1>5, <2>2, <2>3, CommitStepKeeps DEF Local
  <1> QED BY <1>6, <1>7

LEMMA CommitPoll ==
    ASSUME CommitInv, TypeOK', NEW p \in Replicas, Poll(p)
    PROVE  CommitInv'
  <1> USE DEF CommitInv
  <1>1. PICK upto \in [held[p] -> UNION {0 .. Len(Topic[q]) : q \in held[p]}] :
          /\ \A q \in held[p] : upto[q] \in position[p][q] .. Len(Topic[q])
          /\ position' = [position EXCEPT ![p] =
                [q \in Partitions |-> IF q \in held[p] THEN upto[q] ELSE @[q]]]
          /\ iterPos' = [iterPos EXCEPT ![p] =
                [q \in Partitions |-> IF q \in held[p] THEN position[p][q] ELSE @[q]]]
          /\ iterEnd' = [iterEnd EXCEPT ![p] =
                [q \in Partitions |-> IF q \in held[p] THEN upto[q] ELSE @[q]]]
    BY DEF Poll
  <1>2. /\ events' = events /\ committed' = committed /\ status' = status
        /\ batch' = batch /\ chan' = chan /\ sending' = sending /\ stage' = stage /\ at' = at
        /\ held' = held /\ consuming' = consuming
        /\ consuming[p] /\ IterDone(p)
    BY DEF Poll, durable, flusher
  <1>3. \A p2 \in Replicas : p2 # p => Untouched(p2)
    BY <1>1, <1>2 DEF Untouched, TypeOK
  <1>4. /\ held[p] \subseteq Partitions
        /\ \A q \in Partitions : /\ position[p][q] \in Nat /\ iterPos[p][q] \in Nat
                                 /\ iterPos[p][q] = iterEnd[p][q]
        /\ \A q \in held[p] : /\ position'[p][q] = upto[q] /\ iterPos'[p][q] = position[p][q]
                              /\ iterEnd'[p][q] = upto[q]
        /\ \A q \in Partitions : q \notin held[p] =>
              iterPos'[p][q] = iterPos[p][q] /\ iterEnd'[p][q] = iterEnd[p][q]
    BY <1>1, <1>2 DEF TypeOK, IterDone
  <1>5. Local(p) /\ Pipe(p)' = Pipe(p)
    BY <1>2, CommitInvLocal DEF Pipe
  <1>6. ItemsOK(Pipe(p))' /\ StoredSoFar(p)' /\ DownIsEmpty(p)'
    BY <1>2, <1>5, StoredFrame DEF Local, ItemsOK, DownIsEmpty
  <1>7. ASSUME stage[p] # "returned" PROVE Covered(p)'
    <2>1. Covered(p)
      BY <1>5, <1>7 DEF Local
    <2>2. Ordered(Pipe(p))' /\ \A r : Accounted(p, r) => Accounted(p, r)'
      BY <1>2, <1>5, <2>1, OrderedFrame, AccountedFrame DEF Covered
    <2>3. ASSUME NEW q \in held[p], NEW i \in 1 .. position[p][q]
          PROVE  Accounted(p, <<q, i>>)
      <3>1. Accounted(p, <<q, i>>) \/ i \in (iterPos[p][q] + 1) .. iterEnd[p][q]
        BY <1>2, <2>1 DEF Covered, PositionCovered
      <3>2. q \in Partitions
        BY <1>4
      <3> QED BY <1>4, <3>1, <3>2
    <2>4. IterCovered(p)'
      <3>1. SUFFICES ASSUME NEW q \in Partitions, iterPos'[p][q] < iterEnd'[p][q],
                            NEW i \in 1 .. iterPos'[p][q]
                     PROVE  Accounted(p, <<q, i>>)
        BY <2>2 DEF IterCovered
      <3>2. q \in held[p]
        BY <1>4, <3>1
      <3> QED BY <1>4, <2>3, <3>2
    <2>5. PositionCovered(p)'
      <3>1. SUFFICES ASSUME NEW q \in held[p], NEW i \in 1 .. position'[p][q]
                     PROVE  \/ Accounted(p, <<q, i>>)
                            \/ i \in (iterPos'[p][q] + 1) .. iterEnd'[p][q]
        BY <1>2, <2>2 DEF PositionCovered
      <3>2. position'[p][q] = iterEnd'[p][q] /\ iterPos'[p][q] = position[p][q] /\ position[p][q] \in Nat
        BY <1>4
      <3>3. CASE i <= position[p][q]
        BY <2>3, <3>2, <3>3
      <3>4. CASE ~ (i <= position[p][q])
        BY <3>1, <3>2, <3>4
      <3> QED BY <3>3, <3>4
    <2> QED BY <2>2, <2>4, <2>5 DEF Covered
  <1> QED BY <1>2, <1>3, <1>6, <1>7, CommitStepKeeps DEF Local

LEMMA CommitDecode ==
    ASSUME CommitInv, TypeOK', NEW p \in Replicas, Decode(p)
    PROVE  CommitInv'
  <1> USE DEF CommitInv
  <1> PICK q \in Partitions, x \in Items :
        /\ ItemOK(x) /\ x.rec = <<q, iterPos[p][q] + 1>>
        /\ iterPos[p][q] < iterEnd[p][q]
        /\ iterPos' = [iterPos EXCEPT ![p][q] = @ + 1]
        /\ sending' = [sending EXCEPT ![p] = <<x>>]
        /\ Pipe(p)' = Pipe(p) \o <<x>>
    BY DecodeAppends
  <1>3. /\ events' = events /\ committed' = committed /\ status' = status
        /\ batch' = batch /\ chan' = chan /\ stage' = stage /\ at' = at /\ iterEnd' = iterEnd
        /\ held' = held /\ position' = position /\ consuming' = consuming
        /\ consuming[p] /\ sending[p] = <<>>
    BY DEF Decode, durable, client, flusher
  <1>4. /\ iterPos' = [iterPos EXCEPT ![p][q] = @ + 1]
        /\ iterPos[p][q] < iterEnd[p][q]
    OBVIOUS
  <1>5. /\ iterPos'[p][q] = iterPos[p][q] + 1 /\ sending'[p] = <<x>>
        /\ \A q2 \in Partitions : q2 # q => iterPos'[p][q2] = iterPos[p][q2]
        /\ \A q2 \in Partitions : iterPos[p][q2] \in Nat /\ iterEnd[p][q2] \in Nat
    BY <1>4 DEF TypeOK
  <1>6. \A p2 \in Replicas : p2 # p => Untouched(p2)
    BY <1>3, <1>4 DEF Untouched, TypeOK
  <1>7. Local(p) /\ Pipe(p) \in Seq(Items) /\ status[p] # "down"
    BY <1>3, CommitInvLocal, PipeTyped DEF Local, DownIsEmpty
  <1>8. Pipe(p)' = Pipe(p) \o <<x>>
    OBVIOUS
  <1>9. ItemsOK(Pipe(p))' /\ StoredSoFar(p)' /\ DownIsEmpty(p)'
    <2>1. ItemsOK(<<x>>) /\ <<x>> \in Seq(Items)
      BY DEF ItemsOK
    <2>2. ItemsOK(Pipe(p) \o <<x>>)
      BY <1>7, <2>1, ItemsGrow DEF Local
    <2>3. ItemsOK(Pipe(p))'
      BY <1>8, <2>2 DEF ItemsOK
    <2> QED BY <1>3, <1>7, <2>3, StoredFrame DEF Local, DownIsEmpty
  <1>10. ASSUME stage[p] # "returned" PROVE Covered(p)'
    <2>1. Covered(p)
      BY <1>7, <1>10 DEF Local
    <2>2. \A i \in 1 .. iterPos[p][q] : Accounted(p, <<q, i>>)
      BY <1>3, <1>4, <2>1 DEF Covered, IterCovered
    <2>3. x.rec[1] = q /\ x.rec[2] - 1 = iterPos[p][q]
      BY <1>5
    <2>4. Ordered(Pipe(p) \o <<x>>)
      BY <1>7, <2>1, <2>2, <2>3, OrderedAppend DEF Covered, Accounted
    <2>5. Ordered(Pipe(p))'
      BY <1>3, <1>8, <2>4, OrderedFrame
    <2>6. \A s : HasRecord(Pipe(p), s) => HasRecord(Pipe(p) \o <<x>>, s)
      BY <1>7, HasRecordAppend
    <2>7. HasRecord(Pipe(p) \o <<x>>, x.rec)
      BY <1>7, HasRecordAppend
    <2>8. /\ \A s : Accounted(p, s) => Accounted(p, s)'
          /\ Accounted(p, x.rec)'
      <3>1. events \subseteq events'
        BY <1>3
      <3>2. \A s : Accounted(p, s) => Accounted(p, s)'
        BY <1>8, <2>6, <3>1, AccountedFrame
      <3>3. Accounted(p, x.rec)'
        <4>1. HasRecord(Pipe(p)', x.rec)
          BY <1>8, <2>7
        <4> QED BY <4>1 DEF Accounted
      <3> QED BY <3>2, <3>3
    <2> x.rec = <<q, iterPos[p][q] + 1>>
      OBVIOUS
    <2>9. IterCovered(p)'
      <3>1. SUFFICES ASSUME NEW q2 \in Partitions, iterPos'[p][q2] < iterEnd[p][q2],
                            NEW i \in 1 .. iterPos'[p][q2]
                     PROVE  Accounted(p, <<q2, i>>)'
        BY <1>3 DEF IterCovered
      <3>2. CASE q2 = q
        <4>1. CASE i = iterPos[p][q] + 1
          BY <2>8, <3>2, <4>1
        <4>2. CASE i # iterPos[p][q] + 1
          BY <1>5, <2>2, <2>8, <3>2, <4>2
        <4> QED BY <4>1, <4>2
      <3>3. CASE q2 # q
        BY <1>3, <1>5, <2>1, <2>8, <3>1, <3>3 DEF Covered, IterCovered
      <3> QED BY <3>2, <3>3
    <2>10. PositionCovered(p)'
      <3>1. SUFFICES ASSUME NEW q2 \in held[p], NEW i \in 1 .. position[p][q2],
                            i \notin (iterPos'[p][q2] + 1) .. iterEnd[p][q2]
                     PROVE  Accounted(p, <<q2, i>>)'
        BY <1>3 DEF PositionCovered
      <3>2. q2 \in Partitions /\ i \in Nat
        BY DEF TypeOK
      <3>3. Accounted(p, <<q2, i>>) \/ i \in (iterPos[p][q2] + 1) .. iterEnd[p][q2]
        BY <1>3, <2>1, <3>1 DEF Covered, PositionCovered
      <3>4. CASE q2 = q
        <4>1. CASE i = iterPos[p][q] + 1
          BY <2>8, <3>4, <4>1
        <4>2. CASE i # iterPos[p][q] + 1
          BY <1>5, <2>8, <3>1, <3>2, <3>3, <3>4, <4>2
        <4> QED BY <4>1, <4>2
      <3>5. CASE q2 # q
        BY <1>5, <2>8, <3>1, <3>2, <3>3, <3>5
      <3> QED BY <3>4, <3>5
    <2> QED BY <2>5, <2>9, <2>10 DEF Covered
  <1> QED BY <1>3, <1>6, <1>9, <1>10, CommitStepKeeps DEF Local

\* Receive and Send move items along the pipe.
LEMMA CommitSend ==
    ASSUME CommitInv, TypeOK', NEW p \in Replicas, Send(p) \/ Quit(p)
    PROVE  CommitInv'
  <1> USE DEF CommitInv
  <1>1. /\ events' = events /\ committed' = committed /\ status' = status
        /\ batch' = batch /\ stage' = stage /\ at' = at
        /\ iterPos' = iterPos /\ iterEnd' = iterEnd /\ held' = held /\ position' = position
        /\ consuming[p]
    BY DEF Send, Quit, durable, client, iter, flusher
  <1>2. /\ consuming'[p] => consuming[p]
        /\ \A p2 \in Replicas : p2 # p =>
              chan'[p2] = chan[p2] /\ sending'[p2] = sending[p2] /\ consuming'[p2] = consuming[p2]
    BY DEF Send, Quit, TypeOK
  <1>3. Pipe(p)' = Pipe(p)
    BY SendKeepsPipe
  <1>4. Local(p) /\ status[p] # "down"
    BY <1>1, CommitInvLocal DEF Local, DownIsEmpty
  <1>5. ItemsOK(Pipe(p))' /\ StoredSoFar(p)' /\ DownIsEmpty(p)'
    BY <1>1, <1>3, <1>4, StoredFrame DEF Local, ItemsOK, DownIsEmpty
  <1>6. stage[p] # "returned" => Covered(p)'
    BY <1>1, <1>2, <1>3, <1>4, CoveredFrame DEF Local
  <1>7. \A p2 \in Replicas : p2 # p => Untouched(p2)
    BY <1>1, <1>2 DEF Untouched
  <1> QED BY <1>1, <1>5, <1>6, <1>7, CommitStepKeeps DEF Local

LEMMA CommitDlq ==
    ASSUME CommitInv, TypeOK', NEW p \in Replicas, DlqAck(p) \/ DlqFail(p)
    PROVE  CommitInv'
  <1> USE DEF CommitInv
  <1>1. /\ events' = events /\ committed' = committed
        /\ \A p2 \in Replicas : Untouched(p2)
    BY DEF DlqAck, DlqFail, durable, consumer, client, iter, flusher, Untouched
  <1>2. Local(p)'
    BY <1>1, OthersFrame, CommitInvLocal DEF Untouched
  <1> QED BY <1>1, <1>2, CommitStepKeeps

\* A step of processBatches that leaves the pipe alone and commits nothing has
\* only its place in the flush to answer for.
LEMMA CommitFlushStep ==
    ASSUME CommitInv, TypeOK', NEW p \in Replicas, events \subseteq events',
           status[p] # "down", stage[p] # "returned", StoredSoFar(p)', Pipe(p)' = Pipe(p),
           \A p2 \in Replicas : p2 # p =>
               /\ batch'[p2] = batch[p2] /\ chan'[p2] = chan[p2]
               /\ stage'[p2] = stage[p2] /\ at'[p2] = at[p2],
           UNCHANGED <<committed, status, consumer>>
    PROVE  CommitInv'
  <1> USE DEF CommitInv
  <1>1. /\ status' = status /\ sending' = sending /\ iterPos' = iterPos /\ iterEnd' = iterEnd
        /\ held' = held /\ position' = position /\ consuming' = consuming /\ committed' = committed
    BY DEF consumer, client, iter
  <1>2. \A p2 \in Replicas : p2 # p => Untouched(p2)
    BY <1>1 DEF Untouched
  <1>3. Local(p)
    BY CommitInvLocal
  <1>4. DownIsEmpty(p)' /\ ItemsOK(Pipe(p))'
    BY <1>1, <1>3 DEF Local, ItemsOK, DownIsEmpty
  <1>5. Covered(p)'
    BY <1>1, <1>3, CoveredFrame DEF Local
  <1> QED BY <1>1, <1>2, <1>4, <1>5, CommitStepKeeps DEF Local

\* A loop of a flush moves on from an event that is stored or nil.
LEMMA StoredAdvance ==
    ASSUME CommitInv, NEW p \in Replicas, NEW loop \in {"summaries", "row"}, Writing(p),
           stage[p] # "copy", loop = "summaries" <=> stage[p] = "summaries",
           batch' = batch, events \subseteq events', batch[p][at[p]].event \in events \cup {NoEvent},
           Advance(p, at[p], loop)
    PROVE  StoredSoFar(p)'
  <1>1. /\ at[p] \in 1 .. Len(batch[p]) /\ Len(batch[p]) \in Nat
        /\ DOMAIN batch[p] = 1 .. Len(batch[p])
    BY BatchTyped DEF CommitInv, TypeOK
  <1>2. /\ at'[p] = IF at[p] < Len(batch[p]) THEN at[p] + 1 ELSE 1
        /\ stage'[p] = IF at[p] < Len(batch[p]) THEN loop ELSE "commit"
    BY DEF Advance, CommitInv, TypeOK
  <1>3. StoredSoFar(p)
    BY DEF CommitInv
  <1>4. ASSUME NEW k \in DOMAIN batch[p], batch[p][k].event \notin events \cup {NoEvent}
        PROVE  stage'[p] = "row" /\ k >= at'[p]
    <2>1. stage[p] \in {"row", "rowSummary"} /\ k >= at[p] /\ k # at[p]
      BY <1>3, <1>4 DEF StoredSoFar, Writing
    <2> QED BY <1>1, <1>2, <2>1
  <1> QED BY <1>2, <1>4 DEF StoredSoFar

LEMMA CommitWrites ==
    ASSUME CommitInv, TypeOK', NEW p \in Replicas,
           \/ Copy(p) \/ CopyError(p) \/ Skip(p) \/ CountEvent(p)
           \/ InsertRow(p) \/ RowConflict(p) \/ RowError(p)
    PROVE  CommitInv'
  <1> USE DEF CommitInv
  <1>1. /\ batch' = batch /\ chan' = chan /\ UNCHANGED <<committed, status, consumer>>
        /\ events \subseteq events'
        /\ stage[p] \in {"copy", "summaries", "row", "rowSummary"}
    BY DEF Copy, CopyError, Skip, CountEvent, InsertRow, RowConflict, RowError, durable
  <1>2. \A p2 \in Replicas : p2 # p => stage'[p2] = stage[p2] /\ at'[p2] = at[p2]
    <2>1. CASE Copy(p) \/ CopyError(p) \/ InsertRow(p)
      <3>1. at' = at /\ \E v : stage' = [stage EXCEPT ![p] = v]
        BY <2>1 DEF Copy, CopyError, InsertRow
      <3> QED BY <3>1 DEF TypeOK
    <2>2. CASE Skip(p) \/ CountEvent(p) \/ RowConflict(p)
      <3>1. \E v, w : stage' = [stage EXCEPT ![p] = v] /\ at' = [at EXCEPT ![p] = w]
        BY <2>2 DEF Skip, CountEvent, RowConflict, Advance
      <3> QED BY <3>1 DEF TypeOK
    <2>3. CASE RowError(p)
      BY <2>3 DEF RowError, TypeOK
    <2> QED BY <2>1, <2>2, <2>3
  <1>3. /\ Pipe(p)' = Pipe(p) /\ status[p] # "down" /\ stage[p] # "returned" /\ Writing(p)
        /\ StoredSoFar(p)
    BY <1>1 DEF Pipe, DownIsEmpty, consumer, Writing
  <1>4. /\ batch[p] \in Seq(Items) /\ at[p] \in DOMAIN batch[p]
        /\ DOMAIN batch[p] = 1 .. Len(batch[p]) /\ at[p] \in Nat
    BY <1>3, BatchTyped DEF TypeOK
  <1>5. StoredSoFar(p)'
    <2>1. CASE Copy(p)
      <3>1. stage'[p] = "summaries" /\ events' = events \cup EventsOf(batch[p])
        BY <2>1 DEF Copy, TypeOK
      <3>2. \A k \in DOMAIN batch[p] : batch[p][k].event \in events' \cup {NoEvent}
        BY <3>1 DEF EventsOf, RangeOf
      <3> QED BY <1>1, <3>1, <3>2 DEF StoredSoFar
    <2>2. CASE CopyError(p)
      <3>1. stage'[p] = "row" /\ at'[p] = 1
        BY <1>3, <2>2 DEF CopyError, TypeOK, StoredSoFar
      <3> QED BY <1>1, <1>4, <3>1 DEF StoredSoFar
    <2>3. CASE Skip(p)
      <3>1. /\ stage[p] \in {"summaries", "row"} /\ batch[p][at[p]].event = NoEvent
            /\ Advance(p, at[p], stage[p])
        BY <2>3 DEF Skip
      <3> QED BY <1>1, <1>3, <3>1, StoredAdvance
    <2>4. CASE CountEvent(p)
      <3>1. /\ stage[p] \in {"summaries", "rowSummary"}
            /\ Advance(p, at[p], IF stage[p] = "summaries" THEN "summaries" ELSE "row")
        BY <2>4 DEF CountEvent
      <3>2. batch[p][at[p]].event \in events \cup {NoEvent}
        BY <1>3, <1>4, <3>1 DEF StoredSoFar
      <3>3. CASE stage[p] = "summaries"
        BY <1>1, <1>3, <3>1, <3>2, <3>3, StoredAdvance
      <3>4. CASE stage[p] = "rowSummary"
        <4>1. Advance(p, at[p], "row")
          BY <3>1, <3>4
        <4> QED BY <1>1, <1>3, <3>2, <3>4, <4>1, StoredAdvance
      <3> QED BY <3>1, <3>3, <3>4
    <2>5. CASE InsertRow(p)
      <3>1. /\ stage[p] = "row" /\ stage'[p] = "rowSummary" /\ at'[p] = at[p]
            /\ events' = events \cup {batch[p][at[p]].event}
        BY <2>5 DEF InsertRow, TypeOK
      <3> QED BY <1>1, <1>3, <3>1 DEF StoredSoFar
    <2>6. CASE RowConflict(p)
      <3>1. /\ stage[p] = "row" /\ batch[p][at[p]].event \in events /\ Advance(p, at[p], "row")
        BY <2>6 DEF RowConflict
      <3> QED BY <1>1, <1>3, <3>1, StoredAdvance
    <2>7. CASE RowError(p)
      <3>1. stage'[p] = "idle"
        BY <2>7 DEF RowError, TypeOK
      <3> QED BY <1>1, <3>1 DEF StoredSoFar
    <2> QED BY <2>1, <2>2, <2>3, <2>4, <2>5, <2>6, <2>7
  <1> QED BY <1>1, <1>2, <1>3, <1>5, CommitFlushStep

LEMMA CommitReceive ==
    ASSUME CommitInv, TypeOK', NEW p \in Replicas, Receive(p) \/ Tick(p)
    PROVE  CommitInv'
  <1> USE DEF CommitInv
  <1>1. /\ events' = events /\ UNCHANGED <<committed, status, consumer>> /\ at' = at
        /\ status[p] # "down" /\ stage[p] = "idle"
    BY DEF Receive, Tick, durable
  <1>2. \A p2 \in Replicas : p2 # p =>
            batch'[p2] = batch[p2] /\ chan'[p2] = chan[p2] /\ stage'[p2] = stage[p2] /\ at'[p2] = at[p2]
    BY DEF Receive, Tick, TypeOK
  <1>3. stage'[p] \in {"idle", "copy", "commit"}
    BY DEF Receive, Tick, FlushStage, TypeOK
  <1>4. stage'[p] = "commit" => \A k \in DOMAIN batch'[p] : batch'[p][k].event = NoEvent
    BY DEF Receive, Tick, FlushStage, HasEvents, TypeOK
  <1>5. StoredSoFar(p)'
    <2>1. at'[p] = 1
      BY <1>1 DEF TypeOK, Writing
    <2> QED BY <1>3, <1>4, <2>1 DEF StoredSoFar
  <1>6. Pipe(p)' = Pipe(p)
    BY ReceiveKeepsPipe
  <1> QED BY <1>1, <1>2, <1>5, <1>6, CommitFlushStep

LEMMA OrderedPrefix ==
    ASSUME NEW s \in Seq(Items), NEW t \in Seq(Items), Ordered(s \o t)
    PROVE  Ordered(s)
  <1> DEFINE u == s \o t
  <1>1. /\ Len(s) \in Nat /\ DOMAIN s = 1 .. Len(s)
        /\ \A k \in 1 .. Len(s) : u[k] = s[k] /\ k \in DOMAIN u
    OBVIOUS
  <1>2. Ordered(u)
    OBVIOUS
  <1> HIDE DEF u
  <1>3. ASSUME NEW k \in DOMAIN s, NEW i \in 1 .. s[k].rec[2] - 1
        PROVE  \/ Settled(<<s[k].rec[1], i>>, events)
               \/ \E l \in 1 .. k - 1 : s[l].rec = <<s[k].rec[1], i>>
    <2>1. u[k] = s[k] /\ k \in DOMAIN u /\ \A l \in 1 .. k - 1 : u[l] = s[l]
      BY <1>1
    <2> QED BY <1>2, <2>1 DEF Ordered
  <1> QED BY <1>3 DEF Ordered

\* Committing the offsets of settled items, in their order, covers nothing
\* that is not settled.
LEMMA CommitCovers ==
    ASSUME CommitInv, events' = events, NEW b \in Seq(Items), Ordered(b),
           \A k \in DOMAIN b : Settled(b[k].rec, events), NEW landed, CommitOffsets(b, landed)
    PROVE  NoUnstoredCommit' /\ \A q \in Partitions : committed'[q] <= Len(Topic[q])
  <1> PICK last \in [landed -> DOMAIN b] :
        /\ \A q \in landed : b[last[q]].rec[1] = q
        /\ committed' = [q \in Partitions |->
              IF q \in landed THEN b[last[q]].rec[2] ELSE committed[q]]
    BY DEF CommitOffsets
  <1>1. ASSUME NEW k \in DOMAIN b PROVE b[k].rec \in Records
    <2>1. b[k] \in Items
      OBVIOUS
    <2> QED BY <2>1 DEF Items
  <1>2. ASSUME NEW q \in Partitions
        PROVE  /\ committed'[q] <= Len(Topic[q])
               /\ \A i \in 1 .. committed'[q] : Settled(<<q, i>>, events)
    <2>1. CASE q \notin landed
      BY <2>1 DEF CommitInv, NoUnstoredCommit
    <2>2. CASE q \in landed
      <3> DEFINE k == last[q]
      <3>1. k \in DOMAIN b /\ b[k].rec[1] = q /\ committed'[q] = b[k].rec[2]
        BY <2>2
      <3> HIDE DEF k
      <3>2. b[k].rec[2] \in Nat /\ b[k].rec = <<q, b[k].rec[2]>> /\ b[k].rec[2] <= Len(Topic[q])
        BY <1>1, <3>1, RecordParts
      <3>3. ASSUME NEW i \in 1 .. b[k].rec[2] PROVE Settled(<<q, i>>, events)
        <4>1. CASE i = b[k].rec[2]
          BY <3>1, <3>2, <4>1
        <4>2. CASE i # b[k].rec[2]
          <5>1. i \in 1 .. b[k].rec[2] - 1
            BY <3>2, <4>2
          <5>2. \/ Settled(<<q, i>>, events)
                \/ \E l \in 1 .. k - 1 : b[l].rec = <<q, i>>
            BY <3>1, <5>1 DEF Ordered
          <5>3. \A l \in 1 .. k - 1 : l \in DOMAIN b
            BY <3>1
          <5> QED BY <5>2, <5>3
        <4> QED BY <4>1, <4>2
      <3> QED BY <3>1, <3>2, <3>3
    <2> QED BY <2>1, <2>2
  <1> QED BY <1>2 DEF NoUnstoredCommit

\* Taking settled items off the front of the pipe keeps the rest covered.
LEMMA CoveredDrop ==
    ASSUME NEW p \in Replicas, Covered(p), events' = events,
           NEW s \in Seq(Items), NEW t \in Seq(Items), Pipe(p) = s \o t, Pipe(p)' = t,
           \A k \in DOMAIN s : Settled(s[k].rec, events),
           iterPos'[p] = iterPos[p], iterEnd'[p] = iterEnd[p], held'[p] = held[p],
           position'[p] = position[p], consuming'[p] = consuming[p]
    PROVE  Covered(p)'
  <1>1. Ordered(t)
    BY OrderedDrop DEF Covered
  <1>2. Ordered(Pipe(p))'
    BY <1>1, OrderedFrame
  <1>3. ASSUME NEW r, Accounted(p, r) PROVE Accounted(p, r)'
    <2>1. HasRecord(Pipe(p), r) => Settled(r, events) \/ HasRecord(t, r)
      BY HasRecordDrop
    <2> QED BY <1>3, <2>1 DEF Accounted
  <1>4. IterCovered(p)'
    BY <1>3 DEF Covered, IterCovered
  <1>5. PositionCovered(p)'
    BY <1>3 DEF Covered, PositionCovered
  <1> QED BY <1>2, <1>4, <1>5 DEF Covered

LEMMA CommitCommit ==
    ASSUME CommitInv, TypeOK', NEW p \in Replicas, Commit(p)
    PROVE  CommitInv'
  <1> USE DEF CommitInv
  <1> DEFINE s == batch[p]
             t == chan[p] \o sending[p]
  <1>1. /\ events' = events /\ status' = status /\ chan' = chan /\ at' = at
        /\ sending' = sending /\ iterPos' = iterPos /\ iterEnd' = iterEnd
        /\ held' = held /\ position' = position /\ consuming' = consuming
        /\ stage[p] = "commit" /\ stage'[p] = "idle" /\ batch'[p] = <<>>
        /\ \A p2 \in Replicas : p2 # p => batch'[p2] = batch[p2] /\ stage'[p2] = stage[p2]
    BY DEF Commit, consumer, client, iter, TypeOK
  <1>2. Local(p) /\ Covered(p) /\ status[p] # "down"
    BY <1>1, CommitInvLocal DEF Local, DownIsEmpty
  <1>3. s \in Seq(Items) /\ t \in Seq(Items) /\ Pipe(p) = s \o t
    BY BatchTyped, PipeTyped DEF Pipe
  <1>4. Pipe(p)' = t
    BY <1>1, <1>3 DEF Pipe
  <1>5. \A k \in DOMAIN s : Settled(s[k].rec, events)
    <2>1. ItemsOK(s)
      BY <1>2, <1>3, ItemsPart DEF Local
    <2>2. \A k \in DOMAIN s : s[k].event \in events \cup {NoEvent}
      BY <1>1, <1>2 DEF Local, StoredSoFar
    <2> QED BY <2>1, <2>2, StoredSettles DEF ItemsOK
  <1>6. PICK landed : CommitOffsets(s, landed)
    BY DEF Commit
  <1>7. ItemsOK(t)
    BY <1>2, <1>3, ItemsPart DEF Local
  <1>8. DOMAIN batch'[p] = {}
    BY <1>1
  <1> HIDE DEF s, t
  <1>9. NoUnstoredCommit' /\ \A q \in Partitions : committed'[q] <= Len(Topic[q])
    <2>1. Ordered(s)
      BY <1>2, <1>3, OrderedPrefix DEF Covered
    <2> QED BY <1>1, <1>3, <1>5, <1>6, <2>1, CommitCovers
  <1>10. Covered(p)'
    BY <1>1, <1>2, <1>3, <1>4, <1>5, CoveredDrop
  <1>11. ItemsOK(Pipe(p))'
    BY <1>4, <1>7 DEF ItemsOK
  <1>12. DownIsEmpty(p)' /\ StoredSoFar(p)'
    BY <1>1, <1>2, <1>8 DEF DownIsEmpty, StoredSoFar
  <1>13. \A p2 \in Replicas : p2 # p => Untouched(p2)
    BY <1>1 DEF Untouched
  <1> QED BY <1>1, <1>9, <1>10, <1>11, <1>12, <1>13, CommitStep DEF Local

LEMMA CommitDrain ==
    ASSUME CommitInv, TypeOK', NEW p \in Replicas, Drain(p)
    PROVE  CommitInv'
  <1> USE DEF CommitInv
  <1> DEFINE s == batch[p] \o chan[p]
             t == sending[p]
  <1>1. /\ events' = events /\ status' = status /\ at' = at
        /\ sending' = sending /\ iterPos' = iterPos /\ iterEnd' = iterEnd
        /\ held' = held /\ position' = position /\ consuming' = consuming
        /\ status[p] # "down" /\ stage[p] = "idle" /\ stage'[p] = "returned" /\ chan'[p] = <<>>
    BY DEF Drain, consumer, client, iter, TypeOK
  <1>2. \A p2 \in Replicas : p2 # p =>
            batch'[p2] = batch[p2] /\ chan'[p2] = chan[p2] /\ stage'[p2] = stage[p2]
    BY DEF Drain, TypeOK
  <1>3. \/ HasEvents(s) /\ batch'[p] = s /\ committed' = committed
        \/ /\ ~ HasEvents(s) /\ batch'[p] = <<>>
           /\ \E landed : CommitOffsets(s, landed)
    BY DEF Drain, TypeOK
  <1>4. Local(p) /\ Covered(p)
    BY <1>1, CommitInvLocal DEF Local
  <1>5. s \in Seq(Items) /\ t \in Seq(Items) /\ Pipe(p) = s \o t
    <2>1. batch[p] \in Seq(Items) /\ chan[p] \in Seq(Items) /\ t \in Seq(Items)
      BY BatchTyped
    <2>2. s \o t = batch[p] \o (chan[p] \o t)
      BY <2>1, Reassociate
    <2> QED BY <2>1, <2>2 DEF Pipe
  <1>6. ItemsOK(s) /\ ItemsOK(t)
    BY <1>4, <1>5, ItemsPart DEF Local
  <1>7. Pipe(p)' = batch'[p] \o t
    <2>1. chan'[p] \o sending'[p] = t
      BY <1>1, <1>5
    <2> QED BY <2>1 DEF Pipe
  <1> HIDE DEF s, t
  <1>8. ItemsOK(Pipe(p))'
    <2>1. CASE batch'[p] = s
      BY <1>4, <1>5, <1>7, <2>1 DEF Local, ItemsOK
    <2>2. CASE batch'[p] = <<>>
      <3>1. Pipe(p)' = t
        BY <1>5, <1>7, <2>2
      <3> QED BY <1>6, <3>1 DEF ItemsOK
    <2> QED BY <1>3, <2>1, <2>2
  <1>9. NoUnstoredCommit' /\ \A q \in Partitions : committed'[q] <= Len(Topic[q])
    <2>1. CASE committed' = committed
      BY <1>1, <2>1, CommittedFrame
    <2>2. CASE ~ HasEvents(s) /\ \E landed : CommitOffsets(s, landed)
      <3>1. Ordered(s)
        BY <1>4, <1>5, OrderedPrefix DEF Covered
      <3>2. \A k \in DOMAIN s : Settled(s[k].rec, events)
        BY <1>6, <2>2, StoredSettles DEF HasEvents, ItemsOK
      <3> QED BY <1>1, <1>5, <2>2, <3>1, <3>2, CommitCovers
    <2> QED BY <1>3, <2>1, <2>2
  <1>10. DownIsEmpty(p)' /\ StoredSoFar(p)'
    BY <1>1 DEF DownIsEmpty, StoredSoFar
  <1>11. \A p2 \in Replicas : p2 # p => Untouched(p2)
    BY <1>1, <1>2 DEF Untouched
  <1> QED BY <1>1, <1>8, <1>9, <1>10, <1>11, CommitStep DEF Local

LEMMA CommitNext == CommitInv /\ TypeOK' /\ [Next]_vars => CommitInv'
  <1> SUFFICES ASSUME CommitInv, TypeOK', [Next]_vars PROVE CommitInv'
    OBVIOUS
  <1>1. CASE UNCHANGED vars
    <2>1. /\ events' = events /\ committed' = committed
          /\ \A p \in Replicas : Untouched(p)
      BY <1>1 DEF vars, durable, consumer, client, iter, flusher, Untouched
    <2>2. \A p \in Replicas : Local(p)'
      BY <2>1, OthersFrame, CommitInvLocal DEF Untouched
    <2>3. NoUnstoredCommit'
      BY <2>1, CommittedFrame DEF CommitInv
    <2> QED BY <2>1, <2>2, <2>3 DEF CommitInv, Local
  <1>2. CASE Next
    <2> PICK p \in Replicas :
          Process(p) \/ Rebalance(p) \/ Consume(p) \/ DlqAck(p) \/ DlqFail(p) \/ ProcessBatches(p)
      BY <1>2 DEF Next
    <2>1. CASE Consume(p)
      BY <2>1, CommitPoll, CommitDecode, CommitSend DEF Consume
    <2>2. CASE ProcessBatches(p)
      BY <2>2, CommitReceive, CommitWrites, CommitCommit, CommitDrain DEF ProcessBatches, Flush
    <2> QED BY <2>1, <2>2, CommitProcess, CommitRebalance, CommitDlq
  <1> QED BY <1>1, <1>2

\* The invariant that carries the proof: what is committed is settled, and
\* whatever lies before a replica's next record is settled or in its memory,
\* in order.
THEOREM CommitInvariant == Spec => []CommitInv
  <1>1. CommitInv /\ [Next]_vars => CommitInv'
    BY TypeNext, CommitNext DEF CommitInv
  <1> QED BY <1>1, CommitInit, PTL DEF Spec

\* At least once, for every topic, batch size, number of replicas, crashes,
\* failed calls and rebalances: no committed offset covers a record whose
\* event is not stored.
THEOREM NothingCommittedUnstored == Spec => []NoUnstoredCommit
  <1>1. CommitInv => NoUnstoredCommit
    BY DEF CommitInv
  <1> QED BY <1>1, CommitInvariant, PTL

-----------------------------------------------------------------------------
(* Offsets go forward while no partition is taken from a running replica:    *)
(* RewindInv is inductive with the type invariant.                           *)

\* What RewindInv says of one replica.
OnItsWay(p) == HoldsItsOwn(p) /\ Increasing(Pipe(p)) /\ AheadOfCommit(p, Pipe(p))

LEMMA RewindInvLocal == RewindInv <=> (rebalances = 0 => \A p \in Replicas : OnItsWay(p))
  BY DEF RewindInv, OnItsWay

LEMMA PipeRecords ==
    ASSUME NEW s \in Seq(Items), NEW k \in DOMAIN s
    PROVE  /\ s[k] \in Items /\ s[k].rec[1] \in Partitions /\ s[k].rec[2] \in Nat
           /\ k \in 1 .. Len(s) /\ Len(s) \in Nat
  <1>1. s[k] \in Items /\ k \in 1 .. Len(s) /\ Len(s) \in Nat
    OBVIOUS
  <1>2. s[k].rec \in Records
    BY <1>1 DEF Items
  <1> QED BY <1>1, <1>2, RecordParts

\* A step of another replica: what p has in memory and owns stays as it is, and
\* so do the offsets of p's partitions.
LEMMA RewindFrame ==
    ASSUME TypeOK, NEW p \in Replicas, OnItsWay(p), Pipe(p)' = Pipe(p),
           iterPos'[p] = iterPos[p], iterEnd'[p] = iterEnd[p],
           held'[p] = held[p], position'[p] = position[p],
           \A q \in Partitions : owner'[q] = p <=> owner[q] = p,
           \A q \in Partitions : owner[q] = p => committed'[q] = committed[q]
    PROVE  OnItsWay(p)'
  <1>1. \A q \in Partitions : TakenUp(p, q)' = TakenUp(p, q)
    BY DEF TakenUp
  <1>2. HoldsItsOwn(p)'
    BY <1>1 DEF OnItsWay, HoldsItsOwn
  <1>3. Increasing(Pipe(p))'
    BY DEF OnItsWay, Increasing
  <1>4. ASSUME NEW k \in DOMAIN Pipe(p)
        PROVE  LET r == Pipe(p)[k].rec IN
               owner'[r[1]] = p /\ committed'[r[1]] < r[2] /\ r[2] <= TakenUp(p, r[1])'
    BY <1>1, PipeTyped, PipeRecords DEF OnItsWay, AheadOfCommit
  <1>5. AheadOfCommit(p, Pipe(p))'
    BY <1>4 DEF AheadOfCommit
  <1> QED BY <1>2, <1>3, <1>5 DEF OnItsWay

\* The parts of a sequence of records in order are in order, and what comes
\* later is further on.
LEMMA IncreasingParts ==
    ASSUME NEW s \in Seq(Items), NEW t \in Seq(Items), Increasing(s \o t)
    PROVE  /\ Increasing(t)
           /\ \A k \in DOMAIN s, l \in DOMAIN t :
                s[k].rec[1] = t[l].rec[1] => s[k].rec[2] < t[l].rec[2]
  <1> DEFINE u == s \o t
  <1>1. /\ Len(s) \in Nat /\ Len(t) \in Nat /\ DOMAIN s = 1 .. Len(s) /\ DOMAIN t = 1 .. Len(t)
        /\ \A k \in 1 .. Len(s) : u[k] = s[k] /\ k \in DOMAIN u
        /\ \A k \in 1 .. Len(t) : u[Len(s) + k] = t[k] /\ Len(s) + k \in DOMAIN u
    OBVIOUS
  <1>2. Increasing(u)
    OBVIOUS
  <1> HIDE DEF u
  <1>3. ASSUME NEW k \in 1 .. Len(t), NEW l \in 1 .. Len(t), k < l, t[k].rec[1] = t[l].rec[1]
        PROVE  t[k].rec[2] < t[l].rec[2]
    <2>1. Len(s) + k < Len(s) + l
      BY <1>1, <1>3
    <2> QED BY <1>1, <1>2, <1>3, <2>1 DEF Increasing
  <1>4. ASSUME NEW k \in 1 .. Len(s), NEW l \in 1 .. Len(t), s[k].rec[1] = t[l].rec[1]
        PROVE  s[k].rec[2] < t[l].rec[2]
    <2>1. k < Len(s) + l
      BY <1>1
    <2> QED BY <1>1, <1>2, <1>4, <2>1 DEF Increasing
  <1> QED BY <1>1, <1>3, <1>4 DEF Increasing

\* p commits the first items it has in memory: offsets go forward, on p's own
\* partitions only, and up to what is left in memory at most.
LEMMA RewindCommits ==
    ASSUME TypeOK, TypeOK', NEW p \in Replicas, OnItsWay(p),
           NEW s \in Seq(Items), NEW t \in Seq(Items), Pipe(p) = s \o t,
           NEW landed, landed \subseteq PartitionsOf(s), CommitOffsets(s, landed)
    PROVE  /\ \A q \in Partitions : committed'[q] >= committed[q]
           /\ \A q \in Partitions : owner[q] # p => committed'[q] = committed[q]
           /\ \A q \in held[p] : committed'[q] <= TakenUp(p, q)
           /\ \A k \in DOMAIN t : committed'[t[k].rec[1]] < t[k].rec[2]
  <1> PICK last \in [landed -> DOMAIN s] :
        /\ \A q \in landed : s[last[q]].rec[1] = q
        /\ committed' = [q \in Partitions |->
              IF q \in landed THEN s[last[q]].rec[2] ELSE committed[q]]
    BY DEF CommitOffsets
  <1>1. /\ \A k \in DOMAIN s : k \in DOMAIN Pipe(p) /\ Pipe(p)[k] = s[k]
        /\ \A k \in DOMAIN t : \E l \in DOMAIN Pipe(p) : Pipe(p)[l] = t[k]
    <2> DEFINE u == s \o t
    <2>1. /\ Len(s) \in Nat /\ Len(t) \in Nat /\ DOMAIN s = 1 .. Len(s) /\ DOMAIN t = 1 .. Len(t)
          /\ \A k \in 1 .. Len(s) : u[k] = s[k] /\ k \in DOMAIN u
          /\ \A k \in 1 .. Len(t) : u[Len(s) + k] = t[k] /\ Len(s) + k \in DOMAIN u
      OBVIOUS
    <2>2. Pipe(p) = u
      OBVIOUS
    <2> HIDE DEF u
    <2> QED BY <2>1, <2>2
  <1>2. ASSUME NEW k \in DOMAIN s
        PROVE  LET r == s[k].rec IN
               /\ r[1] \in Partitions /\ owner[r[1]] = p
               /\ committed[r[1]] < r[2] /\ r[2] <= TakenUp(p, r[1]) /\ r[2] \in Nat
    BY <1>1, PipeRecords DEF OnItsWay, AheadOfCommit
  <1>3. ASSUME NEW q \in Partitions, q \in landed
        PROVE  /\ owner[q] = p /\ committed[q] < committed'[q] /\ committed'[q] <= TakenUp(p, q)
               /\ \E k \in DOMAIN s : s[k].rec[1] = q /\ committed'[q] = s[k].rec[2]
    <2> DEFINE k == last[q]
    <2>1. k \in DOMAIN s /\ s[k].rec[1] = q /\ committed'[q] = s[k].rec[2]
      BY <1>3
    <2> HIDE DEF k
    <2> QED BY <1>2, <2>1
  <1>4. \A q \in Partitions : q \notin landed => committed'[q] = committed[q]
    OBVIOUS
  <1>5. \A q \in Partitions : committed[q] \in Nat /\ committed'[q] \in Nat
    BY DEF TypeOK
  <1>6. \A q \in held[p] : committed'[q] <= TakenUp(p, q)
    BY <1>3, <1>4 DEF OnItsWay, HoldsItsOwn, TypeOK
  <1>7. ASSUME NEW k \in DOMAIN t
        PROVE  committed'[t[k].rec[1]] < t[k].rec[2]
    <2> DEFINE q == t[k].rec[1]
    <2>1. q \in Partitions
      BY PipeRecords
    <2>2. CASE q \in landed
      <3>1. PICK l \in DOMAIN s : s[l].rec[1] = q /\ committed'[q] = s[l].rec[2]
        BY <1>3, <2>1, <2>2
      <3> QED BY <3>1, IncreasingParts DEF OnItsWay
    <2>3. CASE q \notin landed
      <3>1. committed[q] < t[k].rec[2]
        BY <1>1 DEF OnItsWay, AheadOfCommit
      <3> QED BY <1>4, <2>1, <2>3, <3>1
    <2> QED BY <2>2, <2>3
  <1> QED BY <1>3, <1>4, <1>5, <1>6, <1>7

LEMMA RewindInit == Init => RewindInv
  <1> SUFFICES ASSUME Init PROVE RewindInv
    OBVIOUS
  <1>1. ASSUME NEW p \in Replicas PROVE OnItsWay(p)
    <2>1. Pipe(p) = <<>> /\ DOMAIN Pipe(p) = {}
      BY DEF Init, Pipe
    <2>2. HoldsItsOwn(p)
      <3>1. ASSUME NEW q \in Partitions
            PROVE  q \notin held[p] /\ owner[q] # p /\ ~ (iterPos[p][q] < iterEnd[p][q])
        BY NoReplicaAssumption DEF Init
      <3> QED BY <3>1, Zenon DEF HoldsItsOwn
    <2> QED BY <2>1, <2>2 DEF OnItsWay, Increasing, AheadOfCommit
  <1> QED BY <1>1, RewindInvLocal

\* A step of p leaves the others' memory and partitions alone: what remains to
\* be shown of it is about p.
LEMMA RewindStep ==
    ASSUME TypeOK, RewindInv, rebalances = 0, NEW p \in Replicas, OnItsWay(p)',
           \A p2 \in Replicas : p2 # p =>
              /\ Untouched(p2)
              /\ \A q \in Partitions : owner'[q] = p2 <=> owner[q] = p2
              /\ \A q \in Partitions : owner[q] = p2 => committed'[q] = committed[q]
    PROVE  RewindInv'
  <1>1. ASSUME NEW p2 \in Replicas, p2 # p PROVE OnItsWay(p2)'
    <2>1. OnItsWay(p2)
      BY RewindInvLocal
    <2>2. Pipe(p2)' = Pipe(p2)
      BY <1>1 DEF Untouched, Pipe
    <2> QED BY <1>1, <2>1, <2>2, RewindFrame DEF Untouched
  <1> QED BY <1>1 DEF RewindInv, OnItsWay

\* A step of p that moves items within its memory at most.
LEMMA RewindKeeps ==
    ASSUME TypeOK, RewindInv, rebalances = 0, NEW p \in Replicas, Pipe(p)' = Pipe(p),
           owner' = owner, committed' = committed,
           iterPos' = iterPos, iterEnd' = iterEnd, held' = held, position' = position,
           \A p2 \in Replicas : p2 # p => Untouched(p2)
    PROVE  RewindInv'
  <1>1. OnItsWay(p)
    BY RewindInvLocal
  <1>2. OnItsWay(p)'
    BY <1>1, RewindFrame
  <1> QED BY <1>2, RewindStep

LEMMA RewindProcess ==
    ASSUME TypeOK, RewindInv, rebalances = 0, NEW p \in Replicas, Process(p)
    PROVE  RewindInv'
  <1>1. CASE Start(p)
    <2>1. \A p2 \in Replicas : p2 # p => Untouched(p2)
      BY <1>1 DEF Start, TypeOK, Untouched, client, iter, flusher
    <2>2. /\ Pipe(p)' = Pipe(p) /\ owner' = owner /\ committed' = committed
          /\ iterPos' = iterPos /\ iterEnd' = iterEnd /\ held' = held /\ position' = position
      BY <1>1 DEF Start, Pipe, durable, client, iter, flusher
    <2> QED BY <2>1, <2>2, RewindKeeps
  <1>2. CASE Stop(p)
    <2>1. \A p2 \in Replicas : p2 # p => Untouched(p2)
      BY <1>2 DEF Stop, TypeOK, Untouched, consumer, client, iter, flusher
    <2>2. /\ Pipe(p)' = Pipe(p) /\ owner' = owner /\ committed' = committed
          /\ iterPos' = iterPos /\ iterEnd' = iterEnd /\ held' = held /\ position' = position
      BY <1>2 DEF Stop, Pipe, durable, consumer, client, iter, flusher
    <2> QED BY <2>1, <2>2, RewindKeeps
  <1>3. ASSUME Vanish(p) PROVE RewindInv'
    <2>1. \A p2 \in Replicas : p2 # p => Untouched(p2)
      BY <1>3 DEF Vanish, TypeOK, Untouched
    <2>2. /\ committed' = committed
          /\ owner' = [q \in Partitions |-> IF owner[q] = p THEN NoReplica ELSE owner[q]]
      BY <1>3 DEF Vanish, durable
    <2>3. /\ batch'[p] = <<>> /\ chan'[p] = <<>> /\ sending'[p] = <<>> /\ held'[p] = {}
          /\ iterPos'[p] = [q \in Partitions |-> 0] /\ iterEnd'[p] = [q \in Partitions |-> 0]
      BY <1>3 DEF Vanish, TypeOK
    <2>4. Pipe(p)' = <<>>
      BY <2>3 DEF Pipe
    <2>5. \A p2 \in Replicas : p2 # p => \A q \in Partitions : owner'[q] = p2 <=> owner[q] = p2
      BY <2>2, NoReplicaAssumption
    <2>6. HoldsItsOwn(p)'
      BY <2>2, <2>3, NoReplicaAssumption DEF HoldsItsOwn
    <2>7. OnItsWay(p)'
      BY <2>4, <2>6 DEF OnItsWay, Increasing, AheadOfCommit
    <2> QED BY <2>1, <2>2, <2>5, <2>7, RewindStep
  <1> QED BY <1>1, <1>2, <1>3 DEF Process, Exit, Crash

LEMMA RewindRebalance ==
    ASSUME TypeOK, RewindInv, rebalances = 0, NEW p \in Replicas, Rebalance(p)
    PROVE  RewindInv'
  <1> PICK q \in Partitions : Assign(p, q) \/ Expire(p, q) \/ Lost(p, q) \/ Revoke(p, q)
    BY DEF Rebalance
  <1>1. OnItsWay(p)
    BY RewindInvLocal
  <1>2. CASE Expire(p, q) \/ Revoke(p, q)
    BY <1>2 DEF Expire, Revoke, RewindInv
  <1>3. CASE Lost(p, q)
    BY <1>1, <1>3 DEF Lost, OnItsWay, HoldsItsOwn
  <1>4. CASE Assign(p, q)
    <2>1. /\ committed' = committed /\ iterPos' = iterPos /\ iterEnd' = iterEnd
          /\ Pipe(p)' = Pipe(p) /\ held'[p] = held[p] \cup {q}
          /\ position'[p] = [position[p] EXCEPT ![q] = committed[q]]
          /\ owner[q] = NoReplica /\ owner' = [owner EXCEPT ![q] = p]
      BY <1>4 DEF Assign, Pipe, durable, iter, flusher, TypeOK
    <2>2. \A p2 \in Replicas : p2 # p => Untouched(p2)
      <3>1. /\ batch' = batch /\ chan' = chan /\ sending' = sending /\ stage' = stage /\ at' = at
            /\ status' = status /\ iterPos' = iterPos /\ iterEnd' = iterEnd /\ consuming' = consuming
        BY <1>4 DEF Assign, iter, flusher
      <3>2. \A p2 \in Replicas : p2 # p => held'[p2] = held[p2] /\ position'[p2] = position[p2]
        BY <1>4 DEF Assign, TypeOK
      <3> QED BY <3>1, <3>2 DEF Untouched
    <2>3. \A p2 \in Replicas : p2 # p => \A q2 \in Partitions : owner'[q2] = p2 <=> owner[q2] = p2
      <3>1. owner \in [Partitions -> Replicas \cup {NoReplica}] /\ NoReplica \notin Replicas
        BY NoReplicaAssumption DEF TypeOK
      <3> QED BY <2>1, <3>1
    <2>4. owner[q] # p /\ position[p] \in [Partitions -> Nat] /\ owner \in [Partitions -> Replicas \cup {NoReplica}]
      BY <2>1, NoReplicaAssumption DEF TypeOK
    <2>5. \A q2 \in Partitions : q2 # q => TakenUp(p, q2)' = TakenUp(p, q2) /\ owner'[q2] = owner[q2]
                                           /\ position'[p][q2] = position[p][q2]
      BY <2>1, <2>4 DEF TakenUp
    <2>6. /\ ~ (iterPos[p][q] < iterEnd[p][q])
          /\ TakenUp(p, q)' = committed[q] /\ owner'[q] = p
      BY <1>1, <2>1, <2>4 DEF OnItsWay, HoldsItsOwn, TakenUp
    <2>7. HoldsItsOwn(p)'
      <3>1. SUFFICES ASSUME NEW q2 \in Partitions
                     PROVE  /\ q2 \in held'[p] <=> owner'[q2] = p
                            /\ iterPos'[p][q2] < iterEnd'[p][q2] =>
                                  q2 \in held'[p] /\ iterEnd'[p][q2] = position'[p][q2]
                            /\ q2 \in held'[p] => committed'[q2] <= TakenUp(p, q2)'
        BY DEF HoldsItsOwn
      <3>2. CASE q2 = q
        BY <2>1, <2>6, <3>2 DEF TypeOK
      <3>3. CASE q2 # q
        BY <1>1, <2>1, <2>5, <3>3 DEF OnItsWay, HoldsItsOwn
      <3> QED BY <3>2, <3>3
    <2>8. AheadOfCommit(p, Pipe(p))'
      <3>1. SUFFICES ASSUME NEW k \in DOMAIN Pipe(p)
                     PROVE  LET r == Pipe(p)[k].rec IN
                            owner'[r[1]] = p /\ committed'[r[1]] < r[2] /\ r[2] <= TakenUp(p, r[1])'
        BY <2>1 DEF AheadOfCommit
      <3>2. Pipe(p)[k].rec[1] \in Partitions /\ Pipe(p)[k].rec[1] # q
        BY <1>1, <2>4, PipeTyped, PipeRecords DEF OnItsWay, AheadOfCommit
      <3> QED BY <1>1, <2>1, <2>5, <3>2 DEF OnItsWay, AheadOfCommit
    <2>9. Increasing(Pipe(p))'
      BY <1>1, <2>1 DEF OnItsWay, Increasing
    <2>10. OnItsWay(p)'
      BY <2>7, <2>8, <2>9 DEF OnItsWay
    <2> QED BY <2>1, <2>2, <2>3, <2>10, RewindStep
  <1> QED BY <1>2, <1>3, <1>4

LEMMA RewindPoll ==
    ASSUME TypeOK, RewindInv, rebalances = 0, NEW p \in Replicas, Poll(p)
    PROVE  RewindInv'
  <1>1. PICK upto \in [held[p] -> UNION {0 .. Len(Topic[q]) : q \in held[p]}] :
          /\ \A q \in held[p] : upto[q] \in position[p][q] .. Len(Topic[q])
          /\ position' = [position EXCEPT ![p] =
                [q \in Partitions |-> IF q \in held[p] THEN upto[q] ELSE @[q]]]
          /\ iterPos' = [iterPos EXCEPT ![p] =
                [q \in Partitions |-> IF q \in held[p] THEN position[p][q] ELSE @[q]]]
          /\ iterEnd' = [iterEnd EXCEPT ![p] =
                [q \in Partitions |-> IF q \in held[p] THEN upto[q] ELSE @[q]]]
    BY DEF Poll
  <1>2. /\ committed' = committed /\ owner' = owner /\ held' = held /\ IterDone(p)
        /\ Pipe(p)' = Pipe(p)
    BY DEF Poll, Pipe, durable, flusher
  <1>3. \A p2 \in Replicas : p2 # p => Untouched(p2)
    BY <1>1 DEF Poll, Untouched, TypeOK, flusher
  <1>4. /\ held[p] \subseteq Partitions
        /\ \A q \in Partitions : /\ position[p][q] \in Nat /\ iterPos[p][q] \in Nat
                                 /\ iterPos[p][q] = iterEnd[p][q]
        /\ \A q \in held[p] : /\ position'[p][q] = upto[q] /\ iterPos'[p][q] = position[p][q]
                              /\ iterEnd'[p][q] = upto[q]
                              /\ upto[q] \in Nat /\ position[p][q] <= upto[q]
        /\ \A q \in Partitions : q \notin held[p] =>
              /\ iterPos'[p][q] = iterPos[p][q] /\ iterEnd'[p][q] = iterEnd[p][q]
              /\ position'[p][q] = position[p][q]
    <2>1. held[p] \subseteq Partitions /\ \A q \in Partitions : position[p][q] \in Nat
                                          /\ iterPos[p][q] \in Nat
      BY DEF TypeOK
    <2>2. \A q \in held[p] : upto[q] \in Nat /\ position[p][q] <= upto[q]
      BY <1>1, <2>1, TopicLength
    <2> QED BY <1>1, <1>2, <2>1, <2>2 DEF TypeOK, IterDone
  <1>5. OnItsWay(p)
    BY RewindInvLocal
  <1>6. ASSUME NEW q \in Partitions PROVE TakenUp(p, q)' = TakenUp(p, q)
    <2>1. CASE q \in held[p]
      BY <1>4, <2>1 DEF TakenUp
    <2>2. CASE q \notin held[p]
      BY <1>4, <2>2 DEF TakenUp
    <2> QED BY <2>1, <2>2
  <1>7. HoldsItsOwn(p)'
    BY <1>2, <1>4, <1>5, <1>6 DEF OnItsWay, HoldsItsOwn
  <1>8. AheadOfCommit(p, Pipe(p))'
    <2>1. SUFFICES ASSUME NEW k \in DOMAIN Pipe(p)
                   PROVE  LET r == Pipe(p)[k].rec IN
                          owner'[r[1]] = p /\ committed'[r[1]] < r[2] /\ r[2] <= TakenUp(p, r[1])'
      BY <1>2 DEF AheadOfCommit
    <2>2. Pipe(p)[k].rec[1] \in Partitions
      BY PipeTyped, PipeRecords
    <2> QED BY <1>2, <1>5, <1>6, <2>2 DEF OnItsWay, AheadOfCommit
  <1>9. Increasing(Pipe(p))'
    BY <1>2, <1>5 DEF OnItsWay, Increasing
  <1>10. OnItsWay(p)'
    BY <1>7, <1>8, <1>9 DEF OnItsWay
  <1> QED BY <1>2, <1>3, <1>10, RewindStep

LEMMA IncreasingAppend ==
    ASSUME NEW s \in Seq(Items), NEW x \in Items, Increasing(s),
           \A k \in DOMAIN s : s[k].rec[1] = x.rec[1] => s[k].rec[2] < x.rec[2]
    PROVE  Increasing(s \o <<x>>)
  <1> DEFINE t == s \o <<x>>
  <1>1. /\ Len(s) \in Nat /\ DOMAIN s = 1 .. Len(s)
        /\ \A k \in 1 .. Len(s) : t[k] = s[k]
        /\ t[Len(s) + 1] = x /\ DOMAIN t = 1 .. Len(s) + 1
    OBVIOUS
  <1> HIDE DEF t
  <1>2. ASSUME NEW k \in DOMAIN t, NEW l \in DOMAIN t, k < l, t[k].rec[1] = t[l].rec[1]
        PROVE  t[k].rec[2] < t[l].rec[2]
    <2>1. k \in 1 .. Len(s)
      BY <1>1, <1>2
    <2>2. CASE l \in 1 .. Len(s)
      BY <1>1, <1>2, <2>1, <2>2 DEF Increasing
    <2>3. CASE l = Len(s) + 1
      BY <1>1, <1>2, <2>1, <2>3
    <2> QED BY <1>1, <2>2, <2>3
  <1>3. Increasing(t)
    BY <1>2 DEF Increasing
  <1> QED BY <1>3 DEF t

\* The record decoded is the one after those taken up.
LEMMA RewindDecode ==
    ASSUME TypeOK, RewindInv, rebalances = 0, NEW p \in Replicas, Decode(p)
    PROVE  RewindInv'
  <1> PICK q \in Partitions, x \in Items :
        /\ x.rec = <<q, iterPos[p][q] + 1>>
        /\ iterPos[p][q] < iterEnd[p][q]
        /\ iterPos' = [iterPos EXCEPT ![p][q] = @ + 1]
        /\ sending' = [sending EXCEPT ![p] = <<x>>]
        /\ Pipe(p)' = Pipe(p) \o <<x>>
    BY DecodeAppends
  <1>1. /\ committed' = committed /\ owner' = owner /\ held' = held /\ position' = position
        /\ iterEnd' = iterEnd /\ batch' = batch /\ chan' = chan /\ stage' = stage /\ at' = at
        /\ status' = status /\ consuming' = consuming
    BY DEF Decode, durable, client, flusher
  <1>2. /\ iterPos'[p][q] = iterPos[p][q] + 1
        /\ \A q2 \in Partitions : q2 # q => iterPos'[p][q2] = iterPos[p][q2]
        /\ \A q2 \in Partitions : /\ iterPos[p][q2] \in Nat /\ iterEnd[p][q2] \in Nat
                                  /\ position[p][q2] \in Nat /\ committed[q2] \in Nat
    BY DEF TypeOK
  <1>3. \A p2 \in Replicas : p2 # p => Untouched(p2)
    BY <1>1 DEF Untouched, TypeOK
  <1>4. OnItsWay(p) /\ Pipe(p) \in Seq(Items)
    BY RewindInvLocal, PipeTyped
  <1>5. /\ TakenUp(p, q) = iterPos[p][q] /\ TakenUp(p, q)' = iterPos[p][q] + 1
        /\ owner[q] = p /\ q \in held[p] /\ committed[q] <= iterPos[p][q]
        /\ \A q2 \in Partitions : q2 # q => TakenUp(p, q2)' = TakenUp(p, q2)
    <2>1. /\ iterEnd[p][q] = position[p][q] /\ owner[q] = p /\ q \in held[p]
          /\ TakenUp(p, q) = iterPos[p][q] /\ committed[q] <= TakenUp(p, q)
      BY <1>4 DEF OnItsWay, HoldsItsOwn, TakenUp
    <2>2. TakenUp(p, q)' = iterPos[p][q] + 1
      BY <1>1, <1>2, <2>1 DEF TakenUp
    <2> QED BY <1>1, <1>2, <2>1, <2>2 DEF TakenUp
  <1>6. HoldsItsOwn(p)'
    <2>1. SUFFICES ASSUME NEW q2 \in Partitions
                   PROVE  /\ q2 \in held'[p] <=> owner'[q2] = p
                          /\ iterPos'[p][q2] < iterEnd'[p][q2] =>
                                q2 \in held'[p] /\ iterEnd'[p][q2] = position'[p][q2]
                          /\ q2 \in held'[p] => committed'[q2] <= TakenUp(p, q2)'
      BY DEF HoldsItsOwn
    <2>2. CASE q2 = q
      BY <1>1, <1>2, <1>4, <1>5, <2>2 DEF OnItsWay, HoldsItsOwn
    <2>3. CASE q2 # q
      BY <1>1, <1>2, <1>4, <1>5, <2>3 DEF OnItsWay, HoldsItsOwn
    <2> QED BY <2>2, <2>3
  <1>7. ASSUME NEW k \in DOMAIN Pipe(p), NEW r, r = Pipe(p)[k].rec
        PROVE  /\ owner[r[1]] = p /\ committed[r[1]] < r[2] /\ r[2] <= TakenUp(p, r[1])'
               /\ r[1] = q => r[2] < x.rec[2]
    <2>1. Pipe(p)[k].rec[1] \in Partitions /\ Pipe(p)[k].rec[2] \in Nat
      BY <1>4, PipeRecords
    <2> QED BY <1>2, <1>4, <1>5, <1>7, <2>1 DEF OnItsWay, AheadOfCommit
  <1>8. Increasing(Pipe(p))'
    <2>1. Increasing(Pipe(p) \o <<x>>)
      BY <1>4, <1>7, IncreasingAppend DEF OnItsWay
    <2> QED BY <2>1 DEF Increasing
  <1>9. AheadOfCommit(p, Pipe(p))'
    <2> DEFINE t == Pipe(p) \o <<x>>
               s == Pipe(p)
    <2>1. /\ Len(s) \in Nat /\ DOMAIN s = 1 .. Len(s)
          /\ \A k \in 1 .. Len(s) : t[k] = s[k]
          /\ t[Len(s) + 1] = x /\ DOMAIN t = 1 .. Len(s) + 1
      BY <1>4
    <2>2. Pipe(p)' = t
      OBVIOUS
    <2>3. \A k \in 1 .. Len(s) : \A r : r = s[k].rec =>
            owner[r[1]] = p /\ committed[r[1]] < r[2] /\ r[2] <= TakenUp(p, r[1])'
      BY <1>7, <2>1
    <2> HIDE DEF s, t
    <2>4. ASSUME NEW k \in DOMAIN t, NEW r, r = t[k].rec
          PROVE  owner[r[1]] = p /\ committed[r[1]] < r[2] /\ r[2] <= TakenUp(p, r[1])'
      <3>1. CASE k \in 1 .. Len(s)
        BY <2>1, <2>3, <2>4, <3>1
      <3>2. CASE k = Len(s) + 1
        BY <1>2, <1>5, <2>1, <2>4, <3>2
      <3> QED BY <2>1, <3>1, <3>2
    <2> QED BY <1>1, <2>2, <2>4 DEF AheadOfCommit
  <1>10. OnItsWay(p)'
    BY <1>6, <1>8, <1>9 DEF OnItsWay
  <1> QED BY <1>1, <1>3, <1>10, RewindStep
LEMMA RewindConsume ==
    ASSUME TypeOK, RewindInv, rebalances = 0, NEW p \in Replicas, Consume(p)
    PROVE  RewindInv'
  <1>1. CASE Send(p) \/ Quit(p)
    <2>1. Pipe(p)' = Pipe(p)
      BY <1>1, SendKeepsPipe
    <2>2. /\ owner' = owner /\ committed' = committed
          /\ iterPos' = iterPos /\ iterEnd' = iterEnd /\ held' = held /\ position' = position
      BY <1>1 DEF Send, Quit, durable, client, iter
    <2>3. \A p2 \in Replicas : p2 # p => Untouched(p2)
      BY <1>1 DEF Send, Quit, Untouched, TypeOK, client, iter, flusher
    <2> QED BY <2>1, <2>2, <2>3, RewindKeeps
  <1> QED BY <1>1, RewindPoll, RewindDecode DEF Consume

LEMMA RewindDlq ==
    ASSUME TypeOK, RewindInv, rebalances = 0, NEW p \in Replicas, DlqAck(p) \/ DlqFail(p)
    PROVE  RewindInv'
  <1>1. /\ owner' = owner /\ committed' = committed /\ Pipe(p)' = Pipe(p)
        /\ iterPos' = iterPos /\ iterEnd' = iterEnd /\ held' = held /\ position' = position
    BY DEF DlqAck, DlqFail, Pipe, durable, consumer, client, iter, flusher
  <1>2. \A p2 \in Replicas : Untouched(p2)
    BY DEF DlqAck, DlqFail, Untouched, consumer, client, iter, flusher
  <1> QED BY <1>1, <1>2, RewindKeeps

\* The statements of a flush touch neither offsets nor items.
LEMMA RewindWrites ==
    ASSUME TypeOK, RewindInv, rebalances = 0, NEW p \in Replicas,
           \/ Copy(p) \/ CopyError(p) \/ Skip(p) \/ CountEvent(p)
           \/ InsertRow(p) \/ RowConflict(p) \/ RowError(p)
    PROVE  RewindInv'
  <1>1. /\ owner' = owner /\ committed' = committed /\ status' = status
        /\ batch' = batch /\ chan' = chan /\ sending' = sending
        /\ iterPos' = iterPos /\ iterEnd' = iterEnd /\ held' = held /\ position' = position
        /\ consuming' = consuming
    BY DEF Copy, CopyError, Skip, CountEvent, InsertRow, RowConflict, RowError,
           durable, consumer, client, iter
  <1>2. \A p2 \in Replicas : p2 # p => stage'[p2] = stage[p2] /\ at'[p2] = at[p2]
    <2>1. \A loop : Advance(p, at[p], loop) =>
            \A p2 \in Replicas : p2 # p => stage'[p2] = stage[p2] /\ at'[p2] = at[p2]
      BY DEF Advance, TypeOK
    <2>2. CASE Skip(p) \/ CountEvent(p) \/ RowConflict(p)
      BY <2>1, <2>2 DEF Skip, CountEvent, RowConflict
    <2>3. CASE Copy(p) \/ CopyError(p) \/ InsertRow(p) \/ RowError(p)
      BY <2>3 DEF Copy, CopyError, InsertRow, RowError, TypeOK
    <2> QED BY <2>2, <2>3
  <1>3. \A p2 \in Replicas : p2 # p => Untouched(p2)
    BY <1>1, <1>2 DEF Untouched
  <1>4. Pipe(p)' = Pipe(p)
    BY <1>1 DEF Pipe
  <1> QED BY <1>1, <1>3, <1>4, RewindKeeps

LEMMA RewindReceive ==
    ASSUME TypeOK, RewindInv, rebalances = 0, NEW p \in Replicas, Receive(p) \/ Tick(p)
    PROVE  RewindInv'
  <1>1. Pipe(p)' = Pipe(p)
    BY ReceiveKeepsPipe
  <1>2. /\ owner' = owner /\ committed' = committed
        /\ iterPos' = iterPos /\ iterEnd' = iterEnd /\ held' = held /\ position' = position
    BY DEF Receive, Tick, durable, consumer, client, iter
  <1>3. \A p2 \in Replicas : p2 # p => Untouched(p2)
    BY DEF Receive, Tick, Untouched, TypeOK, consumer, client, iter
  <1> QED BY <1>1, <1>2, <1>3, RewindKeeps

\* The items committed leave the memory; what is left lies beyond the commit.
LEMMA RewindDrop ==
    ASSUME TypeOK, TypeOK', NEW p \in Replicas, OnItsWay(p),
           NEW s \in Seq(Items), NEW t \in Seq(Items), Pipe(p) = s \o t, Pipe(p)' = t,
           \E landed \in SUBSET PartitionsOf(s) : CommitOffsets(s, landed),
           owner' = owner, iterPos' = iterPos, iterEnd' = iterEnd, held' = held, position' = position
    PROVE  OnItsWay(p)'
  <1> PICK landed \in SUBSET PartitionsOf(s) : CommitOffsets(s, landed)
    OBVIOUS
  <1>1. /\ \A q \in held[p] : committed'[q] <= TakenUp(p, q)
        /\ \A k \in DOMAIN t : committed'[t[k].rec[1]] < t[k].rec[2]
    BY RewindCommits
  <1>2. \A q \in Partitions : TakenUp(p, q)' = TakenUp(p, q)
    BY DEF TakenUp
  <1>3. HoldsItsOwn(p)'
    BY <1>1, <1>2 DEF OnItsWay, HoldsItsOwn
  <1>4. Increasing(t)
    BY IncreasingParts DEF OnItsWay
  <1>5. ASSUME NEW k \in DOMAIN t, NEW r, r = t[k].rec
        PROVE  owner[r[1]] = p /\ committed'[r[1]] < r[2] /\ r[2] <= TakenUp(p, r[1])'
    <2> DEFINE u == s \o t
    <2>1. \E l \in DOMAIN u : u[l] = t[k]
      <3>1. u[Len(s) + k] = t[k] /\ Len(s) + k \in DOMAIN u
        OBVIOUS
      <3> QED BY <3>1
    <2>2. PICK l \in DOMAIN Pipe(p) : Pipe(p)[l] = t[k]
      BY <2>1
    <2>3. r[1] \in Partitions
      BY <1>5, PipeRecords
    <2>4. owner[r[1]] = p /\ r[2] <= TakenUp(p, r[1])
      BY <1>5, <2>2 DEF OnItsWay, AheadOfCommit
    <2> QED BY <1>1, <1>2, <1>5, <2>3, <2>4
  <1>6. AheadOfCommit(p, Pipe(p))'
    BY <1>5 DEF AheadOfCommit
  <1>7. Increasing(Pipe(p))'
    BY <1>4 DEF Increasing
  <1> QED BY <1>3, <1>6, <1>7 DEF OnItsWay

LEMMA RewindCommit ==
    ASSUME TypeOK, TypeOK', RewindInv, rebalances = 0, NEW p \in Replicas, Commit(p)
    PROVE  RewindInv' /\ \A q \in Partitions : committed'[q] >= committed[q]
  <1> DEFINE s == batch[p]
             t == chan[p] \o sending[p]
  <1>1. /\ owner' = owner /\ status' = status /\ chan' = chan /\ at' = at
        /\ sending' = sending /\ iterPos' = iterPos /\ iterEnd' = iterEnd
        /\ held' = held /\ position' = position /\ consuming' = consuming
        /\ batch'[p] = <<>>
        /\ \A p2 \in Replicas : p2 # p => batch'[p2] = batch[p2] /\ stage'[p2] = stage[p2]
    BY DEF Commit, consumer, client, iter, TypeOK
  <1>2. OnItsWay(p)
    BY RewindInvLocal
  <1>3. s \in Seq(Items) /\ t \in Seq(Items) /\ Pipe(p) = s \o t
    BY BatchTyped, PipeTyped DEF Pipe
  <1>4. Pipe(p)' = t
    BY <1>1, <1>3 DEF Pipe
  <1>5. PICK landed \in SUBSET PartitionsOf(s) : CommitOffsets(s, landed)
    BY DEF Commit
  <1> HIDE DEF s, t
  <1>6. /\ \A q \in Partitions : committed'[q] >= committed[q]
        /\ \A q \in Partitions : owner[q] # p => committed'[q] = committed[q]
    BY <1>2, <1>3, <1>5, RewindCommits
  <1>7. OnItsWay(p)'
    BY <1>1, <1>2, <1>3, <1>4, <1>5, RewindDrop
  <1>8. \A p2 \in Replicas : p2 # p => Untouched(p2)
    BY <1>1 DEF Untouched
  <1>9. RewindInv'
    BY <1>1, <1>6, <1>7, <1>8, RewindStep
  <1> QED BY <1>6, <1>9

LEMMA RewindDrain ==
    ASSUME TypeOK, TypeOK', RewindInv, rebalances = 0, NEW p \in Replicas, Drain(p)
    PROVE  RewindInv' /\ \A q \in Partitions : committed'[q] >= committed[q]
  <1> DEFINE s == batch[p] \o chan[p]
             t == sending[p]
  <1>1. /\ owner' = owner /\ status' = status /\ at' = at
        /\ sending' = sending /\ iterPos' = iterPos /\ iterEnd' = iterEnd
        /\ held' = held /\ position' = position /\ consuming' = consuming
        /\ chan'[p] = <<>>
    BY DEF Drain, consumer, client, iter, TypeOK
  <1>2. \A p2 \in Replicas : p2 # p =>
            batch'[p2] = batch[p2] /\ chan'[p2] = chan[p2] /\ stage'[p2] = stage[p2]
    BY DEF Drain, TypeOK
  <1>3. \/ batch'[p] = s /\ committed' = committed
        \/ /\ batch'[p] = <<>>
           /\ \E landed \in SUBSET PartitionsOf(s) : CommitOffsets(s, landed)
    BY DEF Drain, TypeOK
  <1>4. OnItsWay(p)
    BY RewindInvLocal
  <1>5. s \in Seq(Items) /\ t \in Seq(Items) /\ Pipe(p) = s \o t
    <2>1. batch[p] \in Seq(Items) /\ chan[p] \in Seq(Items) /\ t \in Seq(Items)
      BY BatchTyped
    <2>2. s \o t = batch[p] \o (chan[p] \o t)
      BY <2>1, Reassociate
    <2> QED BY <2>1, <2>2 DEF Pipe
  <1>6. Pipe(p)' = batch'[p] \o t
    <2>1. chan'[p] \o sending'[p] = t
      BY <1>1, <1>5
    <2> QED BY <2>1 DEF Pipe
  <1> HIDE DEF s, t
  <1>7. \A p2 \in Replicas : p2 # p => Untouched(p2)
    BY <1>1, <1>2 DEF Untouched
  <1>8. CASE batch'[p] = s /\ committed' = committed
    <2>1. Pipe(p)' = Pipe(p)
      BY <1>5, <1>6, <1>8
    <2>2. RewindInv'
      BY <1>1, <1>7, <1>8, <2>1, RewindKeeps
    <2> QED BY <1>8, <2>2 DEF TypeOK
  <1>9. CASE /\ batch'[p] = <<>>
             /\ \E landed \in SUBSET PartitionsOf(s) : CommitOffsets(s, landed)
    <2>1. Pipe(p)' = t
      BY <1>5, <1>6, <1>9
    <2>2. OnItsWay(p)'
      BY <1>1, <1>4, <1>5, <1>9, <2>1, RewindDrop
    <2>3. /\ \A q \in Partitions : committed'[q] >= committed[q]
          /\ \A q \in Partitions : owner[q] # p => committed'[q] = committed[q]
      BY <1>4, <1>5, <1>9, RewindCommits
    <2>4. RewindInv'
      BY <1>1, <1>7, <2>2, <2>3, RewindStep
    <2> QED BY <2>3, <2>4
  <1> QED BY <1>3, <1>8, <1>9

\* A step keeps the invariant, and the offsets it commits are further on.
LEMMA RewindNext ==
    ASSUME TypeOK, TypeOK', RewindInv, [Next]_vars
    PROVE  /\ RewindInv'
           /\ rebalances = 0 => \A q \in Partitions : committed'[q] >= committed[q]
  <1>1. CASE UNCHANGED vars
    <2>1. /\ committed' = committed /\ owner' = owner /\ rebalances' = rebalances
          /\ \A p \in Replicas : Untouched(p) /\ Pipe(p)' = Pipe(p)
      BY <1>1 DEF vars, durable, consumer, client, iter, flusher, budgets, Untouched, Pipe
    <2>2. ASSUME rebalances = 0, NEW p \in Replicas PROVE OnItsWay(p)'
      BY <2>1, <2>2, RewindInvLocal, RewindFrame DEF Untouched
    <2>3. RewindInv'
      BY <2>1, <2>2 DEF RewindInv, OnItsWay
    <2> QED BY <2>1, <2>3 DEF TypeOK
  <1>2. CASE Next
    <2> PICK p \in Replicas :
          Process(p) \/ Rebalance(p) \/ Consume(p) \/ DlqAck(p) \/ DlqFail(p) \/ ProcessBatches(p)
      BY <1>2 DEF Next
    <2>1. rebalances' = rebalances \/ rebalances' = rebalances + 1
      <3>1. CASE Process(p)
        BY <3>1 DEF Process, Start, Stop, Exit, Crash, Vanish, budgets
      <3>2. CASE Rebalance(p)
        BY <3>2 DEF Rebalance, Assign, Expire, Lost, Revoke, budgets
      <3>3. CASE Consume(p) \/ DlqAck(p) \/ DlqFail(p)
        BY <3>3 DEF Consume, Poll, Decode, Send, Quit, DlqAck, DlqFail, budgets
      <3>4. CASE ProcessBatches(p)
        BY <3>4 DEF ProcessBatches, Flush, Receive, Tick, Drain, Copy, CopyError, Skip, CountEvent,
                    InsertRow, RowConflict, RowError, Commit, budgets
      <3> QED BY <3>1, <3>2, <3>3, <3>4
    <2>2. CASE rebalances # 0
      <3>1. rebalances' # 0
        BY <2>1, <2>2 DEF TypeOK
      <3> QED BY <2>2, <3>1 DEF RewindInv
    <2>3. CASE rebalances = 0
      <3>1. CASE committed' = committed
        <4>1. ASSUME ProcessBatches(p) PROVE RewindInv'
          BY <2>3, <4>1, RewindReceive, RewindWrites, RewindCommit, RewindDrain DEF ProcessBatches, Flush
        <4>2. RewindInv'
          BY <2>3, <4>1, RewindProcess, RewindRebalance, RewindConsume, RewindDlq
        <4> QED BY <3>1, <4>2 DEF TypeOK
      <3>2. CASE Commit(p) \/ Drain(p)
        BY <2>3, <3>2, RewindCommit, RewindDrain
      <3>3. committed' = committed \/ Commit(p) \/ Drain(p)
        BY DEF Process, Start, Stop, Exit, Crash, Vanish, Rebalance, Assign, Expire, Lost, Revoke,
               Consume, Poll, Decode, Send, Quit, DlqAck, DlqFail, ProcessBatches, Flush, Receive, Tick,
               Copy, CopyError, Skip, CountEvent, InsertRow, RowConflict, RowError, durable
      <3> QED BY <3>1, <3>2, <3>3
    <2> QED BY <2>2, <2>3
  <1> QED BY <1>1, <1>2

\* As long as no partition is taken from a running replica, each replica has in
\* memory, in the order of the log, records of its own partitions beyond their
\* committed offsets and nothing else.
THEOREM RewindInvariant == Spec => []RewindInv
  <1>1. TypeOK /\ TypeOK' /\ RewindInv /\ [Next]_vars => RewindInv'
    BY RewindNext
  <1> QED BY <1>1, RewindInit, TypeCorrect, PTL DEF Spec

\* Committed offsets never go back, whichever flushes fail, are retried or
\* overlap a shutdown, and whoever starts on the partitions of a replica that
\* died, as long as no partition is taken from a running replica.
THEOREM OffsetsGoForward == Spec => CommitsNeverRewind
  <1>1. TypeOK /\ TypeOK' /\ RewindInv /\ [Next]_vars =>
            [rebalances = 0 => \A q \in Partitions : committed'[q] >= committed[q]]_vars
    BY RewindNext
  <1> QED BY <1>1, RewindInvariant, TypeCorrect, PTL DEF Spec, CommitsNeverRewind
=============================================================================
