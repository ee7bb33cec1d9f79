-------------------------- MODULE EventSummariesProofs --------------------------
(***************************************************************************)
(* The transactions of updateSummary, for all events, replicas, rows and   *)
(* numbers of attempts and failures: they count one at a time, as the      *)
(* ledger does, and so no update is lost or made twice.                    *)
(***************************************************************************)
EXTENDS EventSummaries, FiniteSetTheorems, SequenceTheorems, TLAPS

\* The lock makes what a transaction has read, or is about to commit, as good
\* as the row itself; a second attempt has seen a committed row.
WorkerInv(w) ==
    step[w] # "idle" =>
        /\ event[w] \in Events /\ outcome[event[w]] = "running"
        /\ step[w] \in {"update", "commit"} => holder[Bucket(w)] = w
        /\ step[w] = "update" => rows[Bucket(w)] # NoRow /\ row[w] = rows[Bucket(w)]
        /\ step[w] = "commit" =>
              \/ rows[Bucket(w)] = NoRow /\ row[w] = FirstRow(event[w])
              \/ rows[Bucket(w)] # NoRow /\ row[w] \in WithEvent(rows[Bucket(w)], event[w])
        /\ attempt[w] > 1 => rows[Bucket(w)] # NoRow

\* No two calls are for the same event.
CallInv ==
    \A w, v \in Workers : w # v /\ step[w] # "idle" /\ step[v] # "idle" => event[w] # event[v]

SummariesInv == TypeOK /\ CallInv /\ \A w \in Workers : WorkerInv(w)

-----------------------------------------------------------------------------
(* Rows                                                                    *)

LEMMA BucketsAre == \A e \in Events : BucketOf(e) \in Buckets
  BY DEF Buckets

LEMMA FirstRowIsRow == \A e \in Events : FirstRow(e) \in Rows /\ FirstRow(e).total = 1
  <1> SUFFICES ASSUME NEW e \in Events PROVE FirstRow(e) \in Rows /\ FirstRow(e).total = 1
    OBVIOUS
  <1>1. <<e>> \in Seq(Events)
    OBVIOUS
  <1> QED BY <1>1 DEF FirstRow, Rows

\* Samples stay samples, whichever of them is replaced.
LEMMA NextSamplesAre ==
    ASSUME NEW samples \in Seq(Events), NEW total \in Nat, NEW e \in Events,
           NEW s \in NextSamples(samples, total, e)
    PROVE  s \in Seq(Events)
  <1>1. CASE Len(samples) < SampleLimit
    BY <1>1 DEF NextSamples
  <1>2. CASE ~ (Len(samples) < SampleLimit)
    <2>1. PICK pick \in 1 .. total : s = [i \in DOMAIN samples |-> IF i = pick THEN e ELSE samples[i]]
      BY <1>2 DEF NextSamples
    <2>2. DOMAIN samples = 1 .. Len(samples) /\ Len(samples) \in Nat
      OBVIOUS
    <2>3. \A i \in 1 .. Len(samples) : s[i] \in Events
      BY <2>1, <2>2
    <2>4. s \in [1 .. Len(samples) -> Events]
      BY <2>1, <2>2, <2>3
    <2> QED BY <2>2, <2>4, SeqDef
  <1> QED BY <1>1, <1>2

LEMMA WithEventIsRow ==
    ASSUME NEW r \in Rows, NEW e \in Events, NEW new \in WithEvent(r, e)
    PROVE  new \in Rows /\ new.total = r.total + 1
  <1>1. PICK s \in NextSamples(r.samples, r.total + 1, e) :
            new = [total      |-> r.total + 1,
                   bySeverity |-> [r.bySeverity EXCEPT ![Severity[e]] = @ + 1],
                   byType     |-> [r.byType EXCEPT ![Type[e]] = @ + 1],
                   samples    |-> s]
    BY DEF WithEvent
  <1>2. /\ r.total \in Nat /\ r.samples \in Seq(Events)
        /\ r.bySeverity \in [Severities -> Nat] /\ r.byType \in [Types -> Nat]
    BY DEF Rows
  <1>3. s \in Seq(Events)
    BY <1>2, NextSamplesAre
  <1>4. [r.bySeverity EXCEPT ![Severity[e]] = @ + 1] \in [Severities -> Nat]
    BY <1>2 DEF Severities
  <1>5. [r.byType EXCEPT ![Type[e]] = @ + 1] \in [Types -> Nat]
    BY <1>2 DEF Types
  <1> QED BY <1>1, <1>2, <1>3, <1>4, <1>5 DEF Rows

-----------------------------------------------------------------------------
(* Steps                                                                   *)

LEMMA InitHolds == Init => SummariesInv
  BY AttemptsAssumption DEF Init, SummariesInv, TypeOK, CallInv, WorkerInv

LEMMA CallHolds ==
    ASSUME SummariesInv, NEW w \in Workers, NEW e \in Events, Call(w, e)
    PROVE  SummariesInv'
  <1> USE DEF Call
  <1>1. TypeOK'
    BY AttemptsAssumption DEF SummariesInv, TypeOK
  <1>2. CallInv'
    BY DEF SummariesInv, TypeOK, CallInv, WorkerInv
  <1>3. ASSUME NEW v \in Workers PROVE WorkerInv(v)'
    BY DEF SummariesInv, TypeOK, WorkerInv, Bucket
  <1> QED BY <1>1, <1>2, <1>3 DEF SummariesInv

\* Reading, inserting and changing a row, up to the COMMIT.
LEMMA SelectRowHolds ==
    ASSUME SummariesInv, NEW w \in Workers, SelectRow(w)
    PROVE  SummariesInv'
  <1> USE DEF SelectRow
  <1>0. event[w] \in Events /\ Bucket(w) \in Buckets
    BY BucketsAre DEF SummariesInv, WorkerInv, Bucket
  <1>1. TypeOK'
    BY <1>0 DEF SummariesInv, TypeOK
  <1>2. CallInv'
    BY DEF SummariesInv, TypeOK, CallInv
  <1>3. ASSUME NEW v \in Workers PROVE WorkerInv(v)'
    BY <1>0, NullAssumption DEF SummariesInv, TypeOK, WorkerInv, Bucket
  <1> QED BY <1>1, <1>2, <1>3 DEF SummariesInv

LEMMA SelectNothingHolds ==
    ASSUME SummariesInv, NEW w \in Workers, SelectNothing(w)
    PROVE  SummariesInv'
  <1> USE DEF SelectNothing
  <1>1. TypeOK'
    BY DEF SummariesInv, TypeOK
  <1>2. CallInv'
    BY DEF SummariesInv, TypeOK, CallInv
  <1>3. ASSUME NEW v \in Workers PROVE WorkerInv(v)'
    BY DEF SummariesInv, TypeOK, WorkerInv, Bucket
  <1> QED BY <1>1, <1>2, <1>3 DEF SummariesInv

LEMMA InsertHolds ==
    ASSUME SummariesInv, NEW w \in Workers, Insert(w)
    PROVE  SummariesInv'
  <1> USE DEF Insert
  <1>0. event[w] \in Events /\ Bucket(w) \in Buckets
    BY BucketsAre DEF SummariesInv, WorkerInv, Bucket
  <1>1. TypeOK'
    BY <1>0, FirstRowIsRow DEF SummariesInv, TypeOK
  <1>2. CallInv'
    BY DEF SummariesInv, TypeOK, CallInv
  <1>3. ASSUME NEW v \in Workers PROVE WorkerInv(v)'
    BY <1>0, NullAssumption DEF SummariesInv, TypeOK, WorkerInv, Bucket
  <1> QED BY <1>1, <1>2, <1>3 DEF SummariesInv

LEMMA UpdateHolds ==
    ASSUME SummariesInv, NEW w \in Workers, Update(w)
    PROVE  SummariesInv'
  <1>0. event[w] \in Events /\ Bucket(w) \in Buckets /\ rows[Bucket(w)] \in Rows /\ row[w] = rows[Bucket(w)]
    BY BucketsAre DEF Update, SummariesInv, TypeOK, WorkerInv, Bucket
  <1>1. PICK new \in WithEvent(row[w], event[w]) : row' = [row EXCEPT ![w] = new]
    BY DEF Update
  <1>2. new \in Rows
    BY <1>0, WithEventIsRow
  <1>3. TypeOK'
    BY <1>1, <1>2 DEF Update, SummariesInv, TypeOK
  <1>4. CallInv'
    BY DEF Update, SummariesInv, TypeOK, CallInv
  <1>5. ASSUME NEW v \in Workers PROVE WorkerInv(v)'
    BY <1>0, <1>1 DEF Update, SummariesInv, TypeOK, WorkerInv, Bucket
  <1> QED BY <1>3, <1>4, <1>5 DEF SummariesInv

\* What is common to the calls that end: nobody else's lock is touched.
LEMMA ReturnHolds ==
    ASSUME SummariesInv, NEW w \in Workers, NEW result \in {"ok", "error"},
           step[w] # "idle", Return(w, result), faults' \in 0 .. MaxFaults,
           \/ UNCHANGED rows
           \/ step[w] = "commit" /\ rows' = [rows EXCEPT ![Bucket(w)] = row[w]]
    PROVE  SummariesInv'
  <1>0. /\ event[w] \in Events /\ Bucket(w) \in Buckets /\ outcome[event[w]] = "running"
        /\ step[w] = "commit" => holder[Bucket(w)] = w /\ row[w] \in Rows
    <2>1. event[w] \in Events /\ Bucket(w) \in Buckets /\ outcome[event[w]] = "running"
      BY BucketsAre DEF SummariesInv, WorkerInv, Bucket
    <2>2. rows[Bucket(w)] = NoRow \/ rows[Bucket(w)] \in Rows
      BY <2>1 DEF SummariesInv, TypeOK
    <2>3. ASSUME step[w] = "commit" PROVE holder[Bucket(w)] = w /\ row[w] \in Rows
      BY <2>1, <2>2, <2>3, FirstRowIsRow, WithEventIsRow DEF SummariesInv, WorkerInv
    <2> QED BY <2>1, <2>3
  <1>1. TypeOK'
    BY <1>0, AttemptsAssumption DEF Return, SummariesInv, TypeOK
  <1>2. CallInv'
    BY DEF Return, SummariesInv, TypeOK, CallInv
  <1>3. ASSUME NEW v \in Workers PROVE WorkerInv(v)'
    <2>1. CASE v = w
      BY <2>1 DEF Return, SummariesInv, TypeOK, WorkerInv
    <2>2. CASE v # w /\ step[v] # "idle"
      <3>1. /\ event[v] \in Events /\ event[v] # event[w] /\ Bucket(v) \in Buckets
            /\ outcome[event[v]] = "running"
        BY <2>2, BucketsAre DEF SummariesInv, CallInv, WorkerInv, Bucket
      <3>2. UNCHANGED <<event[v], step[v], attempt[v], row[v], outcome[event[v]], Bucket(v)>>
        BY <2>2, <3>1 DEF Return, SummariesInv, TypeOK, Bucket
      <3>3. rows'[Bucket(v)] = rows[Bucket(v)] \/ (rows'[Bucket(v)] # NoRow /\ holder[Bucket(v)] # v)
        BY <1>0, <2>2, <3>1, NoRowAssumption DEF SummariesInv, TypeOK
      <3>4. holder[Bucket(v)] = v => holder'[Bucket(v)] = v
        BY <2>2, <3>1 DEF Return, SummariesInv, TypeOK
      <3> QED BY <2>2, <3>1, <3>2, <3>3, <3>4 DEF SummariesInv, WorkerInv
    <2>3. CASE v # w /\ step[v] = "idle"
      BY <2>3 DEF Return, SummariesInv, TypeOK, WorkerInv
    <2> QED BY <2>1, <2>2, <2>3
  <1> QED BY <1>1, <1>2, <1>3 DEF SummariesInv

LEMMA InsertConflictHolds ==
    ASSUME SummariesInv, NEW w \in Workers, InsertConflict(w)
    PROVE  SummariesInv'
  <1>1. CASE attempt[w] < MaxAttempts
    <2>1. TypeOK'
      BY <1>1, AttemptsAssumption DEF InsertConflict, SummariesInv, TypeOK
    <2>2. CallInv'
      BY <1>1 DEF InsertConflict, SummariesInv, TypeOK, CallInv
    <2>3. ASSUME NEW v \in Workers PROVE WorkerInv(v)'
      BY <1>1 DEF InsertConflict, SummariesInv, TypeOK, WorkerInv, Bucket
    <2> QED BY <2>1, <2>2, <2>3 DEF SummariesInv
  <1>2. CASE ~ (attempt[w] < MaxAttempts)
    <2>1. Return(w, "error") /\ UNCHANGED <<rows, faults>> /\ step[w] # "idle"
      BY <1>2 DEF InsertConflict
    <2>2. faults' \in 0 .. MaxFaults
      BY <2>1 DEF SummariesInv, TypeOK
    <2> QED BY <2>1, <2>2, ReturnHolds
  <1> QED BY <1>1, <1>2

LEMMA CommitHolds ==
    ASSUME SummariesInv, NEW w \in Workers, Commit(w)
    PROVE  SummariesInv'
  <1>1. faults' \in 0 .. MaxFaults
    BY DEF Commit, SummariesInv, TypeOK
  <1> QED BY <1>1, ReturnHolds DEF Commit

LEMMA FailHolds ==
    ASSUME SummariesInv, NEW w \in Workers, Fail(w)
    PROVE  SummariesInv'
  <1>1. faults' \in 0 .. MaxFaults
    BY AttemptsAssumption DEF Fail, SummariesInv, TypeOK
  <1> QED BY <1>1, ReturnHolds DEF Fail

LEMMA StepHolds == SummariesInv /\ [Next]_vars => SummariesInv'
  <1> SUFFICES ASSUME SummariesInv, [Next]_vars PROVE SummariesInv'
    OBVIOUS
  <1>1. ASSUME NEW w \in Workers, NEW e \in Events, Call(w, e) PROVE SummariesInv'
    BY <1>1, CallHolds
  <1>2. ASSUME NEW w \in Workers, Attempt(w) PROVE SummariesInv'
    BY <1>2, SelectRowHolds, SelectNothingHolds, InsertHolds, InsertConflictHolds, UpdateHolds,
       CommitHolds DEF Attempt
  <1>3. ASSUME NEW w \in Workers, Fail(w) PROVE SummariesInv'
    BY <1>3, FailHolds
  <1>4. CASE UNCHANGED vars
    BY <1>4 DEF vars, SummariesInv, TypeOK, CallInv, WorkerInv, Bucket
  <1> QED BY <1>1, <1>2, <1>3, <1>4 DEF Next

\* A row's lock stands for what its holder knows of the row.
THEOREM SummariesInvariant == Spec => []SummariesInv
  BY InitHolds, StepHolds, PTL DEF Spec

\* Rows stay rows, and attempts within MaxAttempts, for every number of failures.
THEOREM TypeCorrect == Spec => []TypeOK
  <1>1. SummariesInv => TypeOK
    BY DEF SummariesInv
  <1> QED BY <1>1, SummariesInvariant, PTL

\* A second attempt finds the row that made the first one fail: where there is
\* a second attempt, no conflict ends a call.
THEOREM RetryIsEnough ==
    ASSUME MaxAttempts > 1
    PROVE  Spec => []RetrySuffices
  <1>1. SummariesInv => RetrySuffices
    BY AttemptsAssumption DEF SummariesInv, TypeOK, WorkerInv, RetrySuffices
  <1> QED BY <1>1, SummariesInvariant, PTL

-----------------------------------------------------------------------------
(* The ledger: a call counts its event when it commits, or not at all.     *)

LEMMA SameRows ==
    /\ Ledger!Buckets = Buckets
    /\ \A e : Ledger!BucketOf(e) = BucketOf(e) /\ Ledger!FirstRow(e) = FirstRow(e)
    /\ \A r, e : Ledger!WithEvent(r, e) = WithEvent(r, e)
  <1>1. \A e : Ledger!BucketOf(e) = BucketOf(e)
    BY DEF Ledger!BucketOf, BucketOf
  <1>2. Ledger!Severities = Severities /\ Ledger!Types = Types
    BY DEF Ledger!Severities, Severities, Ledger!Types, Types
  <1>3. \A e : Ledger!FirstRow(e) = FirstRow(e)
    BY <1>2 DEF Ledger!FirstRow, FirstRow
  <1>4. \A samples, total, e : Ledger!NextSamples(samples, total, e) = NextSamples(samples, total, e)
    BY DEF Ledger!NextSamples, NextSamples
  <1>5. \A r, e : Ledger!WithEvent(r, e) = WithEvent(r, e)
    BY <1>4 DEF Ledger!WithEvent, WithEvent
  <1>6. Ledger!Buckets = Buckets
    BY <1>1 DEF Ledger!Buckets, Buckets
  <1> QED BY <1>1, <1>3, <1>5, <1>6

\* How the ledger sees the calls.
ledgerOutcome == [e \in Events |-> IF outcome[e] \in {"new", "running"} THEN "pending" ELSE outcome[e]]

\* A call that ends without a commit drops its event.
LEMMA ReturnDrops ==
    ASSUME SummariesInv, NEW w \in Workers, NEW e \in Events, event[w] = e,
           step[w] # "idle", Return(w, "error"), UNCHANGED rows
    PROVE  Ledger!Drop(e)
  <1>1. outcome[e] = "running"
    BY DEF SummariesInv, WorkerInv
  <1>2. outcome' = [outcome EXCEPT ![e] = "error"]
    BY DEF Return
  <1>3. ledgerOutcome' = [ledgerOutcome EXCEPT ![e] = "error"]
    BY <1>1, <1>2 DEF SummariesInv, TypeOK, ledgerOutcome
  <1> QED BY <1>1, <1>3 DEF Ledger!Drop, ledgerOutcome

\* A COMMIT that takes effect counts the event, whatever the call returns.
LEMMA CommitCounts ==
    ASSUME SummariesInv, NEW w \in Workers, NEW e \in Events, event[w] = e,
           NEW result \in {"ok", "error"}, step[w] = "commit", Return(w, result),
           rows' = [rows EXCEPT ![Bucket(w)] = row[w]]
    PROVE  Ledger!Count(e)
  <1>1. outcome[e] = "running"
    BY DEF SummariesInv, WorkerInv
  <1>2. outcome' = [outcome EXCEPT ![e] = result]
    BY DEF Return
  <1>3. ledgerOutcome' = [ledgerOutcome EXCEPT ![e] = result]
    BY <1>1, <1>2 DEF SummariesInv, TypeOK, ledgerOutcome
  <1>4. \/ rows[BucketOf(e)] = NoRow /\ row[w] = FirstRow(e)
        \/ rows[BucketOf(e)] # NoRow /\ row[w] \in WithEvent(rows[BucketOf(e)], e)
    BY DEF SummariesInv, WorkerInv, Bucket
  <1> QED BY <1>1, <1>3, <1>4, SameRows DEF Ledger!Count, ledgerOutcome, Bucket

\* Every other step is none of the ledger's.
LEMMA StepIsLedgers ==
    ASSUME SummariesInv, [Next]_vars
    PROVE  \/ \E e \in Events : Ledger!Count(e) \/ Ledger!Drop(e)
           \/ UNCHANGED <<rows, ledgerOutcome>>
  <1>1. ASSUME NEW w \in Workers, NEW e \in Events, Call(w, e)
        PROVE  UNCHANGED <<rows, ledgerOutcome>>
    BY <1>1 DEF Call, SummariesInv, TypeOK, ledgerOutcome
  <1>2. ASSUME NEW w \in Workers, Attempt(w) \/ Fail(w)
        PROVE  \/ \E e \in Events : Ledger!Count(e) \/ Ledger!Drop(e)
               \/ UNCHANGED <<rows, ledgerOutcome>>
    <2>1. step[w] # "idle"
      BY <1>2 DEF Attempt, Fail, SelectRow, SelectNothing, Insert, InsertConflict, Update, Commit
    <2>2. PICK e \in Events : event[w] = e
      BY <2>1 DEF SummariesInv, WorkerInv
    <2>3. CASE SelectRow(w) \/ SelectNothing(w) \/ Insert(w) \/ Update(w)
      BY <2>3 DEF SelectRow, SelectNothing, Insert, Update, ledgerOutcome
    <2>4. CASE InsertConflict(w)
      <3>1. UNCHANGED rows /\ (UNCHANGED outcome \/ Return(w, "error"))
        BY <2>4 DEF InsertConflict
      <3>2. Ledger!Drop(e) \/ UNCHANGED <<rows, ledgerOutcome>>
        BY <2>1, <2>2, <3>1, ReturnDrops DEF ledgerOutcome
      <3> QED BY <3>2
    <2>5. CASE Commit(w)
      <3>1. Ledger!Count(e)
        BY <2>2, <2>5, CommitCounts DEF Commit
      <3> QED BY <3>1
    <2>6. CASE Fail(w)
      <3>1. Ledger!Count(e) \/ Ledger!Drop(e)
        BY <2>1, <2>2, <2>6, CommitCounts, ReturnDrops DEF Fail
      <3> QED BY <3>1
    <2> QED BY <1>2, <2>3, <2>4, <2>5, <2>6 DEF Attempt
  <1>3. CASE UNCHANGED vars
    BY <1>3 DEF vars, ledgerOutcome
  <1> QED BY <1>1, <1>2, <1>3 DEF Next

\* Replicas that meet on rows count as if each call ran alone.
THEOREM SummariesImplementLedger == Spec => LedgerSpec
  <1>1. Init => Ledger!Init
    BY SameRows DEF Init, Ledger!Init
  <1>2. SummariesInv /\ [Next]_vars => [Ledger!Next]_<<rows, ledgerOutcome>>
    BY StepIsLedgers DEF Ledger!Next
  <1> QED BY <1>1, <1>2, SummariesInvariant, PTL DEF Spec, LedgerSpec, Ledger!Spec, ledgerOutcome

-----------------------------------------------------------------------------
(* No update is lost.                                                      *)

Total(b) == IF rows[b] = NoRow THEN 0 ELSE rows[b].total

LEMMA EndedIsFinite ==
    ASSUME NEW b, NEW results
    PROVE  IsFiniteSet(Ended(b, results)) /\ Cardinality(Ended(b, results)) \in Nat
  <1>1. Ended(b, results) \in SUBSET Events
    BY DEF Ended
  <1>2. IsFiniteSet(Ended(b, results))
    BY <1>1, EventsAssumption, FS_Subset
  <1> QED BY <1>2, FS_CardinalityType

\* The end of a call makes one event one of the ended.
LEMMA EndedGrows ==
    ASSUME TypeOK, NEW e \in Events, outcome[e] = "running", NEW result \in {"ok", "error"},
           outcome' = [outcome EXCEPT ![e] = result], NEW b
    PROVE  /\ Cardinality(Ended(b, {"ok"})') =
                  Cardinality(Ended(b, {"ok"})) + IF b = BucketOf(e) /\ result = "ok" THEN 1 ELSE 0
           /\ Cardinality(Ended(b, {"ok", "error"})') =
                  Cardinality(Ended(b, {"ok", "error"})) + IF b = BucketOf(e) THEN 1 ELSE 0
  <1>1. e \notin Ended(b, {"ok"}) /\ e \notin Ended(b, {"ok", "error"})
    BY DEF Ended
  <1>2. Ended(b, {"ok"})' = IF b = BucketOf(e) /\ result = "ok"
                            THEN Ended(b, {"ok"}) \cup {e} ELSE Ended(b, {"ok"})
    BY DEF TypeOK, Ended
  <1>3. Ended(b, {"ok", "error"})' = IF b = BucketOf(e)
                                     THEN Ended(b, {"ok", "error"}) \cup {e} ELSE Ended(b, {"ok", "error"})
    BY DEF TypeOK, Ended
  <1>4. ASSUME NEW S, IsFiniteSet(S), e \notin S
        PROVE  Cardinality(S \cup {e}) = Cardinality(S) + 1
    BY <1>4, FS_AddElement
  <1>5. Cardinality(Ended(b, {"ok"})') =
            Cardinality(Ended(b, {"ok"})) + IF b = BucketOf(e) /\ result = "ok" THEN 1 ELSE 0
    BY <1>1, <1>2, <1>4, EndedIsFinite
  <1>6. Cardinality(Ended(b, {"ok", "error"})') =
            Cardinality(Ended(b, {"ok", "error"})) + IF b = BucketOf(e) THEN 1 ELSE 0
    BY <1>1, <1>3, <1>4, EndedIsFinite
  <1> QED BY <1>5, <1>6

\* A call that ends without having counted.
LEMMA DropLosesNone ==
    ASSUME SummariesInv, NoLostUpdate, NEW w \in Workers, step[w] # "idle",
           Return(w, "error"), UNCHANGED rows
    PROVE  NoLostUpdate'
  <1>1. event[w] \in Events /\ outcome[event[w]] = "running"
    BY DEF SummariesInv, WorkerInv
  <1>2. outcome' = [outcome EXCEPT ![event[w]] = "error"]
    BY DEF Return
  <1> SUFFICES ASSUME NEW b \in Buckets
               PROVE  /\ Cardinality(Ended(b, {"ok"})') <= Total(b)'
                      /\ Total(b)' <= Cardinality(Ended(b, {"ok", "error"})')
    BY DEF NoLostUpdate, Total
  <1>3. Total(b)' = Total(b) /\ Total(b) \in Nat
    BY DEF Total, SummariesInv, TypeOK, Rows
  <1>4. /\ Cardinality(Ended(b, {"ok"})') = Cardinality(Ended(b, {"ok"}))
        /\ Cardinality(Ended(b, {"ok", "error"})') = Cardinality(Ended(b, {"ok", "error"}))
               + IF b = BucketOf(event[w]) THEN 1 ELSE 0
    <2>1. PICK e \in Events : e = event[w]
      BY <1>1
    <2>2. TypeOK /\ outcome[e] = "running" /\ outcome' = [outcome EXCEPT ![e] = "error"]
      BY <1>1, <1>2, <2>1 DEF SummariesInv
    <2>3. /\ Cardinality(Ended(b, {"ok"})') =
                 Cardinality(Ended(b, {"ok"})) + IF b = BucketOf(e) /\ "error" = "ok" THEN 1 ELSE 0
          /\ Cardinality(Ended(b, {"ok", "error"})') =
                 Cardinality(Ended(b, {"ok", "error"})) + IF b = BucketOf(e) THEN 1 ELSE 0
      BY <2>2, EndedGrows
    <2> QED BY <2>1, <2>3, EndedIsFinite
  <1>5. /\ Cardinality(Ended(b, {"ok"})) <= Total(b)
        /\ Total(b) <= Cardinality(Ended(b, {"ok", "error"}))
    BY DEF NoLostUpdate, Total
  <1>6. Cardinality(Ended(b, {"ok"})) \in Nat /\ Cardinality(Ended(b, {"ok", "error"})) \in Nat
    BY EndedIsFinite
  <1> QED BY <1>3, <1>4, <1>5, <1>6

\* A COMMIT adds one to the total of the bucket and to the calls that ended.
LEMMA CommitLosesNone ==
    ASSUME SummariesInv, NoLostUpdate, NEW w \in Workers, step[w] = "commit",
           NEW result \in {"ok", "error"}, Return(w, result),
           rows' = [rows EXCEPT ![Bucket(w)] = row[w]]
    PROVE  NoLostUpdate'
  <1>1. /\ event[w] \in Events /\ outcome[event[w]] = "running" /\ Bucket(w) \in Buckets
        /\ Bucket(w) = BucketOf(event[w])
    BY BucketsAre DEF SummariesInv, WorkerInv, Bucket
  <1>2. outcome' = [outcome EXCEPT ![event[w]] = result]
    BY DEF Return
  <1>3. row[w] \in Rows /\ row[w].total = Total(Bucket(w)) + 1
    <2>1. rows[Bucket(w)] = NoRow \/ rows[Bucket(w)] \in Rows
      BY <1>1 DEF SummariesInv, TypeOK
    <2>2. \/ rows[Bucket(w)] = NoRow /\ row[w] = FirstRow(event[w])
          \/ rows[Bucket(w)] # NoRow /\ row[w] \in WithEvent(rows[Bucket(w)], event[w])
      BY DEF SummariesInv, WorkerInv
    <2>3. CASE rows[Bucket(w)] = NoRow
      BY <1>1, <2>2, <2>3, FirstRowIsRow DEF Total
    <2>4. CASE rows[Bucket(w)] # NoRow
      BY <1>1, <2>1, <2>2, <2>4, WithEventIsRow DEF Total
    <2> QED BY <2>3, <2>4
  <1> SUFFICES ASSUME NEW b \in Buckets
               PROVE  /\ Cardinality(Ended(b, {"ok"})') <= Total(b)'
                      /\ Total(b)' <= Cardinality(Ended(b, {"ok", "error"})')
    BY DEF NoLostUpdate, Total
  <1>4. Total(b) \in Nat /\ Total(b)' = IF b = Bucket(w) THEN Total(b) + 1 ELSE Total(b)
    <2>1. Total(b) \in Nat
      BY DEF Total, SummariesInv, TypeOK, Rows
    <2>2. rows'[b] = IF b = Bucket(w) THEN row[w] ELSE rows[b]
      BY DEF SummariesInv, TypeOK
    <2> QED BY <1>3, <2>1, <2>2, NoRowAssumption DEF Total
  <1>5. /\ Cardinality(Ended(b, {"ok"})') =
               Cardinality(Ended(b, {"ok"})) + IF b = Bucket(w) /\ result = "ok" THEN 1 ELSE 0
        /\ Cardinality(Ended(b, {"ok", "error"})') =
               Cardinality(Ended(b, {"ok", "error"})) + IF b = Bucket(w) THEN 1 ELSE 0
    <2>1. PICK e \in Events : e = event[w]
      BY <1>1
    <2>2. TypeOK /\ outcome[e] = "running" /\ outcome' = [outcome EXCEPT ![e] = result]
      BY <1>1, <1>2, <2>1 DEF SummariesInv
    <2>3. /\ Cardinality(Ended(b, {"ok"})') =
                 Cardinality(Ended(b, {"ok"})) + IF b = BucketOf(e) /\ result = "ok" THEN 1 ELSE 0
          /\ Cardinality(Ended(b, {"ok", "error"})') =
                 Cardinality(Ended(b, {"ok", "error"})) + IF b = BucketOf(e) THEN 1 ELSE 0
      BY <2>2, EndedGrows
    <2> QED BY <1>1, <2>1, <2>3
  <1>6. /\ Cardinality(Ended(b, {"ok"})) <= Total(b)
        /\ Total(b) <= Cardinality(Ended(b, {"ok", "error"}))
    BY DEF NoLostUpdate, Total
  <1>7. Cardinality(Ended(b, {"ok"})) \in Nat /\ Cardinality(Ended(b, {"ok", "error"})) \in Nat
    BY EndedIsFinite
  <1> QED BY <1>4, <1>5, <1>6, <1>7

LEMMA StepLosesNone ==
    ASSUME SummariesInv, NoLostUpdate, [Next]_vars
    PROVE  NoLostUpdate'
  <1>1. ASSUME UNCHANGED rows,
               \A e \in Events : outcome[e] \in {"ok", "error"} \/ outcome'[e] \in {"ok", "error"}
                   => outcome'[e] = outcome[e]
        PROVE  NoLostUpdate'
    <2>1. \A b \in Buckets : /\ Ended(b, {"ok"})' = Ended(b, {"ok"})
                             /\ Ended(b, {"ok", "error"})' = Ended(b, {"ok", "error"})
      BY <1>1 DEF Ended
    <2> QED BY <1>1, <2>1 DEF NoLostUpdate
  <1>2. ASSUME NEW w \in Workers, NEW e \in Events, Call(w, e) PROVE NoLostUpdate'
    BY <1>1, <1>2 DEF Call, SummariesInv, TypeOK
  <1>3. ASSUME NEW w \in Workers, SelectRow(w) \/ SelectNothing(w) \/ Insert(w) \/ Update(w)
        PROVE  NoLostUpdate'
    BY <1>1, <1>3 DEF SelectRow, SelectNothing, Insert, Update
  <1>4. ASSUME NEW w \in Workers, InsertConflict(w) PROVE NoLostUpdate'
    <2>1. CASE attempt[w] < MaxAttempts
      BY <1>1, <1>4, <2>1 DEF InsertConflict
    <2>2. CASE ~ (attempt[w] < MaxAttempts)
      BY <1>4, <2>2, DropLosesNone DEF InsertConflict
    <2> QED BY <2>1, <2>2
  <1>5. ASSUME NEW w \in Workers, Commit(w) PROVE NoLostUpdate'
    BY <1>5, CommitLosesNone DEF Commit
  <1>6. ASSUME NEW w \in Workers, Fail(w) PROVE NoLostUpdate'
    BY <1>6, CommitLosesNone, DropLosesNone DEF Fail
  <1>7. CASE UNCHANGED vars
    BY <1>1, <1>7 DEF vars
  <1> QED BY <1>2, <1>3, <1>4, <1>5, <1>6, <1>7 DEF Next, Attempt

\* A bucket's total covers every call that succeeded and no more than the
\* calls that ended, however the replicas' transactions interleave and fail.
THEOREM NoUpdateIsLost == Spec => []NoLostUpdate
  <1>1. Init => NoLostUpdate
    <2> SUFFICES ASSUME Init, NEW b \in Buckets
                 PROVE  /\ Cardinality(Ended(b, {"ok"})) <= Total(b)
                        /\ Total(b) <= Cardinality(Ended(b, {"ok", "error"}))
      BY DEF NoLostUpdate, Total
    <2>1. Ended(b, {"ok"}) = {} /\ Total(b) = 0
      BY DEF Init, Ended, Total
    <2> QED BY <2>1, EndedIsFinite, FS_EmptySet
  <1>2. SummariesInv /\ NoLostUpdate /\ [Next]_vars => NoLostUpdate'
    BY StepLosesNone
  <1> QED BY <1>1, <1>2, SummariesInvariant, PTL DEF Spec

-----------------------------------------------------------------------------
(* The columns of a row agree.                                             *)

\* Counting one more of x adds one unit.
LEMMA SumGrows ==
    ASSUME NEW S, NEW f \in [S -> Nat], NEW x \in S, IsFiniteSet(Units(f))
    PROVE  LET g == [f EXCEPT ![x] = @ + 1]
           IN  IsFiniteSet(Units(g)) /\ Sum(g) = Sum(f) + 1
  <1> DEFINE g == [f EXCEPT ![x] = @ + 1]
  <1>1. DOMAIN f = S /\ DOMAIN g = S
    OBVIOUS
  <1>2. \A y, i : <<y, i>> \in Units(f) <=> y \in S /\ i \in 1 .. f[y]
    BY <1>1 DEF Units
  <1>3. Units(g) = Units(f) \cup {<<x, f[x] + 1>>}
    <2> DEFINE F(y) == {y} \X (1 .. f[y])
               G(y) == {y} \X (1 .. g[y])
    <2>1. 1 .. f[x] + 1 = (1 .. f[x]) \cup {f[x] + 1}
      OBVIOUS
    <2>2. G(x) = F(x) \cup {<<x, f[x] + 1>>}
      BY <2>1
    <2>3. \A y \in S : y # x => G(y) = F(y)
      OBVIOUS
    <2>4. \A u : /\ u \in Units(f) <=> \E y \in S : u \in F(y)
                 /\ u \in Units(g) <=> \E y \in S : u \in G(y)
      BY <1>1 DEF Units
    <2> HIDE DEF F, G, g
    <2>5. \A u : (\E y \in S : u \in G(y)) <=> (\E y \in S : u \in F(y)) \/ u = <<x, f[x] + 1>>
      BY <2>2, <2>3
    <2>6. \A u : u \in Units(g) <=> u \in Units(f) \/ u = <<x, f[x] + 1>>
      BY <2>4, <2>5
    <2> QED BY <2>6
  <1>4. <<x, f[x] + 1>> \notin Units(f)
    BY <1>2
  <1>5. ASSUME NEW T, NEW u, IsFiniteSet(T), u \notin T
        PROVE  IsFiniteSet(T \cup {u}) /\ Cardinality(T \cup {u}) = Cardinality(T) + 1
    BY <1>5, FS_AddElement
  <1>6. /\ IsFiniteSet(Units(f) \cup {<<x, f[x] + 1>>})
        /\ Cardinality(Units(f) \cup {<<x, f[x] + 1>>}) = Cardinality(Units(f)) + 1
    BY <1>4, <1>5
  <1> HIDE DEF g
  <1>7. IsFiniteSet(Units(g)) /\ Sum(g) = Sum(f) + 1
    BY <1>3, <1>6 DEF Sum
  <1> QED BY <1>7 DEF g

\* The first one counted is the only one.
LEMMA SumOfOne ==
    ASSUME NEW S, NEW x \in S
    PROVE  LET g == [y \in S |-> IF y = x THEN 1 ELSE 0]
           IN  IsFiniteSet(Units(g)) /\ Sum(g) = 1
  <1> DEFINE g == [y \in S |-> IF y = x THEN 1 ELSE 0]
  <1>1. Units(g) = {<<x, 1>>}
    <2>1. \A y \in S : {y} \X (1 .. g[y]) = IF y = x THEN {<<x, 1>>} ELSE {}
      OBVIOUS
    <2> QED BY <2>1 DEF Units
  <1> QED BY <1>1, FS_Singleton DEF Sum

\* An event lies within its bucket.
LEMMA TimeInBucket ==
    ASSUME NEW e \in Events
    PROVE  BucketOf(e) <= Time[e] /\ Time[e] < BucketOf(e) + Width
  <1>1. Time[e] \in Nat /\ Width \in Nat /\ Width > 0
    BY EventDataAssumption, LimitAssumption
  <1>2. Time[e] % Width \in 0 .. Width - 1
    BY <1>1
  <1> QED BY <1>1, <1>2 DEF BucketOf

\* The samples of a bucket's row: as many as may be, distinct, of the bucket.
SamplesAgree(b, samples, total) ==
    /\ Len(samples) = IF total < SampleLimit THEN total ELSE SampleLimit
    /\ \A i, j \in DOMAIN samples : samples[i] = samples[j] => i = j
    /\ \A i \in DOMAIN samples : b <= Time[samples[i]] /\ Time[samples[i]] < b + Width

\* An event not among the samples joins them, or takes the place of one.
LEMMA SamplesStayAgreed ==
    ASSUME NEW e \in Events, NEW samples \in Seq(Events), NEW total \in Nat,
           SamplesAgree(BucketOf(e), samples, total),
           \A i \in DOMAIN samples : samples[i] # e,
           NEW s \in NextSamples(samples, total + 1, e)
    PROVE  /\ SamplesAgree(BucketOf(e), s, total + 1)
           /\ \A i \in DOMAIN s : s[i] = e \/ \E j \in DOMAIN samples : s[i] = samples[j]
  <1>0. /\ DOMAIN samples = 1 .. Len(samples) /\ Len(samples) \in Nat
        /\ SampleLimit \in Nat
        /\ BucketOf(e) <= Time[e] /\ Time[e] < BucketOf(e) + Width
    BY TimeInBucket, LimitAssumption
  <1>1. CASE Len(samples) < SampleLimit
    <2>1. s = Append(samples, e)
      BY <1>1 DEF NextSamples
    <2>2. /\ Len(s) = Len(samples) + 1 /\ DOMAIN s = 1 .. Len(samples) + 1
          /\ \A i \in 1 .. Len(samples) + 1 : s[i] = IF i = Len(samples) + 1 THEN e ELSE samples[i]
      BY <1>0, <2>1
    <2>3. Len(s) = IF total + 1 < SampleLimit THEN total + 1 ELSE SampleLimit
      BY <1>0, <1>1, <2>2 DEF SamplesAgree
    <2>4. \A i, j \in DOMAIN s : s[i] = s[j] => i = j
      BY <1>0, <2>2 DEF SamplesAgree
    <2>5. \A i \in DOMAIN s : /\ BucketOf(e) <= Time[s[i]] /\ Time[s[i]] < BucketOf(e) + Width
                              /\ s[i] = e \/ \E j \in DOMAIN samples : s[i] = samples[j]
      BY <1>0, <2>2 DEF SamplesAgree
    <2> QED BY <2>3, <2>4, <2>5 DEF SamplesAgree
  <1>2. CASE ~ (Len(samples) < SampleLimit)
    <2>1. PICK pick \in 1 .. total + 1 : s = [i \in DOMAIN samples |-> IF i = pick THEN e ELSE samples[i]]
      BY <1>2 DEF NextSamples
    <2>2. /\ DOMAIN s = 1 .. Len(samples)
          /\ \A i \in 1 .. Len(samples) : s[i] = IF i = pick THEN e ELSE samples[i]
      BY <1>0, <2>1
    <2>3. Len(s) = Len(samples)
      <3>1. s \in Seq(Events)
        BY <2>1, NextSamplesAre
      <3> QED BY <1>0, <2>2, <3>1
    <2>4. Len(s) = IF total + 1 < SampleLimit THEN total + 1 ELSE SampleLimit
      BY <1>0, <1>2, <2>3 DEF SamplesAgree
    <2>5. \A i, j \in DOMAIN s : s[i] = s[j] => i = j
      BY <1>0, <2>2 DEF SamplesAgree
    <2>6. \A i \in DOMAIN s : /\ BucketOf(e) <= Time[s[i]] /\ Time[s[i]] < BucketOf(e) + Width
                              /\ s[i] = e \/ \E j \in DOMAIN samples : s[i] = samples[j]
      BY <1>0, <2>2 DEF SamplesAgree
    <2> QED BY <2>4, <2>5, <2>6 DEF SamplesAgree
  <1> QED BY <1>1, <1>2

\* A row agrees with itself, and only events whose calls are over are among
\* its samples: the next event to be counted is none of them.
RowAgrees(b, r, ended) ==
    /\ IsFiniteSet(Units(r.bySeverity)) /\ IsFiniteSet(Units(r.byType))
    /\ Sum(r.bySeverity) = r.total /\ Sum(r.byType) = r.total
    /\ SamplesAgree(b, r.samples, r.total)
    /\ \A i \in DOMAIN r.samples : r.samples[i] \in ended

RowsInv == \A b \in Buckets : rows[b] # NoRow => RowAgrees(b, rows[b], Ended(b, {"ok", "error"}))

LEMMA FirstRowAgrees ==
    ASSUME NEW e \in Events, NEW ended, e \in ended
    PROVE  RowAgrees(BucketOf(e), FirstRow(e), ended)
  <1> DEFINE sev == [s \in Severities |-> IF s = Severity[e] THEN 1 ELSE 0]
             typ == [s \in Types |-> IF s = Type[e] THEN 1 ELSE 0]
  <1>1. Severity[e] \in Severities /\ Type[e] \in Types
    BY DEF Severities, Types
  <1>2. IsFiniteSet(Units(sev)) /\ Sum(sev) = 1 /\ IsFiniteSet(Units(typ)) /\ Sum(typ) = 1
    BY <1>1, SumOfOne
  <1>3. SamplesAgree(BucketOf(e), <<e>>, 1)
    BY TimeInBucket, LimitAssumption DEF SamplesAgree
  <1>4. FirstRow(e) = [total |-> 1, bySeverity |-> sev, byType |-> typ, samples |-> <<e>>]
    BY DEF FirstRow
  <1> HIDE DEF sev, typ
  <1> QED BY <1>2, <1>3, <1>4 DEF RowAgrees

LEMMA WithEventAgrees ==
    ASSUME NEW e \in Events, NEW r \in Rows, NEW ended, e \notin ended,
           RowAgrees(BucketOf(e), r, ended), NEW new \in WithEvent(r, e)
    PROVE  RowAgrees(BucketOf(e), new, ended \cup {e})
  <1> DEFINE sev == [r.bySeverity EXCEPT ![Severity[e]] = @ + 1]
             typ == [r.byType EXCEPT ![Type[e]] = @ + 1]
  <1>1. PICK s \in NextSamples(r.samples, r.total + 1, e) :
            new = [total |-> r.total + 1, bySeverity |-> sev, byType |-> typ, samples |-> s]
    BY DEF WithEvent
  <1>2. /\ r.total \in Nat /\ r.samples \in Seq(Events)
        /\ r.bySeverity \in [Severities -> Nat] /\ r.byType \in [Types -> Nat]
        /\ Severity[e] \in Severities /\ Type[e] \in Types
    BY DEF Rows, Severities, Types
  <1>3. /\ IsFiniteSet(Units(sev)) /\ Sum(sev) = r.total + 1
        /\ IsFiniteSet(Units(typ)) /\ Sum(typ) = r.total + 1
    BY <1>2, SumGrows DEF RowAgrees
  <1>4. /\ SamplesAgree(BucketOf(e), s, r.total + 1)
        /\ \A i \in DOMAIN s : s[i] = e \/ \E j \in DOMAIN r.samples : s[i] = r.samples[j]
    BY <1>2, SamplesStayAgreed DEF RowAgrees
  <1> HIDE DEF sev, typ
  <1> QED BY <1>1, <1>3, <1>4 DEF RowAgrees

\* No row changes, and what is over stays over.
LEMMA RowsKept ==
    ASSUME RowsInv, UNCHANGED rows,
           \A e \in Events : outcome[e] \in {"ok", "error"} => outcome'[e] = outcome[e]
    PROVE  RowsInv'
  <1>1. \A b \in Buckets : Ended(b, {"ok", "error"}) \subseteq Ended(b, {"ok", "error"})'
    BY DEF Ended
  <1> QED BY <1>1 DEF RowsInv, RowAgrees

LEMMA ReturnAgrees ==
    ASSUME SummariesInv, RowsInv, NEW w \in Workers, step[w] # "idle",
           NEW result \in {"ok", "error"}, Return(w, result),
           \/ UNCHANGED rows
           \/ step[w] = "commit" /\ rows' = [rows EXCEPT ![Bucket(w)] = row[w]]
    PROVE  RowsInv'
  <1>1. PICK e \in Events : event[w] = e
    BY DEF SummariesInv, WorkerInv
  <1>2. /\ outcome[e] = "running" /\ outcome' = [outcome EXCEPT ![e] = result]
        /\ Bucket(w) = BucketOf(e) /\ BucketOf(e) \in Buckets
        /\ outcome \in [Events -> {"new", "running", "ok", "error"}]
        /\ rows \in [Buckets -> Rows \cup {NoRow}]
    BY <1>1, BucketsAre DEF SummariesInv, TypeOK, WorkerInv, Return, Bucket
  <1>3. \A b : b # BucketOf(e) => Ended(b, {"ok", "error"})' = Ended(b, {"ok", "error"})
    BY <1>2 DEF Ended
  <1>4. /\ Ended(BucketOf(e), {"ok", "error"})' = Ended(BucketOf(e), {"ok", "error"}) \cup {e}
        /\ e \notin Ended(BucketOf(e), {"ok", "error"})
    BY <1>2 DEF Ended
  <1>5. CASE UNCHANGED rows
    BY <1>2, <1>5, RowsKept
  <1>6. CASE step[w] = "commit" /\ rows' = [rows EXCEPT ![Bucket(w)] = row[w]]
    <2>1. RowAgrees(BucketOf(e), row[w], Ended(BucketOf(e), {"ok", "error"})')
      <3>1. CASE rows[BucketOf(e)] = NoRow
        <4>1. row[w] = FirstRow(e)
          BY <1>1, <1>2, <1>6, <3>1 DEF SummariesInv, WorkerInv
        <4> QED BY <1>4, <4>1, FirstRowAgrees
      <3>2. CASE rows[BucketOf(e)] # NoRow
        <4>1. rows[BucketOf(e)] \in Rows /\ row[w] \in WithEvent(rows[BucketOf(e)], e)
          BY <1>1, <1>2, <1>6, <3>2 DEF SummariesInv, WorkerInv
        <4>2. RowAgrees(BucketOf(e), rows[BucketOf(e)], Ended(BucketOf(e), {"ok", "error"}))
          BY <1>2, <3>2 DEF RowsInv
        <4> QED BY <1>4, <4>1, <4>2, WithEventAgrees
      <3> QED BY <3>1, <3>2
    <2>2. ASSUME NEW b \in Buckets, rows'[b] # NoRow
          PROVE  RowAgrees(b, rows'[b], Ended(b, {"ok", "error"})')
      <3>1. CASE b = BucketOf(e)
        BY <1>2, <1>6, <2>1, <3>1
      <3>2. CASE b # BucketOf(e)
        BY <1>2, <1>3, <1>6, <2>2, <3>2 DEF RowsInv
      <3> QED BY <3>1, <3>2
    <2> QED BY <2>2 DEF RowsInv
  <1> QED BY <1>5, <1>6

LEMMA StepAgrees ==
    ASSUME SummariesInv, RowsInv, [Next]_vars
    PROVE  RowsInv'
  <1>1. ASSUME NEW w \in Workers, NEW e \in Events, Call(w, e) PROVE RowsInv'
    BY <1>1, RowsKept DEF Call, SummariesInv, TypeOK
  <1>2. ASSUME NEW w \in Workers, SelectRow(w) \/ SelectNothing(w) \/ Insert(w) \/ Update(w)
        PROVE  RowsInv'
    BY <1>2, RowsKept DEF SelectRow, SelectNothing, Insert, Update
  <1>3. ASSUME NEW w \in Workers, InsertConflict(w) PROVE RowsInv'
    <2>1. CASE attempt[w] < MaxAttempts
      BY <1>3, <2>1, RowsKept DEF InsertConflict
    <2>2. CASE ~ (attempt[w] < MaxAttempts)
      BY <1>3, <2>2, ReturnAgrees DEF InsertConflict
    <2> QED BY <2>1, <2>2
  <1>4. ASSUME NEW w \in Workers, Commit(w) PROVE RowsInv'
    BY <1>4, ReturnAgrees DEF Commit
  <1>5. ASSUME NEW w \in Workers, Fail(w) PROVE RowsInv'
    BY <1>5, ReturnAgrees DEF Fail
  <1>6. CASE UNCHANGED vars
    BY <1>6, RowsKept DEF vars
  <1> QED BY <1>1, <1>2, <1>3, <1>4, <1>5, <1>6 DEF Next, Attempt

\* Whatever meets on a row, its breakdowns add up to its total, and its samples
\* are distinct events of its bucket, as many as the limit lets there be.
THEOREM ColumnsAgree == Spec => []RowsAgree
  <1>1. Init => RowsInv
    BY DEF Init, RowsInv
  <1>2. SummariesInv /\ RowsInv /\ [Next]_vars => RowsInv'
    BY StepAgrees
  <1>3. RowsInv => RowsAgree
    BY DEF RowsInv, RowAgrees, SamplesAgree, RowsAgree, Agree
  <1> QED BY <1>1, <1>2, <1>3, SummariesInvariant, PTL DEF Spec

-----------------------------------------------------------------------------
(* Locks.                                                                  *)

LEMMA ReturnReleases ==
    ASSUME SummariesInv, HoldersGoOn, NEW w \in Workers, NEW result, Return(w, result)
    PROVE  HoldersGoOn'
  <1> SUFFICES ASSUME NEW b \in Buckets, holder'[b] # NoWorker
               PROVE  step'[holder'[b]] \in {"update", "commit"} /\ BucketOf(event'[holder'[b]]) = b
    BY DEF HoldersGoOn, Bucket
  <1>1. holder'[b] = holder[b] /\ holder[b] # w /\ holder[b] \in Workers
    <2>1. holder'[b] = IF holder[b] = w THEN NoWorker ELSE holder[b]
      BY DEF Return
    <2>2. holder[b] \in Workers \cup {NoWorker}
      BY DEF SummariesInv, TypeOK
    <2> QED BY <2>1, <2>2
  <1>2. step'[holder[b]] = step[holder[b]] /\ event'[holder[b]] = event[holder[b]]
    BY <1>1 DEF Return, SummariesInv, TypeOK
  <1> QED BY <1>1, <1>2 DEF HoldersGoOn, Bucket

LEMMA StepGoesOn ==
    ASSUME SummariesInv, HoldersGoOn, [Next]_vars
    PROVE  HoldersGoOn'
  <1>0. \A b \in Buckets : holder[b] # NoWorker => holder[b] \in Workers
    BY DEF SummariesInv, TypeOK
  <1>1. ASSUME NEW w \in Workers, NEW e \in Events, Call(w, e) PROVE HoldersGoOn'
    <2> SUFFICES ASSUME NEW b \in Buckets, holder'[b] # NoWorker
                 PROVE  step'[holder'[b]] \in {"update", "commit"} /\ BucketOf(event'[holder'[b]]) = b
      BY DEF HoldersGoOn, Bucket
    <2>1. holder' = holder /\ step[w] = "idle"
      BY <1>1 DEF Call
    <2>2. holder[b] \in Workers /\ step[holder[b]] \in {"update", "commit"} /\ Bucket(holder[b]) = b
      BY <1>0, <2>1 DEF HoldersGoOn
    <2>3. step'[holder[b]] = step[holder[b]] /\ event'[holder[b]] = event[holder[b]]
      BY <1>1, <2>1, <2>2 DEF Call, SummariesInv, TypeOK
    <2> QED BY <2>1, <2>2, <2>3 DEF Bucket
  <1>2. ASSUME NEW w \in Workers, SelectRow(w) PROVE HoldersGoOn'
    BY <1>0, <1>2 DEF SelectRow, SummariesInv, TypeOK, HoldersGoOn, Bucket
  <1>3. ASSUME NEW w \in Workers, SelectNothing(w) PROVE HoldersGoOn'
    BY <1>0, <1>3 DEF SelectNothing, SummariesInv, TypeOK, HoldersGoOn, Bucket
  <1>4. ASSUME NEW w \in Workers, Insert(w) PROVE HoldersGoOn'
    BY <1>0, <1>4 DEF Insert, SummariesInv, TypeOK, HoldersGoOn, Bucket
  <1>5. ASSUME NEW w \in Workers, Update(w) PROVE HoldersGoOn'
    BY <1>0, <1>5 DEF Update, SummariesInv, TypeOK, HoldersGoOn, Bucket
  <1>6. ASSUME NEW w \in Workers, InsertConflict(w) PROVE HoldersGoOn'
    <2>1. CASE attempt[w] < MaxAttempts
      BY <1>0, <1>6, <2>1 DEF InsertConflict, SummariesInv, TypeOK, HoldersGoOn, Bucket
    <2>2. CASE ~ (attempt[w] < MaxAttempts)
      BY <1>6, <2>2, ReturnReleases DEF InsertConflict
    <2> QED BY <2>1, <2>2
  <1>7. ASSUME NEW w \in Workers, Commit(w) \/ Fail(w) PROVE HoldersGoOn'
    BY <1>7, ReturnReleases DEF Commit, Fail
  <1>8. CASE UNCHANGED vars
    BY <1>8 DEF vars, HoldersGoOn, Bucket
  <1> QED BY <1>1, <1>2, <1>3, <1>4, <1>5, <1>6, <1>7, <1>8 DEF Next, Attempt

\* No call waits while it has a row, whatever fails: transactions that meet on
\* rows cannot deadlock, and none leaves a row locked.
THEOREM NobodyHoldsAndWaits == Spec => []HoldersGoOn
  <1>1. Init => HoldersGoOn
    BY DEF Init, HoldersGoOn
  <1>2. SummariesInv /\ HoldersGoOn /\ [Next]_vars => HoldersGoOn'
    BY StepGoesOn
  <1> QED BY <1>1, <1>2, SummariesInvariant, PTL DEF Spec

=============================================================================
