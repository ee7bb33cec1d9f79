----------------------------- MODULE SummaryRows -----------------------------
(***************************************************************************)
(* The rows of table event_summaries: one per time bucket, with a total,   *)
(* counts by severity and by type, and a reservoir of sample events.       *)
(***************************************************************************)
EXTENDS Integers, Sequences

CONSTANTS
    Events,       \* the stored events to be counted
    Time,         \* Time[e]: the event's timestamp
    Severity,     \* Severity[e]
    Type,         \* Type[e]
    Width,        \* cfg.SummaryBucket
    SampleLimit,  \* summarySampleLimit
    NoRow         \* the bucket has no row

ASSUME EventDataAssumption == Time \in [Events -> Nat]
ASSUME LimitAssumption == Width \in Nat \ {0} /\ SampleLimit \in Nat \ {0}

\* Timestamp.Truncate(SummaryBucket)
BucketOf(e) == Time[e] - (Time[e] % Width)

Buckets == {BucketOf(e) : e \in Events}
Severities == {Severity[e] : e \in Events}
Types == {Type[e] : e \in Events}

Rows == [total : Nat, bySeverity : [Severities -> Nat], byType : [Types -> Nat], samples : Seq(Events)]

ASSUME NoRowAssumption == NoRow \notin Rows

\* The row that the first event of a bucket makes.
FirstRow(e) ==
    [total      |-> 1,
     bySeverity |-> [s \in Severities |-> IF s = Severity[e] THEN 1 ELSE 0],
     byType     |-> [t \in Types |-> IF t = Type[e] THEN 1 ELSE 0],
     samples    |-> <<e>>]

\* Mutant: the reservoir takes one sample too many.
NextSamplesOneMore(samples, total, e) ==
    IF Len(samples) <= SampleLimit
      THEN {Append(samples, e)}
      ELSE {[i \in DOMAIN samples |-> IF i = pick THEN e ELSE samples[i]] : pick \in 1 .. total}

\* rand.Intn(total) picks the sample to replace; beyond the limit, none.
NextSamples(samples, total, e) ==
    IF Len(samples) < SampleLimit
      THEN {Append(samples, e)}
      ELSE {[i \in DOMAIN samples |-> IF i = pick THEN e ELSE samples[i]] : pick \in 1 .. total}

\* The rows that counting event e may make of a row.
WithEvent(row, e) ==
    {[total      |-> row.total + 1,
      bySeverity |-> [row.bySeverity EXCEPT ![Severity[e]] = @ + 1],
      byType     |-> [row.byType EXCEPT ![Type[e]] = @ + 1],
      samples    |-> s] : s \in NextSamples(row.samples, row.total + 1, e)}
=============================================================================
