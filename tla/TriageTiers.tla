------------------------------ MODULE TriageTiers ------------------------------
(***************************************************************************)
(* The work of one triage job of analyzer-svc. Tier 1 reads the summary    *)
(* rows of the job's time range and asks the model which buckets are       *)
(* risky; tier 2 reads the raw events of the flagged buckets and asks for  *)
(* findings. The model may name buckets and events that do not exist.      *)
(* Meanwhile processor-svc goes on storing and counting events.            *)
(***************************************************************************)
EXTENDS Naturals, FiniteSets

CONSTANTS
    Events,        \* events that may get stored
    Time,          \* Time[e]: the event's timestamp
    Start, End,    \* the job's time range
    Width,         \* SUMMARY_BUCKET_SECONDS of processor-svc
    Window,        \* the five minutes that tier 2 takes for a bucket's width
    SummaryLimit,  \* the LIMIT of tier 1's query
    EventLimit,    \* tier2EventLimit
    NoBuckets,     \* bucket ids that name no row
    NoEvents,      \* event ids that name no event
    MaxFailures    \* bound: queries of tier 2 that fail

ASSUME TimeAssumption == Time \in [Events -> Nat] /\ Start \in Nat /\ End \in Nat
ASSUME SizeAssumption ==
    /\ Width \in Nat \ {0} /\ Window \in Nat \ {0}
    /\ SummaryLimit \in Nat \ {0} /\ EventLimit \in Nat \ {0} /\ MaxFailures \in Nat

BucketOf(e) == Time[e] - (Time[e] % Width)
Buckets == {BucketOf(e) : e \in Events}

VARIABLES
    stored,    \* table events
    counted,   \* the events that table event_summaries counts
    pc,        \* how far the job is
    base,      \* the events counted when tier 1 read the summaries
    valid,     \* validBuckets
    high, medium, low,  \* the model's answer, filtered once pc = "tier2"
    todo,      \* flagged buckets that tier 2 has not fetched
    scanned,   \* the events that tier 2 fetched
    truncated, \* buckets whose fetch failed or hit the limit
    findings,  \* the event ids that the findings cite
    failures

db == <<stored, counted>>
answer == <<high, medium, low>>
vars == <<db, pc, base, valid, answer, todo, scanned, truncated, findings, failures>>

Init ==
    /\ stored = {} /\ counted = {}
    /\ pc = "new"
    /\ base = {} /\ valid = {}
    /\ high = {} /\ medium = {} /\ low = {}
    /\ todo = {} /\ scanned = {} /\ truncated = {} /\ findings = {}
    /\ failures = 0

\* The first rows of a query ORDER BY key DESC LIMIT limit.
Newest(S, key, limit) ==
    {T \in SUBSET S :
        /\ Cardinality(T) = IF Cardinality(S) < limit THEN Cardinality(S) ELSE limit
        /\ \A x \in T, y \in S \ T : key[y] <= key[x]}

-----------------------------------------------------------------------------
(* processor-svc                                                           *)

Store(e) ==
    /\ e \notin stored
    /\ stored' = stored \cup {e}
    /\ UNCHANGED <<counted, pc, base, valid, answer, todo, scanned, truncated, findings, failures>>

Count(e) ==
    /\ e \in stored \ counted
    /\ counted' = counted \cup {e}
    /\ UNCHANGED <<stored, pc, base, valid, answer, todo, scanned, truncated, findings, failures>>

-----------------------------------------------------------------------------
(* Tier 1                                                                  *)

\* Mutant: the range's end is left out.
InRangeBefore(b) == Start <= b /\ b < End

InRange(b) == Start <= b /\ b <= End

\* fetchSummaries. Without rows the model is not asked and nothing is flagged.
FetchSummaries ==
    /\ pc = "new"
    /\ LET found == {b \in Buckets : InRange(b) /\ \E e \in counted : BucketOf(e) = b} IN
       \E rows \in Newest(found, [b \in found |-> b], SummaryLimit) :
          /\ valid' = rows
          /\ pc' = IF rows = {} THEN "complete" ELSE "asked"
    /\ base' = counted
    /\ UNCHANGED <<db, answer, todo, scanned, truncated, findings, failures>>

\* Any buckets, real or made up, at any level.
Tier1Answer ==
    /\ pc = "asked"
    /\ high' \in SUBSET (Buckets \cup NoBuckets)
    /\ medium' \in SUBSET (Buckets \cup NoBuckets)
    /\ low' \in SUBSET (Buckets \cup NoBuckets)
    /\ pc' = "answered"
    /\ UNCHANGED <<db, base, valid, todo, scanned, truncated, findings, failures>>

\* The call, or the parsing of its answer, fails.
Tier1Error ==
    /\ pc \in {"new", "asked"}
    /\ pc' = "failed"
    /\ UNCHANGED <<db, base, valid, answer, todo, scanned, truncated, findings, failures>>

FilterValidBuckets(buckets) == buckets \cap valid

Flag ==
    /\ pc = "answered"
    /\ high' = FilterValidBuckets(high)
    /\ medium' = FilterValidBuckets(medium)
    /\ todo' = high' \cup medium'
    /\ pc' = IF todo' = {} THEN "complete" ELSE "tier2"
    /\ UNCHANGED <<db, base, valid, low, scanned, truncated, findings, failures>>

-----------------------------------------------------------------------------
(* Tier 2                                                                  *)

\* Mutant: only the window's end is passed to fetchEvents.
InWindowUpTo(b) == {e \in stored : Time[e] <= b + Window}

\* Mutant: the first instant of the bucket is left out.
InOpenWindow(b) == {e \in stored : b < Time[e] /\ Time[e] <= b + Window}

\* fetchEvents with both ends of the window included.
InWindow(b) == {e \in stored : b <= Time[e] /\ Time[e] <= b + Window}

FetchBucket(b) ==
    /\ pc = "tier2" /\ b \in todo
    /\ \E rows \in Newest(InWindow(b), Time, EventLimit) :
          /\ scanned' = scanned \cup rows
          /\ truncated' = IF rows = InWindow(b) THEN truncated ELSE truncated \cup {b}
    /\ todo' = todo \ {b}
    /\ UNCHANGED <<db, pc, base, valid, answer, findings, failures>>

\* A bucket whose query fails is left out.
FetchError(b) ==
    /\ pc = "tier2" /\ b \in todo /\ failures < MaxFailures
    /\ failures' = failures + 1
    /\ truncated' = truncated \cup {b}
    /\ todo' = todo \ {b}
    /\ UNCHANGED <<db, pc, base, valid, answer, scanned, findings>>

\* Mutant: the model's event ids are taken as they are.
UnfilteredIDs(ids) == ids

FilterValidIDs(ids) == ids \cap scanned

\* Findings that cite any ids, then filtered. Without events nobody is asked.
Tier2Answer ==
    /\ pc = "tier2" /\ todo = {}
    /\ \E ids \in SUBSET (Events \cup NoEvents) :
          findings' = IF scanned = {} THEN {} ELSE FilterValidIDs(ids)
    /\ pc' = "complete"
    /\ UNCHANGED <<db, base, valid, answer, todo, scanned, truncated, failures>>

Tier2Error ==
    /\ pc = "tier2" /\ todo = {} /\ scanned # {}
    /\ pc' = "failed"
    /\ UNCHANGED <<db, base, valid, answer, todo, scanned, truncated, findings, failures>>

Next ==
    \/ \E e \in Events : Store(e) \/ Count(e)
    \/ FetchSummaries \/ Tier1Answer \/ Tier1Error \/ Flag
    \/ \E b \in Buckets : FetchBucket(b) \/ FetchError(b)
    \/ Tier2Answer \/ Tier2Error

Spec == Init /\ [][Next]_vars

-----------------------------------------------------------------------------
TypeOK ==
    /\ stored \subseteq Events /\ counted \subseteq Events /\ base \subseteq Events
    /\ pc \in {"new", "asked", "answered", "tier2", "complete", "failed"}
    /\ valid \subseteq Buckets
    /\ {high, medium, low} \subseteq SUBSET (Buckets \cup NoBuckets)
    /\ todo \subseteq Buckets /\ truncated \subseteq Buckets
    /\ scanned \subseteq Events
    /\ findings \subseteq Events \cup NoEvents
    /\ failures \in 0 .. MaxFailures

Flagged == high \cup medium

\* README.md:35: what a complete job reports is in the database, however the
\* model answers: every cited event is stored and every flagged bucket counts
\* an event.
ReportGrounded ==
    pc = "complete" =>
        /\ findings \subseteq stored
        /\ \A b \in Flagged : \E e \in counted : BucketOf(e) = b

\* No finding cites an event outside the buckets the job was asked about, up
\* to the event that the closed window takes from the next bucket.
FindingsFlagged ==
    pc = "complete" => \A e \in findings : \E b \in Flagged :
        InRange(b) /\ b <= Time[e] /\ Time[e] <= b + Window

\* The events whose summaries got a bucket flagged are put before the model in
\* tier 2, unless the bucket's query failed or hit the limit: what the first
\* read counts, the second read finds.
FlaggedScanned ==
    pc = "complete" => \A e \in base :
        BucketOf(e) \in Flagged => e \in scanned \/ BucketOf(e) \in truncated

\* The first bucket that lies in the range from its start on.
FirstWholeBucket == Start + ((Width - (Start % Width)) % Width)

\* Tier 1 sees the range whole: an event of the range that was counted when the
\* summaries were read is in a bucket put before the model, unless as many
\* newer buckets were read as the query takes, or it lies in the bucket that
\* the range's start cuts through, which the query leaves out.
RangeCovered ==
    pc = "complete" => \A e \in base :
        FirstWholeBucket <= Time[e] /\ Time[e] <= End =>
            \/ BucketOf(e) \in valid
            \/ Cardinality(valid) = SummaryLimit /\ \A b \in valid : b > BucketOf(e)

-----------------------------------------------------------------------------
(* Claims of the repository that the code does not keep.                   *)

\* README.md:35: ids that do not exist are dropped from the model's output.
RisksGrounded ==
    pc = "complete" => \A b \in high \cup medium \cup low : \E e \in counted : BucketOf(e) = b
=============================================================================
