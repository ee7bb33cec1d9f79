--------------------------- MODULE TriageTiersProofs ---------------------------
(***************************************************************************)
(* What a triage job reports, for all events, time ranges, bucket widths   *)
(* and limits: it is grounded in the database and in what was flagged.     *)
(***************************************************************************)
EXTENDS TriageTiers, FiniteSetTheorems, FunctionTheorems, TLAPS

\* What tier 1 has put before the model is counted, stays so, and lies in range.
Counted(b) == \E e \in counted : BucketOf(e) = b

SummariesInv ==
    /\ counted \subseteq stored /\ base \subseteq counted
    /\ \A b \in valid : Counted(b) /\ InRange(b)

\* From the filter on, nothing is flagged that was not put before the model.
FlaggedInv ==
    /\ pc = "new" => high = {} /\ medium = {} /\ scanned = {} /\ findings = {}
    /\ pc \in {"asked", "answered"} => scanned = {} /\ findings = {}
    /\ pc = "asked" => high = {} /\ medium = {}
    /\ pc \in {"tier2", "complete"} => high \subseteq valid /\ medium \subseteq valid

\* What tier 2 has fetched is stored and in the window of a flagged bucket.
ScannedInv ==
    /\ scanned \subseteq stored /\ findings \subseteq scanned
    /\ pc = "tier2" => todo \subseteq Flagged
    /\ pc \in {"tier2", "complete"} =>
          \A e \in scanned : \E b \in Flagged : b <= Time[e] /\ Time[e] <= b + Window

\* The events that got a bucket flagged are fetched with it.
FetchedInv ==
    /\ pc \in {"new", "complete"} => todo = {}
    /\ pc \in {"tier2", "complete"} =>
          \A e \in base : BucketOf(e) \in Flagged =>
              e \in scanned \/ BucketOf(e) \in truncated \cup todo

TiersInv == TypeOK /\ SummariesInv /\ FlaggedInv /\ ScannedInv

\* A query returns rows that are there.
LEMMA NewestAreRows ==
    ASSUME NEW S, NEW key, NEW limit, NEW rows \in Newest(S, key, limit)
    PROVE  rows \subseteq S
  BY DEF Newest

\* An event lies in its bucket.
LEMMA InItsBucket ==
    ASSUME NEW e \in Events
    PROVE  /\ BucketOf(e) \in Nat
           /\ BucketOf(e) <= Time[e] /\ Time[e] < BucketOf(e) + Width
  <1>1. Time[e] \in Nat /\ Width \in Nat \ {0}
    BY TimeAssumption, SizeAssumption
  <1>2. Time[e] % Width \in 0 .. (Width - 1) /\ Time[e] % Width <= Time[e]
    BY <1>1
  <1> QED BY <1>1, <1>2 DEF BucketOf

LEMMA InitHolds == Init => TiersInv
  BY SizeAssumption DEF Init, TiersInv, TypeOK, SummariesInv, FlaggedInv, ScannedInv, Flagged, InRange

\* Stored and counted events only grow in number.
LEMMA StoreHolds ==
    ASSUME TiersInv, NEW e \in Events, Store(e) \/ Count(e)
    PROVE  TiersInv'
  <1>1. TypeOK'
    BY DEF TiersInv, TypeOK, Store, Count, answer
  <1>2. SummariesInv'
    BY DEF TiersInv, SummariesInv, Counted, Store, Count, answer
  <1>3. FlaggedInv' /\ ScannedInv'
    BY DEF TiersInv, FlaggedInv, ScannedInv, Flagged, Store, Count, answer
  <1> QED BY <1>1, <1>2, <1>3 DEF TiersInv

\* The rows of the range's summaries: whatever bucket is read is counted.
LEMMA FetchSummariesHolds ==
    ASSUME TiersInv, FetchSummaries
    PROVE  TiersInv'
  <1> DEFINE found == {b \in Buckets : InRange(b) /\ \E e \in counted : BucketOf(e) = b}
  <1>1. valid' \subseteq found
    BY NewestAreRows DEF FetchSummaries
  <1>2. TypeOK'
    BY <1>1 DEF FetchSummaries, TiersInv, TypeOK, db, answer
  <1>3. SummariesInv'
    BY <1>1 DEF FetchSummaries, TiersInv, SummariesInv, Counted, db
  <1>4. FlaggedInv' /\ ScannedInv'
    BY DEF FetchSummaries, TiersInv, FlaggedInv, ScannedInv, Flagged, db, answer
  <1> QED BY <1>2, <1>3, <1>4 DEF TiersInv

LEMMA Tier1Holds ==
    ASSUME TiersInv, Tier1Answer \/ Tier1Error
    PROVE  TiersInv'
  <1>1. TypeOK'
    BY DEF Tier1Answer, Tier1Error, TiersInv, TypeOK, db, answer
  <1>2. SummariesInv'
    BY DEF Tier1Answer, Tier1Error, TiersInv, SummariesInv, Counted, db
  <1>3. FlaggedInv' /\ ScannedInv'
    BY DEF Tier1Answer, Tier1Error, TiersInv, FlaggedInv, ScannedInv, Flagged, db, answer
  <1> QED BY <1>1, <1>2, <1>3 DEF TiersInv

\* The filter cuts the answer down to what was put before the model.
LEMMA FlagHolds ==
    ASSUME TiersInv, Flag
    PROVE  TiersInv'
  <1>1. high' \subseteq valid /\ medium' \subseteq valid /\ todo' = high' \cup medium'
    BY DEF Flag, FilterValidBuckets
  <1>2. TypeOK'
    BY <1>1 DEF Flag, TiersInv, TypeOK, db
  <1>3. SummariesInv'
    BY DEF Flag, TiersInv, SummariesInv, Counted, db
  <1>4. FlaggedInv' /\ ScannedInv'
    BY <1>1 DEF Flag, TiersInv, FlaggedInv, ScannedInv, Flagged, db
  <1> QED BY <1>2, <1>3, <1>4 DEF TiersInv

\* A bucket's events are in its closed window and stored.
LEMMA FetchHolds ==
    ASSUME TiersInv, NEW b \in Buckets, FetchBucket(b) \/ FetchError(b)
    PROVE  TiersInv'
  <1> USE DEF db, answer
  <1>1. CASE FetchError(b)
    <2>1. TypeOK'
      <3>1. failures' \in 0 .. MaxFailures
        BY <1>1, SizeAssumption DEF FetchError, TiersInv, TypeOK
      <3> QED BY <1>1, <3>1 DEF FetchError, TiersInv, TypeOK
    <2>2. SummariesInv' /\ FlaggedInv' /\ ScannedInv'
      BY <1>1 DEF FetchError, TiersInv, SummariesInv, Counted, FlaggedInv, ScannedInv, Flagged
    <2> QED BY <2>1, <2>2 DEF TiersInv
  <1>2. CASE FetchBucket(b)
    <2>1. PICK rows \in Newest(InWindow(b), Time, EventLimit) :
              scanned' = scanned \cup rows /\ truncated' \subseteq truncated \cup {b}
      BY <1>2 DEF FetchBucket
    <2>2. rows \subseteq InWindow(b)
      BY NewestAreRows
    <2>3. TypeOK'
      BY <1>2, <2>1, <2>2 DEF FetchBucket, TiersInv, TypeOK, InWindow
    <2>4. SummariesInv' /\ FlaggedInv'
      BY <1>2 DEF FetchBucket, TiersInv, SummariesInv, Counted, FlaggedInv
    <2>5. b \in Flagged
      BY <1>2 DEF FetchBucket, TiersInv, ScannedInv
    <2>6. ScannedInv'
      BY <1>2, <2>1, <2>2, <2>5 DEF FetchBucket, TiersInv, ScannedInv, Flagged, InWindow
    <2> QED BY <2>3, <2>4, <2>6 DEF TiersInv
  <1> QED BY <1>1, <1>2

\* The filter cuts the findings down to what tier 2 has fetched.
LEMMA Tier2Holds ==
    ASSUME TiersInv, Tier2Answer \/ Tier2Error
    PROVE  TiersInv'
  <1> USE DEF db, answer
  <1>1. CASE Tier2Answer
    <2>1. findings' \subseteq scanned
      BY <1>1 DEF Tier2Answer, FilterValidIDs
    <2>2. TypeOK'
      BY <1>1, <2>1 DEF Tier2Answer, TiersInv, TypeOK
    <2>3. SummariesInv' /\ FlaggedInv' /\ ScannedInv'
      BY <1>1, <2>1 DEF Tier2Answer, TiersInv, SummariesInv, Counted, FlaggedInv, ScannedInv, Flagged
    <2> QED BY <2>2, <2>3 DEF TiersInv
  <1>2. CASE Tier2Error
    BY <1>2 DEF Tier2Error, TiersInv, TypeOK, SummariesInv, Counted, FlaggedInv, ScannedInv, Flagged
  <1> QED BY <1>1, <1>2

LEMMA StepHolds == TiersInv /\ [Next]_vars => TiersInv'
  <1> SUFFICES ASSUME TiersInv, [Next]_vars PROVE TiersInv'
    OBVIOUS
  <1>1. CASE \E e \in Events : Store(e) \/ Count(e)
    BY <1>1, StoreHolds
  <1>2. CASE FetchSummaries
    BY <1>2, FetchSummariesHolds
  <1>3. CASE Tier1Answer \/ Tier1Error
    BY <1>3, Tier1Holds
  <1>4. CASE Flag
    BY <1>4, FlagHolds
  <1>5. CASE \E b \in Buckets : FetchBucket(b) \/ FetchError(b)
    BY <1>5, FetchHolds
  <1>6. CASE Tier2Answer \/ Tier2Error
    BY <1>6, Tier2Holds
  <1>7. CASE UNCHANGED vars
    BY <1>7 DEF vars, db, answer, TiersInv, TypeOK, SummariesInv, Counted, FlaggedInv, ScannedInv,
                Flagged
  <1> QED BY <1>1, <1>2, <1>3, <1>4, <1>5, <1>6, <1>7 DEF Next

\* A job keeps to what was put before the model, whatever the model answers.
THEOREM TiersInvariant == Spec => []TiersInv
  BY InitHolds, StepHolds, PTL DEF Spec

\* What a job holds at each of its stages is of the right kind.
THEOREM TypeCorrect == Spec => []TypeOK
  <1>1. TiersInv => TypeOK
    BY DEF TiersInv
  <1> QED BY <1>1, TiersInvariant, PTL

\* A complete job reports stored events and counted buckets only: the filters
\* of both tiers drop whatever the model made up, and the database only grows.
THEOREM ReportsAreGrounded == Spec => []ReportGrounded
  <1>1. TiersInv => ReportGrounded
    BY DEF TiersInv, SummariesInv, FlaggedInv, ScannedInv, ReportGrounded, Flagged, Counted
  <1> QED BY <1>1, TiersInvariant, PTL

\* Findings stay within the flagged buckets' windows, which are in the range.
THEOREM FindingsAreFlagged == Spec => []FindingsFlagged
  <1>1. TiersInv => FindingsFlagged
    BY DEF TiersInv, SummariesInv, FlaggedInv, ScannedInv, FindingsFlagged, Flagged
  <1> QED BY <1>1, TiersInvariant, PTL

-----------------------------------------------------------------------------
(* Tier 2 finds what tier 1 was told of, if a bucket is no wider than the  *)
(* window that tier 2 takes for it.                                        *)

LEMMA WindowHasBucket ==
    ASSUME Width <= Window, TiersInv, NEW e \in base
    PROVE  e \in InWindow(BucketOf(e))
  <1>1. e \in stored /\ e \in Events
    BY DEF TiersInv, TypeOK, SummariesInv
  <1>2. Width \in Nat /\ Window \in Nat /\ Time[e] \in Nat
    BY <1>1, SizeAssumption, TimeAssumption
  <1>3. BucketOf(e) \in Nat /\ BucketOf(e) <= Time[e] /\ Time[e] < BucketOf(e) + Width
    BY <1>1, InItsBucket
  <1>4. Time[e] <= BucketOf(e) + Window
    BY <1>2, <1>3
  <1> QED BY <1>1, <1>3, <1>4 DEF InWindow

LEMMA FetchedHolds ==
    ASSUME Width <= Window, TiersInv, FetchedInv, [Next]_vars
    PROVE  FetchedInv'
  <1> USE DEF db, answer, Flagged
  <1>1. CASE \E e \in Events : Store(e) \/ Count(e)
    BY <1>1 DEF Store, Count, FetchedInv
  <1>2. CASE FetchSummaries
    BY <1>2 DEF FetchSummaries, FetchedInv, TiersInv, FlaggedInv
  <1>3. CASE Tier1Answer \/ Tier1Error
    BY <1>3 DEF Tier1Answer, Tier1Error, FetchedInv
  <1>4. CASE Flag
    BY <1>4 DEF Flag, FetchedInv
  <1>5. ASSUME NEW b \in Buckets, FetchError(b) PROVE FetchedInv'
    BY <1>5 DEF FetchError, FetchedInv
  <1>6. ASSUME NEW b \in Buckets, FetchBucket(b) PROVE FetchedInv'
    <2>1. PICK rows \in Newest(InWindow(b), Time, EventLimit) :
              /\ scanned' = scanned \cup rows
              /\ truncated' = IF rows = InWindow(b) THEN truncated ELSE truncated \cup {b}
      BY <1>6 DEF FetchBucket
    <2>2. \A e \in base : BucketOf(e) = b => e \in scanned' \/ b \in truncated'
      BY <2>1, WindowHasBucket
    <2>3. UNCHANGED <<pc, base, high, medium>> /\ pc = "tier2" /\ todo' = todo \ {b}
      BY <1>6 DEF FetchBucket
    <2> QED BY <2>1, <2>2, <2>3 DEF FetchedInv
  <1>7. CASE Tier2Answer \/ Tier2Error
    BY <1>7 DEF Tier2Answer, Tier2Error, FetchedInv
  <1>8. CASE UNCHANGED vars
    BY <1>8 DEF vars, FetchedInv
  <1> QED BY <1>1, <1>2, <1>3, <1>4, <1>5, <1>6, <1>7, <1>8 DEF Next

\* Every event that got its bucket flagged is put before the model in tier 2,
\* or the job's log says that the bucket was cut.
THEOREM FlaggedAreScanned ==
    ASSUME Width <= Window
    PROVE  Spec => []FlaggedScanned
  <1>1. Init => FetchedInv
    BY DEF Init, FetchedInv, Flagged
  <1>2. TiersInv /\ FetchedInv /\ [Next]_vars => FetchedInv'
    BY FetchedHolds
  <1>3. FetchedInv => FlaggedScanned
    BY DEF FetchedInv, FlaggedScanned
  <1> QED BY <1>1, <1>2, <1>3, TiersInvariant, PTL DEF Spec

-----------------------------------------------------------------------------
(* Tier 1 sees the range whole, but for what its query's limit cuts off.   *)

\* What RangeCovered says of the job from its first read on; the query's limit
\* cuts only if the rows can be counted.
RangeInv ==
    /\ IsFiniteSet(counted)
    /\ \A e \in base :
          FirstWholeBucket <= Time[e] /\ Time[e] <= End =>
              \/ BucketOf(e) \in valid
              \/ Cardinality(valid) = SummaryLimit /\ \A b \in valid : b > BucketOf(e)

\* A timestamp's bucket is a multiple of the width.
LEMMA WholeBuckets ==
    ASSUME NEW n \in Nat
    PROVE  \E k \in Nat : n - (n % Width) = k * Width
  <1>1. Width \in Nat \ {0}
    BY SizeAssumption
  <1>2. n \div Width \in Nat /\ n - (n % Width) = (n \div Width) * Width
    BY <1>1
  <1> QED BY <1>2

\* So is the first bucket that lies in the range.
LEMMA FirstIsWhole ==
    /\ FirstWholeBucket \in Nat /\ Start <= FirstWholeBucket
    /\ \E k \in Nat : FirstWholeBucket = k * Width
  <1>1. Start \in Nat /\ Width \in Nat \ {0} /\ Start % Width \in 0 .. (Width - 1)
    BY TimeAssumption, SizeAssumption
  <1>2. PICK k \in Nat : Start - (Start % Width) = k * Width
    BY <1>1, WholeBuckets
  <1>3. CASE Start % Width = 0
    <2>1. (Width - (Start % Width)) % Width = 0
      BY <1>1, <1>3
    <2>2. FirstWholeBucket = Start
      BY <1>1, <2>1 DEF FirstWholeBucket
    <2> QED BY <1>1, <1>2, <1>3, <2>2
  <1>4. CASE Start % Width # 0
    <2>1. (Width - (Start % Width)) % Width = Width - (Start % Width)
      BY <1>1, <1>4
    <2>2. FirstWholeBucket = (Start - (Start % Width)) + Width
      BY <1>1, <2>1 DEF FirstWholeBucket
    <2>3. FirstWholeBucket = (k + 1) * Width
      BY <1>1, <1>2, <2>2
    <2>4. FirstWholeBucket \in Nat /\ Start <= FirstWholeBucket
      BY <1>1, <2>2
    <2>5. k + 1 \in Nat
      OBVIOUS
    <2> QED BY <2>3, <2>4, <2>5
  <1> QED BY <1>3, <1>4

\* An event from there on lies in a bucket of the range.
LEMMA LaterBuckets ==
    ASSUME NEW e \in Events, FirstWholeBucket <= Time[e], Time[e] <= End
    PROVE  InRange(BucketOf(e))
  <1> DEFINE b == BucketOf(e)
             first == FirstWholeBucket
  <1>1. /\ Width \in Nat \ {0} /\ Time[e] \in Nat /\ Start \in Nat /\ End \in Nat
        /\ b \in Nat /\ b <= Time[e] /\ Time[e] < b + Width
    BY TimeAssumption, SizeAssumption, InItsBucket
  <1>2. PICK k \in Nat : b = k * Width
    BY <1>1, WholeBuckets DEF BucketOf
  <1>3. PICK l \in Nat : first = l * Width
    BY FirstIsWhole
  <1>4. first \in Nat /\ Start <= first /\ first <= Time[e]
    BY FirstIsWhole
  <1> HIDE DEF b, first
  <1>5. ASSUME b < first PROVE FALSE
    <2>1. k < l
      BY <1>1, <1>2, <1>3, <1>5
    <2>2. (l - k - 1) * Width >= 0
      BY <1>1, <2>1
    <2>3. (l - k - 1) * Width = l * Width - k * Width - Width
      BY <1>1
    <2>4. b + Width <= first
      BY <1>1, <1>2, <1>3, <1>4, <2>2, <2>3
    <2> QED BY <1>1, <1>4, <2>4
  <1>6. Start <= b /\ b <= End
    BY <1>1, <1>4, <1>5
  <1> QED BY <1>6 DEF InRange, b

\* Finitely many events are in finitely many buckets.
LEMMA FewBuckets ==
    ASSUME IsFiniteSet(counted), counted \subseteq Events
    PROVE  IsFiniteSet({b \in Buckets : InRange(b) /\ \E e \in counted : BucketOf(e) = b})
  <1> DEFINE all == {b \in Buckets : \E e \in counted : BucketOf(e) = b}
             found == {b \in Buckets : InRange(b) /\ \E e \in counted : BucketOf(e) = b}
             f == [e \in counted |-> BucketOf(e)]
  <1>1. f \in [counted -> all] /\ \A b \in all : \E e \in counted : f[e] = b
    BY DEF Buckets
  <1>2. found \in SUBSET all
    OBVIOUS
  <1> HIDE DEF f, all
  <1>3. f \in Surjection(counted, all)
    BY <1>1, Fun_IsSurj
  <1>4. IsFiniteSet(all)
    BY <1>3, FS_Surjection
  <1> QED BY <1>2, <1>4, FS_Subset

\* The first rows of a query are all of them, or as many as the limit allows.
LEMMA NewestOrFull ==
    ASSUME NEW S, IsFiniteSet(S), NEW key, NEW limit \in Nat, NEW rows \in Newest(S, key, limit)
    PROVE  rows = S \/ Cardinality(rows) = limit
  <1>1. rows \in SUBSET S
    BY DEF Newest
  <1>2. CASE Cardinality(S) < limit
    <2>1. Cardinality(rows) = Cardinality(S)
      BY <1>2 DEF Newest
    <2> QED BY <1>1, <2>1, FS_Subset
  <1>3. CASE ~ (Cardinality(S) < limit)
    BY <1>3 DEF Newest
  <1> QED BY <1>2, <1>3

LEMMA RangeHolds ==
    ASSUME TiersInv, TiersInv', RangeInv, [Next]_vars
    PROVE  RangeInv'
  <1>1. CASE UNCHANGED vars
    BY <1>1 DEF vars, db, RangeInv
  <1>2. ASSUME NEW e \in Events, Store(e) \/ Count(e) PROVE RangeInv'
    <2>1. base' = base /\ valid' = valid /\ counted' \in {counted, counted \cup {e}}
      BY <1>2 DEF Store, Count
    <2>2. IsFiniteSet(counted')
      BY <2>1, FS_AddElement DEF RangeInv
    <2> QED BY <2>1, <2>2 DEF RangeInv
  <1>3. CASE FetchSummaries
    <2> DEFINE found == {b \in Buckets : InRange(b) /\ \E e \in counted : BucketOf(e) = b}
    <2>1. PICK rows \in Newest(found, [b \in found |-> b], SummaryLimit) : valid' = rows
      BY <1>3 DEF FetchSummaries
    <2>2. base' = counted /\ counted' = counted
      BY <1>3 DEF FetchSummaries, db
    <2>3. IsFiniteSet(found) /\ counted \subseteq Events
      BY FewBuckets DEF RangeInv, TiersInv, TypeOK
    <2>4. ASSUME NEW e \in counted, FirstWholeBucket <= Time[e], Time[e] <= End
          PROVE  BucketOf(e) \in found
      <3>1. InRange(BucketOf(e)) /\ BucketOf(e) \in Buckets
        BY <2>3, <2>4, LaterBuckets DEF Buckets
      <3> QED BY <3>1
    <2>5. \A b \in found : b \in Nat
      BY InItsBucket DEF Buckets
    <2>6. /\ rows \subseteq found
          /\ \A x \in rows, y \in found \ rows : y <= x
      BY DEF Newest
    <2> HIDE DEF found
    <2>7. rows = found \/ Cardinality(rows) = SummaryLimit
      BY <2>3, SizeAssumption, NewestOrFull
    <2>8. ASSUME NEW e \in counted, FirstWholeBucket <= Time[e], Time[e] <= End,
                 BucketOf(e) \notin rows
          PROVE  Cardinality(rows) = SummaryLimit /\ \A b \in rows : b > BucketOf(e)
      BY <2>4, <2>5, <2>6, <2>7, <2>8
    <2> QED BY <2>1, <2>2, <2>8 DEF RangeInv, BucketOf, FirstWholeBucket
  <1>4. CASE \/ Tier1Answer \/ Tier1Error \/ Flag \/ Tier2Answer \/ Tier2Error
             \/ \E b \in Buckets : FetchBucket(b) \/ FetchError(b)
    <2>1. base' = base /\ valid' = valid /\ counted' = counted
      BY <1>4 DEF Tier1Answer, Tier1Error, Flag, Tier2Answer, Tier2Error, FetchBucket, FetchError, db
    <2> QED BY <2>1 DEF RangeInv
  <1> QED BY <1>1, <1>2, <1>3, <1>4 DEF Next

\* Every event of the range that was counted when the summaries were read is in
\* a bucket put before the model, or the query's limit took newer ones only.
THEOREM RangeIsCovered == Spec => []RangeCovered
  <1>1. Init => RangeInv
    BY FS_EmptySet DEF Init, RangeInv
  <1>2. TiersInv /\ TiersInv' /\ RangeInv /\ [Next]_vars => RangeInv'
    BY RangeHolds
  <1>3. RangeInv => RangeCovered
    BY DEF RangeInv, RangeCovered
  <1> QED BY <1>1, <1>2, <1>3, TiersInvariant, PTL DEF Spec
===============================================================================
