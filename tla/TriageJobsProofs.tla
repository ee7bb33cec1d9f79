---------------------------- MODULE TriageJobsProofs ----------------------------
(***************************************************************************)
(* What Redis says of a triage job, for all requests, ranges, processes    *)
(* and budgets: "complete" is never a lie, a final answer stays, and a     *)
(* time range's key leads to a job.                                        *)
(***************************************************************************)
EXTENDS TriageJobs, TLAPS

\* Before the first SET, after it, at work, and from the tiers' end on.
Unsaved == {"new", "lookup", "answered", "createJob"}
Waiting == {"createRange", "accepted", "runJob"}
Started == {"runRange", "working", "endJob"}
Ended == {"endRange", "done"}

\* What the goroutine has in memory goes with where it stands, and only a job
\* that has got to its work, or never will, gets old.
StatusInv ==
    \A j \in Jobs :
        /\ pc[j] \in Unsaved \cup {"createRange", "accepted"} => status[j] = "pending"
        /\ pc[j] \in {"runJob", "runRange", "working"} => status[j] = "running"
        /\ pc[j] \in {"endJob"} \cup Ended => status[j] \in Final
        /\ j \in late => pc[j] \in {"working", "endJob", "endRange", "done", "refused", "dead"}

\* While Redis answers, it is a step behind the goroutine at most, and polls
\* give up on dead jobs only.
SavedInv ==
    faults = 0 => \A j \in Jobs :
        /\ pc[j] \in Unsaved => saved[j] = "none"
        /\ pc[j] \in Waiting => saved[j] = "pending"
        /\ pc[j] \in Started => saved[j] \in {"running", "none"}
        /\ pc[j] \in Ended => saved[j] \in {status[j], "none"}
        /\ pc[j] # "refused"
        /\ poll[j] # "idle" => pc[j] = "dead"
        /\ poll[j] = "setJob" => saved[j] \notin Final

\* While no key expires either, whoever is about to write the range's key has
\* written the job's.
KeyInv ==
    expiries = 0 /\ faults = 0 => \A j \in Jobs :
        /\ pc[j] \in Waiting \cup Started \cup Ended => saved[j] # "none"
        /\ poll[j] = "setRange" => saved[j] # "none"

JobsInv == TypeOK /\ StatusInv /\ SavedInv /\ KeyInv /\ CompleteIsTrue /\ RangeLeadsToJob

-----------------------------------------------------------------------------
LEMMA InitHolds == Init => JobsInv
  <1> SUFFICES ASSUME Init PROVE JobsInv
    OBVIOUS
  <1>1. TypeOK
    BY BoundsAssumption DEF Init, TypeOK, Statuses
  <1>2. StatusInv /\ SavedInv /\ KeyInv
    BY DEF Init, StatusInv, SavedInv, KeyInv, Unsaved, Waiting, Started, Ended, Final
  <1>3. CompleteIsTrue /\ RangeLeadsToJob
    BY DEF Init, CompleteIsTrue, RangeLeadsToJob
  <1> QED BY <1>1, <1>2, <1>3 DEF JobsInv

\* Looking for a job of the range.
LEMMA LookupHolds ==
    ASSUME JobsInv, NEW j \in Jobs, LookupRange(j) \/ LookupJob(j)
    PROVE  JobsInv'
  <1> USE DEF LookupRange, LookupJob, redis, request, budgets, Goto, RedisFails, SetsJob, SetsRange
  <1>1. TypeOK'
    BY BoundsAssumption DEF JobsInv, TypeOK, Statuses, Final
  <1>2. StatusInv'
    BY DEF JobsInv, TypeOK, StatusInv, Unsaved, Ended, Final
  <1>3. SavedInv'
    BY DEF JobsInv, TypeOK, StatusInv, SavedInv, Unsaved, Waiting, Started, Ended, Final
  <1>4. KeyInv'
    BY DEF JobsInv, TypeOK, StatusInv, KeyInv, Unsaved, Waiting, Started, Ended, Final
  <1>5. CompleteIsTrue'
    BY DEF JobsInv, TypeOK, StatusInv, CompleteIsTrue, Unsaved, Ended, Final
  <1>6. RangeLeadsToJob'
    BY DEF JobsInv, TypeOK, Statuses, KeyInv, RangeLeadsToJob, Unsaved, Waiting, Started, Ended
  <1> QED BY <1>1, <1>2, <1>3, <1>4, <1>5, <1>6 DEF JobsInv

\* The pipeline's first SET.
LEMMA SetJobHolds ==
    ASSUME JobsInv, NEW j \in Jobs, SetJob(j)
    PROVE  JobsInv'
  <1> USE DEF SetJob, redis, request, budgets, Goto, RedisFails, SetsJob, SetsRange
  <1>1. TypeOK'
    BY BoundsAssumption DEF JobsInv, TypeOK, Statuses, Final
  <1>2. StatusInv'
    BY DEF JobsInv, TypeOK, StatusInv, Unsaved, Ended, Final
  <1>3. SavedInv'
    BY DEF JobsInv, TypeOK, StatusInv, SavedInv, Unsaved, Waiting, Started, Ended, Final
  <1>4. KeyInv'
    BY DEF JobsInv, TypeOK, StatusInv, KeyInv, Unsaved, Waiting, Started, Ended, Final
  <1>5. CompleteIsTrue'
    BY DEF JobsInv, TypeOK, StatusInv, CompleteIsTrue, Unsaved, Ended, Final
  <1>6. RangeLeadsToJob'
    BY DEF JobsInv, TypeOK, Statuses, KeyInv, RangeLeadsToJob, Unsaved, Waiting, Started, Ended
  <1> QED BY <1>1, <1>2, <1>3, <1>4, <1>5, <1>6 DEF JobsInv

\* The pipeline's second SET.
LEMMA SetRangeHolds ==
    ASSUME JobsInv, NEW j \in Jobs, SetRange(j)
    PROVE  JobsInv'
  <1> USE DEF SetRange, redis, request, budgets, Goto, RedisFails, SetsJob, SetsRange, AfterSave
  <1>1. TypeOK'
    BY BoundsAssumption DEF JobsInv, TypeOK, Statuses, Final
  <1>2. StatusInv'
    BY DEF JobsInv, TypeOK, StatusInv, Unsaved, Ended, Final
  <1>3. SavedInv'
    BY DEF JobsInv, TypeOK, StatusInv, SavedInv, Unsaved, Waiting, Started, Ended, Final
  <1>4. KeyInv'
    BY DEF JobsInv, TypeOK, StatusInv, KeyInv, Unsaved, Waiting, Started, Ended, Final
  <1>5. CompleteIsTrue'
    BY DEF JobsInv, TypeOK, StatusInv, CompleteIsTrue, Unsaved, Ended, Final
  <1>6. RangeLeadsToJob'
    BY DEF JobsInv, TypeOK, Statuses, KeyInv, RangeLeadsToJob, Unsaved, Waiting, Started, Ended
  <1> QED BY <1>1, <1>2, <1>3, <1>4, <1>5, <1>6 DEF JobsInv

\* A pipeline that fails.
LEMMA SaveFailsHolds ==
    ASSUME JobsInv, NEW j \in Jobs, SaveFails(j)
    PROVE  JobsInv'
  <1> USE DEF SaveFails, redis, request, budgets, Goto, RedisFails, SetsJob, SetsRange, AfterSave
  <1>1. TypeOK'
    BY BoundsAssumption DEF JobsInv, TypeOK, Statuses, Final
  <1>2. StatusInv'
    BY DEF JobsInv, TypeOK, StatusInv, Unsaved, Ended, Final
  <1>3. SavedInv'
    BY DEF JobsInv, TypeOK, StatusInv, SavedInv, Unsaved, Waiting, Started, Ended, Final
  <1>4. KeyInv'
    BY DEF JobsInv, TypeOK, StatusInv, KeyInv, Unsaved, Waiting, Started, Ended, Final
  <1>5. CompleteIsTrue'
    BY DEF JobsInv, TypeOK, StatusInv, CompleteIsTrue, Unsaved, Ended, Final
  <1>6. RangeLeadsToJob'
    BY DEF JobsInv, TypeOK, Statuses, KeyInv, RangeLeadsToJob, Unsaved, Waiting, Started, Ended
  <1> QED BY <1>1, <1>2, <1>3, <1>4, <1>5, <1>6 DEF JobsInv

\* The goroutine between its saves.
LEMMA GoroutineHolds ==
    ASSUME JobsInv, NEW j \in Jobs, Start(j) \/ Finish(j)
    PROVE  JobsInv'
  <1> USE DEF Start, Finish, redis, request, budgets, Goto, RedisFails, SetsJob, SetsRange
  <1>1. TypeOK'
    BY BoundsAssumption DEF JobsInv, TypeOK, Statuses, Final
  <1>2. StatusInv'
    BY DEF JobsInv, TypeOK, StatusInv, Unsaved, Ended, Final
  <1>3. SavedInv'
    BY DEF JobsInv, TypeOK, StatusInv, SavedInv, Unsaved, Waiting, Started, Ended, Final
  <1>4. KeyInv'
    BY DEF JobsInv, TypeOK, StatusInv, KeyInv, Unsaved, Waiting, Started, Ended, Final
  <1>5. CompleteIsTrue'
    BY DEF JobsInv, TypeOK, StatusInv, CompleteIsTrue, Unsaved, Ended, Final
  <1>6. RangeLeadsToJob'
    BY DEF JobsInv, TypeOK, Statuses, KeyInv, RangeLeadsToJob, Unsaved, Waiting, Started, Ended
  <1> QED BY <1>1, <1>2, <1>3, <1>4, <1>5, <1>6 DEF JobsInv

\* Polls write about dead jobs only, while Redis answers.
LEMMA PollHolds ==
    ASSUME JobsInv, NEW j \in Jobs, GiveUp(j) \/ PollSetsJob(j) \/ PollSetsRange(j) \/ PollFails(j)
    PROVE  JobsInv'
  <1> USE DEF GiveUp, PollSetsJob, PollSetsRange, PollFails
  <1> USE DEF redis, request, budgets, Goto, RedisFails, SetsJob, SetsRange
  <1>1. TypeOK'
    BY BoundsAssumption DEF JobsInv, TypeOK, Statuses, Final
  <1>2. StatusInv'
    BY DEF JobsInv, TypeOK, StatusInv, Unsaved, Ended, Final
  <1>3. SavedInv'
    BY DEF JobsInv, TypeOK, StatusInv, SavedInv, Unsaved, Waiting, Started, Ended, Final
  <1>4. KeyInv'
    BY DEF JobsInv, TypeOK, StatusInv, KeyInv, Unsaved, Waiting, Started, Ended, Final
  <1>5. CompleteIsTrue'
    BY DEF JobsInv, TypeOK, StatusInv, CompleteIsTrue, Unsaved, Ended, Final
  <1>6. RangeLeadsToJob'
    BY DEF JobsInv, TypeOK, Statuses, KeyInv, RangeLeadsToJob, Unsaved, Waiting, Started, Ended
  <1> QED BY <1>1, <1>2, <1>3, <1>4, <1>5, <1>6 DEF JobsInv

\* Jobs get old and their keys expire.
LEMMA TimeHolds ==
    ASSUME JobsInv, NEW j \in Jobs, Age(j) \/ ExpireJob(j)
    PROVE  JobsInv'
  <1> USE DEF Age, ExpireJob, redis, request, budgets, Goto, RedisFails, SetsJob, SetsRange
  <1>1. TypeOK'
    BY BoundsAssumption DEF JobsInv, TypeOK, Statuses, Final
  <1>2. StatusInv'
    BY DEF JobsInv, TypeOK, StatusInv, Unsaved, Ended, Final
  <1>3. SavedInv'
    BY DEF JobsInv, TypeOK, StatusInv, SavedInv, Unsaved, Waiting, Started, Ended, Final
  <1>4. KeyInv'
    BY DEF JobsInv, TypeOK, StatusInv, KeyInv, Unsaved, Waiting, Started, Ended, Final
  <1>5. CompleteIsTrue'
    BY DEF JobsInv, TypeOK, StatusInv, CompleteIsTrue, Unsaved, Ended, Final
  <1>6. RangeLeadsToJob'
    BY DEF JobsInv, TypeOK, Statuses, KeyInv, RangeLeadsToJob, Unsaved, Waiting, Started, Ended
  <1> QED BY <1>1, <1>2, <1>3, <1>4, <1>5, <1>6 DEF JobsInv

\* The range's key expires.
LEMMA ExpireRangeHolds ==
    ASSUME JobsInv, NEW r \in Ranges, ExpireRange(r)
    PROVE  JobsInv'
  <1> USE DEF ExpireRange, redis, request, budgets, Goto, RedisFails, SetsJob, SetsRange
  <1>1. TypeOK'
    BY BoundsAssumption DEF JobsInv, TypeOK, Statuses, Final
  <1>2. StatusInv'
    BY DEF JobsInv, TypeOK, StatusInv, Unsaved, Ended, Final
  <1>3. SavedInv'
    BY DEF JobsInv, TypeOK, StatusInv, SavedInv, Unsaved, Waiting, Started, Ended, Final
  <1>4. KeyInv'
    BY DEF JobsInv, TypeOK, StatusInv, KeyInv, Unsaved, Waiting, Started, Ended, Final
  <1>5. CompleteIsTrue'
    BY DEF JobsInv, TypeOK, StatusInv, CompleteIsTrue, Unsaved, Ended, Final
  <1>6. RangeLeadsToJob'
    BY DEF JobsInv, TypeOK, Statuses, KeyInv, RangeLeadsToJob, Unsaved, Waiting, Started, Ended
  <1> QED BY <1>1, <1>2, <1>3, <1>4, <1>5, <1>6 DEF JobsInv

\* A process dies.
LEMMA CrashHolds ==
    ASSUME JobsInv, NEW s \in Servers, Crash(s)
    PROVE  JobsInv'
  <1> USE DEF Crash, redis, request, budgets, Goto, RedisFails, SetsJob, SetsRange
  <1>1. TypeOK'
    BY BoundsAssumption DEF JobsInv, TypeOK, Statuses, Final
  <1>2. StatusInv'
    BY DEF JobsInv, TypeOK, StatusInv, Unsaved, Ended, Final
  <1>3. SavedInv'
    BY DEF JobsInv, TypeOK, StatusInv, SavedInv, Unsaved, Waiting, Started, Ended, Final
  <1>4. KeyInv'
    BY DEF JobsInv, TypeOK, StatusInv, KeyInv, Unsaved, Waiting, Started, Ended, Final
  <1>5. CompleteIsTrue'
    BY DEF JobsInv, TypeOK, StatusInv, CompleteIsTrue, Unsaved, Ended, Final
  <1>6. RangeLeadsToJob'
    BY DEF JobsInv, TypeOK, Statuses, KeyInv, RangeLeadsToJob, Unsaved, Waiting, Started, Ended
  <1> QED BY <1>1, <1>2, <1>3, <1>4, <1>5, <1>6 DEF JobsInv

LEMMA StepHolds == JobsInv /\ [Next]_vars => JobsInv'
  <1> SUFFICES ASSUME JobsInv, [Next]_vars PROVE JobsInv'
    OBVIOUS
  <1>1. ASSUME NEW j \in Jobs, Handler(j) PROVE JobsInv'
    BY <1>1, LookupHolds, SetJobHolds, SetRangeHolds, SaveFailsHolds, GoroutineHolds DEF Handler
  <1>2. ASSUME NEW j \in Jobs, Finish(j) PROVE JobsInv'
    BY <1>2, GoroutineHolds
  <1>3. ASSUME NEW j \in Jobs, Poll(j) PROVE JobsInv'
    BY <1>3, PollHolds DEF Poll
  <1>4. ASSUME NEW j \in Jobs, Age(j) \/ ExpireJob(j) PROVE JobsInv'
    BY <1>4, TimeHolds
  <1>5. ASSUME NEW r \in Ranges, ExpireRange(r) PROVE JobsInv'
    BY <1>5, ExpireRangeHolds
  <1>6. ASSUME NEW s \in Servers, Crash(s) PROVE JobsInv'
    BY <1>6, CrashHolds
  <1>7. CASE UNCHANGED vars
    BY <1>7 DEF vars, redis, request, budgets, JobsInv, TypeOK, StatusInv, SavedInv, KeyInv,
                CompleteIsTrue, RangeLeadsToJob
  <1> QED BY <1>1, <1>2, <1>3, <1>4, <1>5, <1>6, <1>7 DEF Next

\* Where a job stands bounds what is saved of it, through crashes, failing
\* calls and expiring keys.
THEOREM JobsInvariant == Spec => []JobsInv
  BY InitHolds, StepHolds, PTL DEF Spec

\* Redis and the goroutines hold jobs, statuses and stages only, whatever fails.
THEOREM TypeCorrect == Spec => []TypeOK
  <1>1. JobsInv => TypeOK
    BY DEF JobsInv
  <1> QED BY <1>1, JobsInvariant, PTL

\* No poll, crash or failing SET makes Redis call a job complete whose tiers
\* did not both succeed.
THEOREM CompleteIsNeverALie == Spec => []CompleteIsTrue
  <1>1. JobsInv => CompleteIsTrue
    BY DEF JobsInv
  <1> QED BY <1>1, JobsInvariant, PTL

\* A range's key leads to a saved job asked for under that key, whoever writes it
\* when.
THEOREM RangesLeadToJobs == Spec => []RangeLeadsToJob
  <1>1. JobsInv => RangeLeadsToJob
    BY DEF JobsInv
  <1> QED BY <1>1, JobsInvariant, PTL

-----------------------------------------------------------------------------
(* Three actions write a job's key; none of them finds it final.           *)

LEMMA FinalStays ==
    ASSUME JobsInv, [Next]_vars, faults' = 0, NEW j \in Jobs, saved[j] \in Final
    PROVE  saved'[j] \in {saved[j], "none"}
  <1> USE DEF redis, request, budgets
  <1>1. faults = 0
    BY BoundsAssumption DEF JobsInv, TypeOK, Next, Handler, Poll, vars, LookupRange, LookupJob, SetJob,
       SetRange, SaveFails, Start, Finish, GiveUp, PollSetsJob, PollSetsRange, PollFails, Age,
       ExpireJob, ExpireRange, Crash, RedisFails
  <1>2. ASSUME NEW k \in Jobs, SetJob(k) PROVE saved'[j] \in {saved[j], "none"}
    <2>1. pc[k] \in SetsJob => saved[k] \notin Final
      BY <1>1 DEF JobsInv, TypeOK, SavedInv, SetsJob, Unsaved, Waiting, Started, Final
    <2>2. k # j /\ saved' = [saved EXCEPT ![k] = status[k]]
      BY <1>2, <2>1 DEF SetJob
    <2> QED BY <2>2 DEF JobsInv, TypeOK
  <1>3. ASSUME NEW k \in Jobs, PollSetsJob(k) PROVE saved'[j] \in {saved[j], "none"}
    <2>1. k # j /\ saved' = [saved EXCEPT ![k] = "failed"]
      BY <1>1, <1>3 DEF JobsInv, SavedInv, PollSetsJob
    <2> QED BY <2>1 DEF JobsInv, TypeOK
  <1>4. ASSUME NEW k \in Jobs, ExpireJob(k) PROVE saved'[j] \in {saved[j], "none"}
    BY <1>4 DEF ExpireJob, JobsInv, TypeOK
  <1>5. ASSUME NEW k \in Jobs, SaveFails(k) PROVE FALSE
    BY <1>1, <1>5 DEF SaveFails, RedisFails
  <1>6. ASSUME NEW k \in Jobs, LookupRange(k) \/ LookupJob(k) \/ SetRange(k) \/ Start(k) \/ Finish(k)
                               \/ GiveUp(k) \/ PollSetsRange(k) \/ PollFails(k) \/ Age(k)
        PROVE  saved' = saved
    BY <1>6 DEF LookupRange, LookupJob, SetRange, Start, Finish, GiveUp, PollSetsRange, PollFails, Age
  <1>7. ASSUME NEW r \in Ranges, ExpireRange(r) PROVE saved' = saved
    BY <1>7 DEF ExpireRange
  <1>8. ASSUME NEW s \in Servers, Crash(s) PROVE saved' = saved
    BY <1>8 DEF Crash
  <1>9. CASE UNCHANGED vars
    BY <1>9 DEF vars
  <1> QED BY <1>2, <1>3, <1>4, <1>5, <1>6, <1>7, <1>8, <1>9 DEF Next, Handler, Poll

\* A verdict that clients have seen is not replaced by another one: not by a
\* poll that decided earlier, nor by a goroutine that a poll has given up on.
THEOREM FinalIsNotReplaced == Spec => FinalIsFinal
  <1>1. JobsInv /\ [Next]_vars =>
            [faults' = 0 =>
                \A j \in Jobs : saved[j] \in Final => saved'[j] \in {saved[j], "none"}]_vars
    BY FinalStays
  <1> QED BY <1>1, JobsInvariant, PTL DEF Spec, FinalIsFinal

=============================================================================
