------------------------------ MODULE TriageJobs ------------------------------
(***************************************************************************)
(* Triage jobs of analyzer-svc. POST /triage/jobs looks for a job of the   *)
(* same time range in Redis, or saves a new one and starts a goroutine     *)
(* that works on it; GET /triage/jobs/:id reads the job back and gives up  *)
(* on it when it has been pending for too long. A job is saved under two   *)
(* keys, its id and its time range, by two SETs of one pipeline that is no *)
(* transaction. Every key lives 30 minutes after its last SET.             *)
(***************************************************************************)
EXTENDS Naturals, FiniteSets

CONSTANTS
    Jobs,        \* POST requests, each with the id it would give its job
    NoJob,
    Ranges,      \* time ranges asked for; those whose hashes agree in the 48 bits
                 \* of triageResultsCacheKey are one range here, as they are to Redis
    Servers,     \* analyzer-svc processes
    MaxCrashes,  \* bound: processes that die
    MaxFaults,   \* bound: failing calls to Redis
    MaxExpiries  \* bound: keys that expire

ASSUME NoJobAssumption == NoJob \notin Jobs
ASSUME BoundsAssumption == MaxCrashes \in Nat /\ MaxFaults \in Nat /\ MaxExpiries \in Nat

VARIABLES
    saved,    \* saved[j]: the status under key triage:job:j, "none" without the key
    latest,   \* latest[r]: the job id under the key of time range r
    range, server, \* what request j asks for, and who serves it
    pc,       \* where the handler, then the goroutine, of j stands
    found,    \* found[j]: the job id that POST j read under its range's key
    status,   \* status[j]: job.Status in the memory of the goroutine
    poll,     \* poll[j]: where a GET that gives up on j stands
    late,     \* jobs created more than triageJobTimeout ago
    crashes, faults, expiries

redis == <<saved, latest>>
request == <<range, server, found>>
budgets == <<crashes, faults, expiries>>
vars == <<redis, request, pc, status, poll, late, budgets>>

Statuses == {"pending", "running", "complete", "failed"}
Final == {"complete", "failed"}

\* The pipeline's first SET and its second, at creation, start and end.
SetsJob == {"createJob", "runJob", "endJob"}
SetsRange == {"createRange", "runRange", "endRange"}

Init ==
    /\ saved = [j \in Jobs |-> "none"]
    /\ latest = [r \in Ranges |-> NoJob]
    /\ range \in [Jobs -> Ranges]
    /\ server \in [Jobs -> Servers]
    /\ found = [j \in Jobs |-> NoJob]
    /\ pc = [j \in Jobs |-> "new"]
    /\ status = [j \in Jobs |-> "pending"]
    /\ poll = [j \in Jobs |-> "idle"]
    /\ late = {}
    /\ crashes = 0 /\ faults = 0 /\ expiries = 0

Goto(j, label) == pc' = [pc EXCEPT ![j] = label]

RedisFails == faults < MaxFaults /\ faults' = faults + 1 /\ UNCHANGED <<crashes, expiries>>

-----------------------------------------------------------------------------
(* POST: handleCreateTriageJob                                             *)

\* Mutant: a miss on the range's key is followed up like a hit.
LookupRangeMiss(j) ==
    /\ pc[j] = "new"
    /\ \/ /\ found' = [found EXCEPT ![j] = latest[range[j]]]
          /\ Goto(j, "lookup")
          /\ UNCHANGED budgets
       \/ RedisFails /\ Goto(j, "createJob") /\ UNCHANGED found
    /\ UNCHANGED <<redis, range, server, status, poll, late>>

\* GET on the key of the time range: an error is taken for a miss.
LookupRange(j) ==
    /\ pc[j] = "new"
    /\ \/ /\ found' = [found EXCEPT ![j] = latest[range[j]]]
          /\ Goto(j, IF latest[range[j]] = NoJob THEN "createJob" ELSE "lookup")
          /\ UNCHANGED budgets
       \/ RedisFails /\ Goto(j, "createJob") /\ UNCHANGED found
    /\ UNCHANGED <<redis, range, server, status, poll, late>>

\* GET on the job's own key: a hit answers the request.
LookupJob(j) ==
    /\ pc[j] = "lookup"
    /\ \/ Goto(j, IF saved[found[j]] = "none" THEN "createJob" ELSE "answered") /\ UNCHANGED budgets
       \/ RedisFails /\ Goto(j, "createJob")
    /\ UNCHANGED <<redis, request, status, poll, late>>

-----------------------------------------------------------------------------
(* cacheTriageJob, from the handler and from the goroutine                 *)

\* Mutant: the last save reports success, whatever became of the job.
SetJobComplete(j) ==
    /\ pc[j] \in SetsJob
    /\ saved' = [saved EXCEPT ![j] = IF pc[j] = "endJob" THEN "complete" ELSE status[j]]
    /\ Goto(j, CASE pc[j] = "createJob" -> "createRange"
                 [] pc[j] = "runJob"    -> "runRange"
                 [] pc[j] = "endJob"    -> "endRange")
    /\ UNCHANGED <<latest, request, status, poll, late, budgets>>

SetJob(j) ==
    /\ pc[j] \in SetsJob
    /\ saved' = [saved EXCEPT ![j] = status[j]]
    /\ Goto(j, CASE pc[j] = "createJob" -> "createRange"
                 [] pc[j] = "runJob"    -> "runRange"
                 [] pc[j] = "endJob"    -> "endRange")
    /\ UNCHANGED <<latest, request, status, poll, late, budgets>>

\* Once both SETs have gone through the request is accepted and its goroutine
\* is started; the goroutine goes on to its work, or is done.
AfterSave(j) ==
    CASE pc[j] \in {"createJob", "createRange"} -> "accepted"
      [] pc[j] \in {"runJob", "runRange"}       -> "working"
      [] pc[j] \in {"endJob", "endRange"}       -> "done"

\* Mutant: the key's hash leaves the time range out.
SetEveryRange(j) ==
    /\ pc[j] \in SetsRange
    /\ latest' = [r \in Ranges |-> j]
    /\ Goto(j, AfterSave(j))
    /\ UNCHANGED <<saved, request, status, poll, late, budgets>>

SetRange(j) ==
    /\ pc[j] \in SetsRange
    /\ latest' = [latest EXCEPT ![range[j]] = j]
    /\ Goto(j, AfterSave(j))
    /\ UNCHANGED <<saved, request, status, poll, late, budgets>>

\* The pipeline fails with any part of it done. The handler then answers 500
\* and starts no goroutine; the goroutine ignores the error.
SaveFails(j) ==
    /\ pc[j] \in SetsJob \cup SetsRange
    /\ RedisFails
    /\ \/ UNCHANGED redis
       \/ pc[j] \in SetsJob /\ saved' = [saved EXCEPT ![j] = status[j]] /\ UNCHANGED latest
       \/ latest' = [latest EXCEPT ![range[j]] = j] /\ UNCHANGED saved
    /\ Goto(j, IF AfterSave(j) = "accepted" THEN "refused" ELSE AfterSave(j))
    /\ UNCHANGED <<request, status, poll, late>>

-----------------------------------------------------------------------------
(* The goroutine: processTriageJob                                         *)

Start(j) ==
    /\ pc[j] = "accepted"
    /\ status' = [status EXCEPT ![j] = "running"]
    /\ Goto(j, "runJob")
    /\ UNCHANGED <<redis, request, poll, late, budgets>>

\* Mutant: a failing tier returns before the last save.
FinishUnsaved(j) ==
    /\ pc[j] = "working"
    /\ \E result \in Final :
          /\ status' = [status EXCEPT ![j] = result]
          /\ Goto(j, IF result = "failed" THEN "done" ELSE "endJob")
    /\ UNCHANGED <<redis, request, poll, late, budgets>>

\* Both tiers are done, one of them failed, or a panic was recovered.
Finish(j) ==
    /\ pc[j] = "working"
    /\ \E result \in Final : status' = [status EXCEPT ![j] = result]
    /\ Goto(j, "endJob")
    /\ UNCHANGED <<redis, request, poll, late, budgets>>

-----------------------------------------------------------------------------
(* GET: handleGetTriageJob. A GET that only reads changes nothing.         *)

\* Mutant: a poll also gives up on a running job.
GiveUpRunning(j) ==
    /\ poll[j] = "idle" /\ saved[j] \in {"pending", "running"} /\ j \in late
    /\ poll' = [poll EXCEPT ![j] = "setJob"]
    /\ UNCHANGED <<redis, request, pc, status, late, budgets>>

\* Mutant: a poll gives up on running jobs only.
GiveUpStarted(j) ==
    /\ poll[j] = "idle" /\ saved[j] = "running" /\ j \in late
    /\ poll' = [poll EXCEPT ![j] = "setJob"]
    /\ UNCHANGED <<redis, request, pc, status, late, budgets>>

GiveUp(j) ==
    /\ poll[j] = "idle" /\ saved[j] = "pending" /\ j \in late
    /\ poll' = [poll EXCEPT ![j] = "setJob"]
    /\ UNCHANGED <<redis, request, pc, status, late, budgets>>

PollSetsJob(j) ==
    /\ poll[j] = "setJob"
    /\ saved' = [saved EXCEPT ![j] = "failed"]
    /\ poll' = [poll EXCEPT ![j] = "setRange"]
    /\ UNCHANGED <<latest, request, pc, status, late, budgets>>

PollSetsRange(j) ==
    /\ poll[j] = "setRange"
    /\ latest' = [latest EXCEPT ![range[j]] = j]
    /\ poll' = [poll EXCEPT ![j] = "idle"]
    /\ UNCHANGED <<saved, request, pc, status, late, budgets>>

\* The error is ignored: the client is told "failed" all the same.
PollFails(j) ==
    /\ poll[j] # "idle" /\ RedisFails
    /\ poll' = [poll EXCEPT ![j] = "idle"]
    /\ UNCHANGED <<redis, request, pc, status, late>>

-----------------------------------------------------------------------------
(* Time and failures                                                       *)

\* Two minutes have passed. They are long enough for the handler and for the
\* goroutine's first save, which wait for nothing but Redis.
Age(j) ==
    /\ j \notin late
    /\ pc[j] \in {"working", "endJob", "endRange", "done", "refused", "dead"}
    /\ late' = late \cup {j}
    /\ UNCHANGED <<redis, request, pc, status, poll, budgets>>

ExpireJob(j) ==
    /\ j \in late /\ saved[j] # "none" /\ expiries < MaxExpiries
    /\ expiries' = expiries + 1
    /\ saved' = [saved EXCEPT ![j] = "none"]
    /\ UNCHANGED <<latest, request, pc, status, poll, late, crashes, faults>>

ExpireRange(r) ==
    /\ latest[r] \in late /\ expiries < MaxExpiries
    /\ expiries' = expiries + 1
    /\ latest' = [latest EXCEPT ![r] = NoJob]
    /\ UNCHANGED <<saved, request, pc, status, poll, late, crashes, faults>>

\* A process dies with its handlers and goroutines.
Crash(s) ==
    /\ crashes < MaxCrashes
    /\ crashes' = crashes + 1
    /\ pc' = [j \in Jobs |->
          IF server[j] = s /\ pc[j] \notin {"new", "answered", "refused", "done"} THEN "dead" ELSE pc[j]]
    /\ pc' # pc
    /\ UNCHANGED <<redis, request, status, poll, late, faults, expiries>>

Handler(j) ==
    LookupRange(j) \/ LookupJob(j) \/ SetJob(j) \/ SetRange(j) \/ SaveFails(j) \/ Start(j)

Poll(j) == GiveUp(j) \/ PollSetsJob(j) \/ PollSetsRange(j) \/ PollFails(j)

Next ==
    \/ \E j \in Jobs : Handler(j) \/ Finish(j) \/ Poll(j) \/ Age(j) \/ ExpireJob(j)
    \/ \E r \in Ranges : ExpireRange(r)
    \/ \E s \in Servers : Crash(s)

Spec == Init /\ [][Next]_vars

\* Handlers and goroutines run on, time passes, clients keep polling. The tiers
\* may take for ever: their calls to the model have no timeout.
FairSpec == Spec /\ \A j \in Jobs : WF_vars(Handler(j)) /\ WF_vars(Poll(j)) /\ WF_vars(Age(j))

-----------------------------------------------------------------------------
TypeOK ==
    /\ saved \in [Jobs -> Statuses \cup {"none"}]
    /\ latest \in [Ranges -> Jobs \cup {NoJob}]
    /\ range \in [Jobs -> Ranges] /\ server \in [Jobs -> Servers]
    /\ found \in [Jobs -> Jobs \cup {NoJob}]
    /\ pc \in [Jobs -> SetsJob \cup SetsRange \cup
                {"new", "lookup", "answered", "refused", "accepted", "working", "done", "dead"}]
    /\ \A j \in Jobs : pc[j] = "lookup" => found[j] # NoJob
    /\ status \in [Jobs -> Statuses]
    /\ poll \in [Jobs -> {"idle", "setJob", "setRange"}]
    /\ late \subseteq Jobs
    /\ crashes \in 0 .. MaxCrashes /\ faults \in 0 .. MaxFaults /\ expiries \in 0 .. MaxExpiries

\* What a client has been told is final stays so until the key expires: no
\* poll that gave up on a job and no goroutine writes over the other's verdict.
\* (While Redis answers; processes may die.)
FinalIsFinal ==
    [][faults' = 0 =>
        \A j \in Jobs : saved[j] \in Final => saved'[j] \in {saved[j], "none"}]_vars

\* A time range's key leads to a job that is there, and that was asked for under
\* this key: the pipeline writes the job first, so a POST in between never misses
\* it. (While no key expires and Redis answers.)
RangeLeadsToJob ==
    expiries = 0 /\ faults = 0 =>
        \A r \in Ranges : latest[r] # NoJob => saved[latest[r]] # "none" /\ range[latest[r]] = r

\* "complete" is only ever reported of a job that did complete, not of one that
\* was given up on, failed or died.
CompleteIsTrue ==
    \A j \in Jobs : saved[j] = "complete" => status[j] = "complete"

\* A polled job does not stay "pending": it starts, or a poll gives up on it,
\* also when its goroutine died or its SETs failed.
PendingEnds ==
    \A j \in Jobs : saved[j] = "pending" ~> saved[j] # "pending"

\* Without crashes and failing SETs every accepted job is reported final, if the
\* model lets its tiers come to an end.
JobsEnd ==
    /\ [](crashes = 0 /\ faults = 0)
    /\ \A j \in Jobs : []<>(pc[j] # "working")
    => \A j \in Jobs : pc[j] = "accepted" ~> saved[j] \in Final

-----------------------------------------------------------------------------
(* Claims of the repository that the code does not keep.                   *)

Active(j) == pc[j] \in {"accepted", "runJob", "runRange", "working", "endJob", "endRange"}

\* triage.go:111: idempotency, no other job is triggered for the same range.
OneJobPerRange ==
    \A j, k \in Jobs : Active(j) /\ Active(k) /\ range[j] = range[k] => j = k
=============================================================================
