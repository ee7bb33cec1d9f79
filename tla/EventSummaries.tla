---------------------------- MODULE EventSummaries ----------------------------
(***************************************************************************)
(* updateSummary of processor-svc: every replica counts the events it has  *)
(* stored, one call at a time, each call up to MaxAttempts transactions    *)
(* against the row of the event's bucket. Replicas meet on the rows.       *)
(*                                                                         *)
(* PostgreSQL runs the transactions at READ COMMITTED: SELECT ... FOR NO   *)
(* KEY UPDATE waits for the row's lock and then reads its last committed   *)
(* version; it does not see another transaction's uncommitted INSERT, but  *)
(* an INSERT of the same key waits for that transaction to end.            *)
(***************************************************************************)
EXTENDS SummaryRows, FiniteSets

CONSTANTS
    Workers,      \* one processBatches goroutine per replica
    NoWorker,
    NoEvent,
    MaxAttempts,  \* summaryUpdateMaxAttempts
    MaxFaults     \* bound: failing statements

ASSUME AttemptsAssumption == MaxAttempts \in Nat \ {0} /\ MaxFaults \in Nat
ASSUME EventsAssumption == IsFiniteSet(Events)
ASSUME NullAssumption == NoWorker \notin Workers /\ NoEvent \notin Events

VARIABLES
    rows,     \* the committed rows
    holder,   \* holder[b]: who has locked the row of b, or inserted it uncommitted
    outcome,  \* outcome[e]: "new", "running", "ok" or "error"
    event,    \* event[w]: the event of w's call
    attempt,  \* attempt[w]: the transaction's number within the call
    step,     \* step[w]: the statement that comes next
    row,      \* row[w]: the row that w has read, or has written uncommitted
    faults

vars == <<rows, holder, outcome, event, attempt, step, row, faults>>

Bucket(w) == BucketOf(event[w])

Init ==
    /\ rows = [b \in Buckets |-> NoRow]
    /\ holder = [b \in Buckets |-> NoWorker]
    /\ outcome = [e \in Events |-> "new"]
    /\ event = [w \in Workers |-> NoEvent]
    /\ attempt = [w \in Workers |-> 1]
    /\ step = [w \in Workers |-> "idle"]
    /\ row = [w \in Workers |-> NoRow]
    /\ faults = 0

Call(w, e) ==
    /\ step[w] = "idle" /\ outcome[e] = "new"
    /\ outcome' = [outcome EXCEPT ![e] = "running"]
    /\ event' = [event EXCEPT ![w] = e]
    /\ attempt' = [attempt EXCEPT ![w] = 1]
    /\ step' = [step EXCEPT ![w] = "select"]
    /\ UNCHANGED <<rows, holder, row, faults>>

\* Mutant: an error path returns without the rollback.
ReturnOpen(w, result) ==
    /\ outcome' = [outcome EXCEPT ![event[w]] = result]
    /\ event' = [event EXCEPT ![w] = NoEvent]
    /\ attempt' = [attempt EXCEPT ![w] = 1]
    /\ step' = [step EXCEPT ![w] = "idle"]
    /\ row' = [row EXCEPT ![w] = NoRow]
    /\ holder' = [b \in Buckets |-> IF holder[b] = w /\ result = "ok" THEN NoWorker ELSE holder[b]]

\* The call returns; the transaction it may have open has ended.
Return(w, result) ==
    /\ outcome' = [outcome EXCEPT ![event[w]] = result]
    /\ event' = [event EXCEPT ![w] = NoEvent]
    /\ attempt' = [attempt EXCEPT ![w] = 1]
    /\ step' = [step EXCEPT ![w] = "idle"]
    /\ row' = [row EXCEPT ![w] = NoRow]
    /\ holder' = [b \in Buckets |-> IF holder[b] = w THEN NoWorker ELSE holder[b]]

\* Mutant: SELECT without FOR NO KEY UPDATE.
SelectRowUnlocked(w) ==
    /\ step[w] = "select" /\ rows[Bucket(w)] # NoRow
    /\ row' = [row EXCEPT ![w] = rows[Bucket(w)]]
    /\ step' = [step EXCEPT ![w] = "update"]
    /\ UNCHANGED <<rows, holder, outcome, event, attempt, faults>>

SelectRow(w) ==
    /\ step[w] = "select" /\ rows[Bucket(w)] # NoRow /\ holder[Bucket(w)] = NoWorker
    /\ holder' = [holder EXCEPT ![Bucket(w)] = w]
    /\ row' = [row EXCEPT ![w] = rows[Bucket(w)]]
    /\ step' = [step EXCEPT ![w] = "update"]
    /\ UNCHANGED <<rows, outcome, event, attempt, faults>>

\* ErrNoRows
SelectNothing(w) ==
    /\ step[w] = "select" /\ rows[Bucket(w)] = NoRow
    /\ step' = [step EXCEPT ![w] = "insert"]
    /\ UNCHANGED <<rows, holder, outcome, event, attempt, row, faults>>

Insert(w) ==
    /\ step[w] = "insert" /\ rows[Bucket(w)] = NoRow /\ holder[Bucket(w)] = NoWorker
    /\ holder' = [holder EXCEPT ![Bucket(w)] = w]
    /\ row' = [row EXCEPT ![w] = FirstRow(event[w])]
    /\ step' = [step EXCEPT ![w] = "commit"]
    /\ UNCHANGED <<rows, outcome, event, attempt, faults>>

\* Mutant: another transaction's uncommitted row is taken for a conflict.
InsertConflictEarly(w) ==
    /\ step[w] = "insert" /\ (rows[Bucket(w)] # NoRow \/ holder[Bucket(w)] # NoWorker)
    /\ IF attempt[w] < MaxAttempts
         THEN /\ attempt' = [attempt EXCEPT ![w] = @ + 1]
              /\ step' = [step EXCEPT ![w] = "select"]
              /\ UNCHANGED <<holder, outcome, event, row>>
         ELSE Return(w, "error")
    /\ UNCHANGED <<rows, faults>>

\* A unique violation: roll back, and try again while attempts are left.
InsertConflict(w) ==
    /\ step[w] = "insert" /\ rows[Bucket(w)] # NoRow
    /\ IF attempt[w] < MaxAttempts
         THEN /\ attempt' = [attempt EXCEPT ![w] = @ + 1]
              /\ step' = [step EXCEPT ![w] = "select"]
              /\ UNCHANGED <<holder, outcome, event, row>>
         ELSE Return(w, "error")
    /\ UNCHANGED <<rows, faults>>

Update(w) ==
    /\ step[w] = "update"
    /\ \E new \in WithEvent(row[w], event[w]) : row' = [row EXCEPT ![w] = new]
    /\ step' = [step EXCEPT ![w] = "commit"]
    /\ UNCHANGED <<rows, holder, outcome, event, attempt, faults>>

Commit(w) ==
    /\ step[w] = "commit"
    /\ rows' = [rows EXCEPT ![Bucket(w)] = row[w]]
    /\ Return(w, "ok")
    /\ UNCHANGED faults

\* Mutant: every error is tried again, a COMMIT of unknown outcome included.
FailRetries(w) ==
    /\ step[w] # "idle" /\ faults < MaxFaults
    /\ faults' = faults + 1
    /\ \/ UNCHANGED rows
       \/ step[w] = "commit" /\ rows' = [rows EXCEPT ![Bucket(w)] = row[w]]
    /\ attempt' = [attempt EXCEPT ![w] = @ + 1]
    /\ step' = [step EXCEPT ![w] = "select"]
    /\ row' = [row EXCEPT ![w] = NoRow]
    /\ holder' = [b \in Buckets |-> IF holder[b] = w THEN NoWorker ELSE holder[b]]
    /\ UNCHANGED <<outcome, event>>

\* A statement fails, the context is cancelled or the replica dies: the
\* transaction is rolled back, except that a failing COMMIT may have taken
\* effect. No such error is tried again.
Fail(w) ==
    /\ step[w] # "idle" /\ faults < MaxFaults
    /\ faults' = faults + 1
    /\ \/ UNCHANGED rows
       \/ step[w] = "commit" /\ rows' = [rows EXCEPT ![Bucket(w)] = row[w]]
    /\ Return(w, "error")

Attempt(w) ==
    \/ SelectRow(w) \/ SelectNothing(w) \/ Insert(w) \/ InsertConflict(w)
    \/ Update(w) \/ Commit(w)

Next == \E w \in Workers : (\E e \in Events : Call(w, e)) \/ Attempt(w) \/ Fail(w)

Spec == Init /\ [][Next]_vars

\* PostgreSQL answers, and grants the locks it can grant.
FairSpec == Spec /\ \A w \in Workers : WF_vars(Attempt(w))

-----------------------------------------------------------------------------
TypeOK ==
    /\ rows \in [Buckets -> Rows \cup {NoRow}]
    /\ holder \in [Buckets -> Workers \cup {NoWorker}]
    /\ outcome \in [Events -> {"new", "running", "ok", "error"}]
    /\ event \in [Workers -> Events \cup {NoEvent}]
    /\ attempt \in [Workers -> 1 .. MaxAttempts]
    /\ step \in [Workers -> {"idle", "select", "insert", "update", "commit"}]
    /\ row \in [Workers -> Rows \cup {NoRow}]
    /\ faults \in 0 .. MaxFaults

Ended(b, results) == {e \in Events : BucketOf(e) = b /\ outcome[e] \in results}

\* No update of a row is lost or made twice, whichever replicas meet on it: a
\* bucket's total covers every call that succeeded, and of the failed calls at
\* most those whose COMMIT failed.
NoLostUpdate ==
    \A b \in Buckets :
        LET total == IF rows[b] = NoRow THEN 0 ELSE rows[b].total IN
        /\ Cardinality(Ended(b, {"ok"})) <= total
        /\ total <= Cardinality(Ended(b, {"ok", "error"}))

\* What a breakdown adds up to: the number of its units.
Units(f) == UNION {{x} \X (1 .. f[x]) : x \in DOMAIN f}
Sum(f) == Cardinality(Units(f))

\* The denormalised columns of a row agree: both breakdowns add up to the
\* total, and the samples are distinct events of the bucket, as many as the
\* limit lets there be.
Agree(b, r) ==
    /\ Sum(r.bySeverity) = r.total
    /\ Sum(r.byType) = r.total
    /\ Len(r.samples) = IF r.total < SampleLimit THEN r.total ELSE SampleLimit
    /\ \A i, j \in DOMAIN r.samples : r.samples[i] = r.samples[j] => i = j
    /\ \A i \in DOMAIN r.samples : b <= Time[r.samples[i]] /\ Time[r.samples[i]] < b + Width

RowsAgree == \A b \in Buckets : rows[b] # NoRow => Agree(b, rows[b])

\* Two attempts are enough: a second attempt finds the row, because only a
\* committed row makes the first one fail its INSERT.
RetrySuffices ==
    \A w \in Workers : attempt[w] = MaxAttempts /\ step[w] # "idle" => rows[Bucket(w)] # NoRow

\* Whoever has a row waits for none: a lock is held by a call that has only its
\* UPDATE and COMMIT before it, on every path, and so no two calls wait for each
\* other and no error path of a call leaves a row locked.
HoldersGoOn ==
    \A b \in Buckets : holder[b] # NoWorker =>
        step[holder[b]] \in {"update", "commit"} /\ Bucket(holder[b]) = b

\* Every call returns: nobody waits for ever for a row's lock.
CallsReturn ==
    \A e \in Events : outcome[e] = "running" ~> outcome[e] \in {"ok", "error"}

\* Each call counts atomically, whatever the interleaving of transactions.
Ledger == INSTANCE SummaryLedger WITH
    outcome <- [e \in Events |-> IF outcome[e] \in {"new", "running"} THEN "pending" ELSE outcome[e]]
LedgerSpec == Ledger!Spec
=============================================================================
