-------------------------------- MODULE Analyze --------------------------------
(***************************************************************************)
(* POST /analyze of analyzer-svc: an answer is looked up in Redis under    *)
(* the request, or made by the model from the newest events of the         *)
(* request's time range, and cached for half an hour. Calls to the model,  *)
(* those of triage jobs included, go through one circuit breaker. Without  *)
(* a GEMINI_API_KEY the answer is a fixed text. Redis outlives the process.*)
(***************************************************************************)
EXTENDS Breaker, FiniteSets

CONSTANTS
    Events,     \* events, named by their timestamps
    Questions,  \* requests: their text, time range (as events) and max_events
    Hash,       \* Hash[q]: the first 48 bits of SHA-256 of q; requests may share one
    Clients,    \* connections, each of which asks again and again
    Jobs,       \* goroutines of triage jobs
    NoEntry,    \* the key is not in Redis
    MaxEvents,  \* ANALYZER_MAX_EVENTS
    TTL,        \* analyzeResponseTTL, in ticks
    MaxFaults   \* bound: hang-ups, failing calls to Redis, restarts, outages of the model

ASSUME EventsAssumption == Events \subseteq Nat
ASSUME QuestionsAssumption ==
    /\ Questions # {}
    /\ \A q \in Questions : q.scope \subseteq Events /\ q.limit \in Nat
    /\ DOMAIN Hash = Questions
ASSUME LimitsAssumption == MaxEvents \in Nat \ {0} /\ TTL \in Nat \ {0} /\ MaxFaults \in Nat

Callers == Clients \cup Jobs
Answers == [by : {"model", "mock"}, used : SUBSET Events]

ASSUME NoEntryAssumption == NoEntry \notin Answers

\* Mutant: the key's hash leaves the time range out.
KeyOfText(q) == q.text

\* computeAnalyzeCacheKey: twelve hex digits of the hash of the whole request.
\* What lies under a key is not compared with the request that reads it.
Key(q) == Hash[q]

Keys == {Key(q) : q \in Questions}

VARIABLES
    stored,   \* table events
    cache,    \* cache[k]: the answer under key k
    ttl,      \* ttl[k]: ticks until k expires
    keyed,    \* the process has a GEMINI_API_KEY
    healthy,  \* the model answers
    breaker,  \* genaiCircuitBreaker
    pc,       \* where a caller stands: "idle", "missed", "prompted", "calling", "answered"
    question, \* question[c]: what c asks
    answer,   \* answer[c]: the events in c's prompt, and who answered
    gone,     \* clients that hung up on the request in hand
    faults

redis == <<cache, ttl>>
request == <<question, answer>>
vars == <<stored, redis, keyed, healthy, breaker, pc, request, gone, faults>>

NoAnswer == [by |-> "mock", used |-> {}]
SomeQuestion == CHOOSE q \in Questions : TRUE

Init ==
    /\ stored = {}
    /\ cache = [k \in Keys |-> NoEntry] /\ ttl = [k \in Keys |-> 0]
    /\ keyed \in BOOLEAN /\ healthy = TRUE
    /\ breaker = Closed
    /\ pc = [c \in Callers |-> "idle"]
    /\ question = [c \in Callers |-> SomeQuestion]
    /\ answer = [c \in Callers |-> NoAnswer]
    /\ gone = {} /\ faults = 0

Fault == faults < MaxFaults /\ faults' = faults + 1

\* The request is over; what the handler held is forgotten.
Over(c) ==
    /\ pc' = [pc EXCEPT ![c] = "idle"]
    /\ question' = [question EXCEPT ![c] = SomeQuestion]
    /\ answer' = [answer EXCEPT ![c] = NoAnswer]
    /\ gone' = gone \ {c}

Goto(c, label) == pc' = [pc EXCEPT ![c] = label]

-----------------------------------------------------------------------------
(* handleAnalyze                                                           *)

\* A hit answers the request and changes nothing.
Lookup(c, q) ==
    /\ pc[c] = "idle"
    /\ IF cache[Key(q)] # NoEntry
         THEN UNCHANGED <<pc, question>>
         ELSE Goto(c, "missed") /\ question' = [question EXCEPT ![c] = q]
    /\ UNCHANGED <<stored, redis, keyed, healthy, breaker, answer, gone, faults>>

\* An error of Redis is taken for a miss.
LookupFails(c, q) ==
    /\ pc[c] = "idle"
    /\ Fault
    /\ Goto(c, "missed")
    /\ question' = [question EXCEPT ![c] = q]
    /\ UNCHANGED <<stored, redis, keyed, healthy, breaker, answer, gone>>

\* max_events counts when it is positive and no more than MaxEvents.
Limit(q) == IF q.limit \in 1 .. MaxEvents THEN q.limit ELSE MaxEvents

\* fetchEvents: the newest events of the range.
Fetched(q) == {e \in stored \cap q.scope : Cardinality({f \in stored \cap q.scope : f > e}) < Limit(q)}

Fetch(c) ==
    /\ pc[c] = "missed" /\ c \notin gone
    /\ answer' = [answer EXCEPT ![c].used = Fetched(question[c])]
    /\ Goto(c, "prompted")
    /\ UNCHANGED <<stored, redis, keyed, healthy, breaker, question, gone, faults>>

\* The query's context is cancelled with the client.
FetchFails(c) ==
    /\ pc[c] = "missed" /\ c \in gone
    /\ Over(c)
    /\ UNCHANGED <<stored, redis, keyed, healthy, breaker, faults>>

\* Mutant: the answer is cached with no time to live.
SaveForever(c) ==
    /\ pc[c] = "answered"
    /\ IF c \in gone THEN UNCHANGED redis ELSE
          /\ cache' = [cache EXCEPT ![Key(question[c])] = answer[c]]
          /\ UNCHANGED ttl
    /\ Over(c)
    /\ UNCHANGED <<stored, keyed, healthy, breaker, faults>>

\* cacheAnalyzeResponse, over whatever is there; nothing once the client has
\* gone. Then the request is answered.
Save(c) ==
    /\ pc[c] = "answered"
    /\ IF c \in gone THEN UNCHANGED redis ELSE
          /\ cache' = [cache EXCEPT ![Key(question[c])] = answer[c]]
          /\ ttl' = [ttl EXCEPT ![Key(question[c])] = TTL]
    /\ Over(c)
    /\ UNCHANGED <<stored, keyed, healthy, breaker, faults>>

SaveFails(c) ==
    /\ pc[c] = "answered"
    /\ Fault
    /\ Over(c)
    /\ UNCHANGED <<stored, redis, keyed, healthy, breaker>>

-----------------------------------------------------------------------------
(* generateContentWithSchema, called by handlers and by triage jobs        *)

\* A triage job has rendered a prompt.
Prompt(j) ==
    /\ pc[j] = "idle"
    /\ Goto(j, "prompted")
    /\ UNCHANGED <<stored, redis, keyed, healthy, breaker, request, gone, faults>>

\* A handler goes on to cache what it got, a triage job to its own business.
Got(c, by) ==
    IF c \in Clients
      THEN /\ answer' = [answer EXCEPT ![c].by = by]
           /\ Goto(c, "answered")
           /\ UNCHANGED <<question, gone>>
      ELSE Over(c)

Mock(c) ==
    /\ pc[c] = "prompted" /\ ~ keyed
    /\ Got(c, "mock")
    /\ UNCHANGED <<stored, redis, keyed, healthy, breaker, faults>>

\* Execute, with the breaker's leave and without.
Call(c) ==
    /\ pc[c] = "prompted" /\ keyed /\ Allows(breaker)
    /\ breaker' = Admit(breaker, c)
    /\ Goto(c, "calling")
    /\ UNCHANGED <<stored, redis, keyed, healthy, request, gone, faults>>

Refused(c) ==
    /\ pc[c] = "prompted" /\ keyed /\ ~ Allows(breaker)
    /\ Over(c)
    /\ UNCHANGED <<stored, redis, keyed, healthy, breaker, faults>>

Return(c) ==
    /\ pc[c] = "calling" /\ healthy
    /\ breaker' = Succeed(breaker, c)
    /\ Got(c, "model")
    /\ UNCHANGED <<stored, redis, keyed, healthy, faults>>

\* Mutant: a call whose client has gone is left without telling the breaker.
CallFailsUntold(c) ==
    /\ pc[c] = "calling" /\ (~ healthy \/ c \in gone)
    /\ breaker' = IF c \in gone THEN breaker ELSE FailCall(breaker, c)
    /\ Over(c)
    /\ UNCHANGED <<stored, redis, keyed, healthy, faults>>

\* The model's error, or the context's that ends with the client: the breaker
\* counts either.
CallFails(c) ==
    /\ pc[c] = "calling" /\ (~ healthy \/ c \in gone)
    /\ breaker' = FailCall(breaker, c)
    /\ Over(c)
    /\ UNCHANGED <<stored, redis, keyed, healthy, faults>>

-----------------------------------------------------------------------------
(* The surroundings                                                        *)

\* processor-svc stores an event.
Store(e) ==
    /\ e \notin stored
    /\ stored' = stored \cup {e}
    /\ UNCHANGED <<redis, keyed, healthy, breaker, pc, request, gone, faults>>

HangUp(c) ==
    /\ pc[c] # "idle" /\ c \notin gone
    /\ Fault
    /\ gone' = gone \cup {c}
    /\ UNCHANGED <<stored, redis, keyed, healthy, breaker, pc, request>>

\* The process is started anew, perhaps with the key it did not have.
Restart ==
    /\ Fault
    /\ keyed' \in {keyed, TRUE}
    /\ breaker' = Closed
    /\ pc' = [c \in Callers |-> "idle"]
    /\ question' = [c \in Callers |-> SomeQuestion]
    /\ answer' = [c \in Callers |-> NoAnswer]
    /\ gone' = {}
    /\ UNCHANGED <<stored, redis, healthy>>

FallIll ==
    /\ healthy
    /\ Fault
    /\ healthy' = FALSE
    /\ UNCHANGED <<stored, redis, keyed, breaker, pc, request, gone>>

Recover ==
    /\ ~ healthy
    /\ healthy' = TRUE
    /\ UNCHANGED <<stored, redis, keyed, breaker, pc, request, gone, faults>>

Tick ==
    /\ breaker.left > 0 \/ \E k \in Keys : ttl[k] > 0
    /\ ttl' = [k \in Keys |-> IF ttl[k] > 0 THEN ttl[k] - 1 ELSE 0]
    /\ cache' = [k \in Keys |-> IF ttl[k] = 1 THEN NoEntry ELSE cache[k]]
    /\ breaker' = Elapse(breaker)
    /\ UNCHANGED <<stored, keyed, healthy, pc, request, gone, faults>>

Handler(c) ==
    \/ \E q \in Questions : Lookup(c, q) \/ LookupFails(c, q)
    \/ Fetch(c) \/ FetchFails(c) \/ Save(c) \/ SaveFails(c) \/ HangUp(c)

Generate(c) == Mock(c) \/ Call(c) \/ Refused(c) \/ Return(c) \/ CallFails(c)

Next ==
    \/ \E c \in Clients : Handler(c)
    \/ \E j \in Jobs : Prompt(j)
    \/ \E c \in Callers : Generate(c)
    \/ \E e \in Events : Store(e)
    \/ Restart \/ FallIll \/ Recover \/ Tick

Spec == Init /\ [][Next]_vars

\* Time passes. Nothing else has to happen: clients need not ask, nor does a
\* call to the model have to return, as the code gives it no timeout.
FairSpec == Spec /\ WF_vars(Tick)

-----------------------------------------------------------------------------
TypeOK ==
    /\ stored \subseteq Events
    /\ cache \in [Keys -> Answers \cup {NoEntry}] /\ ttl \in [Keys -> 0 .. TTL]
    /\ \A k \in Keys : ttl[k] = 0 <=> cache[k] = NoEntry
    /\ {keyed, healthy} \subseteq BOOLEAN
    /\ breaker \in Breakers(Callers)
    /\ pc \in [Callers -> {"idle", "missed", "prompted", "calling", "answered"}]
    /\ question \in [Callers -> Questions] /\ answer \in [Callers -> Answers]
    /\ gone \subseteq Clients /\ faults \in 0 .. MaxFaults

\* The events may stand in an answer to q.
Belongs(used, q) == used \subseteq stored \cap q.scope /\ Cardinality(used) <= Limit(q)

\* The requests that share q's entry, q among them.
Alike(q) == {r \in Questions : Hash[r] = Hash[q]}

\* README.md:37: an answer that a request gets from the cache was made for that
\* request, or for one whose hash has the same 48 bits: from events of its time
\* range, no more of them than it allows.
CachedBelongs ==
    \A q \in Questions : cache[Key(q)] # NoEntry =>
        \E r \in Alike(q) : Belongs(cache[Key(q)].used, r)

\* The breaker waits for nobody but callers that are at the model, and probes
\* it with one call at a time, though calls end in failures, hang-ups and late
\* results from before it opened: a probe it would wait for in vain keeps it
\* half-open, and refuses every call, for good.
BreakerAwaitsCalls ==
    /\ \A c \in breaker.current : pc[c] = "calling"
    /\ breaker.state = "halfOpen" => \A c, d \in breaker.current : c = d
    /\ breaker.state = "open" <=> breaker.left > 0

\* Staleness ends: once no more events come, what is cached is what the model
\* says of the newest events that the request, or one with its hash, asks for,
\* and the text that stands in for the model goes once there is a key; although
\* answers are kept without regard to either, a slow old answer overwrites a
\* newer one, and a restart keeps them all.
CacheCatchesUp ==
    <>[](\A q \in Questions : cache[Key(q)] # NoEntry =>
            /\ \E r \in Alike(q) : cache[Key(q)].used = Fetched(r)
            /\ keyed => cache[Key(q)].by = "model")

\* The breaker does not outlast the trouble: if the model recovers for good,
\* every call returns and callers keep coming, it closes for good; also when
\* the one call it lets through to probe the model loses its client.
BreakerRecovers ==
    /\ \A c \in Callers : []<>(pc[c] # "calling")
    /\ []<><<\E c \in Callers : Call(c) \/ Refused(c)>>_vars
    /\ <>[]healthy
    => <>[](breaker.state = "closed")
=============================================================================
