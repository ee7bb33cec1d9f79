----------------------------- MODULE AnalyzeProofs -----------------------------
(***************************************************************************)
(* What POST /analyze keeps true for all requests, events and limits, with *)
(* any number of clients and triage jobs: a cached answer belongs to a     *)
(* request of its key, and the breaker waits only for calls that are made. *)
(***************************************************************************)
EXTENDS Analyze, FiniteSetTheorems, FunctionTheorems, TLAPS

\* What a handler has in hand belongs to the request it works on; the rows of
\* a query can be counted.
AnswersInv ==
    /\ IsFiniteSet(stored)
    /\ CachedBelongs
    /\ \A c \in Callers : Belongs(answer[c].used, question[c])
    /\ \A c \in Callers : pc[c] \in {"idle", "missed"} => answer[c] = NoAnswer

AnalyzeInv == TypeOK /\ AnswersInv /\ BreakerAwaitsCalls

LEMMA SomeQuestionIs == SomeQuestion \in Questions
  BY QuestionsAssumption DEF SomeQuestion

LEMMA NoAnswerIs == NoAnswer \in Answers
  BY DEF NoAnswer, Answers

LEMMA LimitIs == ASSUME NEW q \in Questions PROVE Limit(q) \in Nat \ {0}
  BY LimitsAssumption, QuestionsAssumption DEF Limit

LEMMA ClosedIs == Closed \in Breakers(Callers)
  BY BreakerAssumption DEF Closed, Breakers

LEMMA OpenedIs == Opened \in Breakers(Callers)
  BY BreakerAssumption DEF Opened, Breakers

LEMMA HalfOpenIs == HalfOpen \in Breakers(Callers)
  BY BreakerAssumption DEF HalfOpen, Breakers

-----------------------------------------------------------------------------
(* The breaker.                                                              *)

\* A breaker is its four fields.
LEMMA BreakerIs ==
    ASSUME NEW b \in Breakers(Callers)
    PROVE  b.failures \in 0 .. MaxFailures /\ b.current \subseteq Callers
  BY DEF Breakers

LEMMA BreakerSet ==
    ASSUME NEW b \in Breakers(Callers), NEW n \in 0 .. MaxFailures, NEW S \in SUBSET Callers
    PROVE  [b EXCEPT !.failures = n, !.current = S] \in Breakers(Callers)
  BY DEF Breakers

LEMMA BreakerTyped ==
    ASSUME NEW b \in Breakers(Callers), NEW c \in Callers
    PROVE  /\ Admit(b, c) \in Breakers(Callers)
           /\ Succeed(b, c) \in Breakers(Callers)
           /\ FailCall(b, c) \in Breakers(Callers)
  <1>1. Admit(b, c) \in Breakers(Callers)
    BY DEF Admit, Breakers
  <1>2. Succeed(b, c) \in Breakers(Callers)
    <2>1. [b EXCEPT !.failures = 0, !.current = @ \ {c}] \in Breakers(Callers)
      <3>1. 0 \in 0 .. MaxFailures /\ b.current \ {c} \in SUBSET Callers
        BY BreakerIs, BreakerAssumption
      <3> QED BY <3>1, BreakerSet
    <2> QED BY <2>1, ClosedIs DEF Succeed
  <1>3. FailCall(b, c) \in Breakers(Callers)
    <2>1. CASE b.failures # MaxFailures
      <3>1. [b EXCEPT !.failures = @ + 1, !.current = @ \ {c}] \in Breakers(Callers)
        <4>1. b.failures + 1 \in 0 .. MaxFailures /\ b.current \ {c} \in SUBSET Callers
          BY <2>1, BreakerIs, BreakerAssumption
        <4> QED BY <4>1, BreakerSet
      <3> QED BY <2>1, <3>1, OpenedIs DEF FailCall
    <2>2. CASE b.failures = MaxFailures
      BY <2>2, OpenedIs DEF FailCall
    <2> QED BY <2>1, <2>2
  <1> QED BY <1>1, <1>2, <1>3

LEMMA ElapseTyped ==
    ASSUME NEW b \in Breakers(Callers)
    PROVE  Elapse(b) \in Breakers(Callers)
  <1>1. CASE b.left \in {0, 1}
    BY <1>1, HalfOpenIs DEF Elapse
  <1>2. CASE b.left \notin {0, 1}
    <2>1. [b EXCEPT !.left = @ - 1] \in Breakers(Callers)
      BY <1>2, BreakerAssumption DEF Breakers
    <2> QED BY <1>2, <2>1 DEF Elapse
  <1> QED BY <1>1, <1>2

\* What BreakerAwaitsCalls says of a breaker, given who is at the model.
Awaits(b, calling) ==
    /\ b.current \subseteq calling
    /\ b.state = "halfOpen" => \A c, d \in b.current : c = d
    /\ b.state = "open" <=> b.left > 0

Calling == {c \in Callers : pc[c] = "calling"}

LEMMA AwaitsIs == TypeOK => (BreakerAwaitsCalls <=> Awaits(breaker, Calling))
  BY DEF TypeOK, Breakers, BreakerAwaitsCalls, Awaits, Calling

\* A fresh breaker, an open one and one about to probe wait for nobody.
LEMMA NewAwaits ==
    ASSUME NEW calling
    PROVE  Awaits(Closed, calling) /\ Awaits(Opened, calling) /\ Awaits(HalfOpen, calling)
  BY BreakerAssumption DEF Awaits, Closed, Opened, HalfOpen

\* A call that is let through is made; one that is over is no longer awaited.
LEMMA AdmitAwaits ==
    ASSUME NEW b \in Breakers(Callers), NEW calling, NEW c \in Callers,
           Awaits(b, calling), Allows(b)
    PROVE  Awaits(Admit(b, c), calling \cup {c})
  BY DEF Breakers, Awaits, Allows, Admit

LEMMA OverAwaits ==
    ASSUME NEW b \in Breakers(Callers), NEW calling, NEW c \in Callers, Awaits(b, calling)
    PROVE  Awaits(Succeed(b, c), calling \ {c}) /\ Awaits(FailCall(b, c), calling \ {c})
  <1>1. c \notin b.current => Awaits(b, calling \ {c})
    BY DEF Awaits
  <1>2. Awaits([b EXCEPT !.failures = 0, !.current = @ \ {c}], calling \ {c})
    BY DEF Awaits, Breakers
  <1>3. Awaits([b EXCEPT !.failures = @ + 1, !.current = @ \ {c}], calling \ {c})
    BY DEF Awaits, Breakers
  <1> QED BY <1>1, <1>2, <1>3, NewAwaits DEF Succeed, FailCall

LEMMA ElapseAwaits ==
    ASSUME NEW b \in Breakers(Callers), NEW calling, Awaits(b, calling)
    PROVE  Awaits(Elapse(b), calling)
  <1>1. CASE b.left \in {0, 1}
    BY <1>1, NewAwaits DEF Elapse
  <1>2. CASE b.left \notin {0, 1}
    <2>1. Awaits([b EXCEPT !.left = @ - 1], calling)
      BY <1>2, BreakerAssumption DEF Awaits, Breakers
    <2> QED BY <1>2, <2>1 DEF Elapse
  <1> QED BY <1>1, <1>2

-----------------------------------------------------------------------------
(* The newest events.                                                        *)

\* The newest limit elements of a set are limit at most: no two of them have
\* the same number of newer ones.
LEMMA NewestAreFew ==
    ASSUME NEW S, S \subseteq Nat, IsFiniteSet(S), NEW limit \in Nat
    PROVE  LET T == {e \in S : Cardinality({f \in S : f > e}) < limit} IN
           IsFiniteSet(T) /\ Cardinality(T) <= limit
  <1> DEFINE newer(e) == {f \in S : f > e}
             T == {e \in S : Cardinality(newer(e)) < limit}
             rank == [e \in T |-> Cardinality(newer(e))]
  <1>1. ASSUME NEW e \in S PROVE IsFiniteSet(newer(e)) /\ Cardinality(newer(e)) \in Nat
    <2>1. newer(e) \in SUBSET S
      OBVIOUS
    <2>2. IsFiniteSet(newer(e))
      BY <2>1, FS_Subset
    <2> QED BY <2>2, FS_CardinalityType
  <1>2. ASSUME NEW e \in S, NEW f \in S, e < f
        PROVE  Cardinality(newer(e)) # Cardinality(newer(f))
    <2>1. newer(f) \in SUBSET newer(e) /\ f \in newer(e) /\ f \notin newer(f)
      <3>1. \A x \in S : x \in Nat /\ (x > f => x > e)
        BY <1>2
      <3>2. newer(f) \in SUBSET newer(e)
        BY <3>1
      <3>3. f \in newer(e) /\ f \notin newer(f)
        BY <1>2, <3>1
      <3> HIDE DEF newer
      <3> QED BY <3>2, <3>3
    <2>2. IsFiniteSet(newer(e))
      BY <1>1
    <2>3. Cardinality(newer(e)) = Cardinality(newer(f)) => newer(e) = newer(f)
      <3> HIDE DEF newer
      <3> QED BY <2>1, <2>2, FS_Subset
    <2> QED BY <2>1, <2>3
  <1>3. rank \in [T -> 0 .. limit - 1]
    <2>1. ASSUME NEW e \in T PROVE Cardinality(newer(e)) \in 0 .. limit - 1
      <3>1. Cardinality(newer(e)) \in Nat /\ Cardinality(newer(e)) < limit
        BY <1>1
      <3> HIDE DEF newer
      <3> QED BY <3>1
    <2> HIDE DEF newer
    <2> QED BY <2>1
  <1>4. \A e, f \in T : rank[e] = rank[f] => e = f
    <2>1. SUFFICES ASSUME NEW e \in T, NEW f \in T, e # f PROVE rank[e] # rank[f]
      OBVIOUS
    <2>2. e \in Nat /\ f \in Nat /\ e \in S /\ f \in S
      OBVIOUS
    <2>3. e < f \/ f < e
      BY <2>1, <2>2
    <2>4. rank[e] = Cardinality(newer(e)) /\ rank[f] = Cardinality(newer(f))
      OBVIOUS
    <2> HIDE DEF newer, rank
    <2> QED BY <1>2, <2>2, <2>3, <2>4
  <1> HIDE DEF rank
  <1>5. rank \in Injection(T, 0 .. limit - 1)
    BY <1>3, <1>4, Fun_IsInj
  <1>6. IsFiniteSet(0 .. limit - 1) /\ Cardinality(0 .. limit - 1) = limit
    BY FS_Interval
  <1>7. IsFiniteSet(T) /\ Cardinality(T) <= limit
    BY <1>5, <1>6, FS_Injection
  <1> QED BY <1>7

LEMMA FetchedBelongs ==
    ASSUME stored \subseteq Events, IsFiniteSet(stored), NEW q \in Questions
    PROVE  Belongs(Fetched(q), q)
  <1> DEFINE S == stored \cap q.scope
  <1>1. S \subseteq Nat /\ IsFiniteSet(S) /\ Limit(q) \in Nat
    BY FS_Subset, EventsAssumption, LimitIs
  <1> HIDE DEF S
  <1>2. Cardinality({e \in S : Cardinality({f \in S : f > e}) < Limit(q)}) <= Limit(q)
    BY <1>1, NewestAreFew
  <1> QED BY <1>2 DEF S, Belongs, Fetched

\* Nothing was put before the model yet.
LEMMA NothingBelongs == ASSUME NEW q \in Questions PROVE Belongs(NoAnswer.used, q)
  BY LimitIs, FS_EmptySet DEF Belongs, NoAnswer

\* What belongs stays: no event is ever deleted.
LEMMA BelongsFrame ==
    ASSUME NEW used, NEW q, Belongs(used, q), stored \subseteq stored'
    PROVE  Belongs(used, q)'
  BY DEF Belongs, Limit

\* A request shares its entry with itself at least.
LEMMA AlikeIs == ASSUME NEW q \in Questions PROVE q \in Alike(q)
  BY DEF Alike

\* A step that deletes no event, and after which each entry is an old one or
\* belongs to a request of its key.
LEMMA CachedStep ==
    ASSUME stored \subseteq stored',
           ASSUME NEW q \in Questions, cache'[Key(q)] # NoEntry
           PROVE  \E r \in Alike(q) : Belongs(cache'[Key(q)].used, r)
    PROVE  CachedBelongs'
  <1>1. \A used, r : Belongs(used, r) => Belongs(used, r)'
    BY BelongsFrame
  <1>2. ASSUME NEW q \in Questions, cache'[Key(q)] # NoEntry
        PROVE  \E r \in Alike(q) : Belongs(cache[Key(q)].used, r)'
    BY <1>1, <1>2 DEF Belongs, Limit
  <1> QED BY <1>2 DEF CachedBelongs, Alike, Key
-----------------------------------------------------------------------------
(* The steps.                                                                *)

LEMMA TypeInit == Init => TypeOK
  <1> SUFFICES ASSUME Init PROVE TypeOK
    OBVIOUS
  <1>1. /\ stored \subseteq Events /\ {keyed, healthy} \subseteq BOOLEAN
        /\ gone \subseteq Clients /\ faults \in 0 .. MaxFaults
    BY LimitsAssumption DEF Init
  <1>2. /\ cache \in [Keys -> Answers \cup {NoEntry}] /\ ttl \in [Keys -> 0 .. TTL]
        /\ \A k \in Keys : ttl[k] = 0 <=> cache[k] = NoEntry
    BY LimitsAssumption DEF Init
  <1>3. breaker \in Breakers(Callers)
    BY ClosedIs DEF Init
  <1>4. question \in [Callers -> Questions] /\ answer \in [Callers -> Answers]
        /\ pc \in [Callers -> {"idle", "missed", "prompted", "calling", "answered"}]
    BY SomeQuestionIs, NoAnswerIs DEF Init
  <1> QED BY <1>1, <1>2, <1>3, <1>4 DEF TypeOK

LEMMA InvInit == Init => AnalyzeInv
  <1> SUFFICES ASSUME Init PROVE AnalyzeInv
    OBVIOUS
  <1>1. TypeOK
    BY TypeInit
  <1>2. AnswersInv
    <2>1. ASSUME NEW c \in Callers PROVE Belongs(answer[c].used, question[c])
      <3>1. answer[c] = NoAnswer /\ question[c] = SomeQuestion
        BY DEF Init
      <3> QED BY <3>1, NothingBelongs, SomeQuestionIs
    <2>2. CachedBelongs
      BY DEF Init, CachedBelongs, Keys
    <2> QED BY <2>1, <2>2, FS_EmptySet DEF Init, AnswersInv
  <1>3. BreakerAwaitsCalls
    BY DEF Init, BreakerAwaitsCalls, Closed
  <1> QED BY <1>1, <1>2, <1>3 DEF AnalyzeInv

\* A step that deletes nothing, and leaves what callers other than c have in
\* hand alone.
LEMMA AnswersStep ==
    ASSUME TypeOK, AnswersInv, NEW c \in Callers,
           stored' = stored, cache' = cache,
           \A d \in Callers : d # c =>
               question'[d] = question[d] /\ answer'[d] = answer[d] /\ pc'[d] = pc[d],
           Belongs(answer'[c].used, question'[c]),
           pc'[c] \in {"idle", "missed"} => answer'[c] = NoAnswer
    PROVE  AnswersInv'
  <1>1. \A used, q : Belongs(used, q)' <=> Belongs(used, q)
    BY DEF Belongs, Limit
  <1>2. CachedBelongs'
    BY <1>1 DEF AnswersInv, CachedBelongs
  <1>3. ASSUME NEW d \in Callers PROVE Belongs(answer[d].used, question[d])'
    BY <1>1 DEF AnswersInv, Belongs, Limit
  <1> QED BY <1>2, <1>3 DEF AnswersInv
\* The breaker stays as it is, and no call is over.
LEMMA AwaitsStep ==
    ASSUME BreakerAwaitsCalls, breaker' = breaker,
           \A d \in breaker.current : pc[d] = "calling" => pc'[d] = "calling"
    PROVE  BreakerAwaitsCalls'
  BY DEF BreakerAwaitsCalls

Labels == {"idle", "missed", "prompted", "calling", "answered"}

\* What callers have in hand is of the right kind.
HandsOK ==
    /\ pc \in [Callers -> Labels] /\ question \in [Callers -> Questions]
    /\ answer \in [Callers -> Answers] /\ gone \subseteq Clients

\* All but c keep what they have in hand.
OnlyBy(c) == \A d \in Callers : d # c =>
    question'[d] = question[d] /\ answer'[d] = answer[d] /\ pc'[d] = pc[d]

LEMMA OverIs ==
    ASSUME TypeOK, NEW c \in Callers, Over(c)
    PROVE  /\ HandsOK' /\ OnlyBy(c)
           /\ pc'[c] = "idle" /\ answer'[c] = NoAnswer /\ question'[c] = SomeQuestion
  BY SomeQuestionIs, NoAnswerIs DEF TypeOK, Over, HandsOK, Labels, OnlyBy

LEMMA GotoIs ==
    ASSUME TypeOK, NEW c \in Callers, NEW label \in Labels, Goto(c, label)
    PROVE  /\ pc' \in [Callers -> Labels] /\ pc'[c] = label
           /\ \A d \in Callers : d # c => pc'[d] = pc[d]
  BY DEF TypeOK, Goto, Labels

LEMMA FaultTyped ==
    ASSUME TypeOK, Fault
    PROVE  faults' \in 0 .. MaxFaults
  BY LimitsAssumption DEF TypeOK, Fault

\* A request that is over leaves nothing in hand.
LEMMA OverAnswers ==
    ASSUME TypeOK, AnswersInv, NEW c \in Callers, Over(c), stored' = stored, cache' = cache
    PROVE  AnswersInv'
  <1>1. OnlyBy(c) /\ answer'[c] = NoAnswer /\ question'[c] = SomeQuestion
    BY OverIs
  <1>2. Belongs(answer'[c].used, question'[c])
    BY <1>1, NothingBelongs, SomeQuestionIs
  <1> QED BY <1>1, <1>2, AnswersStep DEF OnlyBy

\* The prompt's events stay what they were when the model's text comes in.
LEMMA GotIs ==
    ASSUME TypeOK, AnswersInv, NEW c \in Callers, NEW by \in {"model", "mock"}, Got(c, by),
           stored' = stored, cache' = cache
    PROVE  HandsOK' /\ OnlyBy(c) /\ AnswersInv' /\ pc'[c] # "calling"
  <1>1. CASE c \notin Clients
    <2>1. Over(c)
      BY <1>1 DEF Got
    <2> QED BY <2>1, OverIs, OverAnswers
  <1>2. CASE c \in Clients
    <2>1. /\ answer' = [answer EXCEPT ![c].by = by] /\ Goto(c, "answered")
          /\ question' = question /\ gone' = gone
      BY <1>2 DEF Got
    <2>2. pc' \in [Callers -> Labels] /\ pc'[c] = "answered"
          /\ \A d \in Callers : d # c => pc'[d] = pc[d]
      BY <2>1, GotoIs DEF Labels
    <2>3. answer \in [Callers -> Answers] /\ answer[c] \in Answers
      BY DEF TypeOK
    <2>4. [answer[c] EXCEPT !.by = by] \in Answers /\ [answer[c] EXCEPT !.by = by].used = answer[c].used
      BY <2>3 DEF Answers
    <2>5. answer' = [answer EXCEPT ![c] = [answer[c] EXCEPT !.by = by]]
      BY <2>1
    <2>6. answer' \in [Callers -> Answers] /\ answer'[c].used = answer[c].used
          /\ \A d \in Callers : d # c => answer'[d] = answer[d]
      BY <2>3, <2>4, <2>5
    <2>7. HandsOK' /\ OnlyBy(c)
      BY <2>1, <2>2, <2>6 DEF TypeOK, HandsOK, OnlyBy
    <2>8. Belongs(answer'[c].used, question'[c])
      BY <2>1, <2>6 DEF AnswersInv
    <2>9. AnswersInv'
      BY <2>2, <2>7, <2>8, AnswersStep DEF OnlyBy
    <2> QED BY <2>2, <2>7, <2>9
  <1> QED BY <1>1, <1>2
RedisOK ==
    /\ cache \in [Keys -> Answers \cup {NoEntry}] /\ ttl \in [Keys -> 0 .. TTL]
    /\ \A k \in Keys : ttl[k] = 0 <=> cache[k] = NoEntry

LEMMA TypeParts ==
    TypeOK <=> /\ stored \subseteq Events /\ RedisOK /\ keyed \in BOOLEAN /\ healthy \in BOOLEAN
               /\ breaker \in Breakers(Callers) /\ HandsOK /\ faults \in 0 .. MaxFaults
  BY DEF TypeOK, RedisOK, HandsOK, Labels

LEMMA TypeStep ==
    ASSUME stored' \subseteq Events, RedisOK', keyed' \in BOOLEAN, healthy' \in BOOLEAN,
           breaker' \in Breakers(Callers), HandsOK', faults' \in 0 .. MaxFaults
    PROVE  TypeOK'
  BY DEF TypeOK, RedisOK, HandsOK, Labels

\* A step that leaves everything but what is in hand alone.
LEMMA HandStep ==
    ASSUME AnalyzeInv, NEW c \in Callers, HandsOK', OnlyBy(c), AnswersInv',
           stored' = stored, cache' = cache, ttl' = ttl, keyed' = keyed, healthy' = healthy,
           breaker' = breaker, faults' \in 0 .. MaxFaults, pc[c] # "calling"
    PROVE  AnalyzeInv'
  <1>1. TypeOK'
    <2>1. RedisOK'
      BY TypeParts DEF AnalyzeInv, RedisOK
    <2> QED BY <2>1, TypeStep, TypeParts DEF AnalyzeInv
  <1>2. BreakerAwaitsCalls'
    <2>1. breaker.current \subseteq Callers
      BY BreakerIs DEF AnalyzeInv, TypeOK
    <2> QED BY <2>1, AwaitsStep DEF AnalyzeInv, OnlyBy
  <1> QED BY <1>1, <1>2 DEF AnalyzeInv

LEMMA StepLookup ==
    ASSUME AnalyzeInv, NEW c \in Clients, NEW q \in Questions, Lookup(c, q) \/ LookupFails(c, q)
    PROVE  AnalyzeInv'
  <1> USE DEF AnalyzeInv
  <1>1. /\ c \in Callers /\ pc[c] = "idle" /\ answer' = answer /\ gone' = gone /\ stored' = stored
        /\ cache' = cache /\ ttl' = ttl /\ keyed' = keyed /\ healthy' = healthy /\ breaker' = breaker
    BY DEF Lookup, LookupFails, redis, Callers
  <1>2. faults' \in 0 .. MaxFaults
    BY FaultTyped, TypeParts DEF Lookup, LookupFails
  <1>3. CASE pc' = pc /\ question' = question
    <2>1. HandsOK' /\ OnlyBy(c)
      BY <1>1, <1>3 DEF TypeOK, HandsOK, Labels, OnlyBy
    <2>2. AnswersInv'
      BY <1>1, <1>3, AnswersStep DEF AnswersInv
    <2> QED BY <1>1, <1>2, <2>1, <2>2, HandStep
  <1>4. CASE Goto(c, "missed") /\ question' = [question EXCEPT ![c] = q]
    <2>1. pc' \in [Callers -> Labels] /\ pc'[c] = "missed" /\ \A d \in Callers : d # c => pc'[d] = pc[d]
      BY <1>1, <1>4, GotoIs DEF Labels
    <2>2. question' \in [Callers -> Questions] /\ question'[c] = q
          /\ \A d \in Callers : d # c => question'[d] = question[d]
      BY <1>1, <1>4 DEF TypeOK
    <2>3. HandsOK' /\ OnlyBy(c)
      BY <1>1, <2>1, <2>2 DEF TypeOK, HandsOK, OnlyBy
    <2>4. answer'[c] = NoAnswer
      BY <1>1 DEF AnswersInv
    <2>5. AnswersInv'
      BY <1>1, <2>2, <2>3, <2>4, NothingBelongs, AnswersStep DEF OnlyBy
    <2> QED BY <1>1, <1>2, <2>3, <2>5, HandStep
  <1> QED BY <1>3, <1>4 DEF Lookup, LookupFails

LEMMA StepFetch ==
    ASSUME AnalyzeInv, NEW c \in Clients, Fetch(c)
    PROVE  AnalyzeInv'
  <1> USE DEF AnalyzeInv
  <1>1. /\ c \in Callers /\ pc[c] = "missed" /\ question' = question /\ gone' = gone /\ stored' = stored
        /\ cache' = cache /\ ttl' = ttl /\ keyed' = keyed /\ healthy' = healthy /\ breaker' = breaker
        /\ faults' = faults /\ answer' = [answer EXCEPT ![c].used = Fetched(question[c])]
        /\ Goto(c, "prompted")
    BY DEF Fetch, redis, Callers
  <1>2. pc' \in [Callers -> Labels] /\ pc'[c] = "prompted" /\ \A d \in Callers : d # c => pc'[d] = pc[d]
    BY <1>1, GotoIs DEF Labels
  <1>3. Belongs(Fetched(question[c]), question[c]) /\ Fetched(question[c]) \subseteq Events
    <2>1. Belongs(Fetched(question[c]), question[c])
      BY <1>1, FetchedBelongs DEF TypeOK, AnswersInv
    <2> QED BY <2>1 DEF Belongs, TypeOK
  <1> DEFINE new == [answer[c] EXCEPT !.used = Fetched(question[c])]
  <1>4. new \in Answers /\ new.used = Fetched(question[c])
    <2>1. answer[c] \in Answers
      BY <1>1 DEF TypeOK
    <2> QED BY <1>3, <2>1 DEF Answers
  <1>5. answer' = [answer EXCEPT ![c] = new]
    BY <1>1
  <1> HIDE DEF new
  <1>6. answer' \in [Callers -> Answers] /\ answer'[c].used = Fetched(question[c])
        /\ \A d \in Callers : d # c => answer'[d] = answer[d]
    BY <1>1, <1>4, <1>5 DEF TypeOK
  <1>7. HandsOK' /\ OnlyBy(c)
    BY <1>1, <1>2, <1>6 DEF TypeOK, HandsOK, OnlyBy
  <1>8. AnswersInv'
    BY <1>1, <1>2, <1>3, <1>6, <1>7, AnswersStep DEF OnlyBy
  <1>9. faults' \in 0 .. MaxFaults
    BY <1>1 DEF TypeOK
  <1> QED BY <1>1, <1>7, <1>8, <1>9, HandStep

\* A request that ends without a call being made.
LEMMA StepOver ==
    ASSUME AnalyzeInv, NEW c \in Callers, Over(c), pc[c] # "calling",
           stored' = stored, cache' = cache, ttl' = ttl, keyed' = keyed, healthy' = healthy,
           breaker' = breaker, faults' \in 0 .. MaxFaults
    PROVE  AnalyzeInv'
  BY OverIs, OverAnswers, HandStep DEF AnalyzeInv

\* The answer that is saved belongs to the request it is saved under.
LEMMA StepSave ==
    ASSUME AnalyzeInv, NEW c \in Clients, Save(c)
    PROVE  AnalyzeInv'
  <1> USE DEF AnalyzeInv
  <1>1. /\ c \in Callers /\ pc[c] = "answered" /\ Over(c) /\ stored' = stored
        /\ keyed' = keyed /\ healthy' = healthy /\ breaker' = breaker /\ faults' = faults
    BY DEF Save, Callers
  <1>2. CASE c \in gone
    <2>1. cache' = cache /\ ttl' = ttl
      BY <1>2 DEF Save, redis
    <2> QED BY <1>1, <2>1, StepOver DEF TypeOK
  <1>3. CASE c \notin gone
    <2> DEFINE q == question[c]
               a == answer[c]
    <2>1. /\ q \in Questions /\ Key(q) \in Keys /\ a \in Answers /\ Belongs(a.used, q)
          /\ cache' = [cache EXCEPT ![Key(q)] = a] /\ ttl' = [ttl EXCEPT ![Key(q)] = TTL]
      BY <1>1, <1>3 DEF Save, Keys, TypeOK, AnswersInv
    <2> HIDE DEF q, a
    <2>2. RedisOK'
      BY <2>1, LimitsAssumption, NoEntryAssumption DEF TypeOK, RedisOK
    <2>3. HandsOK' /\ OnlyBy(c) /\ answer'[c] = NoAnswer /\ question'[c] = SomeQuestion
          /\ pc'[c] = "idle"
      BY <1>1, OverIs
    <2>4. TypeOK'
      BY <1>1, <2>2, <2>3, TypeStep, TypeParts
    <2>5. \A used, r : Belongs(used, r)' <=> Belongs(used, r)
      BY <1>1 DEF Belongs, Limit
    <2>6. ASSUME NEW r \in Questions, cache'[Key(r)] # NoEntry
          PROVE  \E s \in Alike(r) : Belongs(cache'[Key(r)].used, s)
      <3>1. Key(r) \in Keys
        BY DEF Keys
      <3>2. CASE Key(r) = Key(q)
        <4>1. q \in Alike(r) /\ cache'[Key(r)] = a
          BY <2>1, <3>1, <3>2 DEF Alike, Key, TypeOK
        <4> QED BY <2>1, <4>1
      <3>3. CASE Key(r) # Key(q)
        <4>1. cache'[Key(r)] = cache[Key(r)]
          BY <2>1, <3>1, <3>3 DEF TypeOK
        <4> QED BY <2>6, <4>1 DEF AnswersInv, CachedBelongs
      <3> QED BY <3>2, <3>3
    <2>7. CachedBelongs'
      BY <1>1, <2>6, CachedStep
    <2>8. ASSUME NEW d \in Callers PROVE Belongs(answer[d].used, question[d])'
      <3>1. Belongs(answer'[d].used, question'[d])
        BY <2>3, NothingBelongs, SomeQuestionIs DEF OnlyBy, AnswersInv
      <3> QED BY <1>1, <3>1 DEF Belongs, Limit
    <2>9. AnswersInv'
      BY <1>1, <2>3, <2>7, <2>8 DEF AnswersInv, OnlyBy
    <2>10. BreakerAwaitsCalls'
      <3>1. breaker.current \subseteq Callers
        BY BreakerIs DEF TypeOK
      <3> QED BY <1>1, <2>3, <3>1, AwaitsStep DEF OnlyBy
    <2> QED BY <2>4, <2>9, <2>10
  <1> QED BY <1>2, <1>3
LEMMA StepHangUp ==
    ASSUME AnalyzeInv, NEW c \in Clients, HangUp(c)
    PROVE  AnalyzeInv'
  <1> USE DEF AnalyzeInv
  <1>1. /\ stored' = stored /\ cache' = cache /\ ttl' = ttl /\ keyed' = keyed /\ healthy' = healthy
        /\ breaker' = breaker /\ pc' = pc /\ question' = question /\ answer' = answer
        /\ gone' = gone \cup {c}
    BY DEF HangUp, redis, request
  <1>2. faults' \in 0 .. MaxFaults
    BY FaultTyped DEF HangUp
  <1>3. HandsOK' /\ RedisOK'
    BY <1>1 DEF TypeOK, HandsOK, RedisOK, Labels
  <1>4. TypeOK'
    BY <1>1, <1>2, <1>3, TypeStep, TypeParts
  <1>5. AnswersInv'
    BY <1>1 DEF AnswersInv, CachedBelongs, Belongs, Limit
  <1>6. BreakerAwaitsCalls'
    BY <1>1 DEF BreakerAwaitsCalls
  <1> QED BY <1>4, <1>5, <1>6

LEMMA StepHandler ==
    ASSUME AnalyzeInv, NEW c \in Clients, Handler(c)
    PROVE  AnalyzeInv'
  <1> c \in Callers
    BY DEF Callers
  <1>1. CASE FetchFails(c)
    BY <1>1, StepOver, TypeParts DEF FetchFails, redis, AnalyzeInv
  <1>2. CASE SaveFails(c)
    BY <1>2, StepOver, FaultTyped DEF SaveFails, redis, AnalyzeInv
  <1> QED BY <1>1, <1>2, StepLookup, StepFetch, StepSave, StepHangUp DEF Handler

LEMMA StepPrompt ==
    ASSUME AnalyzeInv, NEW j \in Jobs, Prompt(j)
    PROVE  AnalyzeInv'
  <1> USE DEF AnalyzeInv
  <1>1. /\ j \in Callers /\ pc[j] = "idle" /\ question' = question /\ answer' = answer /\ gone' = gone
        /\ stored' = stored /\ cache' = cache /\ ttl' = ttl /\ keyed' = keyed /\ healthy' = healthy
        /\ breaker' = breaker /\ faults' = faults /\ Goto(j, "prompted")
    BY DEF Prompt, redis, request, Callers
  <1>2. pc' \in [Callers -> Labels] /\ pc'[j] = "prompted" /\ \A d \in Callers : d # j => pc'[d] = pc[d]
    BY <1>1, GotoIs DEF Labels
  <1>3. HandsOK' /\ OnlyBy(j)
    BY <1>1, <1>2 DEF TypeOK, HandsOK, OnlyBy
  <1>4. AnswersInv'
    <2>1. Belongs(answer'[j].used, question'[j])
      BY <1>1 DEF AnswersInv
    <2> QED BY <1>1, <1>2, <1>3, <2>1, AnswersStep DEF OnlyBy
  <1>5. faults' \in 0 .. MaxFaults
    BY <1>1 DEF TypeOK
  <1> QED BY <1>1, <1>3, <1>4, <1>5, HandStep

\* Calls: what is in hand stays or is over, and the breaker hears of each.
LEMMA CallStep ==
    ASSUME AnalyzeInv, HandsOK', AnswersInv', stored' = stored, cache' = cache, ttl' = ttl,
           keyed' = keyed, healthy' = healthy, faults' = faults,
           breaker' \in Breakers(Callers), Awaits(breaker', Calling')
    PROVE  AnalyzeInv'
  <1>1. RedisOK'
    BY TypeParts DEF AnalyzeInv, RedisOK
  <1>2. TypeOK'
    BY <1>1, TypeStep, TypeParts DEF AnalyzeInv
  <1>3. BreakerAwaitsCalls'
    BY <1>2, AwaitsIs DEF TypeOK, Breakers, BreakerAwaitsCalls, Awaits, Calling
  <1> QED BY <1>2, <1>3 DEF AnalyzeInv

LEMMA StepGenerate ==
    ASSUME AnalyzeInv, NEW c \in Callers, Generate(c)
    PROVE  AnalyzeInv'
  <1> USE DEF AnalyzeInv
  <1>1. Awaits(breaker, Calling) /\ breaker \in Breakers(Callers) /\ faults \in 0 .. MaxFaults
    BY AwaitsIs, TypeParts
  <1>2. CASE Mock(c)
    <2>1. /\ stored' = stored /\ cache' = cache /\ ttl' = ttl /\ keyed' = keyed /\ healthy' = healthy
          /\ breaker' = breaker /\ faults' = faults /\ pc[c] # "calling" /\ Got(c, "mock")
      BY <1>2 DEF Mock, redis
    <2> QED BY <1>1, <2>1, GotIs, HandStep
  <1>3. CASE Refused(c)
    BY <1>1, <1>3, StepOver DEF Refused, redis
  <1>4. CASE Call(c)
    <2>1. /\ stored' = stored /\ cache' = cache /\ ttl' = ttl /\ keyed' = keyed /\ healthy' = healthy
          /\ faults' = faults /\ question' = question /\ answer' = answer /\ gone' = gone
          /\ breaker' = Admit(breaker, c) /\ Allows(breaker) /\ Goto(c, "calling")
      BY <1>4 DEF Call, redis, request
    <2>2. pc' \in [Callers -> Labels] /\ pc'[c] = "calling" /\ \A d \in Callers : d # c => pc'[d] = pc[d]
      BY <2>1, GotoIs DEF Labels
    <2>3. HandsOK'
      BY <2>1, <2>2 DEF TypeOK, HandsOK
    <2>4. AnswersInv'
      <3>1. Belongs(answer'[c].used, question'[c])
        BY <2>1 DEF AnswersInv
      <3> QED BY <2>1, <2>2, <3>1, AnswersStep
    <2>5. Calling' = Calling \cup {c}
      BY <2>2 DEF Calling
    <2> QED BY <1>1, <2>1, <2>3, <2>4, <2>5, BreakerTyped, AdmitAwaits, CallStep
  <1>5. CASE Return(c)
    <2>1. /\ stored' = stored /\ cache' = cache /\ ttl' = ttl /\ keyed' = keyed /\ healthy' = healthy
          /\ faults' = faults /\ breaker' = Succeed(breaker, c) /\ Got(c, "model")
      BY <1>5 DEF Return, redis
    <2>2. HandsOK' /\ OnlyBy(c) /\ AnswersInv' /\ pc'[c] # "calling"
      BY <2>1, GotIs
    <2>3. Calling' = Calling \ {c}
      BY <2>2 DEF Calling, OnlyBy
    <2> QED BY <1>1, <2>1, <2>2, <2>3, BreakerTyped, OverAwaits, CallStep
  <1>6. CASE CallFails(c)
    <2>1. /\ stored' = stored /\ cache' = cache /\ ttl' = ttl /\ keyed' = keyed /\ healthy' = healthy
          /\ faults' = faults /\ breaker' = FailCall(breaker, c) /\ Over(c)
      BY <1>6 DEF CallFails, redis
    <2>2. HandsOK' /\ OnlyBy(c) /\ AnswersInv' /\ pc'[c] # "calling"
      BY <2>1, OverIs, OverAnswers
    <2>3. Calling' = Calling \ {c}
      BY <2>2 DEF Calling, OnlyBy
    <2> QED BY <1>1, <2>1, <2>2, <2>3, BreakerTyped, OverAwaits, CallStep
  <1> QED BY <1>2, <1>3, <1>4, <1>5, <1>6 DEF Generate
\* Whatever belongs still does once an event more is stored.
LEMMA StepStore ==
    ASSUME AnalyzeInv, NEW e \in Events, Store(e)
    PROVE  AnalyzeInv'
  <1> USE DEF AnalyzeInv
  <1>1. /\ stored' = stored \cup {e} /\ cache' = cache /\ ttl' = ttl /\ keyed' = keyed
        /\ healthy' = healthy /\ breaker' = breaker /\ pc' = pc /\ question' = question
        /\ answer' = answer /\ gone' = gone /\ faults' = faults
    BY DEF Store, redis, request
  <1>2. TypeOK'
    <2>1. HandsOK' /\ RedisOK'
      BY <1>1 DEF TypeOK, HandsOK, RedisOK, Labels
    <2> QED BY <1>1, <2>1, TypeStep, TypeParts
  <1>3. AnswersInv'
    <2>1. IsFiniteSet(stored')
      BY <1>1, FS_AddElement DEF AnswersInv
    <2>2. \A used, q : Belongs(used, q) => Belongs(used, q)'
      BY <1>1 DEF Belongs, Limit
    <2>3. CachedBelongs'
      BY <1>1, <2>2 DEF AnswersInv, CachedBelongs
    <2>4. ASSUME NEW c \in Callers PROVE Belongs(answer[c].used, question[c])'
      <3>1. Belongs(answer[c].used, question[c])
        BY DEF AnswersInv
      <3> QED BY <1>1, <3>1 DEF Belongs, Limit
    <2> QED BY <1>1, <2>1, <2>3, <2>4 DEF AnswersInv
  <1>4. BreakerAwaitsCalls'
    BY <1>1 DEF BreakerAwaitsCalls
  <1> QED BY <1>2, <1>3, <1>4

\* A restart forgets what is in hand, and the breaker with it.
LEMMA StepRestart ==
    ASSUME AnalyzeInv, Restart
    PROVE  AnalyzeInv'
  <1> USE DEF AnalyzeInv
  <1>1. /\ stored' = stored /\ cache' = cache /\ ttl' = ttl /\ keyed' \in {keyed, TRUE}
        /\ healthy' = healthy /\ breaker' = Closed
        /\ \A c \in Callers : pc'[c] = "idle" /\ question'[c] = SomeQuestion /\ answer'[c] = NoAnswer
    BY DEF Restart, redis
  <1>2. TypeOK'
    <2>1. RedisOK'
      BY <1>1, TypeParts DEF RedisOK
    <2>2. HandsOK'
      BY SomeQuestionIs, NoAnswerIs DEF Restart, HandsOK, Labels
    <2>3. faults' \in 0 .. MaxFaults
      BY FaultTyped DEF Restart
    <2>4. keyed' \in BOOLEAN
      BY <1>1, TypeParts
    <2> QED BY <1>1, <2>1, <2>2, <2>3, <2>4, ClosedIs, TypeStep, TypeParts
  <1>3. AnswersInv'
    <2>1. CachedBelongs'
      BY <1>1 DEF AnswersInv, CachedBelongs, Belongs, Limit
    <2>2. ASSUME NEW c \in Callers PROVE Belongs(answer[c].used, question[c])'
      <3>1. Belongs(answer'[c].used, question'[c])
        BY <1>1, NothingBelongs, SomeQuestionIs
      <3> QED BY <1>1, <3>1 DEF Belongs, Limit
    <2> QED BY <1>1, <2>1, <2>2 DEF AnswersInv
  <1>4. BreakerAwaitsCalls'
    BY <1>1 DEF BreakerAwaitsCalls, Closed
  <1> QED BY <1>2, <1>3, <1>4

LEMMA StepHealth ==
    ASSUME AnalyzeInv, FallIll \/ Recover
    PROVE  AnalyzeInv'
  <1> USE DEF AnalyzeInv
  <1>1. /\ stored' = stored /\ cache' = cache /\ ttl' = ttl /\ keyed' = keyed
        /\ healthy' \in BOOLEAN /\ breaker' = breaker /\ pc' = pc /\ question' = question
        /\ answer' = answer /\ gone' = gone
    BY DEF FallIll, Recover, redis, request
  <1>2. faults' \in 0 .. MaxFaults
    BY FaultTyped, TypeParts DEF FallIll, Recover
  <1>3. HandsOK' /\ RedisOK'
    BY <1>1 DEF TypeOK, HandsOK, RedisOK, Labels
  <1>4. TypeOK'
    BY <1>1, <1>2, <1>3, TypeStep, TypeParts
  <1>5. AnswersInv'
    BY <1>1 DEF AnswersInv, CachedBelongs, Belongs, Limit
  <1>6. BreakerAwaitsCalls'
    BY <1>1 DEF BreakerAwaitsCalls
  <1> QED BY <1>4, <1>5, <1>6

\* An entry stays or expires.
LEMMA StepTick ==
    ASSUME AnalyzeInv, Tick
    PROVE  AnalyzeInv'
  <1> USE DEF AnalyzeInv
  <1>1. /\ stored' = stored /\ keyed' = keyed /\ healthy' = healthy /\ pc' = pc
        /\ question' = question /\ answer' = answer /\ gone' = gone /\ faults' = faults
        /\ ttl' = [k \in Keys |-> IF ttl[k] > 0 THEN ttl[k] - 1 ELSE 0]
        /\ cache' = [k \in Keys |-> IF ttl[k] = 1 THEN NoEntry ELSE cache[k]]
        /\ breaker' = Elapse(breaker)
    BY DEF Tick, request
  <1>2. RedisOK'
    <2>1. ASSUME NEW k \in Keys
          PROVE  /\ ttl'[k] \in 0 .. TTL /\ cache'[k] \in Answers \cup {NoEntry}
                 /\ ttl'[k] = 0 <=> cache'[k] = NoEntry
      BY <1>1, LimitsAssumption DEF TypeOK
    <2> QED BY <1>1, <2>1 DEF RedisOK
  <1>3. HandsOK' /\ breaker' \in Breakers(Callers)
    <2>1. HandsOK'
      BY <1>1, TypeParts DEF HandsOK, Labels
    <2>2. Elapse(breaker) \in Breakers(Callers)
      BY ElapseTyped, TypeParts
    <2> QED BY <1>1, <2>1, <2>2
  <1>4. TypeOK'
    BY <1>1, <1>2, <1>3, TypeStep, TypeParts
  <1>5. AnswersInv'
    <2>1. \A q \in Questions : cache'[Key(q)] \in {NoEntry, cache[Key(q)]}
      BY <1>1 DEF Keys
    <2>2. CachedBelongs'
      BY <1>1, <2>1 DEF AnswersInv, CachedBelongs, Belongs, Limit, Key
    <2>3. ASSUME NEW c \in Callers PROVE Belongs(answer[c].used, question[c])'
      BY <1>1 DEF AnswersInv, Belongs, Limit
    <2> QED BY <1>1, <2>2, <2>3 DEF AnswersInv
  <1>6. BreakerAwaitsCalls'
    <2>1. Awaits(breaker', Calling)
      BY <1>1, AwaitsIs, ElapseAwaits, TypeParts
    <2> QED BY <1>1, <1>3, <2>1 DEF Breakers, BreakerAwaitsCalls, Awaits, Calling
  <1> QED BY <1>4, <1>5, <1>6

LEMMA InvNext == AnalyzeInv /\ [Next]_vars => AnalyzeInv'
  <1> SUFFICES ASSUME AnalyzeInv, [Next]_vars PROVE AnalyzeInv'
    OBVIOUS
  <1>1. CASE UNCHANGED vars
    <2>1. /\ stored' = stored /\ cache' = cache /\ ttl' = ttl /\ keyed' = keyed
          /\ healthy' = healthy /\ breaker' = breaker /\ pc' = pc /\ question' = question
          /\ answer' = answer /\ gone' = gone /\ faults' = faults
      BY <1>1 DEF vars, redis, request
    <2>2. TypeOK' /\ BreakerAwaitsCalls'
      BY <2>1 DEF AnalyzeInv, TypeOK, BreakerAwaitsCalls
    <2>3. AnswersInv'
      BY <2>1 DEF AnalyzeInv, AnswersInv, CachedBelongs, Belongs, Limit
    <2> QED BY <2>2, <2>3 DEF AnalyzeInv
  <1>2. CASE Next
    BY <1>2, StepHandler, StepPrompt, StepGenerate, StepStore, StepRestart, StepHealth, StepTick DEF Next
  <1> QED BY <1>1, <1>2

\* What handlers have in hand belongs to their requests, what the cache holds
\* belongs to its keys, and the breaker knows who is at the model.
THEOREM AnalyzeInvariant == Spec => []AnalyzeInv
  BY InvInit, InvNext, PTL DEF Spec

\* The state of the cache, the breaker and the handlers is of the right kind.
THEOREM TypeCorrect == Spec => []TypeOK
  <1>1. AnalyzeInv => TypeOK
    BY DEF AnalyzeInv
  <1> QED BY <1>1, AnalyzeInvariant, PTL

\* Whoever asks, restarts and hangs up in between, and whichever requests share
\* a hash: a cached answer was made from stored events of the range of a request
\* with the key it lies under, and no more than that request's limit.
THEOREM CachedAnswersBelong == Spec => []CachedBelongs
  <1>1. AnalyzeInv => CachedBelongs
    BY DEF AnalyzeInv, AnswersInv
  <1> QED BY <1>1, AnalyzeInvariant, PTL

\* A cached answer was made for the very request that finds it.
CachedIsOwn ==
    \A q \in Questions : cache[Key(q)] # NoEntry => Belongs(cache[Key(q)].used, q)

\* If no two requests in use share the 48 bits of their key, which the code
\* does not see to, nobody gets another's answer from the cache.
THEOREM CachedAnswersAreOwn ==
    ASSUME \A q, r \in Questions : Hash[q] = Hash[r] => q = r
    PROVE  Spec => []CachedIsOwn
  <1>1. CachedBelongs => CachedIsOwn
    BY DEF CachedBelongs, CachedIsOwn, Alike
  <1> QED BY <1>1, CachedAnswersBelong, PTL

\* The breaker never waits for a call that nobody makes, nor probes the model
\* with two calls at a time.
THEOREM BreakerAwaits == Spec => []BreakerAwaitsCalls
  <1>1. AnalyzeInv => BreakerAwaitsCalls
    BY DEF AnalyzeInv
  <1> QED BY <1>1, AnalyzeInvariant, PTL
===============================================================================
