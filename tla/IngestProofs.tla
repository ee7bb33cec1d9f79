------------------------------ MODULE IngestProofs ------------------------------
(***************************************************************************)
(* What clients of ingest-svc are told, and what a graceful exit cuts off, *)
(* for all requests, bodies, timeouts and numbers of faults.               *)
(***************************************************************************)
EXTENDS Ingest, FiniteSetTheorems, SequenceTheorems, TLAPS

\* Each record of a request being published is still unsettled or has one
\* result, and a result without error is of an event on the topic.
ResultsInv(r) ==
    /\ phase[r] \in {"new", "binding"} => results[r] = <<>>
    /\ \A k \in DOMAIN results[r] :
          /\ results[r][k].ok => <<r, results[r][k].item>> \in topic
          /\ results[r][k].item \notin unsettled[r]
    /\ \A k, l \in DOMAIN results[r] : results[r][k].item = results[r][l].item => k = l
    /\ phase[r] = "publishing" =>
          \A i \in ValidItems(r) : i \in unsettled[r] \/ \E k \in DOMAIN results[r] : results[r][k].item = i

OnTopic(r) == \E i \in ValidItems(r) : <<r, i>> \in topic

\* A deadline of publishing comes before that of Shutdown; past it only records
\* that were sent are waited for.
DrainInv ==
    /\ server \in {"up", "stopping"} => inHand = {}
    /\ \A r \in Requests :
          /\ phase[r] = "publishing" => left[r] <= PublishTimeout
          /\ phase[r] = "cut" => ~ Serving
          /\ r \in inHand => phase[r] \in {"publishing", "answered", "cut"}
          /\ server = "draining" /\ r \in inHand /\ phase[r] = "publishing" =>
                left[r] < serverLeft \/ OnTopic(r)
    /\ ~ Serving => \A r \in Requests : ~ Active(r)

\* There is an entry for every request.
ShapeInv == DOMAIN unsettled = Requests /\ DOMAIN results = Requests /\ DOMAIN answer = Requests

IngestInv ==
    /\ TypeOK /\ ShapeInv
    /\ \A r \in Requests : ResultsInv(r)
    /\ AcceptedIsPublished
    /\ CountMatches
    /\ DrainInv
    /\ DrainAnswers

-----------------------------------------------------------------------------
LEMMA BodyIs ==
    ASSUME TypeOK, NEW r \in Requests
    PROVE  /\ body[r].valid \in Seq(BOOLEAN) /\ body[r].batch \in BOOLEAN
           /\ DOMAIN body[r].valid = 1 .. Len(body[r].valid) /\ Len(body[r].valid) \in Nat
           /\ body[r].batch \/ Len(body[r].valid) = 1
  <1>1. body[r] \in Bodies[r]
    BY DEF TypeOK, Held
  <1>2. /\ body[r] \in [parses : BOOLEAN, batch : BOOLEAN, valid : Seq(BOOLEAN)]
        /\ body[r].batch \/ Len(body[r].valid) = 1
    BY <1>1, BodyAssumption
  <1> QED BY <1>2

LEMMA ElementsAre == \A S : \A s \in Seq(S) : \A k \in DOMAIN s : s[k] \in S
  OBVIOUS

LEMMA ResultsAre ==
    ASSUME TypeOK, NEW r \in Requests
    PROVE  /\ results[r] \in Seq([item : ValidItems(r), ok : BOOLEAN])
           /\ DOMAIN results[r] = 1 .. Len(results[r]) /\ Len(results[r]) \in Nat
           /\ \A k \in DOMAIN results[r] :
                 /\ results[r][k].item \in ValidItems(r) /\ results[r][k].ok \in BOOLEAN
                 /\ results[r][k] = [item |-> results[r][k].item, ok |-> results[r][k].ok]
  <1>1. results[r] \in Seq([item : ValidItems(r), ok : BOOLEAN])
    BY DEF TypeOK
  <1>2. DOMAIN results[r] = 1 .. Len(results[r]) /\ Len(results[r]) \in Nat
    BY <1>1
  <1>3. \A k \in DOMAIN results[r] : results[r][k] \in [item : ValidItems(r), ok : BOOLEAN]
    BY <1>1, ElementsAre
  <1> QED BY <1>1, <1>2, <1>3

LEMMA FlagsAre ==
    ASSUME TypeOK, NEW r \in Requests
    PROVE  Flags(r) \in Seq(BOOLEAN) /\ DOMAIN Flags(r) = DOMAIN body[r].valid
  <1>1. Flags(r) \in [1 .. Len(body[r].valid) -> BOOLEAN]
    BY BodyIs DEF Flags
  <1> QED BY <1>1, BodyIs, SeqDef

LEMMA AcceptedIs ==
    ASSUME TypeOK, NEW r \in Requests
    PROVE  IsFiniteSet({k \in DOMAIN results[r] : results[r][k].ok}) /\ Accepted(r) \in Nat
  <1>1. IsFiniteSet(DOMAIN results[r])
    <2>1. DOMAIN results[r] = 1 .. Len(results[r]) /\ Len(results[r]) \in Nat
      BY ResultsAre
    <2>2. Len(results[r]) \in Int /\ 1 \in Int
      BY <2>1
    <2>3. IsFiniteSet(1 .. Len(results[r]))
      BY <2>2, FS_Interval
    <2> QED BY <2>1, <2>3
  <1>2. IsFiniteSet({k \in DOMAIN results[r] : results[r][k].ok})
    BY <1>1, FS_Subset
  <1> QED BY <1>2, FS_CardinalityType DEF Accepted

\* A result of an item is unique, so the flag says what the result says.
LEMMA FlagIsResult ==
    ASSUME TypeOK, NEW r \in Requests, ResultsInv(r), phase[r] = "publishing", unsettled[r] = {}
    PROVE  /\ \A k \in DOMAIN results[r] : Flags(r)[results[r][k].item] = results[r][k].ok
           /\ \A i \in DOMAIN Flags(r) : Flags(r)[i] =>
                 \E k \in DOMAIN results[r] : results[r][k].item = i /\ results[r][k].ok
  <1>1. ASSUME NEW k \in DOMAIN results[r]
        PROVE  Flags(r)[results[r][k].item] = results[r][k].ok
    <2>1. results[r][k].item \in ValidItems(r) /\ results[r][k].item \in DOMAIN body[r].valid
      BY ResultsAre DEF ValidItems
    <2>2. CASE results[r][k].ok
      <3>1. ~ \E l \in DOMAIN results[r] : results[r][l] = [item |-> results[r][k].item, ok |-> FALSE]
        <4> SUFFICES ASSUME NEW l \in DOMAIN results[r],
                            results[r][l] = [item |-> results[r][k].item, ok |-> FALSE]
                     PROVE  FALSE
          OBVIOUS
        <4>1. results[r][l].item = results[r][k].item /\ ~ results[r][l].ok
          OBVIOUS
        <4>2. l = k
          BY <4>1 DEF ResultsInv
        <4> QED BY <2>2, <4>1, <4>2
      <3> QED BY <2>1, <2>2, <3>1, ResultsAre DEF Flags
    <2>3. CASE ~ results[r][k].ok
      <3>1. results[r][k] = [item |-> results[r][k].item, ok |-> FALSE]
        BY <2>3, ResultsAre
      <3> QED BY <2>1, <2>3, <3>1, ResultsAre DEF Flags
    <2> QED BY <2>2, <2>3
  <1>2. ASSUME NEW i \in DOMAIN Flags(r), Flags(r)[i]
        PROVE  \E k \in DOMAIN results[r] : results[r][k].item = i /\ results[r][k].ok
    <2>1. i \in ValidItems(r)
      BY <1>2, FlagsAre DEF Flags
    <2>2. PICK k \in DOMAIN results[r] : results[r][k].item = i
      BY <2>1 DEF ResultsInv
    <2> QED BY <1>1, <1>2, <2>2
  <1> QED BY <1>1, <1>2

\* The number of results without error is the number of flags that say so.
LEMMA AcceptedCountsFlags ==
    ASSUME TypeOK, NEW r \in Requests, ResultsInv(r), phase[r] = "publishing", unsettled[r] = {}
    PROVE  Accepted(r) = Cardinality({i \in DOMAIN Flags(r) : Flags(r)[i]})
  <1> DEFINE good == {k \in DOMAIN results[r] : results[r][k].ok}
             set == {i \in DOMAIN Flags(r) : Flags(r)[i]}
             item == [k \in good |-> results[r][k].item]
  <1>1. \A k \in good : item[k] \in set
    <2> SUFFICES ASSUME NEW k \in good PROVE item[k] \in set
      OBVIOUS
    <2>1. results[r][k].item \in ValidItems(r) /\ results[r][k].ok
      BY ResultsAre
    <2>2. results[r][k].item \in DOMAIN Flags(r)
      BY <2>1, FlagsAre DEF ValidItems
    <2>3. Flags(r)[results[r][k].item]
      BY <2>1, FlagIsResult
    <2> QED BY <2>2, <2>3
  <1>2. \A k, l \in good : item[k] = item[l] => k = l
    BY DEF ResultsInv
  <1>3. \A i \in set : \E k \in good : item[k] = i
    BY FlagIsResult
  <1>4. item \in Bijection(good, set)
    <2>1. item \in [good -> set]
      BY <1>1
    <2> QED BY <2>1, <1>2, <1>3 DEF Bijection, Injection, Surjection, IsInjective
  <1>5. IsFiniteSet(good)
    BY AcceptedIs
  <1>6. Cardinality(set) = Cardinality(good)
    BY <1>4, <1>5, FS_Bijection DEF ExistsBijection
  <1> QED BY <1>6 DEF Accepted

-----------------------------------------------------------------------------
(* Steps                                                                   *)

LEMMA InitHolds == Init => IngestInv
  <1> SUFFICES ASSUME Init PROVE IngestInv
    OBVIOUS
  <1>1. TypeOK /\ ShapeInv
    <2>1. ASSUME NEW r \in Requests
          PROVE  /\ unsettled[r] \subseteq ValidItems(r)
                 /\ results[r] \in Seq([item : ValidItems(r), ok : BOOLEAN])
                 /\ answer[r] \in Answers \cup {NoAnswer}
                 /\ phase[r] = "answered" <=> answer[r] # NoAnswer
      BY DEF Init
    <2>2. /\ topic \subseteq UNION {EventsOf(r) : r \in Requests}
          /\ phase \in [Requests -> {"new", "binding", "publishing", "answered", "cut"}]
          /\ left \in [Requests -> Nat]
          /\ gone \subseteq Requests /\ inHand \subseteq Requests
          /\ {broker, ready} \subseteq BOOLEAN
      BY DEF Init
    <2>3. /\ body \in Held /\ faults \in 0 .. MaxFaults /\ serverLeft \in Nat
          /\ server \in {"up", "stopping", "draining", "exited", "killed"}
          /\ ping \in {"idle", "ok", "error"}
      BY BoundsAssumption DEF Init
    <2>4. ShapeInv
      BY DEF Init, ShapeInv
    <2> QED BY <2>1, <2>2, <2>3, <2>4 DEF TypeOK
  <1>2. ASSUME NEW r \in Requests PROVE ResultsInv(r)
    BY DEF Init, ResultsInv
  <1>3. AcceptedIsPublished /\ CountMatches
    BY DEF Init, AcceptedIsPublished, CountMatches
  <1>4. DrainInv /\ DrainAnswers
    BY DEF Init, DrainInv, DrainAnswers, Serving, Active
  <1> QED BY <1>1, <1>2, <1>3, <1>4 DEF IngestInv

\* What has been answered keeps.
LEMMA AnswersStay ==
    ASSUME AcceptedIsPublished, CountMatches, topic \subseteq topic', UNCHANGED answer,
           \A r \in Requests : phase'[r] = "answered" =>
               phase[r] = "answered" /\ results'[r] = results[r]
    PROVE  AcceptedIsPublished' /\ CountMatches'
  BY DEF AcceptedIsPublished, CountMatches

LEMMA DrainStays ==
    ASSUME TypeOK, DrainAnswers, UNCHANGED <<server, inHand, body>>, topic \subseteq topic',
           \A r \in Requests : phase[r] = "answered" => phase'[r] = "answered"
    PROVE  DrainAnswers'
  BY DEF TypeOK, DrainAnswers, ValidItems

LEMMA RecordsStay ==
    ASSUME TypeOK, UNCHANGED <<topic, body, unsettled, results>>
    PROVE  /\ topic' \subseteq UNION {EventsOf(r)' : r \in Requests} /\ body' \in Held
           /\ \A r \in Requests :
                 /\ unsettled'[r] \subseteq ValidItems(r)'
                 /\ results'[r] \in Seq([item : ValidItems(r)', ok : BOOLEAN])
  <1>1. topic' \subseteq UNION {EventsOf(r)' : r \in Requests}
    BY DEF TypeOK, EventsOf
  <1>2. body' \in Held
    BY DEF TypeOK
  <1>3. ASSUME NEW r \in Requests
        PROVE  /\ unsettled'[r] \subseteq ValidItems(r)'
               /\ results'[r] \in Seq([item : ValidItems(r)', ok : BOOLEAN])
    BY DEF TypeOK, ValidItems
  <1> QED BY <1>1, <1>2, <1>3

\* Steps of the brokers, the clients and the health check touch no request.
LEMMA QuietHolds ==
    ASSUME IngestInv, TypeOK',
           UNCHANGED <<topic, body, phase, left, unsettled, results, answer, server, serverLeft, inHand>>
    PROVE  IngestInv'
  <1>1. ASSUME NEW r \in Requests PROVE ResultsInv(r)'
    BY DEF IngestInv, ResultsInv, ValidItems
  <1>2. AcceptedIsPublished' /\ CountMatches'
    BY AnswersStay DEF IngestInv
  <1>3. ShapeInv' /\ DrainInv'
    BY DEF IngestInv, ShapeInv, DrainInv, Serving, Active, OnTopic, ValidItems
  <1>4. DrainAnswers'
    BY DrainStays DEF IngestInv
  <1> QED BY <1>1, <1>2, <1>3, <1>4 DEF IngestInv

LEMMA OthersHold ==
    ASSUME IngestInv,
           \/ \E r \in Requests : HangUp(r)
           \/ Ping \/ StoreReady \/ Lose \/ Recover \/ UNCHANGED vars
    PROVE  IngestInv'
  <1> USE DEF HangUp, Ping, StoreReady, Lose, Recover, vars, handler, process, health
  <1>1. UNCHANGED <<topic, body, phase, left, unsettled, results, answer, server, serverLeft, inHand>>
    OBVIOUS
  <1>2. TypeOK'
    <2>1. /\ gone' \subseteq Requests /\ {broker, ready}' \subseteq BOOLEAN
          /\ ping' \in {"idle", "ok", "error"}
      BY DEF IngestInv, TypeOK
    <2>2. faults' \in 0 .. MaxFaults
      BY BoundsAssumption DEF IngestInv, TypeOK, Fault
    <2> QED BY <1>1, <2>1, <2>2, RecordsStay DEF IngestInv, TypeOK
  <1> QED BY <1>1, <1>2, QuietHolds

LEMMA ArriveHolds ==
    ASSUME IngestInv, NEW r \in Requests, Arrive(r)
    PROVE  IngestInv'
  <1> USE DEF Arrive, process, health
  <1>1. TypeOK' /\ ShapeInv'
    <2>1. /\ phase' = [phase EXCEPT ![r] = "binding"] /\ left' = [left EXCEPT ![r] = ReadTimeout]
          /\ UNCHANGED <<answer, gone, server, serverLeft, inHand, broker, ready, ping, faults>>
      OBVIOUS
    <2>2. /\ phase' \in [Requests -> {"new", "binding", "publishing", "answered", "cut"}]
          /\ left' \in [Requests -> Nat]
      BY <2>1, TimeoutAssumption DEF IngestInv, TypeOK
    <2>3. \A q \in Requests : phase'[q] = "answered" <=> answer'[q] # NoAnswer
      BY <2>1 DEF IngestInv, TypeOK
    <2>4. ShapeInv'
      BY DEF IngestInv, ShapeInv
    <2> QED BY <2>1, <2>2, <2>3, <2>4, RecordsStay DEF IngestInv, TypeOK
  <1>2. ASSUME NEW q \in Requests PROVE ResultsInv(q)'
    BY DEF IngestInv, TypeOK, ShapeInv, ResultsInv, ValidItems
  <1>3. AcceptedIsPublished' /\ CountMatches' /\ DrainAnswers'
    BY AnswersStay, DrainStays DEF IngestInv, TypeOK
  <1>4. DrainInv'
    <2>1. /\ phase'[r] = "binding" /\ r \notin inHand
          /\ UNCHANGED <<server, serverLeft, inHand, topic, body>> /\ Serving
      BY DEF IngestInv, TypeOK, DrainInv, Serving
    <2>2. ASSUME NEW q \in Requests, q # r
          PROVE  phase'[q] = phase[q] /\ left'[q] = left[q]
      BY <2>2 DEF IngestInv, TypeOK
    <2>3. \A q \in Requests : OnTopic(q)' = OnTopic(q)
      BY <2>1 DEF OnTopic, ValidItems
    <2> QED BY <2>1, <2>2, <2>3 DEF IngestInv, DrainInv, Serving
  <1> QED BY <1>1, <1>2, <1>3, <1>4 DEF IngestInv

CountTrue(flags) == Cardinality({i \in DOMAIN flags : flags[i]})

Matches(response, rs) ==
    /\ response.accepted = CountTrue(response.flags)
    /\ \A k \in DOMAIN rs : rs[k].ok => response.status = 202 /\ response.flags[rs[k].item]

\* An answer that is right about the topic and about the results.
LEMMA RespondHolds ==
    ASSUME IngestInv, NEW r \in Requests, Active(r), NEW response \in Answers, Respond(r, response),
           UNCHANGED <<topic, broker, body, unsettled, results, gone, process, health, faults>>,
           \A i \in DOMAIN response.flags : response.flags[i] => <<r, i>> \in topic,
           response.accepted = CountTrue(response.flags),
           \A k \in DOMAIN results[r] :
               results[r][k].ok => response.status = 202 /\ response.flags[results[r][k].item]
    PROVE  IngestInv'
  <1> USE DEF Respond, process, health
  <1>1. TypeOK' /\ ShapeInv'
    <2>1. /\ phase' \in [Requests -> {"new", "binding", "publishing", "answered", "cut"}]
          /\ left' \in [Requests -> Nat] /\ faults' \in 0 .. MaxFaults
          /\ gone' \subseteq Requests /\ inHand' \subseteq Requests
          /\ server' \in {"up", "stopping", "draining", "exited", "killed"}
          /\ serverLeft' \in Nat /\ ping' \in {"idle", "ok", "error"}
          /\ {broker', ready'} \subseteq BOOLEAN
      BY DEF IngestInv, TypeOK
    <2>2. ASSUME NEW q \in Requests
          PROVE  /\ answer'[q] \in Answers \cup {NoAnswer}
                 /\ phase'[q] = "answered" <=> answer'[q] # NoAnswer
      BY NoAnswerAssumption DEF IngestInv, TypeOK, ShapeInv
    <2>3. ShapeInv'
      BY DEF IngestInv, ShapeInv
    <2> QED BY <2>1, <2>2, <2>3, RecordsStay DEF IngestInv, TypeOK
  <1>2. ASSUME NEW q \in Requests PROVE ResultsInv(q)'
    BY DEF IngestInv, TypeOK, ShapeInv, ResultsInv, ValidItems
  <1>3. answer'[r] = response /\ \A q \in Requests : q # r => UNCHANGED <<answer[q], phase[q]>>
    BY DEF IngestInv, TypeOK, ShapeInv
  <1>4. AcceptedIsPublished'
    BY <1>3 DEF IngestInv, AcceptedIsPublished
  <1>5. CountMatches'
    <2> SUFFICES ASSUME NEW q \in Requests, phase'[q] = "answered"
                 PROVE  Matches(answer'[q], results[q])
      BY DEF CountMatches, Matches, CountTrue
    <2>1. CASE q = r
      <3>1. Matches(response, results[r])
        BY DEF Matches
      <3> QED BY <1>3, <2>1, <3>1
    <2>2. CASE q # r
      <3>1. answer'[q] = answer[q] /\ phase[q] = "answered"
        BY <1>3, <2>2
      <3>2. Matches(answer[q], results[q])
        BY <3>1 DEF IngestInv, CountMatches, Matches, CountTrue
      <3> QED BY <3>1, <3>2
    <2> QED BY <2>1, <2>2
  <1>6. DrainInv'
    <2>1. /\ phase' = [phase EXCEPT ![r] = "answered"] /\ left' = [left EXCEPT ![r] = 0]
          /\ UNCHANGED <<server, serverLeft, inHand, topic, body>>
      OBVIOUS
    <2>2. ASSUME NEW q \in Requests, q # r
          PROVE  phase'[q] = phase[q] /\ left'[q] = left[q]
      BY <2>1, <2>2 DEF IngestInv, TypeOK
    <2>3. phase'[r] = "answered" /\ (r \in inHand => phase[r] \in {"publishing", "answered", "cut"})
      BY <2>1 DEF IngestInv, TypeOK, DrainInv
    <2> QED BY <2>1, <2>2, <2>3 DEF IngestInv, DrainInv, Serving, Active, OnTopic, ValidItems
  <1>7. DrainAnswers'
    BY DrainStays DEF IngestInv, TypeOK
  <1> QED BY <1>1, <1>2, <1>4, <1>5, <1>6, <1>7 DEF IngestInv

LEMMA RefusalIs ==
    /\ Refusal \in Answers /\ DOMAIN Refusal.flags = {} /\ Refusal.accepted = 0
    /\ CountTrue(Refusal.flags) = 0
  <1>1. Refusal \in Answers /\ Refusal.flags = <<>> /\ Refusal.accepted = 0
    BY DEF Refusal, Answers
  <1>2. DOMAIN Refusal.flags = {}
    BY <1>1
  <1>3. {i \in DOMAIN Refusal.flags : Refusal.flags[i]} = {}
    BY <1>2
  <1> QED BY <1>1, <1>2, <1>3, FS_EmptySet DEF CountTrue

\* Nothing has been published when the body is refused.
LEMMA BindFailsHolds ==
    ASSUME IngestInv, NEW r \in Requests, BindFails(r)
    PROVE  IngestInv'
  <1>1. Active(r) /\ Respond(r, Refusal)
    BY DEF BindFails, Active
  <1>2. UNCHANGED <<topic, broker, body, unsettled, results, gone, process, health, faults>>
    BY DEF BindFails
  <1>3. DOMAIN results[r] = {}
    BY DEF BindFails, IngestInv, ResultsInv
  <1> QED BY <1>1, <1>2, <1>3, RefusalIs, RespondHolds

LEMMA NothingToPublishHolds ==
    ASSUME IngestInv, NEW r \in Requests, NothingToPublish(r)
    PROVE  IngestInv'
  <1> DEFINE response == [status |-> 202, accepted |-> 0, flags |-> body[r].valid]
  <1>1. Active(r) /\ (Respond(r, Refusal) \/ Respond(r, response))
    BY DEF NothingToPublish, Active
  <1>2. UNCHANGED <<topic, broker, body, unsettled, results, gone, process, health, faults>>
    BY DEF NothingToPublish
  <1>3. DOMAIN results[r] = {}
    BY DEF NothingToPublish, IngestInv, ResultsInv
  <1>4. response \in Answers
    BY BodyIs DEF IngestInv, Answers
  <1>5. {i \in DOMAIN response.flags : response.flags[i]} = {}
    BY DEF NothingToPublish, ValidItems
  <1>6. response.accepted = CountTrue(response.flags)
    BY <1>5, FS_EmptySet DEF CountTrue
  <1>7. CASE Respond(r, Refusal)
    BY <1>1, <1>2, <1>3, <1>7, RefusalIs, RespondHolds
  <1>8. CASE Respond(r, response)
    <2> HIDE DEF response
    <2> QED BY <1>1, <1>2, <1>3, <1>4, <1>5, <1>6, <1>8, RespondHolds
  <1> QED BY <1>1, <1>7, <1>8

\* A single event has one result.
LEMMA SingleFails ==
    ASSUME TypeOK, NEW r \in Requests, ResultsInv(r), ~ body[r].batch, Accepted(r) # Len(results[r])
    PROVE  \A k \in DOMAIN results[r] : ~ results[r][k].ok
  <1> SUFFICES ASSUME NEW k \in DOMAIN results[r], results[r][k].ok PROVE FALSE
    BY ResultsAre
  <1>1. ValidItems(r) \subseteq {1}
    BY BodyIs DEF ValidItems
  <1>2. \A l \in DOMAIN results[r] : l = k
    <2> SUFFICES ASSUME NEW l \in DOMAIN results[r] PROVE l = k
      OBVIOUS
    <2>1. results[r][l].item = 1 /\ results[r][k].item = 1
      BY <1>1, ResultsAre
    <2> QED BY <2>1 DEF ResultsInv
  <1>3. Len(results[r]) = 1 /\ k = 1
    <2>1. DOMAIN results[r] = 1 .. Len(results[r]) /\ Len(results[r]) \in Nat /\ k \in Nat
      BY ResultsAre
    <2>2. 1 \in DOMAIN results[r] /\ Len(results[r]) \in DOMAIN results[r]
      BY <2>1
    <2> QED BY <1>2, <2>2
  <1>4. {l \in DOMAIN results[r] : results[r][l].ok} = {1}
    BY <1>2, <1>3
  <1>5. Cardinality({1}) = 1
    BY FS_Singleton
  <1> QED BY <1>3, <1>4, <1>5 DEF Accepted

\* The answer says of every event what its result says.
LEMMA AnswerHolds ==
    ASSUME IngestInv, NEW r \in Requests, Answer(r)
    PROVE  IngestInv'
  <1> DEFINE accepted == [status |-> 202, accepted |-> Accepted(r), flags |-> Flags(r)]
             failed == [status |-> 503, accepted |-> 0, flags |-> <<FALSE>>]
  <1>1. Active(r) /\ phase[r] = "publishing" /\ unsettled[r] = {} /\ TypeOK /\ ResultsInv(r)
    BY DEF Answer, Active, IngestInv
  <1>2. UNCHANGED <<topic, broker, body, unsettled, results, gone, process, health, faults>>
    BY DEF Answer
  <1>3. CASE body[r].batch \/ Accepted(r) = Len(results[r])
    <2>1. Respond(r, accepted)
      BY <1>3 DEF Answer
    <2>2. accepted \in Answers
      BY <1>1, FlagsAre, AcceptedIs DEF Answers
    <2>3. \A i \in DOMAIN accepted.flags : accepted.flags[i] => <<r, i>> \in topic
      BY <1>1, FlagIsResult DEF ResultsInv
    <2>4. accepted.accepted = CountTrue(accepted.flags)
      BY <1>1, AcceptedCountsFlags DEF CountTrue
    <2>5. \A k \in DOMAIN results[r] :
              results[r][k].ok => accepted.status = 202 /\ accepted.flags[results[r][k].item]
      BY <1>1, FlagIsResult
    <2> HIDE DEF accepted
    <2> QED BY <1>1, <1>2, <2>1, <2>2, <2>3, <2>4, <2>5, RespondHolds
  <1>4. CASE ~ (body[r].batch \/ Accepted(r) = Len(results[r]))
    <2>1. Respond(r, failed)
      BY <1>4 DEF Answer
    <2>2. failed \in Answers
      BY DEF Answers
    <2>3. {i \in DOMAIN failed.flags : failed.flags[i]} = {}
      <3>1. failed.flags = <<FALSE>>
        OBVIOUS
      <3>2. DOMAIN <<FALSE>> = {1}
        OBVIOUS
      <3>3. <<FALSE>>[1] = FALSE
        OBVIOUS
      <3> HIDE DEF failed
      <3> QED BY <3>1, <3>2, <3>3
    <2>4. failed.accepted = CountTrue(failed.flags)
      BY <2>3, FS_EmptySet DEF CountTrue
    <2>5. \A k \in DOMAIN results[r] : ~ results[r][k].ok
      BY <1>1, <1>4, SingleFails
    <2> HIDE DEF failed
    <2> QED BY <1>1, <1>2, <2>1, <2>2, <2>3, <2>4, <2>5, RespondHolds
  <1> QED BY <1>3, <1>4

LEMMA PublishHolds ==
    ASSUME IngestInv, NEW r \in Requests, Publish(r)
    PROVE  IngestInv'
  <1> USE DEF Publish, process, health
  <1>1. TypeOK' /\ ShapeInv'
    <2>1. /\ phase' = [phase EXCEPT ![r] = "publishing"] /\ left' = [left EXCEPT ![r] = PublishTimeout]
          /\ UNCHANGED <<answer, gone, server, serverLeft, inHand, broker, ready, ping, faults>>
      OBVIOUS
    <2>2. /\ phase' \in [Requests -> {"new", "binding", "publishing", "answered", "cut"}]
          /\ left' \in [Requests -> Nat]
      BY <2>1, TimeoutAssumption DEF IngestInv, TypeOK
    <2>3. \A q \in Requests : phase'[q] = "answered" <=> answer'[q] # NoAnswer
      BY <2>1 DEF IngestInv, TypeOK
    <2>4. ShapeInv'
      BY DEF IngestInv, ShapeInv
    <2>5. \A q \in Requests : EventsOf(q)' = EventsOf(q) /\ ValidItems(q)' = ValidItems(q)
      BY DEF EventsOf, ValidItems
    <2>6. UNION {EventsOf(q)' : q \in Requests} = UNION {EventsOf(q) : q \in Requests}
      BY <2>5
    <2>7. ASSUME NEW q \in Requests
          PROVE  /\ unsettled'[q] \subseteq ValidItems(q)
                 /\ results'[q] \in Seq([item : ValidItems(q), ok : BOOLEAN])
      BY DEF IngestInv, TypeOK, ShapeInv
    <2>8. topic' \subseteq UNION {EventsOf(q)' : q \in Requests}
      BY <2>6 DEF IngestInv, TypeOK
    <2>9. /\ body' \in Held /\ faults' \in 0 .. MaxFaults
          /\ \A q \in Requests : answer'[q] \in Answers \cup {NoAnswer}
          /\ gone' \subseteq Requests /\ inHand' \subseteq Requests
          /\ server' \in {"up", "stopping", "draining", "exited", "killed"}
          /\ serverLeft' \in Nat /\ ping' \in {"idle", "ok", "error"}
          /\ {broker', ready'} \subseteq BOOLEAN
      BY <2>1 DEF IngestInv, TypeOK
    <2>10. ASSUME NEW q \in Requests
           PROVE  /\ unsettled'[q] \subseteq ValidItems(q)'
                  /\ results'[q] \in Seq([item : ValidItems(q)', ok : BOOLEAN])
      BY <2>5, <2>7
    <2> HIDE DEF Publish
    <2> QED BY <2>2, <2>3, <2>4, <2>8, <2>9, <2>10 DEF TypeOK
  <1>2. ASSUME NEW q \in Requests PROVE ResultsInv(q)'
    BY DEF IngestInv, TypeOK, ShapeInv, ResultsInv, ValidItems
  <1>3. AcceptedIsPublished' /\ CountMatches' /\ DrainAnswers'
    BY AnswersStay, DrainStays DEF IngestInv, TypeOK
  <1>4. DrainInv'
    <2>1. /\ phase'[r] = "publishing" /\ left'[r] = PublishTimeout /\ r \notin inHand
          /\ UNCHANGED <<server, serverLeft, inHand, topic, body>> /\ Serving
      BY DEF IngestInv, TypeOK, DrainInv, Active
    <2>2. ASSUME NEW q \in Requests, q # r
          PROVE  phase'[q] = phase[q] /\ left'[q] = left[q]
      BY <2>2 DEF IngestInv, TypeOK
    <2>3. \A q \in Requests : OnTopic(q)' = OnTopic(q)
      BY <2>1 DEF OnTopic, ValidItems
    <2> QED BY <2>1, <2>2, <2>3, TimeoutAssumption DEF IngestInv, DrainInv, Serving
  <1> QED BY <1>1, <1>2, <1>3, <1>4 DEF IngestInv

LEMMA WriteHolds ==
    ASSUME IngestInv, NEW r \in Requests, NEW i \in unsettled[r], Write(r, i)
    PROVE  IngestInv'
  <1> USE DEF Write, handler, process, health
  <1>1. TypeOK' /\ ShapeInv'
    <2>1. <<r, i>> \in EventsOf(r)
      BY DEF IngestInv, TypeOK, ShapeInv, EventsOf, ValidItems
    <2>2. topic' \subseteq UNION {EventsOf(q) : q \in Requests}
      BY <2>1 DEF IngestInv, TypeOK
    <2>3. \A q \in Requests : EventsOf(q)' = EventsOf(q) /\ ValidItems(q)' = ValidItems(q)
      BY DEF EventsOf, ValidItems
    <2>4. topic' \subseteq UNION {EventsOf(q)' : q \in Requests}
      BY <2>2, <2>3
    <2>5. ShapeInv'
      BY DEF IngestInv, ShapeInv
    <2>6. ASSUME NEW q \in Requests
          PROVE  /\ unsettled'[q] \subseteq ValidItems(q)
                 /\ results'[q] \in Seq([item : ValidItems(q), ok : BOOLEAN])
                 /\ answer'[q] \in Answers \cup {NoAnswer}
                 /\ phase'[q] = "answered" <=> answer'[q] # NoAnswer
      BY DEF IngestInv, TypeOK
    <2>7. /\ body' \in Held /\ faults' \in 0..MaxFaults
          /\ phase' \in [Requests -> {"new", "binding", "publishing", "answered", "cut"}]
          /\ left' \in [Requests -> Nat]
          /\ gone' \subseteq Requests /\ inHand' \subseteq Requests
          /\ server' \in {"up", "stopping", "draining", "exited", "killed"}
          /\ serverLeft' \in Nat /\ ping' \in {"idle", "ok", "error"}
          /\ {broker', ready'} \subseteq BOOLEAN
      BY DEF IngestInv, TypeOK
    <2> QED BY <2>3, <2>4, <2>5, <2>6, <2>7 DEF TypeOK
  <1>2. ASSUME NEW q \in Requests PROVE ResultsInv(q)'
    BY DEF IngestInv, ResultsInv, ValidItems
  <1>3. AcceptedIsPublished' /\ CountMatches' /\ DrainAnswers'
    BY AnswersStay, DrainStays DEF IngestInv
  <1>4. DrainInv'
    BY DEF IngestInv, DrainInv, Serving, Active, OnTopic, ValidItems
  <1> QED BY <1>1, <1>2, <1>3, <1>4 DEF IngestInv

\* A record gets its one result, which says "ok" of what is on the topic only.
LEMMA SettleHolds ==
    ASSUME IngestInv, NEW r \in Requests, NEW i \in unsettled[r], phase[r] = "publishing",
           NEW ok \in BOOLEAN, ok => <<r, i>> \in topic, Settle(r, i, ok),
           UNCHANGED <<topic, broker, body, phase, left, answer, gone, process, health>>,
           faults' \in 0 .. MaxFaults
    PROVE  IngestInv'
  <1> USE DEF process, health
  <1> DEFINE result == [item |-> i, ok |-> ok]
  <1>1. TypeOK /\ i \in ValidItems(r) /\ result.item = i /\ result.ok = ok
    BY DEF IngestInv, TypeOK
  <1>2. result \in [item : ValidItems(r), ok : BOOLEAN]
    BY <1>1
  <1> HIDE DEF result
  <1>3. /\ results'[r] = Append(results[r], result)
        /\ unsettled'[r] = unsettled[r] \ {i}
        /\ \A q \in Requests : q # r => UNCHANGED <<results[q], unsettled[q]>>
        /\ DOMAIN results' = Requests /\ DOMAIN unsettled' = Requests
    BY DEF Settle, result, IngestInv, ShapeInv
  <1>4. /\ Append(results[r], result) \in Seq([item : ValidItems(r), ok : BOOLEAN])
        /\ DOMAIN Append(results[r], result) = 1 .. (Len(results[r]) + 1)
        /\ \A k \in 1 .. Len(results[r]) : Append(results[r], result)[k] = results[r][k]
        /\ Append(results[r], result)[Len(results[r]) + 1] = result
        /\ DOMAIN results[r] = 1 .. Len(results[r]) /\ Len(results[r]) \in Nat
    BY <1>1, <1>2, ResultsAre, AppendProperties
  <1>5. TypeOK' /\ ShapeInv'
    <2>1. \A q \in Requests : EventsOf(q)' = EventsOf(q) /\ ValidItems(q)' = ValidItems(q)
      BY DEF EventsOf, ValidItems
    <2>2. UNION {EventsOf(q)' : q \in Requests} = UNION {EventsOf(q) : q \in Requests}
      BY <2>1
    <2>3. ASSUME NEW q \in Requests
          PROVE  /\ unsettled'[q] \subseteq ValidItems(q)
                 /\ results'[q] \in Seq([item : ValidItems(q), ok : BOOLEAN])
      <3>1. CASE q = r
        BY <1>1, <1>3, <1>4, <3>1 DEF TypeOK
      <3>2. CASE q # r
        BY <1>1, <1>3, <3>2 DEF TypeOK
      <3> QED BY <3>1, <3>2
    <2>4. ShapeInv'
      BY <1>3 DEF IngestInv, ShapeInv
    <2> QED BY <1>1, <2>1, <2>2, <2>3, <2>4 DEF TypeOK
  <1>6. ASSUME NEW q \in Requests PROVE ResultsInv(q)'
    <2>1. ResultsInv(q) /\ ResultsInv(r) /\ ValidItems(q)' = ValidItems(q)
      BY DEF IngestInv, ValidItems
    <2>2. CASE q # r
      <3>1. UNCHANGED <<results[q], unsettled[q], phase[q], topic, ValidItems(q)>>
        BY <1>3, <2>1, <2>2
      <3> QED BY <2>1, <3>1 DEF ResultsInv
    <2>3. CASE q = r
      <3> DEFINE n == Len(results[r]) + 1
      <3>1. /\ DOMAIN results'[r] = DOMAIN results[r] \cup {n} /\ n \notin DOMAIN results[r]
            /\ results'[r][n] = result
            /\ \A k \in DOMAIN results[r] : results'[r][k] = results[r][k]
        BY <1>3, <1>4
      <3> HIDE DEF n
      <3>2. \A k \in DOMAIN results[r] : results[r][k].item # i
        BY <2>1 DEF ResultsInv
      <3>3. \A k \in DOMAIN results'[r] :
                /\ results'[r][k].ok => <<r, results'[r][k].item>> \in topic
                /\ results'[r][k].item \notin unsettled'[r]
        BY <1>1, <1>3, <2>1, <3>1 DEF ResultsInv
      <3>4. \A k, l \in DOMAIN results'[r] : results'[r][k].item = results'[r][l].item => k = l
        BY <1>1, <2>1, <3>1, <3>2 DEF ResultsInv
      <3>5. \A j \in ValidItems(r) :
                j \in unsettled'[r] \/ \E k \in DOMAIN results'[r] : results'[r][k].item = j
        <4> SUFFICES ASSUME NEW j \in ValidItems(r)
                     PROVE  j \in unsettled'[r] \/ \E k \in DOMAIN results'[r] : results'[r][k].item = j
          OBVIOUS
        <4>1. CASE j = i
          BY <1>1, <3>1, <4>1
        <4>2. CASE j # i
          BY <1>3, <2>1, <3>1, <4>2 DEF ResultsInv
        <4> QED BY <4>1, <4>2
      <3> QED BY <2>1, <2>3, <3>3, <3>4, <3>5 DEF ResultsInv
    <2> QED BY <2>2, <2>3
  <1>7. AcceptedIsPublished' /\ CountMatches' /\ DrainAnswers'
    BY <1>3, AnswersStay, DrainStays DEF IngestInv
  <1>8. DrainInv'
    BY DEF IngestInv, DrainInv, Serving, Active, OnTopic, ValidItems
  <1> QED BY <1>5, <1>6, <1>7, <1>8 DEF IngestInv

LEMMA ProduceHolds ==
    ASSUME IngestInv, NEW r \in Requests, NEW i \in unsettled[r],
           Ack(r, i) \/ Reject(r, i) \/ GiveUp(r, i)
    PROVE  IngestInv'
  <1>1. CASE Ack(r, i)
    <2>1. faults' \in 0 .. MaxFaults
      BY <1>1 DEF Ack, IngestInv, TypeOK
    <2> QED BY <1>1, <2>1, SettleHolds DEF Ack
  <1>2. CASE Reject(r, i)
    <2>1. faults' \in 0 .. MaxFaults
      BY <1>2, BoundsAssumption DEF Reject, Fault, IngestInv, TypeOK
    <2> QED BY <1>2, <2>1, SettleHolds DEF Reject
  <1>3. CASE GiveUp(r, i)
    <2>1. faults' \in 0 .. MaxFaults
      BY <1>3 DEF GiveUp, IngestInv, TypeOK
    <2> QED BY <1>3, <2>1, SettleHolds DEF GiveUp
  <1> QED BY <1>1, <1>2, <1>3

\* What main does about the listener.
LEMMA StopHolds ==
    ASSUME IngestInv, Sigterm \/ CloseListener
    PROVE  IngestInv'
  <1> USE DEF Sigterm, CloseListener, handler, health
  <1>1. TypeOK' /\ ShapeInv'
    <2>1. /\ server' \in {"stopping", "draining"} /\ serverLeft' \in Nat
          /\ inHand' \subseteq Requests /\ {broker', ready'} \subseteq BOOLEAN
          /\ UNCHANGED <<phase, left, answer, gone, ping, faults>>
      BY TimeoutAssumption DEF IngestInv, TypeOK
    <2>2. UNCHANGED <<topic, body, unsettled, results>>
      OBVIOUS
    <2> QED BY <2>1, <2>2, RecordsStay DEF IngestInv, TypeOK, ShapeInv
  <1>2. ASSUME NEW q \in Requests PROVE ResultsInv(q)'
    BY DEF IngestInv, ResultsInv, ValidItems
  <1>3. AcceptedIsPublished' /\ CountMatches'
    BY AnswersStay DEF IngestInv
  <1>4. DrainInv'
    <2>1. UNCHANGED <<phase, left, topic, body>> /\ Serving /\ server' \in {"stopping", "draining"}
      BY DEF Serving
    <2>2. \A q \in Requests : OnTopic(q)' = OnTopic(q)
      BY <2>1 DEF OnTopic, ValidItems
    <2>3. CASE Sigterm
      BY <2>1, <2>3 DEF IngestInv, DrainInv, Serving
    <2>4. CASE CloseListener
      <3>1. /\ inHand' = {q \in Requests : phase[q] = "publishing"}
            /\ server' = "draining" /\ serverLeft' = DrainTimeout
        BY <2>4
      <3>2. ASSUME NEW q \in Requests, phase[q] = "publishing"
            PROVE  left[q] < DrainTimeout
        BY <3>2, TimeoutAssumption DEF IngestInv, TypeOK, DrainInv
      <3> QED BY <2>1, <3>1, <3>2 DEF IngestInv, DrainInv, Serving
    <2> QED BY <2>3, <2>4
  <1>5. DrainAnswers'
    BY DEF DrainAnswers
  <1> QED BY <1>1, <1>2, <1>3, <1>4, <1>5 DEF IngestInv

\* The process ends: what has been answered stays so, the rest is cut.
LEMMA EndHolds ==
    ASSUME IngestInv, Exit \/ Kill
    PROVE  IngestInv'
  <1> PICK how \in {"exited", "killed"} : End(how)
    BY DEF Exit, Kill
  <1>1. /\ server' = how /\ serverLeft' = 0 /\ ping' = "idle" /\ ready' = FALSE
        /\ phase' = [r \in Requests |-> IF Active(r) THEN "cut" ELSE phase[r]]
        /\ left' = [r \in Requests |-> 0] /\ unsettled' = [r \in Requests |-> {}]
        /\ UNCHANGED <<topic, broker, body, results, answer, gone, inHand>>
    BY DEF End
  <1>2. faults' \in 0 .. MaxFaults
    BY BoundsAssumption DEF Exit, Kill, Fault, IngestInv, TypeOK
  <1>3. \A r \in Requests : phase'[r] = "answered" <=> phase[r] = "answered"
    BY <1>1 DEF Active
  <1>4. phase' \in [Requests -> {"new", "binding", "publishing", "answered", "cut"}]
    BY <1>1 DEF IngestInv, TypeOK
  <1>5. TypeOK' /\ ShapeInv'
    <2>1. ASSUME NEW r \in Requests
          PROVE  /\ unsettled'[r] \subseteq ValidItems(r)'
                 /\ results'[r] \in Seq([item : ValidItems(r)', ok : BOOLEAN])
                 /\ answer'[r] \in Answers \cup {NoAnswer}
                 /\ phase'[r] = "answered" <=> answer'[r] # NoAnswer
      BY <1>1, <1>3 DEF IngestInv, TypeOK, ValidItems
    <2>2. topic' \subseteq UNION {EventsOf(q)' : q \in Requests}
      BY <1>1 DEF IngestInv, TypeOK, EventsOf
    <2>3. ShapeInv'
      BY <1>1 DEF IngestInv, ShapeInv
    <2>4. /\ body' \in Held /\ left' \in [Requests -> Nat]
          /\ gone' \subseteq Requests /\ inHand' \subseteq Requests
          /\ server' \in {"up", "stopping", "draining", "exited", "killed"}
          /\ serverLeft' \in Nat /\ ping' \in {"idle", "ok", "error"}
          /\ {broker', ready'} \subseteq BOOLEAN
      BY <1>1 DEF IngestInv, TypeOK
    <2> QED BY <1>2, <1>4, <2>1, <2>2, <2>3, <2>4 DEF TypeOK
  <1>6. ASSUME NEW q \in Requests PROVE ResultsInv(q)'
    <2>1. /\ UNCHANGED <<results[q], topic, ValidItems(q)>> /\ unsettled'[q] = {}
          /\ phase'[q] # "publishing"
          /\ phase'[q] \in {"new", "binding"} => phase[q] \in {"new", "binding"}
      BY <1>1 DEF Active, ValidItems
    <2>2. ResultsInv(q)
      BY DEF IngestInv
    <2> QED BY <2>1, <2>2 DEF ResultsInv
  <1>7. AcceptedIsPublished' /\ CountMatches'
    BY <1>1, <1>3, AnswersStay DEF IngestInv
  <1>8. DrainInv'
    BY <1>1, <1>4 DEF IngestInv, TypeOK, DrainInv, Serving, Active
  <1>9. DrainAnswers'
    <2> SUFFICES ASSUME server' = "exited", NEW r \in inHand, phase[r] # "answered"
                 PROVE  OnTopic(r)
      BY <1>1, <1>3 DEF DrainAnswers, OnTopic, ValidItems, IngestInv, TypeOK
    <2>1. server = "draining" /\ (serverLeft = 0 \/ \A q \in Requests : ~ Active(q))
      BY DEF Exit, Kill, End
    <2>2. r \in Requests /\ phase[r] = "publishing"
      BY <2>1 DEF IngestInv, TypeOK, DrainInv, Serving
    <2>3. serverLeft = 0 /\ left[r] \in Nat
      BY <2>1, <2>2 DEF Active, IngestInv, TypeOK
    <2> QED BY <2>1, <2>2, <2>3 DEF IngestInv, DrainInv
  <1> QED BY <1>5, <1>6, <1>7, <1>8, <1>9 DEF IngestInv

\* Time does not pass by a deadline that can be acted upon.
LEMMA TickHolds ==
    ASSUME IngestInv, Tick
    PROVE  IngestInv'
  <1>1. /\ left' = [r \in Requests |-> IF left[r] > 0 THEN left[r] - 1 ELSE 0]
        /\ serverLeft' = IF serverLeft > 0 THEN serverLeft - 1 ELSE 0
        /\ server \in {"stopping", "draining"} => serverLeft > 0
        /\ UNCHANGED <<topic, broker, body, phase, unsettled, results, answer, gone, server, inHand>>
        /\ UNCHANGED <<ready, ping, faults>>
    BY DEF Tick, health
  <1>2. left' \in [Requests -> Nat] /\ serverLeft' \in Nat
    BY <1>1 DEF IngestInv, TypeOK
  <1>3. TypeOK' /\ ShapeInv'
    BY <1>1, <1>2, RecordsStay DEF IngestInv, TypeOK, ShapeInv
  <1>4. ASSUME NEW q \in Requests PROVE ResultsInv(q)'
    BY <1>1 DEF IngestInv, ResultsInv, ValidItems
  <1>5. AcceptedIsPublished' /\ CountMatches' /\ DrainAnswers'
    BY <1>1, AnswersStay, DrainStays DEF IngestInv
  <1>6. ASSUME NEW r \in Requests, phase[r] = "publishing", left[r] = 0
        PROVE  OnTopic(r)
    <2>1. unsettled[r] # {} /\ Unsent(r) = {}
      BY <1>6 DEF Tick, Due
    <2>2. PICK i \in unsettled[r] : <<r, i>> \in topic
      BY <2>1 DEF Unsent
    <2>3. i \in ValidItems(r)
      BY <2>2 DEF IngestInv, TypeOK
    <2> QED BY <2>2, <2>3 DEF OnTopic
  <1>7. ASSUME NEW r \in Requests, phase[r] = "publishing"
        PROVE  /\ left'[r] <= PublishTimeout
               /\ server = "draining" /\ r \in inHand => left'[r] < serverLeft' \/ OnTopic(r)
    <2>1. left[r] \in Nat /\ left[r] <= PublishTimeout /\ PublishTimeout \in Nat /\ serverLeft \in Nat
      BY <1>7, TimeoutAssumption DEF IngestInv, TypeOK, DrainInv
    <2>2. left'[r] <= PublishTimeout
      BY <1>1, <2>1
    <2>3. CASE left[r] = 0
      BY <1>6, <1>7, <2>2, <2>3
    <2>4. CASE left[r] # 0
      <3>1. left'[r] = left[r] - 1
        BY <1>1, <2>1, <2>4
      <3>2. server = "draining" /\ r \in inHand => left[r] < serverLeft \/ OnTopic(r)
        BY <1>7 DEF IngestInv, DrainInv
      <3> QED BY <1>1, <2>1, <2>2, <3>1, <3>2
    <2> QED BY <2>3, <2>4
  <1>8. DrainInv'
    <2>1. \A r \in Requests : OnTopic(r)' = OnTopic(r)
      BY <1>1 DEF OnTopic, ValidItems
    <2> QED BY <1>1, <1>7, <2>1 DEF IngestInv, DrainInv, Serving, Active
  <1> QED BY <1>3, <1>4, <1>5, <1>8 DEF IngestInv

LEMMA StepHolds == IngestInv /\ [Next]_vars => IngestInv'
  <1> SUFFICES ASSUME IngestInv, [Next]_vars PROVE IngestInv'
    OBVIOUS
  <1>1. ASSUME NEW r \in Requests, Arrive(r) \/ Handle(r) PROVE IngestInv'
    BY <1>1, ArriveHolds, BindFailsHolds, NothingToPublishHolds, PublishHolds, AnswerHolds DEF Handle
  <1>2. ASSUME NEW r \in Requests, Produce(r) PROVE IngestInv'
    BY <1>2, WriteHolds, ProduceHolds DEF Produce
  <1>3. CASE Sigterm \/ CloseListener
    BY <1>3, StopHolds
  <1>4. CASE Exit \/ Kill
    BY <1>4, EndHolds
  <1>5. CASE Tick
    BY <1>5, TickHolds
  <1>6. CASE (\E r \in Requests : HangUp(r)) \/ Ping \/ StoreReady \/ Lose \/ Recover \/ UNCHANGED vars
    BY <1>6, OthersHold
  <1> QED BY <1>1, <1>2, <1>3, <1>4, <1>5, <1>6 DEF Next

\* Every record of a request has its one result, or is waited for until the
\* deadline that comes before Shutdown's.
THEOREM IngestInvariant == Spec => []IngestInv
  BY InitHolds, StepHolds, PTL DEF Spec

\* An event that is unsettled or has a result is a valid one of its request, and
\* exactly the answered requests have an answer.
THEOREM TypeCorrect == Spec => []TypeOK
  <1>1. IngestInv => TypeOK
    BY DEF IngestInv
  <1> QED BY <1>1, IngestInvariant, PTL

\* No client is told "accepted" of an event that is not on the topic.
THEOREM AcceptedArePublished == Spec => []AcceptedIsPublished
  <1>1. IngestInv => AcceptedIsPublished
    BY DEF IngestInv
  <1> QED BY <1>1, IngestInvariant, PTL

\* The answer's number and flags are those of the results, in whatever order
\* they came back.
THEOREM CountsMatch == Spec => []CountMatches
  <1>1. IngestInv => CountMatches
    BY DEF IngestInv
  <1> QED BY <1>1, IngestInvariant, PTL

\* A graceful exit cuts off no request in hand of which nothing was sent.
THEOREM DrainsAnswer == Spec => []DrainAnswers
  <1>1. IngestInv => DrainAnswers
    BY DEF IngestInv
  <1> QED BY <1>1, IngestInvariant, PTL

=============================================================================
