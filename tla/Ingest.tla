-------------------------------- MODULE Ingest --------------------------------
(***************************************************************************)
(* ingest-svc: one process that takes events by POST, singly or in         *)
(* batches, and answers once the Kafka producer has settled each of them;  *)
(* with its health check of the brokers and its graceful shutdown.         *)
(*                                                                         *)
(* The producer settles the records of a request one by one, in an order   *)
(* of its own. Time is counted in ticks: a deadline that has come is acted *)
(* upon before the next tick, and what waits for nothing takes no time.    *)
(***************************************************************************)
EXTENDS Naturals, Sequences, FiniteSets

CONSTANTS
    Requests,        \* POST requests
    Bodies,          \* Bodies[r]: what the body of r may hold
    NoAnswer,        \* the request has not been answered
    ReadTimeout,     \* the HTTP server's limit on reading a request
    PublishTimeout,  \* the limit of publishRecords on ProduceSync
    StopDelay,       \* how long main sleeps after SIGTERM
    DrainTimeout,    \* how long main then waits for the handlers
    MaxFaults        \* bound: outages of the brokers, records they refuse,
                     \* clients that go away and processes killed, together

\* A body that parses lists its events, and which of them Validate accepts.
ASSUME BodyAssumption ==
    /\ Bodies \in [Requests -> SUBSET [parses : BOOLEAN, batch : BOOLEAN, valid : Seq(BOOLEAN)]]
    /\ \A r \in Requests : \A b \in Bodies[r] : b.batch \/ Len(b.valid) = 1
ASSUME TimeoutAssumption ==
    /\ ReadTimeout \in Nat /\ PublishTimeout \in Nat
    /\ StopDelay \in Nat /\ DrainTimeout \in Nat
    /\ PublishTimeout < DrainTimeout
ASSUME BoundsAssumption == MaxFaults \in Nat

VARIABLES
    \* the topic and its brokers
    topic,     \* events on the topic
    broker,    \* the brokers are reachable
    \* a request and its handler
    body,      \* what the request holds
    phase,     \* "new", "binding", "publishing", "answered" or "cut"
    left,      \* ticks until the phase's deadline
    unsettled, \* records that ProduceSync still waits for
    results,   \* ProduceResults, in the order the promises came back
    answer,    \* the response
    gone,      \* requests whose client went away
    \* the process
    server,    \* "up", "stopping" (asleep), "draining", "exited" or "killed"
    serverLeft,\* ticks until main goes on
    inHand,    \* requests being published when the listener was closed
    ready,     \* s.ready
    ping,      \* the health check: "idle", or the result in its hand
    faults     \* outages, refusals, clients gone and kills so far

handler == <<phase, left, unsettled, results, answer>>
process == <<server, serverLeft, inHand>>
health == <<ready, ping>>
vars == <<topic, broker, body, handler, gone, process, health, faults>>

\* The events of a request are named by their place in its body; toEvent gives
\* each an id of its own, so no two requests ever share one.
EventsOf(r) == {r} \X DOMAIN body[r].valid
ValidItems(r) == {i \in DOMAIN body[r].valid : body[r].valid[i]}

Held == {b \in [Requests -> UNION {Bodies[r] : r \in Requests}] : \A r \in Requests : b[r] \in Bodies[r]}

Fault == faults < MaxFaults /\ faults' = faults + 1

Active(r) == phase[r] \in {"binding", "publishing"}
Serving == server \in {"up", "stopping", "draining"}

Init ==
    /\ topic = {} /\ broker = TRUE
    /\ body \in Held
    /\ phase = [r \in Requests |-> "new"]
    /\ left = [r \in Requests |-> 0]
    /\ unsettled = [r \in Requests |-> {}]
    /\ results = [r \in Requests |-> <<>>]
    /\ answer = [r \in Requests |-> NoAnswer]
    /\ gone = {}
    /\ server = "up" /\ serverLeft = 0 /\ inHand = {}
    /\ ready = FALSE /\ ping = "idle"
    /\ faults = 0

-----------------------------------------------------------------------------
(* The handlers: handleIngest and handleIngestBatch                        *)

\* The listener takes connections until Shutdown closes it, ready or not.
Arrive(r) ==
    /\ phase[r] = "new" /\ server \in {"up", "stopping"}
    /\ phase' = [phase EXCEPT ![r] = "binding"]
    /\ left' = [left EXCEPT ![r] = ReadTimeout]
    /\ UNCHANGED <<topic, broker, body, unsettled, results, answer, gone, process, health, faults>>

Respond(r, response) ==
    /\ phase' = [phase EXCEPT ![r] = "answered"]
    /\ left' = [left EXCEPT ![r] = 0]
    /\ answer' = [answer EXCEPT ![r] = response]

Refusal == [status |-> 400, accepted |-> 0, flags |-> <<>>]

\* c.Bind fails: a body that is no JSON, or that does not come in time.
BindFails(r) ==
    /\ phase[r] = "binding"
    /\ ~ body[r].parses \/ left[r] = 0 \/ r \in gone
    /\ Respond(r, Refusal)
    /\ UNCHANGED <<topic, broker, body, unsettled, results, gone, process, health, faults>>

\* A single event that is not valid, or a batch without events, is refused. A
\* batch without a valid event is accepted, with nothing to publish.
NothingToPublish(r) ==
    /\ phase[r] = "binding" /\ body[r].parses /\ ValidItems(r) = {}
    /\ IF body[r].batch /\ body[r].valid # <<>>
         THEN Respond(r, [status |-> 202, accepted |-> 0, flags |-> body[r].valid])
         ELSE Respond(r, Refusal)
    /\ UNCHANGED <<topic, broker, body, unsettled, results, gone, process, health, faults>>

\* Mutant: an event that is not valid is published with the others.
PublishAll(r) ==
    /\ phase[r] = "binding" /\ body[r].parses /\ body[r].valid # <<>>
    /\ phase' = [phase EXCEPT ![r] = "publishing"]
    /\ left' = [left EXCEPT ![r] = PublishTimeout]
    /\ unsettled' = [unsettled EXCEPT ![r] = DOMAIN body[r].valid]
    /\ UNCHANGED <<topic, broker, body, results, answer, gone, process, health, faults>>

\* publishRecords: every valid event is handed to the producer.
Publish(r) ==
    /\ phase[r] = "binding" /\ body[r].parses /\ ValidItems(r) # {}
    /\ phase' = [phase EXCEPT ![r] = "publishing"]
    /\ left' = [left EXCEPT ![r] = PublishTimeout]
    /\ unsettled' = [unsettled EXCEPT ![r] = ValidItems(r)]
    /\ UNCHANGED <<topic, broker, body, results, answer, gone, process, health, faults>>

\* A promise comes back.
Settle(r, i, ok) ==
    /\ unsettled' = [unsettled EXCEPT ![r] = @ \ {i}]
    /\ results' = [results EXCEPT ![r] = Append(@, [item |-> i, ok |-> ok])]

\* The record's produce request is sent, and gets to the brokers.
Write(r, i) ==
    /\ phase[r] = "publishing" /\ i \in unsettled[r] /\ broker
    /\ <<r, i>> \notin topic
    /\ topic' = topic \cup {<<r, i>>}
    /\ UNCHANGED <<broker, body, handler, gone, process, health, faults>>

Ack(r, i) ==
    /\ phase[r] = "publishing" /\ i \in unsettled[r] /\ broker
    /\ <<r, i>> \in topic
    /\ Settle(r, i, TRUE)
    /\ UNCHANGED <<topic, broker, body, phase, left, answer, gone, process, health, faults>>

\* The brokers, or the producer, will not have the record.
Reject(r, i) ==
    /\ phase[r] = "publishing" /\ i \in unsettled[r]
    /\ <<r, i>> \notin topic
    /\ Fault
    /\ Settle(r, i, FALSE)
    /\ UNCHANGED <<topic, broker, body, phase, left, answer, gone, process, health>>

\* Mutant: ProduceSync is given the request's own context, which has no deadline.
GiveUpGone(r, i) ==
    /\ phase[r] = "publishing" /\ i \in unsettled[r] /\ r \in gone
    /\ Settle(r, i, FALSE)
    /\ UNCHANGED <<topic, broker, body, phase, left, answer, gone, process, health, faults>>

\* The context ends, by its deadline or with the client: a record that has not
\* been sent is given up. One that has been sent may be given up too, when an
\* answer allows it; until there is one the producer holds on to it.
GiveUp(r, i) ==
    /\ phase[r] = "publishing" /\ i \in unsettled[r]
    /\ left[r] = 0 \/ r \in gone
    /\ Settle(r, i, FALSE)
    /\ UNCHANGED <<topic, broker, body, phase, left, answer, gone, process, health, faults>>

\* Mutant: the k-th result is taken for the k-th record's.
FlagsByPlace(r) ==
    [i \in DOMAIN body[r].valid |->
        i \in ValidItems(r) /\ results[r][Cardinality({j \in ValidItems(r) : j <= i})].ok]

\* An event's response says accepted from the start, and is set right when the
\* record's result is an error.
Flags(r) ==
    [i \in DOMAIN body[r].valid |->
        i \in ValidItems(r) /\ ~ \E k \in DOMAIN results[r] : results[r][k] = [item |-> i, ok |-> FALSE]]

\* Mutant: the counter is incremented ahead of the check for an error.
AcceptedOfAll(r) == Len(results[r])

Accepted(r) == Cardinality({k \in DOMAIN results[r] : results[r][k].ok})

\* A single event that failed is answered with 503, a batch always with 202.
Answer(r) ==
    /\ phase[r] = "publishing" /\ unsettled[r] = {}
    /\ IF body[r].batch \/ Accepted(r) = Len(results[r])
         THEN Respond(r, [status |-> 202, accepted |-> Accepted(r), flags |-> Flags(r)])
         ELSE Respond(r, [status |-> 503, accepted |-> 0, flags |-> <<FALSE>>])
    /\ UNCHANGED <<topic, broker, body, unsettled, results, gone, process, health, faults>>

HangUp(r) ==
    /\ Active(r) /\ r \notin gone
    /\ Fault
    /\ gone' = gone \cup {r}
    /\ UNCHANGED <<topic, broker, body, handler, process, health>>

-----------------------------------------------------------------------------
(* main: SIGTERM, the sleep, e.Shutdown                                    *)

Sigterm ==
    /\ server = "up"
    /\ server' = "stopping"
    /\ serverLeft' = StopDelay
    /\ ready' = FALSE
    /\ UNCHANGED <<topic, broker, body, handler, gone, inHand, ping, faults>>

CloseListener ==
    /\ server = "stopping" /\ serverLeft = 0
    /\ server' = "draining"
    /\ serverLeft' = DrainTimeout
    /\ inHand' = {r \in Requests : phase[r] = "publishing"}
    /\ UNCHANGED <<topic, broker, body, handler, gone, health, faults>>

\* The process ends, and with it what its handlers were doing.
End(how) ==
    /\ server' = how
    /\ serverLeft' = 0
    /\ ready' = FALSE /\ ping' = "idle"
    /\ phase' = [r \in Requests |-> IF Active(r) THEN "cut" ELSE phase[r]]
    /\ left' = [r \in Requests |-> 0]
    /\ unsettled' = [r \in Requests |-> {}]
    /\ UNCHANGED <<topic, broker, body, results, answer, gone, inHand>>

\* Mutant: main returns after its sleep, without waiting for the handlers.
ExitAtOnce == server = "draining" /\ End("exited") /\ UNCHANGED faults

\* Shutdown returns when the last handler has, or when its time is up.
Exit ==
    /\ server = "draining"
    /\ serverLeft = 0 \/ \A r \in Requests : ~ Active(r)
    /\ End("exited")
    /\ UNCHANGED faults

Kill ==
    /\ Serving
    /\ Fault
    /\ End("killed")

-----------------------------------------------------------------------------
(* startKafkaBrokersHealthCheck                                            *)

Ping ==
    /\ Serving /\ ping = "idle"
    /\ ping' = IF broker THEN "ok" ELSE "error"
    /\ UNCHANGED <<topic, broker, body, handler, gone, process, ready, faults>>

\* Mutant: a failing ping is logged and leaves the flag as it is.
StoreReadyOnce ==
    /\ Serving /\ ping # "idle"
    /\ ready' = (ready \/ ping = "ok")
    /\ ping' = "idle"
    /\ UNCHANGED <<topic, broker, body, handler, gone, process, faults>>

\* The flag is swapped to the ping's result, whatever main has stored.
StoreReady ==
    /\ Serving /\ ping # "idle"
    /\ ready' = (ping = "ok")
    /\ ping' = "idle"
    /\ UNCHANGED <<topic, broker, body, handler, gone, process, faults>>

-----------------------------------------------------------------------------
(* The brokers and time                                                    *)

Lose ==
    /\ broker
    /\ Fault
    /\ broker' = FALSE
    /\ UNCHANGED <<topic, body, handler, gone, process, health>>

Recover ==
    /\ ~ broker
    /\ broker' = TRUE
    /\ UNCHANGED <<topic, body, handler, gone, process, health, faults>>

Unsent(r) == {i \in unsettled[r] : <<r, i>> \notin topic}

\* A deadline has come, or a handler has all it waits for.
Due(r) ==
    \/ phase[r] = "binding" /\ (left[r] = 0 \/ r \in gone)
    \/ Unsent(r) # {} /\ (left[r] = 0 \/ r \in gone)
    \/ phase[r] = "publishing" /\ unsettled[r] = {}

Tick ==
    /\ \A r \in Requests : ~ Due(r)
    /\ server \in {"stopping", "draining"} => serverLeft > 0
    /\ serverLeft > 0 \/ \E r \in Requests : left[r] > 0
    /\ left' = [r \in Requests |-> IF left[r] > 0 THEN left[r] - 1 ELSE 0]
    /\ serverLeft' = IF serverLeft > 0 THEN serverLeft - 1 ELSE 0
    /\ UNCHANGED <<topic, broker, body, phase, unsettled, results, answer, gone, server, inHand, health, faults>>

Handle(r) == BindFails(r) \/ NothingToPublish(r) \/ Publish(r) \/ Answer(r)

Produce(r) ==
    \E i \in unsettled[r] : Write(r, i) \/ Ack(r, i) \/ Reject(r, i) \/ GiveUp(r, i)

Next ==
    \/ \E r \in Requests : Arrive(r) \/ Handle(r) \/ Produce(r) \/ HangUp(r)
    \/ Sigterm \/ CloseListener \/ Exit \/ Kill
    \/ Ping \/ StoreReady
    \/ Lose \/ Recover \/ Tick

Spec == Init /\ [][Next]_vars

\* Time passes, handlers and main run on, an unsent record whose context has
\* ended is given up, the health check's ticker fires, and brokers that stay
\* reachable answer. They need not come back, nor clients stay.
FairSpec ==
    /\ Spec
    /\ WF_vars(Tick \/ CloseListener \/ Exit)
    /\ WF_vars(Ping \/ StoreReady)
    /\ \A r \in Requests :
          WF_vars(\/ BindFails(r) \/ Answer(r)
                  \/ \E i \in Unsent(r) : GiveUp(r, i)
                  \/ \E i \in unsettled[r] : Ack(r, i))

-----------------------------------------------------------------------------
Answers == [status : {202, 400, 503}, accepted : Nat, flags : Seq(BOOLEAN)]
ASSUME NoAnswerAssumption == NoAnswer \notin Answers

TypeOK ==
    /\ body \in Held /\ faults \in 0..MaxFaults
    /\ topic \subseteq UNION {EventsOf(r) : r \in Requests}
    /\ phase \in [Requests -> {"new", "binding", "publishing", "answered", "cut"}]
    /\ left \in [Requests -> Nat]
    /\ \A r \in Requests :
          /\ unsettled[r] \subseteq ValidItems(r)
          /\ results[r] \in Seq([item : ValidItems(r), ok : BOOLEAN])
          /\ answer[r] \in Answers \cup {NoAnswer}
          /\ phase[r] = "answered" <=> answer[r] # NoAnswer
    /\ gone \subseteq Requests /\ inHand \subseteq Requests
    /\ server \in {"up", "stopping", "draining", "exited", "killed"}
    /\ serverLeft \in Nat
    /\ ping \in {"idle", "ok", "error"}
    /\ {broker, ready} \subseteq BOOLEAN

\* A client is told "accepted" only of events that are on the topic, whatever
\* order their results come back in and whichever of them fail: the response
\* has said so since before the records were sent.
AcceptedIsPublished ==
    \A r \in Requests : phase[r] = "answered" =>
        \A i \in DOMAIN answer[r].flags : answer[r].flags[i] => <<r, i>> \in topic

\* The number in the answer is the number of events it calls accepted, and an
\* event that is on the topic and acknowledged is among them.
CountMatches ==
    \A r \in Requests : phase[r] = "answered" =>
        /\ answer[r].accepted = Cardinality({i \in DOMAIN answer[r].flags : answer[r].flags[i]})
        /\ \A k \in DOMAIN results[r] :
              results[r][k].ok => answer[r].status = 202 /\ answer[r].flags[results[r][k].item]

\* The producer waits for the brokers' answer about a record that it has sent.
InDoubt(r) == \E i \in unsettled[r] : <<r, i>> \in topic

\* A graceful exit cuts off no request whose events were being published when
\* the listener closed, unless one of them was sent: publishing is given up
\* before Shutdown is, and only what was sent outlasts its deadline.
DrainAnswers ==
    server = "exited" =>
        \A r \in inHand : phase[r] = "answered" \/ \E i \in ValidItems(r) : <<r, i>> \in topic

\* Every request that a handler has taken on comes to its end, also when the
\* brokers stay away for good, unless it is in doubt when they go. (A request
\* is taken on once, so this is said of all of them together.)
RequestsEnd ==
    []<>(\A r \in Requests : Active(r) => InDoubt(r) /\ ~ broker)

\* While the process is not being stopped, readiness comes to say whether the
\* brokers are reachable, although the ping's result is old when it is stored.
ReadyFollowsBrokers ==
    /\ <>[](server = "up" /\ broker) => <>[]ready
    /\ <>[](server = "up" /\ ~ broker) => <>[]~ready
=============================================================================
