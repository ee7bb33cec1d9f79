----------------------------- MODULE EventTopic -----------------------------
(***************************************************************************)
(* The Kafka topic of security events as processor-svc sees it: a fixed    *)
(* log per partition and, for every message, the facts the service tells   *)
(* apart: does the payload unmarshal, does Validate accept it, did the     *)
(* producer set an id, would PostgreSQL accept the row.                    *)
(***************************************************************************)
EXTENDS Naturals, Sequences

CONSTANTS
    Partitions,  \* partitions of the topic
    Ids,         \* event ids that producers set
    NoId,        \* the message carries no id
    Topic,       \* Topic[q]: the log of partition q
    MaxMints     \* bound: how many random ids Enrich hands out

Messages ==
    [parses : BOOLEAN, valid : BOOLEAN, storable : BOOLEAN, id : Ids \cup {NoId}]

ASSUME TopicAssumption == Topic \in [Partitions -> Seq(Messages)]
ASSUME IdAssumption == NoId \notin Ids
ASSUME MintAssumption == MaxMints \in Nat

\* A record is named by its partition and its place in the log, counted from
\* 1: a partition's committed offset n covers its records 1..n.
Records == UNION {{q} \X (1 .. Len(Topic[q])) : q \in Partitions}

Message(r) == Topic[r[1]][r[2]]

\* decodeEvent refuses the record: it goes to the DLQ and not to the database.
Poison(r) == ~ (Message(r).parses /\ Message(r).valid)

\* The identity of a stored event is its primary key. A producer's id comes
\* back on every delivery; an id made by Enrich is fresh each time, and is
\* tagged here with the record it was made for.
EventIds == (Ids \X {0}) \cup (Records \X (1 .. MaxMints))

\* Event e is what some delivery of record r decodes to.
DecodesTo(r, e) ==
    IF Message(r).id = NoId THEN e \in {r} \X (1 .. MaxMints)
                            ELSE e = <<Message(r).id, 0>>

\* Record r needs no more work, given the events stored so far.
Settled(r, stored) == Poison(r) \/ \E e \in stored : DecodesTo(r, e)
=============================================================================
