------------------------------- MODULE MCIngest -------------------------------
(* A batch of three with an invalid event in the middle, or one with nothing *)
(* valid, next to a single event, or a body that does not parse.             *)
EXTENDS Ingest, TLC

CONSTANTS r1, r2

Batch(valid) == [parses |-> TRUE, batch |-> TRUE, valid |-> valid]

SmallBodies ==
    r1 :> {Batch(<<TRUE, FALSE, TRUE>>), Batch(<<FALSE>>)} @@
    r2 :> {[parses |-> TRUE, batch |-> FALSE, valid |-> <<TRUE>>],
           [parses |-> FALSE, batch |-> FALSE, valid |-> <<TRUE>>]}
=============================================================================
