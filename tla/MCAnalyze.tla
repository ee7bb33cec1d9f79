------------------------------ MODULE MCAnalyze ------------------------------
(* One text, asked of the newest event, of the oldest and of a range that   *)
(* has no events. The first two requests have one hash.                     *)
EXTENDS Analyze

Newest == [text |-> "why", scope |-> {1, 2}, limit |-> 1]
Oldest == [text |-> "why", scope |-> {1}, limit |-> 0]
Nothing == [text |-> "why", scope |-> {}, limit |-> 0]

ThreeRanges == {Newest, Oldest, Nothing}

TwoHashes == [q \in ThreeRanges |-> IF q = Nothing THEN 2 ELSE 1]
=============================================================================
