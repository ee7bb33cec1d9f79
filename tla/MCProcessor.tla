----------------------------- MODULE MCProcessor -----------------------------
(* Small topics for the model checker, and the properties the runs add.     *)
EXTENDS ProcessorInvariant, TLC

CONSTANTS p1, p2, q1, q2, idA, idB, noId

Good(i) == [parses |-> TRUE, valid |-> TRUE, storable |-> TRUE, id |-> i]
Garbled == [Good(noId) EXCEPT !.parses = FALSE]
Invalid == [Good(noId) EXCEPT !.valid = FALSE]
Rejected(i) == [Good(i) EXCEPT !.storable = FALSE]

TopicLive == q1 :> <<Invalid, Good(idA)>>
TopicPair == q1 :> <<Good(idA), Good(idB)>>
TopicTwin == q1 :> <<Good(idA), Good(idA)>>
TopicTwo == (q1 :> <<Good(noId), Garbled>>) @@ (q2 :> <<Rejected(idB), Good(idA)>>)
TopicRejected == q1 :> <<Rejected(idA), Good(idB)>>

Symmetry == Permutations(Replicas)
=============================================================================
