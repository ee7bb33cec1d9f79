------------------------------- MODULE Breaker -------------------------------
(***************************************************************************)
(* The circuit breaker (gobreaker) as analyzer-svc sets it up: it opens    *)
(* after a run of failures, stays open for a while, and then lets one call *)
(* through, whose result closes it or opens it again. Results of calls     *)
(* that were let through before its last change of state are ignored.      *)
(***************************************************************************)
EXTENDS Naturals

CONSTANTS
    MaxFailures,   \* consecutive failures that the closed breaker bears
    OpenTimeout    \* Settings.Timeout, in ticks

ASSUME BreakerAssumption == MaxFailures \in Nat /\ OpenTimeout \in Nat \ {0}

\* current holds the callers let through since the last change of state.
Closed == [state |-> "closed", failures |-> 0, left |-> 0, current |-> {}]
Opened == [state |-> "open", failures |-> 0, left |-> OpenTimeout, current |-> {}]
HalfOpen == [state |-> "halfOpen", failures |-> 0, left |-> 0, current |-> {}]

Breakers(callers) ==
    [state : {"closed", "open", "halfOpen"}, failures : 0 .. MaxFailures,
     left : 0 .. OpenTimeout, current : SUBSET callers]

\* Mutant: the half-open breaker lets every call through.
AllowsProbes(b) == b.state # "open"

\* beforeRequest: a half-open breaker lets one call through.
Allows(b) ==
    \/ b.state = "closed"
    \/ b.state = "halfOpen" /\ b.current = {}

Admit(b, caller) == [b EXCEPT !.current = @ \cup {caller}]

\* afterRequest, with no error and with one.
Succeed(b, caller) ==
    CASE caller \notin b.current -> b
      [] b.state = "halfOpen"    -> Closed
      [] OTHER                   -> [b EXCEPT !.failures = 0, !.current = @ \ {caller}]

\* Mutant: it takes one failure more to open the breaker.
FailCallOneMore(b, caller) ==
    CASE caller \notin b.current -> b
      [] b.state = "halfOpen" \/ b.failures > MaxFailures -> Opened
      [] OTHER -> [b EXCEPT !.failures = @ + 1, !.current = @ \ {caller}]

FailCall(b, caller) ==
    CASE caller \notin b.current -> b
      [] b.state = "halfOpen" \/ b.failures = MaxFailures -> Opened
      [] OTHER -> [b EXCEPT !.failures = @ + 1, !.current = @ \ {caller}]

\* The open breaker's time runs out.
Elapse(b) ==
    CASE b.left = 0 -> b
      [] b.left = 1 -> HalfOpen
      [] OTHER      -> [b EXCEPT !.left = @ - 1]
=============================================================================
