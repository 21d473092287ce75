--------------------------- MODULE CircuitBreaker ---------------------------
(***************************************************************************)
(* The circuit breaker an API replica puts in front of the gateway         *)
(* (CircuitBreaker and GatewayClient._request in                           *)
(* backend/src/services/gatewayClient.js).  All requests the replica       *)
(* serves share it, and a call that is out when the breaker changes still  *)
(* reports to it when it ends.                                             *)
(*                                                                         *)
(* Time is what is left of it: breaker.wait is nextAttemptTime - Date.now()*)
(* in ticks, 0 once the cooldown is over.  The failure count is kept up to *)
(* FailureThreshold, above which the code does not tell counts apart.      *)
(***************************************************************************)
EXTENDS Naturals, FiniteSets

CONSTANTS
    Handlers,          \* requests one replica serves at the same time
    FailureThreshold,  \* failures in a row that open the circuit
    Cooldown           \* cooldownMs, in ticks

ASSUME BreakerAssumption ==
    FailureThreshold \in Nat \ {0} /\ Cooldown \in Nat \ {0} /\ IsFiniteSet(Handlers)

VARIABLES
    breaker,  \* state, failureCount and nextAttemptTime
    calling,  \* handlers with a call to the gateway in flight
    faulty    \* history: since the replica started, some call ended in a 5xx, a
              \* time-out or a network error

breakerVars == <<breaker, calling, faulty>>

Breaker ==
    [state : {"CLOSED", "OPEN", "HALF_OPEN"},
     failureCount : 0..FailureThreshold, wait : 0..Cooldown]

Closed == [state |-> "CLOSED", failureCount |-> 0, wait |-> 0]

BreakerInit ==
    /\ breaker = Closed
    /\ calling = {}
    /\ faulty = FALSE

\* canExecute: HALF_OPEN lets every call through, not one trial call.
CanExecute == breaker.state = "OPEN" => breaker.wait = 0

CallStart(h) ==
    /\ CanExecute
    /\ breaker' = IF breaker.state = "OPEN" THEN [breaker EXCEPT !.state = "HALF_OPEN"]
                                            ELSE breaker
    /\ calling' = calling \cup {h}
    /\ UNCHANGED faulty

\* ServiceUnavailableError: the gateway is not called.
CallRefused(h) ==
    /\ ~CanExecute
    /\ UNCHANGED breakerVars

\* Mutant: a success closes the circuit whatever its state.
CallOk_AlwaysCloses(h) ==
    /\ h \in calling
    /\ breaker' = Closed
    /\ calling' = calling \ {h}
    /\ UNCHANGED faulty

\* onSuccess.  A late success of a call sent before the circuit opened resets
\* the count, and closes the circuit if it is HALF_OPEN by then.
CallOk(h) ==
    /\ h \in calling
    /\ breaker' = [state |-> IF breaker.state = "HALF_OPEN" THEN "CLOSED" ELSE breaker.state,
                   failureCount |-> 0, wait |-> breaker.wait]
    /\ calling' = calling \ {h}
    /\ UNCHANGED faulty

\* onFailure: the count, and the cooldown anew when it trips; a late failure
\* while the circuit is OPEN starts the cooldown again.
OnFailure(h) ==
    LET count == IF breaker.failureCount = FailureThreshold THEN FailureThreshold
                                                            ELSE breaker.failureCount + 1
    IN  /\ breaker' = IF breaker.state = "HALF_OPEN" \/ count = FailureThreshold
                      THEN [state |-> "OPEN", failureCount |-> count, wait |-> Cooldown]
                      ELSE [breaker EXCEPT !.failureCount = count]
        /\ calling' = calling \ {h}

CallFailed(h) ==
    /\ h \in calling
    /\ OnFailure(h)
    /\ faulty' = TRUE

\* A 4xx answer is returned to the caller and reported to nobody: a HALF_OPEN
\* circuit stays HALF_OPEN.
CallRejected(h) ==
    /\ h \in calling
    /\ calling' = calling \ {h}
    /\ UNCHANGED <<breaker, faulty>>

\* The breaker is a field of the module's one client: a new process starts with
\* a closed one.
BreakerRestart ==
    /\ breaker' = Closed
    /\ calling' = {}
    /\ faulty' = FALSE

BreakerTick ==
    /\ breaker' = [breaker EXCEPT !.wait = IF @ = 0 THEN 0 ELSE @ - 1]
    /\ UNCHANGED <<calling, faulty>>

-----------------------------------------------------------------------------
BreakerTypeOK ==
    /\ breaker \in Breaker
    /\ calling \in SUBSET Handlers
    /\ faulty \in BOOLEAN

\* A tripped circuit serves its cooldown: late answers of calls sent before it
\* tripped neither close it nor half-open it (gatewayClient.js:15-39).  Only a new
\* process forgets it.
CooldownIsServed ==
    [][breaker.state = "OPEN" /\ breaker.wait > 0
         => breaker'.state = "OPEN" \/ BreakerRestart]_breakerVars

\* Wrong codes, refused cards and unknown payments, however many, do not cost
\* anyone the gateway: the circuit leaves CLOSED only if a call really failed
\* (gatewayClient.js:104, "Client errors (4xx) don't trip the circuit breaker").
NoFaultNoTrip == ~faulty => breaker = Closed
=============================================================================
