-------------------------- MODULE RequestResponse --------------------------
(***************************************************************************)
(* What a client and a server promise their applications, without packets, *)
(* sessions, timers or a network: a request is executed at most once, and  *)
(* its caller gets the response to that very request or an error, once.    *)
(* EndToEnd implements it.                                                 *)
(***************************************************************************)
EXTENDS Naturals

CONSTANTS
  Requests,          \* the requests, one caller each
  Errors             \* what a caller may be told instead of a response

VARIABLES
  outcome,           \* per request, what its caller knows
  executions         \* per request, how often a handler was called for it

vars == <<outcome, executions>>

Idle == [kind |-> "Idle"]
Waiting == [kind |-> "Waiting"]
ResponseTo(r) == [kind |-> "Response", payload |-> r]

Init ==
  /\ outcome = [r \in Requests |-> Idle]
  /\ executions = [r \in Requests |-> 0]

Ask(r) ==
  /\ outcome[r] = Idle
  /\ outcome' = [outcome EXCEPT ![r] = Waiting]
  /\ UNCHANGED executions

\* The caller may have given up already.
Execute(r) ==
  /\ outcome[r] # Idle
  /\ executions[r] = 0
  /\ executions' = [executions EXCEPT ![r] = 1]
  /\ UNCHANGED outcome

Answer(r) ==
  /\ outcome[r] = Waiting
  /\ executions[r] = 1
  /\ outcome' = [outcome EXCEPT ![r] = ResponseTo(r)]
  /\ UNCHANGED executions

\* Some callers are told of an error, executed or not.
Fail(R) ==
  /\ R # {}
  /\ \A r \in R : outcome[r] = Waiting /\ outcome'[r] \in Errors
  /\ outcome' = [r \in Requests |-> IF r \in R THEN outcome'[r] ELSE outcome[r]]
  /\ UNCHANGED executions

Next ==
  \/ \E r \in Requests : Ask(r) \/ Execute(r) \/ Answer(r)
  \/ \E R \in SUBSET Requests : Fail(R)

Spec == Init /\ [][Next]_vars
=============================================================================
