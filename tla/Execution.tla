----------------------------- MODULE Execution -----------------------------
(***************************************************************************)
(* The execution domain (src/src/execution): one plan whose steps each     *)
(* cause one external effect on a rail.  The commands are the handlers of  *)
(* engine.py; lifecycle.py holds their gates, contracts.py their source    *)
(* states and adapters.py the two ports the rail is reached through.       *)
(*                                                                         *)
(* A step's requests are numbered from 1 and the latest one is current     *)
(* (engine._latest_request).  Request n of a step stands for its record,   *)
(* its idempotency key (a key is bound to one request for ever), the       *)
(* attempt with the same number and the result recorded for it.  The rail  *)
(* is external: what really became of each request, which the engine only  *)
(* learns through submissions, queries, results and statuses.              *)
(*                                                                         *)
(* A handler that refuses a command changes nothing, so a refusal is the   *)
(* action not being enabled; so is the echo of a duplicate.  The clock of  *)
(* whoever sends commands never runs backwards.  Finality claims           *)
(* (engine.py 1875-1915) are appended and read by no handler: left out.    *)
(***************************************************************************)
EXTENDS Integers, FiniteSets

CONSTANTS
    Steps,           \* the steps of the plan
    MaxAttempts,     \* ExecutionStepSpec.max_attempts, the same for all steps
    MaxRequests,     \* bound: requests declared for one step
    NotFoundIsFinal  \* a rail that answered NOT_FOUND never runs the request

ASSUME ExecutionAssumption ==
    /\ Steps # {} /\ IsFiniteSet(Steps)
    /\ MaxAttempts \in Nat \ {0}
    /\ MaxRequests \in Nat \ {0}
    /\ NotFoundIsFinal \in BOOLEAN

VARIABLES
    plan,     \* the plan's state, "NONE" before plan.create
    step,     \* [Steps -> step state]
    issued,   \* [Steps -> number of requests declared so far]
    request,  \* [Steps -> [Numbers -> the state of that effect request]]
    attempt,  \* [Steps -> [Numbers -> the state of its attempt]]
    result,   \* [Steps -> [Numbers -> the outcome of its result record]]
    evidence, \* [Steps -> requests with an observation that counts for a retry]
    rail      \* [Steps -> [Numbers -> what the rail did with it]]

vars == <<plan, step, issued, request, attempt, result, evidence, rail>>

Numbers == 1..MaxRequests

ExecutionPlanState ==
    {"NONE", "DRAFT", "AUTHORIZED", "RUNNING", "COMPLETED", "FAILED", "CANCELLED"}
ExecutionStepState ==
    {"NONE", "PENDING", "SUBMITTED", "ACKNOWLEDGED", "SUCCEEDED", "FAILED",
     "UNKNOWN", "CANCELLED"}
EXECUTION_STEP_TERMINAL_STATES == {"SUCCEEDED", "FAILED", "CANCELLED"}
IN_FLIGHT_STEP_STATES == {"SUBMITTED", "ACKNOWLEDGED", "UNKNOWN"}
EffectRequestState == {"NONE", "REQUESTED", "SUBMITTED", "RESOLVED", "CANCELLED"}
ExecutionAttemptState ==
    {"NONE", "IN_FLIGHT", "ACKNOWLEDGED", "SUCCEEDED", "FAILED", "UNKNOWN"}
EffectOutcome == {"SUCCEEDED", "FAILED", "UNKNOWN"}

(* "pending" may still run; "void" never did and never will. *)
RailState == {"none", "pending", "done", "void"}
Live(s, n) == rail[s][n] \in {"pending", "done"}

HasRequest(s) == issued[s] > 0
Current(s) == issued[s]
InFlight(s) == step[s] \in IN_FLIGHT_STEP_STATES

Attempts(s) == {n \in Numbers : attempt[s][n] # "NONE"}
IsLastAttempt(s, n) == n \in Attempts(s) /\ \A m \in Attempts(s) : m <= n

(***************************************************************************)
(* An observation counts for a retry while it was made no earlier than the *)
(* step's last recorded transition (lifecycle.observation_is_recent).      *)
(* Moving a step in flight records a new instant, and evidence survives it *)
(* only when it carries the same instant: the comparison is >=.            *)
(***************************************************************************)
Aged(s) == {evidence, [evidence EXCEPT ![s] = @ \ {Current(s)}]}

(***************************************************************************)
(* The retry gate (lifecycle.check_retry_gate).                            *)
(***************************************************************************)
OutcomeExcluded(s) ==
    \/ step[s] = "FAILED"
    \/ /\ step[s] \in {"SUBMITTED", "ACKNOWLEDGED"}
       /\ HasRequest(s)
       /\ result[s][Current(s)] = "FAILED"
    \/ /\ step[s] = "UNKNOWN"
       /\ HasRequest(s)
       /\ Current(s) \in evidence[s]

(* Mutants: retry without evidence; the budget off by one. *)
BlindRetry(s) == step[s] \in {"FAILED", "UNKNOWN"} /\ Cardinality(Attempts(s)) < MaxAttempts
OneRetryTooMany(s) == OutcomeExcluded(s) /\ Cardinality(Attempts(s)) <= MaxAttempts

RetryGate(s) == OutcomeExcluded(s) /\ Cardinality(Attempts(s)) < MaxAttempts

(* The plan's state once the steps are st (engine._resolve_plan). *)
Resolved(st) ==
    IF \/ plan # "RUNNING"
       \/ \E s \in Steps : st[s] \notin EXECUTION_STEP_TERMINAL_STATES \ {"CANCELLED"}
    THEN plan
    ELSE IF \A s \in Steps : st[s] = "SUCCEEDED" THEN "COMPLETED" ELSE "FAILED"

(***************************************************************************)
(* The plan's commands.                                                    *)
(***************************************************************************)
Init ==
    /\ plan = "NONE"
    /\ step = [s \in Steps |-> "NONE"]
    /\ issued = [s \in Steps |-> 0]
    /\ request = [s \in Steps |-> [n \in Numbers |-> "NONE"]]
    /\ attempt = [s \in Steps |-> [n \in Numbers |-> "NONE"]]
    /\ result = [s \in Steps |-> [n \in Numbers |-> "NONE"]]
    /\ evidence = [s \in Steps |-> {}]
    /\ rail = [s \in Steps |-> [n \in Numbers |-> "none"]]

PlanCreate ==
    /\ plan = "NONE"
    /\ plan' = "DRAFT"
    /\ step' = [s \in Steps |-> "PENDING"]
    /\ UNCHANGED <<issued, request, attempt, result, evidence, rail>>

PlanAuthorize ==
    /\ plan = "DRAFT"
    /\ plan' = "AUTHORIZED"
    /\ UNCHANGED <<step, issued, request, attempt, result, evidence, rail>>

PlanStart ==
    /\ plan = "AUTHORIZED"
    /\ plan' = "RUNNING"
    /\ UNCHANGED <<step, issued, request, attempt, result, evidence, rail>>

(* Every open step, and every request such a step still has on offer. *)
CancelOpenSteps ==
    /\ plan' = "CANCELLED"
    /\ step' = [s \in Steps |-> IF step[s] \in EXECUTION_STEP_TERMINAL_STATES
                                THEN step[s] ELSE "CANCELLED"]
    /\ request' = [s \in Steps |-> [n \in Numbers |->
          IF /\ step[s] \notin EXECUTION_STEP_TERMINAL_STATES
             /\ request[s][n] = "REQUESTED"
          THEN "CANCELLED" ELSE request[s][n]]]
    /\ UNCHANGED <<issued, attempt, result, evidence, rail>>

(* Mutant: cancel over an effect in flight. *)
PlanCancelInFlight == plan \in {"DRAFT", "AUTHORIZED", "RUNNING"} /\ CancelOpenSteps

PlanCancel ==
    /\ plan \in {"DRAFT", "AUTHORIZED", "RUNNING"}
    /\ \A s \in Steps : ~InFlight(s)
    /\ CancelOpenSteps

(***************************************************************************)
(* Declaring and submitting an effect.                                     *)
(***************************************************************************)
Declare(s) ==
    /\ step[s] = "PENDING"
    /\ issued[s] < MaxRequests
    /\ issued' = [issued EXCEPT ![s] = @ + 1]
    /\ request' = [request EXCEPT ![s][issued[s] + 1] = "REQUESTED"]
    /\ UNCHANGED <<plan, step, attempt, result, evidence, rail>>

(* Mutant: the plan's state is not looked at. *)
RequestEffectUngated(s) == plan # "NONE" /\ Declare(s)

RequestEffect(s) == plan = "RUNNING" /\ Declare(s)

(* The port's answer, stored with the request, its attempt and the step,    *)
(* and r what the rail has of the request.  Submitting resolves no plan.    *)
Submittable(s) ==
    /\ HasRequest(s)
    /\ request[s][Current(s)] = "REQUESTED"
    /\ step[s] = "PENDING"

Answered(s, requestState, stepState, attemptState, r) ==
    /\ request' = [request EXCEPT ![s][Current(s)] = requestState]
    /\ step' = [step EXCEPT ![s] = stepState]
    /\ attempt' = [attempt EXCEPT ![s][Current(s)] = attemptState]
    /\ rail' = [rail EXCEPT ![s][Current(s)] = r]

(* ACCEPTED waits on the rail; REJECTED never runs; UNKNOWN, an answer lost *)
(* on the way, may have arrived or not.                                     *)
StepSubmit(s) ==
    /\ Submittable(s)
    /\ \/ Answered(s, "SUBMITTED", "SUBMITTED", "IN_FLIGHT", "pending")
       \/ Answered(s, "RESOLVED", "FAILED", "FAILED", "void")
       \/ \E r \in {"pending", "void"} : Answered(s, "SUBMITTED", "UNKNOWN", "UNKNOWN", r)
    /\ UNCHANGED <<plan, issued, result, evidence>>

StepAcknowledge(s) ==
    /\ step[s] = "SUBMITTED"
    /\ HasRequest(s) /\ request[s][Current(s)] = "SUBMITTED"
    /\ step' = [step EXCEPT ![s] = "ACKNOWLEDGED"]
    /\ \E n \in Numbers :
          /\ IsLastAttempt(s, n) /\ attempt[s][n] = "IN_FLIGHT"
          /\ attempt' = [attempt EXCEPT ![s][n] = "ACKNOWLEDGED"]
    /\ evidence' \in Aged(s)
    /\ UNCHANGED <<plan, issued, request, result, rail>>

StepTimeout(s) ==
    /\ InFlight(s)
    /\ step' = [step EXCEPT ![s] = "UNKNOWN"]
    /\ \E n \in Numbers :
          /\ IsLastAttempt(s, n)
          /\ attempt[s][n] \in {"IN_FLIGHT", "ACKNOWLEDGED", "UNKNOWN"}
          /\ attempt' = [attempt EXCEPT ![s][n] = "UNKNOWN"]
    /\ evidence' \in Aged(s)
    /\ UNCHANGED <<plan, issued, request, result, rail>>

(***************************************************************************)
(* What the rail reports.  A definitive report is true of the rail; the    *)
(* engine stores it without a check of its own.                            *)
(***************************************************************************)
Reports(outcome, state) ==
    CASE outcome = "SUCCEEDED" -> state = "done"
      [] outcome = "FAILED" -> state = "void"
      [] outcome = "NOT_FOUND" -> state \in {"pending", "void"}
      [] outcome = "UNKNOWN" -> TRUE

RecordEffectResult(s, outcome) ==
    /\ InFlight(s) /\ HasRequest(s)
    /\ result[s][Current(s)] = "NONE"
    /\ Reports(outcome, rail[s][Current(s)])
    /\ result' = [result EXCEPT ![s][Current(s)] = outcome]
    /\ \E n \in Numbers :
          /\ IsLastAttempt(s, n)
          /\ attempt' = [attempt EXCEPT ![s][n] = outcome]
    /\ request' = IF outcome = "UNKNOWN" THEN request
                  ELSE [request EXCEPT ![s][Current(s)] = "RESOLVED"]
    /\ UNCHANGED <<plan, step, issued, evidence, rail>>

(* engine.reconcile_step: only NOT_FOUND counts for a retry.  A rail whose  *)
(* NOT_FOUND is final drops a request it had not run yet.                   *)
QueryOutcome == {"SUCCEEDED", "FAILED", "NOT_FOUND", "UNKNOWN"}

RecordObservation(s, outcome) ==
    /\ InFlight(s) /\ HasRequest(s)
    /\ Reports(outcome, rail[s][Current(s)])
    /\ evidence' = IF outcome = "NOT_FOUND"
                   THEN [evidence EXCEPT ![s] = @ \cup {Current(s)}] ELSE evidence
    /\ rail' = IF outcome = "NOT_FOUND" /\ NotFoundIsFinal
               THEN [rail EXCEPT ![s][Current(s)] = "void"] ELSE rail
    /\ UNCHANGED <<plan, step, issued, request, attempt, result>>

(* A retry-safe status (FAILED, EXPIRED, RETURNED, REVERSED) is evidence;   *)
(* UNKNOWN moves the step; every other status is stored and changes nothing.*)
RecordStatus(s, status) ==
    /\ InFlight(s) /\ HasRequest(s)
    /\ \/ /\ status = "RETRY_SAFE" /\ Reports("FAILED", rail[s][Current(s)])
          /\ evidence' = [evidence EXCEPT ![s] = @ \cup {Current(s)}]
          /\ UNCHANGED step
       \/ /\ status = "UNKNOWN"
          /\ step' = [step EXCEPT ![s] = "UNKNOWN"]
          /\ evidence' \in Aged(s)
    /\ UNCHANGED <<plan, issued, request, attempt, result, rail>>

(***************************************************************************)
(* Resolving a step, and taking it up again.                               *)
(***************************************************************************)
Resolve(s, outcome) ==
    /\ InFlight(s) /\ HasRequest(s)
    /\ result[s][Current(s)] = outcome
    /\ step' = [step EXCEPT ![s] = outcome]
    /\ plan' = Resolved(step')
    /\ UNCHANGED <<issued, request, attempt, result, evidence, rail>>

StepComplete(s) == Resolve(s, "SUCCEEDED")
StepFail(s) == Resolve(s, "FAILED")

StepRetry(s) ==
    /\ RetryGate(s)
    /\ step' = [step EXCEPT ![s] = "PENDING"]
    /\ request' = IF HasRequest(s) /\ request[s][Current(s)] = "SUBMITTED"
                  THEN [request EXCEPT ![s][Current(s)] = "CANCELLED"]
                  ELSE request
    /\ UNCHANGED <<plan, issued, attempt, result, evidence, rail>>

(* The rail runs, or gives up on, a request it holds. *)
RailRuns(s, n) ==
    /\ rail[s][n] = "pending"
    /\ \E r \in {"done", "void"} : rail' = [rail EXCEPT ![s][n] = r]
    /\ UNCHANGED <<plan, step, issued, request, attempt, result, evidence>>

StepCommand(s) ==
    \/ RequestEffect(s)
    \/ StepSubmit(s)
    \/ StepAcknowledge(s)
    \/ StepTimeout(s)
    \/ \E outcome \in EffectOutcome : RecordEffectResult(s, outcome)
    \/ \E outcome \in QueryOutcome : RecordObservation(s, outcome)
    \/ \E status \in {"RETRY_SAFE", "UNKNOWN"} : RecordStatus(s, status)
    \/ StepComplete(s)
    \/ StepFail(s)
    \/ StepRetry(s)
    \/ \E n \in Numbers : RailRuns(s, n)

Next ==
    \/ PlanCreate
    \/ PlanAuthorize
    \/ PlanStart
    \/ PlanCancel
    \/ \E s \in Steps : StepCommand(s)

Spec == Init /\ [][Next]_vars

-----------------------------------------------------------------------------
(* The records stay inside the vocabularies of contracts.py. *)
ExecTypeOK ==
    /\ plan \in ExecutionPlanState
    /\ step \in [Steps -> ExecutionStepState]
    /\ issued \in [Steps -> 0..MaxRequests]
    /\ request \in [Steps -> [Numbers -> EffectRequestState]]
    /\ attempt \in [Steps -> [Numbers -> ExecutionAttemptState]]
    /\ result \in [Steps -> [Numbers -> EffectOutcome \cup {"NONE"}]]
    /\ evidence \in [Steps -> SUBSET Numbers]
    /\ rail \in [Steps -> [Numbers -> RailState]]

(***************************************************************************)
(* Whatever mixture of timeouts, queries, late results and retries a step  *)
(* goes through, at most one of its requests is ever live on the rail: the *)
(* payment is made at most once (constitution invariant 9, "idempotent     *)
(* external effects", for a rail whose NOT_FOUND is final).                *)
(***************************************************************************)
OneLiveEffect ==
    \A s \in Steps : \A m, n \in Numbers : Live(s, m) /\ Live(s, n) => m = n

(***************************************************************************)
(* A step's final word is true of the rail: a step that SUCCEEDED has an   *)
(* effect that was made, and a step that FAILED, was CANCELLED or waits to *)
(* be tried again has no effect made and none that may still be made.      *)
(***************************************************************************)
SettledStepsAreTrue ==
    \A s \in Steps :
       /\ step[s] = "SUCCEEDED" => \E n \in Numbers : rail[s][n] = "done"
       /\ step[s] \in {"PENDING", "FAILED", "CANCELLED"} =>
             \A n \in Numbers : ~Live(s, n)

(***************************************************************************)
(* The rail is only ever reached for a RUNNING plan.  The submit handler   *)
(* does not look at the plan (engine.py 1443-1473): it follows from how    *)
(* cancelling, resolving and retrying leave the requests.                  *)
(***************************************************************************)
SubmitOnlyWhileRunning ==
    [][\A s \in Steps : \A n \in Numbers :
          rail[s][n] = "none" /\ rail'[s][n] # "none" => plan = "RUNNING"]_vars

(***************************************************************************)
(* The retry budget bounds the submissions of a step, though only a retry  *)
(* counts them and a pending step may be given any number of requests.     *)
(***************************************************************************)
SubmissionsWithinBudget ==
    \A s \in Steps : Cardinality(Attempts(s)) <= MaxAttempts

=============================================================================
