------------------------------- MODULE Outcomes -------------------------------
(***************************************************************************)
(* The vocabulary of executions (domain/execution/vocabulary.py), what a    *)
(* process result is (domain/execution/results.py), how it is classified    *)
(* and when it is retried (domain/policies/classification.py).              *)
(*                                                                          *)
(* Exit codes are abstracted to whether they are among the successful ones, *)
(* reason codes to the outcome they belong to.                              *)
(***************************************************************************)
EXTENDS Naturals

States == {"pending", "evaluating", "running", "cancelling", "finished"}

LegalTransitions ==
    [pending    |-> {"evaluating", "finished"},
     evaluating |-> {"running", "finished"},
     running    |-> {"cancelling", "finished"},
     cancelling |-> {"finished"},
     finished   |-> {}]

OutcomesThatRan ==
    {"succeeded", "failed", "outcome_failed", "timed_out", "cancelled"}

OutcomesThatDidNotRun ==
    {"launch_failed", "skipped", "blocked", "condition_error",
     "infrastructure_failed"}

Outcomes == OutcomesThatRan \cup OutcomesThatDidNotRun \cup {"unknown"}

OutcomesRequiringReason ==
    {"skipped", "blocked", "condition_error", "infrastructure_failed",
     "timed_out", "cancelled"}

OutcomesPermittingReason == OutcomesRequiringReason \cup {"failed"}

RetryEligibility ==
    [o \in Outcomes |->
        CASE o \in {"failed", "launch_failed", "condition_error",
                    "infrastructure_failed"}     -> "always"
          [] o \in {"outcome_failed", "timed_out"} -> "by_policy"
          [] OTHER                               -> "never"]

-----------------------------------------------------------------------------
\* Process results.

Terminations == {"exited", "signalled", "not_started", "abandoned"}

Causes == {"not_terminated", "run_timeout", "cancellation_requested",
           "superseded", "external"}

\* Only an exited process reports an exit code; good says whether it is one of
\* the expected ones.
ProcessResults ==
    {r \in [termination : Terminations, cause : Causes, good : BOOLEAN] :
        r.good => r.termination = "exited"}

WasTerminated(r) == r.cause # "not_terminated"

\* What the evaluators of expected outcomes found.  The runtime passes none.
Evidence == [errored : BOOLEAN, failed : 0..1]
NoEvidence == [errored |-> FALSE, failed |-> 0]

-----------------------------------------------------------------------------
\* Classification.

TerminationClassification ==
    [run_timeout            |-> "timed_out",
     cancellation_requested |-> "cancelled",
     superseded             |-> "cancelled",
     external               |-> "failed"]

\* The first arm that applies decides, in this order.
ClassifyProcessResult(r, e) ==
    IF r.termination = "not_started"       THEN "launch_failed"
    ELSE IF r.termination = "abandoned"    THEN "unknown"
    ELSE IF WasTerminated(r)               THEN TerminationClassification[r.cause]
    ELSE IF r.termination = "signalled"    THEN "failed"
    ELSE IF ~r.good                        THEN "failed"
    ELSE IF e.errored \/ e.failed > 0      THEN "outcome_failed"
    ELSE "succeeded"

\* A reason code is recorded with a termination's cause and with an external
\* signal; every other arm of the classification records none.
HasReason(r) ==
    /\ r.termination \notin {"not_started", "abandoned"}
    /\ WasTerminated(r) \/ r.termination = "signalled"

-----------------------------------------------------------------------------
\* Retries.

Policies == [maxAttempts : Nat \ {0}, retryTimeouts : BOOLEAN,
             retryOutcomeFailures : BOOLEAN]

OptedIn(o, policy) ==
    IF o = "outcome_failed" THEN policy.retryOutcomeFailures
                            ELSE policy.retryTimeouts

DecideRetry(o, policy, attempts) ==
    /\ RetryEligibility[o] # "never"
    /\ policy.maxAttempts > 1
    /\ attempts < policy.maxAttempts
    /\ RetryEligibility[o] = "by_policy" => OptedIn(o, policy)
=============================================================================
