------------------------------ MODULE Eligibility ------------------------------
(***************************************************************************)
(* Whether a task may run on a day (domain/scheduling/conditions.py and     *)
(* calendars.py): conditions are evaluated in order, each gives a decision, *)
(* and the decisions together give the outcome to record.                   *)
(*                                                                          *)
(* Explanations and evidence are abstracted away.  No condition of the      *)
(* repository answers "error" itself; the guard "unsure" stands for one     *)
(* supplied from outside, as the tests do.                                  *)
(***************************************************************************)
EXTENDS Sequences, Naturals, FiniteSetsExt

CONSTANTS
    Days,          \* the dates that are asked about
    WeekdayOf,     \* WeekdayOf[d]: Weekday.from_date_object(d)
    Environments,  \* where a task may run
    MaxConditions  \* bound: conditions of one evaluation

ASSUME EligibilityAssumption == MaxConditions \in Nat

Weekdays == {WeekdayOf[d] : d \in Days}

\* Calendar.__post_init__: never closed for good, no date classified in two
\* contradictory ways.
Calendars ==
    {c \in [working : SUBSET Weekdays, holidays : SUBSET Days,
            special : SUBSET Days, early : SUBSET Days] :
        /\ c.working # {} \/ c.special # {}
        /\ c.holidays \cap c.special = {}
        /\ c.holidays \cap c.early = {}}

Conditions ==
    [kind : {"switch"}, enabled : BOOLEAN]
      \cup [kind : {"calendar"}, calendar : Calendars]
      \cup [kind : {"weekdays"}, permitted : SUBSET Weekdays \ {{}}]
      \cup [kind : {"environment"}, permitted : SUBSET Environments \ {{}}]
      \cup [kind : {"unsure"}]

Reasons == {"switch_disabled", "calendar_closed", "window_closed",
            "environment_not_allowed", "condition_failed"}

\* ConditionDecision: a refusal without a reason is refused.
Decisions ==
    [verdict : {"allow"}, reason : {"none"}]
      \cup [verdict : {"deny", "error"}, reason : Reasons]

VARIABLES
    inquiry,    \* the conditions in order, the local date, the environment
    decisions   \* the decisions so far (EligibilityResult.decisions)

eligibilityVars == <<inquiry, decisions>>

-----------------------------------------------------------------------------
\* Calendar.classify, from the most specific to the least.
Classify(c, d) ==
    IF d \in c.holidays THEN "holiday"
    ELSE IF d \in c.special THEN "special_working_day"
    ELSE IF d \in c.early THEN "early_close"
    ELSE IF WeekdayOf[d] \notin c.working THEN "weekend"
    ELSE "working_day"

IsOpen(c, d) == Classify(c, d) \in {"working_day", "special_working_day", "early_close"}

Allow == [verdict |-> "allow", reason |-> "none"]
Deny(reason) == [verdict |-> "deny", reason |-> reason]

\* evaluate of each condition.
Decision(condition) ==
    CASE condition.kind = "switch" ->
            IF condition.enabled THEN Allow ELSE Deny("switch_disabled")
      [] condition.kind = "calendar" ->
            IF IsOpen(condition.calendar, inquiry.day) THEN Allow ELSE Deny("calendar_closed")
      [] condition.kind = "weekdays" ->
            IF WeekdayOf[inquiry.day] \in condition.permitted
            THEN Allow ELSE Deny("window_closed")
      [] condition.kind = "environment" ->
            IF inquiry.environment \in condition.permitted
            THEN Allow ELSE Deny("environment_not_allowed")
      [] condition.kind = "unsure" -> [verdict |-> "error", reason |-> "condition_failed"]

\* EligibilityResult.blocking_decision and outcome.

Refusals == {i \in DOMAIN decisions : decisions[i].verdict # "allow"}

\* The last refusal explains the result.
OutcomeSlip ==
    IF Refusals = {} THEN "none"
    ELSE IF decisions[Max(Refusals)].verdict = "error" THEN "condition_error" ELSE "skipped"

\* Every reason code the conditions give maps to SKIPPED.
Outcome ==
    IF Refusals = {} THEN "none"
    ELSE IF decisions[Min(Refusals)].verdict = "error" THEN "condition_error" ELSE "skipped"

Evaluate ==
    /\ Len(decisions) < Len(inquiry.conditions)
    /\ decisions' = Append(decisions, Decision(inquiry.conditions[Len(decisions) + 1]))
    /\ UNCHANGED inquiry

Inquiries ==
    [conditions : UNION {[1..n -> Conditions] : n \in 1..MaxConditions},
     day : Days, environment : Environments]

EligibilityInit == inquiry \in Inquiries /\ decisions = <<>>

EligibilitySpec == EligibilityInit /\ [][Evaluate]_eligibilityVars

-----------------------------------------------------------------------------
\* Properties.

\* Every decision that does not allow carries the reason it is explained by
\* (ConditionDecision).
EligibilityTypeOK ==
    /\ inquiry \in Inquiries
    /\ decisions \in Seq(Decisions)
    /\ Len(decisions) <= Len(inquiry.conditions)

\* A task runs on exactly the days all of its conditions permit, and the first
\* that does not decides what is recorded: the guard failed, or the task was
\* skipped, whatever the conditions after it say.  For a calendar the days it
\* is open are the ordinary week without its holidays, and the dates it names
\* as worked, wholly or in part.
EligibleWhenAllPermit ==
    LET open(c) == ({d \in Days : WeekdayOf[d] \in c.working} \ c.holidays)
                      \cup c.special \cup c.early
        permits(g) ==
            /\ g.kind = "switch" => g.enabled
            /\ g.kind = "calendar" => inquiry.day \in open(g.calendar)
            /\ g.kind = "weekdays" => WeekdayOf[inquiry.day] \in g.permitted
            /\ g.kind = "environment" => inquiry.environment \in g.permitted
            /\ g.kind # "unsure"
        refusing == {i \in DOMAIN decisions : ~permits(inquiry.conditions[i])}
    IN Outcome =
         IF refusing = {} THEN "none"
         ELSE IF inquiry.conditions[Min(refusing)].kind = "unsure"
              THEN "condition_error" ELSE "skipped"

=============================================================================
