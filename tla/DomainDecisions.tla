---------------------------- MODULE DomainDecisions ----------------------------
(***************************************************************************)
(* The three decision procedures of the domain in one system, each called   *)
(* by itself: which one is chosen at the start, and the others rest.        *)
(***************************************************************************)
EXTENDS Schedules, Eligibility, Configuration

\* What a procedure that is not called would have been called with.
CONSTANTS RestingRequest, RestingInquiry, RestingProfiles

ASSUME RestingAssumption ==
    /\ RestingRequest \in Requests
    /\ RestingInquiry \in Inquiries
    /\ RestingProfiles \in [NameSet -> Profiles]

VARIABLE procedure
vars == <<procedure, request, occurrences, inquiry, decisions,
          profiles, todo, resolved, pinned, claimed, refusal>>

PreviewRests == request = RestingRequest /\ occurrences = <<>>
EligibilityRests == inquiry = RestingInquiry /\ decisions = <<>>
ResolutionRests == ResolutionStart(RestingProfiles)

Init ==
    \/ /\ procedure = "preview"
       /\ PreviewInit /\ EligibilityRests /\ ResolutionRests
    \/ /\ procedure = "eligibility"
       /\ EligibilityInit /\ PreviewRests /\ ResolutionRests
    \/ /\ procedure = "resolution"
       /\ ResolutionInit /\ PreviewRests /\ EligibilityRests

Next ==
    /\ UNCHANGED procedure
    /\ \/ /\ procedure = "preview"
          /\ Preview
          /\ UNCHANGED <<eligibilityVars, resolutionVars>>
       \/ /\ procedure = "eligibility"
          /\ Evaluate
          /\ UNCHANGED <<previewVars, resolutionVars>>
       \/ /\ procedure = "resolution"
          /\ ApplyVariable
          /\ UNCHANGED <<previewVars, eligibilityVars>>

Spec == Init /\ [][Next]_vars

\* What each procedure keeps is what its callers are promised, and none of them
\* disturbs another.
TypeOK ==
    /\ procedure \in {"preview", "eligibility", "resolution"}
    /\ PreviewTypeOK
    /\ EligibilityTypeOK
    /\ ResolutionTypeOK
=============================================================================
