----------------------------- MODULE Configuration -----------------------------
(***************************************************************************)
(* How configuration profiles become one configuration                      *)
(* (resolve_configuration of domain/configuration/profiles.py): the         *)
(* profiles are sorted by layer and applied lowest first; two definitions   *)
(* of a key at one layer, and an override of a pinned value, are refused.   *)
(*                                                                          *)
(* A value is known by the profile that supplies it; whether it is a        *)
(* literal or a reference to a secret travels with it and decides nothing.  *)
(***************************************************************************)
EXTENDS Naturals, SequencesExt

CONSTANTS
    Keys,          \* the order in which a profile lists its variables
    Layers,        \* the layers in use, a set of numbers (ConfigurationLayer)
    ProfileNames,  \* the profiles, in the order in which they are given
    NoProfile

ASSUME ConfigurationAssumption ==
    /\ Keys \in Seq(Range(Keys)) /\ IsInjective(Keys)
    /\ ProfileNames \in Seq(Range(ProfileNames)) /\ IsInjective(ProfileNames)
    /\ Layers \subseteq Nat
    /\ NoProfile \notin Range(ProfileNames)

KeySet == Range(Keys)
NameSet == Range(ProfileNames)

\* Profile: a layer and its variables, each either absent, overridable or
\* pinned.  Names are unique within a profile by its own validation.
Profiles == [layer : Layers, variables : [KeySet -> {"absent", "overridable", "pinned"}]]

Defines(profile, k) == profile.variables[k] # "absent"

Resolved == [layer : Layers, source : NameSet, overridden : Seq(NameSet)]

VARIABLES
    profiles,   \* profiles[n]: the profile of that name
    todo,       \* the definitions still to be applied, a set of <<name, key>>
    resolved,   \* the keys resolved so far (ResolvedValue)
    pinned,     \* pinned[k]: the profile that pinned k
    claimed,    \* claimed_at_layer: the <<layer, key>> pairs defined so far
    refusal     \* the DomainRuleViolationError raised, if any

resolutionVars == <<profiles, todo, resolved, pinned, claimed, refusal>>

-----------------------------------------------------------------------------
\* The order in which the profiles are given, and in each its variables.
Place(seq, x) == CHOOSE i \in DOMAIN seq : seq[i] = x

GivenBefore(d, e) ==
    \/ Place(ProfileNames, d[1]) < Place(ProfileNames, e[1])
    \/ d[1] = e[1] /\ Place(Keys, d[2]) < Place(Keys, e[2])

PrecedesSlip(d, e) == GivenBefore(d, e)

\* sorted by layer; the sort is stable.
Precedes(d, e) ==
    LET layer(x) == profiles[x[1]].layer
    IN \/ layer(d) < layer(e)
       \/ layer(d) = layer(e) /\ GivenBefore(d, e)

Definitions == {d \in NameSet \X KeySet : Defines(profiles[d[1]], d[2])}

IsNext(d) == \A e \in todo \ {d} : Precedes(d, e)

Refuse(why) ==
    /\ refusal' = why
    /\ todo' = {}
    /\ UNCHANGED <<profiles, resolved, pinned, claimed>>

\* ResolvedValue, with what it overrides, lowest first.
Value(n, k) ==
    [layer |-> profiles[n].layer, source |-> n,
     overridden |-> IF k \in DOMAIN resolved
                    THEN Append(resolved[k].overridden, resolved[k].source)
                    ELSE <<>>]

IsPinned(k) == pinned[k] # NoProfile

\* One variable of one profile.
ApplyVariable ==
    \E d \in todo :
       LET n == d[1]
           k == d[2]
           claim == <<profiles[n].layer, k>>
       IN /\ IsNext(d)
          /\ \/ claim \in claimed /\ Refuse("same_layer")
             \/ claim \notin claimed /\ IsPinned(k) /\ Refuse("pinned")
             \/ /\ claim \notin claimed
                /\ ~IsPinned(k)
                /\ todo' = todo \ {d}
                /\ claimed' = claimed \cup {claim}
                /\ resolved' = [x \in DOMAIN resolved \cup {k} |->
                                   IF x = k THEN Value(n, k) ELSE resolved[x]]
                /\ pinned' = [pinned EXCEPT ![k] =
                                 IF profiles[n].variables[k] = "pinned" THEN n ELSE @]
                /\ UNCHANGED <<profiles, refusal>>

ResolutionStart(given) ==
    /\ profiles = given
    /\ todo = Definitions
    /\ resolved = [k \in {} |-> <<>>]
    /\ pinned = [k \in KeySet |-> NoProfile]
    /\ claimed = {}
    /\ refusal = "none"

ResolutionInit == \E given \in [NameSet -> Profiles] : ResolutionStart(given)

ResolutionSpec == ResolutionInit /\ [][ApplyVariable]_resolutionVars

-----------------------------------------------------------------------------
\* Properties.

\* What the loop keeps has the shape ResolutionTrace gives it; a refusal
\* leaves nothing to be applied.
ResolutionTypeOK ==
    /\ profiles \in [NameSet -> Profiles]
    /\ todo \subseteq NameSet \X KeySet
    /\ DOMAIN resolved \subseteq KeySet
    /\ \A k \in DOMAIN resolved : resolved[k] \in Resolved
    /\ pinned \in [KeySet -> NameSet \cup {NoProfile}]
    /\ claimed \subseteq Layers \X KeySet
    /\ refusal \in {"none", "same_layer", "pinned"}

\* The result is a function of the set of profiles and not of their order: it
\* is refused exactly when two profiles of a layer define the same key or a
\* higher one redefines a pinned key, and otherwise every key has the value of
\* the highest layer that defines it, with every lower one listed as
\* overridden, lowest first (resolve_configuration).
ResolutionIgnoresOrder ==
    todo = {} =>
        LET defining(k) == {n \in NameSet : Defines(profiles[n], k)}
            conflict(k) == \E m, n \in defining(k) :
                m # n /\ \/ profiles[m].layer = profiles[n].layer
                         \/ /\ profiles[m].layer < profiles[n].layer
                            /\ profiles[m].variables[k] = "pinned"
        IN IF \E k \in KeySet : conflict(k)
           THEN refusal # "none"
           ELSE /\ refusal = "none"
                /\ DOMAIN resolved = {k \in KeySet : defining(k) # {}}
                /\ \A k \in DOMAIN resolved :
                      LET chain == Append(resolved[k].overridden, resolved[k].source)
                      IN /\ Range(chain) = defining(k)
                         /\ Len(chain) = Cardinality(defining(k))
                         /\ \A i \in 1..Len(chain) - 1 :
                               profiles[chain[i]].layer < profiles[chain[i + 1]].layer
                         /\ resolved[k].layer = profiles[resolved[k].source].layer

=============================================================================
