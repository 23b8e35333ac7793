---------------------------- MODULE DecisionsProofs ----------------------------
(***************************************************************************)
(* Theorems about the decision procedures of the domain, each by itself and *)
(* together, for any calendars, conditions, profiles and keys.              *)
(***************************************************************************)
EXTENDS DomainDecisions, FiniteSetTheorems, TLAPS

-----------------------------------------------------------------------------
\* Least and greatest numbers.

(***************************************************************************)
(* A set of natural numbers that is not empty has a least element: the      *)
(* intervals from 0 to its elements have a smallest one.                    *)
(***************************************************************************)
LEMMA Least ==
  ASSUME NEW T, T \subseteq Nat, T # {}
  PROVE  \E n \in T : \A m \in T : n <= m
<1> DEFINE Initials == {0..n : n \in T}
<1>1. Initials # {} /\ Initials \subseteq FiniteSubsetsOf(Nat)
  <2>1. ASSUME NEW n \in T PROVE 0..n \in FiniteSubsetsOf(Nat)
    <3>1. IsFiniteSet(0..n)
      BY FS_Interval
    <3>2. QED
      BY <3>1 DEF FiniteSubsetsOf
  <2>2. QED
    BY <2>1
<1>2. PICK I \in Initials :
          \A J \in Initials : <<J, I>> \notin StrictSubsetOrdering(Nat)
  <2> HIDE DEF Initials
  <2>1. QED
    BY <1>1, WFMin, FS_StrictSubsetOrderingWellFounded
<1>3. PICK n \in T : I = 0..n
  OBVIOUS
<1>4. ASSUME NEW m \in T, m < n PROVE FALSE
  <2>1. 0..m \in Initials /\ 0..m \subseteq 0..n /\ n \in 0..n /\ n \notin 0..m
        /\ 0..n \subseteq Nat
    BY <1>4
  <2>2. <<0..m, 0..n>> \in StrictSubsetOrdering(Nat)
    BY <2>1 DEF StrictSubsetOrdering
  <2>3. QED
    BY <1>2, <1>3, <2>1, <2>2
<1>5. QED
  BY <1>3, <1>4

LEMMA MinOf ==
  ASSUME NEW T, T \subseteq Nat, T # {}
  PROVE  Min(T) \in T /\ \A m \in T : Min(T) <= m
BY Least DEF Min

-----------------------------------------------------------------------------
\* Eligibility.

\* Each decision so far is the one its condition gives: they come in order.
DecisionsFollow ==
    /\ inquiry \in Inquiries
    /\ decisions = [i \in 1..Len(decisions) |-> Decision(inquiry.conditions[i])]
    /\ Len(decisions) \in Nat
    /\ Len(decisions) <= Len(inquiry.conditions)

(***************************************************************************)
(* A valid calendar is open on the ordinary week without its holidays, and  *)
(* on the dates it names as worked.                                         *)
(***************************************************************************)
LEMMA CalendarOpen ==
  ASSUME NEW c \in Calendars, NEW d \in Days
  PROVE  IsOpen(c, d) <=>
            d \in ({e \in Days : WeekdayOf[e] \in c.working} \ c.holidays)
                     \cup c.special \cup c.early
<1>1. /\ c.holidays \cap c.special = {}
      /\ c.holidays \cap c.early = {}
      /\ c.special \subseteq Days /\ c.early \subseteq Days
  BY DEF Calendars
<1>2. QED
  BY <1>1 DEF IsOpen, Classify

(***************************************************************************)
(* What is asked: one or more conditions, each of one of the five kinds.    *)
(***************************************************************************)
LEMMA Asked ==
  ASSUME inquiry \in Inquiries
  PROVE  /\ inquiry.day \in Days
         /\ inquiry.conditions \in Seq(Conditions)
<1>1. PICK n \in 1..MaxConditions : inquiry.conditions \in [1..n -> Conditions]
  BY DEF Inquiries
<1>2. n \in Nat
  BY <1>1, EligibilityAssumption
<1>3. QED
  BY <1>1, <1>2 DEF Inquiries

LEMMA DecisionType ==
  ASSUME inquiry \in Inquiries, NEW c \in Conditions
  PROVE  /\ Decision(c) \in Decisions
         /\ Decision(c).verdict \in {"allow", "deny", "error"}
         /\ Decision(c).verdict = "error" <=> c.kind = "unsure"
<1>1. c.kind \in {"switch", "calendar", "weekdays", "environment", "unsure"}
  BY DEF Conditions
<1>2. QED
  BY <1>1 DEF Decision, Decisions, Reasons, Allow, Deny

(***************************************************************************)
(* The decisions are made one by one, each from its condition.              *)
(***************************************************************************)
THEOREM DecisionsInOrder == EligibilitySpec => [](DecisionsFollow /\ EligibilityTypeOK)
<1>1. DecisionsFollow => EligibilityTypeOK
  <2>1. ASSUME DecisionsFollow, NEW i \in 1..Len(decisions)
        PROVE  decisions[i] \in Decisions
    BY <2>1, Asked, DecisionType DEF DecisionsFollow
  <2>2. QED
    BY <2>1, Asked DEF DecisionsFollow, EligibilityTypeOK
<1>2. EligibilityInit => DecisionsFollow
  BY Asked DEF EligibilityInit, DecisionsFollow
<1>3. ASSUME DecisionsFollow, [Evaluate]_eligibilityVars
      PROVE  DecisionsFollow'
  <2>1. CASE Evaluate
    <3>1. /\ decisions \in Seq(Decisions)
          /\ decisions' = Append(decisions, Decision(inquiry.conditions[Len(decisions) + 1]))
          /\ inquiry' = inquiry
          /\ Len(decisions) < Len(inquiry.conditions)
      BY <1>1, <1>3, <2>1 DEF Evaluate, EligibilityTypeOK
    <3>2. /\ Len(decisions') = Len(decisions) + 1
          /\ DOMAIN decisions' = 1..Len(decisions')
          /\ \A i \in 1..Len(decisions) : decisions'[i] = decisions[i]
          /\ decisions'[Len(decisions) + 1] = Decision(inquiry.conditions[Len(decisions) + 1])
          /\ decisions' = [i \in 1..Len(decisions') |-> decisions'[i]]
      <4>1. inquiry.conditions[Len(decisions) + 1] \in Conditions
        BY <1>3, <3>1, Asked DEF DecisionsFollow
      <4>2. PICK last \in Decisions :
                last = Decision(inquiry.conditions[Len(decisions) + 1])
        BY <1>3, <4>1, DecisionType DEF DecisionsFollow
      <4>3. decisions' = Append(decisions, last)
        BY <3>1, <4>2
      <4>4. decisions' \in Seq(Decisions) /\ Len(decisions') = Len(decisions) + 1
        BY <3>1, <4>3
      <4>5. QED
        BY <3>1, <4>2, <4>3, <4>4
    <3>3. \A i \in 1..Len(decisions') : decisions'[i] = Decision(inquiry.conditions[i])
      BY <1>3, <3>2 DEF DecisionsFollow
    <3>4. \A c : Decision(c)' = Decision(c)
      BY <3>1 DEF Decision
    <3>5. QED
      BY <1>3, <3>1, <3>2, <3>3, <3>4, Asked DEF DecisionsFollow
  <2>2. CASE UNCHANGED eligibilityVars
    BY <1>3, <2>2 DEF eligibilityVars, DecisionsFollow, Decision
  <2>3. QED
    BY <1>3, <2>1, <2>2
<1>4. QED
  BY <1>1, <1>2, <1>3, PTL DEF EligibilitySpec

(***************************************************************************)
(* A task is eligible exactly where every condition permits it, and the     *)
(* first that does not decides the outcome (EligibilityResult.outcome).     *)
(***************************************************************************)
THEOREM EligibleExactly == EligibilitySpec => []EligibleWhenAllPermit
<1> DEFINE open(c) == ({d \in Days : WeekdayOf[d] \in c.working} \ c.holidays)
                         \cup c.special \cup c.early
           permits(g) ==
             /\ g.kind = "switch" => g.enabled
             /\ g.kind = "calendar" => inquiry.day \in open(g.calendar)
             /\ g.kind = "weekdays" => WeekdayOf[inquiry.day] \in g.permitted
             /\ g.kind = "environment" => inquiry.environment \in g.permitted
             /\ g.kind # "unsure"
           refusing == {i \in DOMAIN decisions : ~permits(inquiry.conditions[i])}
<1>1. ASSUME inquiry \in Inquiries, NEW g \in Conditions
      PROVE  Decision(g).verdict = "allow" <=> permits(g)
  <2>1. g.kind = "calendar" => g.calendar \in Calendars
    BY DEF Conditions
  <2>2. inquiry.day \in Days
    BY <1>1, Asked
  <2>3. g.kind = "calendar" =>
          (IsOpen(g.calendar, inquiry.day) <=> inquiry.day \in open(g.calendar))
    BY <2>1, <2>2, CalendarOpen
  <2>4. g.kind \in {"switch", "calendar", "weekdays", "environment", "unsure"}
    BY DEF Conditions
  <2> HIDE DEF open
  <2>5. CASE g.kind = "switch"
    BY <2>5 DEF Decision, Allow, Deny
  <2>6. CASE g.kind = "calendar"
    BY <2>3, <2>6 DEF Decision, Allow, Deny
  <2>7. CASE g.kind = "weekdays"
    BY <2>7 DEF Decision, Allow, Deny
  <2>8. CASE g.kind = "environment"
    BY <2>8 DEF Decision, Allow, Deny
  <2>9. CASE g.kind = "unsure"
    BY <2>9 DEF Decision, Allow, Deny
  <2>10. QED
    BY <2>4, <2>5, <2>6, <2>7, <2>8, <2>9
<1>2. ASSUME DecisionsFollow PROVE EligibleWhenAllPermit
  <2> HIDE DEF permits
  <2>1. \A i \in DOMAIN decisions :
           /\ inquiry.conditions[i] \in Conditions
           /\ decisions[i] = Decision(inquiry.conditions[i])
    BY <1>2, Asked DEF DecisionsFollow
  <2>2. Refusals = refusing
    BY <1>1, <1>2, <2>1 DEF Refusals, DecisionsFollow
  <2>3. refusing # {} => Min(refusing) \in refusing
    <3>1. refusing \subseteq Nat
      BY <1>2 DEF DecisionsFollow
    <3> HIDE DEF refusing
    <3>2. QED
      BY <3>1, MinOf
  <2>4. refusing # {} =>
          (decisions[Min(refusing)].verdict = "error"
             <=> inquiry.conditions[Min(refusing)].kind = "unsure")
    BY <1>2, <2>1, <2>3, DecisionType DEF DecisionsFollow
  <2>5. Outcome = IF refusing = {} THEN "none"
                  ELSE IF inquiry.conditions[Min(refusing)].kind = "unsure"
                       THEN "condition_error" ELSE "skipped"
    <3> HIDE DEF refusing
    <3>1. QED
      BY <2>2, <2>4 DEF Outcome
  <2>6. QED
    BY <2>5 DEF EligibleWhenAllPermit, permits
<1>3. QED
  BY <1>2, DecisionsInOrder, PTL

-----------------------------------------------------------------------------
\* Configuration.

Done == Definitions \ todo
DoneOf(k) == {n \in NameSet : <<n, k>> \in Done}
LayerOf(n) == profiles[n].layer
PinnedBy(n, k) == profiles[n].variables[k] = "pinned"

\* Two of the profiles cannot both define k.
Conflict(k, names) ==
    \E m, n \in names : m # n /\ \/ LayerOf(m) = LayerOf(n)
                                 \/ LayerOf(m) < LayerOf(n) /\ PinnedBy(m, k)

\* The profiles that gave k a value, lowest first.
Chain(v) == Append(v.overridden, v.source)
Traces(v, names) ==
    /\ Range(Chain(v)) = names
    /\ IsFiniteSet(names)
    /\ Len(Chain(v)) = Cardinality(names)
    /\ \A i \in 1..Len(Chain(v)) - 1 : LayerOf(Chain(v)[i]) < LayerOf(Chain(v)[i + 1])
    /\ v.layer = LayerOf(v.source)

\* What the loop knows of a key is what the definitions so far make of it.
Settled(k, names) ==
    /\ pinned[k] # NoProfile <=> \E n \in names : PinnedBy(n, k)
    /\ ~Conflict(k, names)
    /\ k \in DOMAIN resolved <=> names # {}
    /\ k \in DOMAIN resolved => Traces(resolved[k], names)

\* The definitions so far come before those to come.
ResolutionInv ==
    /\ ResolutionTypeOK
    /\ todo \subseteq Definitions
    /\ refusal = "none" =>
          /\ \A d \in Done, e \in todo : Precedes(d, e)
          /\ claimed = {<<LayerOf(d[1]), d[2]>> : d \in Done}
          /\ \A k \in KeySet : Settled(k, DoneOf(k))
    /\ refusal # "none" =>
          todo = {} /\ \E k \in KeySet : Conflict(k, DoneOf(k))

LEMMA ProfileType ==
  ASSUME ResolutionTypeOK, NEW n \in NameSet
  PROVE  LayerOf(n) \in Layers /\ LayerOf(n) \in Nat
BY ConfigurationAssumption DEF ResolutionTypeOK, Profiles, LayerOf

(***************************************************************************)
(* There is always a definition that is next: the loop does not stop while  *)
(* something is to be done.                                                 *)
(***************************************************************************)
LEMMA SomethingIsNext ==
  ASSUME ResolutionTypeOK, todo # {}
  PROVE  \E d \in todo : IsNext(d)
<1> DEFINE layer(d) == LayerOf(d[1])
           name(d) == Place(ProfileNames, d[1])
           key(d) == Place(Keys, d[2])
<1>1. ASSUME NEW seq, seq \in Seq(Range(seq)), NEW x \in Range(seq)
      PROVE  Place(seq, x) \in Nat /\ seq[Place(seq, x)] = x
  <2>1. DOMAIN seq \subseteq Nat /\ \E i \in DOMAIN seq : seq[i] = x
    BY <1>1 DEF Range
  <2>2. QED
    BY <2>1 DEF Place
<1>2. ASSUME NEW d \in todo
      PROVE  /\ layer(d) \in Nat /\ name(d) \in Nat /\ key(d) \in Nat
             /\ ProfileNames[name(d)] = d[1] /\ Keys[key(d)] = d[2]
             /\ d = <<d[1], d[2]>>
  <2>1. d \in NameSet \X KeySet
    BY DEF ResolutionTypeOK
  <2>2. d[1] \in NameSet /\ d[2] \in KeySet /\ d = <<d[1], d[2]>>
    BY <2>1
  <2>3. layer(d) \in Nat
    BY <2>2, ProfileType
  <2>4. name(d) \in Nat /\ ProfileNames[name(d)] = d[1]
    BY <1>1, <2>2, ConfigurationAssumption DEF NameSet
  <2>5. key(d) \in Nat /\ Keys[key(d)] = d[2]
    BY <1>1, <2>2, ConfigurationAssumption DEF KeySet
  <2>6. QED
    BY <2>2, <2>3, <2>4, <2>5
<1> HIDE DEF layer, name, key
<1>3. PICK a \in todo : \A e \in todo : layer(a) <= layer(e)
  <2> DEFINE T == {layer(d) : d \in todo}
  <2>1. T \subseteq Nat /\ T # {}
    BY <1>2
  <2>2. PICK l \in T : \A m \in T : l <= m
    <3> HIDE DEF T
    <3>1. QED
      BY <2>1, Least
  <2>3. QED
    BY <2>2
<1>4. PICK b \in todo : /\ layer(b) = layer(a)
                        /\ \A e \in todo : layer(e) = layer(a) => name(b) <= name(e)
  <2> DEFINE T == {name(d) : d \in {e \in todo : layer(e) = layer(a)}}
  <2>1. T \subseteq Nat /\ T # {}
    BY <1>2
  <2>2. PICK l \in T : \A m \in T : l <= m
    <3> HIDE DEF T
    <3>1. QED
      BY <2>1, Least
  <2>3. QED
    BY <2>2
<1>5. PICK c \in todo : /\ c[1] = b[1]
                        /\ \A e \in todo : e[1] = b[1] => key(c) <= key(e)
  <2> DEFINE T == {key(d) : d \in {e \in todo : e[1] = b[1]}}
  <2>1. T \subseteq Nat /\ T # {}
    BY <1>2
  <2>2. PICK l \in T : \A m \in T : l <= m
    <3> HIDE DEF T
    <3>1. QED
      BY <2>1, Least
  <2>3. QED
    BY <2>2
<1>6. layer(c) = layer(a) /\ name(c) = name(b)
  BY <1>4, <1>5 DEF layer, name
<1>7. ASSUME NEW e \in todo \ {c}
      PROVE  Precedes(c, e)
  <2>1. layer(c) < layer(e) \/ (layer(c) = layer(e) /\ GivenBefore(c, e))
    <3>1. CASE layer(e) # layer(a)
      BY <1>2, <1>3, <1>6, <3>1
    <3>2. CASE layer(e) = layer(a) /\ e[1] # b[1]
      <4>1. name(e) # name(b)
        BY <1>2, <3>2
      <4>2. name(c) < name(e)
        BY <1>2, <1>4, <1>6, <3>2, <4>1
      <4>3. QED
        BY <1>6, <3>2, <4>2 DEF GivenBefore, name
    <3>3. CASE e[1] = b[1]
      <4>1. e[2] # c[2]
        BY <1>2, <1>5, <3>3
      <4>2. key(e) # key(c)
        BY <1>2, <4>1
      <4>3. key(c) < key(e)
        BY <1>2, <1>5, <3>3, <4>2
      <4>4. layer(c) = layer(e) /\ c[1] = e[1]
        BY <1>5, <3>3 DEF layer
      <4>5. QED
        BY <4>3, <4>4 DEF GivenBefore, key
    <3>4. QED
      BY <3>1, <3>2, <3>3
  <2>2. QED
    BY <2>1 DEF Precedes, layer, LayerOf
<1>8. QED
  BY <1>7 DEF IsNext

(***************************************************************************)
(* The profile of the next definition is above those that gave the key a    *)
(* value before, unless the loop refuses it.                                *)
(***************************************************************************)
LEMMA NextIsAbove ==
  ASSUME ResolutionInv, refusal = "none", NEW d \in todo, IsNext(d)
  PROVE  /\ d[1] \in NameSet /\ d[2] \in KeySet /\ d = <<d[1], d[2]>>
         /\ d[1] \notin DoneOf(d[2])
         /\ \A m \in DoneOf(d[2]) : LayerOf(m) <= LayerOf(d[1])
         /\ <<LayerOf(d[1]), d[2]>> \in claimed
               <=> \E m \in DoneOf(d[2]) : LayerOf(m) = LayerOf(d[1])
<1> DEFINE n == d[1]
           k == d[2]
<1>1. d \in NameSet \X KeySet
  BY DEF ResolutionInv, ResolutionTypeOK
<1>2. n \in NameSet /\ k \in KeySet /\ d = <<n, k>>
  BY <1>1
<1>3. n \notin DoneOf(k)
  BY <1>2 DEF DoneOf, Done
<1>4. ASSUME NEW m \in DoneOf(k)
      PROVE  LayerOf(m) <= LayerOf(n)
  <2>1. m \in NameSet /\ Precedes(<<m, k>>, d)
    BY DEF DoneOf, ResolutionInv
  <2>2. LayerOf(m) \in Nat /\ LayerOf(n) \in Nat
    BY <1>2, <2>1, ProfileType DEF ResolutionInv
  <2>3. LayerOf(m) < LayerOf(n) \/ LayerOf(m) = LayerOf(n)
    BY <2>1 DEF Precedes, LayerOf
  <2>4. QED
    BY <2>2, <2>3
<1>5. <<LayerOf(n), k>> \in claimed <=> \E m \in DoneOf(k) : LayerOf(m) = LayerOf(n)
  <2>1. claimed = {<<LayerOf(e[1]), e[2]>> : e \in Done}
    BY DEF ResolutionInv
  <2>2. ASSUME <<LayerOf(n), k>> \in claimed
        PROVE  \E m \in DoneOf(k) : LayerOf(m) = LayerOf(n)
    <3>1. PICK e \in Done : LayerOf(e[1]) = LayerOf(n) /\ e[2] = k
      BY <2>1, <2>2
    <3>2. e \in NameSet \X KeySet
      BY DEF Done, Definitions
    <3>3. e[1] \in NameSet /\ e = <<e[1], e[2]>>
      BY <3>2
    <3>4. e[1] \in DoneOf(k)
      BY <3>1, <3>3 DEF DoneOf
    <3>5. QED
      BY <3>1, <3>4
  <2>3. ASSUME NEW m \in DoneOf(k), LayerOf(m) = LayerOf(n)
        PROVE  <<LayerOf(n), k>> \in claimed
    <3>1. <<m, k>> \in Done /\ <<m, k>>[1] = m /\ <<m, k>>[2] = k
      BY DEF DoneOf
    <3>2. QED
      BY <2>1, <2>3, <3>1
  <2>4. QED
    BY <2>2, <2>3
<1>6. QED
  BY <1>2, <1>3, <1>4, <1>5

LEMMA StartSettles == ResolutionInit => ResolutionInv
<1> SUFFICES ASSUME NEW given \in [NameSet -> Profiles], ResolutionStart(given)
             PROVE  ResolutionInv
  BY DEF ResolutionInit
<1>1. Done = {} /\ \A k : DoneOf(k) = {}
  BY DEF ResolutionStart, Done, DoneOf
<1>2. ResolutionTypeOK
  BY DEF ResolutionStart, ResolutionTypeOK, Definitions
<1>3. \A k \in KeySet : Settled(k, {})
  BY DEF ResolutionStart, Settled, Conflict
<1>4. QED
  BY <1>1, <1>2, <1>3 DEF ResolutionStart, ResolutionInv

(***************************************************************************)
(* A refusal is justified: two profiles conflict.                           *)
(***************************************************************************)
LEMMA RefusalKeeps ==
  ASSUME ResolutionInv, refusal = "none", NEW d \in todo, IsNext(d),
         \/ <<LayerOf(d[1]), d[2]>> \in claimed /\ Refuse("same_layer")
         \/ IsPinned(d[2]) /\ Refuse("pinned")
  PROVE  ResolutionInv'
<1> DEFINE n == d[1]
           k == d[2]
<1>1. /\ n \in NameSet /\ k \in KeySet /\ d = <<n, k>>
      /\ n \notin DoneOf(k)
      /\ \A m \in DoneOf(k) : LayerOf(m) <= LayerOf(n)
      /\ <<LayerOf(n), k>> \in claimed <=> \E m \in DoneOf(k) : LayerOf(m) = LayerOf(n)
  BY NextIsAbove
<1>2. PICK m \in DoneOf(k) : \/ LayerOf(m) = LayerOf(n)
                             \/ LayerOf(m) < LayerOf(n) /\ PinnedBy(m, k)
  <2>1. CASE <<LayerOf(n), k>> \in claimed
    BY <1>1, <2>1
  <2>2. CASE IsPinned(k)
    <3>1. PICK m \in DoneOf(k) : PinnedBy(m, k)
      BY <1>1, <2>2 DEF ResolutionInv, Settled, IsPinned
    <3>2. m \in NameSet /\ LayerOf(m) \in Nat /\ LayerOf(n) \in Nat
      BY <1>1, <3>1, ProfileType DEF ResolutionInv, DoneOf
    <3>3. QED
      BY <1>1, <3>1, <3>2
  <2>3. QED
    BY <2>1, <2>2
<1>3. /\ profiles' = profiles /\ todo' = {} /\ refusal' \in {"same_layer", "pinned"}
      /\ UNCHANGED <<resolved, pinned, claimed>>
  BY DEF Refuse
<1>4. m \in DoneOf(k)' /\ n \in DoneOf(k)'
  BY <1>1, <1>3 DEF DoneOf, Done, Definitions, Defines, ResolutionInv
<1>5. Conflict(k, DoneOf(k))'
  <2>1. m # n
    BY <1>1
  <2>2. \/ LayerOf(m)' = LayerOf(n)'
        \/ LayerOf(m)' < LayerOf(n)' /\ PinnedBy(m, k)'
    BY <1>2, <1>3 DEF LayerOf, PinnedBy
  <2>3. QED
    BY <1>4, <2>1, <2>2 DEF Conflict
<1>6. ResolutionTypeOK'
  BY <1>3 DEF ResolutionInv, ResolutionTypeOK
<1>7. QED
  BY <1>1, <1>3, <1>5, <1>6 DEF ResolutionInv

(***************************************************************************)
(* A profile above all in the chain of a key is appended to it.             *)
(***************************************************************************)
LEMMA ChainGrows ==
  ASSUME NEW v \in Resolved, NEW names \in SUBSET NameSet, Traces(v, names),
         NEW n \in NameSet \ names,
         \A m \in names : LayerOf(m) < LayerOf(n),
         NEW w \in Resolved, w.source = n, w.overridden = Chain(v), w.layer = LayerOf(n)
  PROVE  Traces(w, names \cup {n})
<1> DEFINE old == Chain(v)
           new == Chain(w)
           N == Len(old)
<1>1. /\ old \in Seq(NameSet)
      /\ new = Append(old, n) /\ new \in Seq(NameSet)
  BY DEF Resolved, Chain
<1>2. Range(old) = names /\ IsFiniteSet(names) /\ N = Cardinality(names)
      /\ \A i \in 1..N - 1 : LayerOf(old[i]) < LayerOf(old[i + 1])
  BY DEF Traces
<1> HIDE DEF old, new
<1>3. /\ N \in Nat /\ Len(new) = N + 1 /\ new[N + 1] = n
      /\ \A i \in 1..N : new[i] = old[i] /\ old[i] \in names
      /\ DOMAIN old = 1..N /\ DOMAIN new = 1..N + 1
  BY <1>1, <1>2 DEF Range
<1>4. Range(new) = names \cup {n}
  <2>1. \A x \in names : \E i \in 1..N : old[i] = x
    BY <1>2, <1>3 DEF Range
  <2>2. \A i \in 1..N + 1 : i = N + 1 \/ i \in 1..N
    BY <1>3
  <2>3. N + 1 \in 1..N + 1 /\ \A i \in 1..N : i \in 1..N + 1
    BY <1>3
  <2>4. \A i \in 1..N + 1 : new[i] \in names \cup {n}
    BY <1>3, <2>2
  <2>5. \A x \in names \cup {n} : \E i \in 1..N + 1 : new[i] = x
    BY <1>3, <2>1, <2>3
  <2>6. Range(new) = {new[i] : i \in 1..N + 1}
    BY <1>3 DEF Range
  <2>7. QED
    BY <2>4, <2>5, <2>6
<1>5. IsFiniteSet(names \cup {n}) /\ Cardinality(names \cup {n}) = Len(new)
  BY <1>2, <1>3, FS_AddElement
<1>6. ASSUME NEW i \in 1..Len(new) - 1
      PROVE  LayerOf(new[i]) < LayerOf(new[i + 1])
  <2>1. i \in 1..N
    BY <1>3
  <2>2. CASE i = N
    BY <1>3, <2>1, <2>2
  <2>3. CASE i # N
    <3>1. i \in 1..N - 1 /\ i + 1 \in 1..N
      <4>1. N \in Nat
        BY <1>3
      <4> HIDE DEF N
      <4>2. QED
        BY <2>1, <2>3, <4>1
    <3>2. LayerOf(old[i]) < LayerOf(old[i + 1])
      BY <1>2, <3>1
    <3>3. new[i] = old[i] /\ new[i + 1] = old[i + 1]
      BY <1>3, <2>1, <3>1
    <3>4. QED
      BY <3>2, <3>3
  <2>4. QED
    BY <2>2, <2>3
<1>7. QED
  BY <1>4, <1>5, <1>6 DEF Traces, new

LEMMA OneElement ==
  ASSUME NEW x
  PROVE  IsFiniteSet({x}) /\ Cardinality({x}) = 1
<1>1. {x} = {} \cup {x} /\ x \notin {}
  OBVIOUS
<1>2. IsFiniteSet({}) /\ Cardinality({}) = 0
  BY FS_EmptySet
<1>3. IsFiniteSet({} \cup {x}) /\ Cardinality({} \cup {x}) = 0 + 1
  BY <1>1, <1>2, FS_AddElement
<1>4. QED
  BY <1>1, <1>3

LEMMA FirstInChain ==
  ASSUME NEW w \in Resolved, w.overridden = <<>>, w.layer = LayerOf(w.source)
  PROVE  Traces(w, {w.source})
<1>1. Chain(w) = <<w.source>>
  BY DEF Chain
<1>2. IsFiniteSet({w.source}) /\ Cardinality({w.source}) = 1
  BY OneElement
<1>3. Range(<<w.source>>) = {w.source}
  BY DEF Range
<1>4. QED
  BY <1>1, <1>2, <1>3 DEF Traces

(***************************************************************************)
(* A definition that is not refused becomes the value of its key, above     *)
(* those it overrides.                                                      *)
(***************************************************************************)
LEMMA DefinitionKeeps ==
  ASSUME ResolutionInv, refusal = "none", NEW d \in todo, IsNext(d),
         <<LayerOf(d[1]), d[2]>> \notin claimed,
         ~IsPinned(d[2]),
         todo' = todo \ {d},
         claimed' = claimed \cup {<<LayerOf(d[1]), d[2]>>},
         resolved' = [x \in DOMAIN resolved \cup {d[2]} |->
                         IF x = d[2] THEN Value(d[1], d[2]) ELSE resolved[x]],
         pinned' = [pinned EXCEPT ![d[2]] = IF PinnedBy(d[1], d[2]) THEN d[1] ELSE @],
         UNCHANGED <<profiles, refusal>>
  PROVE  ResolutionInv'
<1> DEFINE n == d[1]
           k == d[2]
           value == Value(n, k)
<1>1. /\ n \in NameSet /\ k \in KeySet /\ d = <<n, k>>
      /\ n \notin DoneOf(k)
      /\ \A m \in DoneOf(k) : LayerOf(m) <= LayerOf(n)
      /\ <<LayerOf(n), k>> \in claimed <=> \E m \in DoneOf(k) : LayerOf(m) = LayerOf(n)
  BY NextIsAbove
<1>2. /\ ResolutionTypeOK
      /\ LayerOf(n) \in Layers /\ LayerOf(n) \in Nat
      /\ pinned[k] = NoProfile
      /\ \A j \in KeySet : DoneOf(j) \subseteq NameSet /\ Settled(j, DoneOf(j))
  BY <1>1, ProfileType DEF ResolutionInv, IsPinned, DoneOf
<1>3. \A m \in DoneOf(k) : LayerOf(m) \in Nat /\ LayerOf(m) < LayerOf(n)
  <2>1. ASSUME NEW m \in DoneOf(k)
        PROVE  LayerOf(m) \in Nat /\ LayerOf(m) < LayerOf(n)
    <3>1. m \in NameSet /\ LayerOf(m) \in Nat
      BY <1>1, <1>2, ProfileType
    <3>2. LayerOf(m) # LayerOf(n) /\ LayerOf(m) <= LayerOf(n)
      BY <1>1
    <3>3. QED
      BY <1>2, <3>1, <3>2
  <2>2. QED
    BY <2>1
\* Where the definition went.
<1>4. /\ Definitions' = Definitions
      /\ Done' = Done \cup {d}
      /\ DoneOf(k)' = DoneOf(k) \cup {n}
      /\ \A j \in KeySet \ {k} : DoneOf(j)' = DoneOf(j)
  <2>1. Definitions' = Definitions
    BY DEF Definitions, Defines
  <2>2. Done' = Done \cup {d}
    BY <2>1 DEF Done, ResolutionInv
  <2>3. \A m, j : <<m, j>> \in Done' <=> <<m, j>> \in Done \/ (m = n /\ j = k)
    BY <1>1, <2>2
  <2>4. QED
    BY <1>1, <2>1, <2>2, <2>3 DEF DoneOf
<1>5. /\ \A m : LayerOf(m)' = LayerOf(m)
      /\ \A m, j : PinnedBy(m, j)' = PinnedBy(m, j)
      /\ \A e, g : Precedes(e, g)' = Precedes(e, g)
  BY DEF LayerOf, PinnedBy, Precedes
\* The value.
<1>6. /\ value \in Resolved
      /\ value.source = n /\ value.layer = LayerOf(n)
      /\ value.overridden = IF k \in DOMAIN resolved THEN Chain(resolved[k]) ELSE <<>>
  <2>1. k \in DOMAIN resolved => Chain(resolved[k]) \in Seq(NameSet)
    BY <1>2 DEF ResolutionTypeOK, Resolved, Chain
  <2>2. <<>> \in Seq(NameSet)
    OBVIOUS
  <2>3. QED
    BY <1>1, <1>2, <2>1, <2>2 DEF Value, Resolved, Chain, LayerOf
<1> HIDE DEF value
<1>7. Traces(value, DoneOf(k) \cup {n})
  <2>1. CASE k \in DOMAIN resolved
    <3>1. resolved[k] \in Resolved /\ Traces(resolved[k], DoneOf(k))
      BY <1>1, <1>2, <2>1 DEF ResolutionTypeOK, Settled
    <3>2. QED
      BY <1>1, <1>2, <1>3, <1>6, <2>1, <3>1, ChainGrows
  <2>2. CASE k \notin DOMAIN resolved
    <3>1. DoneOf(k) = {}
      BY <1>1, <1>2, <2>2 DEF Settled
    <3>2. Traces(value, {n})
      BY <1>6, <2>2, FirstInChain
    <3>3. QED
      BY <3>1, <3>2
  <2>3. QED
    BY <2>1, <2>2
<1>8. /\ DOMAIN resolved' = DOMAIN resolved \cup {k}
      /\ resolved'[k] = value
      /\ \A j \in DOMAIN resolved \ {k} : resolved'[j] = resolved[j]
  BY DEF value
<1>9. ResolutionTypeOK'
  <2>1. pinned' \in [KeySet -> NameSet \cup {NoProfile}]
    BY <1>1, <1>2 DEF ResolutionTypeOK
  <2>2. claimed' \subseteq Layers \X KeySet /\ todo' \subseteq NameSet \X KeySet
    BY <1>1, <1>2 DEF ResolutionTypeOK
  <2>3. DOMAIN resolved' \subseteq KeySet /\ \A j \in DOMAIN resolved' : resolved'[j] \in Resolved
    BY <1>1, <1>2, <1>6, <1>8 DEF ResolutionTypeOK
  <2>4. QED
    BY <1>2, <2>1, <2>2, <2>3 DEF ResolutionTypeOK
\* The keys.
<1>10. ASSUME NEW j \in KeySet \ {k}
       PROVE  Settled(j, DoneOf(j))'
  <2>1. pinned'[j] = pinned[j] /\ (j \in DOMAIN resolved' <=> j \in DOMAIN resolved)
    BY <1>1, <1>2, <1>8 DEF ResolutionTypeOK
  <2>2. j \in DOMAIN resolved => resolved'[j] = resolved[j]
    BY <1>8
  <2>3. Settled(j, DoneOf(j))
    BY <1>2
  <2>4. QED
    BY <1>4, <1>5, <2>1, <2>2, <2>3 DEF Settled, Conflict, Traces
<1>11. Settled(k, DoneOf(k))'
  <2> DEFINE names == DoneOf(k) \cup {n}
  <2>1. Settled(k, DoneOf(k))
    BY <1>1, <1>2
  <2>2. \A m \in DoneOf(k) : ~PinnedBy(m, k)
    BY <1>2, <2>1 DEF Settled
  <2>3. pinned'[k] # NoProfile <=> \E m \in names : PinnedBy(m, k)
    <3>1. pinned'[k] = IF PinnedBy(n, k) THEN n ELSE NoProfile
      BY <1>1, <1>2 DEF ResolutionTypeOK
    <3>2. n # NoProfile
      BY <1>1, ConfigurationAssumption DEF NameSet
    <3>3. QED
      BY <2>2, <3>1, <3>2
  <2>4. ~Conflict(k, names)
    <3>1. ASSUME NEW x \in names, NEW y \in names, x # y
          PROVE  LayerOf(x) # LayerOf(y) /\ ~(LayerOf(x) < LayerOf(y) /\ PinnedBy(x, k))
      <4>1. CASE x \in DoneOf(k) /\ y \in DoneOf(k)
        BY <2>1, <3>1, <4>1 DEF Settled, Conflict
      <4>2. CASE x \in DoneOf(k) /\ y = n
        BY <1>2, <1>3, <2>2, <4>2
      <4>3. CASE x = n /\ y \in DoneOf(k)
        BY <1>2, <1>3, <4>3
      <4>4. QED
        BY <3>1, <4>1, <4>2, <4>3
    <3>2. QED
      BY <3>1 DEF Conflict
  <2>5. k \in DOMAIN resolved' /\ names # {} /\ Traces(resolved'[k], names)
    BY <1>7, <1>8
  <2>6. QED
    BY <1>4, <1>5, <2>3, <2>4, <2>5 DEF Settled, Conflict, Traces
<1>12. \A e \in Done', g \in todo' : Precedes(e, g)'
  <2>1. \A g \in todo' : Precedes(d, g)
    BY DEF IsNext
  <2>2. \A e \in Done, g \in todo' : Precedes(e, g)
    BY DEF ResolutionInv
  <2>3. QED
    BY <1>4, <1>5, <2>1, <2>2
<1>13. claimed' = {<<LayerOf(e[1]), e[2]>> : e \in Done}'
  <2>1. claimed = {<<LayerOf(e[1]), e[2]>> : e \in Done}
    BY DEF ResolutionInv
  <2>2. claimed' = {<<LayerOf(e[1]), e[2]>> : e \in Done'}
    BY <1>4, <2>1
  <2>3. QED
    BY <2>2 DEF LayerOf
<1>14. QED
  <2>1. todo' \subseteq Definitions'
    BY <1>4 DEF ResolutionInv
  <2>2. \A j \in KeySet : Settled(j, DoneOf(j))'
    BY <1>10, <1>11
  <2>3. refusal' = "none"
    OBVIOUS
  <2>4. QED
    BY <1>9, <1>12, <1>13, <2>1, <2>2, <2>3 DEF ResolutionInv

(***************************************************************************)
(* The inductive invariant of resolve_configuration: what the loop knows of *)
(* a key is what the definitions it has been through make of it.            *)
(***************************************************************************)
THEOREM ResolutionSafety == ResolutionSpec => []ResolutionInv
<1>1. ASSUME ResolutionInv, ApplyVariable
      PROVE  ResolutionInv'
  <2>1. PICK d \in todo :
           /\ IsNext(d)
           /\ \/ <<LayerOf(d[1]), d[2]>> \in claimed /\ Refuse("same_layer")
              \/ IsPinned(d[2]) /\ Refuse("pinned")
              \/ /\ <<LayerOf(d[1]), d[2]>> \notin claimed
                 /\ ~IsPinned(d[2])
                 /\ todo' = todo \ {d}
                 /\ claimed' = claimed \cup {<<LayerOf(d[1]), d[2]>>}
                 /\ resolved' = [x \in DOMAIN resolved \cup {d[2]} |->
                        IF x = d[2] THEN Value(d[1], d[2]) ELSE resolved[x]]
                 /\ pinned' = [pinned EXCEPT
                        ![d[2]] = IF PinnedBy(d[1], d[2]) THEN d[1] ELSE @]
                 /\ UNCHANGED <<profiles, refusal>>
    BY <1>1 DEF ApplyVariable, LayerOf, PinnedBy
  <2>2. refusal = "none"
    BY <1>1 DEF ResolutionInv
  <2>3. QED
    BY <1>1, <2>1, <2>2, RefusalKeeps, DefinitionKeeps
<1>2. ASSUME ResolutionInv, UNCHANGED resolutionVars
      PROVE  ResolutionInv'
  <2>1. /\ UNCHANGED <<profiles, todo, resolved, pinned, claimed, refusal>>
        /\ Definitions' = Definitions
    BY <1>2 DEF resolutionVars, Definitions, Defines
  <2>2. Done' = Done /\ \A k : DoneOf(k)' = DoneOf(k)
    BY <2>1 DEF Done, DoneOf
  <2>3. /\ \A d, e : Precedes(d, e)' = Precedes(d, e)
        /\ \A n : LayerOf(n)' = LayerOf(n)
        /\ ResolutionTypeOK' = ResolutionTypeOK
    BY <2>1 DEF Precedes, LayerOf, ResolutionTypeOK
  <2>4. \A k, names : Conflict(k, names)' = Conflict(k, names)
    BY <2>1 DEF Conflict, LayerOf, PinnedBy
  <2>5. \A k, names : Settled(k, names)' = Settled(k, names)
    BY <2>1, <2>4 DEF Settled, Traces, LayerOf, PinnedBy
  <2>6. {<<LayerOf(d[1]), d[2]>> : d \in Done}' = {<<LayerOf(d[1]), d[2]>> : d \in Done}
    BY <2>1, <2>2 DEF LayerOf
  <2>7. QED
    BY <1>2, <2>1, <2>2, <2>3, <2>4, <2>5, <2>6 DEF ResolutionInv
<1>3. QED
  BY <1>1, <1>2, StartSettles, PTL DEF ResolutionSpec

(***************************************************************************)
(* What is resolved is a function of the profiles and not of their order:   *)
(* refused exactly when two of them conflict, and otherwise for every key   *)
(* the value of its highest layer with all that it overrides                *)
(* (resolve_configuration), for any profiles, layers and keys.              *)
(***************************************************************************)
THEOREM OrderDoesNotMatter == ResolutionSpec => []ResolutionIgnoresOrder
<1>1. ASSUME ResolutionInv PROVE ResolutionIgnoresOrder
  <2> DEFINE defining(k) == {n \in NameSet : Defines(profiles[n], k)}
             conflict(k) == \E m, n \in defining(k) :
                m # n /\ \/ profiles[m].layer = profiles[n].layer
                         \/ /\ profiles[m].layer < profiles[n].layer
                            /\ profiles[m].variables[k] = "pinned"
             chain(k) == Append(resolved[k].overridden, resolved[k].source)
             traced(k) ==
               /\ Range(chain(k)) = defining(k)
               /\ Len(chain(k)) = Cardinality(defining(k))
               /\ \A i \in 1..Len(chain(k)) - 1 :
                     profiles[chain(k)[i]].layer < profiles[chain(k)[i + 1]].layer
               /\ resolved[k].layer = profiles[resolved[k].source].layer
  <2> SUFFICES ASSUME todo = {}
               PROVE  IF \E k \in KeySet : conflict(k)
                      THEN refusal # "none"
                      ELSE /\ refusal = "none"
                           /\ DOMAIN resolved = {k \in KeySet : defining(k) # {}}
                           /\ \A k \in DOMAIN resolved : traced(k)
    BY DEF ResolutionIgnoresOrder
  <2>1. \A k \in KeySet : DoneOf(k) = defining(k)
    BY DEF DoneOf, Done, Definitions
  <2>2. \A k \in KeySet : Conflict(k, DoneOf(k)) <=> conflict(k)
    BY <2>1 DEF Conflict, LayerOf, PinnedBy
  <2>3. \A k \in KeySet : Traces(resolved[k], DoneOf(k)) => traced(k)
    BY <2>1 DEF Traces, Chain, LayerOf
  <2> HIDE DEF defining, conflict, traced
  <2>4. CASE refusal # "none"
    BY <1>1, <2>2, <2>4 DEF ResolutionInv
  <2>5. CASE refusal = "none"
    <3>1. \A k \in KeySet : Settled(k, DoneOf(k))
      BY <1>1, <2>5 DEF ResolutionInv
    <3>2. \A k \in KeySet : ~conflict(k)
      BY <2>2, <3>1 DEF Settled
    <3>3. DOMAIN resolved \subseteq KeySet
      BY <1>1 DEF ResolutionInv, ResolutionTypeOK
    <3>4. DOMAIN resolved = {k \in KeySet : defining(k) # {}}
      BY <2>1, <3>1, <3>3 DEF Settled
    <3>5. \A k \in DOMAIN resolved : traced(k)
      BY <2>3, <3>1, <3>3 DEF Settled
    <3>6. QED
      BY <2>5, <3>2, <3>4, <3>5
  <2>6. QED
    BY <2>4, <2>5
<1>2. QED
  BY <1>1, ResolutionSafety, PTL

-----------------------------------------------------------------------------
\* Schedules: division.

LEMMA Divided ==
  ASSUME NEW x \in Int, NEW N \in Nat \ {0}
  PROVE  /\ x \div N \in Int
         /\ (x \div N) * N <= x /\ x < (x \div N) * N + N
OBVIOUS

LEMMA QuotientIs ==
  ASSUME NEW x \in Int, NEW q \in Int, NEW N \in Nat \ {0}, q * N <= x, x < q * N + N
  PROVE  x \div N = q
OBVIOUS

LEMMA RemainderIs ==
  ASSUME NEW q \in Int, NEW N \in Nat \ {0}, NEW r \in Int, 0 <= r, r < N
  PROVE  (q * N + r) % N = r
OBVIOUS

LEMMA Remainder ==
  ASSUME NEW x \in Int, NEW N \in Nat \ {0}
  PROVE  x = (x \div N) * N + (x % N) /\ x % N \in 0..N - 1
<1>1. PICK q \in Int : q = x \div N
  OBVIOUS
<1>2. PICK r \in Int : r = x - q * N
  OBVIOUS
<1>3. 0 <= r /\ r < N
  <2>1. q * N <= x /\ x < q * N + N
    BY <1>1, Divided
  <2>2. QED
    BY <1>2, <2>1
<1>4. x = q * N + r
  BY <1>2
<1>5. x % N = r
  BY <1>3, <1>4, RemainderIs
<1>6. QED
  BY <1>1, <1>3, <1>4, <1>5

LEMMA Multiples ==
  ASSUME NEW a \in Int, NEW b \in Int, NEW N \in Nat \ {0}
  PROVE  /\ a * N \in Int /\ b * N \in Int
         /\ a <= b => a * N <= b * N
         /\ (a + 1) * N = a * N + N
         /\ a * N < b * N => a < b
         /\ a < b => a * N + N <= b * N
<1>1. a * N \in Int /\ b * N \in Int /\ (a + 1) * N = a * N + N
  OBVIOUS
<1>2. a <= b => a * N <= b * N
  OBVIOUS
<1>3. b <= a => b * N <= a * N
  OBVIOUS
<1>4. a < b => (a + 1) * N <= b * N
  <2>1. ASSUME NEW c \in Int, c <= b PROVE c * N <= b * N
    BY <2>1
  <2>2. a < b => a + 1 \in Int /\ a + 1 <= b
    OBVIOUS
  <2>3. QED
    BY <2>1, <2>2
<1>5. QED
  BY <1>1, <1>2, <1>3, <1>4

(***************************************************************************)
(* The days up to a bound have a first one that is wanted.                  *)
(***************************************************************************)
LEMMA FirstFrom ==
  ASSUME NEW a \in Int, NEW T, T \subseteq Int, T # {}, \A x \in T : a <= x
  PROVE  Min(T) \in T /\ \A x \in T : Min(T) <= x
<1> DEFINE U == {x - a : x \in T}
<1>1. U \subseteq Nat /\ U # {}
  <2>1. ASSUME NEW x \in T PROVE x - a \in Nat
    OBVIOUS
  <2>2. QED
    BY <2>1
<1>2. PICK u \in U : \A v \in U : u <= v
  <2> HIDE DEF U
  <2>1. QED
    BY <1>1, Least
<1>3. PICK x \in T : u = x - a
  OBVIOUS
<1>4. \A y \in T : x <= y
  <2>1. ASSUME NEW y \in T PROVE x <= y
    <3>1. u <= y - a
      BY <1>2
    <3>2. QED
      BY <1>3, <3>1
  <2>2. QED
    BY <2>1
<1>5. QED
  BY <1>3, <1>4 DEF Min

-----------------------------------------------------------------------------
\* Schedules: the wall clock.

LEMMA ZoneType ==
  ASSUME NEW z \in Zones
  PROVE  /\ DayLength \in Nat \ {0}
         /\ z.shift \in Int /\ z.before \in Int /\ z.after \in Int
         /\ -DayLength <= z.before /\ z.before <= DayLength
         /\ -DayLength <= z.after /\ z.after <= DayLength
         /\ z.after - z.before <= DayLength /\ z.before - z.after <= DayLength
BY CalendarAssumption, ZonesAssumption

(***************************************************************************)
(* The instant of a reading shows that reading, but for one that was        *)
(* skipped, which shows a jump more.  It is a day away at most.             *)
(***************************************************************************)
LEMMA Readings ==
  ASSUME NEW z \in Zones, NEW wall \in Int
  PROVE  LET i == InstantOf(z, wall)
         IN  /\ i \in Int
             /\ wall - DayLength <= i /\ i <= wall + DayLength
             /\ WallClock(z, i) =
                  IF wall \in (z.shift + z.before)..(z.shift + z.after - 1)
                  THEN wall + (z.after - z.before) ELSE wall
<1>1. Max({z.before, z.after}) = IF z.before >= z.after THEN z.before ELSE z.after
  BY ZoneType DEF Max
<1>2. QED
  BY <1>1, ZoneType DEF InstantOf, WallClock

(***************************************************************************)
(* Later readings have later instants, a day between them included.         *)
(***************************************************************************)
LEMMA ReadingsAdvance ==
  ASSUME NEW z \in Zones, NEW v \in Int, NEW w \in Int, v + DayLength <= w
  PROVE  InstantOf(z, v) <= InstantOf(z, w)
<1>1. Max({z.before, z.after}) \in Int
  BY ZoneType DEF Max
<1>2. QED
  BY <1>1, ZoneType DEF InstantOf

(***************************************************************************)
(* A reading that is ahead of the clock comes, if the clocks do not go      *)
(* back; two days ahead it always comes.                                    *)
(***************************************************************************)
LEMMA ReadingsCome ==
  ASSUME NEW z \in Zones, NEW m \in Int, NEW wall \in Int, WallClock(z, m) < wall
  PROVE  /\ z.before <= z.after => m < InstantOf(z, wall)
         /\ WallClock(z, m) + DayLength < wall => m < InstantOf(z, wall)
<1>1. Max({z.before, z.after}) = IF z.before >= z.after THEN z.before ELSE z.after
  BY ZoneType DEF Max
<1>2. QED
  BY <1>1, ZoneType DEF InstantOf, WallClock

(***************************************************************************)
(* The clock does not go back to a reading that has its instant ahead.      *)
(***************************************************************************)
LEMMA AheadIsLater ==
  ASSUME NEW z \in Zones, NEW m \in Int, NEW wall \in Int, m < InstantOf(z, wall)
  PROVE  WallClock(z, m) <= WallClock(z, InstantOf(z, wall))
<1>1. Max({z.before, z.after}) = IF z.before >= z.after THEN z.before ELSE z.after
  BY ZoneType DEF Max
<1>2. QED
  BY <1>1, ZoneType DEF InstantOf, WallClock

\* The reading of a schedule on a date.
ReadingOf(s, date) == date * DayLength + s.at

LEMMA WeeklyType ==
  ASSUME NEW s \in Weeklies
  PROVE  /\ s.at \in Nat /\ s.at < DayLength
         /\ s.skip \in BOOLEAN
         /\ WeekLength \in Nat \ {0}
         /\ s.weekdays # {} /\ s.weekdays \subseteq 0..WeekLength - 1
BY SchedulesAssumption, CalendarAssumption

LEMMA DatesOf ==
  ASSUME NEW s \in Weeklies, NEW date \in Int
  PROVE  /\ ReadingOf(s, date) \in Int
         /\ ReadingOf(s, date) \div DayLength = date
         /\ ReadingOf(s, date) % DayLength = s.at
<1>1. date * DayLength \in Int /\ DayLength \in Nat \ {0}
  BY CalendarAssumption
<1>2. s.at \in Int /\ 0 <= s.at /\ s.at < DayLength
  BY WeeklyType
<1>3. ReadingOf(s, date) % DayLength = s.at
  BY <1>1, <1>2, RemainderIs DEF ReadingOf
<1>4. /\ date * DayLength <= ReadingOf(s, date)
      /\ ReadingOf(s, date) < date * DayLength + DayLength
      /\ ReadingOf(s, date) \in Int
  BY <1>1, <1>2 DEF ReadingOf
<1>5. QED
  BY <1>1, <1>3, <1>4, QuotientIs

(***************************************************************************)
(* Dates are in the order of their readings.                                *)
(***************************************************************************)
LEMMA DatesAdvance ==
  ASSUME NEW s \in Weeklies, NEW d \in Int, NEW e \in Int, d < e
  PROVE  ReadingOf(s, d) + DayLength <= ReadingOf(s, e)
<1>1. d * DayLength + DayLength <= e * DayLength /\ d * DayLength \in Int /\ e * DayLength \in Int
  BY CalendarAssumption, Multiples
<1>2. QED
  BY <1>1, WeeklyType, CalendarAssumption DEF ReadingOf

LEMMA NominalFacts ==
  ASSUME NEW s \in Weeklies, NEW z \in Zones, NEW d \in Int
  PROVE  /\ Nominal(s, z, d) = InstantOf(z, ReadingOf(s, d))
         /\ Nominal(s, z, d) \in Int
         /\ \A e \in Int : d <= e => Nominal(s, z, d) <= Nominal(s, z, e)
         /\ DateOf(z, Nominal(s, z, d)) \in Int
<1>1. \A e \in Int : /\ Nominal(s, z, e) = InstantOf(z, ReadingOf(s, e))
                     /\ Nominal(s, z, e) \in Int
  BY DatesOf, Readings DEF Nominal, ReadingOf
<1>2. ASSUME NEW e \in Int, d <= e
      PROVE  Nominal(s, z, d) <= Nominal(s, z, e)
  <2>1. CASE d = e
    BY <1>1, <2>1
  <2>2. CASE d < e
    BY <1>1, <2>2, DatesOf, DatesAdvance, ReadingsAdvance
  <2>3. QED
    BY <1>2, <2>1, <2>2
<1>3. DateOf(z, Nominal(s, z, d)) \in Int
  <2>1. WallClock(z, Nominal(s, z, d)) \in Int
    BY <1>1, ZoneType DEF WallClock
  <2>2. QED
    BY <2>1, CalendarAssumption, Divided DEF DateOf
<1>4. QED
  BY <1>1, <1>2, <1>3

(***************************************************************************)
(* A date is served on its own date, if nothing moves past midnight.        *)
(***************************************************************************)
LEMMA ServedOnItsDate ==
  ASSUME NEW s \in Weeklies, NEW z \in Zones, NEW d \in Int, ~MovesPastMidnight(z)
  PROVE  DateOf(z, Nominal(s, z, d)) = d
<1> DEFINE wall == ReadingOf(s, d)
<1>1. wall \in Int /\ wall \div DayLength = d /\ Nominal(s, z, d) = InstantOf(z, wall)
  BY DatesOf, NominalFacts
<1>2. CASE wall \in (z.shift + z.before)..(z.shift + z.after - 1)
  BY <1>1, <1>2 DEF MovesPastMidnight
<1>3. CASE wall \notin (z.shift + z.before)..(z.shift + z.after - 1)
  <2>1. WallClock(z, InstantOf(z, wall)) = wall
    BY <1>1, <1>3, Readings
  <2>2. QED
    BY <1>1, <2>1 DEF DateOf
<1>4. QED
  BY <1>2, <1>3

-----------------------------------------------------------------------------
\* Schedules: the next occurrence.

LEMMA NotSkipped ==
  ASSUME NEW s \in Weeklies, NEW z \in Zones, NEW d \in Int,
         ReadingOf(s, d) \notin (z.shift + z.before)..(z.shift + z.after - 1)
  PROVE  ~DoesNotExist(s, z, d) /\ WallClock(z, Nominal(s, z, d)) = ReadingOf(s, d)
<1>1. WallClock(z, Nominal(s, z, d)) = ReadingOf(s, d)
  BY DatesOf, NominalFacts, Readings
<1>2. QED
  BY <1>1, DatesOf DEF DoesNotExist

(***************************************************************************)
(* Of two dates at least one exists: what a transition removes is no longer *)
(* than a day.                                                              *)
(***************************************************************************)
LEMMA OneOfTwoExists ==
  ASSUME NEW s \in Weeklies, NEW z \in Zones, NEW d \in Int, NEW e \in Int, d < e
  PROVE  ~DoesNotExist(s, z, d) \/ ~DoesNotExist(s, z, e)
<1> DEFINE Gap == (z.shift + z.before)..(z.shift + z.after - 1)
<1>1. ReadingOf(s, d) \notin Gap \/ ReadingOf(s, e) \notin Gap
  <2>1. ReadingOf(s, d) \in Int /\ ReadingOf(s, e) \in Int
        /\ ReadingOf(s, d) + DayLength <= ReadingOf(s, e)
    BY DatesOf, DatesAdvance
  <2>2. QED
    BY <2>1, ZoneType
<1>2. QED
  BY <1>1, NotSkipped

(***************************************************************************)
(* The search finds a date: a selected weekday comes twice in two weeks,    *)
(* and of the two one exists and lies ahead.                                *)
(***************************************************************************)
LEMMA ADateComes ==
  ASSUME NEW s \in Weeklies, NEW z \in Zones, NEW moment \in Int
  PROVE  LET today == DateOf(z, moment)
         IN  /\ today \in Int
             /\ \E d \in today..(today + SearchDays - 1) :
                   Selects(s, z, d) /\ Nominal(s, z, d) > moment
<1> DEFINE today == DateOf(z, moment)
           W == WeekLength
<1>1. /\ W \in Nat \ {0} /\ SearchDays \in Nat /\ SearchDays > 2 * W
      /\ DayLength \in Nat \ {0}
  BY CalendarAssumption
<1>2. /\ WallClock(z, moment) \in Int /\ today \in Int
      /\ WallClock(z, moment) < today * DayLength + DayLength
  <2>1. WallClock(z, moment) \in Int
    BY ZoneType DEF WallClock
  <2>2. QED
    BY <1>1, <2>1, Divided DEF DateOf
<1> HIDE DEF today, W
<1>3. PICK w \in s.weekdays : w \in 0..W - 1
  BY WeeklyType DEF W
<1>4. PICK d \in Int : /\ d % W = w /\ (d + W) % W = w
                       /\ today < d /\ d <= today + W
  <2>1. PICK x \in Int : x = w - today - 1
    BY <1>2, <1>3
  <2>2. PICK q \in Int : q = x \div W
    BY <1>1, <2>1, Divided
  <2>3. PICK r \in Int : r = x % W
    BY <1>1, <2>1, Remainder
  <2>4. x = q * W + r /\ 0 <= r /\ r < W
    BY <1>1, <2>2, <2>3, Remainder
  <2>5. q * W \in Int /\ (-q) * W = -(q * W) /\ (1 - q) * W = W - q * W
    BY <1>1
  <2>6. PICK d \in Int : d = today + 1 + r
    BY <1>2
  <2>7. d = (-q) * W + w /\ d + W = (1 - q) * W + w
    BY <1>1, <1>2, <1>3, <2>1, <2>4, <2>5, <2>6
  <2>8. d % W = w /\ (d + W) % W = w
    <3>1. 0 <= w /\ w < W /\ w \in Int /\ -q \in Int /\ 1 - q \in Int
      BY <1>1, <1>3
    <3>2. ((-q) * W + w) % W = w /\ ((1 - q) * W + w) % W = w
      BY <1>1, <3>1, RemainderIs
    <3>3. QED
      BY <2>7, <3>2
  <2>9. today < d /\ d <= today + W
    BY <1>1, <1>2, <2>4, <2>6
  <2>10. QED
    BY <2>8, <2>9
<1>5. d + W \in Int /\ today + 1 <= d /\ today + 2 <= d + W
      /\ d \in today..(today + SearchDays - 1)
      /\ d + W \in today..(today + SearchDays - 1)
  BY <1>1, <1>2, <1>4
<1>6. /\ ReadingOf(s, d) \in Int /\ ReadingOf(s, d + W) \in Int
      /\ WallClock(z, moment) < ReadingOf(s, d)
      /\ WallClock(z, moment) + DayLength < ReadingOf(s, d + W)
  <2>1. PICK base \in Int : base = today * DayLength
    BY <1>1, <1>2
  <2>2. base + DayLength <= d * DayLength
    BY <1>1, <1>2, <1>4, <2>1, Multiples
  <2>3. base + DayLength + DayLength <= (d + W) * DayLength
    <3>1. d * DayLength + DayLength <= (d + W) * DayLength
      BY <1>1, <1>4, <1>5, Multiples
    <3>2. d * DayLength \in Int /\ (d + W) * DayLength \in Int
      BY <1>1, <1>4, <1>5
    <3>3. QED
      BY <1>1, <2>1, <2>2, <3>1, <3>2
  <2>4. d * DayLength \in Int /\ (d + W) * DayLength \in Int
    BY <1>1, <1>4, <1>5
  <2>5. s.at \in Nat
    BY WeeklyType
  <2>6. QED
    BY <1>1, <1>2, <2>1, <2>2, <2>3, <2>4, <2>5 DEF ReadingOf
<1>7. Nominal(s, z, d + W) > moment
  <2>1. WallClock(z, moment) < ReadingOf(s, d + W)
    BY <1>1, <1>2, <1>6
  <2>2. moment < InstantOf(z, ReadingOf(s, d + W))
    BY <1>6, <2>1, ReadingsCome
  <2>3. QED
    BY <1>5, <2>2, NominalFacts
<1>8. z.before <= z.after => Nominal(s, z, d) > moment
  <2>1. z.before <= z.after => moment < InstantOf(z, ReadingOf(s, d))
    BY <1>6, ReadingsCome
  <2>2. QED
    BY <2>1, NominalFacts
<1>9. ~(z.before <= z.after) => ~DoesNotExist(s, z, d + W)
  <2>1. ~(z.before <= z.after) =>
           ReadingOf(s, d + W) \notin (z.shift + z.before)..(z.shift + z.after - 1)
    BY <1>6, ZoneType
  <2>2. QED
    BY <1>5, <2>1, NotSkipped
<1>10. ~DoesNotExist(s, z, d) \/ ~DoesNotExist(s, z, d + W)
  <2>1. d < d + W
    BY <1>1, <1>4
  <2>2. QED
    BY <1>5, <2>1, OneOfTwoExists
<1>11. Selects(s, z, d) \/ DoesNotExist(s, z, d)
  BY <1>3, <1>4 DEF Selects, W
<1>12. Selects(s, z, d + W) \/ DoesNotExist(s, z, d + W)
  BY <1>3, <1>4 DEF Selects, W
<1>13. \E e \in today..(today + SearchDays - 1) : Selects(s, z, e) /\ Nominal(s, z, e) > moment
  BY <1>5, <1>7, <1>8, <1>9, <1>10, <1>11, <1>12
<1>14. QED
  BY <1>2, <1>13 DEF today

\* The meaning of a schedule of weekdays, over all dates.
Serves(s, z, instant) == \E d \in Int : Selects(s, z, d) /\ Nominal(s, z, d) = instant

(***************************************************************************)
(* The answer lies ahead, is an occurrence, and none is in between.         *)
(***************************************************************************)
LEMMA NextOfWeeklyFacts ==
  ASSUME NEW s \in Weeklies, NEW z \in Zones, NEW moment \in Int
  PROVE  LET next == NextOfWeekly(s, z, moment)
         IN  /\ next \in Int /\ moment < next
             /\ Serves(s, z, next)
             /\ ~MovesPastMidnight(z) =>
                   \A t \in Int : moment < t /\ t < next => ~Serves(s, z, t)
<1> DEFINE today == DateOf(z, moment)
           dates == {d \in today..(today + SearchDays - 1) :
                        Selects(s, z, d) /\ Nominal(s, z, d) > moment}
           first == Min(dates)
<1>1. today \in Int /\ dates # {} /\ SearchDays \in Nat
  BY ADateComes, CalendarAssumption
<1>2. first \in dates /\ \A d \in dates : first <= d
  <2>1. dates \subseteq Int /\ \A d \in dates : today <= d
    BY <1>1
  <2> HIDE DEF dates, today
  <2>2. QED
    BY <1>1, <2>1, FirstFrom
<1>3. NextOfWeekly(s, z, moment) = Nominal(s, z, first)
  BY DEF NextOfWeekly
<1>4. first \in Int /\ Selects(s, z, first) /\ moment < Nominal(s, z, first)
      /\ today <= first /\ first <= today + SearchDays - 1
      /\ Nominal(s, z, first) \in Int
  <2>1. first \in Int /\ first \in today..(today + SearchDays - 1)
        /\ Selects(s, z, first) /\ Nominal(s, z, first) > moment
    BY <1>1, <1>2
  <2> HIDE DEF first, today
  <2>2. Nominal(s, z, first) \in Int
    BY <2>1, NominalFacts
  <2>3. QED
    BY <1>1, <2>1, <2>2
<1>5. ASSUME ~MovesPastMidnight(z), NEW d \in Int, Selects(s, z, d),
             moment < Nominal(s, z, d), Nominal(s, z, d) < Nominal(s, z, first)
      PROVE  FALSE
  <2>1. Nominal(s, z, d) \in Int
    BY NominalFacts
  <2>2. d < first
    <3>1. first <= d => Nominal(s, z, first) <= Nominal(s, z, d)
      BY <1>4, NominalFacts
    <3> HIDE DEF first
    <3>2. QED
      BY <1>4, <1>5, <2>1, <3>1
  <2>3. today <= d
    <3>1. WallClock(z, moment) <= WallClock(z, Nominal(s, z, d))
      BY <1>5, DatesOf, NominalFacts, AheadIsLater
    <3>2. WallClock(z, moment) \in Int /\ WallClock(z, Nominal(s, z, d)) \in Int
      BY <2>1, ZoneType DEF WallClock
    <3>3. DateOf(z, moment) <= DateOf(z, Nominal(s, z, d))
      <4>1. ASSUME NEW x \in Int, NEW y \in Int, x <= y, NEW N \in Nat \ {0}
            PROVE  x \div N <= y \div N
        BY <4>1
      <4>2. QED
        BY <3>1, <3>2, <4>1, CalendarAssumption DEF DateOf
    <3>4. QED
      BY <1>5, <3>3, ServedOnItsDate
  <2>4. d \in dates
    <3>1. d \in today..(today + SearchDays - 1)
      <4> HIDE DEF today, first
      <4>1. QED
        BY <1>1, <1>4, <2>2, <2>3
    <3>2. QED
      BY <1>5, <2>1, <3>1
  <2>5. first <= d
    BY <1>2, <2>4
  <2> HIDE DEF first, dates, today
  <2>6. QED
    BY <1>4, <2>2, <2>5
<1>6. QED
  <2> HIDE DEF first, today, dates
  <2>1. Serves(s, z, Nominal(s, z, first))
    BY <1>4 DEF Serves
  <2>2. QED
    BY <1>3, <1>4, <1>5, <2>1 DEF Serves

(***************************************************************************)
(* The points of a series: the answer is one, and none is in between.       *)
(***************************************************************************)
LEMMA NextOfIntervalFacts ==
  ASSUME NEW s \in Intervals, NEW moment \in Int
  PROVE  LET next == NextOfInterval(s, moment)
         IN  /\ next \in Int /\ moment < next
             /\ next >= s.anchor /\ (next - s.anchor) % s.every = 0
             /\ \A t \in Int : moment < t /\ t < next =>
                   ~(t >= s.anchor /\ (t - s.anchor) % s.every = 0)
<1> DEFINE a == s.anchor
           N == s.every
           q == (moment - a) \div N
<1>1. a \in Int /\ N \in Nat \ {0}
  BY SchedulesAssumption
<1>2. moment - a \in Int /\ moment - moment \in Int
  BY <1>1
<1> HIDE DEF a, N
<1>3. q \in Int /\ q * N <= moment - a /\ moment - a < q * N + N
  BY <1>1, <1>2, Divided
<1>4. CASE moment < a
  <2>1. NextOfInterval(s, moment) = a
    BY <1>4 DEF NextOfInterval, a
  <2>2. (a - a) % N = 0
    <3>1. (0 * N + 0) % N = 0
      BY <1>1, RemainderIs
    <3>2. a - a = 0 * N + 0
      BY <1>1
    <3>3. QED
      BY <3>1, <3>2
  <2>3. QED
    BY <1>1, <1>4, <2>1, <2>2 DEF a, N
<1>5. CASE ~(moment < a)
  <2> HIDE DEF q
  <2>1. NextOfInterval(s, moment) = a + N * (q + 1)
    BY <1>5 DEF NextOfInterval, a, N, q
  <2>2. N * (q + 1) = (q + 1) * N /\ (q + 1) * N = q * N + N /\ q * N \in Int
    BY <1>1, <1>3
  <2>3. PICK step \in Int : step = q * N
    BY <2>2
  <2>4. PICK next \in Int : next = a + step + N
    BY <1>1, <2>3
  <2>5. NextOfInterval(s, moment) = next
    BY <1>1, <2>1, <2>2, <2>3, <2>4
  <2>6. moment < next /\ next >= a
    BY <1>1, <1>3, <1>5, <2>3, <2>4
  <2>7. (next - a) % N = 0
    <3>1. ((q + 1) * N + 0) % N = 0
      BY <1>1, <1>3, RemainderIs
    <3>2. next - a = (q + 1) * N + 0
      BY <1>1, <2>2, <2>3, <2>4
    <3>3. QED
      BY <3>1, <3>2
  <2>8. ASSUME NEW t \in Int, moment < t, t < next, (t - a) % N = 0
        PROVE  FALSE
    <3>1. PICK p \in Int : p = (t - a) \div N
      BY <1>1, Divided
    <3>2. t - a = p * N + 0
      BY <1>1, <2>8, <3>1, Remainder
    <3>3. p * N \in Int /\ t - a = p * N
      BY <1>1, <3>2
    <3>4. q * N < p * N /\ p * N < (q + 1) * N
      BY <1>1, <1>3, <2>2, <2>3, <2>4, <2>8, <3>3
    <3>5. q < p /\ p < q + 1
      BY <1>1, <1>3, <3>4, Multiples
    <3>6. QED
      BY <1>3, <3>5
  <2>9. QED
    BY <2>5, <2>6, <2>7, <2>8 DEF a, N
<1>6. QED
  BY <1>4, <1>5

-----------------------------------------------------------------------------
\* Schedules: previews.

\* What a request's schedule serves, over all dates.
Occurs(r, instant) ==
    LET s == r.schedule.of
    IN  \/ /\ r.schedule.kind = "interval"
           /\ instant >= s.anchor /\ (instant - s.anchor) % s.every = 0
        \/ /\ r.schedule.kind = "weekly"
           /\ Serves(s, r.zone, instant)

\* Nothing up to the cursor was passed over.
PassedOver ==
    {t \in Int : /\ request.after < t /\ t <= Cursor
                 /\ Occurs(request, t)
                 /\ ~\E i \in DOMAIN occurrences : occurrences[i] = t}

PreviewInv ==
    /\ PreviewTypeOK
    /\ \A i \in DOMAIN occurrences : request.after < occurrences[i]
    /\ \A i \in DOMAIN occurrences : Occurs(request, occurrences[i])
    /\ \A i, j \in DOMAIN occurrences : i < j => occurrences[i] < occurrences[j]
    /\ MovesPastMidnight(request.zone) \/ PassedOver = {}

LEMMA RequestType ==
  ASSUME NEW r \in Requests
  PROVE  /\ r.after \in Nat /\ r.zone \in Zones /\ r.count \in Nat
         /\ r.schedule.kind \in {"interval", "weekly", "manual"}
         /\ r.schedule.kind = "interval" => r.schedule.of \in Intervals
         /\ r.schedule.kind = "weekly" => r.schedule.of \in Weeklies
<1>1. /\ r.after \in Starts /\ r.zone \in Zones /\ r.count \in 1..MaxCount
      /\ r.schedule \in Schedule
  BY DEF Requests
<1>2. /\ r.schedule.kind \in {"interval", "weekly", "manual"}
      /\ r.schedule.kind = "interval" => r.schedule.of \in Intervals
      /\ r.schedule.kind = "weekly" => r.schedule.of \in Weeklies
  BY <1>1 DEF Schedule
<1>3. Starts \subseteq Nat /\ MaxCount \in Nat
  BY SchedulesAssumption
<1>4. r.after \in Nat
  BY <1>1, <1>3
<1>5. r.count \in Nat
  BY <1>1, <1>3
<1>6. QED
  BY <1>1, <1>2, <1>4, <1>5

(***************************************************************************)
(* The occurrence a date gives is less than two days away from the date.    *)
(***************************************************************************)
LEMMA OccurrencesAre ==
  ASSUME request \in Requests, NEW t \in Int
  PROVE  IsOccurrence(t) <=> Occurs(request, t)
<1> DEFINE s == request.schedule.of
           z == request.zone
           day == t \div DayLength
<1>1. ASSUME request.schedule.kind = "weekly", NEW d \in Int, Nominal(s, z, d) = t
      PROVE  d \in (day - 2)..(day + 2)
  <2>1. s \in Weeklies /\ z \in Zones
    BY <1>1, RequestType
  <2>2. PICK wall \in Int : wall = ReadingOf(s, d)
    BY <2>1, DatesOf
  <2>3. wall - DayLength <= t /\ t <= wall + DayLength
    BY <1>1, <2>1, <2>2, NominalFacts, Readings
  <2>4. /\ DayLength \in Nat \ {0}
        /\ day \in Int /\ day * DayLength <= t /\ t < day * DayLength + DayLength
    BY CalendarAssumption, Divided
  <2>5. d * DayLength <= wall /\ wall < d * DayLength + DayLength
    BY <2>1, <2>2, <2>4, WeeklyType DEF ReadingOf
  <2> HIDE DEF day
  <2>6. PICK x \in Int : x = d * DayLength
    BY <2>4
  <2>7. PICK y \in Int : y = day * DayLength
    BY <2>4
  <2>8. (d - 1) * DayLength = x - DayLength /\ (day - 2) * DayLength = y - DayLength - DayLength
        /\ (day + 2) * DayLength = y + DayLength + DayLength
    BY <2>4, <2>6, <2>7
  <2>9. x - DayLength < y + DayLength /\ y < x + DayLength + DayLength
    BY <2>3, <2>4, <2>5, <2>6, <2>7
  <2>10. d * DayLength < (day + 2) * DayLength
    BY <2>4, <2>6, <2>8, <2>9
  <2>11. (day - 2) * DayLength < d * DayLength
    BY <2>4, <2>6, <2>8, <2>9
  <2>12. d < day + 2 /\ day - 2 < d
    BY <2>4, <2>10, <2>11, Multiples
  <2>13. QED
    BY <2>4, <2>12
<1>2. day \in Int
  BY CalendarAssumption, Divided
<1>3. CASE request.schedule.kind = "weekly"
  <2>1. IsOccurrence(t) <=>
          \E d \in (day - 2)..(day + 2) : Selects(s, z, d) /\ Nominal(s, z, d) = t
    BY <1>3 DEF IsOccurrence
  <2>2. Occurs(request, t) <=> \E d \in Int : Selects(s, z, d) /\ Nominal(s, z, d) = t
    BY <1>3 DEF Occurs, Serves
  <2> HIDE DEF s, z, day
  <2>3. QED
    BY <1>1, <1>2, <1>3, <2>1, <2>2
<1>4. CASE request.schedule.kind = "interval"
  BY <1>4 DEF IsOccurrence, Occurs
<1>5. CASE request.schedule.kind = "manual"
  BY <1>5 DEF IsOccurrence, Occurs
<1>6. QED
  BY <1>3, <1>4, <1>5, RequestType

(***************************************************************************)
(* The question of both kinds of schedule.                                  *)
(***************************************************************************)
LEMMA NextFacts ==
  ASSUME NEW r \in Requests, r.schedule.kind # "manual", NEW moment \in Nat
  PROVE  LET next == NextOccurrenceAfter(r.schedule, r.zone, moment)
         IN  /\ next \in Nat /\ moment < next
             /\ Occurs(r, next)
             /\ ~MovesPastMidnight(r.zone) =>
                   \A t \in Int : moment < t /\ t < next => ~Occurs(r, t)
<1>1. CASE r.schedule.kind = "interval"
  <2>1. r.schedule.of \in Intervals
    BY <1>1, RequestType
  <2>2. NextOccurrenceAfter(r.schedule, r.zone, moment) = NextOfInterval(r.schedule.of, moment)
    BY <1>1 DEF NextOccurrenceAfter
  <2>3. PICK next : next = NextOfInterval(r.schedule.of, moment)
    OBVIOUS
  <2>4. next \in Int /\ moment < next
    BY <2>1, <2>3, NextOfIntervalFacts
  <2>5. next >= r.schedule.of.anchor /\ (next - r.schedule.of.anchor) % r.schedule.of.every = 0
    BY <2>1, <2>3, NextOfIntervalFacts
  <2>6. \A t \in Int : moment < t /\ t < next => ~Occurs(r, t)
    BY <1>1, <2>1, <2>3, NextOfIntervalFacts DEF Occurs
  <2>7. QED
    BY <1>1, <2>2, <2>3, <2>4, <2>5, <2>6 DEF Occurs
<1>2. CASE r.schedule.kind = "weekly"
  <2>1. r.schedule.of \in Weeklies /\ r.zone \in Zones
    BY <1>2, RequestType
  <2>2. NextOccurrenceAfter(r.schedule, r.zone, moment)
          = NextOfWeekly(r.schedule.of, r.zone, moment)
    BY <1>2 DEF NextOccurrenceAfter
  <2>3. PICK next : next = NextOfWeekly(r.schedule.of, r.zone, moment)
    OBVIOUS
  <2>4. /\ next \in Int /\ moment < next
        /\ Serves(r.schedule.of, r.zone, next)
        /\ ~MovesPastMidnight(r.zone) =>
              \A t \in Int : moment < t /\ t < next => ~Serves(r.schedule.of, r.zone, t)
    BY <2>1, <2>3, NextOfWeeklyFacts
  <2>5. QED
    BY <1>2, <2>2, <2>3, <2>4 DEF Occurs
<1>3. QED
  BY <1>1, <1>2, RequestType

(***************************************************************************)
(* One iteration of the loop appends the first occurrence after the cursor. *)
(***************************************************************************)
LEMMA PreviewKeeps ==
  ASSUME PreviewInv, Preview
  PROVE  PreviewInv'
<1> DEFINE n == Len(occurrences)
           next == NextOccurrenceAfter(request.schedule, request.zone, Cursor)
<1>1. /\ request \in Requests /\ request.schedule.kind # "manual"
      /\ occurrences \in Seq(Nat) /\ n \in Nat /\ n < request.count
      /\ occurrences' = Append(occurrences, next) /\ request' = request
  BY DEF PreviewInv, PreviewTypeOK, Preview
<1>2. /\ Cursor \in Nat /\ request.after <= Cursor
      /\ \A i \in DOMAIN occurrences : occurrences[i] <= Cursor
  <2>1. CASE occurrences = <<>>
    BY <1>1, <2>1, RequestType DEF Cursor
  <2>2. CASE occurrences # <<>>
    <3>1. n \in DOMAIN occurrences /\ Cursor = occurrences[n] /\ DOMAIN occurrences = 1..n
      BY <1>1, <2>2 DEF Cursor, Last
    <3>2. \A i \in DOMAIN occurrences : occurrences[i] \in Nat
      BY <1>1
    <3>3. \A i \in DOMAIN occurrences : i = n \/ occurrences[i] < occurrences[n]
      BY <1>1, <3>1 DEF PreviewInv
    <3>4. request.after < occurrences[n] /\ request.after \in Nat
      BY <1>1, <3>1, RequestType DEF PreviewInv
    <3>5. QED
      BY <3>1, <3>2, <3>3, <3>4
  <2>3. QED
    BY <2>1, <2>2
<1>3. /\ next \in Nat /\ Cursor < next /\ Occurs(request, next)
      /\ ~MovesPastMidnight(request.zone) =>
            \A t \in Int : Cursor < t /\ t < next => ~Occurs(request, t)
  BY <1>1, <1>2, NextFacts
<1> HIDE DEF next
<1>4. /\ occurrences' \in Seq(Nat) /\ Len(occurrences') = n + 1
      /\ DOMAIN occurrences = 1..n /\ DOMAIN occurrences' = 1..(n + 1)
      /\ occurrences'[n + 1] = next
      /\ \A i \in 1..n : occurrences'[i] = occurrences[i]
  BY <1>1, <1>3
<1>5. Cursor' = next
  <2>1. occurrences' # <<>>
    BY <1>1, <1>4
  <2>2. QED
    BY <1>4, <2>1 DEF Cursor, Last
<1>6. PreviewTypeOK'
  <2>1. request.count \in Nat
    BY <1>1, RequestType
  <2>2. QED
    BY <1>1, <1>4, <2>1 DEF PreviewTypeOK
<1>7. \A i \in DOMAIN occurrences' : request'.after < occurrences'[i]
  <2>1. request.after \in Nat
    BY <1>1, RequestType
  <2>2. request.after < next
    BY <1>2, <1>3, <2>1
  <2>3. \A i \in 1..n : request.after < occurrences[i]
    BY <1>4 DEF PreviewInv
  <2>4. QED
    BY <1>1, <1>4, <2>2, <2>3
<1>8. \A i \in DOMAIN occurrences' : Occurs(request, occurrences'[i])
  BY <1>1, <1>3, <1>4 DEF PreviewInv
<1>9. \A i, j \in DOMAIN occurrences' : i < j => occurrences'[i] < occurrences'[j]
  <2>1. ASSUME NEW i \in 1..(n + 1), NEW j \in 1..(n + 1), i < j
        PROVE  occurrences'[i] < occurrences'[j]
    <3>1. i \in 1..n /\ occurrences'[i] = occurrences[i] /\ occurrences[i] \in Nat
      BY <1>1, <1>4, <2>1
    <3>2. CASE j = n + 1
      BY <1>2, <1>3, <1>4, <3>1, <3>2
    <3>3. CASE j \in 1..n
      BY <1>4, <2>1, <3>1, <3>3 DEF PreviewInv
    <3>4. QED
      BY <1>1, <3>2, <3>3
  <2>2. QED
    BY <1>4, <2>1
<1>10. ASSUME ~MovesPastMidnight(request.zone), NEW t \in Int,
              request.after < t, t <= next, Occurs(request, t)
       PROVE  \E i \in DOMAIN occurrences' : occurrences'[i] = t
  <2>1. CASE t <= Cursor
    <3>1. \E i \in DOMAIN occurrences : occurrences[i] = t
      BY <1>10, <2>1 DEF PreviewInv, PassedOver
    <3>2. QED
      BY <1>1, <1>4, <3>1
  <2>2. CASE t = next
    BY <1>1, <1>4, <2>2
  <2>3. QED
    BY <1>2, <1>3, <1>10, <2>1, <2>2
<1>11. (MovesPastMidnight(request.zone) \/ PassedOver = {})'
  <2>1. MovesPastMidnight(request.zone)' <=> MovesPastMidnight(request.zone)
    BY <1>1
  <2>2. PassedOver' =
          {t \in Int : /\ request.after < t /\ t <= next
                       /\ Occurs(request, t)
                       /\ ~\E i \in DOMAIN occurrences' : occurrences'[i] = t}
    BY <1>1, <1>5 DEF PassedOver
  <2>3. QED
    BY <1>10, <2>1, <2>2
<1>12. QED
  <2>1. \A i \in DOMAIN occurrences' : Occurs(request', occurrences'[i])
    BY <1>1, <1>8
  <2>2. QED
    BY <1>6, <1>7, <1>9, <1>11, <2>1 DEF PreviewInv

(***************************************************************************)
(* However long a preview grows, it is the list of the occurrences between  *)
(* the instant it was asked for and its last entry.                         *)
(***************************************************************************)
THEOREM PreviewSafety == PreviewSpec => []PreviewInv
<1>1. PreviewInit => PreviewInv
  <2>1. ASSUME PreviewInit PROVE PreviewInv
    <3>1. /\ request \in Requests /\ occurrences = <<>>
          /\ occurrences \in Seq(Nat) /\ Len(occurrences) = 0 /\ DOMAIN occurrences = {}
      BY <2>1 DEF PreviewInit
    <3>2. Cursor = request.after /\ request.after \in Nat /\ request.count \in Nat
      BY <3>1, RequestType DEF Cursor
    <3>3. PassedOver = {}
      BY <3>2 DEF PassedOver
    <3>4. QED
      BY <3>1, <3>2, <3>3 DEF PreviewInv, PreviewTypeOK
  <2>2. QED
    BY <2>1
<1>2. ASSUME PreviewInv, [Preview]_previewVars
      PROVE  PreviewInv'
  <2>1. CASE UNCHANGED previewVars
    BY <1>2, <2>1 DEF previewVars, PreviewInv, PreviewTypeOK, PassedOver, Cursor
  <2>2. QED
    BY <1>2, <2>1, PreviewKeeps
<1>3. QED
  BY <1>1, <1>2, PTL DEF PreviewSpec

(***************************************************************************)
(* Each occurrence is named once and in order, and none is left out that    *)
(* the clocks have not pushed past midnight (preview_occurrences).          *)
(***************************************************************************)
THEOREM PreviewsAreComplete == PreviewSpec => []PreviewIsComplete
<1>1. ASSUME PreviewInv PROVE PreviewIsComplete
  <2>1. /\ request \in Requests /\ occurrences \in Seq(Nat)
        /\ DOMAIN occurrences = 1..Len(occurrences) /\ Len(occurrences) \in Nat
        /\ request.after \in Nat
    BY <1>1, RequestType DEF PreviewInv, PreviewTypeOK
  <2>2. \A i \in 1..Len(occurrences) - 1 : occurrences[i] < occurrences[i + 1]
    BY <1>1, <2>1 DEF PreviewInv
  <2>3. \A i \in DOMAIN occurrences : IsOccurrence(occurrences[i])
    BY <1>1, <2>1, OccurrencesAre DEF PreviewInv
  <2>4. Cursor \in Nat
    <3>1. CASE occurrences = <<>>
      BY <2>1, <3>1 DEF Cursor
    <3>2. CASE occurrences # <<>>
      BY <2>1, <3>2 DEF Cursor, Last
    <3>3. QED
      BY <3>1, <3>2
  <2>5. ASSUME ~MovesPastMidnight(request.zone),
               NEW t \in (request.after + 1)..Cursor, IsOccurrence(t)
        PROVE  \E i \in DOMAIN occurrences : occurrences[i] = t
    <3>1. t \in Int /\ request.after < t /\ t <= Cursor
      BY <2>1, <2>4
    <3>2. Occurs(request, t)
      BY <2>1, <2>5, <3>1, OccurrencesAre
    <3>3. PassedOver = {}
      BY <1>1, <2>5 DEF PreviewInv
    <3>4. QED
      BY <3>1, <3>2, <3>3 DEF PassedOver
  <2>6. QED
    BY <2>2, <2>3, <2>5 DEF PreviewIsComplete
<1>2. QED
  BY <1>1, PreviewSafety, PTL

(***************************************************************************)
(* The dates a preview serves: the selected ones, each by one occurrence.   *)
(***************************************************************************)
LEMMA DatesServed ==
  ASSUME PreviewInv, request.schedule.kind = "weekly", occurrences # <<>>,
         ~MovesPastMidnight(request.zone),
         NEW d \in DateOf(request.zone, occurrences[1])
                     ..DateOf(request.zone, Last(occurrences))
  PROVE  LET s == request.schedule.of
             z == request.zone
             On == {i \in 1..Len(occurrences) : DateOf(z, occurrences[i]) = d}
         IN  /\ d \in Int
             /\ ~Selects(s, z, d) => On = {}
             /\ Selects(s, z, d) => \E i \in 1..Len(occurrences) :
                                       /\ On = {i}
                                       /\ occurrences[i] = Nominal(s, z, d)
<1> DEFINE s == request.schedule.of
           z == request.zone
           n == Len(occurrences)
           On == {i \in 1..n : DateOf(z, occurrences[i]) = d}
<1>1. /\ request \in Requests /\ occurrences \in Seq(Nat)
      /\ n \in Nat /\ 1 \in 1..n /\ n \in 1..n /\ DOMAIN occurrences = 1..n
      /\ Last(occurrences) = occurrences[n] /\ Cursor = occurrences[n]
      /\ s \in Weeklies /\ z \in Zones /\ request.after \in Nat
      /\ \A i \in 1..n : occurrences[i] \in Nat
  BY RequestType DEF PreviewInv, PreviewTypeOK, Last, Cursor
<1>2. ASSUME NEW i \in 1..n
      PROVE  LET e == DateOf(z, occurrences[i])
             IN  e \in Int /\ Selects(s, z, e) /\ Nominal(s, z, e) = occurrences[i]
  <2>1. Serves(s, z, occurrences[i])
    BY <1>1 DEF PreviewInv, Occurs
  <2>2. PICK e \in Int : Selects(s, z, e) /\ Nominal(s, z, e) = occurrences[i]
    BY <2>1 DEF Serves
  <2>3. DateOf(z, occurrences[i]) = e
    BY <1>1, <2>2, ServedOnItsDate
  <2>4. QED
    BY <2>2, <2>3
<1> HIDE DEF n, s, z
<1>3. d \in Int /\ DateOf(z, occurrences[1]) <= d /\ d <= DateOf(z, occurrences[n])
  BY <1>1, <1>2 DEF z
<1>4. ASSUME NEW i \in 1..n, NEW j \in 1..n, occurrences[i] = occurrences[j]
      PROVE  i = j
  <2>1. ~(i < j) /\ ~(j < i)
    BY SMTT(60), <1>1, <1>4 DEF PreviewInv
  <2>2. QED
    BY <1>1, <2>1
<1>5. ASSUME NEW i \in On
      PROVE  i \in 1..n /\ Selects(s, z, d) /\ Nominal(s, z, d) = occurrences[i]
  BY <1>2
<1>6. ASSUME Selects(s, z, d)
      PROVE  \E i \in 1..n : On = {i} /\ occurrences[i] = Nominal(s, z, d)
  <2>1. /\ Nominal(s, z, d) \in Int
        /\ occurrences[1] <= Nominal(s, z, d) /\ Nominal(s, z, d) <= occurrences[n]
    <3>1. Nominal(s, z, d) \in Int
      BY <1>1, <1>3, NominalFacts
    <3>2. Nominal(s, z, DateOf(z, occurrences[1])) <= Nominal(s, z, d)
      BY <1>1, <1>2, <1>3, NominalFacts
    <3>3. Nominal(s, z, d) <= Nominal(s, z, DateOf(z, occurrences[n]))
      BY <1>1, <1>2, <1>3, NominalFacts
    <3>4. QED
      BY <1>1, <1>2, <3>1, <3>2, <3>3
  <2>2. Occurs(request, Nominal(s, z, d))
    BY <1>3, <1>6 DEF Occurs, Serves, s, z
  <2>3. request.after < Nominal(s, z, d)
    <3>1. request.after < occurrences[1] /\ occurrences[1] \in Nat
      BY <1>1 DEF PreviewInv
    <3>2. QED
      BY <1>1, <2>1, <3>1
  <2>4. PassedOver = {}
    BY DEF PreviewInv
  <2>5. PICK i \in 1..n : occurrences[i] = Nominal(s, z, d)
    BY <1>1, <2>1, <2>2, <2>3, <2>4 DEF PassedOver
  <2>6. i \in On
    BY <1>1, <1>3, <2>5, ServedOnItsDate DEF z
  <2>7. On = {i}
    BY <1>4, <1>5, <2>5, <2>6
  <2>8. QED
    BY <2>5, <2>7
<1>7. ~Selects(s, z, d) => On = {}
  BY <1>5
<1>8. QED
  BY <1>3, <1>6, <1>7 DEF s, z, n

(***************************************************************************)
(* "06:00" keeps meaning 06:00: over any stretch of a preview each selected *)
(* day is served once, at its wall-clock time or, where the clocks skipped  *)
(* that time, once at the shifted instant or not at all.                    *)
(***************************************************************************)
THEOREM WallClockStays == PreviewSpec => []WallClockIsKept
<1>1. ASSUME PreviewInv, request.schedule.kind = "weekly", occurrences # <<>>,
             ~MovesPastMidnight(request.zone),
             NEW d \in DateOf(request.zone, occurrences[1])
                         ..DateOf(request.zone, Last(occurrences))
      PROVE  LET s == request.schedule.of
                 z == request.zone
                 wall == d * DayLength + s.at
                 Shows == {i \in 1..Len(occurrences) : WallClock(z, occurrences[i]) = wall}
                 On == {i \in 1..Len(occurrences) : DateOf(z, occurrences[i]) = d}
             IN  IF d % WeekLength \notin s.weekdays THEN On = {}
                 ELSE IF wall \notin (z.shift + z.before)..(z.shift + z.after - 1)
                 THEN Cardinality(Shows) = 1 /\ Cardinality(On) = 1
                 ELSE Cardinality(On) = IF s.skip THEN 0 ELSE 1
  <2> DEFINE s == request.schedule.of
             z == request.zone
             wall == d * DayLength + s.at
             Gap == (z.shift + z.before)..(z.shift + z.after - 1)
             Shows == {i \in 1..Len(occurrences) : WallClock(z, occurrences[i]) = wall}
             On == {i \in 1..Len(occurrences) : DateOf(z, occurrences[i]) = d}
  <2>1. s \in Weeklies /\ z \in Zones
    BY <1>1, RequestType DEF PreviewInv, PreviewTypeOK
  <2>2. /\ d \in Int
        /\ ~Selects(s, z, d) => On = {}
        /\ Selects(s, z, d) => \E i \in 1..Len(occurrences) :
                                  On = {i} /\ occurrences[i] = Nominal(s, z, d)
    BY <1>1, DatesServed
  <2>3. wall = ReadingOf(s, d) /\ wall \in Int /\ wall \div DayLength = d
    BY <2>1, <2>2, DatesOf DEF ReadingOf
  <2> HIDE DEF s, z, wall
  <2>4. ~Selects(s, z, d) => Cardinality(On) = 0
    BY <2>2, FS_EmptySet
  <2>5. Selects(s, z, d) => Cardinality(On) = 1
    BY <2>2, OneElement
  <2>6. CASE d % WeekLength \notin s.weekdays
    <3>1. On = {}
      BY <2>2, <2>6 DEF Selects
    <3>2. QED
      BY <2>6, <3>1 DEF s, z
  <2>7. CASE d % WeekLength \in s.weekdays /\ wall \notin Gap
    <3>1. ~DoesNotExist(s, z, d) /\ WallClock(z, Nominal(s, z, d)) = wall
      BY <2>1, <2>2, <2>3, <2>7, NotSkipped
    <3>2. Selects(s, z, d)
      BY <2>7, <3>1 DEF Selects
    <3>3. PICK i \in 1..Len(occurrences) : On = {i} /\ occurrences[i] = Nominal(s, z, d)
      BY <2>2, <3>2
    <3>4. \A j \in Shows : j \in On
      BY <2>3 DEF DateOf
    <3>5. Shows = {i}
      BY <3>1, <3>3, <3>4
    <3>6. Cardinality(Shows) = 1 /\ Cardinality(On) = 1
      BY <3>3, <3>5, OneElement
    <3>7. QED
      BY <2>7, <3>6 DEF s, z, wall
  <2>8. CASE d % WeekLength \in s.weekdays /\ wall \in Gap
    <3>1. DoesNotExist(s, z, d)
      <4>1. PICK shown \in Int : shown = WallClock(z, Nominal(s, z, d))
        <5>1. Nominal(s, z, d) \in Int
          BY <2>1, <2>2, NominalFacts
        <5>2. WallClock(z, Nominal(s, z, d)) \in Int
          BY <2>1, <5>1, ZoneType DEF WallClock
        <5>3. QED
          BY <5>2
      <4>2. shown = wall + (z.after - z.before)
        BY <2>1, <2>2, <2>3, <2>8, <4>1, NominalFacts, Readings
      <4>3. shown # wall
        BY <2>1, <2>3, <2>8, <4>2, ZoneType
      <4>4. shown \div DayLength = d
        <5>1. DateOf(z, Nominal(s, z, d)) = d
          BY <1>1, <2>1, <2>2, ServedOnItsDate DEF z
        <5>2. QED
          BY <4>1, <5>1 DEF DateOf
      <4>5. shown = d * DayLength + (shown % DayLength)
        BY <4>1, <4>4, CalendarAssumption, Remainder
      <4>6. shown % DayLength # s.at
        BY <4>3, <4>5 DEF wall
      <4>7. QED
        BY <4>1, <4>6 DEF DoesNotExist
    <3>2. Selects(s, z, d) <=> ~s.skip
      BY <2>1, <2>8, <3>1, WeeklyType DEF Selects
    <3>3. Cardinality(On) = IF s.skip THEN 0 ELSE 1
      BY <2>4, <2>5, <3>2
    <3>4. QED
      BY <2>8, <3>3 DEF s, z, wall
  <2>9. QED
    BY <2>6, <2>7, <2>8
<1>2. PreviewInv => WallClockIsKept
  BY <1>1 DEF WallClockIsKept
<1>3. QED
  BY <1>2, PreviewSafety, PTL

-----------------------------------------------------------------------------
\* The procedures together.

\* Calling one procedure leaves what the others were asked and have answered as
\* it is: whatever is called, each of them runs as if it were alone.
THEOREM EachByItself == Spec => PreviewSpec /\ EligibilitySpec /\ ResolutionSpec
<1>1. Init => PreviewInit /\ EligibilityInit /\ ResolutionInit
  <2>1. PreviewRests => PreviewInit
    BY RestingAssumption DEF PreviewRests, PreviewInit
  <2>2. EligibilityRests => EligibilityInit
    BY RestingAssumption DEF EligibilityRests, EligibilityInit
  <2>3. ResolutionRests => ResolutionInit
    BY RestingAssumption DEF ResolutionRests, ResolutionInit
  <2>4. QED
    BY <2>1, <2>2, <2>3 DEF Init
<1>2. [Next]_vars => /\ [Preview]_previewVars
                     /\ [Evaluate]_eligibilityVars
                     /\ [ApplyVariable]_resolutionVars
  BY DEF Next, vars, previewVars, eligibilityVars, resolutionVars
<1>3. QED
  BY <1>1, <1>2, PTL DEF Spec, PreviewSpec, EligibilitySpec, ResolutionSpec

\* What a procedure promises when it is called by itself it promises where all of
\* them are called, and none of them disturbs the types of another.
THEOREM DecisionsKeepPromises ==
  Spec => [](TypeOK /\ PreviewIsComplete /\ WallClockIsKept
               /\ EligibleWhenAllPermit /\ ResolutionIgnoresOrder)
<1>1. Init => procedure \in {"preview", "eligibility", "resolution"}
  BY DEF Init
<1>2. procedure \in {"preview", "eligibility", "resolution"} /\ [Next]_vars
        => (procedure \in {"preview", "eligibility", "resolution"})'
  BY DEF Next, vars
<1>3. procedure \in {"preview", "eligibility", "resolution"}
        /\ PreviewInv /\ EligibilityTypeOK /\ ResolutionInv => TypeOK
  BY DEF TypeOK, PreviewInv, ResolutionInv
<1>4. QED
  BY <1>1, <1>2, <1>3, EachByItself, PreviewSafety, PreviewsAreComplete, WallClockStays,
     DecisionsInOrder, EligibleExactly, ResolutionSafety, OrderDoesNotMatter, PTL DEF Spec
=============================================================================
