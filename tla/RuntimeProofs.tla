---------------------------- MODULE RuntimeProofs ----------------------------
(***************************************************************************)
(* Theorems about Runtime and the vocabulary it uses.                       *)
(***************************************************************************)
EXTENDS Runtime, TLAPS

-----------------------------------------------------------------------------
\* Classification and retries.

(***************************************************************************)
(* Whatever a process did, its classification can be recorded: Execution's  *)
(* __post_init__ finds a reason code where the outcome requires one, and    *)
(* none where the outcome does not permit one.                              *)
(***************************************************************************)
THEOREM ClassificationIsRecordable ==
  ASSUME NEW r \in ProcessResults, NEW e \in Evidence
  PROVE  LET o == ClassifyProcessResult(r, e) IN
         /\ o \in Outcomes
         /\ o \in OutcomesRequiringReason => HasReason(r)
         /\ HasReason(r) => o \in OutcomesPermittingReason
<1>1. /\ r.termination \in Terminations
      /\ r.cause \in Causes
  BY DEF ProcessResults
<1>2. WasTerminated(r) =>
        TerminationClassification[r.cause] \in {"timed_out", "cancelled", "failed"}
  BY <1>1 DEF WasTerminated, Causes, TerminationClassification
<1> QED
  BY <1>1, <1>2 DEF ClassifyProcessResult, HasReason, Terminations, Outcomes,
     OutcomesThatRan, OutcomesThatDidNotRun, OutcomesRequiringReason,
     OutcomesPermittingReason

(***************************************************************************)
(* The retry loop never runs work again whose end nobody can prove, that    *)
(* somebody cancelled or that succeeded, and never beyond the policy.       *)
(***************************************************************************)
THEOREM RetriesAreSafe ==
  ASSUME NEW r \in ProcessResults, NEW e \in Evidence, NEW p \in Policies,
         NEW n \in Nat, DecideRetry(ClassifyProcessResult(r, e), p, n)
  PROVE  /\ n < p.maxAttempts
         /\ r.termination # "abandoned"
         /\ r.termination # "not_started" =>
              r.cause \notin {"cancellation_requested", "superseded"}
         /\ r.good => WasTerminated(r) \/ e.errored \/ e.failed > 0
<1> DEFINE o == ClassifyProcessResult(r, e)
<1>1. /\ r.termination \in Terminations
      /\ r.cause \in Causes
      /\ r.good => r.termination = "exited"
  BY DEF ProcessResults
<1>2. o \in Outcomes
  BY ClassificationIsRecordable
<1>3. o \notin {"succeeded", "unknown", "cancelled"}
  BY <1>2 DEF DecideRetry, RetryEligibility, Outcomes, OutcomesThatRan
<1>4. r.cause \in {"cancellation_requested", "superseded"} =>
        TerminationClassification[r.cause] = "cancelled"
  BY DEF TerminationClassification
<1> QED
  BY <1>1, <1>3, <1>4 DEF DecideRetry, ClassifyProcessResult, WasTerminated,
     Terminations

-----------------------------------------------------------------------------
\* Type correctness.

\* A finished record is a record.
LEMMA FinishType ==
  ASSUME NEW e \in Records, NEW o \in Outcomes
  PROVE  Finish(e, o) \in Records
BY DEF Finish, Records, States

\* What save leaves in the table is a record.
LEMMA WriteType ==
  ASSUME TypeOK, NEW r \in Runners, NEW e \in Records, Write(r, e)
  PROVE  db' \in [Runners -> Records]
<1>1. db[r] \in Records
  BY DEF TypeOK
<1>2. Merged(db[r], e) \in Records
  BY <1>1 DEF Merged, Records
<1> QED
  BY <1>2 DEF TypeOK, Write

\* Counting a mishap keeps the counters well formed.
LEMMA HappensType ==
  ASSUME TypeOK, NEW k \in DOMAIN Mishaps, Happens(k)
  PROVE  mishaps' \in [DOMAIN Mishaps -> Nat]
BY DEF TypeOK, Happens

\* The kinds of mishap there are.
LEMMA Kinds == DOMAIN Mishaps = {"fault", "lost", "interrupt", "kill"}
BY RuntimeAssumption

\* A transaction, whatever became of it, leaves table and counters well formed.
LEMMA TransactionType ==
  ASSUME TypeOK, NEW r \in Runners, NEW e \in Records,
         Saved(r, e) \/ NotSaved(r, e)
  PROVE  /\ db' \in [Runners -> Records]
         /\ mishaps' \in [DOMAIN Mishaps -> Nat]
<1>1. CASE Saved(r, e)
  BY <1>1, WriteType DEF Saved, TypeOK
<1>2. CASE Happens("fault") /\ UNCHANGED db
  BY <1>2, HappensType, Kinds DEF TypeOK
<1>3. CASE Happens("lost") /\ Write(r, e)
  BY <1>3, HappensType, WriteType, Kinds
<1> QED
  BY <1>1, <1>2, <1>3 DEF NotSaved

\* A runner goes to one of its steps.
LEMMA GoToType ==
  ASSUME TypeOK, NEW r \in Runners, NEW step \in Steps, GoTo(r, step)
  PROVE  pc' \in [Runners -> Steps]
BY DEF TypeOK, GoTo

\* A runner's frame is replaced by a frame.
LEMMA SetType ==
  ASSUME TypeOK, NEW r \in Runners, NEW f \in Frames, Set(r, f)
  PROVE  frame' \in [Runners -> Frames]
BY DEF TypeOK, Set

\* What a frame holds.
LEMMA FrameFields ==
  ASSUME TypeOK, NEW r \in Runners
  PROVE  /\ frame[r] \in Frames
         /\ frame[r].outer \in Records
         /\ frame[r].inner \in Records
         /\ db[r] \in Records
BY DEF TypeOK, Frames

\* The steps by name.
LEMMA StepNames ==
  /\ {"load", "lookup", "create", "enter", "evaluate", "acquire", "block",
      "prepare", "begin", "launch", "working", "record", "decide", "fail",
      "unproven", "release", "force", "done", "dead"} \subseteq Steps
BY DEF Steps, Before, Body, Handlers, Finally, Ended

\* run() before its try block.
LEMMA BeforeTypeOK ==
  ASSUME TypeOK, NEW r \in Runners, Load(r) \/ LookUp(r) \/ Create(r) \/ Enter(r)
  PROVE  TypeOK'
<1> USE StepNames, FrameFields, Kinds
<1>1. [frame[r] EXCEPT !.raising = TRUE] \in Frames
  BY DEF Frames
<1>2. CASE Load(r)
  BY <1>1, <1>2, GoToType, SetType, HappensType DEF Load, TypeOK
<1>3. CASE LookUp(r)
  <2>1. ASSUME NEW q \in SameKey(r)
        PROVE  [frame[r] EXCEPT !.returned = Reported(db[q])] \in Frames
    <3>1. q \in Runners
      BY RuntimeAssumption DEF SameKey
    <3>2. Reported(db[q]) \in Outcomes \cup {"none", "unfinished"}
      BY <3>1 DEF Reported, TypeOK, Records
    <3> QED
      BY <3>2 DEF Frames
  <2> QED
    BY <1>1, <1>3, <2>1, GoToType, SetType, HappensType DEF LookUp, TypeOK
<1>4. CASE Create(r)
  <2>1. Requested \in Records
    BY DEF Requested, NoRecord, Records, States
  <2>2. [frame[r] EXCEPT !.outer = Requested] \in Frames
    BY <2>1 DEF Frames
  <2>3. /\ db' \in [Runners -> Records]
        /\ mishaps' \in [DOMAIN Mishaps -> Nat]
    BY <1>4, <2>1, TransactionType DEF Create, TypeOK
  <2> QED
    BY <1>1, <1>4, <2>2, <2>3, GoToType, SetType DEF Create, TypeOK
<1>5. CASE Enter(r)
  BY <1>5, GoToType DEF Enter, TypeOK
<1> QED
  BY <1>2, <1>3, <1>4, <1>5

\* The path from the try block to the executor.
LEMMA StartTypeOK ==
  ASSUME TypeOK, NEW r \in Runners,
         Evaluate(r) \/ AcquireLock(r) \/ Block(r) \/ Prepare(r) \/ BeginAttempt(r)
  PROVE  TypeOK'
<1> USE StepNames, FrameFields, Kinds
<1>1. CASE Evaluate(r)
  <2> DEFINE e == [frame[r].outer EXCEPT !.state = "evaluating"]
  <2>1. e \in Records
    BY DEF Records, States
  <2>2. [frame[r] EXCEPT !.outer = e] \in Frames
    BY <2>1 DEF Frames
  <2>3. /\ db' \in [Runners -> Records]
        /\ mishaps' \in [DOMAIN Mishaps -> Nat]
    BY <1>1, <2>1, TransactionType DEF Evaluate
  <2> QED
    BY <1>1, <2>2, <2>3, GoToType, SetType DEF Evaluate, ToHandler, TypeOK
<1>2. CASE AcquireLock(r)
  <2>1. clock + Lease \in Nat
    BY RuntimeAssumption DEF TypeOK
  <2>2. Granted(r) \in [owner : Runners \cup {Nobody}, until : Nat]
    BY <2>1 DEF Granted
  <2>3. Holding(r) \in Frames
    BY <2>1 DEF Holding, Frames
  <2> QED
    BY <1>2, <2>2, <2>3, GoToType, SetType, HappensType
       DEF AcquireLock, ToHandler, TypeOK
<1>3. CASE Block(r)
  <2>1. Finish(frame[r].outer, "blocked") \in Records
    BY FinishType DEF Outcomes, OutcomesThatDidNotRun
  <2>2. [frame[r] EXCEPT !.finished = TRUE, !.returned = "blocked"] \in Frames
    BY DEF Frames, Outcomes, OutcomesThatDidNotRun
  <2>3. /\ db' \in [Runners -> Records]
        /\ mishaps' \in [DOMAIN Mishaps -> Nat]
    BY <1>3, <2>1, TransactionType DEF Block
  <2> QED
    BY <1>3, <2>2, <2>3, GoToType, SetType DEF Block, ToHandler, Return, TypeOK
<1>4. CASE Prepare(r)
  BY <1>4, GoToType DEF Prepare, TypeOK
<1>5. CASE BeginAttempt(r)
  <2> DEFINE e == [frame[r].inner EXCEPT !.state = "running", !.attempts = @ + 1,
                                         !.open = TRUE]
  <2>1. e \in Records
    <3>1. ASSUME NEW i \in Records
          PROVE  [i EXCEPT !.state = "running", !.attempts = @ + 1,
                           !.open = TRUE] \in Records
      <4>1. i.attempts + 1 \in Nat
        BY DEF Records
      <4> QED
        BY <4>1 DEF Records, States
    <3> QED
      BY <3>1
  <2>2. [frame[r] EXCEPT !.inner = e] \in Frames
    BY <2>1 DEF Frames
  <2>3. /\ db' \in [Runners -> Records]
        /\ mishaps' \in [DOMAIN Mishaps -> Nat]
    BY <1>5, <2>1, TransactionType DEF BeginAttempt
  <2> QED
    BY <1>5, <2>2, <2>3, GoToType, SetType DEF BeginAttempt, ToHandler, TypeOK
<1> QED
  BY <1>1, <1>2, <1>3, <1>4, <1>5

\* What the runtime classifies is an outcome.
LEMMA DecisionType ==
  ASSUME TypeOK, NEW r \in Runners
  PROVE  ClassifyProcessResult(frame[r].result, NoEvidence) \in Outcomes
<1>1. frame[r].result \in ProcessResults
  BY DEF TypeOK, Frames
<1>2. NoEvidence \in Evidence
  BY DEF NoEvidence, Evidence
<1> QED
  BY <1>1, <1>2, ClassificationIsRecordable

\* The path from the executor to the decision.
LEMMA EndTypeOK ==
  ASSUME TypeOK, NEW r \in Runners,
         Launch(r) \/ Report(r) \/ RecordResult(r) \/ Decide(r)
  PROVE  TypeOK'
<1> USE StepNames, FrameFields, Kinds
<1>1. ASSUME NEW res \in Results
      PROVE  [frame[r] EXCEPT !.result = res] \in Frames
  BY RuntimeAssumption DEF Frames
<1>2. CASE Launch(r)
  <2>1. ASSUME GoTo(r, "working"), work' = work \cup {r},
               launches' = [launches EXCEPT ![r] = @ + 1], UNCHANGED frame
        PROVE  TypeOK'
    <3>1. launches[r] + 1 \in Nat
      BY DEF TypeOK
    <3>2. launches' \in [Runners -> Nat]
      BY <2>1, <3>1 DEF TypeOK
    <3> QED
      BY <1>2, <2>1, <3>2, GoToType DEF Launch, TypeOK
  <2>2. ASSUME NEW res \in Results, GoTo(r, "record"),
               Set(r, [frame[r] EXCEPT !.result = res]),
               UNCHANGED <<work, launches>>
        PROVE  TypeOK'
    BY <1>1, <1>2, <2>2, GoToType, SetType DEF Launch, TypeOK
  <2> QED
    BY <1>2, <2>1, <2>2 DEF Launch
<1>3. CASE Report(r)
  BY <1>1, <1>3, GoToType, SetType DEF Report, TypeOK
<1>4. CASE RecordResult(r)
  <2> DEFINE e == [frame[r].inner EXCEPT !.open = FALSE]
  <2>1. e \in Records
    BY DEF Records
  <2>2. [frame[r] EXCEPT !.inner = e] \in Frames
    BY <2>1 DEF Frames
  <2>3. /\ db' \in [Runners -> Records]
        /\ mishaps' \in [DOMAIN Mishaps -> Nat]
    BY <1>4, <2>1, TransactionType DEF RecordResult
  <2> QED
    BY <1>4, <2>2, <2>3, GoToType, SetType DEF RecordResult, ToHandler, TypeOK
<1>5. CASE Decide(r)
  <2> DEFINE o == ClassifyProcessResult(frame[r].result, NoEvidence)
  <2>1. o \in Outcomes
    BY DecisionType
  <2>2. Finish(frame[r].inner, o) \in Records
    BY <2>1, FinishType
  <2>3. [frame[r] EXCEPT !.finished = TRUE, !.returned = o] \in Frames
    BY <2>1 DEF Frames
  <2>4. /\ db' \in [Runners -> Records]
        /\ mishaps' \in [DOMAIN Mishaps -> Nat]
    BY <1>5, <2>2, TransactionType DEF Decide, TypeOK
  <2> HIDE DEF o
  <2> QED
    BY <1>5, <2>3, <2>4, GoToType, SetType
       DEF Decide, ToHandler, Return, TypeOK, o
<1> QED
  BY <1>2, <1>3, <1>4, <1>5

\* The handlers and the finally block.
LEMMA CleanUpTypeOK ==
  ASSUME TypeOK, NEW r \in Runners,
         Fail(r) \/ RecordUnproven(r) \/ ReleaseLock(r) \/ ForceTerminal(r)
  PROVE  TypeOK'
<1> USE StepNames, FrameFields, Kinds
<1>1. ASSUME NEW o \in Outcomes, NEW raising \in BOOLEAN, Leave(r, o, raising)
      PROVE  TypeOK'
  <2>1. Finish(frame[r].outer, o) \in Records
    BY FinishType
  <2>2. /\ db' \in [Runners -> Records]
        /\ mishaps' \in [DOMAIN Mishaps -> Nat]
    BY <1>1, <2>1, TransactionType DEF Leave
  <2>3. /\ [frame[r] EXCEPT !.finished = TRUE, !.raising = raising,
                            !.returned = IF raising THEN "none" ELSE o] \in Frames
        /\ [frame[r] EXCEPT !.raising = TRUE] \in Frames
    BY DEF Frames
  <2> QED
    BY <1>1, <2>2, <2>3, GoToType, SetType DEF Leave, TypeOK
<1>2. CASE Fail(r) \/ RecordUnproven(r)
  BY <1>1, <1>2
     DEF Fail, RecordUnproven, Outcomes, OutcomesThatDidNotRun
<1>3. CASE ReleaseLock(r)
  <2> DEFINE f == [frame[r] EXCEPT !.held = FALSE]
  <2>1. /\ f \in Frames
        /\ [f EXCEPT !.raising = TRUE, !.returned = "none"] \in Frames
    BY DEF Frames
  <2>2. LapsedBy(r) \in [owner : Runners \cup {Nobody}, until : Nat]
    BY RuntimeAssumption DEF LapsedBy, TypeOK
  <2> QED
    BY <1>3, <2>1, <2>2, GoToType, SetType, HappensType
       DEF ReleaseLock, AfterReleaseFails, TypeOK
<1>4. CASE ForceTerminal(r)
  <2>1. Finish(db[r], "unknown") \in Records
    BY FinishType DEF Outcomes
  <2>2. /\ db' \in [Runners -> Records]
        /\ mishaps' \in [DOMAIN Mishaps -> Nat]
    BY <1>4, <2>1, TransactionType, HappensType DEF ForceTerminal, TypeOK
  <2> QED
    BY <1>4, <2>2, GoToType DEF ForceTerminal, TypeOK
<1> QED
  BY <1>2, <1>3, <1>4

\* Interrupts, deaths, orphans and the clock.
LEMMA OutsideTypeOK ==
  ASSUME TypeOK,
         \/ \E r \in Runners : Interrupt(r) \/ Kill(r) \/ OrphanEnds(r)
         \/ Tick
  PROVE  TypeOK'
<1> USE StepNames, FrameFields, Kinds
<1>1. ASSUME NEW r \in Runners, Interrupt(r)
      PROVE  TypeOK'
  <2>1. /\ [frame[r] EXCEPT !.raising = TRUE] \in Frames
        /\ [frame[r] EXCEPT !.raising = TRUE, !.returned = "none"] \in Frames
    BY DEF Frames
  <2> QED
    BY <1>1, <2>1, GoToType, SetType, HappensType DEF Interrupt, TypeOK
<1>2. ASSUME NEW r \in Runners, Kill(r)
      PROVE  TypeOK'
  BY <1>2, GoToType, HappensType DEF Kill, TypeOK
<1>3. ASSUME NEW r \in Runners, OrphanEnds(r)
      PROVE  TypeOK'
  BY <1>3 DEF OrphanEnds, TypeOK
<1>4. CASE Tick
  BY <1>4, RuntimeAssumption DEF Tick, TypeOK
<1> QED
  BY <1>1, <1>2, <1>3, <1>4

(***************************************************************************)
(* Every reachable state of the runtime is well formed: each record has a   *)
(* lifecycle state and an outcome of the vocabulary, whatever mishap struck *)
(* whichever step.                                                          *)
(***************************************************************************)
THEOREM TypeCorrect == Spec => []TypeOK
<1>1. Init => TypeOK
  BY RuntimeAssumption
     DEF Init, TypeOK, NoRecord, Records, FreshFrame, Frames, Unproven,
         ProcessResults, Terminations, Causes, States, Outcomes, Steps, Before
<1>2. TypeOK /\ [Next]_vars => TypeOK'
  <2>1. ASSUME TypeOK, NEW r \in Runners, Run(r)
        PROVE  TypeOK'
    BY <2>1, BeforeTypeOK, StartTypeOK, EndTypeOK, CleanUpTypeOK DEF Run
  <2>2. ASSUME TypeOK, UNCHANGED vars
        PROVE  TypeOK'
    BY <2>2 DEF TypeOK, vars
  <2> QED
    BY <2>1, <2>2, OutsideTypeOK DEF Next
<1> QED
  BY <1>1, <1>2, PTL DEF Spec

-----------------------------------------------------------------------------
\* The inductive invariant.

\* Where a runner has no handle yet, and where it certainly has one.
Unlocked == Before \cup {"evaluate", "acquire", "block"}
Attempting == {"launch", "working", "record", "decide"}
Locked == {"prepare", "begin"} \cup Attempting

\* A handle is there when the attempts are made, and while its lease lasts the
\* claim is the one it was given for.
LockInv ==
    \A r \in Runners :
        /\ pc[r] \in Unlocked => ~frame[r].held
        /\ pc[r] \in Locked => frame[r].held
        /\ frame[r].held /\ clock < frame[r].until
             => claim = [owner |-> r, until |-> frame[r].until]

\* A live claim without a handle is the trace of a transaction that failed.
ClaimsAreHeld ==
    \A r \in Runners :
        claim.owner = r /\ Live
            => frame[r].held \/ mishaps["fault"] + mishaps["lost"] > 0

\* What is stored of an execution when its runner is at a step.
RowFollows(r) ==
    /\ pc[r] \in {"load", "lookup", "create"} => db[r] = NoRecord
    /\ pc[r] \in {"enter", "evaluate"} => db[r].state = "pending"
    /\ pc[r] \in {"acquire", "block", "prepare"} => db[r].state = "evaluating"
    /\ pc[r] = "begin" => db[r].state \in {"evaluating", "running"}
    /\ pc[r] \in Attempting => db[r].state = "running"
    /\ pc[r] \in Handlers \cup Finally => db[r].state # "none"
    /\ pc[r] \in Before \cup Body => db[r].outcome = "none"
    /\ db[r].state # "cancelling"

\* The copies in memory are unfinished; the outer one has no attempts, the
\* inner one all of them.
CopiesFollow(r) ==
    /\ frame[r].outer.attempts = 0
    /\ frame[r].outer.outcome = "none"
    /\ frame[r].inner.outcome = "none"
    /\ pc[r] = "prepare" => frame[r].inner.attempts = 0
    /\ pc[r] \in {"begin"} \cup Attempting
         => frame[r].inner.attempts = db[r].attempts
    /\ pc[r] \in Attempting => frame[r].inner.state = "running"

\* Attempts are counted before they are launched, and there is one left when
\* one is begun.
AttemptsAddUp(r) ==
    /\ launches[r] <= db[r].attempts
    /\ db[r].attempts <= Policy.maxAttempts
    /\ pc[r] \in Unlocked \cup {"prepare"} => db[r].attempts = 0
    /\ db[r].state = "none" => db[r].attempts = 0
    /\ pc[r] = "begin" => db[r].attempts < Policy.maxAttempts
    /\ pc[r] = "launch" => launches[r] < db[r].attempts
    /\ pc[r] = "working" => launches[r] > 0

\* A result of a process is there only when one was launched, and when its
\* attempt was closed it stays closed.
ResultsAreEarned(r) ==
    /\ pc[r] \in {"record", "decide"} /\ frame[r].result.good => launches[r] > 0
    /\ pc[r] = "decide" => ~frame[r].inner.open
    /\ db[r].outcome = "succeeded" =>
         /\ frame[r].result.good
         /\ launches[r] > 0
         /\ ~db[r].open

\* What will be returned is recorded first, and not written over then.
ReturnFollows(r) ==
    /\ pc[r] \in Before \cup Body \cup Handlers => frame[r].returned = "none"
    /\ frame[r].returned # "none" /\ db[r].state # "none"
         => db[r].state = "finished" /\ db[r].outcome = frame[r].returned

\* Only a lost reply lets a handler find its execution finished.
HandlersFindItOpen(r) ==
    pc[r] \in Handlers /\ db[r].state = "finished" => mishaps["lost"] > 0

RunnerInv(r) ==
    /\ RowFollows(r)
    /\ CopiesFollow(r)
    /\ AttemptsAddUp(r)
    /\ ResultsAreEarned(r)
    /\ ReturnFollows(r)
    /\ HandlersFindItOpen(r)

\* The unique constraint holds of what is stored.
KeysAreUnique ==
    \A q, r \in Keyed : q # r => db[q].state = "none" \/ db[r].state = "none"

RuntimeInv ==
    /\ TypeOK
    /\ LockInv
    /\ ClaimsAreHeld
    /\ \A r \in Runners : RunnerInv(r)
    /\ KeysAreUnique

-----------------------------------------------------------------------------
\* What a step does to the runner that takes it, and to the others.

\* Nothing of another runner is touched.
LEMMA OthersStay ==
  ASSUME TypeOK, NEW r \in Runners,
         Run(r) \/ Interrupt(r) \/ Kill(r) \/ OrphanEnds(r),
         NEW q \in Runners \ {r}
  PROVE  /\ pc'[q] = pc[q]
         /\ frame'[q] = frame[q]
         /\ db'[q] = db[q]
         /\ launches'[q] = launches[q]
BY DEF TypeOK, Run, Interrupt, Kill, OrphanEnds, Load, LookUp, Create, Enter,
   Evaluate, AcquireLock, Block, Prepare, BeginAttempt, Launch, Report,
   RecordResult, Decide, Fail, RecordUnproven, Leave, ReleaseLock,
   ForceTerminal, Return, ToHandler, GoTo, Set, Saved, NotSaved, Write

\* A mishap is counted.
LEMMA HappensCounts ==
  ASSUME TypeOK, NEW k \in DOMAIN Mishaps, Happens(k)
  PROVE  /\ mishaps'[k] > 0
         /\ \A l \in DOMAIN Mishaps : mishaps'[l] >= mishaps[l]
BY DEF TypeOK, Happens

\* No step takes a mishap back.
LEMMA MishapsGrow ==
  ASSUME TypeOK, [Next]_vars
  PROVE  /\ mishaps'["lost"] >= mishaps["lost"]
         /\ mishaps'["fault"] >= mishaps["fault"]
<1>1. \/ UNCHANGED mishaps
      \/ \E k \in {"fault", "lost", "interrupt", "kill"} : Happens(k)
  BY DEF Next, vars, Run, Interrupt, Kill, OrphanEnds, Tick, Load, LookUp,
     Create, Enter, Evaluate, AcquireLock, Block, Prepare, BeginAttempt,
     Launch, Report, RecordResult, Decide, Fail, RecordUnproven, Leave,
     ReleaseLock, ForceTerminal, Saved, NotSaved
<1> QED
  BY <1>1, Kinds, HappensCounts DEF TypeOK

\* The row of a runner after a transaction; only a lost reply lets a save that
\* is not reported as done have an effect.
LEMMA RowAfter ==
  ASSUME TypeOK, NEW r \in Runners, NEW e \in Records,
         Saved(r, e) \/ NotSaved(r, e)
  PROVE  /\ Saved(r, e) => db'[r] = Merged(db[r], e)
         /\ db'[r] = db[r] \/ db'[r] = Merged(db[r], e)
         /\ NotSaved(r, e) /\ db'[r] # db[r] => mishaps'["lost"] > 0
BY Kinds, HappensCounts DEF TypeOK, Saved, NotSaved, Write

\* What a merge leaves of an attempt count.
LEMMA MergedFields ==
  ASSUME NEW d \in Records, NEW e \in Records
  PROVE  /\ Merged(d, e).state = e.state
         /\ Merged(d, e).outcome = e.outcome
         /\ e.attempts = 0 => /\ Merged(d, e).attempts = d.attempts
                              /\ d.attempts > 0 => Merged(d, e).open = d.open
         /\ e.attempts >= d.attempts => /\ Merged(d, e).attempts = e.attempts
                                        /\ Merged(d, e).open = e.open
BY DEF Merged, Records

-----------------------------------------------------------------------------
\* Each step keeps the invariant of the runner that takes it.

\* run() before its try block.
LEMMA BeforeKeeps ==
  ASSUME TypeOK, TypeOK', NEW r \in Runners, RunnerInv(r),
         Load(r) \/ LookUp(r) \/ Create(r) \/ Enter(r)
  PROVE  RunnerInv(r)'
<1> USE DEF RunnerInv, RowFollows, CopiesFollow, AttemptsAddUp,
            ResultsAreEarned, ReturnFollows, HandlersFindItOpen, Unlocked,
            Attempting, Before, Body, Handlers, Finally, At
<1>1. /\ db[r] \in Records
      /\ frame[r] \in Frames
      /\ launches[r] \in Nat
  BY DEF TypeOK
<1>2. CASE Load(r)
  <2>1. /\ db'[r] = db[r]
        /\ launches'[r] = launches[r]
        /\ pc[r] = "load"
        /\ pc'[r] \in {"lookup", "create", "done"}
        /\ \/ frame'[r] = frame[r]
           \/ frame'[r] = [frame[r] EXCEPT !.raising = TRUE]
    BY <1>2 DEF Load, GoTo, Set, TypeOK
  <2> QED
    BY <1>1, <2>1 DEF Frames, NoRecord
<1>3. CASE LookUp(r)
  <2>1. /\ db'[r] = db[r]
        /\ launches'[r] = launches[r]
        /\ pc[r] = "lookup"
        /\ pc'[r] \in {"create", "done"}
        /\ \/ frame'[r] = frame[r]
           \/ frame'[r] = [frame[r] EXCEPT !.raising = TRUE]
           \/ /\ pc'[r] = "done"
              /\ \E o : frame'[r] = [frame[r] EXCEPT !.returned = o]
    BY <1>3 DEF LookUp, GoTo, Set, TypeOK
  <2>2. /\ frame'[r].outer = frame[r].outer
        /\ frame'[r].inner = frame[r].inner
        /\ pc'[r] # "done" => frame'[r].returned = frame[r].returned
    BY <1>1, <2>1 DEF Frames
  <2> QED
    BY <1>1, <2>1, <2>2 DEF NoRecord
<1>4. CASE Create(r)
  <2>1. Requested \in Records
    BY DEF Requested, NoRecord, Records, States
  <2>2. /\ launches'[r] = launches[r]
        /\ pc[r] = "create"
        /\ db'[r] = db[r] \/ db'[r] = Merged(db[r], Requested)
        /\ \/ /\ pc'[r] = "enter"
              /\ frame'[r] = [frame[r] EXCEPT !.outer = Requested]
              /\ db'[r] = Merged(db[r], Requested)
           \/ /\ pc'[r] = "done"
              /\ frame'[r] = [frame[r] EXCEPT !.raising = TRUE]
    BY <1>4, <2>1, RowAfter DEF Create, GoTo, Set, TypeOK
  <2>3. db'[r] = NoRecord \/ db'[r] = Requested
    BY <2>2 DEF Merged, Requested, NoRecord
  <2> QED
    BY <1>1, <2>2, <2>3, RuntimeAssumption
       DEF Frames, NoRecord, Requested, Merged, Policies
<1>5. CASE Enter(r)
  <2>1. /\ db'[r] = db[r]
        /\ launches'[r] = launches[r]
        /\ frame'[r] = frame[r]
        /\ pc[r] = "enter"
        /\ pc'[r] = "evaluate"
    BY <1>5 DEF Enter, GoTo, TypeOK
  <2> QED
    BY <1>1, <2>1
<1> QED
  BY <1>2, <1>3, <1>4, <1>5

\* The path from the try block to the executor.
LEMMA StartKeeps ==
  ASSUME TypeOK, TypeOK', NEW r \in Runners, RunnerInv(r),
         Evaluate(r) \/ AcquireLock(r) \/ Block(r) \/ Prepare(r) \/ BeginAttempt(r)
  PROVE  RunnerInv(r)'
<1> USE DEF RunnerInv, RowFollows, CopiesFollow, AttemptsAddUp,
            ResultsAreEarned, ReturnFollows, HandlersFindItOpen, Unlocked,
            Attempting, Before, Body, Handlers, Finally, At
<1>1. /\ db[r] \in Records
      /\ frame[r] \in Frames
      /\ frame[r].outer \in Records
      /\ frame[r].inner \in Records
      /\ launches[r] \in Nat
      /\ Policy.maxAttempts \in Nat \ {0}
  BY RuntimeAssumption DEF TypeOK, Frames, Policies
<1>2. CASE Evaluate(r)
  <2> DEFINE e == [frame[r].outer EXCEPT !.state = "evaluating"]
  <2>1. /\ e \in Records
        /\ e.state = "evaluating" /\ e.outcome = "none" /\ e.attempts = 0
    BY <1>1 DEF Records, States
  <2> HIDE DEF e
  <2>2. /\ launches'[r] = launches[r]
        /\ pc[r] = "evaluate"
        /\ \/ /\ pc'[r] = "acquire"
              /\ frame'[r] = [frame[r] EXCEPT !.outer = e]
              /\ Saved(r, e)
           \/ /\ pc'[r] = "fail"
              /\ frame'[r] = frame[r]
              /\ NotSaved(r, e)
    BY <1>2 DEF Evaluate, GoTo, Set, ToHandler, TypeOK, e
  <2>3. /\ db'[r] = db[r] \/ db'[r] = Merged(db[r], e)
        /\ pc'[r] = "acquire" => db'[r] = Merged(db[r], e)
    BY <2>1, <2>2, RowAfter
  <2>4. /\ frame'[r].outer.attempts = 0 /\ frame'[r].outer.outcome = "none"
        /\ frame'[r].inner = frame[r].inner
        /\ frame'[r].returned = frame[r].returned
    BY <1>1, <2>1, <2>2 DEF Frames
  <2> QED
    BY <1>1, <2>1, <2>2, <2>3, <2>4, MergedFields
<1>3. CASE AcquireLock(r)
  <2>1. /\ db'[r] = db[r]
        /\ launches'[r] = launches[r]
        /\ pc[r] = "acquire"
        /\ \/ pc'[r] \in {"block", "fail"} /\ frame'[r] = frame[r]
           \/ pc'[r] = "prepare" /\ frame'[r] = Holding(r)
    BY <1>3 DEF AcquireLock, GoTo, Set, ToHandler, TypeOK
  <2>2. /\ frame'[r].outer = frame[r].outer
        /\ frame'[r].returned = frame[r].returned
        /\ \/ pc'[r] # "prepare" /\ frame'[r].inner = frame[r].inner
           \/ frame'[r].inner = frame[r].outer
    BY <1>1, <2>1 DEF Holding, Frames
  <2> QED
    BY <1>1, <2>1, <2>2
<1>4. CASE Block(r)
  <2> DEFINE e == Finish(frame[r].outer, "blocked")
  <2>1. /\ e \in Records
        /\ e.state = "finished" /\ e.outcome = "blocked" /\ e.attempts = 0
    BY <1>1, FinishType
       DEF Finish, Records, Outcomes, OutcomesThatDidNotRun
  <2> HIDE DEF e
  <2>2. /\ launches'[r] = launches[r]
        /\ pc[r] = "block"
        /\ \/ /\ pc'[r] = "release"
              /\ frame'[r] = [frame[r] EXCEPT !.finished = TRUE,
                                              !.returned = "blocked"]
              /\ Saved(r, e)
           \/ /\ pc'[r] = "fail"
              /\ frame'[r] = frame[r]
              /\ NotSaved(r, e)
    BY <1>4 DEF Block, GoTo, Set, Return, ToHandler, TypeOK, e
  <2>3. /\ db'[r] = db[r] \/ db'[r] = Merged(db[r], e)
        /\ pc'[r] = "release" => db'[r] = Merged(db[r], e)
        /\ db'[r] # db[r] => pc'[r] = "release" \/ mishaps'["lost"] > 0
    BY <2>1, <2>2, RowAfter
  <2>4. /\ frame'[r].outer = frame[r].outer
        /\ frame'[r].inner = frame[r].inner
        /\ pc'[r] = "fail" => frame'[r].returned = frame[r].returned
        /\ pc'[r] = "release" => frame'[r].returned = "blocked"
    BY <1>1, <2>2 DEF Frames
  <2> QED
    BY <1>1, <2>1, <2>2, <2>3, <2>4, MergedFields
<1>5. CASE Prepare(r)
  <2>1. /\ db'[r] = db[r]
        /\ launches'[r] = launches[r]
        /\ frame'[r] = frame[r]
        /\ pc[r] = "prepare"
        /\ pc'[r] \in {"begin", "fail"}
    BY <1>5 DEF Prepare, GoTo, TypeOK
  <2> QED
    BY <1>1, <2>1
<1>6. CASE BeginAttempt(r)
  <2> DEFINE e == [frame[r].inner EXCEPT !.state = "running", !.attempts = @ + 1,
                                         !.open = TRUE]
  <2>1. /\ e \in Records
        /\ e.state = "running" /\ e.outcome = "none"
        /\ e.attempts = frame[r].inner.attempts + 1
    <3>1. ASSUME NEW i \in Records
          PROVE  LET n == [i EXCEPT !.state = "running", !.attempts = @ + 1,
                                    !.open = TRUE]
                 IN  /\ n \in Records
                     /\ n.state = "running" /\ n.outcome = i.outcome
                     /\ n.attempts = i.attempts + 1
      <4>1. i.attempts + 1 \in Nat
        BY DEF Records
      <4> QED
        BY <4>1 DEF Records, States
    <3> QED
      BY <1>1, <3>1
  <2> HIDE DEF e
  <2>2. /\ launches'[r] = launches[r]
        /\ pc[r] = "begin"
        /\ \/ /\ pc'[r] = "launch"
              /\ frame'[r] = [frame[r] EXCEPT !.inner = e]
              /\ Saved(r, e)
           \/ /\ pc'[r] = "fail"
              /\ frame'[r] = frame[r]
              /\ NotSaved(r, e)
    BY <1>6 DEF BeginAttempt, GoTo, Set, ToHandler, TypeOK, e
  <2>3. /\ db'[r] = db[r] \/ db'[r] = Merged(db[r], e)
        /\ pc'[r] = "launch" => db'[r] = Merged(db[r], e)
    BY <2>1, <2>2, RowAfter
  <2>4. /\ frame'[r].outer = frame[r].outer
        /\ frame'[r].returned = frame[r].returned
        /\ pc'[r] = "fail" => frame'[r].inner = frame[r].inner
        /\ pc'[r] = "launch" => frame'[r].inner = e
    BY <1>1, <2>2 DEF Frames
  <2>5. Merged(db[r], e) = e
    BY <1>1, <2>1, <2>2 DEF Merged, Records
  <2> QED
    BY <1>1, <2>1, <2>2, <2>3, <2>4, <2>5 DEF Records
<1> QED
  BY <1>2, <1>3, <1>4, <1>5, <1>6

\* What the results of a classification say about the process.
LEMMA SucceededIsGood ==
  ASSUME NEW r \in ProcessResults,
         ClassifyProcessResult(r, NoEvidence) = "succeeded"
  PROVE  r.good
BY DEF ClassifyProcessResult, ProcessResults, TerminationClassification, Causes,
   WasTerminated

\* The path from the executor to the decision.
LEMMA EndKeeps ==
  ASSUME TypeOK, TypeOK', NEW r \in Runners, RunnerInv(r),
         Launch(r) \/ Report(r) \/ RecordResult(r) \/ Decide(r)
  PROVE  RunnerInv(r)'
<1> USE DEF RunnerInv, RowFollows, CopiesFollow, AttemptsAddUp,
            ResultsAreEarned, ReturnFollows, HandlersFindItOpen, Unlocked,
            Attempting, Before, Body, Handlers, Finally, At
<1>1. /\ db[r] \in Records
      /\ frame[r] \in Frames
      /\ frame[r].outer \in Records
      /\ frame[r].inner \in Records
      /\ frame[r].result \in ProcessResults
      /\ launches[r] \in Nat
      /\ Policy.maxAttempts \in Nat \ {0}
  BY RuntimeAssumption DEF TypeOK, Frames, Policies
<1>2. CASE Launch(r)
  <2>1. /\ db'[r] = db[r]
        /\ pc[r] = "launch"
        /\ \/ /\ pc'[r] = "working"
              /\ frame'[r] = frame[r]
              /\ launches'[r] = launches[r] + 1
           \/ /\ pc'[r] = "record"
              /\ launches'[r] = launches[r]
              /\ \E res \in Results :
                    /\ res.termination = "not_started"
                    /\ frame'[r] = [frame[r] EXCEPT !.result = res]
    BY <1>2 DEF Launch, GoTo, Set, TypeOK
  <2>2. /\ frame'[r].outer = frame[r].outer
        /\ frame'[r].inner = frame[r].inner
        /\ frame'[r].returned = frame[r].returned
        /\ pc'[r] = "record" => ~frame'[r].result.good
    BY <1>1, <2>1, RuntimeAssumption DEF Frames, ProcessResults
  <2> QED
    BY <1>1, <2>1, <2>2 DEF Records
<1>3. CASE Report(r)
  <2>1. /\ db'[r] = db[r]
        /\ launches'[r] = launches[r]
        /\ pc[r] = "working"
        /\ pc'[r] = "record"
        /\ \E res \in Results : frame'[r] = [frame[r] EXCEPT !.result = res]
    BY <1>3 DEF Report, GoTo, Set, TypeOK
  <2>2. /\ frame'[r].outer = frame[r].outer
        /\ frame'[r].inner = frame[r].inner
        /\ frame'[r].returned = frame[r].returned
    BY <1>1, <2>1 DEF Frames
  <2> QED
    BY <1>1, <2>1, <2>2
<1>4. CASE RecordResult(r)
  <2> DEFINE e == [frame[r].inner EXCEPT !.open = FALSE]
  <2>1. /\ e \in Records
        /\ e.state = "running" /\ e.outcome = "none"
        /\ e.attempts = db[r].attempts /\ ~e.open
    BY <1>1, <1>4 DEF Records, RecordResult
  <2> HIDE DEF e
  <2>2. /\ launches'[r] = launches[r]
        /\ pc[r] = "record"
        /\ \/ /\ pc'[r] = "decide"
              /\ frame'[r] = [frame[r] EXCEPT !.inner = e]
              /\ Saved(r, e)
           \/ /\ pc'[r] = "fail"
              /\ frame'[r] = frame[r]
              /\ NotSaved(r, e)
    BY <1>4 DEF RecordResult, GoTo, Set, ToHandler, TypeOK, e
  <2>3. /\ db'[r] = db[r] \/ db'[r] = Merged(db[r], e)
        /\ pc'[r] = "decide" => db'[r] = Merged(db[r], e)
    BY <2>1, <2>2, RowAfter
  <2>4. /\ frame'[r].outer = frame[r].outer
        /\ frame'[r].returned = frame[r].returned
        /\ frame'[r].result = frame[r].result
        /\ pc'[r] = "fail" => frame'[r].inner = frame[r].inner
        /\ pc'[r] = "decide" => frame'[r].inner = e
    BY <1>1, <2>2 DEF Frames
  <2>5. Merged(db[r], e) = e
    BY <1>1, <2>1 DEF Merged, Records
  <2> QED
    BY <1>1, <2>1, <2>2, <2>3, <2>4, <2>5
<1>5. CASE Decide(r)
  <2> DEFINE o == ClassifyProcessResult(frame[r].result, NoEvidence)
             e == Finish(frame[r].inner, o)
  <2>1. o \in Outcomes
    BY DecisionType
  <2>2. o = "succeeded" => frame[r].result.good
    BY <1>1, SucceededIsGood
  <2>3. DecideRetry(o, Policy, frame[r].inner.attempts) =>
          frame[r].inner.attempts < Policy.maxAttempts
    BY DEF DecideRetry
  <2> HIDE DEF o
  <2>4. /\ e \in Records
        /\ e.state = "finished" /\ e.outcome = o
        /\ e.attempts = db[r].attempts /\ ~e.open
    BY <1>1, <1>5, <2>1, FinishType DEF Finish, Records, Decide
  <2> HIDE DEF e
  <2>5. /\ launches'[r] = launches[r]
        /\ pc[r] = "decide"
        /\ \/ /\ pc'[r] = "begin"
              /\ frame'[r] = frame[r]
              /\ db'[r] = db[r]
              /\ DecideRetry(o, Policy, frame[r].inner.attempts)
           \/ /\ pc'[r] = "release"
              /\ frame'[r] = [frame[r] EXCEPT !.finished = TRUE,
                                              !.returned = o]
              /\ Saved(r, e)
           \/ /\ pc'[r] = "fail"
              /\ frame'[r] = frame[r]
              /\ NotSaved(r, e)
    BY <1>5 DEF Decide, GoTo, Set, Return, ToHandler, TypeOK, e, o
  <2>6. /\ db'[r] = db[r] \/ db'[r] = Merged(db[r], e)
        /\ pc'[r] = "release" => db'[r] = Merged(db[r], e)
        /\ pc'[r] = "fail" /\ db'[r] # db[r] => mishaps'["lost"] > 0
    BY <2>4, <2>5, RowAfter
  <2>7. /\ frame'[r].outer = frame[r].outer
        /\ frame'[r].inner = frame[r].inner
        /\ frame'[r].result = frame[r].result
        /\ pc'[r] # "release" => frame'[r].returned = frame[r].returned
        /\ pc'[r] = "release" => frame'[r].returned = o
    BY <1>1, <2>5 DEF Frames
  <2>8. Merged(db[r], e) = e
    BY <1>1, <2>4 DEF Merged, Records
  <2> QED
    BY <1>1, <2>2, <2>3, <2>4, <2>5, <2>6, <2>7, <2>8
<1> QED
  BY <1>2, <1>3, <1>4, <1>5

\* The handlers and the finally block.
LEMMA CleanUpKeeps ==
  ASSUME TypeOK, TypeOK', NEW r \in Runners, RunnerInv(r),
         mishaps'["lost"] >= mishaps["lost"],
         Fail(r) \/ RecordUnproven(r) \/ ReleaseLock(r) \/ ForceTerminal(r)
  PROVE  RunnerInv(r)'
<1> USE DEF RunnerInv, RowFollows, CopiesFollow, AttemptsAddUp,
            ResultsAreEarned, ReturnFollows, HandlersFindItOpen, Unlocked,
            Attempting, Before, Body, Handlers, Finally, At
<1>1. /\ db[r] \in Records
      /\ frame[r] \in Frames
      /\ frame[r].outer \in Records
      /\ frame[r].inner \in Records
      /\ launches[r] \in Nat
  BY DEF TypeOK, Frames
<1>2. ASSUME NEW o \in Outcomes \ {"succeeded"}, NEW raising \in BOOLEAN,
             pc[r] \in Handlers, Leave(r, o, raising)
      PROVE  RunnerInv(r)'
  <2> DEFINE e == Finish(frame[r].outer, o)
  <2>1. /\ e \in Records
        /\ e.state = "finished" /\ e.outcome = o /\ e.attempts = 0
    BY <1>1, FinishType DEF Finish, Records
  <2> HIDE DEF e
  <2>2. /\ launches'[r] = launches[r]
        /\ pc'[r] = "release"
        /\ \/ /\ frame'[r] = [frame[r] EXCEPT !.finished = TRUE,
                                 !.raising = raising,
                                 !.returned = IF raising THEN "none" ELSE o]
              /\ Saved(r, e)
           \/ /\ frame'[r] = [frame[r] EXCEPT !.raising = TRUE]
              /\ NotSaved(r, e)
    BY <1>2 DEF Leave, GoTo, Set, TypeOK, e
  <2>3. /\ db'[r] = db[r] \/ db'[r] = Merged(db[r], e)
        /\ Saved(r, e) => db'[r] = Merged(db[r], e)
    BY <2>1, <2>2, RowAfter
  <2>4. /\ frame'[r].outer = frame[r].outer
        /\ frame'[r].inner = frame[r].inner
        /\ frame'[r].result = frame[r].result
        /\ \/ frame'[r].returned = "none"
           \/ frame'[r].returned = o /\ Saved(r, e)
    BY <1>1, <1>2, <2>2 DEF Frames
  <2> QED
    BY <1>1, <1>2, <2>1, <2>2, <2>3, <2>4, MergedFields
<1>3. CASE Fail(r) \/ RecordUnproven(r)
  BY <1>2, <1>3
     DEF Fail, RecordUnproven, Outcomes, OutcomesThatDidNotRun
<1>4. CASE ReleaseLock(r)
  <2>1. /\ db'[r] = db[r]
        /\ launches'[r] = launches[r]
        /\ pc[r] = "release"
        /\ pc'[r] \in {"force", "done"}
        /\ \/ frame'[r] = [frame[r] EXCEPT !.held = FALSE]
           \/ frame'[r] = [frame[r] EXCEPT !.held = FALSE, !.raising = TRUE,
                                           !.returned = "none"]
    BY <1>4 DEF ReleaseLock, NeedsForcing, AfterReleaseFails, GoTo, Set, TypeOK
  <2>2. /\ frame'[r].outer = frame[r].outer
        /\ frame'[r].inner = frame[r].inner
        /\ frame'[r].result = frame[r].result
        /\ frame'[r].returned \in {frame[r].returned, "none"}
    BY <1>1, <2>1 DEF Frames
  <2> QED
    BY <1>1, <2>1, <2>2
<1>5. CASE ForceTerminal(r)
  <2> DEFINE e == Finish(db[r], "unknown")
  <2>1. /\ e \in Records
        /\ e.state = "finished" /\ e.outcome = "unknown"
        /\ e.attempts = db[r].attempts
    BY <1>1, FinishType DEF Finish, Records, Outcomes
  <2> HIDE DEF e
  <2>2. /\ launches'[r] = launches[r]
        /\ frame'[r] = frame[r]
        /\ pc[r] = "force"
        /\ pc'[r] = "done"
        /\ \/ db'[r] = db[r]
           \/ db[r].state # "finished" /\ (Saved(r, e) \/ NotSaved(r, e))
    BY <1>5 DEF ForceTerminal, Forces, GoTo, TypeOK, e
  <2>3. \/ db'[r] = db[r]
        \/ db[r].state # "finished" /\ db'[r] = Merged(db[r], e)
    BY <2>1, <2>2, RowAfter
  <2>4. Merged(db[r], e) = e
    BY <1>1, <2>1 DEF Merged, Records
  <2> QED
    BY <1>1, <2>1, <2>2, <2>3, <2>4
<1> QED
  BY <1>3, <1>4, <1>5

\* Interrupts, deaths and orphans.
LEMMA OutsideKeeps ==
  ASSUME TypeOK, TypeOK', NEW r \in Runners, RunnerInv(r),
         Interrupt(r) \/ Kill(r) \/ OrphanEnds(r)
  PROVE  RunnerInv(r)'
<1> USE DEF RunnerInv, RowFollows, CopiesFollow, AttemptsAddUp,
            ResultsAreEarned, ReturnFollows, HandlersFindItOpen, Unlocked,
            Attempting, Before, Body, Handlers, Finally, At
<1>1. /\ db[r] \in Records
      /\ frame[r] \in Frames
      /\ mishaps'["lost"] >= mishaps["lost"]
  BY MishapsGrow DEF TypeOK, Next
<1>2. CASE Interrupt(r)
  <2>1. /\ db'[r] = db[r]
        /\ launches'[r] = launches[r]
        /\ \/ /\ pc[r] \in Before
              /\ pc'[r] = "done"
              /\ frame'[r] = [frame[r] EXCEPT !.raising = TRUE]
           \/ /\ pc[r] \in Body
              /\ pc'[r] = "unproven"
              /\ frame'[r] = frame[r]
           \/ /\ pc[r] \in Handlers
              /\ pc'[r] = "release"
              /\ frame'[r] = [frame[r] EXCEPT !.raising = TRUE]
           \/ /\ pc[r] \in Finally
              /\ pc'[r] = "done"
              /\ frame'[r] = [frame[r] EXCEPT !.raising = TRUE,
                                              !.returned = "none"]
    BY <1>2 DEF Interrupt, GoTo, Set, TypeOK
  <2>2. /\ frame'[r].outer = frame[r].outer
        /\ frame'[r].inner = frame[r].inner
        /\ frame'[r].result = frame[r].result
        /\ frame'[r].returned \in {frame[r].returned, "none"}
    BY <1>1, <2>1 DEF Frames
  <2> QED
    BY <1>1, <2>1, <2>2
<1>3. CASE Kill(r)
  <2>1. /\ db'[r] = db[r]
        /\ launches'[r] = launches[r]
        /\ frame'[r] = frame[r]
        /\ pc'[r] = "dead"
    BY <1>3 DEF Kill, GoTo, TypeOK
  <2> QED
    BY <1>1, <2>1
<1>4. CASE OrphanEnds(r)
  BY <1>4 DEF OrphanEnds
<1> QED
  BY <1>2, <1>3, <1>4

-----------------------------------------------------------------------------
\* Each step keeps what the runners share.

\* The steps that have nothing to do with the lock.
OffLock(r) ==
    \/ Load(r) \/ LookUp(r) \/ Create(r) \/ Enter(r)
    \/ Evaluate(r) \/ Block(r) \/ Prepare(r)
    \/ BeginAttempt(r) \/ Launch(r) \/ Report(r) \/ RecordResult(r) \/ Decide(r)
    \/ Fail(r) \/ RecordUnproven(r) \/ ForceTerminal(r)
    \/ Interrupt(r) \/ Kill(r) \/ OrphanEnds(r)

\* They leave the claim, the handle and its lease alone, and neither come to a
\* step that needs a handle nor back to one that has none yet.
LEMMA OffLockStays ==
  ASSUME TypeOK, NEW r \in Runners, OffLock(r)
  PROVE  /\ UNCHANGED <<clock, claim>>
         /\ frame'[r].held = frame[r].held
         /\ frame'[r].until = frame[r].until
         /\ pc'[r] \in Unlocked => pc[r] \in Unlocked
         /\ pc'[r] \in Locked => pc[r] \in Locked
<1>1. frame[r] \in Frames
  BY DEF TypeOK
<1>2. UNCHANGED <<clock, claim>>
  BY DEF OffLock, Load, LookUp, Create, Enter, Evaluate, Block, Prepare,
     BeginAttempt, Launch, Report, RecordResult, Decide, Fail, RecordUnproven,
     Leave, ForceTerminal, Interrupt, Kill, OrphanEnds
<1>3. /\ pc'[r] \in Unlocked => pc[r] \in Unlocked
      /\ pc'[r] \in Locked => pc[r] \in Locked
  BY DEF OffLock, Load, LookUp, Create, Enter, Evaluate, Block, Prepare,
     BeginAttempt, Launch, Report, RecordResult, Decide, Fail, RecordUnproven,
     Leave, ForceTerminal, Interrupt, Kill, OrphanEnds, At, GoTo, ToHandler,
     TypeOK, Unlocked, Locked, Attempting, Before, Body, Handlers, Finally
<1>4. /\ frame'[r].held = frame[r].held
      /\ frame'[r].until = frame[r].until
  <2> DEFINE f == frame[r]
             Other ==
               \/ frame'[r] = f
               \/ \E e : frame'[r] = [f EXCEPT !.outer = e]
               \/ \E e : frame'[r] = [f EXCEPT !.inner = e]
               \/ \E e : frame'[r] = [f EXCEPT !.result = e]
               \/ \E o : frame'[r] = [f EXCEPT !.returned = o]
               \/ \E o : frame'[r] = [f EXCEPT !.finished = TRUE, !.returned = o]
               \/ \E o, b : frame'[r] = [f EXCEPT !.finished = TRUE,
                                             !.raising = b, !.returned = o]
               \/ frame'[r] = [f EXCEPT !.raising = TRUE]
               \/ frame'[r] = [f EXCEPT !.raising = TRUE, !.returned = "none"]
  <2> USE DEF Set, TypeOK, Return, ToHandler
  <2>1. CASE Load(r) \/ LookUp(r) \/ Create(r) \/ Enter(r)
    <3>1. Other
      BY <2>1 DEF Load, LookUp, Create, Enter
    <3> QED
      BY <1>1, <3>1 DEF Frames
  <2>2. CASE Evaluate(r) \/ Block(r) \/ Prepare(r) \/ BeginAttempt(r)
    <3>1. Other
      BY <2>2 DEF Evaluate, Block, Prepare, BeginAttempt
    <3> QED
      BY <1>1, <3>1 DEF Frames
  <2>3. CASE Launch(r) \/ Report(r) \/ RecordResult(r) \/ Decide(r)
    <3>1. ASSUME Launch(r) \/ Report(r) PROVE Other
      BY <3>1 DEF Launch, Report
    <3>2. ASSUME RecordResult(r) PROVE Other
      BY <3>2 DEF RecordResult
    <3>3. ASSUME Decide(r) PROVE Other
      BY <3>3 DEF Decide
    <3>4. Other
      BY <2>3, <3>1, <3>2, <3>3
    <3> QED
      BY <1>1, <3>4 DEF Frames
  <2>4. CASE Fail(r) \/ RecordUnproven(r) \/ ForceTerminal(r)
    <3>1. ASSUME NEW o, NEW b, Leave(r, o, b) PROVE Other
      <4> DEFINE returned == IF b THEN "none" ELSE o
      <4>1. \/ frame'[r] = [f EXCEPT !.finished = TRUE, !.raising = b,
                                      !.returned = returned]
            \/ frame'[r] = [f EXCEPT !.raising = TRUE]
        BY <3>1 DEF Leave
      <4> HIDE DEF returned
      <4> QED
        BY <4>1
    <3>2. ASSUME ForceTerminal(r) PROVE Other
      BY <3>2 DEF ForceTerminal
    <3>3. Other
      BY <2>4, <3>1, <3>2 DEF Fail, RecordUnproven
    <3> QED
      BY <1>1, <3>3 DEF Frames
  <2>5. CASE Interrupt(r) \/ Kill(r) \/ OrphanEnds(r)
    <3>1. Other
      BY <2>5 DEF Interrupt, Kill, OrphanEnds
    <3> QED
      BY <1>1, <3>1 DEF Frames
  <2> QED
    BY <2>1, <2>2, <2>3, <2>4, <2>5 DEF OffLock
<1> QED
  BY <1>2, <1>3, <1>4

\* The two steps that do.
LEMMA OnLock ==
  ASSUME TypeOK, NEW r \in Runners
  PROVE  /\ AcquireLock(r) =>
              /\ UNCHANGED clock
              /\ pc[r] = "acquire"
              /\ \/ /\ pc'[r] = "prepare" /\ ~Live /\ claim' = Granted(r)
                    /\ frame'[r].held /\ frame'[r].until = clock + Lease
                 \/ /\ pc'[r] \in {"block", "fail"}
                    /\ frame'[r] = frame[r]
                    /\ \/ UNCHANGED claim
                       \/ ~Live /\ claim' = Granted(r) /\ mishaps'["lost"] > 0
         /\ ReleaseLock(r) =>
              /\ UNCHANGED clock
              /\ pc[r] = "release"
              /\ pc'[r] \in {"force", "done"}
              /\ ~frame'[r].held
              /\ \/ frame[r].held /\ claim' = LapsedBy(r)
                 \/ ~frame[r].held /\ claim' = claim
                 \/ claim' = claim /\ mishaps'["fault"] > 0
<1>1. frame[r] \in Frames
  BY DEF TypeOK
<1>2. ASSUME AcquireLock(r)
      PROVE  /\ UNCHANGED clock
             /\ pc[r] = "acquire"
             /\ \/ /\ pc'[r] = "prepare" /\ ~Live /\ claim' = Granted(r)
                   /\ frame'[r] = Holding(r)
                \/ /\ pc'[r] \in {"block", "fail"}
                   /\ frame'[r] = frame[r]
                   /\ \/ UNCHANGED claim
                      \/ /\ ~Live /\ claim' = Granted(r)
                         /\ Happens("lost")
  BY <1>2 DEF AcquireLock, CanClaim, At, GoTo, Set, ToHandler, TypeOK
<1>3. Holding(r).held /\ Holding(r).until = clock + Lease
  BY <1>1 DEF Holding, Frames
<1>4. ASSUME ReleaseLock(r)
      PROVE  /\ UNCHANGED clock
             /\ pc[r] = "release"
             /\ pc'[r] \in {"force", "done"}
             /\ \/ frame'[r] = [frame[r] EXCEPT !.held = FALSE]
                \/ frame'[r] = [frame[r] EXCEPT !.held = FALSE,
                                   !.raising = TRUE, !.returned = "none"]
             /\ \/ frame[r].held /\ claim' = LapsedBy(r)
                \/ ~frame[r].held /\ claim' = claim
                \/ claim' = claim /\ Happens("fault")
  BY <1>4 DEF ReleaseLock, NeedsForcing, AfterReleaseFails, At, GoTo, Set, TypeOK
<1> QED
  BY <1>1, <1>2, <1>3, <1>4, Kinds, HappensCounts DEF Frames

\* Only the two of them, and time, move the lock.
LEMMA LockSteps ==
  ASSUME NEW r \in Runners, Run(r) \/ Interrupt(r) \/ Kill(r) \/ OrphanEnds(r)
  PROVE  OffLock(r) \/ AcquireLock(r) \/ ReleaseLock(r)
BY DEF Run, OffLock

LEMMA LockKeeps ==
  ASSUME TypeOK, TypeOK', LockInv, [Next]_vars
  PROVE  LockInv'
<1> USE DEF LockInv, Live
<1>1. \A q \in Runners : frame[q].until \in Nat
  BY DEF TypeOK, Frames
<1>2. clock \in Nat /\ Lease \in Nat
  BY RuntimeAssumption DEF TypeOK
<1>3. ASSUME NEW r \in Runners, Run(r) \/ Interrupt(r) \/ Kill(r) \/ OrphanEnds(r)
      PROVE  LockInv'
  <2>1. \A q \in Runners \ {r} : pc'[q] = pc[q] /\ frame'[q] = frame[q]
    BY <1>3, OthersStay
  <2>2. CASE OffLock(r)
    BY <2>1, <2>2, OffLockStays
  <2>3. CASE AcquireLock(r)
    BY <1>1, <1>2, <2>1, <2>3, OnLock
       DEF Granted, Unlocked, Locked, Attempting, Before
  <2>4. CASE ReleaseLock(r)
    BY <1>1, <1>2, <2>1, <2>4, OnLock
       DEF LapsedBy, Unlocked, Locked, Attempting, Before
  <2> QED
    BY <1>3, <2>2, <2>3, <2>4, LockSteps
<1>4. CASE Tick
  BY <1>1, <1>2, <1>4 DEF Tick
<1>5. CASE UNCHANGED vars
  BY <1>5 DEF vars
<1> QED
  BY <1>3, <1>4, <1>5 DEF Next

LEMMA ClaimsKeep ==
  ASSUME TypeOK, TypeOK', ClaimsAreHeld, [Next]_vars
  PROVE  ClaimsAreHeld'
<1> USE DEF ClaimsAreHeld, Live
<1>1. /\ clock \in Nat /\ claim.until \in Nat
      /\ mishaps["fault"] \in Nat /\ mishaps["lost"] \in Nat
      /\ mishaps'["fault"] \in Nat /\ mishaps'["lost"] \in Nat
  BY Kinds DEF TypeOK
<1>2. /\ mishaps'["lost"] >= mishaps["lost"]
      /\ mishaps'["fault"] >= mishaps["fault"]
  BY MishapsGrow
<1>3. ASSUME NEW r \in Runners, Run(r) \/ Interrupt(r) \/ Kill(r) \/ OrphanEnds(r)
      PROVE  ClaimsAreHeld'
  <2>1. \A q \in Runners \ {r} : frame'[q] = frame[q]
    BY <1>3, OthersStay
  <2>2. CASE OffLock(r)
    BY <1>1, <1>2, <2>1, <2>2, OffLockStays
  <2>3. CASE AcquireLock(r)
    BY <1>1, <1>2, <2>1, <2>3, OnLock DEF Granted
  <2>4. CASE ReleaseLock(r)
    <3>1. LapsedBy(r) = claim \/ LapsedBy(r).until = clock
      BY DEF LapsedBy, TypeOK
    <3> QED
      BY <1>1, <1>2, <2>1, <2>4, <3>1, OnLock DEF LapsedBy, TypeOK
  <2> QED
    BY <1>3, <2>2, <2>3, <2>4, LockSteps
<1>4. CASE Tick
  BY <1>1, <1>4 DEF Tick
<1>5. CASE UNCHANGED vars
  BY <1>5 DEF vars
<1> QED
  BY <1>3, <1>4, <1>5 DEF Next

\* A row appears by an insert that conflicts with none.
LEMMA RowsAppear ==
  ASSUME TypeOK, NEW r \in Runners, RowFollows(r), db[r].state = "none",
         Run(r) \/ Interrupt(r) \/ Kill(r) \/ OrphanEnds(r)
  PROVE  db'[r] = db[r] \/ SameKey(r) = {}
<1>1. pc[r] \in {"load", "lookup", "create", "done", "dead"}
  BY DEF RowFollows, TypeOK, Steps, Attempting, Before, Body, Handlers, Finally,
     Ended
<1>2. \/ Load(r) \/ LookUp(r) \/ Create(r)
      \/ Interrupt(r) \/ Kill(r) \/ OrphanEnds(r)
  BY <1>1 DEF Run, At, Enter, Evaluate, AcquireLock, Block, Prepare, BeginAttempt,
     Launch, Report, RecordResult, Decide, Fail, RecordUnproven, ReleaseLock,
     ForceTerminal
<1> QED
  BY <1>2 DEF Load, LookUp, Create, Conflicts, Saved, NotSaved, Interrupt, Kill,
     OrphanEnds

LEMMA KeysKeep ==
  ASSUME TypeOK, TypeOK', KeysAreUnique, \A r \in Runners : RunnerInv(r),
         [Next]_vars
  PROVE  KeysAreUnique'
<1>1. ASSUME NEW r \in Runners, Run(r) \/ Interrupt(r) \/ Kill(r) \/ OrphanEnds(r)
      PROVE  KeysAreUnique'
  <2>1. \A q \in Runners \ {r} : db'[q] = db[q]
    BY <1>1, OthersStay
  <2>2. \/ db[r].state # "none"
        \/ db'[r] = db[r]
        \/ SameKey(r) = {}
    BY <1>1, RowsAppear DEF RunnerInv
  <2> QED
    BY <2>1, <2>2, RuntimeAssumption DEF KeysAreUnique, SameKey
<1>2. CASE Tick \/ UNCHANGED vars
  BY <1>2 DEF Tick, vars, KeysAreUnique
<1> QED
  BY <1>1, <1>2 DEF Next

\* The invariant of every runner, whoever takes the step.
LEMMA RunnersKeep ==
  ASSUME TypeOK, TypeOK', \A r \in Runners : RunnerInv(r), [Next]_vars
  PROVE  \A r \in Runners : RunnerInv(r)'
<1>1. mishaps'["lost"] >= mishaps["lost"]
  BY MishapsGrow
<1>2. mishaps["lost"] \in Nat /\ mishaps'["lost"] \in Nat
  BY Kinds DEF TypeOK
<1>3. ASSUME NEW q \in Runners,
             pc'[q] = pc[q], frame'[q] = frame[q], db'[q] = db[q],
             launches'[q] = launches[q]
      PROVE  RunnerInv(q)'
  BY <1>1, <1>2, <1>3 DEF RunnerInv, RowFollows, CopiesFollow, AttemptsAddUp,
     ResultsAreEarned, ReturnFollows, HandlersFindItOpen
<1>4. ASSUME NEW r \in Runners, Run(r) \/ Interrupt(r) \/ Kill(r) \/ OrphanEnds(r)
      PROVE  \A q \in Runners : RunnerInv(q)'
  <2>1. RunnerInv(r)'
    BY <1>1, <1>4, BeforeKeeps, StartKeeps, EndKeeps, CleanUpKeeps, OutsideKeeps
       DEF Run
  <2>2. ASSUME NEW q \in Runners \ {r}
        PROVE  RunnerInv(q)'
    BY <1>3, <1>4, OthersStay
  <2> QED
    BY <2>1, <2>2
<1>5. CASE Tick \/ UNCHANGED vars
  BY <1>3, <1>5 DEF Tick, vars
<1> QED
  BY <1>4, <1>5 DEF Next

-----------------------------------------------------------------------------
\* The theorems.

LEMMA InitRuntimeInv == Init => RuntimeInv
<1> SUFFICES ASSUME Init
             PROVE  RuntimeInv
  OBVIOUS
<1>1. TypeOK
  BY RuntimeAssumption
     DEF Init, TypeOK, NoRecord, Records, FreshFrame, Frames, Unproven,
         ProcessResults, Terminations, Causes, States, Outcomes, Steps, Before
<1>2. LockInv /\ ClaimsAreHeld
  BY RuntimeAssumption
     DEF Init, LockInv, ClaimsAreHeld, Live, FreshFrame, Unlocked, Locked,
         Attempting, Before
<1>3. \A r \in Runners : RunnerInv(r)
  BY RuntimeAssumption
     DEF Init, RunnerInv, RowFollows, CopiesFollow, AttemptsAddUp,
         ResultsAreEarned, ReturnFollows, HandlersFindItOpen, FreshFrame,
         NoRecord, Unlocked, Attempting, Before, Body, Handlers, Finally, Policies
<1>4. KeysAreUnique
  BY RuntimeAssumption DEF Init, KeysAreUnique, NoRecord
<1> QED
  BY <1>1, <1>2, <1>3, <1>4 DEF RuntimeInv

(***************************************************************************)
(* The inductive invariant of the runtime: lock, claims, records, copies    *)
(* and attempts agree at every step of every runner.                        *)
(***************************************************************************)
THEOREM RuntimeSafety == Spec => []RuntimeInv
<1>1. RuntimeInv /\ TypeOK' /\ [Next]_vars => RuntimeInv'
  BY LockKeeps, ClaimsKeep, RunnersKeep, KeysKeep DEF RuntimeInv
<1> QED
  BY <1>1, InitRuntimeInv, TypeCorrect, PTL DEF Spec

(***************************************************************************)
(* While a runner waits for its process and its lease lasts, the row of the *)
(* lock names it: DurableOverlapLock held around _run_attempts.             *)
(***************************************************************************)
THEOREM WorkIsClaimed == Spec => []WorkUnderClaim
<1>1. RuntimeInv => WorkUnderClaim
  BY DEF RuntimeInv, LockInv, WorkUnderClaim, At, Locked, Attempting
<1> QED
  BY <1>1, RuntimeSafety, PTL

(***************************************************************************)
(* Two processes of one task run at once only when one of the two has lost  *)
(* its lease, which is never renewed, or its runner (_execute, the lease of *)
(* DurableOverlapLock).                                                     *)
(***************************************************************************)
THEOREM OverlapsAreExplained == Spec => []OverlapExplained
<1>1. TypeOK /\ WorkUnderClaim => OverlapExplained
  <2> SUFFICES ASSUME TypeOK, WorkUnderClaim, NEW q \in work, NEW r \in work,
                      q # r
               PROVE  \E p \in {q, r} :
                         clock >= frame[p].until \/ ~At(p, "working")
    BY DEF OverlapExplained
  <2>1. /\ q \in Runners /\ r \in Runners
        /\ clock \in Nat
        /\ frame[q].until \in Nat /\ frame[r].until \in Nat
    BY RuntimeAssumption DEF TypeOK, Frames
  <2>2. \/ ~At(q, "working") \/ clock >= frame[q].until
        \/ claim.owner = q
    BY <2>1 DEF WorkUnderClaim
  <2>3. \/ ~At(r, "working") \/ clock >= frame[r].until
        \/ claim.owner = r
    BY <2>1 DEF WorkUnderClaim
  <2> QED
    BY <2>2, <2>3
<1> QED
  BY <1>1, TypeCorrect, WorkIsClaimed, PTL

(***************************************************************************)
(* A runner that came to its end leaves no live claim behind, unless a      *)
(* transaction failed or its finally block was cut short.                   *)
(***************************************************************************)
THEOREM ClaimsAreGivenBack == Spec => []ClaimGivenBack
<1>1. RuntimeInv => ClaimGivenBack
  BY DEF RuntimeInv, ClaimsAreHeld, ClaimGivenBack
<1> QED
  BY <1>1, RuntimeSafety, PTL

(***************************************************************************)
(* No process without an attempt on record, whatever saves failed, and      *)
(* never more attempts than the policy allows (_run_attempts).              *)
(***************************************************************************)
THEOREM LaunchesAreRecorded == Spec => []EveryLaunchIsRecorded
<1>1. RuntimeInv => EveryLaunchIsRecorded
  BY DEF RuntimeInv, RunnerInv, AttemptsAddUp, EveryLaunchIsRecorded
<1> QED
  BY <1>1, RuntimeSafety, PTL

(***************************************************************************)
(* A recorded success is earned by a process that was started, ended well,  *)
(* and whose attempt is closed.                                             *)
(***************************************************************************)
THEOREM SuccessesAreEarned == Spec => []SuccessIsEarned
<1>1. RuntimeInv => SuccessIsEarned
  BY DEF RuntimeInv, RunnerInv, ResultsAreEarned, SuccessIsEarned
<1> QED
  BY <1>1, RuntimeSafety, PTL

(***************************************************************************)
(* What run() returns of an execution is what the database says of it, and  *)
(* nothing writes over it afterwards.                                       *)
(***************************************************************************)
THEOREM ReturnsAreRecorded == Spec => []ReturnsWhatIsRecorded
<1>1. RuntimeInv => ReturnsWhatIsRecorded
  BY DEF RuntimeInv, RunnerInv, ReturnFollows, ReturnsWhatIsRecorded
<1> QED
  BY <1>1, RuntimeSafety, PTL

(***************************************************************************)
(* Deliveries with one idempotency key run the task once, although the      *)
(* lookup of the duplicate and the insert are two transactions.             *)
(***************************************************************************)
THEOREM KeysRunOnce == Spec => []AtMostOneRunPerKey
<1>1. RuntimeInv => AtMostOneRunPerKey
  <2> SUFFICES ASSUME RuntimeInv, NEW q \in Keyed, NEW r \in Keyed,
                      launches[q] > 0, launches[r] > 0, q # r
               PROVE  FALSE
    BY DEF AtMostOneRunPerKey
  <2>1. ASSUME NEW p \in Runners, launches[p] > 0
        PROVE  db[p].state # "none"
    <3>1. launches[p] \in Nat /\ db[p].attempts \in Nat
      BY DEF RuntimeInv, TypeOK, Records
    <3> QED
      BY <2>1, <3>1 DEF RuntimeInv, RunnerInv, AttemptsAddUp
  <2> QED
    BY <2>1, RuntimeAssumption DEF RuntimeInv, KeysAreUnique
<1> QED
  BY <1>1, RuntimeSafety, PTL

-----------------------------------------------------------------------------
\* What a step may write.

LEMMA Writes ==
  ASSUME TypeOK, NEW r \in Runners, RunnerInv(r),
         Run(r) \/ Interrupt(r) \/ Kill(r) \/ OrphanEnds(r)
  PROVE  \/ db'[r] = db[r]
         \/ pc[r] = "create"
         \/ pc[r] = "evaluate" /\ db'[r].state = "evaluating"
         \/ pc[r] \in {"begin", "record"} /\ db'[r].state = "running"
         \/ /\ pc[r] \in {"block", "decide", "fail", "unproven"}
            /\ db'[r].state = "finished"
         \/ /\ pc[r] = "force"
            /\ db[r].state # "finished"
            /\ db'[r].state = "finished"
<1> DEFINE Transaction(e) == Saved(r, e) \/ NotSaved(r, e)
<1>1. /\ db[r] \in Records
      /\ frame[r].outer \in Records
      /\ frame[r].inner \in Records
  BY FrameFields
<1>2. ASSUME NEW e \in Records, Transaction(e)
      PROVE  db'[r] = db[r] \/ db'[r].state = e.state
  BY <1>1, <1>2, RowAfter, MergedFields
<1>3. ASSUME NEW e \in Records, NEW o \in Outcomes, Transaction(Finish(e, o))
      PROVE  db'[r] = db[r] \/ db'[r].state = "finished"
  <2>1. Finish(e, o) \in Records /\ Finish(e, o).state = "finished"
    BY FinishType DEF Finish, Records
  <2> QED
    BY <1>2, <1>3, <2>1
<1>4. /\ {"blocked", "unknown", "infrastructure_failed"} \subseteq Outcomes
      /\ ClassifyProcessResult(frame[r].result, NoEvidence) \in Outcomes
  BY DecisionType DEF Outcomes, OutcomesThatDidNotRun
<1>5. CASE Evaluate(r)
  <2> DEFINE e == [frame[r].outer EXCEPT !.state = "evaluating"]
  <2>1. e \in Records /\ e.state = "evaluating"
    BY <1>1 DEF Records, States
  <2>2. Transaction(e) /\ pc[r] = "evaluate"
    BY <1>5 DEF Evaluate, At
  <2> QED
    BY <1>2, <2>1, <2>2
<1>6. CASE BeginAttempt(r)
  <2> DEFINE e == [frame[r].inner EXCEPT !.state = "running", !.attempts = @ + 1,
                                         !.open = TRUE]
  <2>1. e \in Records /\ e.state = "running"
    <3>1. frame[r].inner.attempts + 1 \in Nat
      BY <1>1 DEF Records
    <3> QED
      BY <1>1, <3>1 DEF Records, States
  <2>2. Transaction(e) /\ pc[r] = "begin"
    BY <1>6 DEF BeginAttempt, At
  <2> QED
    BY <1>2, <2>1, <2>2
<1>7. CASE RecordResult(r)
  <2> DEFINE e == [frame[r].inner EXCEPT !.open = FALSE]
  <2>1. Transaction(e) /\ pc[r] = "record"
    BY <1>7 DEF RecordResult, At
  <2>2. e \in Records /\ e.state = "running"
    BY <1>1, <2>1 DEF Records, RunnerInv, CopiesFollow, Attempting
  <2> QED
    BY <1>2, <2>1, <2>2
<1>8. CASE Block(r)
  <2>1. Transaction(Finish(frame[r].outer, "blocked")) /\ pc[r] = "block"
    BY <1>8 DEF Block, At
  <2> QED
    BY <1>1, <1>3, <1>4, <2>1
<1>9. CASE Decide(r)
  <2> DEFINE o == ClassifyProcessResult(frame[r].result, NoEvidence)
  <2>1. /\ pc[r] = "decide"
        /\ db'[r] = db[r] \/ Transaction(Finish(frame[r].inner, o))
    BY <1>9 DEF Decide, At
  <2> QED
    BY <1>1, <1>3, <1>4, <2>1
<1>10. CASE Fail(r) \/ RecordUnproven(r)
  <2>1. /\ pc[r] \in {"fail", "unproven"}
        /\ \E o \in Outcomes : Transaction(Finish(frame[r].outer, o))
    BY <1>4, <1>10 DEF Fail, RecordUnproven, Leave, At
  <2> QED
    BY <1>1, <1>3, <2>1
<1>11. CASE ForceTerminal(r)
  <2>1. /\ pc[r] = "force"
        /\ \/ db'[r] = db[r]
           \/ /\ db[r].state # "finished"
              /\ Transaction(Finish(db[r], "unknown"))
    BY <1>11 DEF ForceTerminal, Forces, At
  <2> QED
    BY <1>1, <1>3, <1>4, <2>1
<1>12. CASE Create(r)
  BY <1>12 DEF Create, At
<1>13. CASE \/ Load(r) \/ LookUp(r) \/ Enter(r) \/ AcquireLock(r) \/ Prepare(r)
            \/ Launch(r) \/ Report(r) \/ ReleaseLock(r)
            \/ Interrupt(r) \/ Kill(r) \/ OrphanEnds(r)
  BY <1>13 DEF Load, LookUp, Enter, AcquireLock, Prepare, Launch, Report,
     ReleaseLock, Interrupt, Kill, OrphanEnds
<1> QED
  BY <1>5, <1>6, <1>7, <1>8, <1>9, <1>10, <1>11, <1>12, <1>13 DEF Run

(***************************************************************************)
(* The stored state of an execution moves along the legal transitions only, *)
(* although assert_legal_transition is asked about a copy in memory.        *)
(***************************************************************************)
THEOREM StatesMoveLegally == Spec => StateMovesLegally
<1> DEFINE Legal(r) ==
      db[r].state \in States /\ db'[r].state # db[r].state
        => db'[r].state \in LegalTransitions[db[r].state]
<1>1. ASSUME RuntimeInv, [Next]_vars, NEW r \in Runners
      PROVE  Legal(r)
  <2>1. TypeOK /\ RunnerInv(r) /\ db[r] \in Records
    BY <1>1 DEF RuntimeInv, TypeOK
  <2>2. ASSUME Run(r) \/ Interrupt(r) \/ Kill(r) \/ OrphanEnds(r)
        PROVE  Legal(r)
    BY <2>1, <2>2, Writes
       DEF RunnerInv, RowFollows, Attempting, Handlers, Finally, NoRecord,
           States, LegalTransitions, Records
  <2>3. ASSUME NEW q \in Runners \ {r},
               Run(q) \/ Interrupt(q) \/ Kill(q) \/ OrphanEnds(q)
        PROVE  Legal(r)
    BY <2>1, <2>3, OthersStay
  <2>4. CASE Tick \/ UNCHANGED vars
    BY <2>4 DEF Tick, vars
  <2> QED
    BY <1>1, <2>2, <2>3, <2>4 DEF Next
<1>2. RuntimeInv /\ [Next]_vars => \A r \in Runners : Legal(r)
  BY <1>1
<1>3. RuntimeInv /\ [Next]_vars => [\A r \in Runners : Legal(r)]_vars
  BY <1>2
<1> QED
  BY <1>3, RuntimeSafety, PTL DEF Spec, StateMovesLegally

\* Mishaps are bounded.
LEMMA MishapsAreBounded ==
  Spec => [](mishaps \in [DOMAIN Mishaps -> Nat]
               /\ \A k \in DOMAIN Mishaps : mishaps[k] <= Mishaps[k])
<1> DEFINE Bounded == /\ mishaps \in [DOMAIN Mishaps -> Nat]
                      /\ \A k \in DOMAIN Mishaps : mishaps[k] <= Mishaps[k]
<1>1. Init => Bounded
  BY RuntimeAssumption DEF Init
<1>2. ASSUME Bounded, [Next]_vars
      PROVE  Bounded'
  <2>1. \/ UNCHANGED mishaps
        \/ \E k \in {"fault", "lost", "interrupt", "kill"} : Happens(k)
    BY <1>2 DEF Next, vars, Run, Interrupt, Kill, OrphanEnds, Tick, Load,
       LookUp, Create, Enter, Evaluate, AcquireLock, Block, Prepare,
       BeginAttempt, Launch, Report, RecordResult, Decide, Fail, RecordUnproven,
       Leave, ReleaseLock, ForceTerminal, Saved, NotSaved
  <2>2. ASSUME NEW k \in DOMAIN Mishaps, Happens(k)
        PROVE  Bounded'
    <3>1. /\ mishaps[k] \in Nat /\ Mishaps[k] \in Nat
          /\ mishaps[k] < Mishaps[k]
      BY <1>2, <2>2, Kinds, RuntimeAssumption DEF Happens
    <3> QED
      BY <1>2, <2>2, <3>1 DEF Happens
  <2> QED
    BY <1>2, <2>1, <2>2, Kinds
<1> QED
  BY <1>1, <1>2, PTL DEF Spec

(***************************************************************************)
(* ExecutionState.FINISHED, "Terminal. outcome is set and immutable.": true *)
(* as long as no transaction commits whose reply is lost.  That hypothesis  *)
(* cannot be dropped: with one lost reply the handler overwrites a finished *)
(* execution.                                                               *)
(***************************************************************************)
THEOREM TerminalStays ==
  ASSUME Mishaps["lost"] = 0
  PROVE  Spec => TerminalIsImmutable
<1> DEFINE Bounded == /\ mishaps \in [DOMAIN Mishaps -> Nat]
                      /\ \A k \in DOMAIN Mishaps : mishaps[k] <= Mishaps[k]
           Stays(r) == db[r].state = "finished" => db'[r] = db[r]
<1>1. ASSUME RuntimeInv, Bounded, [Next]_vars, NEW r \in Runners
      PROVE  Stays(r)
  <2>1. TypeOK /\ RunnerInv(r) /\ mishaps["lost"] = 0
    BY <1>1, Kinds DEF RuntimeInv
  <2>2. ASSUME Run(r) \/ Interrupt(r) \/ Kill(r) \/ OrphanEnds(r)
        PROVE  Stays(r)
    BY <2>1, <2>2, Writes
       DEF RunnerInv, RowFollows, HandlersFindItOpen, Attempting, Handlers,
           NoRecord
  <2>3. ASSUME NEW q \in Runners \ {r},
               Run(q) \/ Interrupt(q) \/ Kill(q) \/ OrphanEnds(q)
        PROVE  Stays(r)
    BY <2>1, <2>3, OthersStay
  <2>4. CASE Tick \/ UNCHANGED vars
    BY <2>4 DEF Tick, vars
  <2> QED
    BY <1>1, <2>2, <2>3, <2>4 DEF Next
<1>2. RuntimeInv /\ Bounded /\ [Next]_vars => [\A r \in Runners : Stays(r)]_vars
  BY <1>1
<1> QED
  BY <1>2, RuntimeSafety, MishapsAreBounded, PTL DEF Spec, TerminalIsImmutable
=============================================================================
