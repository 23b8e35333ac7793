-------------------------------- MODULE Runtime --------------------------------
(***************************************************************************)
(* RuntimeService.run (application/runtime/service.py): the one path from   *)
(* a trigger to a recorded outcome, for several activations of one task     *)
(* that share a database.                                                   *)
(*                                                                          *)
(* Every runner is one call of run() in a process of its own, and one       *)
(* execution record.  Each save is a transaction of its own.  The claim is  *)
(* the atomic fenced lease that ClaimStore implements; its token is left    *)
(* out because every execution is an owner of its own.                      *)
(*                                                                          *)
(* What can go wrong: a transaction fails before its commit ("fault"), or   *)
(* after it so that only the reply is lost ("lost"); the runner is          *)
(* interrupted (an exception, "interrupt") or killed ("kill").  The number  *)
(* of each is bounded by Mishaps.                                           *)
(***************************************************************************)
EXTENDS Outcomes, Naturals

CONSTANTS
    Runners,    \* one per call of run()
    Keyed,      \* the runners that deliver the same idempotency key
    Results,    \* the process results the executor may report
    Policy,     \* the revision's retry policy
    Lease,      \* the lock's lease
    Nobody,     \* no owner
    MaxClock,   \* bound: the clock stops here
    Mishaps     \* bound: how many of each kind of mishap may happen

ASSUME RuntimeAssumption ==
    /\ Keyed \subseteq Runners
    /\ Results \subseteq ProcessResults
    /\ Policy \in Policies
    /\ Lease \in Nat \ {0}
    /\ MaxClock \in Nat
    /\ Nobody \notin Runners
    /\ Mishaps \in [{"fault", "lost", "interrupt", "kill"} -> Nat]

VARIABLES
    clock,      \* Clock.now()
    claim,      \* the task's row in the claims table
    db,         \* db[r]: the executions row of r, with its attempts
    pc,         \* pc[r]: what run() does next
    frame,      \* frame[r]: the local variables of run() and _execute()
    work,       \* the runners whose process is running
    launches,   \* launches[r]: how many processes r has started
    mishaps     \* how many of each kind have happened

vars == <<clock, claim, db, pc, frame, work, launches, mishaps>>

-----------------------------------------------------------------------------
\* State.

\* attempts is how many attempt rows there are; open, whether the last one has
\* no result.
Records == [state : States \cup {"none"}, outcome : Outcomes \cup {"none"},
            attempts : Nat, open : BOOLEAN]

NoRecord == [state |-> "none", outcome |-> "none", attempts |-> 0,
             open |-> FALSE]

\* Execution.requested
Requested == [NoRecord EXCEPT !.state = "pending"]

\* outer is the variable execution of _execute, inner the one of _run_attempts.
\* until is the end of the lease the runner was granted, kept for the
\* properties.
Frames == [outer : Records, inner : Records, held : BOOLEAN, until : Nat,
           finished : BOOLEAN, raising : BOOLEAN,
           result : ProcessResults, returned : Outcomes \cup {"none", "unfinished"}]

Unproven == [termination |-> "abandoned", cause |-> "not_terminated",
             good |-> FALSE]

FreshFrame ==
    [outer |-> NoRecord, inner |-> NoRecord, held |-> FALSE, until |-> 0,
     finished |-> FALSE, raising |-> FALSE, result |-> Unproven,
     returned |-> "none"]

\* run() before the try block of _execute; that block; its two handlers; its
\* finally block.
Before == {"load", "lookup", "create", "enter"}
Body == {"evaluate", "acquire", "block", "prepare", "begin", "launch",
         "working", "record", "decide"}
Handlers == {"fail", "unproven"}
Finally == {"release", "force"}
Ended == {"done", "dead"}
Steps == Before \cup Body \cup Handlers \cup Finally
           \cup Ended

TypeOK ==
    /\ clock \in 0..MaxClock
    /\ claim \in [owner : Runners \cup {Nobody}, until : Nat]
    /\ db \in [Runners -> Records]
    /\ pc \in [Runners -> Steps]
    /\ frame \in [Runners -> Frames]
    /\ work \subseteq Runners
    /\ launches \in [Runners -> Nat]
    /\ mishaps \in [DOMAIN Mishaps -> Nat]

Init ==
    /\ clock = 0
    /\ claim = [owner |-> Nobody, until |-> 0]
    /\ db = [r \in Runners |-> NoRecord]
    /\ pc = [r \in Runners |-> "load"]
    /\ frame = [r \in Runners |-> FreshFrame]
    /\ work = {}
    /\ launches = [r \in Runners |-> 0]
    /\ mishaps = [k \in DOMAIN Mishaps |-> 0]

-----------------------------------------------------------------------------
\* Helpers.

At(r, step) == pc[r] = step
GoTo(r, step) == pc' = [pc EXCEPT ![r] = step]
Set(r, f) == frame' = [frame EXCEPT ![r] = f]

Happens(kind) ==
    /\ mishaps[kind] < Mishaps[kind]
    /\ mishaps' = [mishaps EXCEPT ![kind] = @ + 1]

\* A save that also removes the attempts it is not given.
MergedSlip(stored, e) == e

\* ExecutionRepository.save replaces the execution's columns and updates or
\* inserts the attempts it is given; stored attempts it is not given stay.
Merged(stored, e) ==
    IF e.attempts >= stored.attempts
    THEN e
    ELSE [e EXCEPT !.attempts = stored.attempts, !.open = stored.open]

Write(r, e) == db' = [db EXCEPT ![r] = Merged(@, e)]

\* A transaction that is reported as done, and one that is not.
Saved(r, e) == Write(r, e) /\ UNCHANGED mishaps
NotSaved(r, e) ==
    \/ Happens("fault") /\ UNCHANGED db
    \/ Happens("lost") /\ Write(r, e)

\* Execution.finish
Finish(e, o) == [e EXCEPT !.state = "finished", !.outcome = o]

\* The end of a path that saved a finished execution.
Return(r, f, o) == Set(r, [f EXCEPT !.finished = TRUE, !.returned = o])

Live == claim.until > clock
-----------------------------------------------------------------------------
\* run(): before there is an execution.

\* _load: the task and its active revision; run() raises when the store fails.
Load(r) ==
    /\ At(r, "load")
    /\ \/ /\ GoTo(r, IF r \in Keyed THEN "lookup" ELSE "create")
          /\ UNCHANGED <<frame, mishaps>>
       \/ /\ Happens("fault")
          /\ GoTo(r, "done")
          /\ Set(r, [frame[r] EXCEPT !.raising = TRUE])
    /\ UNCHANGED <<clock, claim, db, work, launches>>

SameKey(r) == {q \in Keyed \ {r} : r \in Keyed /\ db[q].state # "none"}

\* The state where the outcome belongs.
ReportedSlip(e) == e.state

\* RunResult.outcome
Reported(e) == IF e.state = "finished" THEN e.outcome ELSE "unfinished"

\* _find_duplicate: an execution that exists is returned as it is.
LookUp(r) ==
    /\ At(r, "lookup")
    /\ \/ /\ SameKey(r) = {}
          /\ GoTo(r, "create")
          /\ UNCHANGED <<frame, mishaps>>
       \/ \E q \in SameKey(r) :
          /\ GoTo(r, "done")
          /\ Set(r, [frame[r] EXCEPT !.returned = Reported(db[q])])
          /\ UNCHANGED mishaps
       \/ /\ Happens("fault")
          /\ GoTo(r, "done")
          /\ Set(r, [frame[r] EXCEPT !.raising = TRUE])
    /\ UNCHANGED <<clock, claim, db, work, launches>>

\* An insert that does not notice the other delivery's row.
ConflictsSlip(r) == FALSE

\* The unique constraint on task and idempotency key.
Conflicts(r) == SameKey(r) # {}

\* _persist_new.  Nothing catches what it raises, so no handler runs.
Create(r) ==
    /\ At(r, "create")
    /\ \/ /\ ~Conflicts(r)
          /\ Saved(r, Requested)
          /\ GoTo(r, "enter")
          /\ Set(r, [frame[r] EXCEPT !.outer = Requested])
       \/ /\ IF Conflicts(r) THEN UNCHANGED <<db, mishaps>>
                             ELSE NotSaved(r, Requested)
          /\ GoTo(r, "done")
          /\ Set(r, [frame[r] EXCEPT !.raising = TRUE])
    /\ UNCHANGED <<clock, claim, work, launches>>

\* The row is committed; the try block is not entered yet.
Enter(r) ==
    /\ At(r, "enter")
    /\ GoTo(r, "evaluate")
    /\ UNCHANGED <<clock, claim, db, frame, work, launches, mishaps>>

-----------------------------------------------------------------------------
\* The try block of _execute.

\* A handler that starts over instead of finishing the execution.
ToHandlerSlip(r) == GoTo(r, "evaluate") /\ UNCHANGED frame

\* A TaskControlError in the try block.
ToHandler(r) == GoTo(r, "fail") /\ UNCHANGED frame

Evaluate(r) ==
    LET e == [frame[r].outer EXCEPT !.state = "evaluating"] IN
    /\ At(r, "evaluate")
    /\ \/ /\ Saved(r, e)
          /\ GoTo(r, "acquire")
          /\ Set(r, [frame[r] EXCEPT !.outer = e])
       \/ NotSaved(r, e) /\ ToHandler(r)
    /\ UNCHANGED <<clock, claim, work, launches>>

\* A lock that asks only whether it holds the claim itself.
CanClaimSlip(r) == claim.owner # r

CanClaim(r) == ~Live

Granted(r) == [owner |-> r, until |-> clock + Lease]

\* The handle is not kept where the finally block looks for it.
HoldingSlip(r) == [frame[r] EXCEPT !.until = clock + Lease,
                                   !.inner = frame[r].outer]

Holding(r) == [frame[r] EXCEPT !.held = TRUE, !.until = clock + Lease,
                               !.inner = frame[r].outer]

\* DurableOverlapLock.try_acquire: taken, refused, or not known.  A reply that
\* is lost leaves a claim without a handle.
AcquireLock(r) ==
    /\ At(r, "acquire")
    /\ \/ /\ CanClaim(r)
          /\ claim' = Granted(r)
          /\ GoTo(r, "prepare")
          /\ Set(r, Holding(r))
          /\ UNCHANGED mishaps
       \/ /\ ~CanClaim(r)
          /\ GoTo(r, "block")
          /\ UNCHANGED <<claim, frame, mishaps>>
       \/ Happens("fault") /\ ToHandler(r) /\ UNCHANGED claim
       \/ CanClaim(r) /\ Happens("lost") /\ ToHandler(r) /\ claim' = Granted(r)
    /\ UNCHANGED <<clock, db, work, launches>>

Block(r) ==
    LET e == Finish(frame[r].outer, "blocked") IN
    /\ At(r, "block")
    /\ \/ Saved(r, e) /\ GoTo(r, "release") /\ Return(r, frame[r], "blocked")
       \/ NotSaved(r, e) /\ ToHandler(r)
    /\ UNCHANGED <<clock, claim, work, launches>>

\* The executor is looked up and the environment resolved; a missing adapter
\* or a secret reference is a ValidationError.
Prepare(r) ==
    /\ At(r, "prepare")
    /\ GoTo(r, "begin") \/ GoTo(r, "fail")
    /\ UNCHANGED <<clock, claim, db, frame, work, launches, mishaps>>

\* begin_attempt
BeginAttempt(r) ==
    LET e == [frame[r].inner EXCEPT !.state = "running", !.attempts = @ + 1,
                                    !.open = TRUE] IN
    /\ At(r, "begin")
    /\ \/ /\ Saved(r, e)
          /\ GoTo(r, "launch")
          /\ Set(r, [frame[r] EXCEPT !.inner = e])
       \/ NotSaved(r, e) /\ ToHandler(r)
    /\ UNCHANGED <<clock, claim, work, launches>>

\* executor.run, from here to Report: the process starts, or it is reported
\* that it could not.
Launch(r) ==
    /\ At(r, "launch")
    /\ \/ /\ GoTo(r, "working")
          /\ work' = work \cup {r}
          /\ launches' = [launches EXCEPT ![r] = @ + 1]
          /\ UNCHANGED frame
       \/ \E res \in Results :
          /\ res.termination = "not_started"
          /\ GoTo(r, "record")
          /\ Set(r, [frame[r] EXCEPT !.result = res])
          /\ UNCHANGED <<work, launches>>
    /\ UNCHANGED <<clock, claim, db, mishaps>>

\* The process ends, or is ended, and the executor reports how.
Report(r) ==
    /\ At(r, "working")
    /\ work' = work \ {r}
    /\ \E res \in Results :
          /\ res.termination # "not_started"
          /\ Set(r, [frame[r] EXCEPT !.result = res])
    /\ GoTo(r, "record")
    /\ UNCHANGED <<clock, claim, db, launches, mishaps>>

\* A result that could not be saved is let pass.
RecordResultSlip(r) ==
    LET e == [frame[r].inner EXCEPT !.open = FALSE] IN
    /\ At(r, "record")
    /\ \/ Saved(r, e) /\ Set(r, [frame[r] EXCEPT !.inner = e])
       \/ NotSaved(r, e) /\ UNCHANGED frame
    /\ GoTo(r, "decide")
    /\ UNCHANGED <<clock, claim, work, launches>>

\* record_attempt_result
RecordResult(r) ==
    LET e == [frame[r].inner EXCEPT !.open = FALSE] IN
    /\ At(r, "record")
    /\ \/ /\ Saved(r, e)
          /\ GoTo(r, "decide")
          /\ Set(r, [frame[r] EXCEPT !.inner = e])
       \/ NotSaved(r, e) /\ ToHandler(r)
    /\ UNCHANGED <<clock, claim, work, launches>>

\* Classify; retry at once, or finish with the classified outcome.
Decide(r) ==
    LET o == ClassifyProcessResult(frame[r].result, NoEvidence)
        e == Finish(frame[r].inner, o)
    IN
    /\ At(r, "decide")
    /\ IF DecideRetry(o, Policy, frame[r].inner.attempts)
       THEN GoTo(r, "begin") /\ UNCHANGED <<db, frame, mishaps>>
       ELSE \/ Saved(r, e) /\ GoTo(r, "release") /\ Return(r, frame[r], o)
            \/ NotSaved(r, e) /\ ToHandler(r)
    /\ UNCHANGED <<clock, claim, work, launches>>

-----------------------------------------------------------------------------
\* The handlers and the finally block of _execute.

\* A handler that reports what it could not save.
LeaveSlip(r, o, raising) ==
    LET e == Finish(frame[r].outer, o) IN
    /\ Saved(r, e) \/ NotSaved(r, e)
    /\ Set(r, [frame[r] EXCEPT !.finished = TRUE, !.raising = raising,
                              !.returned = IF raising THEN "none" ELSE o])
    /\ GoTo(r, "release")
    /\ UNCHANGED <<clock, claim, work, launches>>

\* Leaving a handler: its own save may fail, and that exception goes on.
Leave(r, o, raising) ==
    LET e == Finish(frame[r].outer, o) IN
    /\ \/ Saved(r, e) /\ Set(r, [frame[r] EXCEPT !.finished = TRUE,
                                   !.raising = raising,
                                   !.returned = IF raising THEN "none" ELSE o])
       \/ NotSaved(r, e) /\ Set(r, [frame[r] EXCEPT !.raising = TRUE])
    /\ GoTo(r, "release")
    /\ UNCHANGED <<clock, claim, work, launches>>

\* except TaskControlError: finished from the execution of this frame, which
\* has none of the attempts that were made since.
Fail(r) == At(r, "fail") /\ Leave(r, "infrastructure_failed", FALSE)

\* except BaseException
RecordUnproven(r) == At(r, "unproven") /\ Leave(r, "unknown", TRUE)

\* The release of a lapsed claim that its next owner already took.
LapsedSlip(r) == [claim EXCEPT !.until = clock]

\* Only the owner's claim is lapsed.
LapsedBy(r) == IF claim.owner = r THEN [claim EXCEPT !.until = clock] ELSE claim

\* The release inside the try block, where its failure reaches a handler.
AfterReleaseFailsSlip == "fail"

AfterReleaseFails == "done"

\* No last line of defence.
NeedsForcingSlip(r) == FALSE

NeedsForcing(r) == ~frame[r].finished

\* The claim is released if there is a handle; an exception there leaves the
\* finally block before the execution is forced to a terminal state.
ReleaseLock(r) ==
    LET f == [frame[r] EXCEPT !.held = FALSE]
        next == IF NeedsForcing(r) THEN "force" ELSE "done"
    IN
    /\ At(r, "release")
    /\ \/ /\ claim' = IF frame[r].held THEN LapsedBy(r) ELSE claim
          /\ GoTo(r, next)
          /\ Set(r, f)
          /\ UNCHANGED mishaps
       \/ /\ frame[r].held
          /\ \/ Happens("fault") /\ UNCHANGED claim
             \/ Happens("lost") /\ claim' = LapsedBy(r)
          /\ GoTo(r, AfterReleaseFails)
          /\ Set(r, [f EXCEPT !.raising = TRUE, !.returned = "none"])
    /\ UNCHANGED <<clock, db, work, launches>>

\* _force_terminal reads the record again and leaves a finished one alone.
Forces(r) == db[r].state # "finished"

ForceTerminal(r) ==
    LET e == Finish(db[r], "unknown") IN
    /\ At(r, "force")
    /\ IF Forces(r)
       THEN Saved(r, e) \/ NotSaved(r, e)
       ELSE UNCHANGED db /\ (UNCHANGED mishaps \/ Happens("fault"))
    /\ GoTo(r, "done")
    /\ UNCHANGED <<clock, claim, frame, work, launches>>

-----------------------------------------------------------------------------
\* Interrupts, deaths and time.

\* KeyboardInterrupt or SystemExit, between two of the steps above.  The
\* executor does not stop the process it was waiting for.  In a handler or in
\* the finally block the rest of that block is skipped.
Interrupt(r) ==
    /\ pc[r] \notin Ended
    /\ Happens("interrupt")
    /\ \/ /\ pc[r] \in Before
          /\ GoTo(r, "done")
          /\ Set(r, [frame[r] EXCEPT !.raising = TRUE])
       \/ /\ pc[r] \in Body
          /\ GoTo(r, "unproven")
          /\ UNCHANGED frame
       \/ /\ pc[r] \in Handlers
          /\ GoTo(r, "release")
          /\ Set(r, [frame[r] EXCEPT !.raising = TRUE])
       \/ /\ pc[r] \in Finally
          /\ GoTo(r, "done")
          /\ Set(r, [frame[r] EXCEPT !.raising = TRUE, !.returned = "none"])
    /\ UNCHANGED <<clock, claim, db, work, launches>>

\* SIGKILL, power loss: nothing of the frame survives.  The process it started
\* has a session of its own and goes on.
Kill(r) ==
    /\ pc[r] \notin Ended
    /\ Happens("kill")
    /\ GoTo(r, "dead")
    /\ UNCHANGED <<clock, claim, db, frame, work, launches>>

\* A process nobody waits for any more ends.
OrphanEnds(r) ==
    /\ r \in work
    /\ ~At(r, "working")
    /\ work' = work \ {r}
    /\ UNCHANGED <<clock, claim, db, pc, frame, launches, mishaps>>

Tick ==
    /\ clock < MaxClock
    /\ clock' = clock + 1
    /\ UNCHANGED <<claim, db, pc, frame, work, launches, mishaps>>

Run(r) ==
    \/ Load(r) \/ LookUp(r) \/ Create(r) \/ Enter(r)
    \/ Evaluate(r) \/ AcquireLock(r) \/ Block(r) \/ Prepare(r)
    \/ BeginAttempt(r) \/ Launch(r) \/ Report(r) \/ RecordResult(r) \/ Decide(r)
    \/ Fail(r) \/ RecordUnproven(r) \/ ReleaseLock(r) \/ ForceTerminal(r)

Next ==
    \/ \E r \in Runners : Run(r) \/ Interrupt(r) \/ Kill(r) \/ OrphanEnds(r)
    \/ Tick

Spec == Init /\ [][Next]_vars

\* A caller that goes on running takes its steps; the processes it starts end, by
\* themselves or by the timeout.  Nothing obliges a mishap or the clock.
FairSpec == Spec /\ \A r \in Runners : WF_vars(Run(r))

-----------------------------------------------------------------------------
\* The overlap lock and the work it protects.

\* While a runner waits for its process and its lease lasts, the task's claim
\* is its own (DurableOverlapLock, ClaimStore.try_acquire).
WorkUnderClaim ==
    \A r \in Runners :
        At(r, "working") /\ clock < frame[r].until
            => claim = [owner |-> r, until |-> frame[r].until]

\* Two processes of one task run at once only when one of them outlived its
\* lease or has no runner waiting for it any more.
OverlapExplained ==
    \A q, r \in work :
        q # r => \E p \in {q, r} : clock >= frame[p].until \/ ~At(p, "working")

\* A runner that came to its end leaves no live claim behind, unless a
\* transaction failed or an interrupt cut its finally block short while it
\* still held the handle.
ClaimGivenBack ==
    \A r \in Runners :
        At(r, "done") /\ Live /\ claim.owner = r
            => frame[r].held \/ mishaps["fault"] + mishaps["lost"] > 0

-----------------------------------------------------------------------------
\* The execution record.

\* A finished execution is never written again (ExecutionState.FINISHED:
\* "Terminal. outcome is set and immutable.").
TerminalIsImmutable ==
    [][\A r \in Runners : db[r].state = "finished" => db'[r] = db[r]]_vars

\* Although every save comes from a copy of the record that may be older than
\* the stored one, the stored state only moves along the legal transitions
\* (assert_legal_transition checks the copy, never the store).
StateMovesLegally ==
    [][\A r \in Runners :
          db[r].state \in States /\ db'[r].state # db[r].state
              => db'[r].state \in LegalTransitions[db[r].state]]_vars

\* Every process that was started has an attempt of its own on record, also
\* after the failed saves, the handlers and the deaths that follow, and no
\* path makes more attempts than the retry policy allows.
EveryLaunchIsRecorded ==
    \A r \in Runners :
        /\ launches[r] <= db[r].attempts
        /\ db[r].attempts <= Policy.maxAttempts

\* A recorded success is the recorded result of a process that was started.
SuccessIsEarned ==
    \A r \in Runners :
        db[r].outcome = "succeeded"
            => /\ frame[r].result.good
               /\ launches[r] > 0
               /\ ~db[r].open

\* Deliveries with one idempotency key start processes for one execution only.
AtMostOneRunPerKey ==
    \A q, r \in Keyed : launches[q] > 0 /\ launches[r] > 0 => q = r

\* The outcome run() returns is the one on record, whichever of the handlers
\* and saves came before; the exit code of a wrapper follows from it.
ReturnsWhatIsRecorded ==
    \A r \in Runners :
        At(r, "done") /\ db[r].state # "none" /\ frame[r].returned # "none"
            => db[r].state = "finished" /\ db[r].outcome = frame[r].returned

\* An execution that is created reaches a terminal persisted state (the
\* guarantee of application/runtime/service.py).
EveryExecutionFinishes ==
    \A r \in Runners : db[r].state # "none" ~> db[r].state = "finished"
=============================================================================
