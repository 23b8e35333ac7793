------------------------------- MODULE Executor -------------------------------
(***************************************************************************)
(* SubprocessExecutor.run (adapters/executors/subprocess_executor.py): one  *)
(* process under supervision.                                               *)
(*                                                                          *)
(* Beside the supervising thread run the leader of the process group, a     *)
(* child it may leave behind, the threads that drain the pipes, the clock   *)
(* and whoever cancels.  Time is only whether the run timeout and the grace *)
(* have passed; output is counted in lines, and the two streams are one.    *)
(***************************************************************************)
EXTENDS Naturals

CONSTANTS
    Requests,   \* ExecutionRequest: timeout, grace (zero: none), output limit
    Programs,   \* what may be run: see ProgramShape
    PipeSize    \* lines a pipe holds that nobody reads

\* lines: what the leader prints before it ends; endless: it does not end by
\* itself; stubborn: it ignores SIGTERM; child: it leaves a child behind, which
\* keeps the pipes open ("holds"), has output of its own ("detached"), or is
\* absent; deaf: the child ignores SIGTERM.
ProgramShape ==
    [lines : Nat, endless : BOOLEAN, stubborn : BOOLEAN,
     child : {"none", "holds", "detached"}, deaf : BOOLEAN]
RequestShape == [timeout : Nat, grace : Nat, limit : Nat, cancellable : BOOLEAN]

ASSUME ExecutorAssumption ==
    /\ Programs \subseteq ProgramShape
    /\ Requests \subseteq RequestShape
    /\ PipeSize \in Nat \ {0}

VARIABLES
    request, program,   \* what run() was called with, and what it starts
    pc,                 \* the supervising thread
    cause, sent,        \* why and with which signal it terminates
    leader, child,      \* the processes
    signals,            \* what the group has been sent
    late, patience,     \* the run timeout has passed; the grace has passed
    cancelled,          \* should_cancel() returns true
    written, pipe, kept, dropped, truncated,    \* the output
    report

process == <<leader, child, signals>>
output == <<written, pipe, kept, dropped, truncated>>
decided == <<cause, sent, report>>
clock == <<late, patience, cancelled>>
given == <<request, program>>
vars == <<given, pc, decided, process, clock, output>>

NoReport == [mode |-> "none", signal |-> "none", cause |-> "none"]
Report(mode, signal, why) == [mode |-> mode, signal |-> signal, cause |-> why]
Ended == {"exited_0", "exited_1", "term", "kill", "other_signal"}

TypeOK ==
    /\ request \in Requests
    /\ program \in Programs
    /\ pc \in {"launch", "poll", "decide", "terminate", "grace", "killed",
               "join", "close", "classify", "done"}
    /\ cause \in {"none", "run_timeout", "cancellation"}
    /\ sent \in {"none", "term", "kill"}
    /\ leader \in {"none", "running"} \cup Ended
    /\ child \in {"none", "running", "gone"}
    /\ signals \subseteq {"term", "kill"}
    /\ late \in BOOLEAN /\ patience \in BOOLEAN
    /\ cancelled \in BOOLEAN /\ truncated \in BOOLEAN
    /\ written \in 0..program.lines
    /\ pipe \in 0..PipeSize
    /\ written = pipe + kept + dropped
    /\ report.mode \in {"none", "not_started", "exited_0", "exited_1", "signalled"}

Init ==
    /\ request \in Requests
    /\ program \in Programs
    /\ pc = "launch"
    /\ cause = "none" /\ sent = "none" /\ report = NoReport
    /\ leader = "none" /\ child = "none" /\ signals = {}
    /\ late = FALSE /\ patience = FALSE /\ cancelled = FALSE
    /\ written = 0 /\ pipe = 0 /\ kept = 0 /\ dropped = 0
    /\ truncated = FALSE

-----------------------------------------------------------------------------
\* The supervising thread.

\* Popen fails, or a feature is not supported, or the action does not suit.
Launch ==
    /\ pc = "launch"
    /\ \/ /\ leader' = "running"
          /\ child' = IF program.child = "none" THEN "none" ELSE "running"
          /\ pc' = "poll"
          /\ UNCHANGED report
       \/ /\ report' = Report("not_started", "none", "none")
          /\ pc' = "done"
          /\ UNCHANGED <<leader, child>>
    /\ UNCHANGED <<given, cause, sent, signals, clock, output>>

Poll ==
    /\ pc = "poll"
    /\ pc' = IF leader \in Ended THEN "join" ELSE "decide"
    /\ UNCHANGED <<given, decided, process, clock, output>>

\* The timeout is looked at first, and not at all when it is zero.
Decide ==
    LET timeUp == request.timeout > 0 /\ late
    IN /\ pc = "decide"
       /\ \/ timeUp /\ cause' = "run_timeout" /\ pc' = "terminate"
          \/ ~timeUp /\ cancelled /\ cause' = "cancellation" /\ pc' = "terminate"
          \/ ~timeUp /\ ~cancelled /\ pc' = "poll" /\ UNCHANGED cause
       /\ UNCHANGED <<given, sent, report, process, clock, output>>

\* The process group gets the signal, whatever of it is left.
SignalGroup(sig) ==
    /\ sent' = sig
    /\ signals' = signals \cup {sig}

\* A process that is over meanwhile is not signalled, and neither is its group.
TerminateSlip ==
    /\ pc = "terminate"
    /\ IF leader \in Ended THEN sent' = "term" /\ UNCHANGED signals
       ELSE SignalGroup("term")
    /\ pc' = "grace"
    /\ UNCHANGED <<given, cause, report, leader, child, clock, output>>

Terminate ==
    /\ pc = "terminate"
    /\ SignalGroup("term")
    /\ pc' = "grace"
    /\ UNCHANGED <<given, cause, report, leader, child, clock, output>>

\* A process that ignores the first signal is waited for.
EscalateSlip ==
    /\ pc = "grace"
    /\ leader \in Ended
    /\ pc' = "join"
    /\ UNCHANGED <<given, decided, process, clock, output>>

\* wait(timeout=grace or None): a grace of zero waits without end.
Escalate ==
    /\ pc = "grace"
    /\ \/ /\ leader \in Ended
          /\ pc' = "join"
          /\ UNCHANGED <<sent, signals>>
       \/ /\ leader = "running"
          /\ request.grace > 0 /\ patience
          /\ SignalGroup("kill")
          /\ pc' = "killed"
    /\ UNCHANGED <<given, cause, report, leader, child, clock, output>>

\* The second wait ends with the process, or after ten seconds without it.
AfterKill ==
    /\ pc = "killed"
    /\ pc' = "join"
    /\ UNCHANGED <<given, decided, process, clock, output>>

\* Who still has the other end of the pipes.
Writers ==
    \/ leader = "running"
    \/ child = "running" /\ program.child = "holds"

\* join(): the threads have read what there is; at the end of the streams, or
\* for five seconds nothing came.
Join ==
    /\ pc = "join"
    /\ pipe = 0
    /\ pc' = "close"
    /\ UNCHANGED <<given, decided, process, clock, output>>

\* close() waits for the thread that is reading from the same stream.
ClosePipes ==
    /\ pc = "close"
    /\ ~Writers
    /\ pc' = "classify"
    /\ UNCHANGED <<given, decided, process, clock, output>>

\* How the process ended is asked first.
ClassifySlip ==
    /\ pc = "classify"
    /\ report' =
         IF leader \in {"exited_0", "exited_1"} THEN Report(leader, "none", "none")
         ELSE IF cause # "none" THEN Report("signalled", sent, cause)
         ELSE Report("signalled", leader, "external")
    /\ pc' = "done"
    /\ UNCHANGED <<given, cause, sent, process, clock, output>>

\* A negative return code is an exit status.
ClassifyNegative ==
    /\ pc = "classify"
    /\ report' = IF cause # "none" THEN Report("signalled", sent, cause)
                 ELSE Report(leader, "none", "none")
    /\ pc' = "done"
    /\ UNCHANGED <<given, cause, sent, process, clock, output>>

\* A termination that was begun decides, then the return code.
Classify ==
    /\ pc = "classify"
    /\ report' =
         IF cause # "none" THEN Report("signalled", sent, cause)
         ELSE IF leader \in {"exited_0", "exited_1"} THEN Report(leader, "none", "none")
         ELSE Report("signalled", leader, "external")
    /\ pc' = "done"
    /\ UNCHANGED <<given, cause, sent, process, clock, output>>

Supervise ==
    \/ Launch \/ Poll \/ Decide \/ Terminate \/ Escalate \/ AfterKill
    \/ Join \/ ClosePipes \/ Classify

-----------------------------------------------------------------------------
\* The threads that drain the pipes.

\* What is beyond the limit goes without a word.
DrainSlip ==
    /\ pipe > 0
    /\ pipe' = pipe - 1
    /\ IF kept < request.limit
       THEN kept' = kept + 1 /\ UNCHANGED dropped
       ELSE dropped' = dropped + 1 /\ UNCHANGED kept
    /\ UNCHANGED <<given, pc, decided, process, clock, written, truncated>>

\* At the limit the thread goes on reading, and drops what it reads.
Drain ==
    /\ pipe > 0
    /\ pipe' = pipe - 1
    /\ IF kept < request.limit
       THEN kept' = kept + 1 /\ UNCHANGED <<dropped, truncated>>
       ELSE dropped' = dropped + 1 /\ truncated' = TRUE /\ UNCHANGED kept
    /\ UNCHANGED <<given, pc, decided, process, clock, written>>

-----------------------------------------------------------------------------
\* The processes, the clock, and who cancels.

\* A process that is being killed does nothing any more.
Alive == leader = "running" /\ "kill" \notin signals

LeaderWrites ==
    /\ Alive
    /\ written < program.lines
    /\ pipe < PipeSize
    /\ written' = written + 1
    /\ pipe' = pipe + 1
    /\ UNCHANGED <<given, pc, decided, process, clock, kept, dropped, truncated>>

\* It comes to its end, or a handler of SIGTERM ends it.
LeaderExits ==
    /\ Alive
    /\ \/ written = program.lines /\ ~program.endless
       \/ "term" \in signals /\ ~program.stubborn
    /\ leader' \in {"exited_0", "exited_1"}
    /\ UNCHANGED <<given, pc, decided, child, signals, clock, output>>

LeaderDies ==
    /\ leader = "running"
    /\ \/ leader' = "term" /\ "term" \in signals /\ ~program.stubborn
       \/ leader' = "kill" /\ "kill" \in signals
    /\ UNCHANGED <<given, pc, decided, child, signals, clock, output>>

\* Somebody else kills it.
LeaderIsKilled ==
    /\ leader = "running"
    /\ leader' = "other_signal"
    /\ UNCHANGED <<given, pc, decided, child, signals, clock, output>>

ChildDies ==
    /\ child = "running"
    /\ "kill" \in signals \/ ("term" \in signals /\ ~program.deaf)
    /\ child' = "gone"
    /\ UNCHANGED <<given, pc, decided, leader, signals, clock, output>>

ChildEnds ==
    /\ child = "running"
    /\ child' = "gone"
    /\ UNCHANGED <<given, pc, decided, leader, signals, clock, output>>

TimePasses ==
    /\ pc # "done"
    /\ \/ late' = TRUE /\ ~late /\ UNCHANGED patience
       \/ patience' = TRUE /\ ~patience /\ pc = "grace" /\ UNCHANGED late
    /\ UNCHANGED <<given, pc, decided, process, cancelled, output>>

Cancel ==
    /\ request.cancellable /\ ~cancelled
    /\ pc # "done"
    /\ cancelled' = TRUE
    /\ UNCHANGED <<given, pc, decided, process, late, patience, output>>

Leader == LeaderWrites \/ LeaderExits \/ LeaderDies \/ LeaderIsKilled

Next ==
    \/ Supervise \/ Drain
    \/ Leader \/ ChildDies \/ ChildEnds
    \/ TimePasses \/ Cancel

Spec == Init /\ [][Next]_vars

\* Threads and processes run, signals arrive and time passes; nobody has to
\* cancel or to kill, and a child ends when it is told to, if it listens.
Fairness ==
    /\ WF_vars(Supervise)
    /\ WF_vars(Drain)
    /\ WF_vars(LeaderWrites)
    /\ WF_vars(LeaderExits)
    /\ WF_vars(LeaderDies)
    /\ WF_vars(ChildDies)
    /\ WF_vars(TimePasses)

FairSpec == Spec /\ Fairness

\* What keeps the pipes open ends by itself some time.
EndingSpec == FairSpec /\ WF_vars(ChildEnds /\ program.child = "holds")

-----------------------------------------------------------------------------
\* Properties.

\* The report says how the process ended, and it has ended: an exit status is
\* the process's own and no signal of ours was involved; a termination has its
\* reason in the request or in a cancellation; an external signal is none of
\* ours.  The runtime gives the claim back after it.
ReportTellsWhatHappened ==
    pc = "done" =>
        /\ leader # "running"
        /\ report.signal \in {"term", "kill"} => report.signal \in signals
        /\ CASE report.mode = "not_started" -> leader = "none"
             [] report.cause = "run_timeout" -> request.timeout > 0 /\ late
             [] report.cause = "cancellation" -> cancelled
             [] report.cause = "external" -> leader = "other_signal" /\ signals = {}
             [] OTHER -> report.mode = leader /\ signals = {}

\* What the process printed is captured up to the limit, and what is missing
\* is marked: never silently dropped.
OutputIsWholeOrMarked ==
    pc = "done" =>
        /\ kept + dropped = written
        /\ dropped > 0 <=> truncated
        /\ dropped > 0 => kept >= request.limit

\* A run that ends by itself, or has a timeout, is reported, however much it
\* prints and whether it listens or not.  A grace of zero gives that up.
Bounded ==
    /\ request.timeout > 0 \/ ~program.endless
    /\ request.grace > 0 \/ ~program.stubborn
EveryRunIsReported == Bounded => <>(pc = "done")

\* A termination reaches the whole tree: a child that listens does not outlive it.
TerminationReachesTheTree ==
    pc = "terminate" /\ ~program.deaf ~> child # "running"

\* A run with a timeout returns a report, whatever it leaves behind.
AlwaysReports == request.timeout > 0 /\ request.grace > 0 => <>(pc = "done")
=============================================================================
