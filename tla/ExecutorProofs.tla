---------------------------- MODULE ExecutorProofs ----------------------------
(***************************************************************************)
(* Theorems about Executor.                                                 *)
(***************************************************************************)
EXTENDS Executor, TLAPS

-----------------------------------------------------------------------------
\* The inductive invariant.

Steps == {"launch", "poll", "decide", "terminate", "grace", "killed", "join",
          "close", "classify", "done"}
Modes == {"none", "not_started", "exited_0", "exited_1", "signalled"}

\* What the types leave open: the counters one by one, and the report.
CountersOK ==
    /\ kept \in Nat
    /\ dropped \in Nat
    /\ report \in [mode : Modes, signal : {"none", "term", "kill"} \cup Ended,
                   cause : {"none", "run_timeout", "cancellation", "external"}]

\* The leader is there from the launch on.
LaunchedOnce ==
    /\ pc = "launch" => leader = "none" /\ written = 0
    /\ pc \notin {"launch", "done"} => leader # "none"
    /\ leader = "none" => written = 0

\* Nothing is signalled but in a termination, which has a cause; once it has
\* begun, what was sent last has reached the group.
SignalsHaveCauses ==
    /\ cause = "none" => signals = {} /\ sent = "none"
    /\ pc \in {"launch", "poll", "decide"} => cause = "none"
    /\ pc \in {"terminate", "grace", "killed"} => cause # "none"
    /\ sent # "none" => sent \in signals
    /\ cause # "none" /\ pc # "terminate" => sent # "none"
    /\ leader \in {"term", "kill"} => leader \in signals

\* A cause is what made the thread decide, and stays true.
CausesAreReal ==
    /\ cause = "run_timeout" => request.timeout > 0 /\ late
    /\ cause = "cancellation" => cancelled

\* The pipes are given up when the leader is over or cannot write any more.
WritersAreOver ==
    /\ pc = "killed" => "kill" \in signals
    /\ pc \in {"join", "close"} => leader \in Ended \/ "kill" \in signals
    /\ pc = "classify" => leader \in Ended
    /\ pc \in {"close", "classify", "done"} => pipe = 0

\* Output is dropped at the limit, and marked.
DropsAreMarked ==
    /\ dropped > 0 <=> truncated
    /\ dropped > 0 => kept >= request.limit

\* The verdict of _classify on the leader's end.
Verdict ==
    IF cause # "none" THEN Report("signalled", sent, cause)
    ELSE IF leader \in {"exited_0", "exited_1"} THEN Report(leader, "none", "none")
    ELSE Report("signalled", leader, "external")

\* What is reported is the verdict, and nothing it rests on changes any more.
ReportStands ==
    pc = "done" =>
        \/ leader = "none" /\ report = Report("not_started", "none", "none")
           /\ cause = "none"
        \/ leader \in Ended /\ report = Verdict

ExecutorInv ==
    /\ TypeOK
    /\ CountersOK
    /\ LaunchedOnce
    /\ SignalsHaveCauses
    /\ CausesAreReal
    /\ WritersAreOver
    /\ DropsAreMarked
    /\ ReportStands

-----------------------------------------------------------------------------
\* Each action keeps the invariant.

LEMMA InitExecutorInv == Init => ExecutorInv
<1> SUFFICES ASSUME Init
             PROVE  ExecutorInv
  OBVIOUS
<1>1. program.lines \in Nat /\ PipeSize \in Nat
  BY ExecutorAssumption DEF Init, ProgramShape
<1>2. TypeOK
  <2>1. 0 \in 0..program.lines /\ 0 \in 0..PipeSize /\ 0 = 0 + 0 + 0
    BY <1>1
  <2>2. report.mode = "none"
    BY DEF Init, NoReport
  <2> QED
    BY <2>1, <2>2 DEF Init, TypeOK
<1>3. CountersOK
  BY DEF Init, CountersOK, NoReport, Modes
<1>4. LaunchedOnce /\ SignalsHaveCauses /\ CausesAreReal
  BY DEF Init, LaunchedOnce, SignalsHaveCauses, CausesAreReal
<1>5. WritersAreOver /\ DropsAreMarked /\ ReportStands
  BY DEF Init, WritersAreOver, DropsAreMarked, ReportStands
<1> QED
  BY <1>2, <1>3, <1>4, <1>5 DEF ExecutorInv

\* The types: the parts an action assigns, one by one.
LEMMA TypesKeep ==
  ASSUME TypeOK, CountersOK, DropsAreMarked, pc = "classify" => leader \in Ended,
         [Next]_vars
  PROVE  TypeOK' /\ CountersOK' /\ DropsAreMarked'
<1> USE DEF given, decided, process, clock, output, TypeOK
<1>1. UNCHANGED given
  BY DEF Next, Supervise, Launch, Poll, Decide, Terminate, Escalate, AfterKill,
     Join, ClosePipes, Classify, Drain, Leader, LeaderWrites, LeaderExits,
     LeaderDies, LeaderIsKilled, ChildDies, ChildEnds, TimePasses, Cancel, vars
<1>2. /\ pc' \in Steps
      /\ cause' \in {"none", "run_timeout", "cancellation"}
      /\ sent' \in {"none", "term", "kill"}
      /\ signals' \subseteq {"term", "kill"}
  BY DEF Next, Supervise, Launch, Poll, Decide, Terminate, Escalate, AfterKill,
     Join, ClosePipes, Classify, Drain, Leader, LeaderWrites, LeaderExits,
     LeaderDies, LeaderIsKilled, ChildDies, ChildEnds, TimePasses, Cancel, vars,
     SignalGroup, Steps
<1>3. /\ leader' \in {"none", "running"} \cup Ended
      /\ child' \in {"none", "running", "gone"}
  BY DEF Next, Supervise, Launch, Poll, Decide, Terminate, Escalate, AfterKill,
     Join, ClosePipes, Classify, Drain, Leader, LeaderWrites, LeaderExits,
     LeaderDies, LeaderIsKilled, ChildDies, ChildEnds, TimePasses, Cancel, vars,
     Ended
<1>4. /\ late' \in BOOLEAN /\ patience' \in BOOLEAN /\ cancelled' \in BOOLEAN
  BY DEF Next, Supervise, Launch, Poll, Decide, Terminate, Escalate, AfterKill,
     Join, ClosePipes, Classify, Drain, Leader, LeaderWrites, LeaderExits,
     LeaderDies, LeaderIsKilled, ChildDies, ChildEnds, TimePasses, Cancel, vars
<1>5. report' \in [mode : Modes, signal : {"none", "term", "kill"} \cup Ended,
                   cause : {"none", "run_timeout", "cancellation", "external"}]
  <2>1. CASE Launch
    BY <2>1 DEF Launch, CountersOK, Report, Modes
  <2>2. CASE Classify
    BY <2>2 DEF Classify, Report, Modes, Ended
  <2>3. CASE UNCHANGED report
    BY <2>3 DEF CountersOK
  <2> QED
    BY <2>1, <2>2, <2>3
       DEF Next, Supervise, Poll, Decide, Terminate, Escalate, AfterKill, Join,
           ClosePipes, Drain, Leader, LeaderWrites, LeaderExits, LeaderDies,
           LeaderIsKilled, ChildDies, ChildEnds, TimePasses, Cancel, vars
<1>6. /\ written' \in 0..program.lines /\ pipe' \in 0..PipeSize
      /\ written' = pipe' + kept' + dropped'
      /\ kept' \in Nat /\ dropped' \in Nat
      /\ truncated' \in BOOLEAN
      /\ DropsAreMarked'
  <2>1. /\ request.limit \in Nat /\ program.lines \in Nat /\ PipeSize \in Nat
    BY ExecutorAssumption DEF RequestShape, ProgramShape
  <2>2. CASE Drain
    <3>1. /\ kept \in Nat /\ dropped \in Nat /\ pipe \in Nat
          /\ pipe <= PipeSize /\ written = pipe + kept + dropped
          /\ written \in 0..program.lines
          /\ pipe > 0 /\ pipe' = pipe - 1 /\ written' = written
      BY <2>1, <2>2 DEF CountersOK, Drain
    <3>2. CASE kept < request.limit
      BY <1>1, <2>1, <2>2, <3>1, <3>2 DEF Drain, DropsAreMarked
    <3>3. CASE ~(kept < request.limit)
      BY <1>1, <2>1, <2>2, <3>1, <3>3 DEF Drain, DropsAreMarked
    <3> QED
      BY <3>2, <3>3
  <2>3. CASE LeaderWrites
    BY <1>1, <2>1, <2>3 DEF LeaderWrites, CountersOK, DropsAreMarked
  <2>4. CASE UNCHANGED output
    BY <1>1, <2>4 DEF CountersOK, DropsAreMarked
  <2> QED
    BY <2>2, <2>3, <2>4
       DEF Next, Supervise, Launch, Poll, Decide, Terminate, Escalate, AfterKill,
           Join, ClosePipes, Classify, Leader, LeaderExits, LeaderDies,
           LeaderIsKilled, ChildDies, ChildEnds, TimePasses, Cancel, vars
<1>7. report'.mode \in Modes
  BY <1>5
<1> QED
  BY <1>1, <1>2, <1>3, <1>4, <1>5, <1>6, <1>7 DEF CountersOK, Steps, Modes

\* The leader, the signals and the causes.
LEMMA SignalsKeep ==
  ASSUME LaunchedOnce, SignalsHaveCauses, CausesAreReal, [Next]_vars
  PROVE  LaunchedOnce' /\ SignalsHaveCauses' /\ CausesAreReal'
<1> USE DEF given, decided, process, clock, output, Next, Supervise, Launch, Poll,
            Decide, Terminate, Escalate, AfterKill, Join, ClosePipes, Classify,
            Drain, Leader, LeaderWrites, LeaderExits, LeaderDies, LeaderIsKilled,
            ChildDies, ChildEnds, TimePasses, Cancel, vars
<1>1. LaunchedOnce'
  BY DEF LaunchedOnce, Alive, Ended
<1>2. SignalsHaveCauses'
  BY DEF SignalsHaveCauses, LaunchedOnce, Alive, SignalGroup
<1>3. CausesAreReal'
  BY DEF CausesAreReal
<1> QED
  BY <1>1, <1>2, <1>3

\* The pipes and the report.
LEMMA ReportKeeps ==
  ASSUME LaunchedOnce, SignalsHaveCauses, WritersAreOver, ReportStands, TypeOK,
         CountersOK, [Next]_vars
  PROVE  WritersAreOver' /\ ReportStands'
<1> USE DEF given, decided, process, clock, output
<1>1. CASE Supervise
  <2>1. CASE Launch
    <3>1. pipe = 0
      BY <2>1 DEF Launch, LaunchedOnce, TypeOK, CountersOK
    <3> QED
      BY <2>1, <3>1 DEF Launch, WritersAreOver, ReportStands, LaunchedOnce,
         SignalsHaveCauses
  <2>2. CASE Poll \/ Decide \/ Terminate \/ Join
    BY <2>2 DEF Poll, Decide, Terminate, Join, WritersAreOver, ReportStands
  <2>3. CASE Escalate \/ AfterKill
    BY <2>3 DEF Escalate, AfterKill, SignalGroup, WritersAreOver, ReportStands
  <2>4. CASE ClosePipes
    <3>1. leader \in Ended
      BY <2>4 DEF ClosePipes, Writers, LaunchedOnce, TypeOK
    <3> QED
      BY <2>4, <3>1 DEF ClosePipes, WritersAreOver, ReportStands
  <2>5. CASE Classify
    <3>1. leader \in Ended
      BY <2>5 DEF Classify, WritersAreOver
    <3>2. report' = Verdict
      BY <2>5 DEF Classify, Verdict
    <3>3. Verdict' = Verdict
      BY <2>5 DEF Classify, Verdict
    <3> QED
      BY <2>5, <3>1, <3>2, <3>3 DEF Classify, WritersAreOver, ReportStands
  <2> QED
    BY <1>1, <2>1, <2>2, <2>3, <2>4, <2>5 DEF Supervise
<1>2. CASE \/ Drain \/ Leader \/ ChildDies \/ ChildEnds \/ TimePasses \/ Cancel
           \/ UNCHANGED vars
  <2> USE DEF Drain, Leader, LeaderWrites, LeaderExits, LeaderDies,
              LeaderIsKilled, ChildDies, ChildEnds, TimePasses, Cancel, vars
  <2>1. WritersAreOver'
    BY <1>2 DEF WritersAreOver, ReportStands, Alive, Ended
  <2>2. ReportStands'
    BY <1>2 DEF ReportStands, Verdict, Ended, Alive
  <2> QED
    BY <2>1, <2>2
<1> QED
  BY <1>1, <1>2 DEF Next

THEOREM ExecutorSafety == Spec => []ExecutorInv
<1>1. ExecutorInv /\ [Next]_vars => ExecutorInv'
  BY TypesKeep, SignalsKeep, ReportKeeps DEF ExecutorInv, WritersAreOver
<1> QED
  BY <1>1, InitExecutorInv, PTL DEF Spec

(***************************************************************************)
(* Every state of a supervised run is well formed: in particular what the   *)
(* process wrote is in the pipe, kept or dropped, and in no two of them.    *)
(***************************************************************************)
THEOREM TypeCorrect == Spec => []TypeOK
<1>1. ExecutorInv => TypeOK
  BY DEF ExecutorInv
<1> QED
  BY <1>1, ExecutorSafety, PTL

(***************************************************************************)
(* What is missing from the captured output is counted and marked, for any  *)
(* pipe, limit and program (_drain, and the threads' join in run).          *)
(***************************************************************************)
THEOREM OutputIsAccountedFor == Spec => []OutputIsWholeOrMarked
<1>1. ExecutorInv => OutputIsWholeOrMarked
  BY DEF ExecutorInv, TypeOK, CountersOK, WritersAreOver, DropsAreMarked,
     OutputIsWholeOrMarked
<1> QED
  BY <1>1, ExecutorSafety, PTL

(***************************************************************************)
(* The report says how the process ended and why, and when it is there the  *)
(* process is over: what _classify reads cannot change behind it.           *)
(***************************************************************************)
THEOREM ReportsAreTrue == Spec => []ReportTellsWhatHappened
<1>1. ExecutorInv => ReportTellsWhatHappened
  <2> SUFFICES ASSUME ExecutorInv, pc = "done"
               PROVE  ReportTellsWhatHappened
    BY DEF ReportTellsWhatHappened
  <2> USE DEF ExecutorInv
  <2>1. CASE leader = "none"
    BY <2>1 DEF ReportStands, ReportTellsWhatHappened, Report, Ended
  <2>2. CASE leader \in Ended /\ cause # "none"
    BY <2>2 DEF ReportStands, ReportTellsWhatHappened, Report, Ended, Verdict,
       SignalsHaveCauses, CausesAreReal, TypeOK
  <2>3. CASE leader \in {"exited_0", "exited_1"} /\ cause = "none"
    BY <2>3 DEF ReportStands, ReportTellsWhatHappened, Report, Verdict,
       SignalsHaveCauses
  <2>4. CASE leader \in {"term", "kill", "other_signal"} /\ cause = "none"
    BY <2>4 DEF ReportStands, ReportTellsWhatHappened, Report, Verdict,
       SignalsHaveCauses
  <2> QED
    BY <2>1, <2>2, <2>3, <2>4 DEF ReportStands, Ended
<1> QED
  BY <1>1, ExecutorSafety, PTL
=============================================================================
