------------------------------ MODULE MCRuntime ------------------------------
\* Instances of Runtime: the values a cfg cannot write.
EXTENDS Runtime, TLC

Mishap(fault, lost, interrupt, kill) ==
    [fault |-> fault, lost |-> lost, interrupt |-> interrupt, kill |-> kill]

None == Mishap(0, 0, 0, 0)
Lost == Mishap(0, 1, 0, 0)
Everything == Mishap(1, 1, 1, 1)
OneFault == Mishap(1, 0, 0, 0)

Exited(good) ==
    [termination |-> "exited", cause |-> "not_terminated", good |-> good]
TimedOut ==
    [termination |-> "signalled", cause |-> "run_timeout", good |-> FALSE]
NotStarted ==
    [termination |-> "not_started", cause |-> "not_terminated", good |-> FALSE]

AllResults == {Exited(TRUE), Exited(FALSE), TimedOut, NotStarted}
FewResults == {Exited(TRUE), NotStarted}

TwoAttempts ==
    [maxAttempts |-> 2, retryTimeouts |-> FALSE, retryOutcomeFailures |-> FALSE]
OneAttempt == [TwoAttempts EXCEPT !.maxAttempts = 1]

Symmetry == Permutations(Runners)
==============================================================================
