-------------------------------- MODULE MCTasks --------------------------------
\* Instances of Tasks.
EXTENDS Tasks, TLC

Symmetry == Permutations(Editors) \cup Permutations(RevisionIds)

\* A task that was taken out of service and still has its revision.
Withdrawn ==
    {[slug |-> s, name |-> n, state |-> "retired", active |-> r, version |-> 1] :
        s \in Slugs, n \in Names, r \in RevisionIds}
===============================================================================
