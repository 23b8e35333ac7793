------------------------------ MODULE MCExecutor ------------------------------
\* Instances of Executor.
EXTENDS Executor

\* With and without a timeout, a grace and a limit that is reached.
SomeRequests ==
    [timeout : {0, 1}, grace : {0, 1}, limit : {1, 4}, cancellable : BOOLEAN]

\* Silent ones, and ones that print more than the pipe holds.
SomePrograms ==
    [lines : {0, 3}, endless : BOOLEAN, stubborn : BOOLEAN,
     child : {"none", "holds", "detached"}, deaf : BOOLEAN]
===============================================================================
