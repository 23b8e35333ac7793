------------------------------ MODULE MCDecisions ------------------------------
\* Instances of DomainDecisions: the values a cfg cannot write.
EXTENDS DomainDecisions

\* 3 slots a day, 3 days a week.  Spring forward in the second slot of the
\* day, fall back in it, across midnight backwards, a zone at rest, spring
\* forward over two slots that span midnight, and over two before it.
MCZones == {[shift |-> 12, before |-> 1, after |-> 2],
            [shift |-> 13, before |-> 2, after |-> 1],
            [shift |-> 11, before |-> 2, after |-> 1],
            [shift |-> 0, before |-> 1, after |-> 1],
            [shift |-> 9, before |-> 1, after |-> 3],
            [shift |-> 11, before |-> 1, after |-> 3]}

MCIntervals == [every : {2, 5}, anchor : {7, 12}]
MCWeeklies == [at : 0..(DayLength - 1), weekdays : {{0}, {1, 2}, {0, 1, 2}}, skip : BOOLEAN]
MCStarts == 6..15
MCWeekdayOf == [d \in Days |-> IF d = "sat" THEN "saturday" ELSE "weekday"]
MCKeys == <<"k", "l">>
MCNames == <<"p", "q", "r">>

AnyRequest ==
    [schedule |-> [kind |-> "interval", of |-> [every |-> 2, anchor |-> 7]],
     zone |-> CHOOSE z \in Zones : TRUE, after |-> 6, count |-> 1]
AnyInquiry ==
    [conditions |-> <<[kind |-> "unsure"]>>, day |-> "mon", environment |-> "prod"]
NoVariables ==
    [n \in NameSet |-> [layer |-> Min(Layers), variables |-> [k \in KeySet |-> "absent"]]]
===============================================================================
