----------------------------- MODULE MCDeployment -----------------------------
\* Instances of Deployment: the values a cfg cannot write.
EXTENDS Deployment

AllWords == STRING

Place(store, shape) == [store |-> store, shape |-> shape]
Places ==
    [rev \in Revs |->
        CASE rev \in {"user", "draft"} -> Place("crontab of the user", "region")
          [] rev = "block" -> Place("crontab of the user", "block")
          [] rev = "file" -> Place("/etc/cron.d", "cron.d")
          [] rev = "script" -> Place("/etc/cron.daily", "run-parts")]
TwoTasks == <<"backup", "report">>
UserCrontab == {"crontab of the user"}
CronD == {"/etc/cron.d", "/etc/cron.daily"}

NoText == [cell \in Cells |-> <<>>]
With(cell, text) == [NoText EXCEPT ![cell] = text]
User == <<"crontab of the user", "crontab">>

\* A crontab with lines around a managed region, one whose region belongs to a
\* capability of the same name that is not ours, one with a block and a region,
\* and one in which somebody made the two overlap.
SomeHosts ==
    {With(User, <<Plain("mailto")>>
                  \o RenderRegion(Artefact("report", "user"))
                  \o <<Plain("other job")>>),
     With(User, RenderRegion([slug |-> "report", task |-> "foreign",
                              rev |-> "user"])),
     With(User, <<Plain("mailto")>>
                  \o Block(<<RenderMember(Artefact("backup", "user")),
                             RenderMember(Artefact("report", "block"))>>)
                  \o RenderRegion(Artefact("report", "user"))),
     With(User, <<BlockBegin, Notice>>
                  \o RenderMember(Artefact("backup", "block"))
                  \o <<Line("begin", "report", "report", "user"), BlockEnd,
                       EndMarker("report")>>)}

Estate(backup, report) == [s \in Slugs |-> IF s = "backup" THEN backup ELSE report]
SomeEstates == {Estate("user", NoRev), Estate("block", "file"),
                Estate("block", "block"), Estate("script", "file"),
                Estate("draft", "user")}

Mishap == [fault |-> 1, kill |-> 1]
===============================================================================
