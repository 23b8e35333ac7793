------------------------------ MODULE Deployment ------------------------------
(***************************************************************************)
(* Deploying the estate to a host's cron: DeploymentService                 *)
(* (application/deployment/service.py) over CronSchedulerManagement         *)
(* (adapters/schedulers/cron/manager.py) and the installed manifests.       *)
(*                                                                          *)
(* An applier is one "taskctl schedule apply", or one removal.  Beside it   *)
(* revisions are activated, capabilities retired, and people edit the host. *)
(* Every read and every write of a store, and every page of the estate, is  *)
(* a step of its own.  A step may fail (an exception, "fault"; in a write   *)
(* also after its effect) and the applier may die anywhere ("kill").        *)
(***************************************************************************)
EXTENDS Rendering

CONSTANTS
    Appliers,
    TaskOrder,      \* the slugs, in the order of their task ids
    Revs, NoRev,    \* revisions; NoRev: not active, or nothing installed
    Words,          \* what lines may say: names of capabilities and revisions, others
    Deploys,        \* DeploymentSpecification of a revision: store and shape
    Undigested,     \* the revisions that were never published
    Crontabs,       \* the configured crontabs
    Directories,    \* the configured directories
    Copies,         \* file names that are no slug
    PageSize,       \* _PAGE_SIZE
    Estates, Hosts, \* bound: what an estate and a host may start with
    MaxApplies, MaxChanges, Mishaps     \* bounds: how many

Slugs == {TaskOrder[i] : i \in DOMAIN TaskOrder}
Names == Slugs \cup Copies
Shapes == {"region", "block", "cron.d", "run-parts"}

\* A crontab is read and written as a whole, a directory file by file.
CrontabCells == {<<c, "crontab">> : c \in Crontabs}
FileCells == Directories \X Names
Cells == CrontabCells \cup FileCells

\* The lines that say whose an artefact is; they name a known capability.
Identifies(line) == line.mark \in {"begin", "member"}
Lines ==
    {line \in [mark : Marks, slug : Words, task : Words, rev : Words] :
        Identifies(line) => line.slug \in Slugs /\ line.rev \in Revs}

ASSUME DeploymentAssumption ==
    /\ TaskOrder \in Seq(Words)
    /\ {"", "theirs"} \cup Slugs \cup Revs \subseteq Words /\ NoRev \notin Revs
    /\ Crontabs \cap Directories = {} /\ Copies \cap Slugs = {}
    /\ IsFiniteSet(Crontabs) /\ IsFiniteSet(Directories)
    /\ Undigested \subseteq Revs
    /\ \A rev \in Revs : Deploys[rev].shape \in Shapes
    /\ Estates \subseteq [Slugs -> Revs \cup {NoRev}]
    /\ PageSize \in Nat \ {0}
    /\ Hosts \subseteq [Cells -> Seq(Lines)]
    /\ {MaxApplies, MaxChanges} \subseteq Nat
    /\ Mishaps \in [{"fault", "kill"} -> Nat]

VARIABLES
    estate,     \* the active revision of every capability
    host,       \* what every crontab and every file holds
    installed,  \* the revision of every installed manifest
    pc, frame,  \* what each applier does next, and its local variables
    before,     \* before[p]: the host when p began, for the properties
    touched,    \* touched[p]: the cells somebody else wrote since
    moved,      \* moved[p]: the estate changed since
    raced,      \* the estate changed, or another began, under an applier
    count       \* how many applies, outside changes and mishaps so far

vars == <<estate, host, installed, pc, frame, before, touched, moved, raced, count>>

-----------------------------------------------------------------------------
\* What the estate wants, and what the host has.

Artefact(slug, rev) == [slug |-> slug, task |-> slug, rev |-> rev]
WritesAFile(rev) == Deploys[rev].shape \in {"cron.d", "run-parts"}
Configured(rev) ==
    Deploys[rev].store \in IF WritesAFile(rev) THEN Directories ELSE Crontabs

RenderArtefact(slug, rev) ==
    LET a == Artefact(slug, rev)
    IN CASE Deploys[rev].shape = "region" -> RenderRegion(a)
         [] Deploys[rev].shape = "block" -> RenderMember(a)
         [] Deploys[rev].shape = "cron.d" -> RenderCronD(a)
         [] Deploys[rev].shape = "run-parts" -> RenderRunParts(a)

CellOf(slug, rev) ==
    <<Deploys[rev].store, IF WritesAFile(rev) THEN slug ELSE "crontab">>

\* _current_content: the piece that carries the slug, in the artefact's own
\* store and shape only.
Carrying(text, slug, rev) ==
    {r \in (IF Deploys[rev].shape = "region" THEN FindManagedRegions(text)
            ELSE FindBlockMembers(text)) : r.slug = slug}

FirstOf(pieces) == CHOOSE r \in pieces : \A q \in pieces : r.start <= q.start

Ambiguous(on, slug, rev) ==
    LET text == on[CellOf(slug, rev)]
    IN CASE WritesAFile(rev) ->
              /\ text # <<>>
              /\ \/ ~RegionsReadable(text)
                 \/ FindManagedRegions(text) = {}
                 \/ FirstOf(FindManagedRegions(text)).task # slug
         [] Deploys[rev].shape = "region" /\ ~RegionsReadable(text) -> TRUE
         [] Deploys[rev].shape = "block" /\ ~BlockReadable(text) -> TRUE
         [] OTHER -> /\ Carrying(text, slug, rev) # {}
                     /\ FirstOf(Carrying(text, slug, rev)).task # slug

CurrentContent(on, slug, rev) ==
    LET text == on[CellOf(slug, rev)]
    IN IF WritesAFile(rev) THEN text
       ELSE IF Carrying(text, slug, rev) = {} THEN <<>>
       ELSE Piece(text, FirstOf(Carrying(text, slug, rev)))

-----------------------------------------------------------------------------
\* Planning.  desired is a function from the wanted slugs to revisions.

\* The host cannot be planned over, or an artefact has no store here.
PlanRaises(on, desired) ==
    \/ \E s \in DOMAIN desired :
           ~Configured(desired[s]) \/ Ambiguous(on, s, desired[s])
    \/ \E cell \in CrontabCells : ~Readable(on[cell])
    \/ \E cell \in FileCells :
           cell[2] \notin DOMAIN desired /\ ~RegionsReadable(on[cell])

\* _plan_one: what is created or updated.
Puts(on, desired) ==
    {s \in DOMAIN desired :
        CurrentContent(on, s, desired[s]) # RenderArtefact(s, desired[s])}

\* _plan_removals: by slug in the crontabs, by file name in the directories.
RemovalEntries(on, desired) ==
    {h \in UNION {Held(on[cell]) : cell \in CrontabCells} :
        h.slug \notin DOMAIN desired}
      \cup
    {LET first == FirstOf(FindManagedRegions(on[cell]))
     IN [slug |-> first.slug, task |-> first.task] :
     cell \in {c \in FileCells : /\ c[2] \notin DOMAIN desired
                                 /\ FindManagedRegions(on[c]) # {}}}

Removals(on, desired) == {e.slug : e \in RemovalEntries(on, desired)}

\* A job is one store visited for one entry: rev is written, or NoRev is
\* removed.  Removals look everywhere.
PutJobs(on, desired) ==
    LET slugs == Chosen(TaskOrder, Puts(on, desired))
    IN [i \in DOMAIN slugs |->
          [slug |-> slugs[i], rev |-> desired[slugs[i]],
           cell |-> CellOf(slugs[i], desired[slugs[i]])]]

DropJobs(slugs) ==
    LET cells(s) == SetToSeq(CrontabCells) \o
                    SetToSeq({<<d, s>> : d \in Directories})
        jobs(s) == [i \in DOMAIN cells(s) |->
                      [slug |-> s, rev |-> NoRev, cell |-> cells(s)[i]]]
        order == SetToSeq(slugs)
    IN FlattenSeq([i \in DOMAIN order |-> jobs(order[i])])

\* verify(): nothing ambiguous, missing, modified or unexpected.
VerifyMatches(on, desired) ==
    /\ ~PlanRaises(on, desired)
    /\ Puts(on, desired) = {}
    /\ Removals(on, desired) = {}

Wanted == [s \in {t \in Slugs : estate[t] # NoRev} |-> estate[s]]

-----------------------------------------------------------------------------
\* State.

FreshFrame ==
    [offset |-> 0, desired |-> [s \in {} |-> NoRev], todo |-> <<>>,
     removed |-> {}, held |-> <<>>, captured |-> [c \in {} |-> <<>>],
     result |-> "none"]

Results == {"none", "aborted", "nothing", "applied", "removed",
            "rolled_back", "half", "raised", "killed"}
Steps == {"idle", "paging", "plan", "review", "install", "apply", "write",
          "check", "restore", "uninstall"}

TypeOK ==
    /\ estate \in [Slugs -> Revs \cup {NoRev}]
    /\ DOMAIN host = Cells
    /\ installed \in [Slugs -> Revs \cup {NoRev}]
    /\ pc \in [Appliers -> Steps]
    /\ \A p \in Appliers :
          /\ frame[p].result \in Results
          /\ frame[p].offset \in 0..Len(TaskOrder)
          /\ DOMAIN frame[p].desired \subseteq Slugs
          /\ DOMAIN frame[p].captured \subseteq Cells
          /\ pc[p] \in {"write", "check"} => frame[p].todo # <<>>
    /\ touched \in [Appliers -> SUBSET Cells]
    /\ moved \in [Appliers -> BOOLEAN]
    /\ raced \in BOOLEAN

\* The revision of the entry of s on the host, if it has one of ours.
EntryRev(s) ==
    LET entries == {line \in UNION {Range(host[cell]) : cell \in Cells} :
                       Identifies(line) /\ line.slug = s /\ line.task = s}
    IN IF entries = {} THEN NoRev ELSE (CHOOSE e \in entries : TRUE).rev

Init ==
    /\ estate \in Estates
    /\ host \in Hosts
    /\ installed = [s \in Slugs |-> EntryRev(s)]
    /\ pc = [p \in Appliers |-> "idle"]
    /\ frame = [p \in Appliers |-> FreshFrame]
    /\ before = [p \in Appliers |-> host]
    /\ touched = [p \in Appliers |-> {}]
    /\ moved = [p \in Appliers |-> FALSE]
    /\ raced = FALSE
    /\ count = [applies |-> 0, changes |-> 0,
                fault |-> 0, kill |-> 0]

GoTo(p, step, f) ==
    /\ pc' = [pc EXCEPT ![p] = step]
    /\ frame' = [frame EXCEPT ![p] = f]

Counted(what, limit) ==
    /\ count[what] < limit
    /\ count' = [count EXCEPT ![what] = @ + 1]

\* Somebody other than p writes a cell, or p itself does.
WriteCell(by, cell, text) ==
    /\ host' = [host EXCEPT ![cell] = text]
    /\ touched' = [p \in Appliers |->
                      IF {p} = by THEN touched[p] ELSE touched[p] \cup {cell}]

\* The applier returns; its local variables are gone.
EndWith(p, result) == GoTo(p, "idle", [FreshFrame EXCEPT !.result = result])
Ghosts == <<before, touched, moved, raced>>

-----------------------------------------------------------------------------
\* Planning an apply: desired_artefacts, plan, and the confirmation.

Running == \E p \in Appliers : pc[p] # "idle"

Starts(p) ==
    /\ Counted("applies", MaxApplies)
    /\ before' = [before EXCEPT ![p] = host]
    /\ touched' = [touched EXCEPT ![p] = {}]
    /\ moved' = [moved EXCEPT ![p] = FALSE]
    /\ raced' = (raced \/ Running)
    /\ UNCHANGED <<estate, host, installed>>

Begin(p) ==
    /\ pc[p] = "idle"
    /\ GoTo(p, "paging", FreshFrame)
    /\ Starts(p)

\* Past the end the last task is returned again: paging does not stop.
PageSlip(offset) ==
    LET active == Chosen(TaskOrder, DOMAIN Wanted)
    IN IF offset < Len(active)
       THEN SubSeq(active, offset + 1, Min({offset + PageSize, Len(active)}))
       ELSE SubSeq(TaskOrder, 1, 1)

\* A page of list_tasks: the active tasks in order, from an offset.
Page(offset) ==
    LET active == Chosen(TaskOrder, DOMAIN Wanted)
    IN SubSeq(active, offset + 1, Min({offset + PageSize, Len(active)}))

ReadPage(p) ==
    LET f == frame[p]
        page == Page(f.offset)
        read == {page[i] : i \in DOMAIN page}
    IN /\ pc[p] = "paging"
       /\ IF page = <<>> THEN GoTo(p, "plan", f)
          ELSE GoTo(p, "paging",
                 [f EXCEPT !.offset = @ + Len(page),
                           !.desired = [s \in DOMAIN @ \cup read |->
                              IF s \in read THEN estate[s] ELSE @[s]]])
       /\ UNCHANGED <<estate, host, installed, count, Ghosts>>

MakePlan(p) ==
    LET f == frame[p]
        todo == PutJobs(host, f.desired)
                  \o DropJobs(Removals(host, f.desired))
    IN /\ pc[p] = "plan"
       /\ IF PlanRaises(host, f.desired) THEN EndWith(p, "raised")
          ELSE IF todo = <<>> THEN EndWith(p, "nothing")
          ELSE GoTo(p, "review",
                 [FreshFrame EXCEPT !.todo = todo,
                                    !.removed = Removals(host, f.desired)])
       /\ UNCHANGED <<estate, host, installed, count, Ghosts>>

\* The operator, or --yes.
Confirm(p) ==
    /\ pc[p] = "review"
    /\ \/ GoTo(p, "install", frame[p])
       \/ EndWith(p, "aborted")
    /\ UNCHANGED <<estate, host, installed, count, Ghosts>>

\* Removing capabilities by identity plans over what the host holds.
Undeploy(p, slugs) ==
    LET nothing == [s \in {} |-> NoRev]
    IN /\ pc[p] = "idle"
       /\ slugs # {}
       /\ ~PlanRaises(host, nothing)
       /\ slugs \subseteq {e.slug : e \in {h \in RemovalEntries(host, nothing) :
                                            h.task = h.slug}}
       /\ GoTo(p, "apply", [FreshFrame EXCEPT !.todo = DropJobs(slugs),
                                              !.result = "removed"])
       /\ Starts(p)

-----------------------------------------------------------------------------
\* Applying: manifests first, then the artefacts one after the other.

\* A revision without a digest was never published.
Installable(rev) == rev \notin Undigested

\* The manifests with those of some capabilities written from the estate, or
\* removed.
WithManifests(slugs) ==
    [s \in Slugs |-> IF s \in slugs THEN estate[s] ELSE installed[s]]
WithoutManifests(slugs) ==
    [s \in Slugs |-> IF s \in slugs THEN NoRev ELSE installed[s]]

\* The manifests are installed once the artefacts are there.
InstallPageSlip(p) ==
    /\ pc[p] = "install"
    /\ GoTo(p, "apply", [frame[p] EXCEPT !.result = "applied"])
    /\ UNCHANGED <<estate, host, installed, count, Ghosts>>

\* A page of the estate as it is now.  A revision without a digest cannot be
\* installed: what stands before it is, and the apply raises.
InstallPage(p) ==
    LET f == frame[p]
        page == Page(f.offset)
        bad == {i \in DOMAIN page : ~Installable(estate[page[i]])}
        good == {page[i] : i \in {j \in DOMAIN page : \A k \in bad : j < k}}
    IN /\ pc[p] = "install"
       /\ IF bad # {} THEN EndWith(p, "raised")
          ELSE IF page = <<>> THEN GoTo(p, "apply", [f EXCEPT !.offset = 0,
                                                     !.result = "applied"])
          ELSE GoTo(p, "install", [f EXCEPT !.offset = @ + Len(page)])
       /\ installed' = WithManifests(good)
       /\ UNCHANGED <<estate, host, count, Ghosts>>

\* The estate cannot be read any further, or a manifest cannot be written.
InstallFails(p) ==
    /\ pc[p] = "install"
    /\ Counted("fault", Mishaps.fault)
    /\ EndWith(p, "raised")
    /\ UNCHANGED <<estate, host, installed, Ghosts>>

Job(p) == Head(frame[p].todo)
IsCrontab(cell) == cell \in CrontabCells

\* The current text cannot be read for this job.
JobRaises(job, text) ==
    IF job.rev # NoRev
    THEN \/ Deploys[job.rev].shape = "region" /\ ~RegionsReadable(text)
         \/ Deploys[job.rev].shape = "block" /\ ~BlockReadable(text)
    ELSE \/ ~RegionsReadable(text)
         \/ IsCrontab(job.cell) /\ ~BlockReadable(text)

\* Without the region that is to be removed the block cannot be read.
RemovalRaises(job, text) ==
    /\ job.rev = NoRev /\ IsCrontab(job.cell)
    /\ HasMember(text, job.slug)
    /\ ~BlockReadable(RemoveRegion(text, job.slug))

\* There is something to remove here.
Present(job, text) ==
    IF IsCrontab(job.cell)
    THEN HasRegion(text, job.slug) \/ HasMember(text, job.slug)
    ELSE FindManagedRegions(text) # {}

NewText(job, text) ==
    IF job.rev = NoRev
    THEN LET left == RemoveRegion(text, job.slug)
         IN IF ~IsCrontab(job.cell) THEN <<>>
            ELSE IF HasMember(text, job.slug) THEN RemoveBlockMember(left, job.slug)
            ELSE left
    ELSE LET rendered == RenderArtefact(job.slug, job.rev)
         IN CASE Deploys[job.rev].shape = "region" ->
                    ReplaceRegion(text, job.slug, rendered)
              [] Deploys[job.rev].shape = "block" ->
                    UpsertBlockMember(text, job.slug, rendered)
              [] OTHER -> rendered

\* The latest capture counts.
CaptureSlip(captured, cell, text) ==
    [c \in DOMAIN captured \cup {cell} |->
        IF c = cell THEN text ELSE captured[c]]

\* _Snapshot: the first capture of a cell is the one that counts.
Capture(captured, cell, text) ==
    IF cell \in DOMAIN captured THEN captured
    ELSE [c \in DOMAIN captured \cup {cell} |->
             IF c = cell THEN text ELSE captured[c]]

\* Read the store of the next job, and capture it.
ReadStore(p) ==
    LET f == frame[p]
        text == host[Job(p).cell]
        captured == [f EXCEPT !.captured = Capture(@, Job(p).cell, text),
                              !.held = text]
    IN /\ pc[p] = "apply"
       /\ f.todo # <<>>
       /\ IF JobRaises(Job(p), text)
          THEN GoTo(p, "restore", IF Job(p).rev = NoRev THEN f ELSE captured)
          ELSE IF Job(p).rev = NoRev /\ ~Present(Job(p), text)
          THEN GoTo(p, "apply", [f EXCEPT !.todo = Tail(@)])
          ELSE GoTo(p, IF RemovalRaises(Job(p), text) THEN "restore" ELSE "write",
                    captured)
       /\ UNCHANGED <<estate, host, installed, count, Ghosts>>

\* Write what follows from the text that was read.
WriteStore(p) ==
    /\ pc[p] = "write"
    /\ WriteCell({p}, Job(p).cell, NewText(Job(p), frame[p].held))
    /\ \/ GoTo(p, "check", [frame[p] EXCEPT !.held = <<>>]) /\ UNCHANGED count
       \/ GoTo(p, "restore", frame[p]) /\ Counted("fault", Mishaps.fault)
    /\ UNCHANGED <<estate, installed, before, moved, raced>>

\* Verify by reading back.
Verified(job, on) ==
    IF job.rev = NoRev
    THEN IF IsCrontab(job.cell)
         THEN ~JobRaises(job, on[job.cell]) /\ ~Present(job, on[job.cell])
         ELSE on[job.cell] = <<>>
    ELSE IF WritesAFile(job.rev)
    THEN on[job.cell] = RenderArtefact(job.slug, job.rev)
    ELSE /\ ~Ambiguous(on, job.slug, job.rev)
         /\ CurrentContent(on, job.slug, job.rev)
              = RenderArtefact(job.slug, job.rev)

ReadBack(p) ==
    /\ pc[p] = "check"
    /\ IF Verified(Job(p), host)
       THEN GoTo(p, "apply", [frame[p] EXCEPT !.todo = Tail(@)])
       ELSE GoTo(p, "restore", frame[p])
    /\ UNCHANGED <<estate, host, installed, count, Ghosts>>

\* Any exception in the loop.
Fault(p) ==
    /\ pc[p] \in {"write", "check"} \/ (pc[p] = "apply" /\ frame[p].todo # <<>>)
    /\ Counted("fault", Mishaps.fault)
    /\ GoTo(p, "restore", frame[p])
    /\ UNCHANGED <<estate, host, installed, Ghosts>>

\* _roll_back: the captured crontabs, then the captured files.
Restore(p) ==
    LET f == frame[p]
        left == DOMAIN f.captured
        crontabs == left \cap CrontabCells
        next == IF crontabs # {} THEN crontabs ELSE left
    IN /\ pc[p] = "restore"
       /\ \/ /\ left = {}
             /\ EndWith(p, "rolled_back")
             /\ UNCHANGED <<host, touched, count>>
          \/ \E cell \in next :
               /\ WriteCell({p}, cell, f.captured[cell])
               /\ GoTo(p, "restore", [f EXCEPT !.captured =
                     [c \in left \ {cell} |-> f.captured[c]]])
               /\ UNCHANGED count
          \/ /\ left # {}
             /\ Counted("fault", Mishaps.fault)
             /\ EndWith(p, "half")
             /\ UNCHANGED <<host, touched>>
       /\ UNCHANGED <<estate, installed, before, moved, raced>>

\* Every job is done: the manifests of what was removed go.
Uninstall(p) ==
    LET f == frame[p]
    IN /\ pc[p] = "apply"
       /\ f.todo = <<>>
       /\ \/ /\ EndWith(p, f.result)
             /\ installed' = WithoutManifests(f.removed)
             /\ UNCHANGED count
          \/ /\ f.removed # {}
             /\ Counted("fault", Mishaps.fault)
             /\ EndWith(p, "raised")
             /\ UNCHANGED installed
       /\ UNCHANGED <<estate, host, Ghosts>>

\* The process is killed, or interrupted: nothing is rolled back.
Kill(p) ==
    /\ pc[p] # "idle"
    /\ Counted("kill", Mishaps.kill)
    /\ EndWith(p, "killed")
    /\ UNCHANGED <<estate, host, installed, Ghosts>>

Apply(p) ==
    \/ Begin(p)
    \/ \E slugs \in SUBSET Slugs : Undeploy(p, slugs)
    \/ ReadPage(p) \/ MakePlan(p) \/ Confirm(p)
    \/ InstallPage(p) \/ InstallFails(p)
    \/ ReadStore(p) \/ WriteStore(p) \/ ReadBack(p)
    \/ Fault(p) \/ Restore(p) \/ Uninstall(p) \/ Kill(p)

-----------------------------------------------------------------------------
\* Beside it: the lifecycle, and people with an editor.

\* A revision is activated, or the capability leaves the active state.
Publish(s, rev) ==
    /\ rev # estate[s]
    /\ Counted("changes", MaxChanges)
    /\ estate' = [estate EXCEPT ![s] = rev]
    /\ moved' = [p \in Appliers |-> TRUE]
    /\ raced' = (raced \/ Running)
    /\ UNCHANGED <<host, installed, pc, frame, before, touched>>

WithoutLine(text, i) ==
    SubSeq(text, 1, i - 1) \o SubSeq(text, i + 1, Len(text))

EditByHand(cell, text) ==
    /\ Counted("changes", MaxChanges)
    /\ WriteCell({}, cell, text)
    /\ UNCHANGED <<estate, installed, pc, frame, before, moved, raced>>

\* A line goes, one is added, a file appears, or a file is copied.
Edit ==
    \/ \E cell \in Cells : \E i \in DOMAIN host[cell] :
          EditByHand(cell, WithoutLine(host[cell], i))
    \/ \E cell \in CrontabCells :
          EditByHand(cell, Append(host[cell], Plain("theirs")))
    \/ \E cell \in FileCells : /\ host[cell] = <<>>
                               /\ EditByHand(cell, <<Plain("theirs")>>)
    \/ \E cell \in FileCells, name \in Copies :
          /\ host[cell] # <<>>
          /\ EditByHand(<<cell[1], name>>, host[cell])

Next ==
    \/ \E p \in Appliers : Apply(p)
    \/ \E s \in Slugs, rev \in Revs \cup {NoRev} : Publish(s, rev)
    \/ Edit

Spec == Init /\ [][Next]_vars

-----------------------------------------------------------------------------
\* Properties.

\* Nobody but p changed the host or the estate since p began.
Alone(p) == touched[p] = {} /\ ~moved[p]
Ended(p, result) == pc[p] = "idle" /\ frame[p].result = result /\ Alone(p)

\* No managed file goes by another name than its slug.
NamedAfterSlugs(on) ==
    \A cell \in FileCells :
        \A i \in At(on[cell], {"begin"}) : on[cell][i].slug = cell[2]

\* An apply that reports success leaves a host that verify() finds nothing to
\* say about, every active capability deployed where and as its revision says,
\* and its manifest, unless a second applier was on its way to remove it, whatever
\* the host was before: half applied, edited by hand, with what is not wanted.
\* Only a region that somebody moved into the block goes with the lines that are
\* rewritten there.
AppliedMatches ==
    \A p \in Appliers :
        Ended(p, "applied") /\ NamedAfterSlugs(before[p])
          /\ (\A cell \in CrontabCells : Apart(before[p][cell])) =>
            /\ VerifyMatches(host, Wanted)
            /\ \A s \in DOMAIN Wanted :
                  /\ CurrentContent(host, s, Wanted[s]) = RenderArtefact(s, Wanted[s])
                  /\ \/ installed[s] = Wanted[s]
                     \/ raced /\ Appliers # {p}

\* A failed apply that reports "Nothing was changed" left every crontab and
\* every file exactly as it was (rule 6 of SchedulerManagement).
RolledBackRestores ==
    \A p \in Appliers : Ended(p, "rolled_back") => host = before[p]

\* The artefacts that name a task of ours are of its slug (a slug never changes,
\* Task.update_metadata) and the block has one entry for each.
Attributed(text) ==
    Readable(text) =>
        /\ \A h \in Held(text) : h.task \in Slugs => h.slug = h.task
        /\ \A m, n \in FindBlockMembers(text) : m.slug = n.slug => m = n

\* In a crontab, what TaskControl did not write it does not change, and what
\* could be read stays readable, where the block and the regions are apart and
\* nobody renamed an artefact; a file it writes over or removes is its own:
\* unless somebody changed that very crontab or file since the applier began
\* (rule 1).
OthersAreLeftAlone ==
    [][\A p \in Appliers, cell \in Cells :
          cell \notin touched'[p] /\ pc[p] # "idle" =>
              IF IsCrontab(cell)
              THEN Apart(before[p][cell]) /\ Attributed(before[p][cell]) =>
                      /\ Unmanaged(host'[cell]) = Unmanaged(host[cell])
                      /\ Readable(host[cell]) => Readable(host'[cell])
              ELSE host'[cell] # host[cell] =>
                      \/ host[cell] = <<>>
                      \/ /\ RegionsReadable(host[cell])
                         /\ FindManagedRegions(host[cell]) # {}]_vars

\* In a directory only regions are artefacts, and a copy under another name is
\* not one.
Deployed(s) ==
    \/ \E cell \in CrontabCells :
          Readable(host[cell]) /\ [slug |-> s, task |-> s] \in Held(host[cell])
    \/ \E d \in Directories :
          /\ RegionsReadable(host[<<d, s>>])
          /\ \E r \in FindManagedRegions(host[<<d, s>>]) : r.slug = s /\ r.task = s

\* The definition goes down before the artefact that runs it and leaves after
\* it, through failures, rollbacks and deaths: no artefact stands without its
\* manifest, unless a capability changed under a running apply.
ManifestFirst ==
    raced \/ \A s \in Slugs : Deployed(s) => installed[s] # NoRev
=============================================================================
