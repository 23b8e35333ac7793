--------------------------------- MODULE Tasks ---------------------------------
(***************************************************************************)
(* Tasks and their revisions: the two lifecycles (domain/tasks), how they   *)
(* are stored (adapters/persistence), and the runtime's read of both.       *)
(*                                                                          *)
(* An editor is a caller of the repositories: it reads a row, works on its  *)
(* own copy, and hands the copy back in a later unit of work.  A unit of    *)
(* work that saves reads the row again first; the read and the write are    *)
(* two steps, and nothing locks the row in between.                         *)
(***************************************************************************)
EXTENDS FiniteSetsExt, Naturals

CONSTANTS
    TaskIds, RevisionIds, Editors,
    Slugs, Names, Contents,     \* Names: all the mutable metadata
    None,                       \* no row, no revision, no digest
    Begun,                      \* bound: the tasks there may be at the start
    MaxVersion, MaxStarts       \* bounds: writes of a task, executions

VARIABLES
    tasks,      \* the task rows
    revisions,  \* the revision rows
    pc, held,   \* what each editor is doing, and its copy
    started,    \* the executions: the revision and the content they run
    raced       \* a row was written between the read and the write of another

vars == <<tasks, revisions, pc, held, started, raced>>

-----------------------------------------------------------------------------
\* The lifecycles.

TaskStates == {"draft", "active", "suspended", "retired", "archived"}
PublicationStates == {"draft", "published", "superseded", "withdrawn"}

TaskTransitions ==
    [draft |-> {"active", "archived"},
     active |-> {"suspended", "retired"},
     suspended |-> {"active", "retired"},
     retired |-> {"active", "archived"},
     archived |-> {}]

PublicationTransitions ==
    [draft |-> {"published", "withdrawn"},
     published |-> {"superseded", "withdrawn"},
     superseded |-> {"withdrawn"},
     withdrawn |-> {}]

TaskCopies ==
    [slug : Slugs, name : Names, state : TaskStates,
     active : RevisionIds \cup {None}, version : Nat]
RevisionCopies ==
    [task : TaskIds, number : Nat \ {0}, state : PublicationStates,
     content : Contents, digest : Contents \cup {None}]

\* What __post_init__ refuses; the database says it again in its constraints.
ValidTask(t) == t.state = "active" => t.active # None
ValidRevision(r) == r.state = "draft" <=> r.digest = None

ASSUME TasksAssumption ==
    /\ None \notin TaskIds \cup RevisionIds \cup Contents
    /\ None \notin TaskCopies /\ None \notin RevisionCopies
    /\ {MaxVersion, MaxStarts} \subseteq Nat
    /\ IsFiniteSet(RevisionIds)
    /\ Begun \subseteq TaskCopies
    /\ \A t \in Begun : ValidTask(t)

NewTask(slug, name) ==
    [slug |-> slug, name |-> name, state |-> "draft", active |-> None,
     version |-> 1]

UpdateMetadata(t) ==
    {[t EXCEPT !.name = name] : name \in {n \in Names : t.state # "archived"}}

\* Any revision may be named: published or not, stored or not.
ActivateRevision(t, candidates) ==
    {[t EXCEPT !.state = "active", !.active = r] :
        r \in {c \in candidates :
                  t.state = "active" \/ "active" \in TaskTransitions[t.state]}}

\* To become active a task needs a revision.
TransitionTo(t) ==
    {u \in {[t EXCEPT !.state = s] : s \in TaskTransitions[t.state]} :
        ValidTask(u)}

EditedTasks(t, candidates) ==
    UpdateMetadata(t) \cup ActivateRevision(t, candidates) \cup TransitionTo(t)

\* with_changes on a draft, then publish.  The digest is what it is taken of.
Publish(r) ==
    {[r EXCEPT !.state = "published", !.content = c, !.digest = c] :
        c \in {d \in Contents : r.state = "draft"}}

\* supersede and withdraw.  A draft has no digest and cannot be withdrawn.
MovedOn(r) ==
    {u \in {[r EXCEPT !.state = s] :
              s \in PublicationTransitions[r.state] \ {"published"}} :
        ValidRevision(u)}

-----------------------------------------------------------------------------
\* State.

Stored(table) == {id \in DOMAIN table : table[id] # None}
RevisionsOf(t) == {r \in Stored(revisions) : revisions[r].task = t}
Numbers(t) == {revisions[r].number : r \in RevisionsOf(t)}

Idle == [kind |-> None, id |-> None, copy |-> None]

Init ==
    /\ tasks \in [TaskIds -> {None} \cup Begun]
    /\ revisions = [r \in RevisionIds |-> None]
    /\ pc = [e \in Editors |-> "idle"]
    /\ held = [e \in Editors |-> Idle]
    /\ started = {}
    /\ raced = FALSE

GoTo(e, step, h) ==
    /\ pc' = [pc EXCEPT ![e] = step]
    /\ held' = [held EXCEPT ![e] = h]

Holding(kind, id, copy) == [kind |-> kind, id |-> id, copy |-> copy]

\* Somebody else is between the read and the write of this row.
Overlaps(e, kind, id) ==
    \E f \in Editors \ {e} :
        pc[f] = "saving" /\ held[f].kind = kind /\ held[f].id = id

-----------------------------------------------------------------------------
\* Tasks.

\* The identifier and the slug are unique in the database.
CreateTask(t, slug, name) ==
    /\ tasks[t] = None
    /\ slug \notin {tasks[u].slug : u \in Stored(tasks)}
    /\ tasks' = [tasks EXCEPT ![t] = NewTask(slug, name)]
    /\ UNCHANGED <<revisions, pc, held, started, raced>>

\* version_of and get.
ReadTask(e, t) ==
    /\ pc[e] = "idle"
    /\ tasks[t] # None
    /\ GoTo(e, "holding", Holding("task", t, tasks[t]))
    /\ UNCHANGED <<tasks, revisions, started, raced>>

\* What an editor of t may want to activate.
Candidates(t) ==
    {r \in RevisionIds : revisions[r] = None \/ r \in RevisionsOf(t)}

\* The columns in which a copy differs from the row that was read: only these
\* are written.
Changes(row, copy) ==
    [column \in {c \in DOMAIN row : copy[c] # row[c]} |-> copy[column]]

Merged(row, changes) ==
    [column \in DOMAIN row |->
        IF column \in DOMAIN changes THEN changes[column] ELSE row[column]]

Written(e, copy, row) ==
    GoTo(e, "saving", [held[e] EXCEPT !.copy = Changes(row, copy)])

\* Whoever comes last wins.
UpdateTaskSlip(e) ==
    LET h == held[e]
    IN /\ pc[e] = "holding"
       /\ h.kind = "task"
       /\ h.copy.version < MaxVersion
       /\ \E edited \in EditedTasks(h.copy, Candidates(h.id)) :
             Written(e, [edited EXCEPT !.version = @ + 1], tasks[h.id])
       /\ UNCHANGED <<tasks, revisions, started, raced>>

\* The copy is edited, and update() compares the version it was read with.
UpdateTask(e) ==
    LET h == held[e]
        row == tasks[h.id]
    IN /\ pc[e] = "holding"
       /\ h.kind = "task"
       /\ h.copy.version < MaxVersion
       /\ \E edited \in EditedTasks(h.copy, Candidates(h.id)) :
             IF row.version = h.copy.version
             THEN Written(e, [edited EXCEPT !.version = @ + 1], row)
             ELSE GoTo(e, "idle", Idle)
       /\ UNCHANGED <<tasks, revisions, started, raced>>

\* The database checks the row that results.
FlushTask(e) ==
    LET h == held[e]
        new == Merged(tasks[h.id], h.copy)
    IN /\ pc[e] = "saving"
       /\ h.kind = "task"
       /\ tasks' = IF ValidTask(new) THEN [tasks EXCEPT ![h.id] = new]
                   ELSE tasks
       /\ raced' = (raced \/ Overlaps(e, "task", h.id))
       /\ GoTo(e, "idle", Idle)
       /\ UNCHANGED <<revisions, started>>

-----------------------------------------------------------------------------
\* Revisions.

\* latest_revision_number, and a draft with the next one; its content may
\* change until it is stored.
DraftRevision(e, t, r) ==
    /\ pc[e] = "idle"
    /\ tasks[t] # None
    /\ revisions[r] = None
    /\ \A f \in Editors : held[f].kind = "revision" => held[f].id # r
    /\ GoTo(e, "drafted", Holding("revision", r,
          [task |-> t, number |-> Max(Numbers(t) \cup {0}) + 1,
           state |-> "draft", content |-> None, digest |-> None]))
    /\ UNCHANGED <<tasks, revisions, started, raced>>

Drafts(r) == {[r EXCEPT !.content = c] : c \in Contents}

\* The number is not unique in the database.
AddRevisionSlip(e) ==
    LET h == held[e]
    IN /\ pc[e] = "drafted"
       /\ \E new \in Drafts(h.copy) \cup Publish(h.copy) :
             revisions' = [revisions EXCEPT ![h.id] = new]
       /\ GoTo(e, "idle", Idle)
       /\ UNCHANGED <<tasks, started, raced>>

\* As a draft, or published at once.  The number may be taken meanwhile.
AddRevision(e) ==
    LET h == held[e]
    IN /\ pc[e] = "drafted"
       /\ \E new \in Drafts(h.copy) \cup Publish(h.copy) :
             revisions' = IF new.number \in Numbers(new.task) THEN revisions
                          ELSE [revisions EXCEPT ![h.id] = new]
       /\ GoTo(e, "idle", Idle)
       /\ UNCHANGED <<tasks, started, raced>>

ReadRevision(e, r) ==
    /\ pc[e] = "idle"
    /\ revisions[r] # None
    /\ GoTo(e, "holding", Holding("revision", r, revisions[r]))
    /\ UNCHANGED <<tasks, revisions, started, raced>>

\* The content is written with the state.
SaveStateSlip(e) ==
    LET h == held[e]
    IN /\ pc[e] = "holding"
       /\ h.kind = "revision"
       /\ \E edited \in Publish(h.copy) \cup MovedOn(h.copy) :
             Written(e, edited, revisions[h.id])
       /\ UNCHANGED <<tasks, revisions, started, raced>>

\* The copy moves on, and save_state reads the row: the state and the digest
\* are written, the content is not.
SaveState(e) ==
    LET h == held[e]
        row == revisions[h.id]
    IN /\ pc[e] = "holding"
       /\ h.kind = "revision"
       /\ \E edited \in Publish(h.copy) \cup MovedOn(h.copy) :
             Written(e, [edited EXCEPT !.content = row.content], row)
       /\ UNCHANGED <<tasks, revisions, started, raced>>

\* A frozen row has a digest.
FlushRevision(e) ==
    LET h == held[e]
        new == Merged(revisions[h.id], h.copy)
    IN /\ pc[e] = "saving"
       /\ h.kind = "revision"
       /\ revisions' = IF new.state # "draft" /\ new.digest = None
                       THEN revisions
                       ELSE [revisions EXCEPT ![h.id] = new]
       /\ raced' = (raced \/ Overlaps(e, "revision", h.id))
       /\ GoTo(e, "idle", Idle)
       /\ UNCHANGED <<tasks, started>>

-----------------------------------------------------------------------------
\* The runtime's _load: the task, then its revision.  The state of the task
\* is not looked at.

LoadTask(e, t) ==
    /\ pc[e] = "idle"
    /\ tasks[t] # None
    /\ tasks[t].active # None
    /\ Cardinality(started) < MaxStarts
    /\ GoTo(e, "loading", Holding("run", tasks[t].active, None))
    /\ UNCHANGED <<tasks, revisions, started, raced>>

LoadRevision(e) ==
    LET r == held[e].id
    IN /\ pc[e] = "loading"
       /\ started' =
             IF revisions[r] = None THEN started
             ELSE IF revisions[r].state = "draft" THEN started
             ELSE started \cup
                    {[revision |-> r, content |-> revisions[r].content]}
       /\ GoTo(e, "idle", Idle)
       /\ UNCHANGED <<tasks, revisions, raced>>

\* The copy leaks out of the block.
RollBackSlip(e) ==
    /\ pc[e] # "idle"
    /\ GoTo(e, "idle", held[e])
    /\ UNCHANGED <<tasks, revisions, started, raced>>

\* An exception in the block, or a caller that thinks better of it.
RollBack(e) ==
    /\ pc[e] # "idle"
    /\ GoTo(e, "idle", Idle)
    /\ UNCHANGED <<tasks, revisions, started, raced>>

Edit(e) ==
    \/ \E t \in TaskIds : ReadTask(e, t) \/ LoadTask(e, t)
    \/ \E t \in TaskIds, r \in RevisionIds : DraftRevision(e, t, r)
    \/ \E r \in RevisionIds : ReadRevision(e, r)
    \/ UpdateTask(e) \/ FlushTask(e)
    \/ AddRevision(e) \/ SaveState(e) \/ FlushRevision(e)
    \/ LoadRevision(e)
    \/ RollBack(e)

Next ==
    \/ \E t \in TaskIds, s \in Slugs, n \in Names : CreateTask(t, s, n)
    \/ \E e \in Editors : Edit(e)

Spec == Init /\ [][Next]_vars

-----------------------------------------------------------------------------
\* Properties.

TypeOK ==
    /\ tasks \in [TaskIds -> TaskCopies \cup {None}]
    /\ revisions \in [RevisionIds -> RevisionCopies \cup {None}]
    /\ pc \in [Editors -> {"idle", "holding", "saving", "drafted", "loading"}]
    /\ \A e \in Editors : pc[e] = "idle" <=> held[e] = Idle
    /\ raced \in BOOLEAN

\* The revisions of a task are numbered from one without a gap or a repeat,
\* although the next number is read long before it is used.
NumbersAreConsecutive ==
    \A t \in TaskIds : Numbers(t) = 1..Cardinality(RevisionsOf(t))

\* What an execution ran is what its revision still says: the revision was and
\* stays frozen, and its content never changes, whoever saves what stale copy.
HistoryKeepsItsMeaning ==
    \A x \in started :
        /\ revisions[x.revision] # None
        /\ revisions[x.revision].state # "draft"
        /\ revisions[x.revision].content = x.content

Existing(t) == tasks[t] # None /\ tasks'[t] # tasks[t]

\* As long as no two saves of a row overlapped, every write of a task is made
\* to the version its editor read, and moves the lifecycle along its table:
\* a stale copy is refused, an archived task stays archived.
EditsBuildOnTheLatest ==
    [][~raced' => \A t \in TaskIds : Existing(t) =>
          /\ tasks'[t].version = tasks[t].version + 1
          /\ tasks'[t].slug = tasks[t].slug
          /\ \/ tasks'[t].state = tasks[t].state
             \/ tasks'[t].state \in TaskTransitions[tasks[t].state]]_vars

\* "A caller that read version 3 and writes expecting 3 fails if someone else
\* already made it 4": no write finds another version than the one it expects.
StaleWritesFail ==
    [][\A t \in TaskIds : Existing(t) =>
          tasks'[t].version = tasks[t].version + 1]_vars
=============================================================================
