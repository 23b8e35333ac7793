------------------------------ MODULE TasksProofs ------------------------------
(***************************************************************************)
(* Theorems about Tasks for any tasks, revisions and editors.               *)
(***************************************************************************)
EXTENDS Tasks, FiniteSetTheorems, TLAPS

-----------------------------------------------------------------------------
\* The inductive invariant: what the copy in an editor's hands is worth, given
\* the rows as they are now.

\* A task that was read: an older version of the row or, while no two saves
\* overlapped, the row itself if the versions agree.
TaskInHand(h) ==
    /\ h.id \in TaskIds
    /\ tasks[h.id] # None
    /\ h.copy \in TaskCopies
    /\ h.copy.slug = tasks[h.id].slug
    /\ ~raced => /\ h.copy.version <= tasks[h.id].version
                 /\ h.copy.version = tasks[h.id].version => h.copy = tasks[h.id]

\* The columns about to be written: an edit of the row that was read, which is
\* the row of now while no two saves overlapped.
EditOfTask(row, copy) ==
    /\ copy.version = row.version + 1
    /\ copy.state = row.state \/ copy.state \in TaskTransitions[row.state]

TaskInFlight(h) ==
    /\ h.id \in TaskIds
    /\ tasks[h.id] # None
    /\ \E row, copy \in TaskCopies :
          /\ h.copy = Changes(row, copy)
          /\ row.slug = tasks[h.id].slug
          /\ copy.slug = tasks[h.id].slug
          /\ ~raced => row = tasks[h.id] /\ EditOfTask(row, copy)

\* A revision keeps its task and its number; nothing about to be written
\* reopens it or touches its content.
SameRevision(r, q) == r.task = q.task /\ r.number = q.number

RevisionInHand(h) ==
    /\ h.id \in RevisionIds
    /\ revisions[h.id] # None
    /\ h.copy \in RevisionCopies
    /\ SameRevision(h.copy, revisions[h.id])

RevisionInFlight(h) ==
    /\ h.id \in RevisionIds
    /\ revisions[h.id] # None
    /\ \E row, copy \in RevisionCopies :
          /\ h.copy = Changes(row, copy)
          /\ SameRevision(row, revisions[h.id])
          /\ SameRevision(copy, revisions[h.id])
          /\ copy.content = row.content
          /\ copy.state # "draft"

\* The number of a draft was the next one when it was read.
RevisionInDraft(h) ==
    /\ h.id \in RevisionIds
    /\ revisions[h.id] = None
    /\ \E t \in TaskIds : \E n \in 1..(Cardinality(RevisionsOf(t)) + 1) :
          h.copy = [task |-> t, number |-> n, state |-> "draft",
                    content |-> None, digest |-> None]

Works(step, h) ==
    /\ h = Holding(h.kind, h.id, h.copy)
    /\ \/ step = "idle" /\ h = Idle
       \/ step = "holding" /\ h.kind = "task" /\ TaskInHand(h)
       \/ step = "holding" /\ h.kind = "revision" /\ RevisionInHand(h)
       \/ step = "saving" /\ h.kind = "task" /\ TaskInFlight(h)
       \/ step = "saving" /\ h.kind = "revision" /\ RevisionInFlight(h)
       \/ step = "drafted" /\ h.kind = "revision" /\ RevisionInDraft(h)
       \/ step = "loading" /\ h.kind = "run" /\ h.id \in RevisionIds

EditorsWork ==
    /\ held = [e \in Editors |-> held[e]]
    /\ \A e \in Editors : Works(pc[e], held[e])

\* No two editors draft under one identifier.
DraftsAreApart ==
    \A e, f \in Editors :
        pc[e] = "drafted" /\ pc[f] = "drafted" /\ e # f => held[e].id # held[f].id

StartedOnRows == \A x \in started : x.revision \in RevisionIds

TasksInv ==
    /\ TypeOK
    /\ EditorsWork
    /\ DraftsAreApart
    /\ StartedOnRows
    /\ NumbersAreConsecutive
    /\ HistoryKeepsItsMeaning

-----------------------------------------------------------------------------
\* Rows and the columns that are written.

(***************************************************************************)
(* Writing the changed columns of a task over a row gives a task, which     *)
(* keeps the slug the three agree on, and is the edited copy if the row is  *)
(* still the one that was read.                                             *)
(***************************************************************************)
LEMMA MergedTask ==
  ASSUME NEW row \in TaskCopies, NEW copy \in TaskCopies, NEW now \in TaskCopies
  PROVE  /\ Merged(now, Changes(row, copy)) \in TaskCopies
         /\ row.slug = copy.slug => Merged(now, Changes(row, copy)).slug = now.slug
         /\ row = now => Merged(now, Changes(row, copy)) = copy
<1>1. Merged(now, Changes(row, copy)) \in TaskCopies
  BY DEF TaskCopies, Merged, Changes
<1>2. row.slug = copy.slug => Merged(now, Changes(row, copy)).slug = now.slug
  BY DEF TaskCopies, Merged, Changes
<1>3. row = now => Merged(now, Changes(row, copy)) = copy
  <2>1. ASSUME row = now
        PROVE  LET m == Merged(now, Changes(row, copy))
               IN /\ m.slug = copy.slug /\ m.name = copy.name /\ m.state = copy.state
                  /\ m.active = copy.active /\ m.version = copy.version
    BY <2>1 DEF TaskCopies, Merged, Changes
  <2>2. QED
    BY <2>1, <1>1 DEF TaskCopies
<1>4. QED
  BY <1>1, <1>2, <1>3

(***************************************************************************)
(* Writing the changed columns of a revision over a row gives a revision.   *)
(* It keeps the task and the number, its content if that is not among the   *)
(* changes, and stays frozen if the copy is.                                *)
(***************************************************************************)
LEMMA MergedRevision ==
  ASSUME NEW row \in RevisionCopies, NEW copy \in RevisionCopies,
         NEW now \in RevisionCopies,
         SameRevision(row, now), SameRevision(copy, now),
         copy.content = row.content, copy.state # "draft"
  PROVE  LET new == Merged(now, Changes(row, copy))
         IN /\ new \in RevisionCopies
            /\ SameRevision(new, now)
            /\ new.content = now.content
            /\ now.state # "draft" => new.state # "draft"
<1> DEFINE new == Merged(now, Changes(row, copy))
<1>1. new \in RevisionCopies
  BY DEF RevisionCopies, Merged, Changes
<1>2. new.task = now.task /\ new.number = now.number
  BY DEF RevisionCopies, Merged, Changes, SameRevision
<1>3. new.content = now.content
  BY DEF RevisionCopies, Merged, Changes
<1>4. now.state # "draft" => new.state # "draft"
  BY DEF RevisionCopies, Merged, Changes
<1>5. QED
  BY <1>1, <1>2, <1>3, <1>4 DEF SameRevision

(***************************************************************************)
(* Editing a task gives a task with the slug and the version it had, and    *)
(* moves its state along the table or not at all.                           *)
(***************************************************************************)
LEMMA EditedTask ==
  ASSUME NEW t \in TaskCopies, NEW candidates \in SUBSET RevisionIds,
         NEW edited \in EditedTasks(t, candidates)
  PROVE  /\ edited \in TaskCopies
         /\ edited.slug = t.slug
         /\ edited.version = t.version
         /\ edited.state = t.state \/ edited.state \in TaskTransitions[t.state]
<1>1. CASE edited \in UpdateMetadata(t)
  BY <1>1 DEF UpdateMetadata, TaskCopies
<1>2. CASE edited \in ActivateRevision(t, candidates)
  BY <1>2 DEF ActivateRevision, TaskCopies, TaskStates
<1>3. CASE edited \in TransitionTo(t)
  <2>1. PICK s \in TaskTransitions[t.state] : edited = [t EXCEPT !.state = s]
    BY <1>3 DEF TransitionTo
  <2>2. t.state \in TaskStates
    BY DEF TaskCopies
  <2>3. s \in TaskStates
    BY <2>1, <2>2 DEF TaskTransitions, TaskStates
  <2>4. QED
    BY <2>1, <2>3 DEF TaskCopies
<1>4. QED
  BY <1>1, <1>2, <1>3 DEF EditedTasks

(***************************************************************************)
(* Publishing, superseding or withdrawing a revision freezes it and leaves  *)
(* its task and its number.                                                 *)
(***************************************************************************)
LEMMA EditedRevision ==
  ASSUME NEW r \in RevisionCopies, NEW edited \in Publish(r) \cup MovedOn(r)
  PROVE  /\ edited \in RevisionCopies
         /\ SameRevision(edited, r)
         /\ edited.state # "draft"
<1>1. CASE edited \in Publish(r)
  BY <1>1 DEF Publish, RevisionCopies, PublicationStates, SameRevision
<1>2. CASE edited \in MovedOn(r)
  <2>1. PICK s \in PublicationTransitions[r.state] \ {"published"} :
             edited = [r EXCEPT !.state = s]
    BY <1>2 DEF MovedOn
  <2>2. r.state \in PublicationStates
    BY DEF RevisionCopies
  <2>3. s \in PublicationStates /\ s # "draft"
    BY <2>1, <2>2 DEF PublicationTransitions, PublicationStates
  <2>4. QED
    BY <2>1, <2>3 DEF RevisionCopies, SameRevision
<1>3. QED
  BY <1>1, <1>2

-----------------------------------------------------------------------------
\* Editors and numbers.

(***************************************************************************)
(* What a copy is worth depends on the rows and on what was raced only.     *)
(***************************************************************************)
LEMMA WorthByRows ==
  ASSUME UNCHANGED <<tasks, revisions, raced>>, NEW step, NEW h, Works(step, h)
  PROVE  Works(step, h)'
BY DEF Works, TaskInHand, TaskInFlight, RevisionInHand, RevisionInFlight,
       RevisionInDraft, RevisionsOf, Stored

(***************************************************************************)
(* One editor goes on, the copies of the others are still worth something.  *)
(***************************************************************************)
LEMMA OneGoesOn ==
  ASSUME TypeOK, EditorsWork, NEW e \in Editors,
         NEW step \in {"idle", "holding", "saving", "drafted", "loading"}, NEW h,
         GoTo(e, step, h), Works(step, h)', step = "idle" <=> h = Idle,
         \A f \in Editors \ {e} : Works(pc[f], held[f])'
  PROVE  /\ EditorsWork'
         /\ pc' \in [Editors -> {"idle", "holding", "saving", "drafted", "loading"}]
         /\ \A f \in Editors : pc'[f] = "idle" <=> held'[f] = Idle
<1>1. /\ pc'[e] = step /\ held'[e] = h
      /\ \A f \in Editors \ {e} : pc'[f] = pc[f] /\ held'[f] = held[f]
      /\ held' = [f \in Editors |-> held'[f]]
      /\ pc' \in [Editors -> {"idle", "holding", "saving", "drafted", "loading"}]
  BY DEF GoTo, TypeOK, EditorsWork
<1>2. ASSUME NEW f \in Editors PROVE Works(pc[f], held[f])'
  BY <1>1
<1>3. QED
  BY <1>1, <1>2 DEF EditorsWork, TypeOK

(***************************************************************************)
(* A step of one editor that writes no row keeps the invariant, if what the *)
(* editor has in hand afterwards is worth something.                        *)
(***************************************************************************)
LEMMA RowsStay ==
  ASSUME TasksInv, UNCHANGED <<tasks, revisions, raced>>,
         NEW e \in Editors,
         NEW step \in {"idle", "holding", "saving", "drafted", "loading"}, NEW h,
         GoTo(e, step, h), Works(step, h), step = "idle" <=> h = Idle,
         step = "drafted" => \A f \in Editors \ {e} :
             pc[f] = "drafted" => held[f].id # h.id
  PROVE  /\ TypeOK' /\ EditorsWork' /\ DraftsAreApart' /\ NumbersAreConsecutive'
         /\ UNCHANGED started => TasksInv'
<1>1. \A f \in Editors : Works(pc[f], held[f])
  BY DEF TasksInv, EditorsWork
<1>2. Works(step, h)' /\ \A f \in Editors : Works(pc[f], held[f])'
  <2>1. Works(step, h)'
    BY WorthByRows
  <2>2. ASSUME NEW f \in Editors PROVE Works(pc[f], held[f])' \/ f = e
    <3>1. CASE f = e
      BY <3>1
    <3>2. CASE f # e
      <4>1. pc'[f] = pc[f] /\ held'[f] = held[f]
        BY <3>2 DEF GoTo, TasksInv, TypeOK, EditorsWork
      <4>2. PICK s, k : s = pc[f] /\ k = held[f]
        OBVIOUS
      <4>3. Works(s, k)'
        BY <1>1, <4>2, WorthByRows
      <4>4. QED
        BY <4>1, <4>2, <4>3
    <3>3. QED
      BY <3>1, <3>2
  <2>3. pc'[e] = step /\ held'[e] = h
    BY DEF GoTo, TasksInv, TypeOK, EditorsWork
  <2>4. QED
    BY <2>1, <2>2, <2>3
<1>3. TypeOK' /\ EditorsWork'
  BY <1>2, OneGoesOn DEF TasksInv, TypeOK
<1>4. DraftsAreApart'
  BY DEF DraftsAreApart, GoTo, TasksInv, TypeOK, EditorsWork
<1>5. /\ NumbersAreConsecutive'
      /\ UNCHANGED started => StartedOnRows' /\ HistoryKeepsItsMeaning'
  BY DEF TasksInv, StartedOnRows, NumbersAreConsecutive, HistoryKeepsItsMeaning,
         Numbers, RevisionsOf, Stored
<1>6. QED
  BY <1>3, <1>4, <1>5 DEF TasksInv

(***************************************************************************)
(* The latest number of a task is how many revisions it has.                *)
(***************************************************************************)
LEMMA LatestNumber ==
  ASSUME TasksInv, NEW t \in TaskIds
  PROVE  /\ IsFiniteSet(RevisionsOf(t))
         /\ Cardinality(RevisionsOf(t)) \in Nat
         /\ Max(Numbers(t) \cup {0}) = Cardinality(RevisionsOf(t))
<1>1. RevisionsOf(t) \subseteq RevisionIds
  BY DEF RevisionsOf, Stored, TasksInv, TypeOK
<1>2. IsFiniteSet(RevisionsOf(t)) /\ Cardinality(RevisionsOf(t)) \in Nat
  BY <1>1, TasksAssumption, FS_Subset, FS_CardinalityType
<1>3. PICK n \in Nat : n = Cardinality(RevisionsOf(t))
  BY <1>2
<1>4. Numbers(t) = 1..n
  BY <1>3 DEF TasksInv, NumbersAreConsecutive
<1>5. n \in Numbers(t) \cup {0} /\ \A m \in Numbers(t) \cup {0} : n >= m
  BY <1>4
<1>6. \A k \in Numbers(t) \cup {0} :
          (\A m \in Numbers(t) \cup {0} : k >= m) => k = n
  BY <1>4, <1>5
<1>7. QED
  BY <1>2, <1>3, <1>5, <1>6 DEF Max

-----------------------------------------------------------------------------
\* The invariant is inductive: the steps that write no row.

LEMMA IdleWorks ==
  /\ Works("idle", Idle)
  /\ \A kind, copy : \A id \in TaskIds \cup RevisionIds : Holding(kind, id, copy) # Idle
<1>1. Works("idle", Idle)
  BY DEF Works, Idle, Holding
<1>2. ASSUME NEW kind, NEW copy, NEW id \in TaskIds \cup RevisionIds
      PROVE  Holding(kind, id, copy) # Idle
  BY TasksAssumption DEF Holding, Idle
<1>3. QED
  BY <1>1, <1>2

LEMMA ReadTaskStep ==
  ASSUME TasksInv, NEW e \in Editors, NEW t \in TaskIds, ReadTask(e, t)
  PROVE  TasksInv'
<1>1. PICK h : h = Holding("task", t, tasks[t])
  OBVIOUS
<1>2. Works("holding", h)
  <2>1. tasks[t] \in TaskCopies /\ tasks[t] # None
    BY DEF ReadTask, TasksInv, TypeOK
  <2>2. tasks[t].version \in Nat
    BY <2>1 DEF TaskCopies
  <2>3. TaskInHand(h)
    BY <1>1, <2>1, <2>2 DEF TaskInHand, Holding
  <2>4. QED
    BY <1>1, <2>3 DEF Works, Holding
<1>3. h # Idle
  BY <1>1, IdleWorks
<1>4. QED
  BY <1>1, <1>2, <1>3, RowsStay DEF ReadTask

LEMMA LoadTaskStep ==
  ASSUME TasksInv, NEW e \in Editors, NEW t \in TaskIds, LoadTask(e, t)
  PROVE  TasksInv'
<1>1. PICK h : h = Holding("run", tasks[t].active, None)
  OBVIOUS
<1>2. tasks[t].active \in RevisionIds
  BY DEF LoadTask, TasksInv, TypeOK, TaskCopies
<1>3. Works("loading", h)
  BY <1>1, <1>2 DEF Works, Holding
<1>4. h # Idle
  BY <1>1, <1>2, IdleWorks
<1>5. QED
  BY <1>1, <1>3, <1>4, RowsStay DEF LoadTask

(***************************************************************************)
(* An edit of a copy of the version that is stored is an edit of the row.   *)
(***************************************************************************)
LEMMA UpdateTaskStep ==
  ASSUME TasksInv, NEW e \in Editors, UpdateTask(e)
  PROVE  TasksInv'
<1> DEFINE h == held[e]
           row == tasks[h.id]
<1>1. /\ h = Holding(h.kind, h.id, h.copy) /\ h.kind = "task"
      /\ TaskInHand(h)
  BY DEF UpdateTask, TasksInv, EditorsWork, Works
<1>2. PICK edited \in EditedTasks(h.copy, Candidates(h.id)) :
          IF row.version = h.copy.version
          THEN Written(e, [edited EXCEPT !.version = @ + 1], row)
          ELSE GoTo(e, "idle", Idle)
  BY DEF UpdateTask
<1>3. CASE row.version # h.copy.version
  BY <1>2, <1>3, IdleWorks, RowsStay DEF UpdateTask
<1>4. CASE row.version = h.copy.version
  <2> DEFINE copy == [edited EXCEPT !.version = @ + 1]
  <2>1. /\ edited \in TaskCopies /\ edited.slug = h.copy.slug
        /\ edited.version = h.copy.version
        /\ edited.state = h.copy.state \/ edited.state \in TaskTransitions[h.copy.state]
    <3>1. Candidates(h.id) \in SUBSET RevisionIds
      BY DEF Candidates
    <3>2. QED
      BY <1>1, <3>1, EditedTask DEF TaskInHand
  <2>2. /\ copy \in TaskCopies /\ copy.slug = edited.slug
        /\ copy.version = edited.version + 1 /\ copy.state = edited.state
    BY <2>1 DEF TaskCopies
  <2>3. row \in TaskCopies /\ row.slug = h.copy.slug
    BY <1>1 DEF TaskInHand, TasksInv, TypeOK
  <2>4. ~raced => EditOfTask(row, copy)
    BY <1>1, <1>4, <2>1, <2>2 DEF TaskInHand, EditOfTask
  <2>5. PICK new : new = Holding("task", h.id, Changes(row, copy))
    OBVIOUS
  <2>6. GoTo(e, "saving", new)
    <3>1. GoTo(e, "saving", [h EXCEPT !.copy = Changes(row, copy)])
      BY <1>2, <1>4 DEF Written
    <3>2. [h EXCEPT !.copy = Changes(row, copy)] = new
      <4> HIDE DEF h
      <4>1. QED
        BY <1>1, <2>5 DEF Holding
    <3>3. QED
      BY <3>1, <3>2
  <2>7. TaskInFlight(new)
    <3>1. new.id = h.id /\ new.copy = Changes(row, copy)
      BY <2>5 DEF Holding
    <3>2. /\ copy \in TaskCopies /\ row \in TaskCopies
          /\ row.slug = tasks[new.id].slug /\ copy.slug = tasks[new.id].slug
          /\ ~raced => row = tasks[new.id] /\ EditOfTask(row, copy)
      BY <2>1, <2>2, <2>3, <2>4, <3>1
    <3>3. new.id \in TaskIds /\ tasks[new.id] # None
      BY <1>1, <3>1 DEF TaskInHand
    <3> HIDE DEF copy, row
    <3>4. QED
      BY <3>1, <3>2, <3>3 DEF TaskInFlight
  <2>8. Works("saving", new)
    BY <2>5, <2>7 DEF Works, Holding
  <2>9. new # Idle
    BY <1>1, <2>5, IdleWorks DEF TaskInHand
  <2>10. QED
    BY <2>6, <2>8, <2>9, RowsStay DEF UpdateTask
<1>5. QED
  BY <1>3, <1>4

LEMMA DraftRevisionStep ==
  ASSUME TasksInv, NEW e \in Editors, NEW t \in TaskIds, NEW r \in RevisionIds,
         DraftRevision(e, t, r)
  PROVE  TasksInv'
<1>1. PICK n : n = Max(Numbers(t) \cup {0}) + 1
  OBVIOUS
<1>2. n \in 1..(Cardinality(RevisionsOf(t)) + 1)
  BY <1>1, LatestNumber
<1>3. PICK h : h = Holding("revision", r,
          [task |-> t, number |-> n, state |-> "draft",
           content |-> None, digest |-> None])
  OBVIOUS
<1>4. Works("drafted", h)
  <2>1. /\ h.kind = "revision" /\ h.id = r
        /\ h.copy = [task |-> t, number |-> n, state |-> "draft",
                     content |-> None, digest |-> None]
        /\ h = Holding(h.kind, h.id, h.copy)
    BY <1>3 DEF Holding
  <2>2. RevisionInDraft(h)
    BY <2>1, <1>2 DEF RevisionInDraft, DraftRevision
  <2>3. QED
    BY <2>1, <2>2 DEF Works
<1>5. h # Idle
  BY <1>3, IdleWorks
<1>6. \A f \in Editors \ {e} : pc[f] = "drafted" => held[f].id # h.id
  <2>1. \A f \in Editors : pc[f] = "drafted" => held[f].kind = "revision"
    BY DEF TasksInv, EditorsWork, Works
  <2>2. QED
    BY <2>1, <1>3 DEF DraftRevision, Holding
<1>7. GoTo(e, "drafted", h)
  BY <1>1, <1>3 DEF DraftRevision
<1>8. QED
  BY <1>4, <1>5, <1>6, <1>7, RowsStay DEF DraftRevision

LEMMA ReadRevisionStep ==
  ASSUME TasksInv, NEW e \in Editors, NEW r \in RevisionIds, ReadRevision(e, r)
  PROVE  TasksInv'
<1>1. PICK h : h = Holding("revision", r, revisions[r])
  OBVIOUS
<1>2. Works("holding", h)
  <2>1. revisions[r] \in RevisionCopies /\ revisions[r] # None
    BY DEF ReadRevision, TasksInv, TypeOK
  <2>2. RevisionInHand(h)
    BY <1>1, <2>1 DEF RevisionInHand, Holding, SameRevision
  <2>3. QED
    BY <1>1, <2>2 DEF Works, Holding
<1>3. h # Idle
  BY <1>1, IdleWorks
<1>4. QED
  BY <1>1, <1>2, <1>3, RowsStay DEF ReadRevision

(***************************************************************************)
(* save_state takes the content from the row, so that it is not written.    *)
(***************************************************************************)
LEMMA SaveStateStep ==
  ASSUME TasksInv, NEW e \in Editors, SaveState(e)
  PROVE  TasksInv'
<1> DEFINE h == held[e]
           row == revisions[h.id]
<1>1. /\ h = Holding(h.kind, h.id, h.copy) /\ h.kind = "revision"
      /\ RevisionInHand(h)
  BY DEF SaveState, TasksInv, EditorsWork, Works
<1>2. PICK edited \in Publish(h.copy) \cup MovedOn(h.copy) :
          Written(e, [edited EXCEPT !.content = row.content], row)
  BY DEF SaveState
<1> DEFINE copy == [edited EXCEPT !.content = row.content]
<1>3. row \in RevisionCopies /\ SameRevision(h.copy, row)
  BY <1>1 DEF RevisionInHand, TasksInv, TypeOK
<1>4. /\ edited \in RevisionCopies /\ SameRevision(edited, h.copy)
      /\ edited.state # "draft"
  BY <1>1, EditedRevision DEF RevisionInHand
<1>5. /\ copy \in RevisionCopies /\ SameRevision(copy, row)
      /\ copy.content = row.content /\ copy.state # "draft"
  BY <1>3, <1>4 DEF RevisionCopies, SameRevision
<1>6. PICK new : new = Holding("revision", h.id, Changes(row, copy))
  OBVIOUS
<1>7. GoTo(e, "saving", new)
  <2>1. GoTo(e, "saving", [h EXCEPT !.copy = Changes(row, copy)])
    BY <1>2 DEF Written
  <2>2. [h EXCEPT !.copy = Changes(row, copy)] = new
    <3> HIDE DEF h
    <3>1. QED
      BY <1>1, <1>6 DEF Holding
  <2>3. QED
    BY <2>1, <2>2
<1>8. RevisionInFlight(new)
  <2>1. new.id = h.id /\ new.copy = Changes(row, copy)
    BY <1>6 DEF Holding
  <2>2. /\ row \in RevisionCopies /\ SameRevision(row, revisions[new.id])
        /\ copy \in RevisionCopies /\ SameRevision(copy, revisions[new.id])
        /\ copy.content = row.content /\ copy.state # "draft"
    BY <1>3, <1>5, <2>1 DEF SameRevision
  <2>3. new.id \in RevisionIds /\ revisions[new.id] # None
    BY <1>1, <2>1 DEF RevisionInHand
  <2> HIDE DEF copy, row
  <2>4. QED
    BY <2>1, <2>2, <2>3 DEF RevisionInFlight
<1>9. Works("saving", new)
  BY <1>6, <1>8 DEF Works, Holding
<1>10. new # Idle
  BY <1>1, <1>6, IdleWorks DEF RevisionInHand
<1>11. QED
  BY <1>7, <1>9, <1>10, RowsStay DEF SaveState

LEMMA LoadRevisionStep ==
  ASSUME TasksInv, NEW e \in Editors, LoadRevision(e)
  PROVE  TasksInv'
<1>1. held[e].id \in RevisionIds
  BY DEF LoadRevision, TasksInv, EditorsWork, Works
<1>2. TypeOK' /\ EditorsWork' /\ DraftsAreApart' /\ NumbersAreConsecutive'
  BY IdleWorks, RowsStay DEF LoadRevision
<1>3. StartedOnRows' /\ HistoryKeepsItsMeaning'
  BY <1>1 DEF LoadRevision, TasksInv, StartedOnRows, HistoryKeepsItsMeaning
<1>4. QED
  BY <1>2, <1>3 DEF TasksInv

LEMMA RollBackStep ==
  ASSUME TasksInv, NEW e \in Editors, RollBack(e)
  PROVE  TasksInv'
BY IdleWorks, RowsStay DEF RollBack

-----------------------------------------------------------------------------
\* The invariant is inductive: the steps that write a row.

(***************************************************************************)
(* A new row is in nobody's hands.                                          *)
(***************************************************************************)
LEMMA CreateTaskStep ==
  ASSUME TasksInv, NEW t \in TaskIds, NEW s \in Slugs, NEW n \in Names,
         CreateTask(t, s, n)
  PROVE  TasksInv'
<1>1. NewTask(s, n) \in TaskCopies
  BY DEF NewTask, TaskCopies, TaskStates
<1>2. /\ tasks' \in [TaskIds -> TaskCopies \cup {None}]
      /\ \A u \in TaskIds : tasks[u] # None => tasks'[u] = tasks[u]
  BY <1>1 DEF CreateTask, TasksInv, TypeOK
<1>3. ASSUME NEW step, NEW h, Works(step, h)
      PROVE  Works(step, h)'
  BY <1>2, <1>3 DEF CreateTask, Works, TaskInHand, TaskInFlight, RevisionInHand,
     RevisionInFlight, RevisionInDraft, RevisionsOf, Stored
<1>4. EditorsWork'
  <2>1. ASSUME NEW f \in Editors PROVE Works(pc[f], held[f])'
    <3>1. PICK step, h : step = pc[f] /\ h = held[f]
      OBVIOUS
    <3>2. Works(step, h)'
      BY <1>3, <3>1 DEF TasksInv, EditorsWork
    <3>3. pc'[f] = step /\ held'[f] = h
      BY <3>1 DEF CreateTask
    <3>4. QED
      BY <3>2, <3>3
  <2>2. held' = [f \in Editors |-> held'[f]]
    BY DEF CreateTask, TasksInv, EditorsWork
  <2>3. QED
    BY <2>1, <2>2 DEF EditorsWork
<1>5. TypeOK'
  BY <1>2 DEF TasksInv, TypeOK, CreateTask
<1>6. DraftsAreApart' /\ StartedOnRows' /\ NumbersAreConsecutive'
      /\ HistoryKeepsItsMeaning'
  BY DEF CreateTask, TasksInv, DraftsAreApart, StartedOnRows, NumbersAreConsecutive,
     HistoryKeepsItsMeaning, Numbers, RevisionsOf, Stored
<1>7. QED
  BY <1>4, <1>5, <1>6 DEF TasksInv

(***************************************************************************)
(* The row that results from a save of a task: while no two saves           *)
(* overlapped it is the edit of the row as it was.                          *)
(***************************************************************************)
LEMMA FlushedTask ==
  ASSUME TasksInv, NEW e \in Editors, FlushTask(e)
  PROVE  LET id == held[e].id
             new == Merged(tasks[id], held[e].copy)
         IN /\ id \in TaskIds /\ tasks[id] \in TaskCopies
            /\ new \in TaskCopies /\ new.slug = tasks[id].slug
            /\ ~raced => EditOfTask(tasks[id], new)
<1> DEFINE h == held[e]
           new == Merged(tasks[h.id], h.copy)
<1>1. TaskInFlight(h)
  BY DEF FlushTask, TasksInv, EditorsWork, Works
<1>2. h.id \in TaskIds /\ tasks[h.id] \in TaskCopies
  BY <1>1 DEF TaskInFlight, TasksInv, TypeOK
<1>3. PICK row, copy \in TaskCopies :
          /\ h.copy = Changes(row, copy)
          /\ row.slug = tasks[h.id].slug
          /\ copy.slug = tasks[h.id].slug
          /\ ~raced => row = tasks[h.id] /\ EditOfTask(row, copy)
  BY <1>1 DEF TaskInFlight
<1>4. new \in TaskCopies /\ new.slug = tasks[h.id].slug
  BY <1>2, <1>3, MergedTask
<1>5. ~raced => EditOfTask(tasks[h.id], new)
  BY <1>2, <1>3, MergedTask
<1>6. QED
  BY <1>2, <1>4, <1>5

(***************************************************************************)
(* A save of a task leaves every other copy of it an older version, unless  *)
(* another save was under way, and then the two have overlapped.            *)
(***************************************************************************)
LEMMA FlushTaskStep ==
  ASSUME TasksInv, NEW e \in Editors, FlushTask(e)
  PROVE  TasksInv'
<1> DEFINE id == held[e].id
           new == Merged(tasks[id], held[e].copy)
<1>1. /\ id \in TaskIds /\ tasks[id] \in TaskCopies
      /\ new \in TaskCopies /\ new.slug = tasks[id].slug
      /\ ~raced => new.version = tasks[id].version + 1
  BY FlushedTask DEF EditOfTask
<1>2. /\ tasks' \in [TaskIds -> TaskCopies \cup {None}]
      /\ \A u \in TaskIds \ {id} : tasks'[u] = tasks[u]
      /\ tasks'[id] = new \/ tasks' = tasks
  <2> HIDE DEF new
  <2>1. QED
    BY <1>1 DEF FlushTask, TasksInv, TypeOK, new
<1>3. tasks[id].version \in Nat /\ new.version \in Nat
  BY <1>1 DEF TaskCopies
<1>4. new # None /\ tasks[id] # None
  BY <1>1, TasksAssumption
<1>5. \A u \in TaskIds : tasks[u] # None =>
          tasks'[u] # None /\ tasks'[u].slug = tasks[u].slug
  BY <1>1, <1>2, <1>4
<1>6. ~raced' => ~raced
  BY DEF FlushTask
<1> HIDE DEF new
<1>7. ASSUME NEW f \in Editors \ {e} PROVE Works(pc[f], held[f])'
  <2>1. PICK step, h : step = pc[f] /\ h = held[f]
    OBVIOUS
  <2>2. Works(step, h)
    BY <2>1 DEF TasksInv, EditorsWork
  <2>3. step = "saving" /\ h.kind = "task" /\ h.id = id => raced'
    BY <2>1 DEF FlushTask, Overlaps
  <2>4. ASSUME step = "holding", TaskInHand(h) PROVE TaskInHand(h)'
    <3>1. h.id \in TaskIds /\ tasks'[h.id] # None /\ h.copy.slug = tasks'[h.id].slug
      BY <2>4, <1>5 DEF TaskInHand
    <3>2. h.copy \in TaskCopies /\ h.copy.version \in Nat
      BY <2>4 DEF TaskInHand, TaskCopies
    <3>3. ASSUME ~raced'
          PROVE  /\ h.copy.version <= tasks'[h.id].version
                 /\ h.copy.version = tasks'[h.id].version => h.copy = tasks'[h.id]
      BY <3>3, <3>1, <3>2, <2>4, <1>1, <1>2, <1>3, <1>6 DEF TaskInHand
    <3>4. QED
      BY <3>1, <3>2, <3>3 DEF TaskInHand
  <2>5. ASSUME step = "saving", h.kind = "task", TaskInFlight(h) PROVE TaskInFlight(h)'
    <3>1. h.id \in TaskIds /\ tasks'[h.id] # None
          /\ tasks'[h.id].slug = tasks[h.id].slug
      BY <2>5, <1>5 DEF TaskInFlight
    <3>2. ~raced' => tasks'[h.id] = tasks[h.id] /\ ~raced
      BY <2>3, <2>5, <3>1, <1>2, <1>6
    <3>3. QED
      BY <2>5, <3>1, <3>2 DEF TaskInFlight
  <2>6. /\ RevisionInHand(h) => RevisionInHand(h)'
        /\ RevisionInFlight(h) => RevisionInFlight(h)'
        /\ RevisionInDraft(h) => RevisionInDraft(h)'
    BY DEF FlushTask, RevisionInHand, RevisionInFlight, RevisionInDraft,
       RevisionsOf, Stored
  <2>7. Works(step, h)'
    BY <2>2, <2>4, <2>5, <2>6 DEF Works
  <2>8. pc'[f] = pc[f] /\ held'[f] = held[f]
    BY DEF FlushTask, GoTo, TasksInv, TypeOK, EditorsWork
  <2>9. QED
    BY <2>1, <2>7, <2>8
<1>8. Works("idle", Idle)'
  BY DEF Works, Idle, Holding
<1>9. /\ EditorsWork'
      /\ pc' \in [Editors -> {"idle", "holding", "saving", "drafted", "loading"}]
      /\ \A f \in Editors : pc'[f] = "idle" <=> held'[f] = Idle
  BY <1>7, <1>8, OneGoesOn DEF FlushTask, TasksInv
<1>10. TypeOK'
  BY <1>2, <1>9 DEF TasksInv, TypeOK, FlushTask
<1>11. DraftsAreApart'
  BY DEF DraftsAreApart, FlushTask, GoTo, TasksInv, TypeOK, EditorsWork
<1>12. StartedOnRows' /\ NumbersAreConsecutive' /\ HistoryKeepsItsMeaning'
  BY DEF FlushTask, TasksInv, StartedOnRows, NumbersAreConsecutive,
     HistoryKeepsItsMeaning, Numbers, RevisionsOf, Stored
<1>13. QED
  BY <1>9, <1>10, <1>11, <1>12 DEF TasksInv

(***************************************************************************)
(* A stored draft takes the next number, unless that was taken meanwhile.   *)
(***************************************************************************)
LEMMA AddRevisionStep ==
  ASSUME TasksInv, NEW e \in Editors, AddRevision(e)
  PROVE  TasksInv'
<1> DEFINE h == held[e]
<1>1. /\ h.id \in RevisionIds /\ revisions[h.id] = None
      /\ pc[e] = "drafted" /\ RevisionInDraft(h)
  BY DEF AddRevision, TasksInv, EditorsWork, Works, RevisionInDraft
<1>2. PICK t \in TaskIds : \E n \in 1..(Cardinality(RevisionsOf(t)) + 1) :
          h.copy = [task |-> t, number |-> n, state |-> "draft",
                    content |-> None, digest |-> None]
  BY <1>1 DEF RevisionInDraft
<1>3. PICK n \in 1..(Cardinality(RevisionsOf(t)) + 1) :
          h.copy = [task |-> t, number |-> n, state |-> "draft",
                    content |-> None, digest |-> None]
  BY <1>2
<1>4. PICK new \in Drafts(h.copy) \cup Publish(h.copy) :
          revisions' = IF new.number \in Numbers(new.task) THEN revisions
                       ELSE [revisions EXCEPT ![h.id] = new]
  BY DEF AddRevision
<1>5. PICK last \in Nat : last = Cardinality(RevisionsOf(t))
  BY LatestNumber
<1>6. new \in RevisionCopies /\ new.task = t /\ new.number = n
  <2>1. n \in Nat \ {0}
    BY <1>3, <1>5
  <2>2. PICK c \in Contents :
             \/ new = [h.copy EXCEPT !.content = c]
             \/ new = [h.copy EXCEPT !.state = "published", !.content = c, !.digest = c]
    BY DEF Drafts, Publish
  <2> DEFINE copy == [task |-> t, number |-> n, state |-> "draft",
                      content |-> None, digest |-> None]
  <2>3. \/ new = [copy EXCEPT !.content = c]
        \/ new = [copy EXCEPT !.state = "published", !.content = c, !.digest = c]
    <3> HIDE DEF copy
    <3>1. h.copy = copy
      BY <1>3 DEF copy
    <3>2. QED
      BY <2>2, <3>1
  <2>4. QED
    BY <2>1, <2>3 DEF RevisionCopies, PublicationStates
<1>7. CASE n \in Numbers(t)
  BY <1>4, <1>6, <1>7, IdleWorks, RowsStay DEF AddRevision
<1>8. CASE n \notin Numbers(t)
  <2>1. revisions' = [revisions EXCEPT ![h.id] = new] /\ new # None
    BY <1>4, <1>6, <1>8, TasksAssumption
  <2>2. /\ revisions' \in [RevisionIds -> RevisionCopies \cup {None}]
        /\ revisions'[h.id] = new
        /\ \A r \in RevisionIds \ {h.id} : revisions'[r] = revisions[r]
    BY <1>1, <1>6, <2>1 DEF TasksInv, TypeOK
  <2>3. n = last + 1
    BY <1>3, <1>5, <1>8 DEF TasksInv, NumbersAreConsecutive
  <2>4. /\ RevisionsOf(t)' = RevisionsOf(t) \cup {h.id}
        /\ h.id \notin RevisionsOf(t)
        /\ \A u \in TaskIds \ {t} : RevisionsOf(u)' = RevisionsOf(u)
    BY <1>1, <1>6, <2>1, <2>2 DEF RevisionsOf, Stored, TasksInv, TypeOK
  <2>5. /\ Cardinality(RevisionsOf(t))' = last + 1
        /\ \A u \in TaskIds :
              /\ Cardinality(RevisionsOf(u)) \in Nat
              /\ Cardinality(RevisionsOf(u))' \in Nat
              /\ Cardinality(RevisionsOf(u)) <= Cardinality(RevisionsOf(u))'
    <3>1. Cardinality(RevisionsOf(t) \cup {h.id}) = last + 1
      BY <1>5, <2>4, LatestNumber, FS_AddElement
    <3>2. Cardinality(RevisionsOf(t))' = last + 1
      BY <2>4, <3>1
    <3>3. \A u \in TaskIds \ {t} : Cardinality(RevisionsOf(u))' = Cardinality(RevisionsOf(u))
      BY <2>4
    <3>4. ASSUME NEW u \in TaskIds
          PROVE  /\ Cardinality(RevisionsOf(u)) \in Nat
                 /\ Cardinality(RevisionsOf(u))' \in Nat
                 /\ Cardinality(RevisionsOf(u)) <= Cardinality(RevisionsOf(u))'
      <4>1. Cardinality(RevisionsOf(u)) \in Nat
        BY LatestNumber
      <4>2. CASE u = t
        BY <1>5, <3>2, <4>1, <4>2
      <4>3. CASE u # t
        BY <3>3, <4>1, <4>3
      <4>4. QED
        BY <4>1, <4>2, <4>3
    <3>5. QED
      BY <3>2, <3>4
  <2>6. NumbersAreConsecutive'
    <3>1. ASSUME NEW u \in TaskIds, u # t
          PROVE  Numbers(u)' = 1..Cardinality(RevisionsOf(u))'
      <4>1. \A r \in RevisionsOf(u) : revisions'[r] = revisions[r]
        BY <1>1, <2>2 DEF RevisionsOf, Stored, TasksInv, TypeOK
      <4>2. Numbers(u)' = Numbers(u)
        BY <2>4, <3>1, <4>1 DEF Numbers
      <4>3. QED
        BY <2>4, <3>1, <4>2 DEF TasksInv, NumbersAreConsecutive
    <3>2. Numbers(t)' = 1..Cardinality(RevisionsOf(t))'
      <4>1. \A r \in RevisionsOf(t) : revisions'[r] = revisions[r]
        BY <1>1, <2>2 DEF RevisionsOf, Stored, TasksInv, TypeOK
      <4>2. Numbers(t)' = Numbers(t) \cup {n}
        BY <1>6, <2>2, <2>4, <4>1 DEF Numbers
      <4>3. Numbers(t) = 1..last
        BY <1>5 DEF TasksInv, NumbersAreConsecutive
      <4>4. QED
        BY <2>3, <2>5, <4>2, <4>3
    <3>3. QED
      BY <3>1, <3>2 DEF NumbersAreConsecutive
  <2>7. ASSUME NEW f \in Editors \ {e} PROVE Works(pc[f], held[f])'
    <3>1. PICK step, k : step = pc[f] /\ k = held[f]
      OBVIOUS
    <3>2. Works(step, k)
      BY <3>1 DEF TasksInv, EditorsWork
    <3>3. RevisionInHand(k) => RevisionInHand(k)'
      BY <1>1, <2>2 DEF RevisionInHand
    <3>4. RevisionInFlight(k) => RevisionInFlight(k)'
      BY <1>1, <2>2 DEF RevisionInFlight
    <3>5. step = "drafted" /\ RevisionInDraft(k) => RevisionInDraft(k)'
      <4>1. step = "drafted" => k.id # h.id
        BY <1>1, <3>1 DEF TasksInv, DraftsAreApart
      <4>2. ASSUME NEW u \in TaskIds,
                   NEW m \in 1..(Cardinality(RevisionsOf(u)) + 1)
            PROVE  m \in 1..(Cardinality(RevisionsOf(u))' + 1)
        BY <2>5
      <4>3. QED
        BY <4>1, <4>2, <2>2 DEF RevisionInDraft
    <3>6. /\ TaskInHand(k) => TaskInHand(k)'
          /\ TaskInFlight(k) => TaskInFlight(k)'
      BY DEF AddRevision, TaskInHand, TaskInFlight
    <3>7. Works(step, k)'
      BY <3>2, <3>3, <3>4, <3>5, <3>6 DEF Works
    <3>8. pc'[f] = pc[f] /\ held'[f] = held[f]
      BY DEF AddRevision, GoTo, TasksInv, TypeOK, EditorsWork
    <3>9. QED
      BY <3>1, <3>7, <3>8
  <2>8. Works("idle", Idle)'
    BY DEF Works, Idle, Holding
  <2>9. /\ EditorsWork'
        /\ pc' \in [Editors -> {"idle", "holding", "saving", "drafted", "loading"}]
        /\ \A f \in Editors : pc'[f] = "idle" <=> held'[f] = Idle
    BY <2>7, <2>8, OneGoesOn DEF AddRevision, TasksInv
  <2>10. TypeOK'
    BY <2>2, <2>9 DEF TasksInv, TypeOK, AddRevision
  <2>11. DraftsAreApart'
    BY DEF DraftsAreApart, AddRevision, GoTo, TasksInv, TypeOK, EditorsWork
  <2>12. StartedOnRows' /\ HistoryKeepsItsMeaning'
    BY <1>1, <2>2 DEF AddRevision, TasksInv, StartedOnRows, HistoryKeepsItsMeaning
  <2>13. QED
    BY <2>6, <2>9, <2>10, <2>11, <2>12 DEF TasksInv
<1>9. QED
  BY <1>7, <1>8

(***************************************************************************)
(* A save of a revision keeps its task, its number and its content, and a   *)
(* frozen revision stays frozen.                                            *)
(***************************************************************************)
LEMMA FlushRevisionStep ==
  ASSUME TasksInv, NEW e \in Editors, FlushRevision(e)
  PROVE  TasksInv'
<1> DEFINE id == held[e].id
           new == Merged(revisions[id], held[e].copy)
<1>1. RevisionInFlight(held[e])
  BY DEF FlushRevision, TasksInv, EditorsWork, Works
<1>2. id \in RevisionIds /\ revisions[id] \in RevisionCopies
  BY <1>1 DEF RevisionInFlight, TasksInv, TypeOK
<1>3. /\ new \in RevisionCopies /\ SameRevision(new, revisions[id])
      /\ new.content = revisions[id].content
      /\ revisions[id].state # "draft" => new.state # "draft"
  BY <1>1, <1>2, MergedRevision DEF RevisionInFlight
<1>4. new # None /\ revisions[id] # None
  BY <1>2, <1>3, TasksAssumption
<1>5. revisions' = revisions \/ revisions' = [revisions EXCEPT ![id] = new]
  BY DEF FlushRevision
<1> HIDE DEF new
<1>6. /\ revisions' \in [RevisionIds -> RevisionCopies \cup {None}]
      /\ \A r \in RevisionIds :
            /\ revisions'[r] = None <=> revisions[r] = None
            /\ revisions[r] # None =>
                  /\ SameRevision(revisions'[r], revisions[r])
                  /\ revisions'[r].content = revisions[r].content
                  /\ revisions[r].state # "draft" => revisions'[r].state # "draft"
  <2>1. CASE revisions' = revisions
    BY <2>1 DEF TasksInv, TypeOK, SameRevision
  <2>2. CASE revisions' = [revisions EXCEPT ![id] = new]
    BY <1>2, <1>3, <1>4, <2>2 DEF TasksInv, TypeOK, SameRevision
  <2>3. QED
    BY <1>5, <2>1, <2>2
<1>7. \A t \in TaskIds : RevisionsOf(t)' = RevisionsOf(t) /\ Numbers(t)' = Numbers(t)
  <2>1. ASSUME NEW t \in TaskIds PROVE RevisionsOf(t)' = RevisionsOf(t)
    BY <1>6 DEF RevisionsOf, Stored, TasksInv, TypeOK, SameRevision
  <2>2. ASSUME NEW t \in TaskIds PROVE Numbers(t)' = Numbers(t)
    <3>1. \A r \in RevisionsOf(t) : revisions'[r].number = revisions[r].number
      BY <1>6 DEF RevisionsOf, Stored, TasksInv, TypeOK, SameRevision
    <3>2. QED
      BY <2>1, <3>1 DEF Numbers
  <2>3. QED
    BY <2>1, <2>2
<1>8. ASSUME NEW f \in Editors \ {e} PROVE Works(pc[f], held[f])'
  <2>1. PICK step, k : step = pc[f] /\ k = held[f]
    OBVIOUS
  <2>2. Works(step, k)
    BY <2>1 DEF TasksInv, EditorsWork
  <2>3. ASSUME RevisionInHand(k) PROVE RevisionInHand(k)'
    BY <1>6, <2>3 DEF RevisionInHand, SameRevision
  <2>4. ASSUME RevisionInFlight(k) PROVE RevisionInFlight(k)'
    BY <1>6, <2>4 DEF RevisionInFlight, SameRevision
  <2>5. ASSUME RevisionInDraft(k) PROVE RevisionInDraft(k)'
    BY <1>6, <1>7, <2>5 DEF RevisionInDraft
  <2>6. /\ TaskInHand(k) => TaskInHand(k)'
        /\ TaskInFlight(k) => TaskInFlight(k)'
    BY DEF FlushRevision, TaskInHand, TaskInFlight
  <2>7. Works(step, k)'
    BY <2>2, <2>3, <2>4, <2>5, <2>6 DEF Works
  <2>8. pc'[f] = pc[f] /\ held'[f] = held[f]
    BY DEF FlushRevision, GoTo, TasksInv, TypeOK, EditorsWork
  <2>9. QED
    BY <2>1, <2>7, <2>8
<1>9. Works("idle", Idle)'
  BY DEF Works, Idle, Holding
<1>10. /\ EditorsWork'
       /\ pc' \in [Editors -> {"idle", "holding", "saving", "drafted", "loading"}]
       /\ \A f \in Editors : pc'[f] = "idle" <=> held'[f] = Idle
  BY <1>8, <1>9, OneGoesOn DEF FlushRevision, TasksInv
<1>11. TypeOK'
  BY <1>6, <1>10 DEF TasksInv, TypeOK, FlushRevision
<1>12. DraftsAreApart'
  BY DEF DraftsAreApart, FlushRevision, GoTo, TasksInv, TypeOK, EditorsWork
<1>13. NumbersAreConsecutive'
  BY <1>7 DEF TasksInv, NumbersAreConsecutive
<1>14. StartedOnRows' /\ HistoryKeepsItsMeaning'
  BY <1>6 DEF FlushRevision, TasksInv, StartedOnRows, HistoryKeepsItsMeaning
<1>15. QED
  BY <1>10, <1>11, <1>12, <1>13, <1>14 DEF TasksInv

-----------------------------------------------------------------------------
\* The theorems.

LEMMA InitTasksInv ==
  ASSUME Init
  PROVE  TasksInv
<1>1. TypeOK
  BY TasksAssumption DEF Init, TypeOK
<1>2. EditorsWork
  BY IdleWorks DEF Init, EditorsWork
<1>3. \A t \in TaskIds : RevisionsOf(t) = {} /\ Numbers(t) = {}
  BY DEF Init, RevisionsOf, Stored, Numbers
<1>4. NumbersAreConsecutive
  BY <1>3, FS_EmptySet DEF NumbersAreConsecutive
<1>5. QED
  BY <1>1, <1>2, <1>4 DEF TasksInv, DraftsAreApart, StartedOnRows,
     HistoryKeepsItsMeaning, Init

LEMMA StepTasksInv ==
  ASSUME TasksInv, [Next]_vars
  PROVE  TasksInv'
<1>1. CASE UNCHANGED vars
  <2>1. ASSUME NEW e \in Editors PROVE Works(pc[e], held[e])'
    <3>1. PICK step, h : step = pc[e] /\ h = held[e]
      OBVIOUS
    <3>2. Works(step, h)'
      BY <1>1, <3>1, WorthByRows DEF vars, TasksInv, EditorsWork
    <3>3. QED
      BY <1>1, <3>1, <3>2 DEF vars
  <2>2. QED
    BY <1>1, <2>1 DEF vars, TasksInv, EditorsWork, TypeOK, DraftsAreApart,
       StartedOnRows, NumbersAreConsecutive, HistoryKeepsItsMeaning, Numbers,
       RevisionsOf, Stored
<1>2. ASSUME NEW e \in Editors, Edit(e) PROVE TasksInv'
  BY <1>2, ReadTaskStep, LoadTaskStep, DraftRevisionStep, ReadRevisionStep,
     UpdateTaskStep, FlushTaskStep, AddRevisionStep, SaveStateStep,
     FlushRevisionStep, LoadRevisionStep, RollBackStep DEF Edit
<1>3. QED
  BY <1>1, <1>2, CreateTaskStep DEF Next

(***************************************************************************)
(* Whatever the editors do and however their steps interleave, rows and     *)
(* copies have their types, and every copy is worth what the invariant says.*)
(***************************************************************************)
THEOREM TasksSafety == Spec => []TasksInv
<1>1. Init => TasksInv
  BY InitTasksInv
<1>2. TasksInv /\ [Next]_vars => TasksInv'
  BY StepTasksInv
<1>3. QED
  BY <1>1, <1>2, PTL DEF Spec

(***************************************************************************)
(* Rows, copies and program counters always have their types.               *)
(***************************************************************************)
THEOREM TypeCorrect == Spec => []TypeOK
<1>1. TasksInv => TypeOK
  BY DEF TasksInv
<1>2. QED
  BY <1>1, TasksSafety, PTL

(***************************************************************************)
(* The revisions of a task are numbered 1, 2, 3, ... without a gap or a     *)
(* repeat, for any number of editors that read the latest number            *)
(* (latest_revision_number) long before they use it (revisions.add).        *)
(***************************************************************************)
THEOREM RevisionsAreNumbered == Spec => []NumbersAreConsecutive
<1>1. TasksInv => NumbersAreConsecutive
  BY DEF TasksInv
<1>2. QED
  BY <1>1, TasksSafety, PTL

(***************************************************************************)
(* The content an execution ran is what its revision says ever after: no    *)
(* save_state, of however old a copy, rewrites or reopens it.               *)
(***************************************************************************)
THEOREM HistoryIsKept == Spec => []HistoryKeepsItsMeaning
<1>1. TasksInv => HistoryKeepsItsMeaning
  BY DEF TasksInv
<1>2. QED
  BY <1>1, TasksSafety, PTL

(***************************************************************************)
(* As long as no two saves of a row overlapped, TaskRepository.update is    *)
(* optimistic locking that works: each write follows the version it was     *)
(* read from, keeps the slug, and moves the lifecycle along its table.      *)
(***************************************************************************)
THEOREM EditsFollowTheRow == Spec => EditsBuildOnTheLatest
<1> DEFINE Builds ==
      ~raced' => \A t \in TaskIds : Existing(t) =>
          /\ tasks'[t].version = tasks[t].version + 1
          /\ tasks'[t].slug = tasks[t].slug
          /\ \/ tasks'[t].state = tasks[t].state
             \/ tasks'[t].state \in TaskTransitions[tasks[t].state]
<1>1. ASSUME TasksInv, Next PROVE Builds
  <2>1. CASE UNCHANGED tasks
    BY <2>1 DEF Existing
  <2>2. ASSUME NEW t \in TaskIds, NEW s \in Slugs, NEW n \in Names,
               CreateTask(t, s, n)
        PROVE  Builds
    BY <1>1, <2>2 DEF CreateTask, Existing, TasksInv, TypeOK
  <2>3. ASSUME NEW e \in Editors, FlushTask(e)
        PROVE  Builds
    <3> DEFINE id == held[e].id
               new == Merged(tasks[id], held[e].copy)
    <3>1. /\ id \in TaskIds
          /\ new.slug = tasks[id].slug
          /\ ~raced => EditOfTask(tasks[id], new)
      BY <1>1, <2>3, FlushedTask
    <3>2. tasks' = tasks \/ tasks' = [tasks EXCEPT ![id] = new]
      BY <2>3 DEF FlushTask
    <3>3. ~raced' => ~raced
      BY <2>3 DEF FlushTask
    <3> HIDE DEF new
    <3>4. QED
      BY <1>1, <3>1, <3>2, <3>3 DEF Existing, EditOfTask, TasksInv, TypeOK
  <2>4. ASSUME NEW e \in Editors, Edit(e) PROVE UNCHANGED tasks \/ FlushTask(e)
    BY <2>4 DEF Edit, ReadTask, LoadTask, DraftRevision, ReadRevision, UpdateTask,
       AddRevision, SaveState, FlushRevision, LoadRevision, RollBack
  <2>5. QED
    BY <1>1, <2>1, <2>2, <2>3, <2>4 DEF Next
<1>2. TasksInv /\ [Next]_vars => [Builds]_vars
  BY <1>1
<1>3. QED
  BY <1>2, TasksSafety, PTL DEF Spec, EditsBuildOnTheLatest
=============================================================================
