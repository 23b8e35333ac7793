--------------------------- MODULE DeploymentProofs ---------------------------
(***************************************************************************)
(* Theorems about Deployment for any estates, hosts, crontabs, directories  *)
(* and appliers.                                                            *)
(***************************************************************************)
EXTENDS RenderingProofs

-----------------------------------------------------------------------------
\* The invariant of a step.

Desireds == UNION {[D -> Revs] : D \in SUBSET Slugs}
Captures == UNION {[C -> Texts] : C \in SUBSET Cells}

Frames ==
    [offset : 0..Len(TaskOrder), desired : Desireds, todo : Seq(Jobs),
     removed : SUBSET Slugs, held : Texts, captured : Captures, result : Results]

Typed ==
    /\ estate \in [Slugs -> Revs \cup {NoRev}]
    /\ host \in [Cells -> Texts]
    /\ installed \in [Slugs -> Revs \cup {NoRev}]
    /\ pc \in [Appliers -> Steps]
    /\ frame \in [Appliers -> Frames]
    /\ before \in [Appliers -> [Cells -> Texts]]
    /\ touched \in [Appliers -> SUBSET Cells]
    /\ moved \in [Appliers -> BOOLEAN]
    /\ raced \in BOOLEAN

\* A cell is captured before it is written, what is written follows from a text
\* that was readable for the job, nothing is captured while planning, and no
\* result but that of the plan is on record before the end.
InHand(step, f) ==
    /\ step \in {"write", "check"} =>
          f.todo # <<>> /\ Head(f.todo).cell \in DOMAIN f.captured
    /\ step = "write" => /\ ~JobRaises(Head(f.todo), f.held)
                         /\ ~RemovalRaises(Head(f.todo), f.held)
    /\ step \in {"paging", "plan"} => DOMAIN f.captured = {}
    /\ step # "idle" => f.result \in {"none", "applied", "removed"}
    /\ step = "idle" => DOMAIN f.captured = {}

JobsInHand == \A p \in Appliers : InHand(pc[p], frame[p])

\* Restoring what is captured gives back what was there, but for the cells that
\* somebody else wrote.
Undoable(step, f, theirs, on, was) ==
    step # "idle" \/ f.result = "rolled_back" =>
        \A cell \in Cells \ theirs :
            (IF cell \in DOMAIN f.captured THEN f.captured[cell] ELSE on[cell])
                = was[cell]

CanBeUndone ==
    \A p \in Appliers : Undoable(pc[p], frame[p], touched[p], host, before[p])

DeploymentInv == Typed /\ JobsInHand /\ CanBeUndone

LEMMA FreshFrames ==
  /\ FreshFrame \in Frames
  /\ \A result \in Results : [FreshFrame EXCEPT !.result = result] \in Frames
  /\ DOMAIN FreshFrame.captured = {} /\ FreshFrame.todo = <<>> /\ FreshFrame.offset = 0
  /\ FreshFrame.removed = {} /\ DOMAIN FreshFrame.desired = {}
  /\ FreshFrame.result = "none"
<1>1. [s \in {} |-> NoRev] \in Desireds
  <2>1. [s \in {} |-> NoRev] \in [{} -> Revs]
    OBVIOUS
  <2>2. QED
    BY <2>1 DEF Desireds
<1>2. [c \in {} |-> <<>>] \in Captures
  <2>1. [c \in {} |-> <<>>] \in [{} -> Texts]
    OBVIOUS
  <2>2. QED
    BY <2>1 DEF Captures
<1>3. <<>> \in Seq(Jobs) /\ <<>> \in Texts /\ 0 \in 0..Len(TaskOrder)
      /\ {} \in SUBSET Slugs /\ "none" \in Results
  <2>1. Len(TaskOrder) \in Nat
    <3>1. TaskOrder \in Seq(Words)
      BY DeploymentAssumption
    <3>2. QED
      BY <3>1
  <2>2. <<>> \in Seq(Jobs) /\ <<>> \in Seq(Lines)
    OBVIOUS
  <2>3. QED
    BY <2>1, <2>2 DEF Texts, Results
<1>4. FreshFrame \in Frames
  BY <1>1, <1>2, <1>3 DEF FreshFrame, Frames
<1>5. QED
  BY <1>4 DEF FreshFrame, Frames

LEMMA DesiredFacts ==
  ASSUME NEW desired \in Desireds
  PROVE  DOMAIN desired \subseteq Slugs /\ \A s \in DOMAIN desired : desired[s] \in Revs
BY DEF Desireds

LEMMA CaptureFacts ==
  ASSUME NEW captured \in Captures
  PROVE  /\ DOMAIN captured \subseteq Cells
         /\ \A c \in DOMAIN captured : captured[c] \in Texts
         /\ \A C \in SUBSET DOMAIN captured : [c \in C |-> captured[c]] \in Captures
<1>1. PICK D \in SUBSET Cells : captured \in [D -> Texts]
  BY DEF Captures
<1>2. ASSUME NEW C \in SUBSET DOMAIN captured PROVE [c \in C |-> captured[c]] \in Captures
  <2>1. C \in SUBSET Cells /\ [c \in C |-> captured[c]] \in [C -> Texts]
    BY <1>1
  <2>2. QED
    BY <2>1 DEF Captures
<1>3. QED
  BY <1>1, <1>2

\* new is old with one more cell, which keeps what it holds if it is there.
Keeps(new, old, cell, text) ==
    /\ new \in Captures /\ DOMAIN new = DOMAIN old \cup {cell}
    /\ \A c \in DOMAIN new : new[c] = IF c \in DOMAIN old THEN old[c] ELSE text

LEMMA CaptureOne ==
  ASSUME NEW captured \in Captures, NEW cell \in Cells, NEW text \in Texts
  PROVE  Keeps(Capture(captured, cell, text), captured, cell, text)
<1>1. CASE cell \in DOMAIN captured
  BY <1>1 DEF Capture, Keeps
<1>2. CASE cell \notin DOMAIN captured
  <2>1. PICK D \in SUBSET Cells : captured \in [D -> Texts]
    BY DEF Captures
  <2> DEFINE g == [c \in DOMAIN captured \cup {cell} |->
                      IF c = cell THEN text ELSE captured[c]]
  <2>2. Capture(captured, cell, text) = g
    BY <1>2 DEF Capture
  <2>3. D \cup {cell} \in SUBSET Cells /\ g \in [D \cup {cell} -> Texts]
    BY <2>1
  <2>4. g \in Captures
    BY <2>3 DEF Captures
  <2>5. QED
    BY <1>2, <2>2, <2>4 DEF Keeps
<1>3. QED
  BY <1>1, <1>2

(***************************************************************************)
(* A step of one applier.                                                   *)
(***************************************************************************)
LEMMA ApplierSteps ==
  ASSUME DeploymentInv, NEW p \in Appliers, NEW step \in Steps, NEW f \in Frames,
         GoTo(p, step, f), InHand(step, f),
         estate' \in [Slugs -> Revs \cup {NoRev}], host' \in [Cells -> Texts],
         installed' \in [Slugs -> Revs \cup {NoRev}],
         before' \in [Appliers -> [Cells -> Texts]],
         touched' \in [Appliers -> SUBSET Cells],
         moved' \in [Appliers -> BOOLEAN], raced' \in BOOLEAN,
         \A q \in Appliers \ {p} :
            /\ before'[q] = before[q] /\ touched[q] \subseteq touched'[q]
            /\ \A cell \in Cells \ touched'[q] : host'[cell] = host[cell],
         Undoable(step, f, touched'[p], host', before'[p])
  PROVE  DeploymentInv'
<1>1. /\ pc' = [pc EXCEPT ![p] = step] /\ frame' = [frame EXCEPT ![p] = f]
      /\ pc \in [Appliers -> Steps] /\ frame \in [Appliers -> Frames]
  BY DEF GoTo, DeploymentInv, Typed
<1>2. /\ pc'[p] = step /\ frame'[p] = f
      /\ \A q \in Appliers \ {p} : pc'[q] = pc[q] /\ frame'[q] = frame[q]
      /\ pc' \in [Appliers -> Steps] /\ frame' \in [Appliers -> Frames]
  BY <1>1
<1>3. Typed'
  BY <1>2 DEF Typed
<1>4. JobsInHand'
  <2>1. ASSUME NEW q \in Appliers PROVE InHand(pc'[q], frame'[q])
    <3>1. CASE q = p
      BY <1>2, <3>1
    <3>2. CASE q # p
      BY <1>2, <3>2 DEF DeploymentInv, JobsInHand
    <3>3. QED
      BY <3>1, <3>2
  <2>2. QED
    BY <2>1 DEF JobsInHand
<1>5. CanBeUndone'
  <2>1. ASSUME NEW q \in Appliers
        PROVE  Undoable(pc'[q], frame'[q], touched'[q], host', before'[q])
    <3>1. CASE q = p
      BY <1>2, <3>1
    <3>2. CASE q # p
      <4>1. Undoable(pc[q], frame[q], touched[q], host, before[q])
        BY DEF DeploymentInv, CanBeUndone
      <4>2. QED
        BY <1>2, <3>2, <4>1 DEF Undoable
    <3>3. QED
      BY <3>1, <3>2
  <2>2. QED
    BY <2>1 DEF CanBeUndone
<1>6. QED
  BY <1>3, <1>4, <1>5 DEF DeploymentInv

-----------------------------------------------------------------------------
\* Plans and pages.

LEMMA HeldSlugs ==
  ASSUME NEW text \in Texts, NEW h \in Held(text)
  PROVE  h.slug \in Slugs
<1>1. PICK r \in FindManagedRegions(text) \cup FindBlockMembers(text) :
          h = [slug |-> r.slug, task |-> r.task]
  BY DEF Held
<1>2. h.slug = r.slug
  BY <1>1
<1>3. CASE r \in FindManagedRegions(text)
  BY <1>2, <1>3, RegionFacts
<1>4. CASE r \in FindBlockMembers(text)
  <2> DEFINE b == BlockBounds(text)
             heads == {i \in At(text, {"member"}) : b.start < i /\ i < b.stop}
             stop(i) == Min({j \in heads : j > i} \cup {b.stop}) - 1
  <2>0. \E i \in heads : r = [slug |-> text[i].slug, task |-> text[i].task, start |-> i,
                              stop |-> stop(i)]
    BY <1>4 DEF FindBlockMembers
  <2>1. PICK i \in At(text, {"member"}) : r.slug = text[i].slug
    <3> HIDE DEF stop
    <3>1. QED
      BY <2>0
  <2>2. text[i] \in Lines /\ text[i].mark = "member"
    BY AtFacts DEF At
  <2>3. QED
    BY <1>2, <2>1, <2>2 DEF Lines, Identifies
<1>5. QED
  BY <1>1, <1>3, <1>4

LEMMA RemovalSlugs ==
  ASSUME NEW on \in [Cells -> Texts], NEW desired
  PROVE  Removals(on, desired) \subseteq Slugs
<1>1. ASSUME NEW e \in RemovalEntries(on, desired) PROVE e.slug \in Slugs
  <2>1. CASE \E cell \in CrontabCells : e \in Held(on[cell])
    BY <2>1, HeldSlugs DEF Cells
  <2>2. CASE \E cell \in FileCells :
                /\ FindManagedRegions(on[cell]) # {}
                /\ e = LET first == FirstOf(FindManagedRegions(on[cell]))
                       IN [slug |-> first.slug, task |-> first.task]
    <3>1. PICK cell \in FileCells :
                /\ FindManagedRegions(on[cell]) # {}
                /\ e = LET first == FirstOf(FindManagedRegions(on[cell]))
                       IN [slug |-> first.slug, task |-> first.task]
      BY <2>2
    <3>2. PICK text \in Texts : text = on[cell]
      BY DEF Cells
    <3>3. \A r \in FindManagedRegions(text) : r.start \in Nat /\ r.slug \in Slugs
      BY RegionFacts, AtFacts
    <3>4. PICK first : first = FirstOf(FindManagedRegions(text))
      OBVIOUS
    <3>5. first \in FindManagedRegions(text)
      BY <3>1, <3>2, <3>3, <3>4, FirstOfFacts
    <3>6. e = [slug |-> first.slug, task |-> first.task]
      BY <3>1, <3>2, <3>4
    <3>7. QED
      BY <3>3, <3>5, <3>6
  <2>3. QED
    BY <2>1, <2>2 DEF RemovalEntries
<1>2. QED
  BY <1>1 DEF Removals

\* Removing s where it may be.
DropOf(s, cell) == [slug |-> s, rev |-> NoRev, cell |-> cell]
Drops(slugs) == {job \in Jobs : job.rev = NoRev /\ job.slug \in slugs}

LEMMA DropJobsFacts ==
  ASSUME NEW slugs \in SUBSET Slugs
  PROVE  /\ DropJobs(slugs) \in Seq(Drops(slugs))
         /\ \A s \in slugs : \A cell \in CellsOf(s) :
               \E i \in DOMAIN DropJobs(slugs) : DropJobs(slugs)[i] = DropOf(s, cell)
<1> DEFINE files(s) == {<<d, s>> : d \in Directories}
           cells(s) == SetToSeq(CrontabCells) \o SetToSeq(files(s))
           jobs(s) == [i \in DOMAIN cells(s) |-> DropOf(s, cells(s)[i])]
           order == SetToSeq(slugs)
           lists == [i \in DOMAIN order |-> jobs(order[i])]
<1>1. IsFiniteSet(CrontabCells) /\ \A s : IsFiniteSet(files(s))
  <2>1. [c \in Crontabs |-> <<c, "crontab">>] \in Surjection(Crontabs, CrontabCells)
    BY DEF Surjection, CrontabCells
  <2>2. \A s : [d \in Directories |-> <<d, s>>] \in Surjection(Directories, files(s))
    BY DEF Surjection
  <2>3. IsFiniteSet(Crontabs) /\ IsFiniteSet(Directories)
    BY DeploymentAssumption
  <2> HIDE DEF files
  <2>4. QED
    BY <2>1, <2>2, <2>3, FS_Surjection
<1>2. /\ order \in Seq(slugs)
      /\ \A s \in slugs : \E i \in DOMAIN order : order[i] = s
  <2>1. IsFiniteSet(slugs)
    BY SlugsFinite, FS_Subset
  <2>2. QED
    BY <2>1, SetToSeqFacts
<1>3. ASSUME NEW s \in slugs
      PROVE  /\ cells(s) \in Seq(CellsOf(s))
             /\ \A cell \in CellsOf(s) : \E i \in DOMAIN cells(s) : cells(s)[i] = cell
  <2>1. PICK C, F : C = CrontabCells /\ F = files(s)
    OBVIOUS
  <2>2. C \subseteq CellsOf(s) /\ F \subseteq CellsOf(s) /\ CellsOf(s) = C \cup F
    BY <2>1 DEF CellsOf
  <2>3. PICK x, y : x = SetToSeq(C) /\ y = SetToSeq(F)
    OBVIOUS
  <2>4. /\ x \in Seq(C) /\ \A c \in C : \E i \in DOMAIN x : x[i] = c
        /\ y \in Seq(F) /\ \A c \in F : \E i \in DOMAIN y : y[i] = c
    <3>1. IsFiniteSet(C) /\ IsFiniteSet(F)
      BY <1>1, <2>1
    <3>2. QED
      BY <2>3, <3>1, SetToSeqFacts
  <2>5. PICK S : S = CellsOf(s)
    OBVIOUS
  <2>6. x \in Seq(S) /\ y \in Seq(S)
    BY <2>2, <2>4, <2>5
  <2>7. x \o y \in Seq(S) /\ Joins(x \o y, x, y)
    BY <2>6, Joined
  <2>8. ASSUME NEW cell \in S PROVE \E i \in DOMAIN (x \o y) : (x \o y)[i] = cell
    <3>1. CASE cell \in C
      <4>1. PICK i \in 1..Len(x) : x[i] = cell
        BY <2>4, <3>1
      <4>2. QED
        BY <2>7, <4>1 DEF Joins
    <3>2. CASE cell \in F
      <4>1. PICK i \in 1..Len(y) : y[i] = cell
        BY <2>4, <3>2
      <4>2. QED
        BY <2>7, <4>1 DEF Joins
    <3>3. QED
      BY <2>2, <2>5, <3>1, <3>2
  <2>9. cells(s) = x \o y
    BY <2>1, <2>3
  <2> HIDE DEF cells
  <2>10. QED
    BY <2>5, <2>7, <2>8, <2>9
<1>4. ASSUME NEW s \in slugs, NEW cell \in CellsOf(s) PROVE DropOf(s, cell) \in Drops(slugs)
  BY <1>4, CellsOfFacts DEF DropOf, Drops, Jobs
<1> HIDE DEF cells
<1>5. ASSUME NEW s \in slugs
      PROVE  /\ jobs(s) \in Seq(Drops(slugs)) /\ DOMAIN jobs(s) = DOMAIN cells(s)
             /\ \A i \in DOMAIN cells(s) : jobs(s)[i] = DropOf(s, cells(s)[i])
  <2>1. PICK S, list : S = CellsOf(s) /\ list = cells(s)
    OBVIOUS
  <2>2. list \in Seq(S)
    BY <1>3, <2>1
  <2>3. PICK D : D = Drops(slugs)
    OBVIOUS
  <2>4. \A i \in DOMAIN list : DropOf(s, list[i]) \in D
    BY <1>4, <2>1, <2>2, <2>3
  <2>5. jobs(s) = [i \in DOMAIN list |-> DropOf(s, list[i])]
    BY <2>1
  <2> HIDE DEF jobs
  <2>6. Len(list) \in Nat /\ DOMAIN list = 1..Len(list)
    BY <2>2
  <2>7. jobs(s) \in Seq(D)
    BY <2>4, <2>5, <2>6
  <2>8. QED
    BY <2>1, <2>3, <2>5, <2>7
<1>6. DropJobs(slugs) = FlattenSeq(lists)
  BY DEF DropJobs, DropOf, cells
<1> HIDE DEF jobs, order
<1>7. PICK S : S = Seq(Drops(slugs))
  OBVIOUS
<1>8. /\ lists \in Seq(S) /\ DOMAIN lists = DOMAIN order
      /\ \A i \in DOMAIN order : lists[i] = jobs(order[i])
  <2>1. Len(order) \in Nat /\ DOMAIN order = 1..Len(order)
    BY <1>2
  <2>2. \A i \in DOMAIN order : order[i] \in slugs
    BY <1>2
  <2>3. \A i \in DOMAIN order : jobs(order[i]) \in S
    BY <1>5, <1>7, <2>2
  <2>4. QED
    BY <2>1, <2>3
<1> HIDE DEF lists
<1>9. PICK D : D = Drops(slugs)
  OBVIOUS
<1>10. /\ FlattenSeq(lists) \in Seq(D)
       /\ \A i \in DOMAIN lists : \A j \in DOMAIN lists[i] :
             \E k \in DOMAIN FlattenSeq(lists) : FlattenSeq(lists)[k] = lists[i][j]
  <2>1. lists \in Seq(Seq(D))
    BY <1>7, <1>8, <1>9
  <2>2. QED
    BY <2>1, FlattenFacts
<1>11. ASSUME NEW s \in slugs, NEW cell \in CellsOf(s)
       PROVE  \E i \in DOMAIN FlattenSeq(lists) : FlattenSeq(lists)[i] = DropOf(s, cell)
  <2>1. PICK i \in DOMAIN order : order[i] = s
    BY <1>2
  <2>2. PICK j \in DOMAIN cells(s) : cells(s)[j] = cell
    BY <1>3
  <2>3. i \in DOMAIN lists /\ j \in DOMAIN lists[i] /\ lists[i][j] = DropOf(s, cell)
    BY <1>5, <1>8, <2>1, <2>2
  <2>4. QED
    BY <1>10, <2>3
<1>12. QED
  BY <1>6, <1>9, <1>10, <1>11

LEMMA PutJobsFacts ==
  ASSUME NEW on \in [Cells -> Texts], NEW desired \in Desireds, ~PlanRaises(on, desired)
  PROVE  /\ PutJobs(on, desired) \in Seq(Jobs)
         /\ \A i \in DOMAIN PutJobs(on, desired) :
               /\ PutJobs(on, desired)[i].slug \in DOMAIN desired
               /\ PutJobs(on, desired)[i].rev # NoRev
<1> DEFINE slugs == Chosen(TaskOrder, Puts(on, desired))
           put(s) == [slug |-> s, rev |-> desired[s], cell |-> CellOf(s, desired[s])]
<1>1. Puts(on, desired) \subseteq DOMAIN desired
  BY DEF Puts
<1>2. ASSUME NEW s \in DOMAIN desired
      PROVE  put(s) \in Jobs /\ put(s).slug = s /\ put(s).rev # NoRev
  <2>1. s \in Slugs /\ desired[s] \in Revs
    BY DesiredFacts
  <2>2. Configured(desired[s])
    BY DEF PlanRaises
  <2>3. NoRev \notin Revs
    BY DeploymentAssumption
  <2>4. QED
    BY <2>1, <2>2, <2>3, CellFacts DEF Jobs
<1>3. slugs \in Seq(Words \cap Puts(on, desired))
  <2>1. TaskOrder \in Seq(Words)
    BY DeploymentAssumption
  <2>2. QED
    BY <2>1, ChosenFacts
<1>4. PutJobs(on, desired) = [i \in DOMAIN slugs |-> put(slugs[i])]
  BY DEF PutJobs
<1> HIDE DEF slugs, put
<1>5. /\ Len(slugs) \in Nat /\ DOMAIN slugs = 1..Len(slugs)
      /\ \A i \in DOMAIN slugs : slugs[i] \in DOMAIN desired
  <2>1. PICK W : W = Words \cap Puts(on, desired)
    OBVIOUS
  <2>2. slugs \in Seq(W) /\ W \subseteq DOMAIN desired
    BY <1>1, <1>3, <2>1
  <2>3. QED
    BY <2>2
<1>6. PICK J : J = Jobs
  OBVIOUS
<1>7. [i \in DOMAIN slugs |-> put(slugs[i])] \in Seq(J)
  BY <1>2, <1>5, <1>6
<1>8. QED
  BY <1>2, <1>4, <1>5, <1>6, <1>7

\* The tasks that are listed.
Active == Chosen(TaskOrder, DOMAIN Wanted)

LEMMA PageFacts ==
  ASSUME NEW offset \in 0..Len(TaskOrder)
  PROVE  /\ Active \in Seq(DOMAIN Wanted) /\ DOMAIN Wanted \subseteq Slugs
         /\ \A s \in DOMAIN Wanted : \E i \in DOMAIN Active : Active[i] = s
         /\ Page(offset) \in Seq(DOMAIN Wanted)
         /\ offset + Len(Page(offset)) \in 0..Len(TaskOrder)
         /\ Page(offset) = <<>> => Len(Active) <= offset
         /\ \A i \in DOMAIN Page(offset) :
               offset + i \in DOMAIN Active /\ Page(offset)[i] = Active[offset + i]
         /\ Page(offset) # <<>> => offset + Len(Page(offset)) <= Len(Active)
         /\ \A i \in 1..Len(Page(offset)) : offset + i \in 1..Len(Active)
<1>1. TaskOrder \in Seq(Words) /\ PageSize \in Nat \ {0} /\ Len(TaskOrder) \in Nat
  <2>1. TaskOrder \in Seq(Words) /\ PageSize \in Nat \ {0}
    BY DeploymentAssumption
  <2>2. QED
    BY <2>1
<1>2. PICK D : D = DOMAIN Wanted
  OBVIOUS
<1>3. D \subseteq Slugs
  BY <1>2 DEF Wanted
<1>4. PICK active : active = Active
  OBVIOUS
<1>5. /\ active \in Seq(D) /\ Len(active) <= Len(TaskOrder)
      /\ \A s \in D : \E i \in DOMAIN active : active[i] = s
  <2>1. PICK W : W = Words \cap D
    OBVIOUS
  <2>2. /\ active \in Seq(W) /\ Len(active) <= Len(TaskOrder)
        /\ \A i \in DOMAIN TaskOrder : TaskOrder[i] \in D =>
              \E j \in DOMAIN active : active[j] = TaskOrder[i]
    BY <1>1, <1>2, <1>4, <2>1, ChosenFacts DEF Active
  <2>3. W \subseteq D
    BY <2>1
  <2>4. \A s \in D : \E i \in DOMAIN TaskOrder : TaskOrder[i] = s
    BY <1>3 DEF Slugs
  <2>5. QED
    BY <2>2, <2>3, <2>4
<1>6. PICK n : n = Len(active)
  OBVIOUS
<1>7. n \in Nat /\ n <= Len(TaskOrder)
  BY <1>5, <1>6
<1>8. PICK last : last = Min({offset + PageSize, n})
  OBVIOUS
<1>9. last \in {offset + PageSize, n} /\ last <= offset + PageSize /\ last <= n
  <2>1. {offset + PageSize, n} \subseteq Nat /\ {offset + PageSize, n} # {}
    BY <1>1, <1>7
  <2>2. QED
    BY <1>8, <2>1, MinOf
<1>10. PICK page : page = SubSeq(active, offset + 1, last)
  OBVIOUS
<1>11. Page(offset) = page
  BY <1>4, <1>6, <1>8, <1>10 DEF Page, Active
<1>12. last \in Int /\ offset \in Nat /\ last \in Nat
  BY <1>1, <1>7, <1>9
<1>13. CASE last <= offset
  <2>1. page = <<>>
    BY <1>5, <1>10, <1>12, <1>13
  <2>2. n <= offset
    BY <1>1, <1>9, <1>12, <1>13
  <2>3. page \in Seq(D) /\ Len(page) = 0 /\ DOMAIN page = {}
    BY <2>1
  <2>4. offset + Len(page) \in 0..Len(TaskOrder)
    BY <1>1, <2>3
  <2>5. \A i \in 1..Len(page) : FALSE
    BY <2>3
  <2>6. QED
    BY <1>2, <1>3, <1>4, <1>5, <1>6, <1>11, <2>1, <2>2, <2>3, <2>4, <2>5
<1>14. CASE last > offset
  <2>1. /\ page \in Seq(D) /\ Len(page) = last - offset
        /\ \A i \in 1..last - offset : page[i] = active[offset + i]
    <3>1. offset + 1 \in Int /\ 1 <= offset + 1 /\ last <= Len(active)
          /\ offset + 1 <= last
      BY <1>6, <1>9, <1>12, <1>14
    <3>2. \A i \in offset + 1..last : active[i] \in D
      BY <1>5, <1>12, <3>1
    <3>3. page \in Seq(D)
      BY <1>5, <1>10, <1>12, <3>1, <3>2, PartOf
    <3>4. Len(page) = last - offset
      BY <1>5, <1>10, <1>12, <3>1
    <3>5. \A i \in 1..last - offset : page[i] = active[offset + i]
      BY <1>5, <1>10, <1>12, <3>1
    <3>6. QED
      BY <3>3, <3>4, <3>5
  <2>2. page # <<>> /\ DOMAIN page = 1..last - offset
    BY <1>12, <1>14, <2>1
  <2>3. offset + Len(page) = last /\ last <= n /\ last \in 0..Len(TaskOrder)
    BY <1>1, <1>7, <1>9, <1>12, <2>1
  <2>4. \A i \in 1..last - offset : offset + i \in 1..n
    BY <1>7, <1>9, <1>12
  <2>5. DOMAIN active = 1..n
    BY <1>5, <1>6
  <2>6. QED
    BY <1>2, <1>3, <1>4, <1>5, <1>6, <1>11, <2>1, <2>2, <2>3, <2>4, <2>5
<1>15. QED
  BY <1>12, <1>13, <1>14

-----------------------------------------------------------------------------
\* The steps.

LEMMA FrameFacts ==
  ASSUME DeploymentInv, NEW p \in Appliers
  PROVE  /\ frame[p] \in Frames /\ pc[p] \in Steps
         /\ frame[p].offset \in 0..Len(TaskOrder) /\ frame[p].desired \in Desireds
         /\ frame[p].todo \in Seq(Jobs) /\ frame[p].removed \in SUBSET Slugs
         /\ frame[p].held \in Texts /\ frame[p].captured \in Captures
         /\ frame[p].result \in Results
         /\ DOMAIN frame[p].captured \subseteq Cells
         /\ InHand(pc[p], frame[p])
         /\ Undoable(pc[p], frame[p], touched[p], host, before[p])
         /\ estate \in [Slugs -> Revs \cup {NoRev}] /\ host \in [Cells -> Texts]
         /\ installed \in [Slugs -> Revs \cup {NoRev}]
         /\ before \in [Appliers -> [Cells -> Texts]]
         /\ touched \in [Appliers -> SUBSET Cells]
         /\ moved \in [Appliers -> BOOLEAN] /\ raced \in BOOLEAN
<1>1. frame[p] \in Frames /\ pc[p] \in Steps
  BY DEF DeploymentInv, Typed
<1>2. /\ frame[p].offset \in 0..Len(TaskOrder) /\ frame[p].desired \in Desireds
      /\ frame[p].todo \in Seq(Jobs) /\ frame[p].removed \in SUBSET Slugs
      /\ frame[p].held \in Texts /\ frame[p].captured \in Captures
      /\ frame[p].result \in Results
  BY <1>1 DEF Frames
<1>3. DOMAIN frame[p].captured \subseteq Cells
  BY <1>2, CaptureFacts
<1>4. QED
  BY <1>1, <1>2, <1>3 DEF DeploymentInv, Typed, JobsInHand, CanBeUndone

\* A step that writes nothing.
LEMMA QuietSteps ==
  ASSUME DeploymentInv, NEW p \in Appliers, NEW step \in Steps, NEW f \in Frames,
         GoTo(p, step, f), InHand(step, f),
         UNCHANGED <<estate, host, Ghosts>>,
         installed' \in [Slugs -> Revs \cup {NoRev}],
         Undoable(step, f, touched[p], host, before[p])
  PROVE  DeploymentInv'
<1>1. /\ estate' = estate /\ host' = host /\ before' = before /\ touched' = touched
      /\ moved' = moved /\ raced' = raced
  BY DEF Ghosts
<1>2. /\ estate' \in [Slugs -> Revs \cup {NoRev}] /\ host' \in [Cells -> Texts]
      /\ before' \in [Appliers -> [Cells -> Texts]]
      /\ touched' \in [Appliers -> SUBSET Cells]
      /\ moved' \in [Appliers -> BOOLEAN] /\ raced' \in BOOLEAN
      /\ Undoable(step, f, touched'[p], host', before'[p])
      /\ \A q \in Appliers \ {p} :
            /\ before'[q] = before[q] /\ touched[q] \subseteq touched'[q]
            /\ \A cell \in Cells \ touched'[q] : host'[cell] = host[cell]
  BY <1>1, FrameFacts
<1>3. QED
  BY <1>2, ApplierSteps

LEMMA EndSteps ==
  ASSUME DeploymentInv, NEW p \in Appliers, NEW result \in Results \ {"rolled_back"},
         EndWith(p, result), UNCHANGED <<estate, host, Ghosts>>,
         installed' \in [Slugs -> Revs \cup {NoRev}]
  PROVE  DeploymentInv'
<1>1. PICK f : f = [FreshFrame EXCEPT !.result = result]
  OBVIOUS
<1>2. f \in Frames /\ "idle" \in Steps /\ GoTo(p, "idle", f) /\ f.result = result
  BY <1>1, FreshFrames DEF Steps, EndWith, FreshFrame
<1>3. InHand("idle", f) /\ Undoable("idle", f, touched[p], host, before[p])
  <2>1. DOMAIN f.captured = {}
    BY <1>1, FreshFrames DEF FreshFrame
  <2>2. QED
    BY <1>2, <2>1 DEF InHand, Undoable
<1>4. QED
  BY <1>2, <1>3, QuietSteps

LEMMA BeginStep ==
  ASSUME DeploymentInv, NEW p \in Appliers, Begin(p)
  PROVE  DeploymentInv'
<1>1. PICK f : f = FreshFrame
  OBVIOUS
<1>2. GoTo(p, "paging", f) /\ f \in Frames /\ "paging" \in Steps /\ InHand("paging", f)
  BY <1>1, FreshFrames DEF Begin, Steps, InHand
<1>3. /\ before' = [before EXCEPT ![p] = host] /\ touched' = [touched EXCEPT ![p] = {}]
      /\ moved' = [moved EXCEPT ![p] = FALSE] /\ raced' = (raced \/ Running)
      /\ estate' = estate /\ host' = host /\ installed' = installed
  BY DEF Begin, Starts
<1>4. /\ before' \in [Appliers -> [Cells -> Texts]] /\ before'[p] = host
      /\ touched' \in [Appliers -> SUBSET Cells]
      /\ moved' \in [Appliers -> BOOLEAN] /\ raced' \in BOOLEAN
      /\ \A q \in Appliers \ {p} : before'[q] = before[q] /\ touched'[q] = touched[q]
  BY <1>3, FrameFacts
<1>5. Undoable("paging", f, touched'[p], host', before'[p])
  BY <1>1, <1>3, <1>4, FreshFrames DEF Undoable
<1>6. QED
  BY <1>2, <1>3, <1>4, <1>5, FrameFacts, ApplierSteps

LEMMA UndeployStep ==
  ASSUME DeploymentInv, NEW p \in Appliers, NEW slugs \in SUBSET Slugs, Undeploy(p, slugs)
  PROVE  DeploymentInv'
<1>1. PICK f : f = [FreshFrame EXCEPT !.todo = DropJobs(slugs), !.result = "removed"]
  OBVIOUS
<1>2. DropJobs(slugs) \in Seq(Jobs)
  <2>1. PICK D : D = Drops(slugs)
    OBVIOUS
  <2>2. DropJobs(slugs) \in Seq(D) /\ D \subseteq Jobs
    BY <2>1, DropJobsFacts DEF Drops
  <2>3. QED
    BY <2>2
<1>3. f \in Frames /\ f.captured = FreshFrame.captured
  <2>1. FreshFrame \in Frames /\ "removed" \in Results
    BY FreshFrames DEF Results
  <2>2. QED
    BY <1>1, <1>2, <2>1 DEF Frames
<1>4. GoTo(p, "apply", f) /\ "apply" \in Steps /\ InHand("apply", f)
  BY <1>1 DEF Undeploy, Steps, InHand
<1>5. /\ before' = [before EXCEPT ![p] = host] /\ touched' = [touched EXCEPT ![p] = {}]
      /\ moved' = [moved EXCEPT ![p] = FALSE] /\ raced' = (raced \/ Running)
      /\ estate' = estate /\ host' = host /\ installed' = installed
  BY DEF Undeploy, Starts
<1>6. /\ before' \in [Appliers -> [Cells -> Texts]] /\ before'[p] = host
      /\ touched' \in [Appliers -> SUBSET Cells]
      /\ moved' \in [Appliers -> BOOLEAN] /\ raced' \in BOOLEAN
      /\ \A q \in Appliers \ {p} : before'[q] = before[q] /\ touched'[q] = touched[q]
  BY <1>5, FrameFacts
<1>7. Undoable("apply", f, touched'[p], host', before'[p])
  BY <1>3, <1>5, <1>6, FreshFrames DEF Undoable
<1>8. QED
  BY <1>3, <1>4, <1>5, <1>6, <1>7, FrameFacts, ApplierSteps

LEMMA ReadPageStep ==
  ASSUME DeploymentInv, NEW p \in Appliers, ReadPage(p)
  PROVE  DeploymentInv'
<1>1. PICK f : f = frame[p]
  OBVIOUS
<1>2. PICK page : page = Page(f.offset)
  OBVIOUS
<1>3. PICK D : D = DOMAIN Wanted
  OBVIOUS
<1>4. /\ f \in Frames /\ f.offset \in 0..Len(TaskOrder) /\ f.desired \in Desireds
      /\ InHand("paging", f) /\ Undoable("paging", f, touched[p], host, before[p])
      /\ pc[p] = "paging" /\ installed \in [Slugs -> Revs \cup {NoRev}]
      /\ UNCHANGED <<estate, host, installed, Ghosts>>
  BY <1>1, FrameFacts DEF ReadPage
<1>5. /\ page \in Seq(D) /\ D \subseteq Slugs
      /\ f.offset + Len(page) \in 0..Len(TaskOrder)
  BY <1>2, <1>3, <1>4, PageFacts
<1>6. \A s \in D : estate[s] \in Revs
  BY <1>3, FrameFacts DEF Wanted
<1>7. CASE page = <<>>
  <2>1. GoTo(p, "plan", f) /\ "plan" \in Steps
    BY <1>1, <1>2, <1>7 DEF ReadPage, Steps
  <2>2. InHand("plan", f) /\ Undoable("plan", f, touched[p], host, before[p])
    BY <1>4 DEF InHand, Undoable
  <2>3. QED
    BY <1>4, <2>1, <2>2, QuietSteps
<1>8. CASE page # <<>>
  <2> DEFINE read == {page[i] : i \in DOMAIN page}
  <2>1. PICK desired : desired = [s \in DOMAIN f.desired \cup read |->
                                     IF s \in read THEN estate[s] ELSE f.desired[s]]
    OBVIOUS
  <2>2. PICK g : g = [f EXCEPT !.offset = f.offset + Len(page), !.desired = desired]
    OBVIOUS
  <2>3. desired \in Desireds
    <3>1. read \subseteq D
      BY <1>5
    <3> HIDE DEF read
    <3>2. PICK E : E = DOMAIN f.desired \cup read
      OBVIOUS
    <3>3. E \in SUBSET Slugs /\ \A s \in E \ read : f.desired[s] \in Revs
      BY <1>4, <1>5, <3>1, <3>2, DesiredFacts
    <3>4. desired \in [E -> Revs]
      BY <1>6, <2>1, <3>1, <3>2, <3>3
    <3>5. QED
      BY <3>3, <3>4 DEF Desireds
  <2>4. GoTo(p, "paging", g) /\ "paging" \in Steps
    <3>1. GoTo(p, "paging", [frame[p] EXCEPT
              !.offset = @ + Len(Page(frame[p].offset)),
              !.desired = [s \in DOMAIN @ \cup {Page(frame[p].offset)[i] :
                                                   i \in DOMAIN Page(frame[p].offset)} |->
                  IF s \in {Page(frame[p].offset)[i] : i \in DOMAIN Page(frame[p].offset)}
                  THEN estate[s] ELSE @[s]]])
      BY <1>1, <1>2, <1>8 DEF ReadPage
    <3>2. GoTo(p, "paging", [f EXCEPT
              !.offset = @ + Len(page),
              !.desired = [s \in DOMAIN @ \cup read |->
                              IF s \in read THEN estate[s] ELSE @[s]]])
      BY <1>1, <1>2, <3>1
    <3>3. [f EXCEPT !.offset = @ + Len(page),
                    !.desired = [s \in DOMAIN @ \cup read |->
                                    IF s \in read THEN estate[s] ELSE @[s]]] = g
      BY <1>4, <2>1, <2>2 DEF Frames
    <3>4. QED
      BY <3>2, <3>3 DEF Steps
  <2>5. g \in Frames /\ g.captured = f.captured /\ g.todo = f.todo /\ g.result = f.result
    BY <1>4, <1>5, <2>2, <2>3 DEF Frames
  <2>6. InHand("paging", g) /\ Undoable("paging", g, touched[p], host, before[p])
    BY <1>4, <2>5 DEF InHand, Undoable
  <2>7. QED
    BY <1>4, <2>4, <2>5, <2>6, QuietSteps
<1>9. QED
  BY <1>7, <1>8

LEMMA MakePlanStep ==
  ASSUME DeploymentInv, NEW p \in Appliers, MakePlan(p)
  PROVE  DeploymentInv'
<1>1. PICK f : f = frame[p]
  OBVIOUS
<1>2. PICK todo : todo = PutJobs(host, f.desired) \o DropJobs(Removals(host, f.desired))
  OBVIOUS
<1>3. /\ f \in Frames /\ f.desired \in Desireds /\ pc[p] = "plan"
      /\ InHand("plan", f) /\ Undoable("plan", f, touched[p], host, before[p])
      /\ UNCHANGED <<estate, host, Ghosts>> /\ installed' \in [Slugs -> Revs \cup {NoRev}]
      /\ host \in [Cells -> Texts]
  BY <1>1, FrameFacts DEF MakePlan
<1>4. CASE PlanRaises(host, f.desired)
  <2>1. EndWith(p, "raised") /\ "raised" \in Results \ {"rolled_back"}
    BY <1>1, <1>4 DEF MakePlan, Results
  <2>2. QED
    BY <1>3, <2>1, EndSteps
<1>5. CASE ~PlanRaises(host, f.desired) /\ todo = <<>>
  <2>1. EndWith(p, "nothing") /\ "nothing" \in Results \ {"rolled_back"}
    BY <1>1, <1>2, <1>5 DEF MakePlan, Results
  <2>2. QED
    BY <1>3, <2>1, EndSteps
<1>6. CASE ~PlanRaises(host, f.desired) /\ todo # <<>>
  <2>1. PICK removed : removed = Removals(host, f.desired)
    OBVIOUS
  <2>2. PICK g : g = [FreshFrame EXCEPT !.todo = todo, !.removed = removed]
    OBVIOUS
  <2>3. GoTo(p, "review", g) /\ "review" \in Steps
    BY <1>1, <1>2, <1>6, <2>1, <2>2 DEF MakePlan, Steps
  <2>4. removed \in SUBSET Slugs
    BY <1>3, <2>1, RemovalSlugs
  <2>5. todo \in Seq(Jobs)
    <3>1. PICK D : D = Drops(removed)
      OBVIOUS
    <3>2. DropJobs(removed) \in Seq(D) /\ D \subseteq Jobs
      BY <2>4, <3>1, DropJobsFacts DEF Drops
    <3>3. PutJobs(host, f.desired) \in Seq(Jobs)
      BY <1>3, <1>6, PutJobsFacts
    <3>4. QED
      BY <1>2, <2>1, <3>2, <3>3
  <2>6. g \in Frames /\ g.captured = FreshFrame.captured /\ g.result = FreshFrame.result
    BY <2>2, <2>4, <2>5, FreshFrames DEF Frames
  <2>7. InHand("review", g)
    BY <2>6, FreshFrames DEF InHand
  <2>8. Undoable("review", g, touched[p], host, before[p])
    BY <1>3, <2>6, FreshFrames DEF InHand, Undoable
  <2>9. QED
    BY <1>3, <2>3, <2>6, <2>7, <2>8, QuietSteps
<1>7. QED
  BY <1>4, <1>5, <1>6

LEMMA ConfirmStep ==
  ASSUME DeploymentInv, NEW p \in Appliers, Confirm(p)
  PROVE  DeploymentInv'
<1>1. PICK f : f = frame[p]
  OBVIOUS
<1>2. /\ f \in Frames /\ pc[p] = "review" /\ InHand("review", f)
      /\ Undoable("review", f, touched[p], host, before[p])
      /\ UNCHANGED <<estate, host, Ghosts>> /\ installed' \in [Slugs -> Revs \cup {NoRev}]
  BY <1>1, FrameFacts DEF Confirm
<1>3. CASE GoTo(p, "install", f)
  <2>1. "install" \in Steps /\ InHand("install", f)
        /\ Undoable("install", f, touched[p], host, before[p])
    BY <1>2 DEF Steps, InHand, Undoable
  <2>2. QED
    BY <1>2, <1>3, <2>1, QuietSteps
<1>4. CASE EndWith(p, "aborted")
  <2>1. "aborted" \in Results \ {"rolled_back"}
    BY DEF Results
  <2>2. QED
    BY <1>2, <1>4, <2>1, EndSteps
<1>5. QED
  BY <1>1, <1>3, <1>4 DEF Confirm

\* The manifests stay typed: what is installed is what is active.
LEMMA ManifestType ==
  ASSUME DeploymentInv, NEW p \in Appliers, NEW slugs
  PROVE  /\ WithManifests(slugs) \in [Slugs -> Revs \cup {NoRev}]
         /\ WithoutManifests(slugs) \in [Slugs -> Revs \cup {NoRev}]
BY FrameFacts DEF WithManifests, WithoutManifests

LEMMA InstallPageStep ==
  ASSUME DeploymentInv, NEW p \in Appliers, InstallPage(p)
  PROVE  DeploymentInv'
<1>1. PICK f : f = frame[p]
  OBVIOUS
<1>2. PICK page : page = Page(f.offset)
  OBVIOUS
<1>3. PICK bad : bad = {i \in DOMAIN page : ~Installable(estate[page[i]])}
  OBVIOUS
<1>4. /\ f \in Frames /\ f.offset \in 0..Len(TaskOrder)
      /\ Undoable("install", f, touched[p], host, before[p]) /\ InHand("install", f)
      /\ pc[p] = "install"
      /\ UNCHANGED <<estate, host, Ghosts>>
  BY <1>1, FrameFacts DEF InstallPage
<1>5. installed' \in [Slugs -> Revs \cup {NoRev}]
  BY ManifestType DEF InstallPage
<1>6. CASE bad # {}
  <2>1. EndWith(p, "raised") /\ "raised" \in Results \ {"rolled_back"}
    BY <1>1, <1>2, <1>3, <1>6 DEF InstallPage, Results
  <2>2. QED
    BY <1>4, <1>5, <2>1, EndSteps
<1>7. CASE bad = {} /\ page = <<>>
  <2>1. PICK g : g = [f EXCEPT !.offset = 0, !.result = "applied"]
    OBVIOUS
  <2>2. GoTo(p, "apply", g) /\ "apply" \in Steps
    BY <1>1, <1>2, <1>3, <1>7, <2>1 DEF InstallPage, Steps
  <2>3. 0 \in 0..Len(TaskOrder) /\ "applied" \in Results
    BY FreshFrames DEF Results, Frames
  <2>4. g \in Frames /\ g.captured = f.captured /\ g.result = "applied"
    BY <1>4, <2>1, <2>3 DEF Frames
  <2>5. InHand("apply", g) /\ Undoable("apply", g, touched[p], host, before[p])
    BY <1>4, <2>4 DEF InHand, Undoable
  <2>6. QED
    BY <1>4, <1>5, <2>2, <2>4, <2>5, QuietSteps
<1>8. CASE bad = {} /\ page # <<>>
  <2>1. PICK g : g = [f EXCEPT !.offset = @ + Len(page)]
    OBVIOUS
  <2>2. GoTo(p, "install", g) /\ "install" \in Steps
    BY <1>1, <1>2, <1>3, <1>8, <2>1 DEF InstallPage, Steps
  <2>3. f.offset + Len(page) \in 0..Len(TaskOrder)
    BY <1>2, <1>4, PageFacts
  <2>4. g \in Frames /\ g.captured = f.captured /\ g.result = f.result
    BY <1>4, <2>1, <2>3 DEF Frames
  <2>5. InHand("install", g) /\ Undoable("install", g, touched[p], host, before[p])
    BY <1>4, <2>4 DEF InHand, Undoable
  <2>6. QED
    BY <1>4, <1>5, <2>2, <2>4, <2>5, QuietSteps
<1>9. QED
  BY <1>6, <1>7, <1>8

LEMMA InstallFailsStep ==
  ASSUME DeploymentInv, NEW p \in Appliers, InstallFails(p)
  PROVE  DeploymentInv'
<1>1. /\ EndWith(p, "raised") /\ "raised" \in Results \ {"rolled_back"}
      /\ UNCHANGED <<estate, host, Ghosts>> /\ installed' \in [Slugs -> Revs \cup {NoRev}]
  BY FrameFacts DEF InstallFails, Results
<1>2. QED
  BY <1>1, EndSteps

LEMMA KillStep ==
  ASSUME DeploymentInv, NEW p \in Appliers, Kill(p)
  PROVE  DeploymentInv'
<1>1. /\ EndWith(p, "killed") /\ "killed" \in Results \ {"rolled_back"}
      /\ UNCHANGED <<estate, host, Ghosts>> /\ installed' \in [Slugs -> Revs \cup {NoRev}]
  BY FrameFacts DEF Kill, Results
<1>2. QED
  BY <1>1, EndSteps

LEMMA FaultStep ==
  ASSUME DeploymentInv, NEW p \in Appliers, Fault(p)
  PROVE  DeploymentInv'
<1>1. PICK f : f = frame[p]
  OBVIOUS
<1>2. /\ f \in Frames /\ pc[p] # "idle" /\ GoTo(p, "restore", f)
      /\ UNCHANGED <<estate, host, Ghosts>> /\ installed' \in [Slugs -> Revs \cup {NoRev}]
      /\ InHand(pc[p], f) /\ Undoable(pc[p], f, touched[p], host, before[p])
  BY <1>1, FrameFacts DEF Fault
<1>3. /\ "restore" \in Steps /\ InHand("restore", f)
      /\ Undoable("restore", f, touched[p], host, before[p])
  BY <1>2 DEF Steps, InHand, Undoable
<1>4. QED
  BY <1>2, <1>3, QuietSteps

LEMMA UninstallStep ==
  ASSUME DeploymentInv, NEW p \in Appliers, Uninstall(p)
  PROVE  DeploymentInv'
<1>1. UNCHANGED <<estate, host, Ghosts>> /\ installed' \in [Slugs -> Revs \cup {NoRev}]
  BY ManifestType, FrameFacts DEF Uninstall
<1>2. \E result \in Results \ {"rolled_back"} : EndWith(p, result)
  <2>1. pc[p] = "apply" /\ frame[p].result \in {"none", "applied", "removed"}
    BY FrameFacts DEF Uninstall, InHand
  <2>2. QED
    BY <2>1 DEF Uninstall, Results
<1>3. QED
  BY <1>1, <1>2, EndSteps

\* The job in hand.
LEMMA HeadFacts ==
  ASSUME NEW todo \in Seq(Jobs), todo # <<>>
  PROVE  /\ Head(todo) \in Jobs /\ Tail(todo) \in Seq(Jobs)
         /\ Head(todo).cell \in Cells /\ Head(todo).slug \in Slugs
         /\ Head(todo).rev \in Revs \cup {NoRev}
<1>1. Head(todo) \in Jobs /\ Tail(todo) \in Seq(Jobs)
  <2>1. PICK J : J = Jobs
    OBVIOUS
  <2>2. todo \in Seq(J)
    BY <2>1
  <2>3. Head(todo) \in J /\ Tail(todo) \in Seq(J)
    BY <2>2
  <2>4. QED
    BY <2>1, <2>3
<1>2. QED
  BY <1>1 DEF Jobs

LEMMA ReadStoreStep ==
  ASSUME DeploymentInv, NEW p \in Appliers, ReadStore(p)
  PROVE  DeploymentInv'
<1>1. PICK f : f = frame[p]
  OBVIOUS
<1>2. PICK job : job = Head(f.todo)
  OBVIOUS
<1>3. PICK text : text = host[job.cell]
  OBVIOUS
<1>4. /\ f \in Frames /\ f.todo \in Seq(Jobs) /\ f.todo # <<>> /\ f.captured \in Captures
      /\ pc[p] = "apply" /\ InHand("apply", f)
      /\ Undoable("apply", f, touched[p], host, before[p])
      /\ UNCHANGED <<estate, host, Ghosts>> /\ installed' \in [Slugs -> Revs \cup {NoRev}]
  BY <1>1, FrameFacts DEF ReadStore
<1>5. job.cell \in Cells /\ Tail(f.todo) \in Seq(Jobs)
  BY <1>2, <1>4, HeadFacts
<1>6. text \in Texts
  BY <1>3, <1>5, FrameFacts
<1>7. PICK captured : captured = Capture(f.captured, job.cell, text)
  OBVIOUS
<1>8. /\ captured \in Captures /\ DOMAIN captured = DOMAIN f.captured \cup {job.cell}
      /\ \A c \in DOMAIN captured :
            captured[c] = IF c \in DOMAIN f.captured THEN f.captured[c] ELSE text
  <2>1. PICK old, cell : old = f.captured /\ cell = job.cell
    OBVIOUS
  <2>2. old \in Captures /\ cell \in Cells /\ captured = Capture(old, cell, text)
    BY <1>4, <1>5, <1>7, <2>1
  <2>3. Keeps(captured, old, cell, text)
    BY <1>6, <2>2, CaptureOne
  <2>4. QED
    BY <2>1, <2>3 DEF Keeps
<1>9. PICK g : g = [f EXCEPT !.captured = captured, !.held = text]
  OBVIOUS
<1>10. /\ g \in Frames /\ g.captured = captured /\ g.held = text /\ g.todo = f.todo
       /\ g.result = f.result
  BY <1>4, <1>6, <1>8, <1>9 DEF Frames
<1>11. \A step : step # "idle" =>
          Undoable(step, g, touched[p], host, before[p])
  BY <1>3, <1>4, <1>8, <1>10 DEF Undoable
<1>12. \/ JobRaises(job, text) /\ GoTo(p, "restore", IF job.rev = NoRev THEN f ELSE g)
       \/ ~JobRaises(job, text) /\ GoTo(p, "apply", [f EXCEPT !.todo = Tail(@)])
       \/ ~JobRaises(job, text) /\ RemovalRaises(job, text) /\ GoTo(p, "restore", g)
       \/ ~JobRaises(job, text) /\ ~RemovalRaises(job, text) /\ GoTo(p, "write", g)
  <2>1. [f EXCEPT !.captured = Capture(@, job.cell, text), !.held = text] = g
    BY <1>4, <1>7, <1>9 DEF Frames
  <2>2. /\ Job(p) = job /\ host[Job(p).cell] = text
        /\ [frame[p] EXCEPT !.captured = Capture(@, Job(p).cell, host[Job(p).cell]),
                            !.held = host[Job(p).cell]] = g
    BY <1>1, <1>2, <1>3, <2>1 DEF Job
  <2>3. IF JobRaises(job, text)
        THEN GoTo(p, "restore", IF job.rev = NoRev THEN f ELSE g)
        ELSE IF job.rev = NoRev /\ ~Present(job, text)
        THEN GoTo(p, "apply", [f EXCEPT !.todo = Tail(@)])
        ELSE GoTo(p, IF RemovalRaises(job, text) THEN "restore" ELSE "write", g)
    BY <1>1, <2>2 DEF ReadStore
  <2>4. QED
    BY <2>3
<1>13. CASE GoTo(p, "restore", f)
  <2>1. "restore" \in Steps /\ InHand("restore", f)
        /\ Undoable("restore", f, touched[p], host, before[p])
    BY <1>4 DEF Steps, InHand, Undoable
  <2>2. QED
    BY <1>4, <1>13, <2>1, QuietSteps
<1>14. CASE GoTo(p, "restore", g)
  <2>1. "restore" \in Steps /\ InHand("restore", g)
    BY <1>4, <1>10 DEF Steps, InHand
  <2>2. QED
    BY <1>4, <1>10, <1>11, <1>14, <2>1, QuietSteps
<1>15. CASE GoTo(p, "apply", [f EXCEPT !.todo = Tail(@)])
  <2>1. PICK h : h = [f EXCEPT !.todo = Tail(@)]
    OBVIOUS
  <2>2. h \in Frames /\ h.captured = f.captured /\ h.result = f.result
    BY <1>4, <1>5, <2>1 DEF Frames
  <2>3. "apply" \in Steps /\ InHand("apply", h)
        /\ Undoable("apply", h, touched[p], host, before[p])
    BY <1>4, <2>2 DEF Steps, InHand, Undoable
  <2>4. QED
    BY <1>4, <1>15, <2>1, <2>2, <2>3, QuietSteps
<1>16. CASE ~JobRaises(job, text) /\ ~RemovalRaises(job, text) /\ GoTo(p, "write", g)
  <2>1. "write" \in Steps /\ InHand("write", g)
    BY <1>2, <1>4, <1>8, <1>10, <1>16 DEF Steps, InHand
  <2>2. QED
    BY <1>4, <1>10, <1>11, <1>16, <2>1, QuietSteps
<1>17. QED
  BY <1>12, <1>13, <1>14, <1>15, <1>16

\* A step of p that writes a cell.
LEMMA WritingSteps ==
  ASSUME DeploymentInv, NEW p \in Appliers, NEW step \in Steps, NEW f \in Frames,
         NEW cell \in Cells, NEW text \in Texts,
         GoTo(p, step, f), InHand(step, f), WriteCell({p}, cell, text),
         UNCHANGED <<estate, installed, before, moved, raced>>,
         Undoable(step, f, touched[p], host', before[p])
  PROVE  DeploymentInv'
<1>1. /\ host' = [host EXCEPT ![cell] = text]
      /\ touched' = [q \in Appliers |->
                        IF {q} = {p} THEN touched[q] ELSE touched[q] \cup {cell}]
  BY DEF WriteCell
<1>2. touched'[p] = touched[p] /\ \A q \in Appliers \ {p} : touched'[q] = touched[q] \cup {cell}
  BY <1>1
<1>3. touched' \in [Appliers -> SUBSET Cells] /\ host' \in [Cells -> Texts]
      /\ \A c \in Cells \ {cell} : host'[c] = host[c]
  BY <1>1, FrameFacts
<1>4. QED
  BY SMTT(60), <1>2, <1>3, FrameFacts, ApplierSteps

LEMMA WriteStoreStep ==
  ASSUME DeploymentInv, NEW p \in Appliers, WriteStore(p)
  PROVE  DeploymentInv'
<1>1. PICK f : f = frame[p]
  OBVIOUS
<1>2. PICK job : job = Head(f.todo)
  OBVIOUS
<1>3. PICK text : text = NewText(job, f.held)
  OBVIOUS
<1>4. /\ f \in Frames /\ f.todo \in Seq(Jobs) /\ f.held \in Texts
      /\ pc[p] = "write" /\ InHand("write", f)
      /\ Undoable("write", f, touched[p], host, before[p])
      /\ UNCHANGED <<estate, installed, before, moved, raced>>
  BY <1>1, FrameFacts DEF WriteStore
<1>5. /\ f.todo # <<>> /\ job.cell \in DOMAIN f.captured /\ f.result # "rolled_back"
      /\ ~JobRaises(job, f.held) /\ ~RemovalRaises(job, f.held)
  BY <1>2, <1>4 DEF InHand
<1>6. job \in Jobs /\ job.cell \in Cells
  BY <1>2, <1>4, <1>5, HeadFacts
<1>7. text \in Texts
  <2>1. Safe(f.held, Lines) /\ MarksOf(job.slug) \subseteq Lines
    BY <1>4 DEF Safe, Texts, MarksOf
  <2>2. QED
    BY <1>3, <1>4, <1>5, <1>6, <2>1, NewTextFacts
<1>8. WriteCell({p}, job.cell, text)
  BY <1>1, <1>2, <1>3 DEF WriteStore, Job
<1>9. host' = [host EXCEPT ![job.cell] = text] /\ host \in [Cells -> Texts]
  BY <1>8, FrameFacts DEF WriteCell
<1>10. ASSUME NEW step, NEW g, g.captured = f.captured
       PROVE  step # "idle" => Undoable(step, g, touched[p], host', before[p])
  BY <1>4, <1>5, <1>9, <1>10 DEF Undoable
<1>11. CASE GoTo(p, "check", [frame[p] EXCEPT !.held = <<>>])
  <2>1. PICK g : g = [f EXCEPT !.held = <<>>]
    OBVIOUS
  <2>2. <<>> \in Texts
    BY DEF Texts
  <2>3. g \in Frames /\ g.captured = f.captured /\ g.todo = f.todo /\ g.result = f.result
    BY <1>4, <2>1, <2>2 DEF Frames
  <2>4. "check" \in Steps /\ InHand("check", g)
    BY <1>4, <2>3 DEF Steps, InHand
  <2>5. GoTo(p, "check", g)
    BY <1>1, <1>11, <2>1
  <2>6. QED
    BY <1>4, <1>6, <1>7, <1>8, <1>10, <2>3, <2>4, <2>5, WritingSteps
<1>12. CASE GoTo(p, "restore", frame[p])
  <2>1. GoTo(p, "restore", f) /\ "restore" \in Steps /\ InHand("restore", f)
    BY <1>1, <1>4, <1>12 DEF Steps, InHand
  <2>2. QED
    BY <1>4, <1>6, <1>7, <1>8, <1>10, <2>1, WritingSteps
<1>13. QED
  BY <1>11, <1>12 DEF WriteStore

LEMMA ReadBackStep ==
  ASSUME DeploymentInv, NEW p \in Appliers, ReadBack(p)
  PROVE  DeploymentInv'
<1>1. PICK f : f = frame[p]
  OBVIOUS
<1>2. /\ f \in Frames /\ f.todo \in Seq(Jobs) /\ f.todo # <<>> /\ pc[p] = "check"
      /\ InHand("check", f) /\ Undoable("check", f, touched[p], host, before[p])
      /\ UNCHANGED <<estate, host, Ghosts>> /\ installed' \in [Slugs -> Revs \cup {NoRev}]
  BY <1>1, FrameFacts DEF ReadBack, InHand
<1>3. PICK g : g = [f EXCEPT !.todo = Tail(@)]
  OBVIOUS
<1>4. GoTo(p, "apply", g) \/ GoTo(p, "restore", f)
  BY <1>1, <1>3 DEF ReadBack
<1>5. g \in Frames /\ g.captured = f.captured /\ g.result = f.result
  <2>1. Tail(f.todo) \in Seq(Jobs)
    BY <1>2, HeadFacts
  <2>2. QED
    BY <1>2, <1>3, <2>1 DEF Frames
<1>6. /\ "apply" \in Steps /\ InHand("apply", g)
      /\ Undoable("apply", g, touched[p], host, before[p])
      /\ "restore" \in Steps /\ InHand("restore", f)
      /\ Undoable("restore", f, touched[p], host, before[p])
  BY <1>2, <1>5 DEF Steps, InHand, Undoable
<1>7. QED
  BY <1>2, <1>4, <1>5, <1>6, QuietSteps

LEMMA RestoreStep ==
  ASSUME DeploymentInv, NEW p \in Appliers, Restore(p)
  PROVE  DeploymentInv'
<1>1. PICK f : f = frame[p]
  OBVIOUS
<1>2. /\ f \in Frames /\ f.captured \in Captures /\ pc[p] = "restore"
      /\ InHand("restore", f) /\ Undoable("restore", f, touched[p], host, before[p])
      /\ UNCHANGED <<estate, installed, before, moved, raced>>
      /\ DOMAIN f.captured \subseteq Cells /\ host \in [Cells -> Texts]
      /\ installed \in [Slugs -> Revs \cup {NoRev}]
  BY <1>1, FrameFacts DEF Restore
<1>3. CASE /\ DOMAIN f.captured = {} /\ EndWith(p, "rolled_back")
           /\ UNCHANGED <<host, touched>>
  <2>1. PICK g : g = [FreshFrame EXCEPT !.result = "rolled_back"]
    OBVIOUS
  <2>2. GoTo(p, "idle", g)
    BY <1>3, <2>1 DEF EndWith
  <2>3. g \in Frames /\ g.captured = FreshFrame.captured /\ "idle" \in Steps
    <3>1. "rolled_back" \in Results /\ "idle" \in Steps
      BY DEF Results, Steps
    <3>2. g \in Frames
      BY <2>1, <3>1, FreshFrames
    <3>3. g.captured = FreshFrame.captured
      BY <2>1 DEF FreshFrame
    <3>4. QED
      BY <3>1, <3>2, <3>3
  <2>4. InHand("idle", g) /\ Undoable("idle", g, touched[p], host, before[p])
    BY <1>2, <1>3, <2>3, FreshFrames DEF InHand, Undoable
  <2>5. UNCHANGED <<estate, host, Ghosts>> /\ installed' \in [Slugs -> Revs \cup {NoRev}]
    BY <1>2, <1>3 DEF Ghosts
  <2>6. QED
    BY <2>2, <2>3, <2>4, <2>5, QuietSteps
<1>4. CASE EndWith(p, "half") /\ UNCHANGED <<host, touched>>
  <2>1. "half" \in Results \ {"rolled_back"}
    BY DEF Results
  <2>2. UNCHANGED <<estate, host, Ghosts>> /\ installed' \in [Slugs -> Revs \cup {NoRev}]
    BY <1>2, <1>4 DEF Ghosts
  <2>3. QED
    BY <1>4, <2>1, <2>2, EndSteps
<1>5. ASSUME NEW cell \in DOMAIN f.captured,
             WriteCell({p}, cell, f.captured[cell]),
             GoTo(p, "restore", [f EXCEPT !.captured =
                [c \in DOMAIN f.captured \ {cell} |-> f.captured[c]]])
      PROVE  DeploymentInv'
  <2>1. PICK captured : captured = [c \in DOMAIN f.captured \ {cell} |-> f.captured[c]]
    OBVIOUS
  <2>2. captured \in Captures /\ f.captured[cell] \in Texts /\ cell \in Cells
    <3>1. DOMAIN f.captured \ {cell} \in SUBSET DOMAIN f.captured
      OBVIOUS
    <3>2. QED
      BY <1>2, <1>5, <2>1, <3>1, CaptureFacts
  <2>3. PICK g : g = [f EXCEPT !.captured = captured]
    OBVIOUS
  <2>4. g \in Frames /\ g.captured = captured /\ g.result = f.result
    BY <1>2, <2>2, <2>3 DEF Frames
  <2>5. GoTo(p, "restore", g) /\ "restore" \in Steps /\ InHand("restore", g)
    BY <1>2, <1>5, <2>1, <2>3, <2>4 DEF Steps, InHand
  <2>6. host' = [host EXCEPT ![cell] = f.captured[cell]]
    BY <1>5 DEF WriteCell
  <2>7. Undoable("restore", g, touched[p], host', before[p])
    BY <1>2, <1>5, <2>1, <2>4, <2>6 DEF Undoable
  <2>8. QED
    BY <1>2, <1>5, <2>2, <2>4, <2>5, <2>7, WritingSteps
<1>6. QED
  BY <1>1, <1>3, <1>4, <1>5 DEF Restore

-----------------------------------------------------------------------------
\* Beside the appliers.

LEMMA PublishStep ==
  ASSUME DeploymentInv, NEW s \in Slugs, NEW rev \in Revs \cup {NoRev}, Publish(s, rev)
  PROVE  DeploymentInv'
<1>1. /\ estate' = [estate EXCEPT ![s] = rev] /\ moved' = [p \in Appliers |-> TRUE]
      /\ raced' = (raced \/ Running)
      /\ UNCHANGED <<host, installed, pc, frame, before, touched>>
  BY DEF Publish
<1>2. Typed'
  <2>1. estate' \in [Slugs -> Revs \cup {NoRev}] /\ moved' \in [Appliers -> BOOLEAN]
        /\ raced' \in BOOLEAN
    BY <1>1 DEF DeploymentInv, Typed, Running
  <2>2. QED
    BY <1>1, <2>1 DEF DeploymentInv, Typed
<1>3. JobsInHand' /\ CanBeUndone'
  BY <1>1 DEF DeploymentInv, JobsInHand, CanBeUndone
<1>4. QED
  BY <1>2, <1>3 DEF DeploymentInv

\* Whoever writes a cell by hand has touched it for every applier.
LEMMA EditByHandStep ==
  ASSUME DeploymentInv, NEW cell \in Cells, NEW text \in Texts, EditByHand(cell, text)
  PROVE  DeploymentInv'
<1>1. /\ host' = [host EXCEPT ![cell] = text]
      /\ touched' = [p \in Appliers |->
                        IF {p} = {} THEN touched[p] ELSE touched[p] \cup {cell}]
      /\ UNCHANGED <<estate, installed, pc, frame, before, moved, raced>>
  BY DEF EditByHand, WriteCell
<1>2. \A p \in Appliers : touched'[p] = touched[p] \cup {cell}
  BY <1>1
<1>3. Typed'
  <2>1. host' \in [Cells -> Texts] /\ touched' \in [Appliers -> SUBSET Cells]
    BY <1>1 DEF DeploymentInv, Typed
  <2>2. QED
    BY <1>1, <2>1 DEF DeploymentInv, Typed
<1>4. JobsInHand'
  BY <1>1 DEF DeploymentInv, JobsInHand
<1>5. CanBeUndone'
  <2>1. ASSUME NEW p \in Appliers
        PROVE  Undoable(pc'[p], frame'[p], touched'[p], host', before'[p])
    <3>1. Undoable(pc[p], frame[p], touched[p], host, before[p])
      BY DEF DeploymentInv, CanBeUndone
    <3>2. \A c \in Cells \ touched'[p] : c \notin touched[p] /\ host'[c] = host[c]
      BY <1>1, <1>2 DEF DeploymentInv, Typed
    <3>3. QED
      BY <1>1, <3>1, <3>2 DEF Undoable
  <2>2. QED
    BY <2>1 DEF CanBeUndone
<1>6. QED
  BY <1>3, <1>4, <1>5 DEF DeploymentInv

LEMMA WithoutLineType ==
  ASSUME NEW text \in Texts, NEW i \in DOMAIN text
  PROVE  WithoutLine(text, i) \in Texts
<1>1. PICK n : n = Len(text)
  OBVIOUS
<1>2. /\ text \in Seq(Lines) /\ n \in Nat /\ i \in 1..n
      /\ \A j \in 1..n : text[j] \in Lines
  BY <1>1 DEF Texts
<1>3. SubSeq(text, 1, i - 1) \in Seq(Lines)
  <2>1. i - 1 \in Int /\ i - 1 <= n /\ \A j \in 1..i - 1 : text[j] \in Lines
    BY <1>2
  <2>2. QED
    BY <1>1, <1>2, <2>1, PartOf
<1>4. SubSeq(text, i + 1, n) \in Seq(Lines)
  <2>1. i + 1 \in Int /\ 1 <= i + 1 /\ \A j \in i + 1..n : text[j] \in Lines
    BY <1>2
  <2>2. QED
    BY <1>1, <1>2, <2>1, PartOf
<1>5. QED
  BY <1>1, <1>3, <1>4 DEF WithoutLine, Texts

LEMMA PlainType == Plain("theirs") \in Lines
<1>1. "plain" \in Marks /\ "theirs" \in Words /\ "" \in Words
  BY DeploymentAssumption DEF Marks
<1>2. QED
  BY <1>1, LineType DEF Plain

LEMMA EditStep ==
  ASSUME DeploymentInv, Edit
  PROVE  DeploymentInv'
<1>1. \E cell \in Cells, text \in Texts : EditByHand(cell, text)
  <2>1. host \in [Cells -> Texts]
    BY DEF DeploymentInv, Typed
  <2>2. CASE \E cell \in Cells : \E i \in DOMAIN host[cell] :
               EditByHand(cell, WithoutLine(host[cell], i))
    <3>1. PICK cell \in Cells : \E i \in DOMAIN host[cell] :
               EditByHand(cell, WithoutLine(host[cell], i))
      BY <2>2
    <3>2. PICK i \in DOMAIN host[cell] : EditByHand(cell, WithoutLine(host[cell], i))
      BY <3>1
    <3>3. PICK text : text = host[cell]
      OBVIOUS
    <3>4. WithoutLine(text, i) \in Texts
      BY <2>1, <3>2, <3>3, WithoutLineType
    <3>5. QED
      BY <3>2, <3>3, <3>4
  <2>3. CASE \E cell \in CrontabCells :
               EditByHand(cell, Append(host[cell], Plain("theirs")))
    <3>1. PICK cell \in CrontabCells :
               EditByHand(cell, Append(host[cell], Plain("theirs")))
      BY <2>3
    <3>2. cell \in Cells /\ host[cell] \in Seq(Lines)
      BY <2>1 DEF Cells, Texts
    <3>3. Append(host[cell], Plain("theirs")) \in Texts
      BY <3>2, PlainType DEF Texts
    <3>4. QED
      BY <3>1, <3>2, <3>3
  <2>4. CASE \E cell \in FileCells : EditByHand(cell, <<Plain("theirs")>>)
    <3>1. <<Plain("theirs")>> \in Texts
      BY PlainType DEF Texts
    <3>2. QED
      BY <2>4, <3>1 DEF Cells
  <2>5. CASE \E cell \in FileCells, name \in Copies :
               EditByHand(<<cell[1], name>>, host[cell])
    <3>1. PICK cell \in FileCells, name \in Copies :
               EditByHand(<<cell[1], name>>, host[cell])
      BY <2>5
    <3>2. host[cell] \in Texts
      BY <2>1 DEF Cells
    <3>3. <<cell[1], name>> \in Cells
      BY DEF Cells, FileCells, Names
    <3>4. QED
      BY <3>1, <3>2, <3>3
  <2>6. QED
    BY <2>2, <2>3, <2>4, <2>5 DEF Edit
<1>2. QED
  BY <1>1, EditByHandStep

-----------------------------------------------------------------------------
\* The invariant holds.

LEMMA EntryRevType ==
  ASSUME host \in [Cells -> Texts], NEW s \in Slugs
  PROVE  EntryRev(s) \in Revs \cup {NoRev}
<1> DEFINE entries == {line \in UNION {Range(host[cell]) : cell \in Cells} :
                          Identifies(line) /\ line.slug = s /\ line.task = s}
<1>1. ASSUME NEW e \in entries PROVE e.rev \in Revs
  <2>1. PICK cell \in Cells : e \in Range(host[cell])
    OBVIOUS
  <2>2. host[cell] \in Seq(Lines)
    BY DEF Texts
  <2>3. e \in Lines
    BY <2>1, <2>2 DEF Range
  <2>4. QED
    BY <2>3 DEF Lines
<1>2. EntryRev(s) = IF entries = {} THEN NoRev ELSE (CHOOSE e \in entries : TRUE).rev
  BY DEF EntryRev
<1> HIDE DEF entries
<1>3. CASE entries = {}
  BY <1>2, <1>3
<1>4. CASE entries # {}
  <2>1. (CHOOSE e \in entries : TRUE) \in entries
    BY <1>4
  <2>2. QED
    BY <1>1, <1>2, <1>4, <2>1
<1>5. QED
  BY <1>3, <1>4

LEMMA InitHolds ==
  ASSUME Init
  PROVE  DeploymentInv
<1>1. estate \in [Slugs -> Revs \cup {NoRev}] /\ host \in [Cells -> Texts]
  BY DeploymentAssumption DEF Init, Texts
<1>2. installed \in [Slugs -> Revs \cup {NoRev}]
  BY <1>1, EntryRevType DEF Init
<1>3. /\ pc = [p \in Appliers |-> "idle"] /\ frame = [p \in Appliers |-> FreshFrame]
      /\ before = [p \in Appliers |-> host] /\ touched = [p \in Appliers |-> {}]
      /\ moved = [p \in Appliers |-> FALSE] /\ raced = FALSE
  BY DEF Init
<1>4. Typed
  <2>1. FreshFrame \in Frames /\ "idle" \in Steps
    BY FreshFrames DEF Steps
  <2>2. QED
    BY <1>1, <1>2, <1>3, <2>1 DEF Typed
<1>5. \A p \in Appliers : pc[p] = "idle" /\ frame[p] = FreshFrame
  BY <1>3
<1>6. InHand("idle", FreshFrame)
  BY FreshFrames DEF InHand
<1>7. \A p \in Appliers : Undoable("idle", FreshFrame, touched[p], host, before[p])
  BY FreshFrames DEF Undoable
<1>8. QED
  BY <1>4, <1>5, <1>6, <1>7 DEF DeploymentInv, JobsInHand, CanBeUndone

LEMMA NextKeeps ==
  ASSUME DeploymentInv, [Next]_vars
  PROVE  DeploymentInv'
<1>1. ASSUME NEW p \in Appliers, Apply(p) PROVE DeploymentInv'
  BY <1>1, BeginStep, UndeployStep, ReadPageStep, MakePlanStep, ConfirmStep,
     InstallPageStep, InstallFailsStep, ReadStoreStep, WriteStoreStep, ReadBackStep,
     FaultStep, RestoreStep, UninstallStep, KillStep DEF Apply
<1>2. CASE UNCHANGED vars
  BY <1>2 DEF vars, DeploymentInv, Typed, JobsInHand, CanBeUndone
<1>3. QED
  BY <1>1, <1>2, PublishStep, EditStep DEF Next

\* The state of a deployment is well formed, an applier never writes what it has
\* not captured nor over a text it could not read, and what it captured undoes
\* what it did, for any number of appliers, capabilities, crontabs, directories
\* and files, whatever they held, and whoever edits them meanwhile.
THEOREM DeploymentSafety == Spec => []DeploymentInv
<1>1. Init => DeploymentInv
  BY InitHolds
<1>2. DeploymentInv /\ [Next]_vars => DeploymentInv'
  BY NextKeeps
<1>3. QED
  BY <1>1, <1>2, PTL DEF Spec

\* The variables of the service and of the host keep their types.
THEOREM TypeCorrect == Spec => []TypeOK
<1>1. DeploymentInv => TypeOK
  <2> SUFFICES ASSUME DeploymentInv PROVE TypeOK
    OBVIOUS
  <2>1. ASSUME NEW p \in Appliers
        PROVE  /\ frame[p].result \in Results
               /\ frame[p].offset \in 0..Len(TaskOrder)
               /\ DOMAIN frame[p].desired \subseteq Slugs
               /\ DOMAIN frame[p].captured \subseteq Cells
               /\ pc[p] \in {"write", "check"} => frame[p].todo # <<>>
    BY FrameFacts, DesiredFacts DEF InHand
  <2>2. QED
    BY <2>1 DEF TypeOK, DeploymentInv, Typed
<1>2. QED
  BY <1>1, DeploymentSafety, PTL

\* A failed apply that reports "Nothing was changed" left every crontab and every
\* file exactly as it was when it began (rule 6 of SchedulerManagement).
THEOREM NothingWasChanged == Spec => []RolledBackRestores
<1>1. DeploymentInv => RolledBackRestores
  <2> SUFFICES ASSUME DeploymentInv, NEW p \in Appliers, Ended(p, "rolled_back")
               PROVE  host = before[p]
    BY DEF RolledBackRestores
  <2>1. /\ pc[p] = "idle" /\ frame[p].result = "rolled_back" /\ touched[p] = {}
        /\ DOMAIN frame[p].captured = {}
        /\ Undoable(pc[p], frame[p], touched[p], host, before[p])
    BY FrameFacts DEF Ended, Alone, InHand
  <2>2. \A cell \in Cells : host[cell] = before[p][cell]
    BY <2>1 DEF Undoable
  <2>3. host \in [Cells -> Texts] /\ before[p] \in [Cells -> Texts]
    BY FrameFacts
  <2>4. QED
    BY <2>2, <2>3
<1>2. QED
  BY <1>1, DeploymentSafety, PTL

(***************************************************************************)
(* Manifests and artefacts.  While the estate does not change under an      *)
(* applier and no second one begins, one at most is on its way.  Where an   *)
(* applier is, it knows which manifests are down and which artefacts are    *)
(* gone.                                                                    *)
(***************************************************************************)

\* A line that makes an artefact where it stands: in a directory only regions
\* count.
Shown(cell, text, i) ==
    \/ text[i].mark = "begin"
    \/ IsCrontab(cell) /\ text[i].mark = "member" /\ Enclosed(text, i)

\* No artefact of s here, nor one that the loss of another line would show.
Bare(cell, text, s) ==
    \A i \in DOMAIN text : Shown(cell, text, i) => text[i] \notin MarksOf(s)

OneAtATime ==
    \A p, q \in Appliers : p # q => pc[p] = "idle" \/ pc[q] = "idle"

\* Without a manifest there is no artefact.
ManifestsStand(inst, on) ==
    \A s \in Slugs : inst[s] = NoRev =>
        \A cell \in CellsOf(s) : Bare(cell, on[cell], s)

ToDo(f, job) == \E i \in DOMAIN f.todo : f.todo[i] = job

\* s has been removed from the cell, or was not there.
Gone(f, s, cell) == s \in f.removed /\ ~ToDo(f, DropOf(s, cell))

\* What is written is wanted; its manifests go down page by page.
Planned(f, wanted) ==
    \A i \in DOMAIN f.todo : IsPut(f.todo[i]) => f.todo[i].slug \in wanted
Installing(f, active, inst) ==
    \A i \in DOMAIN active : i <= f.offset => inst[active[i]] # NoRev
Listed(f, inst) ==
    \A i \in DOMAIN f.todo : IsPut(f.todo[i]) => inst[f.todo[i].slug] # NoRev

\* What is wanted is written before what is not wanted is removed; something may
\* be both, by a file that goes by another name.
PutsFirst(todo) ==
    \A i, j \in DOMAIN todo : i < j /\ IsPut(todo[j]) => IsPut(todo[i])
DropsLast(f) ==
    \A s \in f.removed :
        (\E i \in DOMAIN f.todo : IsPut(f.todo[i]) /\ f.todo[i].slug = s) =>
            \A cell \in CellsOf(s) : ToDo(f, DropOf(s, cell))
Removing(f, on) ==
    /\ PutsFirst(f.todo) /\ DropsLast(f)
    /\ \A s \in f.removed : \A cell \in CellsOf(s) :
          Gone(f, s, cell) => Bare(cell, on[cell], s)

\* What is in hand, and what is captured, shows nothing that is gone.
Holding(f, inst) ==
    \A s \in Slugs :
        /\ Head(f.todo).cell \in CellsOf(s)
        /\ inst[s] = NoRev \/ Gone(f, s, Head(f.todo).cell)
        => Bare(Head(f.todo).cell, f.held, s)
Restoring(f, inst) ==
    \A cell \in DOMAIN f.captured : \A s \in Slugs :
        cell \in CellsOf(s) /\ inst[s] = NoRev => Bare(cell, f.captured[cell], s)

OnItsWay(step, f, wanted, active, inst, on) ==
    /\ step \in {"paging", "plan"} => DOMAIN f.desired \subseteq wanted
    /\ step = "review" => f.offset = 0
    /\ step \in {"review", "install"} => Planned(f, wanted)
    /\ step = "install" => Installing(f, active, inst)
    /\ step \in {"apply", "write", "check"} => Listed(f, inst)
    /\ step \in {"review", "install", "apply", "write", "check"} => Removing(f, on)
    /\ step = "write" => Holding(f, inst)
    /\ Restoring(f, inst)

ManifestInv ==
    raced \/ /\ OneAtATime
             /\ ManifestsStand(installed, host)
             /\ \A p \in Appliers : OnItsWay(pc[p], frame[p], DOMAIN Wanted, Active,
                                             installed, host)

\* In a crontab the lines that may be shown are those of the others.
LEMMA BareSafe ==
  ASSUME NEW cell, IsCrontab(cell), NEW text \in Texts, NEW s
  PROVE  Bare(cell, text, s) <=> Safe(text, Lines \ MarksOf(s))
<1>1. \A i \in DOMAIN text : text[i] \in Lines
  BY DEF Texts
<1>2. QED
  BY <1>1 DEF Bare, Shown, Safe

LEMMA OthersMarks ==
  ASSUME NEW s, NEW t, s # t
  PROVE  MarksOf(t) \subseteq Lines \ MarksOf(s)
BY DEF MarksOf

LEMMA OwnFile ==
  ASSUME NEW s, NEW t, NEW cell \in CellsOf(s), cell \in CellsOf(t), ~IsCrontab(cell)
  PROVE  s = t
BY DEF CellsOf, IsCrontab

\* What a job writes shows nothing of s if the text it read showed nothing, but
\* for what it puts.
LEMMA NewBare ==
  ASSUME NEW job \in Jobs, NEW text \in Texts, NEW s \in Slugs,
         job.cell \in CellsOf(s), Bare(job.cell, text, s),
         ~JobRaises(job, text), ~RemovalRaises(job, text),
         IsPut(job) => job.slug # s
  PROVE  Bare(job.cell, NewText(job, text), s)
<1>1. CASE IsCrontab(job.cell)
  <2>1. PICK G : G = Lines \ MarksOf(s)
    OBVIOUS
  <2>2. Safe(text, G)
    BY <1>1, <2>1, BareSafe
  <2>3. job.rev # NoRev => MarksOf(job.slug) \subseteq G
    BY <2>1, OthersMarks DEF IsPut
  <2>4. NewText(job, text) \in Texts /\ Safe(NewText(job, text), G)
    BY <2>2, <2>3, NewTextFacts
  <2>5. QED
    BY <1>1, <2>1, <2>4, BareSafe
<1>2. CASE ~IsCrontab(job.cell)
  <2>1. job.slug = s
    BY <1>2, OwnFile DEF Jobs
  <2>2. NewText(job, text) = <<>>
    BY <1>2, <2>1 DEF NewText, IsPut
  <2>3. QED
    BY <2>2 DEF Bare
<1>3. QED
  BY <1>1, <1>2

\* What could be read and has nothing to remove shows nothing.
LEMMA MissingBare ==
  ASSUME NEW job \in Jobs, ~IsPut(job), NEW text \in Texts,
         ~JobRaises(job, text), ~Present(job, text)
  PROVE  Bare(job.cell, text, job.slug)
<1>1. RegionsReadable(text) /\ (IsCrontab(job.cell) => BlockClosed(text))
  BY DEF JobRaises, IsPut, BlockReadable
<1>2. ASSUME NEW i \in DOMAIN text, text[i].mark = "begin"
      PROVE  text[i] \notin MarksOf(job.slug)
  <2>1. PICK r \in FindManagedRegions(text) : r.slug = text[i].slug
    BY <1>2, BeginsARegion
  <2>2. r.slug # job.slug
    BY <2>1 DEF Present, HasRegion
  <2>3. QED
    BY <2>1, <2>2 DEF MarksOf
<1>3. ASSUME NEW i \in DOMAIN text, IsCrontab(job.cell), text[i].mark = "member",
             Enclosed(text, i)
      PROVE  text[i] \notin MarksOf(job.slug)
  <2>1. PICK j, k \in DOMAIN text : /\ j < i /\ i < k /\ text[j].mark = "block_begin"
                                    /\ text[k].mark = "block_end"
    BY <1>3 DEF Enclosed
  <2>2. HasBlock(text)
    BY <2>1 DEF HasBlock, At
  <2>3. PICK b : b = BlockBounds(text)
    OBVIOUS
  <2>4. j = b.start /\ k <= b.stop /\ b.stop \in DOMAIN text
    BY <1>1, <1>3, <2>1, <2>2, <2>3, BlockFacts
  <2>5. b.start < i /\ i < b.stop
    BY <2>1, <2>4 DEF Texts
  <2>6. \E m \in FindBlockMembers(text) : m.slug = text[i].slug
    <3>1. i \in {h \in At(text, {"member"}) : b.start < h /\ h < b.stop}
      BY <1>3, <2>5 DEF At
    <3> DEFINE heads == {h \in At(text, {"member"}) : b.start < h /\ h < b.stop}
               stop(h) == Min({g \in heads : g > h} \cup {b.stop}) - 1
               member(h) == [slug |-> text[h].slug, task |-> text[h].task, start |-> h,
                             stop |-> stop(h)]
    <3>2. FindBlockMembers(text) = {member(h) : h \in heads}
      BY <2>2, <2>3 DEF FindBlockMembers
    <3>3. i \in heads /\ member(i).slug = text[i].slug
      BY <3>1
    <3> HIDE DEF heads, member
    <3>4. QED
      BY <3>2, <3>3
  <2>7. ~HasMember(text, job.slug)
    BY <1>3 DEF Present
  <2>8. QED
    BY <2>6, <2>7 DEF HasMember, MarksOf
<1>4. QED
  BY <1>2, <1>3 DEF Bare, Shown

LEMMA VerifiedBare ==
  ASSUME NEW job \in Jobs, ~IsPut(job), NEW on \in [Cells -> Texts], Verified(job, on)
  PROVE  Bare(job.cell, on[job.cell], job.slug)
<1>1. on[job.cell] \in Texts
  BY DEF Jobs
<1>2. CASE IsCrontab(job.cell)
  BY <1>1, <1>2, MissingBare DEF Verified, IsPut
<1>3. CASE ~IsCrontab(job.cell)
  BY <1>3 DEF Verified, IsPut, Bare
<1>4. QED
  BY <1>2, <1>3

\* A line that goes, or a plain one that is added, shows nothing new.
LEMMA WithoutLineBare ==
  ASSUME NEW cell, NEW s, NEW text \in Texts, NEW i \in DOMAIN text, Bare(cell, text, s)
  PROVE  Bare(cell, WithoutLine(text, i), s)
<1>1. PICK n : n = Len(text)
  OBVIOUS
<1>2. PICK new : new = WithoutLine(text, i)
  OBVIOUS
<1>3. n \in Nat /\ i \in 1..n /\ DOMAIN text = 1..n /\ text \in Seq(Lines)
  BY <1>1 DEF Texts
<1> DEFINE old(j) == IF j < i THEN j ELSE j + 1
<1>4. /\ new \in Seq(Lines) /\ Len(new) = n - 1
      /\ \A j \in 1..n - 1 : new[j] = text[old(j)]
  <2>1. PICK a, b : a = SubSeq(text, 1, i - 1) /\ b = SubSeq(text, i + 1, n)
    OBVIOUS
  <2>2. /\ a \in Seq(Lines) /\ Len(a) = i - 1 /\ \A j \in 1..i - 1 : a[j] = text[j]
    BY <1>1, <1>3, <2>1
  <2>3. /\ b \in Seq(Lines) /\ Len(b) = n - i /\ \A j \in 1..n - i : b[j] = text[i + j]
    BY <1>1, <1>3, <2>1
  <2>4. new = a \o b
    BY <1>1, <1>2, <2>1 DEF WithoutLine
  <2>5. new \in Seq(Lines) /\ Len(new) = n - 1
    BY <1>3, <2>2, <2>3, <2>4
  <2>6. ASSUME NEW j \in 1..n - 1 PROVE new[j] = text[old(j)]
    <3>1. CASE j < i
      <4>1. j \in 1..i - 1 /\ new[j] = a[j]
        BY <1>3, <2>2, <2>3, <2>4, <3>1
      <4>2. QED
        BY <2>2, <3>1, <4>1
    <3>2. CASE j >= i
      <4>1. j - (i - 1) \in 1..n - i /\ new[j] = b[j - (i - 1)]
        BY <1>3, <2>2, <2>3, <2>4, <3>2
      <4>2. b[j - (i - 1)] = text[i + (j - (i - 1))] /\ i + (j - (i - 1)) = j + 1
        BY <1>3, <2>3, <4>1
      <4>3. QED
        BY <1>3, <3>2, <4>1, <4>2
    <3>3. QED
      BY <1>3, <3>1, <3>2
  <2>7. QED
    BY <2>5, <2>6
<1>5. DOMAIN new = 1..n - 1
  BY <1>3, <1>4
<1>6. /\ \A j \in 1..n - 1 : old(j) \in 1..n
      /\ \A j, k \in 1..n - 1 : j < k => old(j) < old(k)
  BY <1>3
<1> HIDE DEF old
<1>7. ASSUME NEW j \in DOMAIN new, Enclosed(new, j) PROVE Enclosed(text, old(j))
  BY <1>3, <1>4, <1>5, <1>6, <1>7 DEF Enclosed
<1>8. QED
  BY <1>2, <1>3, <1>4, <1>5, <1>6, <1>7 DEF Bare, Shown

LEMMA AppendBare ==
  ASSUME NEW cell, NEW s, NEW text \in Texts, Bare(cell, text, s)
  PROVE  Bare(cell, Append(text, Plain("theirs")), s)
<1>1. PICK n, new : n = Len(text) /\ new = Append(text, Plain("theirs"))
  OBVIOUS
<1>2. Plain("theirs").mark = "plain"
  BY DEF Plain, Line
<1>3. /\ n \in Nat /\ DOMAIN text = 1..n /\ DOMAIN new = 1..n + 1
      /\ \A i \in 1..n : new[i] = text[i]
      /\ new[n + 1].mark = "plain"
  BY <1>1, <1>2, PlainType DEF Texts
<1>4. ASSUME NEW i \in 1..n, Enclosed(new, i) PROVE Enclosed(text, i)
  <2>1. PICK j, k \in 1..n + 1 : /\ j < i /\ i < k /\ new[j].mark = "block_begin"
                                 /\ new[k].mark = "block_end"
    BY <1>3, <1>4 DEF Enclosed
  <2>2. j \in 1..n /\ k \in 1..n
    BY <1>3, <2>1
  <2>3. QED
    BY <1>3, <2>1, <2>2 DEF Enclosed
<1>5. ASSUME NEW i \in 1..n + 1, Shown(cell, new, i)
      PROVE  i \in 1..n /\ Shown(cell, text, i)
  <2>1. i \in 1..n
    BY <1>3, <1>5 DEF Shown
  <2>2. QED
    BY <1>3, <1>4, <1>5, <2>1 DEF Shown
<1>6. QED
  BY <1>1, <1>3, <1>5 DEF Bare

LEMMA PlainBare ==
  ASSUME NEW cell, NEW s
  PROVE  Bare(cell, <<Plain("theirs")>>, s)
<1>1. Plain("theirs").mark = "plain"
  BY DEF Plain, Line
<1>2. QED
  BY <1>1 DEF Bare, Shown

\* Where no mark is shown nothing is deployed.
LEMMA DeployedShows ==
  ASSUME host \in [Cells -> Texts], NEW s \in Slugs, Deployed(s)
  PROVE  \E cell \in CellsOf(s) : ~Bare(cell, host[cell], s)
<1>1. ASSUME NEW cell \in CellsOf(s), NEW r \in FindManagedRegions(host[cell]),
             r.slug = s, r.task = s
      PROVE  ~Bare(cell, host[cell], s)
  <2>1. PICK text : text = host[cell]
    OBVIOUS
  <2>2. text \in Texts
    BY <2>1, CellsOfFacts
  <2>3. /\ r.start \in DOMAIN text /\ text[r.start].mark = "begin"
        /\ text[r.start].slug = s /\ text[r.start].task = s
    BY <1>1, <2>1, <2>2, RegionFacts
  <2>4. text[r.start] \in MarksOf(s) /\ Shown(cell, text, r.start)
    BY <2>2, <2>3 DEF MarksOf, Identifies, Shown, Texts
  <2>5. QED
    BY <2>1, <2>3, <2>4 DEF Bare
<1>2. ASSUME NEW cell \in CrontabCells, BlockClosed(host[cell]),
             NEW m \in FindBlockMembers(host[cell]), m.slug = s, m.task = s
      PROVE  ~Bare(cell, host[cell], s)
  <2>1. PICK text : text = host[cell]
    OBVIOUS
  <2>2. text \in Texts
    BY <2>1 DEF Cells
  <2>3. PICK b : b = BlockBounds(text)
    OBVIOUS
  <2>4. /\ HasBlock(text) /\ m.start \in DOMAIN text /\ text[m.start].mark = "member"
        /\ text[m.start].slug = s /\ text[m.start].task = s
        /\ m.stop \in Int /\ b.start < m.start /\ m.start <= m.stop /\ m.stop < b.stop
    BY <1>2, <2>1, <2>2, <2>3, MemberFacts
  <2>5. /\ b.start \in DOMAIN text /\ b.stop \in DOMAIN text
        /\ text[b.start].mark = "block_begin" /\ text[b.stop].mark = "block_end"
    BY <1>2, <2>1, <2>2, <2>3, <2>4, BlockFacts
  <2>6. b.start \in Int /\ b.stop \in Int /\ m.start \in Int
    BY <2>2, <2>4, <2>5 DEF Texts
  <2>7. Enclosed(text, m.start)
    BY <2>4, <2>5, <2>6 DEF Enclosed
  <2>8. text[m.start] \in MarksOf(s) /\ Shown(cell, text, m.start)
    BY <2>2, <2>4, <2>7 DEF MarksOf, Identifies, Shown, IsCrontab, Texts
  <2>9. QED
    BY <2>1, <2>4, <2>8 DEF Bare
<1>3. CASE \E cell \in CrontabCells :
              Readable(host[cell]) /\ [slug |-> s, task |-> s] \in Held(host[cell])
  <2>1. PICK cell \in CrontabCells :
              Readable(host[cell]) /\ [slug |-> s, task |-> s] \in Held(host[cell])
    BY <1>3
  <2>2. PICK r \in FindManagedRegions(host[cell]) \cup FindBlockMembers(host[cell]) :
            [slug |-> s, task |-> s] = [slug |-> r.slug, task |-> r.task]
    BY <2>1 DEF Held
  <2>3. r.slug = s /\ r.task = s /\ cell \in CellsOf(s) /\ BlockClosed(host[cell])
    BY <2>1, <2>2 DEF CellsOf, Readable, BlockReadable
  <2>4. QED
    BY <1>1, <1>2, <2>2, <2>3
<1>4. CASE \E d \in Directories :
              \E r \in FindManagedRegions(host[<<d, s>>]) : r.slug = s /\ r.task = s
  BY <1>1, <1>4 DEF CellsOf
<1>5. QED
  BY <1>3, <1>4 DEF Deployed

\* Every host is planned from what stands on it.
LEMMA ManifestInit ==
  ASSUME Init
  PROVE  ManifestInv
<1>1. host \in [Cells -> Texts]
  BY InitHolds DEF DeploymentInv, Typed
<1>2. ASSUME NEW s \in Slugs, installed[s] = NoRev, NEW cell \in CellsOf(s)
      PROVE  Bare(cell, host[cell], s)
  <2> DEFINE entries == {line \in UNION {Range(host[c]) : c \in Cells} :
                            Identifies(line) /\ line.slug = s /\ line.task = s}
  <2>1. entries = {}
    <3>1. EntryRev(s) = NoRev
      BY <1>2 DEF Init
    <3>2. EntryRev(s) = IF entries = {} THEN NoRev ELSE (CHOOSE e \in entries : TRUE).rev
      BY DEF EntryRev
    <3>3. ASSUME NEW e \in entries PROVE e.rev # NoRev
      <4>1. PICK c \in Cells : e \in Range(host[c])
        OBVIOUS
      <4>2. host[c] \in Seq(Lines)
        BY <1>1 DEF Texts
      <4>3. e \in Lines
        BY <4>1, <4>2 DEF Range
      <4>4. QED
        BY <4>3, DeploymentAssumption DEF Lines
    <3> HIDE DEF entries
    <3>4. CASE entries # {}
      <4>1. (CHOOSE e \in entries : TRUE) \in entries
        BY <3>4
      <4>2. QED
        BY <3>1, <3>2, <3>3, <3>4, <4>1
    <3>5. QED
      BY <3>4
  <2>2. cell \in Cells
    BY CellsOfFacts
  <2>3. ASSUME NEW i \in DOMAIN host[cell] PROVE host[cell][i] \notin MarksOf(s)
    <3>1. host[cell][i] \in Range(host[cell])
      BY DEF Range
    <3>2. QED
      BY <2>1, <2>2, <3>1 DEF MarksOf
  <2>4. QED
    BY <2>3 DEF Bare
<1>3. \A p \in Appliers : pc[p] = "idle" /\ frame[p] = FreshFrame
  BY DEF Init
<1>4. OneAtATime
  BY <1>3 DEF OneAtATime
<1>5. OnItsWay("idle", FreshFrame, DOMAIN Wanted, Active, installed, host)
  BY FreshFrames DEF OnItsWay, Restoring
<1>6. QED
  BY <1>2, <1>3, <1>4, <1>5 DEF ManifestInv, ManifestsStand

-----------------------------------------------------------------------------
\* The steps of an applier that is alone on its way.

LEMMA WayFacts ==
  ASSUME DeploymentInv, ManifestInv, ~raced, NEW p \in Appliers
  PROVE  /\ OneAtATime /\ ManifestsStand(installed, host)
         /\ OnItsWay(pc[p], frame[p], DOMAIN Wanted, Active, installed, host)
         /\ pc[p] # "idle" => \A q \in Appliers \ {p} : pc[q] = "idle"
BY DEF ManifestInv, OneAtATime

LEMMA WaySteps ==
  ASSUME DeploymentInv, NEW p \in Appliers, NEW step, NEW f, GoTo(p, step, f),
         \A q \in Appliers \ {p} : pc[q] = "idle",
         UNCHANGED estate, ManifestsStand(installed', host'),
         OnItsWay(step, f, DOMAIN Wanted, Active, installed', host')
  PROVE  ManifestInv'
<1>1. pc' = [pc EXCEPT ![p] = step] /\ frame' = [frame EXCEPT ![p] = f]
      /\ pc \in [Appliers -> Steps] /\ frame \in [Appliers -> Frames]
  BY DEF GoTo, DeploymentInv, Typed
<1>2. /\ pc'[p] = step /\ frame'[p] = f
      /\ \A q \in Appliers \ {p} : pc'[q] = "idle" /\ frame'[q] = frame[q]
  BY <1>1
<1>3. (DOMAIN Wanted)' = DOMAIN Wanted /\ Active' = Active
  BY DEF Wanted, Active
<1>4. ASSUME NEW q \in Appliers
      PROVE  OnItsWay(pc'[q], frame'[q], (DOMAIN Wanted)', Active', installed', host')
  <2>1. CASE q = p
    BY <1>2, <1>3, <2>1
  <2>2. CASE q # p
    <3>1. DOMAIN frame[q].captured = {}
      BY <1>2, <2>2, FrameFacts DEF InHand
    <3>2. QED
      BY <1>2, <2>2, <3>1 DEF OnItsWay, Restoring
  <2>3. QED
    BY <2>1, <2>2
<1>5. OneAtATime'
  BY <1>2 DEF OneAtATime
<1>6. QED
  BY <1>4, <1>5 DEF ManifestInv

\* The end of an applier.
LEMMA WayEnds ==
  ASSUME DeploymentInv, ManifestInv, ~raced, NEW p \in Appliers, pc[p] # "idle",
         NEW result, EndWith(p, result),
         UNCHANGED estate, ManifestsStand(installed', host')
  PROVE  ManifestInv'
<1>1. PICK f : f = [FreshFrame EXCEPT !.result = result]
  OBVIOUS
<1>2. GoTo(p, "idle", f) /\ DOMAIN f.captured = {}
  BY <1>1, FreshFrames DEF EndWith, FreshFrame
<1>3. OnItsWay("idle", f, DOMAIN Wanted, Active, installed', host')
  BY <1>2 DEF OnItsWay, Restoring
<1>4. QED
  BY <1>2, <1>3, WayFacts, WaySteps

\* More manifests are no harm.
LEMMA MoreManifests ==
  ASSUME NEW inst, NEW new, NEW on, NEW f,
         \A s \in Slugs : new[s] = NoRev => inst[s] = NoRev
  PROVE  /\ ManifestsStand(inst, on) => ManifestsStand(new, on)
         /\ Restoring(f, inst) => Restoring(f, new)
BY DEF ManifestsStand, Restoring

LEMMA BeginWay ==
  ASSUME DeploymentInv, ManifestInv, ~raced', NEW p \in Appliers, Begin(p)
  PROVE  ManifestInv'
<1>1. ~raced /\ ~Running /\ UNCHANGED <<estate, host, installed>>
  BY FrameFacts DEF Begin, Starts
<1>2. PICK f : f = FreshFrame
  OBVIOUS
<1>3. GoTo(p, "paging", f) /\ \A q \in Appliers \ {p} : pc[q] = "idle"
  BY <1>1, <1>2 DEF Begin, Running
<1>4. ManifestsStand(installed', host')
  BY <1>1, WayFacts
<1>5. OnItsWay("paging", f, DOMAIN Wanted, Active, installed', host')
  BY <1>2, FreshFrames DEF OnItsWay, Restoring
<1>6. QED
  BY <1>1, <1>3, <1>4, <1>5, WaySteps

LEMMA UndeployWay ==
  ASSUME DeploymentInv, ManifestInv, ~raced', NEW p \in Appliers,
         NEW slugs \in SUBSET Slugs, Undeploy(p, slugs)
  PROVE  ManifestInv'
<1>1. ~raced /\ ~Running /\ UNCHANGED <<estate, host, installed>>
  BY FrameFacts DEF Undeploy, Starts
<1>2. PICK f : f = [FreshFrame EXCEPT !.todo = DropJobs(slugs), !.result = "removed"]
  OBVIOUS
<1>3. GoTo(p, "apply", f) /\ \A q \in Appliers \ {p} : pc[q] = "idle"
  BY <1>1, <1>2 DEF Undeploy, Running
<1>4. ManifestsStand(installed', host')
  BY <1>1, WayFacts
<1>5. /\ f.todo = DropJobs(slugs) /\ f.removed = {} /\ DOMAIN f.captured = {}
  BY <1>2, FreshFrames DEF FreshFrame
<1>6. \A i \in DOMAIN f.todo : ~IsPut(f.todo[i])
  <2>1. PICK D : D = Drops(slugs)
    OBVIOUS
  <2>2. f.todo \in Seq(D)
    BY <1>5, <2>1, DropJobsFacts
  <2>3. QED
    BY <2>1, <2>2 DEF Drops, IsPut
<1>7. Listed(f, installed') /\ Removing(f, host')
  BY <1>5, <1>6 DEF Listed, Removing, PutsFirst, DropsLast
<1>8. OnItsWay("apply", f, DOMAIN Wanted, Active, installed', host')
  BY <1>5, <1>7 DEF OnItsWay, Restoring
<1>9. QED
  BY <1>1, <1>3, <1>4, <1>8, WaySteps

LEMMA ReadPageWay ==
  ASSUME DeploymentInv, ManifestInv, ~raced, NEW p \in Appliers, ReadPage(p)
  PROVE  ManifestInv'
<1>1. PICK f : f = frame[p]
  OBVIOUS
<1>2. PICK page : page = Page(f.offset)
  OBVIOUS
<1>3. PICK D : D = DOMAIN Wanted
  OBVIOUS
<1>4. /\ f \in Frames /\ f.offset \in 0..Len(TaskOrder)
      /\ pc[p] = "paging" /\ UNCHANGED <<estate, host, installed>>
      /\ DOMAIN f.desired \subseteq D /\ Restoring(f, installed)
      /\ \A q \in Appliers \ {p} : pc[q] = "idle"
      /\ ManifestsStand(installed', host')
  BY <1>1, <1>3, FrameFacts, WayFacts DEF ReadPage, OnItsWay
<1>5. page \in Seq(D)
  BY <1>2, <1>3, <1>4, PageFacts
<1>6. CASE page = <<>>
  <2>1. GoTo(p, "plan", f)
    BY <1>1, <1>2, <1>6 DEF ReadPage
  <2>2. OnItsWay("plan", f, D, Active, installed', host')
    BY <1>4 DEF OnItsWay
  <2>3. QED
    BY <1>3, <1>4, <2>1, <2>2, WaySteps
<1>7. CASE page # <<>>
  <2> DEFINE read == {page[i] : i \in DOMAIN page}
  <2>1. PICK desired : desired = [s \in DOMAIN f.desired \cup read |->
                                     IF s \in read THEN estate[s] ELSE f.desired[s]]
    OBVIOUS
  <2>2. PICK g : g = [f EXCEPT !.offset = f.offset + Len(page), !.desired = desired]
    OBVIOUS
  <2>3. GoTo(p, "paging", g)
    <3>1. GoTo(p, "paging", [frame[p] EXCEPT
              !.offset = @ + Len(Page(frame[p].offset)),
              !.desired = [s \in DOMAIN @ \cup {Page(frame[p].offset)[i] :
                                                   i \in DOMAIN Page(frame[p].offset)} |->
                  IF s \in {Page(frame[p].offset)[i] : i \in DOMAIN Page(frame[p].offset)}
                  THEN estate[s] ELSE @[s]]])
      BY <1>1, <1>2, <1>7 DEF ReadPage
    <3>2. GoTo(p, "paging", [f EXCEPT
              !.offset = @ + Len(page),
              !.desired = [s \in DOMAIN @ \cup read |->
                              IF s \in read THEN estate[s] ELSE @[s]]])
      BY <1>1, <1>2, <3>1
    <3>3. [f EXCEPT !.offset = @ + Len(page),
                    !.desired = [s \in DOMAIN @ \cup read |->
                                    IF s \in read THEN estate[s] ELSE @[s]]] = g
      BY <1>4, <2>1, <2>2 DEF Frames
    <3>4. QED
      BY <3>2, <3>3
  <2>4. read \subseteq D
    BY <1>5
  <2> HIDE DEF read
  <2>5. DOMAIN desired \subseteq D
    BY <1>4, <2>1, <2>4
  <2>6. g.desired = desired /\ g.captured = f.captured
    BY <1>4, <2>2 DEF Frames
  <2>7. OnItsWay("paging", g, D, Active, installed', host')
    BY <1>4, <2>5, <2>6 DEF OnItsWay, Restoring
  <2>8. QED
    BY <1>3, <1>4, <2>3, <2>7, WaySteps
<1>8. QED
  BY <1>6, <1>7

\* A plan puts what is wanted first, and then drops what is to be removed from
\* everywhere.
Plans(todo, puts, slugs) ==
    /\ PutsFirst(todo)
    /\ \A i \in DOMAIN todo : IsPut(todo[i]) => \E j \in DOMAIN puts : todo[i] = puts[j]
    /\ \A s \in slugs : \A cell \in CellsOf(s) :
          \E i \in DOMAIN todo : todo[i] = DropOf(s, cell)

LEMMA PlanOrder ==
  ASSUME NEW puts \in Seq(Jobs), NEW slugs \in SUBSET Slugs,
         \A i \in DOMAIN puts : IsPut(puts[i]),
         NEW todo, todo = puts \o DropJobs(slugs)
  PROVE  Plans(todo, puts, slugs)
<1>1. PICK D : D = Drops(slugs)
  OBVIOUS
<1>2. PICK J : J = Jobs
  OBVIOUS
<1>3. PICK drops : drops = DropJobs(slugs)
  OBVIOUS
<1>4. /\ drops \in Seq(D) /\ D \subseteq J /\ \A job \in D : ~IsPut(job)
      /\ \A s \in slugs : \A cell \in CellsOf(s) :
            \E i \in DOMAIN drops : drops[i] = DropOf(s, cell)
  <2>1. drops \in Seq(D)
    BY <1>1, <1>3, DropJobsFacts
  <2>2. D \subseteq J /\ \A job \in D : ~IsPut(job)
    BY <1>1, <1>2 DEF Drops, IsPut
  <2>3. \A s \in slugs : \A cell \in CellsOf(s) :
            \E i \in DOMAIN drops : drops[i] = DropOf(s, cell)
    BY <1>3, DropJobsFacts
  <2>4. QED
    BY <2>1, <2>2, <2>3
<1>5. puts \in Seq(J) /\ drops \in Seq(J)
  BY <1>2, <1>4
<1>6. todo \in Seq(J) /\ Joins(todo, puts, drops)
  BY <1>3, <1>5, Joined
<1>7. PICK a, b : a = Len(puts) /\ b = Len(drops)
  OBVIOUS
<1>8. /\ a \in Nat /\ b \in Nat /\ DOMAIN puts = 1..a /\ DOMAIN drops = 1..b
      /\ DOMAIN todo = 1..a + b
      /\ \A i \in 1..a : todo[i] = puts[i]
      /\ \A i \in a + 1..a + b : todo[i] = drops[i - a]
      /\ \A i \in 1..b : todo[a + i] = drops[i]
  BY <1>5, <1>6, <1>7 DEF Joins
<1>9. \A i \in 1..a + b : IsPut(todo[i]) <=> i <= a
  <2>1. ASSUME NEW i \in 1..a + b, i <= a PROVE IsPut(todo[i])
    BY <1>8, <2>1
  <2>2. ASSUME NEW i \in 1..a + b, i > a PROVE ~IsPut(todo[i])
    <3>1. i - a \in DOMAIN drops /\ todo[i] = drops[i - a]
      BY <1>8, <2>2
    <3>2. drops[i - a] \in D
      BY <1>4, <3>1
    <3>3. QED
      BY <1>4, <3>1, <3>2
  <2>3. QED
    BY <1>8, <2>1, <2>2
<1>10. PutsFirst(todo)
  <2>1. ASSUME NEW i \in 1..a + b, NEW j \in 1..a + b, i < j, IsPut(todo[j])
        PROVE  IsPut(todo[i])
    <3>1. j <= a
      BY <1>9, <2>1
    <3>2. i <= a
      BY <1>8, <2>1, <3>1
    <3>3. QED
      BY <1>9, <3>2
  <2>2. QED
    BY <1>8, <2>1 DEF PutsFirst
<1>11. ASSUME NEW s \in slugs, NEW cell \in CellsOf(s)
       PROVE  \E i \in DOMAIN todo : todo[i] = DropOf(s, cell)
  <2>1. PICK i \in DOMAIN drops : drops[i] = DropOf(s, cell)
    BY <1>4
  <2>2. a + i \in DOMAIN todo /\ todo[a + i] = drops[i]
    BY <1>8, <2>1
  <2>3. QED
    BY <2>1, <2>2
<1>12. ASSUME NEW i \in DOMAIN todo, IsPut(todo[i])
       PROVE  \E j \in DOMAIN puts : todo[i] = puts[j]
  BY <1>8, <1>9, <1>12
<1>13. QED
  BY <1>10, <1>11, <1>12 DEF Plans

LEMMA MakePlanWay ==
  ASSUME DeploymentInv, ManifestInv, ~raced, NEW p \in Appliers, MakePlan(p)
  PROVE  ManifestInv'
<1>1. PICK f : f = frame[p]
  OBVIOUS
<1>2. PICK puts : puts = PutJobs(host, f.desired)
  OBVIOUS
<1>3. PICK removed : removed = Removals(host, f.desired)
  OBVIOUS
<1>4. PICK todo : todo = puts \o DropJobs(removed)
  OBVIOUS
<1>5. /\ f \in Frames /\ f.desired \in Desireds /\ pc[p] = "plan"
      /\ UNCHANGED <<estate, host, installed>> /\ host \in [Cells -> Texts]
      /\ DOMAIN f.desired \subseteq DOMAIN Wanted
      /\ \A q \in Appliers \ {p} : pc[q] = "idle"
      /\ ManifestsStand(installed', host')
  BY <1>1, FrameFacts, WayFacts DEF MakePlan, OnItsWay
<1>6. CASE \E result : EndWith(p, result)
  BY <1>5, <1>6, WayEnds
<1>7. CASE ~PlanRaises(host, f.desired) /\ todo # <<>>
  <2>1. PICK g : g = [FreshFrame EXCEPT !.todo = todo, !.removed = removed]
    OBVIOUS
  <2>2. GoTo(p, "review", g)
    BY <1>1, <1>2, <1>3, <1>4, <1>7, <2>1 DEF MakePlan
  <2>3. /\ g.todo = todo /\ g.removed = removed /\ DOMAIN g.captured = {} /\ g.offset = 0
    BY <2>1, FreshFrames DEF FreshFrame
  <2>4. removed \in SUBSET Slugs
    BY <1>3, <1>5, RemovalSlugs
  <2>5. /\ puts \in Seq(Jobs)
        /\ \A i \in DOMAIN puts : IsPut(puts[i]) /\ puts[i].slug \in DOMAIN Wanted
    BY <1>2, <1>5, <1>7, PutJobsFacts DEF IsPut
  <2>6. /\ PutsFirst(todo)
        /\ \A i \in DOMAIN todo : IsPut(todo[i]) => \E j \in DOMAIN puts : todo[i] = puts[j]
        /\ \A s \in removed : \A cell \in CellsOf(s) :
              \E i \in DOMAIN todo : todo[i] = DropOf(s, cell)
    <3>1. Plans(todo, puts, removed)
      BY <1>4, <2>4, <2>5, PlanOrder
    <3>2. QED
      BY <3>1 DEF Plans
  <2>7. Planned(g, DOMAIN Wanted)
    BY <2>3, <2>5, <2>6 DEF Planned
  <2>8. \A s \in g.removed : \A cell \in CellsOf(s) : ToDo(g, DropOf(s, cell))
    BY <2>3, <2>6 DEF ToDo
  <2>9. Removing(g, host')
    BY <2>3, <2>6, <2>8 DEF Removing, DropsLast, Gone
  <2>10. OnItsWay("review", g, DOMAIN Wanted, Active, installed', host')
    BY <2>3, <2>7, <2>9 DEF OnItsWay, Restoring
  <2>11. QED
    BY <1>5, <2>2, <2>10, WaySteps
<1>8. QED
  <2>1. IF PlanRaises(host, f.desired) THEN EndWith(p, "raised")
        ELSE todo = <<>> => EndWith(p, "nothing")
    BY <1>1, <1>2, <1>3, <1>4 DEF MakePlan
  <2>2. QED
    BY <1>6, <1>7, <2>1

LEMMA ConfirmWay ==
  ASSUME DeploymentInv, ManifestInv, ~raced, NEW p \in Appliers, Confirm(p)
  PROVE  ManifestInv'
<1>1. PICK f : f = frame[p]
  OBVIOUS
<1>2. /\ pc[p] = "review" /\ UNCHANGED <<estate, host, installed>>
      /\ \A q \in Appliers \ {p} : pc[q] = "idle"
      /\ ManifestsStand(installed', host')
      /\ OnItsWay("review", f, DOMAIN Wanted, Active, installed, host)
  BY <1>1, WayFacts DEF Confirm
<1>3. CASE GoTo(p, "install", f)
  <2>1. Installing(f, Active, installed)
    <3>1. \A i \in DOMAIN Active : ~(i <= 0)
      <4>1. Active \in Seq(DOMAIN Wanted)
        BY PageFacts, FrameFacts
      <4>2. QED
        BY <4>1
    <3>2. QED
      BY <1>2, <3>1 DEF OnItsWay, Installing
  <2>2. OnItsWay("install", f, DOMAIN Wanted, Active, installed', host')
    BY <1>2, <2>1 DEF OnItsWay
  <2>3. QED
    BY <1>2, <1>3, <2>2, WaySteps
<1>4. CASE EndWith(p, "aborted")
  BY <1>2, <1>4, WayEnds
<1>5. QED
  BY <1>1, <1>3, <1>4 DEF Confirm

LEMMA InstallPageWay ==
  ASSUME DeploymentInv, ManifestInv, ~raced, NEW p \in Appliers, InstallPage(p)
  PROVE  ManifestInv'
<1>1. PICK f : f = frame[p]
  OBVIOUS
<1>2. PICK page : page = Page(f.offset)
  OBVIOUS
<1>3. PICK bad : bad = {i \in DOMAIN page : ~Installable(estate[page[i]])}
  OBVIOUS
<1>4. PICK good : good = {page[i] : i \in {j \in DOMAIN page : \A k \in bad : j < k}}
  OBVIOUS
<1>5. PICK D : D = DOMAIN Wanted
  OBVIOUS
<1>6. /\ f \in Frames /\ f.offset \in 0..Len(TaskOrder) /\ pc[p] = "install"
      /\ UNCHANGED <<estate, host>>
      /\ \A q \in Appliers \ {p} : pc[q] = "idle"
      /\ ManifestsStand(installed, host)
      /\ OnItsWay("install", f, D, Active, installed, host)
  BY <1>1, <1>5, FrameFacts, WayFacts DEF InstallPage
<1>7. /\ page \in Seq(D) /\ Active \in Seq(D) /\ D \subseteq Slugs
      /\ \A i \in DOMAIN page : f.offset + i \in DOMAIN Active /\ page[i] = Active[f.offset + i]
      /\ page = <<>> => Len(Active) <= f.offset
      /\ \A s \in D : \E i \in DOMAIN Active : Active[i] = s
  BY <1>2, <1>5, <1>6, PageFacts
<1>8. good \subseteq D
  BY <1>4, <1>7
<1>9. installed' = [s \in Slugs |-> IF s \in good THEN estate[s] ELSE installed[s]]
  BY <1>1, <1>2, <1>3, <1>4 DEF InstallPage, WithManifests
<1>10. \A s \in Slugs : installed'[s] = NoRev => installed[s] = NoRev /\ s \notin good
  BY <1>5, <1>8, <1>9 DEF Wanted
<1>11. ManifestsStand(installed', host') /\ Restoring(f, installed')
  BY <1>6, <1>10, MoreManifests DEF OnItsWay
<1>12. CASE bad # {}
  <2>1. EndWith(p, "raised")
    BY <1>1, <1>2, <1>3, <1>12 DEF InstallPage
  <2>2. QED
    BY <1>6, <1>11, <2>1, WayEnds
<1>13. CASE bad = {} /\ page = <<>>
  <2>1. PICK g : g = [f EXCEPT !.offset = 0, !.result = "applied"]
    OBVIOUS
  <2>2. GoTo(p, "apply", g)
    BY <1>1, <1>2, <1>3, <1>13, <2>1 DEF InstallPage
  <2>3. g.captured = f.captured /\ g.todo = f.todo /\ g.removed = f.removed
    BY <1>6, <2>1 DEF Frames
  <2>4. \A s \in D : installed[s] # NoRev
    <3>1. ASSUME NEW s \in D PROVE installed[s] # NoRev
      <4>1. PICK i \in DOMAIN Active : Active[i] = s
        BY <1>7
      <4>2. i <= f.offset
        BY <1>6, <1>7, <1>13
      <4>3. QED
        BY <1>6, <4>1, <4>2 DEF OnItsWay, Installing
    <3>2. QED
      BY <3>1
  <2>5. Listed(g, installed')
    BY <1>6, <1>7, <1>10, <2>3, <2>4 DEF OnItsWay, Planned, Listed
  <2>6. Removing(g, host')
    BY <1>6, <2>3 DEF OnItsWay, Removing, DropsLast, Gone, ToDo
  <2>7. OnItsWay("apply", g, D, Active, installed', host')
    BY <1>11, <2>3, <2>5, <2>6 DEF OnItsWay, Restoring
  <2>8. QED
    BY <1>5, <1>6, <1>11, <2>2, <2>7, WaySteps
<1>14. CASE bad = {} /\ page # <<>>
  <2>1. PICK g : g = [f EXCEPT !.offset = @ + Len(page)]
    OBVIOUS
  <2>2. GoTo(p, "install", g)
    BY <1>1, <1>2, <1>3, <1>14, <2>1 DEF InstallPage
  <2>3. /\ g.captured = f.captured /\ g.todo = f.todo /\ g.removed = f.removed
        /\ g.offset = f.offset + Len(page)
    BY <1>6, <2>1 DEF Frames
  <2>4. ASSUME NEW i \in DOMAIN Active, i <= f.offset + Len(page)
        PROVE  installed'[Active[i]] # NoRev
    <3>0. Active[i] \in Slugs /\ i \in Nat
      BY <1>7
    <3>1. CASE i <= f.offset
      BY <1>6, <1>10, <3>0, <3>1 DEF OnItsWay, Installing
    <3>2. CASE i > f.offset
      <4>1. i - f.offset \in DOMAIN page /\ f.offset + (i - f.offset) = i
        BY <1>6, <1>7, <2>4, <3>0, <3>2
      <4>2. page[i - f.offset] = Active[i]
        BY <1>7, <4>1
      <4>3. Active[i] \in good
        BY <1>4, <1>14, <4>1, <4>2
      <4>4. QED
        BY <1>10, <3>0, <4>3
    <3>3. QED
      BY <1>6, <3>0, <3>1, <3>2
  <2>5. Installing(g, Active, installed')
    BY <2>3, <2>4 DEF Installing
  <2>6. Removing(g, host') /\ Planned(g, D)
    BY <1>6, <2>3 DEF OnItsWay, Removing, DropsLast, Gone, ToDo, Planned
  <2>7. OnItsWay("install", g, D, Active, installed', host')
    BY <1>11, <2>3, <2>5, <2>6 DEF OnItsWay, Restoring
  <2>8. QED
    BY <1>5, <1>6, <1>11, <2>2, <2>7, WaySteps
<1>15. QED
  BY <1>12, <1>13, <1>14

LEMMA InstallFailsWay ==
  ASSUME DeploymentInv, ManifestInv, ~raced, NEW p \in Appliers, InstallFails(p)
  PROVE  ManifestInv'
<1>1. /\ pc[p] # "idle" /\ EndWith(p, "raised") /\ UNCHANGED <<estate, host, installed>>
      /\ ManifestsStand(installed', host')
  BY WayFacts DEF InstallFails
<1>2. QED
  BY <1>1, WayEnds

LEMMA KillWay ==
  ASSUME DeploymentInv, ManifestInv, ~raced, NEW p \in Appliers, Kill(p)
  PROVE  ManifestInv'
<1>1. /\ pc[p] # "idle" /\ EndWith(p, "killed") /\ UNCHANGED <<estate, host, installed>>
      /\ ManifestsStand(installed', host')
  BY WayFacts DEF Kill
<1>2. QED
  BY <1>1, WayEnds

LEMMA FaultWay ==
  ASSUME DeploymentInv, ManifestInv, ~raced, NEW p \in Appliers, Fault(p)
  PROVE  ManifestInv'
<1>1. PICK f : f = frame[p]
  OBVIOUS
<1>2. /\ pc[p] # "idle" /\ GoTo(p, "restore", f) /\ UNCHANGED <<estate, host, installed>>
      /\ \A q \in Appliers \ {p} : pc[q] = "idle"
      /\ ManifestsStand(installed', host') /\ Restoring(f, installed')
  BY <1>1, WayFacts DEF Fault, OnItsWay
<1>3. OnItsWay("restore", f, DOMAIN Wanted, Active, installed', host')
  BY <1>2 DEF OnItsWay
<1>4. QED
  BY <1>2, <1>3, WaySteps

\* The manifests that go are those of artefacts that are gone.
LEMMA UninstallWay ==
  ASSUME DeploymentInv, ManifestInv, ~raced, NEW p \in Appliers, Uninstall(p)
  PROVE  ManifestInv'
<1>1. PICK f : f = frame[p]
  OBVIOUS
<1>2. /\ pc[p] = "apply" /\ f.todo = <<>> /\ f.removed \in SUBSET Slugs
      /\ UNCHANGED <<estate, host>> /\ ManifestsStand(installed, host)
      /\ Removing(f, host)
      /\ installed' = WithoutManifests(f.removed) \/ installed' = installed
  BY <1>1, FrameFacts, WayFacts DEF Uninstall, OnItsWay
<1>3. ManifestsStand(installed', host')
  <2>1. ASSUME NEW s \in Slugs, installed'[s] = NoRev, NEW cell \in CellsOf(s)
        PROVE  Bare(cell, host[cell], s)
    <3>1. CASE installed[s] = NoRev
      BY <1>2, <3>1 DEF ManifestsStand
    <3>2. CASE installed[s] # NoRev
      <4>1. s \in f.removed
        BY <1>2, <2>1, <3>2 DEF WithoutManifests
      <4>2. Gone(f, s, cell)
        BY <1>2, <4>1 DEF Gone, ToDo
      <4>3. QED
        BY <1>2, <4>1, <4>2 DEF Removing
    <3>3. QED
      BY <3>1, <3>2
  <2>2. QED
    BY <1>2, <2>1 DEF ManifestsStand
<1>4. \E result : EndWith(p, result)
  BY DEF Uninstall
<1>5. QED
  BY <1>2, <1>3, <1>4, WayEnds

\* A job is done when it put its artefact, or when nothing is left to remove.
LEMMA JobDone ==
  ASSUME NEW f \in Frames, f.todo # <<>>, NEW on, NEW inst, NEW h,
         h = [f EXCEPT !.todo = Tail(@)],
         Removing(f, on), Listed(f, inst),
         LET job == Head(f.todo)
         IN  IsPut(job) \/ Bare(job.cell, on[job.cell], job.slug)
  PROVE  Removing(h, on) /\ Listed(h, inst)
<1>1. PICK n, todo, tail : n = Len(f.todo) /\ todo = f.todo /\ tail = Tail(f.todo)
  OBVIOUS
<1>2. PICK J : J = Jobs
  OBVIOUS
<1>3. /\ todo \in Seq(J) /\ todo # <<>> /\ h.todo = tail /\ h.removed = f.removed
  BY <1>1, <1>2 DEF Frames
<1>4. /\ n \in Nat \ {0} /\ DOMAIN todo = 1..n /\ DOMAIN tail = 1..n - 1
      /\ \A i \in 1..n - 1 : tail[i] = todo[i + 1]
      /\ Head(todo) = todo[1]
  BY <1>1, <1>3
<1>5. \A i \in DOMAIN tail : i + 1 \in DOMAIN todo /\ tail[i] = todo[i + 1] /\ 1 < i + 1
  BY <1>4
<1>6. Listed(h, inst)
  BY <1>1, <1>3, <1>5 DEF Listed
<1>7. PutsFirst(tail)
  <2>1. ASSUME NEW i \in DOMAIN tail, NEW j \in DOMAIN tail, i < j, IsPut(tail[j])
        PROVE  IsPut(tail[i])
    <3>1. i + 1 < j + 1
      BY <1>4, <2>1
    <3>2. QED
      BY <1>1, <1>5, <2>1, <3>1 DEF Removing, PutsFirst
  <2>2. QED
    BY <2>1 DEF PutsFirst
<1>8. ASSUME NEW job, ToDo(f, job), job # todo[1] PROVE ToDo(h, job)
  <2>1. PICK i \in 1..n : todo[i] = job
    BY <1>1, <1>4, <1>8 DEF ToDo
  <2>2. i - 1 \in 1..n - 1 /\ (i - 1) + 1 = i
    BY <1>4, <1>8, <2>1
  <2>3. tail[i - 1] = job
    BY <1>4, <2>1, <2>2
  <2>4. QED
    BY <1>3, <1>4, <2>2, <2>3 DEF ToDo
<1>9. DropsLast(h)
  <2>1. ASSUME NEW s \in h.removed, NEW i \in DOMAIN h.todo, IsPut(h.todo[i]),
               h.todo[i].slug = s, NEW cell \in CellsOf(s)
        PROVE  ToDo(h, DropOf(s, cell))
    <3>1. i + 1 \in DOMAIN todo /\ IsPut(todo[i + 1]) /\ todo[i + 1].slug = s /\ 1 < i + 1
      BY <1>3, <1>5, <2>1
    <3>2. ToDo(f, DropOf(s, cell))
      BY <1>1, <1>3, <2>1, <3>1 DEF Removing, DropsLast
    <3>3. IsPut(todo[1])
      BY <1>1, <1>4, <3>1 DEF Removing, PutsFirst
    <3>4. ~IsPut(DropOf(s, cell))
      BY DEF IsPut, DropOf
    <3>5. QED
      BY <1>8, <3>2, <3>3, <3>4
  <2>2. QED
    BY <2>1 DEF DropsLast
<1>10. ASSUME NEW s \in h.removed, NEW cell \in CellsOf(s), Gone(h, s, cell)
       PROVE  Bare(cell, on[cell], s)
  <2>1. CASE Gone(f, s, cell)
    BY <1>3, <1>10, <2>1 DEF Removing
  <2>2. CASE ~Gone(f, s, cell)
    <3>1. ToDo(f, DropOf(s, cell))
      BY <1>3, <2>2 DEF Gone
    <3>2. todo[1] = DropOf(s, cell)
      BY <1>8, <1>10, <3>1 DEF Gone
    <3>3. Head(f.todo) = DropOf(s, cell)
      BY <1>1, <1>4, <3>2
    <3>4. QED
      BY <3>3 DEF IsPut, DropOf
  <2>3. QED
    BY <2>1, <2>2
<1>11. QED
  BY <1>3, <1>6, <1>7, <1>9, <1>10 DEF Removing

LEMMA ReadBackWay ==
  ASSUME DeploymentInv, ManifestInv, ~raced, NEW p \in Appliers, ReadBack(p)
  PROVE  ManifestInv'
<1>1. PICK f : f = frame[p]
  OBVIOUS
<1>2. PICK job : job = Head(f.todo)
  OBVIOUS
<1>3. /\ f \in Frames /\ f.todo \in Seq(Jobs) /\ f.todo # <<>> /\ pc[p] = "check"
      /\ UNCHANGED <<estate, host, installed>> /\ host \in [Cells -> Texts]
      /\ \A q \in Appliers \ {p} : pc[q] = "idle"
      /\ ManifestsStand(installed', host') /\ Restoring(f, installed')
      /\ Removing(f, host) /\ Listed(f, installed)
  BY <1>1, FrameFacts, WayFacts DEF ReadBack, InHand, OnItsWay
<1>4. job \in Jobs
  BY <1>2, <1>3, HeadFacts
<1>5. CASE GoTo(p, "restore", f)
  <2>1. OnItsWay("restore", f, DOMAIN Wanted, Active, installed', host')
    BY <1>3 DEF OnItsWay
  <2>2. QED
    BY <1>3, <1>5, <2>1, WaySteps
<1>6. CASE Verified(job, host) /\ GoTo(p, "apply", [f EXCEPT !.todo = Tail(@)])
  <2>1. PICK h : h = [f EXCEPT !.todo = Tail(@)]
    OBVIOUS
  <2>2. IsPut(job) \/ Bare(job.cell, host[job.cell], job.slug)
    BY <1>3, <1>4, <1>6, VerifiedBare
  <2>3. Removing(h, host) /\ Listed(h, installed)
    BY <1>2, <1>3, <2>1, <2>2, JobDone
  <2>4. h.captured = f.captured
    BY <1>3, <2>1 DEF Frames
  <2>5. OnItsWay("apply", h, DOMAIN Wanted, Active, installed', host')
    BY <1>3, <2>3, <2>4 DEF OnItsWay, Restoring
  <2>6. QED
    BY <1>3, <1>6, <2>1, <2>5, WaySteps
<1>7. QED
  BY <1>1, <1>2, <1>5, <1>6 DEF ReadBack, Job

\* What is read shows nothing that is gone, and so what is captured does not.
LEMMA ReadStoreWay ==
  ASSUME DeploymentInv, ManifestInv, ~raced, NEW p \in Appliers, ReadStore(p)
  PROVE  ManifestInv'
<1>1. PICK f : f = frame[p]
  OBVIOUS
<1>2. PICK job : job = Head(f.todo)
  OBVIOUS
<1>3. PICK text : text = host[job.cell]
  OBVIOUS
<1>4. /\ f \in Frames /\ f.todo \in Seq(Jobs) /\ f.todo # <<>> /\ f.captured \in Captures
      /\ pc[p] = "apply" /\ UNCHANGED <<estate, host, installed>>
      /\ \A q \in Appliers \ {p} : pc[q] = "idle"
      /\ ManifestsStand(installed, host) /\ Restoring(f, installed)
      /\ Removing(f, host) /\ Listed(f, installed)
  BY <1>1, FrameFacts, WayFacts DEF ReadStore, OnItsWay
<1>5. job \in Jobs /\ job.cell \in Cells
  BY <1>2, <1>4, HeadFacts
<1>6. text \in Texts
  BY <1>3, <1>5, FrameFacts
<1>7. PICK captured : captured = Capture(f.captured, job.cell, text)
  OBVIOUS
<1>8. PICK g : g = [f EXCEPT !.captured = captured, !.held = text]
  OBVIOUS
<1>9. /\ g.captured = captured /\ g.held = text /\ g.todo = f.todo
      /\ g.removed = f.removed
  BY <1>4, <1>8 DEF Frames
<1>10. Restoring(g, installed)
  <2>1. PICK old, cell : old = f.captured /\ cell = job.cell
    OBVIOUS
  <2>2. old \in Captures /\ cell \in Cells /\ captured = Capture(old, cell, text)
    BY <1>4, <1>5, <1>7, <2>1
  <2>3. Keeps(captured, old, cell, text)
    BY <1>6, <2>2, CaptureOne
  <2>4. ASSUME NEW c \in DOMAIN captured, NEW s \in Slugs, c \in CellsOf(s),
               installed[s] = NoRev
        PROVE  Bare(c, captured[c], s)
    <3>1. CASE c \in DOMAIN old
      BY <1>4, <2>1, <2>3, <2>4, <3>1 DEF Keeps, Restoring
    <3>2. CASE c \notin DOMAIN old
      <4>1. c = cell /\ captured[c] = text
        BY <2>3, <3>2 DEF Keeps
      <4>2. QED
        BY <1>3, <1>4, <2>1, <2>4, <4>1 DEF ManifestsStand
    <3>3. QED
      BY <3>1, <3>2
  <2>5. QED
    BY <1>9, <2>4 DEF Restoring
<1>11. ~IsPut(job) /\ ~Present(job, text) /\ ~JobRaises(job, text) =>
          Bare(job.cell, text, job.slug)
  BY <1>5, <1>6, MissingBare
<1>12. \/ GoTo(p, "restore", f) \/ GoTo(p, "restore", g)
       \/ /\ ~IsPut(job) /\ ~Present(job, text) /\ ~JobRaises(job, text)
          /\ GoTo(p, "apply", [f EXCEPT !.todo = Tail(@)])
       \/ GoTo(p, "write", g)
  <2>1. [f EXCEPT !.captured = Capture(@, job.cell, text), !.held = text] = g
    BY <1>4, <1>7, <1>8 DEF Frames
  <2>2. /\ Job(p) = job /\ host[Job(p).cell] = text
        /\ [frame[p] EXCEPT !.captured = Capture(@, Job(p).cell, host[Job(p).cell]),
                            !.held = host[Job(p).cell]] = g
    BY <1>1, <1>2, <1>3, <2>1 DEF Job
  <2>3. IF JobRaises(job, text)
        THEN GoTo(p, "restore", IF job.rev = NoRev THEN f ELSE g)
        ELSE IF job.rev = NoRev /\ ~Present(job, text)
        THEN GoTo(p, "apply", [f EXCEPT !.todo = Tail(@)])
        ELSE GoTo(p, IF RemovalRaises(job, text) THEN "restore" ELSE "write", g)
    BY <1>1, <2>2 DEF ReadStore
  <2>4. QED
    BY <2>3 DEF IsPut
<1>13. CASE GoTo(p, "restore", f)
  <2>1. OnItsWay("restore", f, DOMAIN Wanted, Active, installed', host')
    BY <1>4 DEF OnItsWay
  <2>2. QED
    BY <1>4, <1>13, <2>1, WaySteps
<1>14. CASE GoTo(p, "restore", g)
  <2>1. OnItsWay("restore", g, DOMAIN Wanted, Active, installed', host')
    BY <1>4, <1>10 DEF OnItsWay
  <2>2. QED
    BY <1>4, <1>14, <2>1, WaySteps
<1>15. CASE /\ ~IsPut(job) /\ ~Present(job, text) /\ ~JobRaises(job, text)
            /\ GoTo(p, "apply", [f EXCEPT !.todo = Tail(@)])
  <2>1. PICK h : h = [f EXCEPT !.todo = Tail(@)]
    OBVIOUS
  <2>2. Bare(job.cell, host[job.cell], job.slug)
    BY <1>3, <1>11, <1>15
  <2>3. Removing(h, host) /\ Listed(h, installed)
    BY <1>2, <1>4, <2>1, <2>2, JobDone
  <2>4. h.captured = f.captured
    BY <1>4, <2>1 DEF Frames
  <2>5. OnItsWay("apply", h, DOMAIN Wanted, Active, installed', host')
    BY <1>4, <2>3, <2>4 DEF OnItsWay, Restoring
  <2>6. QED
    BY <1>4, <1>15, <2>1, <2>5, WaySteps
<1>16. CASE GoTo(p, "write", g)
  <2>1. Removing(g, host) /\ Listed(g, installed)
    BY <1>4, <1>9 DEF Removing, DropsLast, Gone, ToDo, Listed
  <2>2. Holding(g, installed)
    <3>1. ASSUME NEW s \in Slugs, job.cell \in CellsOf(s),
                 installed[s] = NoRev \/ Gone(g, s, job.cell)
          PROVE  Bare(job.cell, text, s)
      BY <1>3, <1>4, <1>9, <2>1, <3>1 DEF ManifestsStand, Removing, Gone
    <3>2. QED
      BY <1>2, <1>9, <3>1 DEF Holding
  <2>3. OnItsWay("write", g, DOMAIN Wanted, Active, installed', host')
    BY <1>4, <1>10, <2>1, <2>2 DEF OnItsWay
  <2>4. QED
    BY <1>4, <1>16, <2>3, WaySteps
<1>17. QED
  BY <1>12, <1>13, <1>14, <1>15, <1>16

\* What is written shows what was in hand and, if it puts an artefact, the one
\* whose manifest is down.
LEMMA WriteStoreWay ==
  ASSUME DeploymentInv, ManifestInv, ~raced, NEW p \in Appliers, WriteStore(p)
  PROVE  ManifestInv'
<1>1. PICK f : f = frame[p]
  OBVIOUS
<1>2. PICK job : job = Head(f.todo)
  OBVIOUS
<1>3. PICK new : new = NewText(job, f.held)
  OBVIOUS
<1>4. /\ f \in Frames /\ f.todo \in Seq(Jobs) /\ f.held \in Texts
      /\ pc[p] = "write" /\ UNCHANGED <<estate, installed>> /\ InHand("write", f)
      /\ \A q \in Appliers \ {p} : pc[q] = "idle"
      /\ ManifestsStand(installed, host) /\ Restoring(f, installed)
      /\ Removing(f, host) /\ Listed(f, installed) /\ Holding(f, installed)
  BY <1>1, FrameFacts, WayFacts DEF WriteStore, OnItsWay
<1>5. /\ f.todo # <<>> /\ ~JobRaises(job, f.held) /\ ~RemovalRaises(job, f.held)
  BY <1>2, <1>4 DEF InHand
<1>6. job \in Jobs /\ job.cell \in Cells /\ 1 \in DOMAIN f.todo /\ job = f.todo[1]
  BY <1>2, <1>4, <1>5, HeadFacts
<1>7. host' = [host EXCEPT ![job.cell] = new] /\ host \in [Cells -> Texts]
  BY <1>1, <1>2, <1>3, FrameFacts DEF WriteStore, WriteCell, Job
<1>8. ASSUME NEW s \in Slugs, job.cell \in CellsOf(s),
             installed[s] = NoRev \/ Gone(f, s, job.cell)
      PROVE  Bare(job.cell, new, s)
  <2>1. Bare(job.cell, f.held, s)
    BY <1>2, <1>4, <1>8 DEF Holding
  <2>2. IsPut(job) => job.slug # s
    <3>1. SUFFICES ASSUME IsPut(job), job.slug = s PROVE FALSE
      OBVIOUS
    <3>2. installed[s] # NoRev
      BY <1>4, <1>6, <3>1 DEF Listed
    <3>3. s \in f.removed /\ ~ToDo(f, DropOf(s, job.cell))
      BY <1>8, <3>2 DEF Gone
    <3>4. QED
      BY <1>4, <1>6, <1>8, <3>1, <3>3 DEF Removing, DropsLast
  <2>3. QED
    BY <1>3, <1>4, <1>5, <1>6, <1>8, <2>1, <2>2, NewBare
<1>9. ManifestsStand(installed', host')
  <2>1. ASSUME NEW s \in Slugs, installed[s] = NoRev, NEW cell \in CellsOf(s)
        PROVE  Bare(cell, host'[cell], s)
    <3>1. cell \in Cells
      BY CellsOfFacts
    <3>2. CASE cell = job.cell
      BY <1>7, <1>8, <2>1, <3>1, <3>2
    <3>3. CASE cell # job.cell
      BY <1>4, <1>7, <2>1, <3>1, <3>3 DEF ManifestsStand
    <3>4. QED
      BY <3>2, <3>3
  <2>2. QED
    BY <1>4, <2>1 DEF ManifestsStand
<1>10. CASE GoTo(p, "restore", f)
  <2>1. OnItsWay("restore", f, DOMAIN Wanted, Active, installed', host')
    BY <1>4 DEF OnItsWay
  <2>2. QED
    BY <1>4, <1>9, <1>10, <2>1, WaySteps
<1>11. CASE GoTo(p, "check", [f EXCEPT !.held = <<>>])
  <2>1. PICK g : g = [f EXCEPT !.held = <<>>]
    OBVIOUS
  <2>2. g.captured = f.captured /\ g.todo = f.todo /\ g.removed = f.removed
    BY <1>4, <2>1 DEF Frames
  <2>3. ASSUME NEW s \in g.removed, NEW cell \in CellsOf(s), Gone(g, s, cell)
        PROVE  Bare(cell, host'[cell], s)
    <3>1. Gone(f, s, cell) /\ s \in Slugs
      BY <1>4, <2>2, <2>3 DEF Gone, ToDo, Frames
    <3>2. cell \in Cells
      BY <3>1, CellsOfFacts
    <3>3. CASE cell = job.cell
      BY <1>7, <1>8, <2>3, <3>1, <3>2, <3>3
    <3>4. CASE cell # job.cell
      BY <1>4, <1>7, <2>2, <2>3, <3>1, <3>2, <3>4 DEF Removing
    <3>5. QED
      BY <3>3, <3>4
  <2>4. Removing(g, host')
    BY <1>4, <2>2, <2>3 DEF Removing, DropsLast, ToDo
  <2>5. Listed(g, installed')
    BY <1>4, <2>2 DEF Listed
  <2>6. OnItsWay("check", g, DOMAIN Wanted, Active, installed', host')
    BY <1>4, <2>2, <2>4, <2>5 DEF OnItsWay, Restoring
  <2>7. QED
    BY <1>4, <1>9, <1>11, <2>1, <2>6, WaySteps
<1>12. QED
  BY <1>1, <1>10, <1>11 DEF WriteStore

LEMMA RestoreWay ==
  ASSUME DeploymentInv, ManifestInv, ~raced, NEW p \in Appliers, Restore(p)
  PROVE  ManifestInv'
<1>1. PICK f : f = frame[p]
  OBVIOUS
<1>2. /\ f \in Frames /\ f.captured \in Captures /\ pc[p] = "restore"
      /\ UNCHANGED <<estate, installed>>
      /\ DOMAIN f.captured \subseteq Cells /\ host \in [Cells -> Texts]
      /\ \A q \in Appliers \ {p} : pc[q] = "idle"
      /\ ManifestsStand(installed, host) /\ Restoring(f, installed)
  BY <1>1, FrameFacts, WayFacts DEF Restore, OnItsWay
<1>3. CASE \E result : EndWith(p, result) /\ UNCHANGED host
  BY <1>2, <1>3, WayEnds
<1>4. ASSUME NEW cell \in DOMAIN f.captured,
             WriteCell({p}, cell, f.captured[cell]),
             GoTo(p, "restore", [f EXCEPT !.captured =
                [c \in DOMAIN f.captured \ {cell} |-> f.captured[c]]])
      PROVE  ManifestInv'
  <2>1. PICK captured : captured = [c \in DOMAIN f.captured \ {cell} |-> f.captured[c]]
    OBVIOUS
  <2>2. PICK g : g = [f EXCEPT !.captured = captured]
    OBVIOUS
  <2>3. g.captured = captured
    BY <1>2, <2>2 DEF Frames
  <2>4. host' = [host EXCEPT ![cell] = f.captured[cell]]
    BY <1>4 DEF WriteCell
  <2>5. ManifestsStand(installed', host')
    <3>1. ASSUME NEW s \in Slugs, installed[s] = NoRev, NEW c \in CellsOf(s)
          PROVE  Bare(c, host'[c], s)
      <4>1. c \in Cells
        BY CellsOfFacts
      <4>2. CASE c = cell
        BY <1>2, <2>4, <3>1, <4>1, <4>2 DEF Restoring
      <4>3. CASE c # cell
        BY <1>2, <2>4, <3>1, <4>1, <4>3 DEF ManifestsStand
      <4>4. QED
        BY <4>2, <4>3
    <3>2. QED
      BY <1>2, <3>1 DEF ManifestsStand
  <2>6. Restoring(g, installed')
    BY <1>2, <2>1, <2>3 DEF Restoring
  <2>7. OnItsWay("restore", g, DOMAIN Wanted, Active, installed', host')
    BY <2>6 DEF OnItsWay
  <2>8. GoTo(p, "restore", g)
    BY <1>4, <2>1, <2>2
  <2>9. QED
    BY <1>2, <2>5, <2>7, <2>8, WaySteps
<1>5. QED
  BY <1>1, <1>3, <1>4 DEF Restore

-----------------------------------------------------------------------------
\* Beside the applier.

LEMMA PublishWay ==
  ASSUME DeploymentInv, ManifestInv, ~raced', NEW s \in Slugs,
         NEW rev \in Revs \cup {NoRev}, Publish(s, rev)
  PROVE  ManifestInv'
<1>1. /\ ~raced /\ ~Running /\ UNCHANGED <<host, installed, pc, frame>>
  BY DEF Publish, DeploymentInv, Typed
<1>2. OneAtATime /\ ManifestsStand(installed, host)
  BY <1>1 DEF ManifestInv
<1>3. ASSUME NEW p \in Appliers
      PROVE  OnItsWay(pc[p], frame[p], (DOMAIN Wanted)', Active', installed, host)
  <2>1. pc[p] = "idle"
    BY <1>1 DEF Running
  <2>2. DOMAIN frame[p].captured = {}
    BY <2>1, FrameFacts DEF InHand
  <2>3. QED
    BY <2>1, <2>2 DEF OnItsWay, Restoring
<1>4. QED
  BY <1>1, <1>2, <1>3 DEF ManifestInv, OneAtATime

\* What shows nothing of s goes on showing nothing of s.
LEMMA EditByHandWay ==
  ASSUME DeploymentInv, ManifestInv, ~raced, NEW cell \in Cells, NEW text \in Texts,
         EditByHand(cell, text),
         \A s \in Slugs : cell \in CellsOf(s) /\ Bare(cell, host[cell], s) =>
                             Bare(cell, text, s)
  PROVE  ManifestInv'
<1>1. /\ host' = [host EXCEPT ![cell] = text] /\ host \in [Cells -> Texts]
      /\ UNCHANGED <<estate, installed, pc, frame>>
  BY DEF EditByHand, WriteCell, DeploymentInv, Typed
<1>2. ASSUME NEW s \in Slugs, NEW c \in CellsOf(s), Bare(c, host[c], s)
      PROVE  Bare(c, host'[c], s)
  <2>1. c \in Cells
    BY CellsOfFacts
  <2>2. QED
    BY <1>1, <1>2, <2>1
<1>3. ManifestsStand(installed', host')
  BY <1>1, <1>2 DEF ManifestInv, ManifestsStand
<1>4. (DOMAIN Wanted)' = DOMAIN Wanted /\ Active' = Active
  BY <1>1 DEF Wanted, Active
<1>5. ASSUME NEW p \in Appliers
      PROVE  OnItsWay(pc[p], frame[p], DOMAIN Wanted, Active, installed', host')
  <2>1. PICK f : f = frame[p]
    OBVIOUS
  <2>2. /\ OnItsWay(pc[p], f, DOMAIN Wanted, Active, installed, host)
        /\ f.removed \in SUBSET Slugs
    BY <2>1, WayFacts, FrameFacts
  <2>3. Removing(f, host) => Removing(f, host')
    BY <1>2, <2>2 DEF Removing
  <2>4. QED
    BY <1>1, <2>1, <2>2, <2>3 DEF OnItsWay
<1>6. OneAtATime'
  BY <1>1 DEF ManifestInv, OneAtATime
<1>7. QED
  BY <1>1, <1>3, <1>4, <1>5, <1>6 DEF ManifestInv

LEMMA EditWay ==
  ASSUME DeploymentInv, ManifestInv, ~raced, Edit
  PROVE  ManifestInv'
<1>1. host \in [Cells -> Texts]
  BY DEF DeploymentInv, Typed
<1>2. CASE \E cell \in Cells : \E i \in DOMAIN host[cell] :
             EditByHand(cell, WithoutLine(host[cell], i))
  <2>1. PICK cell \in Cells : \E i \in DOMAIN host[cell] :
             EditByHand(cell, WithoutLine(host[cell], i))
    BY <1>2
  <2>2. PICK i \in DOMAIN host[cell] : EditByHand(cell, WithoutLine(host[cell], i))
    BY <2>1
  <2>3. PICK text : text = host[cell]
    OBVIOUS
  <2>4. PICK new : new = WithoutLine(text, i)
    OBVIOUS
  <2>5. text \in Texts /\ i \in DOMAIN text
    BY <1>1, <2>2, <2>3
  <2>6. new \in Texts /\ \A s : Bare(cell, text, s) => Bare(cell, new, s)
    BY <2>4, <2>5, WithoutLineType, WithoutLineBare
  <2>7. QED
    BY <2>2, <2>3, <2>4, <2>6, EditByHandWay
<1>3. CASE \E cell \in CrontabCells :
             EditByHand(cell, Append(host[cell], Plain("theirs")))
  <2>1. PICK cell \in CrontabCells :
             EditByHand(cell, Append(host[cell], Plain("theirs")))
    BY <1>3
  <2>2. cell \in Cells /\ host[cell] \in Texts
    BY <1>1, <2>1 DEF Cells
  <2>3. Append(host[cell], Plain("theirs")) \in Texts
    BY <2>2, PlainType DEF Texts
  <2>4. \A s : Bare(cell, host[cell], s) => Bare(cell, Append(host[cell], Plain("theirs")), s)
    BY <2>2, AppendBare
  <2>5. QED
    BY <2>1, <2>2, <2>3, <2>4, EditByHandWay
<1>4. CASE \E cell \in FileCells : EditByHand(cell, <<Plain("theirs")>>)
  <2>1. PICK cell \in FileCells : EditByHand(cell, <<Plain("theirs")>>)
    BY <1>4
  <2>2. cell \in Cells /\ <<Plain("theirs")>> \in Texts
    BY PlainType DEF Cells, Texts
  <2>3. QED
    BY <2>1, <2>2, PlainBare, EditByHandWay
<1>5. CASE \E cell \in FileCells, name \in Copies :
             EditByHand(<<cell[1], name>>, host[cell])
  <2>1. PICK cell \in FileCells, name \in Copies :
             EditByHand(<<cell[1], name>>, host[cell])
    BY <1>5
  <2>2. PICK copy : copy = <<cell[1], name>>
    OBVIOUS
  <2>3. copy \in Cells /\ host[cell] \in Texts
    BY <1>1, <2>2 DEF Cells, FileCells, Names
  <2>4. \A s \in Slugs : copy \notin CellsOf(s)
    <3>1. cell[1] \in Directories /\ name \notin Slugs
      BY DeploymentAssumption DEF FileCells
    <3>2. cell[1] \notin Crontabs
      BY <3>1, DeploymentAssumption
    <3>3. QED
      BY <2>2, <3>1, <3>2 DEF CellsOf, CrontabCells
  <2>5. QED
    BY <2>1, <2>2, <2>3, <2>4, EditByHandWay
<1>6. QED
  BY <1>2, <1>3, <1>4, <1>5 DEF Edit

LEMMA ManifestNext ==
  ASSUME DeploymentInv, ManifestInv, [Next]_vars
  PROVE  ManifestInv'
<1>1. CASE raced'
  BY <1>1 DEF ManifestInv
<1>2. CASE ~raced'
  <2>1. ~raced
    <3>1. raced => raced'
      BY DEF Next, vars, Apply, Begin, Undeploy, Starts, Running, ReadPage, MakePlan,
             Confirm, InstallPage, InstallFails, ReadStore, WriteStore, ReadBack, Fault,
             Restore, Uninstall, Kill, Ghosts, Publish, Edit, EditByHand
    <3>2. QED
      BY <1>2, <3>1
  <2>2. ASSUME NEW p \in Appliers, Apply(p) PROVE ManifestInv'
    BY <1>2, <2>1, <2>2, BeginWay, UndeployWay, ReadPageWay, MakePlanWay, ConfirmWay,
       InstallPageWay, InstallFailsWay, ReadStoreWay, WriteStoreWay, ReadBackWay,
       FaultWay, RestoreWay, UninstallWay, KillWay DEF Apply
  <2>3. CASE UNCHANGED vars
    BY <2>3 DEF vars, ManifestInv, OneAtATime, Wanted, Active
  <2>4. QED
    BY <1>2, <2>1, <2>2, <2>3, PublishWay, EditWay DEF Next
<1>3. QED
  BY <1>1, <1>2

\* The definition goes down before the artefact that runs it and leaves after it,
\* through failures, rollbacks, deaths and edits by hand: no artefact stands
\* without its manifest, unless a capability changed under a running apply.
THEOREM NoArtefactWithoutManifest == Spec => []ManifestFirst
<1>1. Init => ManifestInv
  BY ManifestInit
<1>2. DeploymentInv /\ ManifestInv /\ [Next]_vars => ManifestInv'
  BY ManifestNext
<1>3. DeploymentInv /\ ManifestInv => ManifestFirst
  <2>1. ASSUME DeploymentInv, ManifestInv, ~raced, NEW s \in Slugs, Deployed(s)
        PROVE  installed[s] # NoRev
    <3>1. \E cell \in CellsOf(s) : ~Bare(cell, host[cell], s)
      BY <2>1, FrameFacts, DeployedShows DEF DeploymentInv, Typed
    <3>2. QED
      BY <2>1, <3>1 DEF ManifestInv, ManifestsStand
  <2>2. QED
    BY <2>1 DEF ManifestFirst
<1>4. QED
  BY <1>1, <1>2, <1>3, DeploymentSafety, PTL DEF Spec

(***************************************************************************)
(* What others wrote.  From its plan on, an applier changes a crontab only  *)
(* between texts in order, of which those lines are the same, and a file    *)
(* only if it is nobody else's.                                             *)
(***************************************************************************)

Busy == {"review", "install", "apply", "write", "check", "restore"}

\* A crontab in which every region and member that says it is of a task of ours
\* is that task's, and the block has no second one.
Regular(text) == Apart(text) /\ Attributed(text)

\* A file that carries a region.
Owned(text) == RegionsReadable(text) /\ FindManagedRegions(text) # {}

CrontabStands(step, todo, cell, text, was) ==
    Regular(was) =>
        /\ Sound(was) /\ Sound(text) /\ Unmanaged(text) = Unmanaged(was)
        /\ step # "restore" =>
              \A i \in DOMAIN todo : IsPut(todo[i]) /\ todo[i].cell = cell =>
                  OwnFirst(Kind(text, todo[i].rev), todo[i].slug)

FileStands(step, todo, cell, text, was) ==
    /\ text = was \/ text = <<>> \/ Owned(text)
    /\ step # "restore" =>
          \A i \in DOMAIN todo : IsPut(todo[i]) /\ todo[i].cell = cell =>
              text = <<>> \/ Owned(text)

\* What was read is still there.
Reads(step, todo, held, cell, text) ==
    step = "write" /\ Head(todo).cell = cell =>
        held = text /\ (~IsPut(Head(todo)) => Present(Head(todo), held))

Stands(step, f, cell, text, was) ==
    /\ IF IsCrontab(cell) THEN CrontabStands(step, f.todo, cell, text, was)
       ELSE FileStands(step, f.todo, cell, text, was)
    /\ Reads(step, f.todo, f.held, cell, text)

LeftAlone(step, f, theirs, on, was) ==
    step \in Busy =>
        /\ PutsFirst(f.todo)
        /\ \A cell \in Cells \ theirs : Stands(step, f, cell, on[cell], was[cell])

AloneInv ==
    \A p \in Appliers : LeftAlone(pc[p], frame[p], touched[p], host, before[p])

LEMMA AloneSteps ==
  ASSUME DeploymentInv, AloneInv, NEW p \in Appliers, NEW step, NEW f, GoTo(p, step, f),
         \A q \in Appliers \ {p} :
            /\ before'[q] = before[q] /\ touched[q] \subseteq touched'[q]
            /\ \A cell \in Cells \ touched'[q] : host'[cell] = host[cell],
         LeftAlone(step, f, touched'[p], host', before'[p])
  PROVE  AloneInv'
<1>1. /\ pc'[p] = step /\ frame'[p] = f
      /\ \A q \in Appliers \ {p} : pc'[q] = pc[q] /\ frame'[q] = frame[q]
  BY DEF GoTo, DeploymentInv, Typed
<1>2. ASSUME NEW q \in Appliers
      PROVE  LeftAlone(pc'[q], frame'[q], touched'[q], host', before'[q])
  <2>1. CASE q = p
    BY <1>1, <2>1
  <2>2. CASE q # p
    <3>1. LeftAlone(pc[q], frame[q], touched[q], host, before[q])
      BY DEF AloneInv
    <3>2. /\ pc'[q] = pc[q] /\ frame'[q] = frame[q] /\ before'[q] = before[q]
          /\ \A cell \in Cells \ touched'[q] :
                cell \in Cells \ touched[q] /\ host'[cell] = host[cell]
      BY <1>1, <2>2
    <3>3. QED
      BY <3>1, <3>2 DEF LeftAlone
  <2>3. QED
    BY <2>1, <2>2
<1>3. QED
  BY <1>2 DEF AloneInv

\* A step that writes nothing.
LEMMA AloneQuiet ==
  ASSUME DeploymentInv, AloneInv, NEW p \in Appliers, NEW step, NEW f, GoTo(p, step, f),
         UNCHANGED <<host, Ghosts>>, LeftAlone(step, f, touched[p], host, before[p])
  PROVE  AloneInv'
<1>1. host' = host /\ before' = before /\ touched' = touched
  BY DEF Ghosts
<1>2. QED
  BY <1>1, AloneSteps

LEMMA AloneEnds ==
  ASSUME DeploymentInv, AloneInv, NEW p \in Appliers, NEW step \in Steps \ Busy, NEW f,
         GoTo(p, step, f), UNCHANGED <<host, Ghosts>>
  PROVE  AloneInv'
<1>1. LeftAlone(step, f, touched[p], host, before[p])
  BY DEF LeftAlone
<1>2. QED
  BY <1>1, AloneQuiet

LEMMA AloneDone ==
  ASSUME DeploymentInv, AloneInv, NEW p \in Appliers, NEW result, EndWith(p, result),
         UNCHANGED <<host, Ghosts>>
  PROVE  AloneInv'
<1>1. "idle" \in Steps \ Busy
  BY DEF Steps, Busy
<1>2. QED
  BY <1>1, AloneEnds DEF EndWith

\* The jobs that are left.
LEMMA TailJobs ==
  ASSUME NEW todo \in Seq(Jobs), todo # <<>>, NEW tail, tail = Tail(todo)
  PROVE  /\ \A i \in DOMAIN tail : i + 1 \in DOMAIN todo /\ tail[i] = todo[i + 1]
         /\ 1 \in DOMAIN todo /\ todo[1] = Head(todo) /\ DOMAIN tail \subseteq Int
         /\ PutsFirst(todo) => PutsFirst(tail)
<1>1. PICK n, J : n = Len(todo) /\ J = Jobs
  OBVIOUS
<1>2. todo \in Seq(J)
  BY <1>1
<1>3. /\ n \in Nat \ {0} /\ DOMAIN todo = 1..n /\ DOMAIN tail = 1..n - 1
      /\ \A i \in 1..n - 1 : tail[i] = todo[i + 1]
      /\ Head(todo) = todo[1]
  BY <1>1, <1>2
<1>4. \A i \in DOMAIN tail : i + 1 \in DOMAIN todo /\ tail[i] = todo[i + 1]
  BY <1>3
<1>5. ASSUME PutsFirst(todo), NEW i \in DOMAIN tail, NEW j \in DOMAIN tail, i < j,
             IsPut(tail[j])
      PROVE  IsPut(tail[i])
  <2>1. i + 1 < j + 1
    BY <1>3, <1>5
  <2>2. QED
    BY <1>4, <1>5, <2>1 DEF PutsFirst
<1>6. QED
  BY <1>3, <1>4, <1>5 DEF PutsFirst

\* Nothing changes but what is left to do.
LEMMA LeftQuiet ==
  ASSUME NEW step \in Busy \ {"restore"}, NEW next \in Busy \ {"write"}, NEW f, NEW g,
         \/ g.todo = f.todo
         \/ f.todo \in Seq(Jobs) /\ f.todo # <<>> /\ g.todo = Tail(f.todo),
         NEW theirs, NEW on, NEW was, LeftAlone(step, f, theirs, on, was)
  PROVE  LeftAlone(next, g, theirs, on, was)
<1>1. /\ PutsFirst(f.todo)
      /\ \A cell \in Cells \ theirs : Stands(step, f, cell, on[cell], was[cell])
  BY DEF LeftAlone
<1>2. PutsFirst(g.todo) /\ \A i \in DOMAIN g.todo : \E j \in DOMAIN f.todo : g.todo[i] = f.todo[j]
  <2>1. CASE g.todo = f.todo
    BY <1>1, <2>1
  <2>2. CASE f.todo \in Seq(Jobs) /\ f.todo # <<>> /\ g.todo = Tail(f.todo)
    BY <1>1, <2>2, TailJobs
  <2>3. QED
    BY <2>1, <2>2
<1>3. ASSUME NEW cell \in Cells \ theirs
      PROVE  Stands(next, g, cell, on[cell], was[cell])
  <2>1. Stands(step, f, cell, on[cell], was[cell])
    BY <1>1
  <2>2. Reads(next, g.todo, g.held, cell, on[cell])
    BY DEF Reads
  <2>3. CASE IsCrontab(cell)
    <3>1. CrontabStands(step, f.todo, cell, on[cell], was[cell])
      BY <2>1, <2>3 DEF Stands
    <3>2. CrontabStands(next, g.todo, cell, on[cell], was[cell])
      BY <1>2, <3>1 DEF CrontabStands
    <3>3. QED
      BY <2>2, <2>3, <3>2 DEF Stands
  <2>4. CASE ~IsCrontab(cell)
    <3>1. FileStands(step, f.todo, cell, on[cell], was[cell])
      BY <2>1, <2>4 DEF Stands
    <3>2. FileStands(next, g.todo, cell, on[cell], was[cell])
      BY <1>2, <3>1 DEF FileStands
    <3>3. QED
      BY <2>2, <2>4, <3>2 DEF Stands
  <2>5. QED
    BY <2>3, <2>4
<1>4. QED
  BY <1>2, <1>3 DEF LeftAlone

-----------------------------------------------------------------------------
\* A plan.

\* What PutJobs makes of a plan that does not raise.
LEMMA PutJobsPlanned ==
  ASSUME NEW on \in [Cells -> Texts], NEW desired \in Desireds, ~PlanRaises(on, desired),
         NEW i \in DOMAIN PutJobs(on, desired)
  PROVE  LET job == PutJobs(on, desired)[i]
         IN  /\ job.slug \in DOMAIN desired /\ job.rev = desired[job.slug]
             /\ job.cell = CellOf(job.slug, job.rev)
             /\ ~Ambiguous(on, job.slug, job.rev) /\ Configured(job.rev)
             /\ job.slug \in Puts(on, desired)
<1> DEFINE slugs == Chosen(TaskOrder, Puts(on, desired))
           put(s) == [slug |-> s, rev |-> desired[s], cell |-> CellOf(s, desired[s])]
<1>1. Puts(on, desired) \subseteq DOMAIN desired
  BY DEF Puts
<1>2. slugs \in Seq(Words \cap Puts(on, desired))
  <2>1. TaskOrder \in Seq(Words)
    BY DeploymentAssumption
  <2>2. QED
    BY <2>1, ChosenFacts
<1>3. PutJobs(on, desired) = [n \in DOMAIN slugs |-> put(slugs[n])]
  BY DEF PutJobs
<1> HIDE DEF slugs, put
<1>4. i \in DOMAIN slugs /\ PutJobs(on, desired)[i] = put(slugs[i])
  BY <1>3
<1>5. slugs[i] \in Puts(on, desired)
  <2>1. PICK W : W = Words \cap Puts(on, desired)
    OBVIOUS
  <2>2. slugs \in Seq(W) /\ W \subseteq Puts(on, desired)
    BY <1>2, <2>1
  <2>3. QED
    BY <1>4, <2>2
<1>6. PICK s : s = slugs[i]
  OBVIOUS
<1>7. s \in Puts(on, desired) /\ s \in DOMAIN desired
  BY <1>1, <1>5, <1>6
<1>8. put(s).slug = s /\ put(s).rev = desired[s] /\ put(s).cell = CellOf(s, desired[s])
  BY DEF put
<1>9. ~Ambiguous(on, s, desired[s]) /\ Configured(desired[s])
  BY <1>7 DEF PlanRaises
<1>10. QED
  BY <1>4, <1>6, <1>7, <1>8, <1>9

\* What is planned over stands, and no more than what is planned is needed.
LEMMA PlanStands ==
  ASSUME NEW on \in [Cells -> Texts], NEW desired \in Desireds, ~PlanRaises(on, desired),
         NEW slugs \in SUBSET Slugs, NEW todo,
         todo = PutJobs(on, desired) \o DropJobs(slugs),
         NEW step \in Busy \ {"write"}, NEW f, f.todo = todo,
         NEW theirs, NEW was, \A cell \in Cells \ theirs : on[cell] = was[cell]
  PROVE  LeftAlone(step, f, theirs, on, was)
<1>1. PICK puts : puts = PutJobs(on, desired)
  OBVIOUS
<1>2. puts \in Seq(Jobs) /\ \A i \in DOMAIN puts : IsPut(puts[i])
  BY <1>1, PutJobsFacts DEF IsPut
<1>3. /\ PutsFirst(todo)
      /\ \A i \in DOMAIN todo : IsPut(todo[i]) => \E j \in DOMAIN puts : todo[i] = puts[j]
  <2>1. Plans(todo, puts, slugs)
    BY <1>1, <1>2, PlanOrder
  <2>2. QED
    BY <2>1 DEF Plans
<1>4. ASSUME NEW i \in DOMAIN todo, IsPut(todo[i])
      PROVE  /\ ~Ambiguous(on, todo[i].slug, todo[i].rev)
             /\ todo[i].cell = CellOf(todo[i].slug, todo[i].rev)
             /\ todo[i].slug \in Slugs /\ todo[i].rev \in Revs
             /\ IsCrontab(todo[i].cell) <=> ~WritesAFile(todo[i].rev)
  <2>1. PICK j \in DOMAIN puts : todo[i] = puts[j]
    BY <1>3, <1>4
  <2>2. PICK job : job = puts[j]
    OBVIOUS
  <2>3. /\ job.slug \in DOMAIN desired /\ job.rev = desired[job.slug]
        /\ job.cell = CellOf(job.slug, job.rev)
        /\ ~Ambiguous(on, job.slug, job.rev) /\ Configured(job.rev)
    BY <1>1, <2>2, PutJobsPlanned
  <2>4. job.slug \in Slugs /\ job.rev \in Revs
    BY <2>3, DesiredFacts
  <2>5. IsCrontab(job.cell) <=> ~WritesAFile(job.rev)
    BY <2>3, <2>4, CellFacts
  <2>6. QED
    BY <2>1, <2>2, <2>3, <2>4, <2>5
<1>5. ASSUME NEW cell \in Cells \ theirs PROVE Stands(step, f, cell, on[cell], was[cell])
  <2>1. on[cell] = was[cell] /\ on[cell] \in Texts
    OBVIOUS
  <2>2. Reads(step, f.todo, f.held, cell, on[cell])
    BY DEF Reads
  <2>3. CASE IsCrontab(cell)
    <3>1. ASSUME Regular(on[cell])
          PROVE  /\ Sound(on[cell])
                 /\ \A i \in DOMAIN todo : IsPut(todo[i]) /\ todo[i].cell = cell =>
                       OwnFirst(Kind(on[cell], todo[i].rev), todo[i].slug)
      <4>1. Readable(on[cell])
        BY <2>3 DEF PlanRaises, IsCrontab
      <4>2. Sound(on[cell])
        BY <2>1, <3>1, <4>1, SoundMeans DEF Regular
      <4>3. ASSUME NEW i \in DOMAIN todo, IsPut(todo[i]), todo[i].cell = cell
            PROVE  OwnFirst(Kind(on[cell], todo[i].rev), todo[i].slug)
        BY <1>4, <2>1, <2>3, <4>2, <4>3, UnambiguousOwn DEF Sound
      <4>4. QED
        BY <4>2, <4>3
    <3>2. CrontabStands(step, todo, cell, on[cell], was[cell])
      BY <2>1, <3>1 DEF CrontabStands
    <3>3. QED
      BY <2>2, <2>3, <3>2 DEF Stands
  <2>4. CASE ~IsCrontab(cell)
    <3>1. ASSUME NEW i \in DOMAIN todo, IsPut(todo[i]), todo[i].cell = cell
          PROVE  on[cell] = <<>> \/ Owned(on[cell])
      BY <1>4, <2>4, <3>1 DEF Ambiguous, Owned
    <3>2. FileStands(step, todo, cell, on[cell], was[cell])
      BY <2>1, <3>1 DEF FileStands
    <3>3. QED
      BY <2>2, <2>4, <3>2 DEF Stands
  <2>5. QED
    BY <2>3, <2>4
<1>6. QED
  BY <1>3, <1>5 DEF LeftAlone

-----------------------------------------------------------------------------
\* The steps of an applier.

LEMMA BeginAlone ==
  ASSUME DeploymentInv, AloneInv, NEW p \in Appliers, Begin(p)
  PROVE  AloneInv'
<1>1. /\ before' = [before EXCEPT ![p] = host] /\ touched' = [touched EXCEPT ![p] = {}]
      /\ host' = host /\ GoTo(p, "paging", FreshFrame)
  BY DEF Begin, Starts
<1>2. \A q \in Appliers \ {p} :
         /\ before'[q] = before[q] /\ touched[q] \subseteq touched'[q]
         /\ \A cell \in Cells \ touched'[q] : host'[cell] = host[cell]
  BY <1>1, FrameFacts
<1>3. LeftAlone("paging", FreshFrame, touched'[p], host', before'[p])
  BY DEF LeftAlone, Busy
<1>4. QED
  BY <1>1, <1>2, <1>3, AloneSteps

LEMMA UndeployAlone ==
  ASSUME DeploymentInv, AloneInv, NEW p \in Appliers,
         NEW slugs \in SUBSET Slugs, Undeploy(p, slugs)
  PROVE  AloneInv'
<1>1. PICK nothing : nothing = [s \in {} |-> NoRev]
  OBVIOUS
<1>2. PICK f : f = [FreshFrame EXCEPT !.todo = DropJobs(slugs), !.result = "removed"]
  OBVIOUS
<1>3. /\ before' = [before EXCEPT ![p] = host] /\ touched' = [touched EXCEPT ![p] = {}]
      /\ host' = host /\ GoTo(p, "apply", f) /\ ~PlanRaises(host, nothing)
  BY <1>1, <1>2 DEF Undeploy, Starts
<1>4. /\ \A q \in Appliers \ {p} :
            /\ before'[q] = before[q] /\ touched[q] \subseteq touched'[q]
            /\ \A cell \in Cells \ touched'[q] : host'[cell] = host[cell]
      /\ before'[p] = host /\ host \in [Cells -> Texts]
  BY <1>3, FrameFacts
<1>5. nothing \in Desireds /\ DOMAIN nothing = {}
  <2>1. nothing \in [{} -> Revs] /\ {} \in SUBSET Slugs
    BY <1>1
  <2>2. QED
    BY <1>1, <2>1 DEF Desireds
<1>6. f.todo = PutJobs(host, nothing) \o DropJobs(slugs)
  <2>1. PICK puts, drops, D : /\ puts = PutJobs(host, nothing) /\ drops = DropJobs(slugs)
                              /\ D = Drops(slugs)
    OBVIOUS
  <2>2. puts \in Seq(Jobs) /\ DOMAIN puts = {}
    <3>1. puts \in Seq(Jobs)
      BY <1>3, <1>4, <1>5, <2>1, PutJobsFacts
    <3>2. \A i \in DOMAIN puts : puts[i].slug \in {}
      BY <1>3, <1>4, <1>5, <2>1, PutJobsFacts
    <3>3. QED
      BY <3>1, <3>2
  <2>3. puts = <<>>
    BY <2>2
  <2>4. drops \in Seq(D)
    BY <2>1, DropJobsFacts
  <2>5. puts \o drops = drops
    BY <2>3, <2>4
  <2>6. f.todo = drops
    BY <1>2, <2>1 DEF FreshFrame
  <2>7. QED
    BY <2>1, <2>5, <2>6
<1>7. "apply" \in Busy \ {"write"}
  BY DEF Busy
<1>8. \A cell \in Cells \ touched'[p] : host[cell] = host[cell]
  OBVIOUS
<1>9. LeftAlone("apply", f, touched'[p], host, host)
  BY <1>3, <1>4, <1>5, <1>6, <1>7, PlanStands
<1>10. LeftAlone("apply", f, touched'[p], host', before'[p])
  BY <1>3, <1>4, <1>9
<1>11. QED
  BY <1>3, <1>4, <1>10, AloneSteps

LEMMA ReadPageAlone ==
  ASSUME DeploymentInv, AloneInv, NEW p \in Appliers, ReadPage(p)
  PROVE  AloneInv'
<1>1. \E step \in {"plan", "paging"} : \E f : GoTo(p, step, f)
  BY DEF ReadPage
<1>2. {"plan", "paging"} \subseteq Steps \ Busy
  BY DEF Steps, Busy
<1>3. QED
  BY <1>1, <1>2, AloneEnds DEF ReadPage

LEMMA MakePlanAlone ==
  ASSUME DeploymentInv, AloneInv, NEW p \in Appliers, MakePlan(p)
  PROVE  AloneInv'
<1>1. PICK f, desired : f = frame[p] /\ desired = f.desired
  OBVIOUS
<1>2. PICK todo : todo = PutJobs(host, desired) \o DropJobs(Removals(host, desired))
  OBVIOUS
<1>3. /\ desired \in Desireds /\ host \in [Cells -> Texts] /\ UNCHANGED <<host, Ghosts>>
      /\ \A cell \in Cells \ touched[p] : host[cell] = before[p][cell]
  <2>1. InHand("plan", f) /\ Undoable("plan", f, touched[p], host, before[p])
    BY <1>1, FrameFacts DEF MakePlan
  <2>2. QED
    BY <1>1, <2>1, FrameFacts DEF MakePlan, InHand, Undoable
<1>4. CASE \E result : EndWith(p, result)
  BY <1>3, <1>4, AloneDone
<1>5. CASE ~PlanRaises(host, desired) /\ todo # <<>>
  <2>1. PICK g : g = [FreshFrame EXCEPT !.todo = todo, !.removed = Removals(host, desired)]
    OBVIOUS
  <2>2. GoTo(p, "review", g)
    BY <1>1, <1>2, <1>5, <2>1 DEF MakePlan
  <2>3. g.todo = todo
    BY <2>1 DEF FreshFrame
  <2>4. Removals(host, desired) \in SUBSET Slugs
    BY <1>3, RemovalSlugs
  <2>5. "review" \in Busy \ {"write"}
    BY DEF Busy
  <2>6. LeftAlone("review", g, touched[p], host, before[p])
    BY <1>2, <1>3, <1>5, <2>3, <2>4, <2>5, PlanStands
  <2>7. QED
    BY <1>3, <2>2, <2>6, AloneQuiet
<1>6. QED
  BY <1>1, <1>2, <1>4, <1>5 DEF MakePlan

LEMMA ConfirmAlone ==
  ASSUME DeploymentInv, AloneInv, NEW p \in Appliers, Confirm(p)
  PROVE  AloneInv'
<1>1. LeftAlone("review", frame[p], touched[p], host, before[p])
      /\ UNCHANGED <<host, Ghosts>>
  BY DEF AloneInv, Confirm
<1>2. CASE GoTo(p, "install", frame[p])
  <2>1. LeftAlone("install", frame[p], touched[p], host, before[p])
    <3>1. "review" \in Busy \ {"restore"} /\ "install" \in Busy \ {"write"}
      BY DEF Busy
    <3>2. QED
      BY <1>1, <3>1, LeftQuiet
  <2>2. QED
    BY <1>1, <1>2, <2>1, AloneQuiet
<1>3. CASE EndWith(p, "aborted")
  BY <1>1, <1>3, AloneDone
<1>4. QED
  BY <1>2, <1>3 DEF Confirm

LEMMA InstallPageAlone ==
  ASSUME DeploymentInv, AloneInv, NEW p \in Appliers, InstallPage(p)
  PROVE  AloneInv'
<1>1. PICK f : f = frame[p]
  OBVIOUS
<1>2. /\ LeftAlone("install", f, touched[p], host, before[p])
      /\ UNCHANGED <<host, Ghosts>> /\ f \in Frames
  BY <1>1, FrameFacts DEF AloneInv, InstallPage
<1>3. \/ EndWith(p, "raised")
      \/ GoTo(p, "apply", [f EXCEPT !.offset = 0, !.result = "applied"])
      \/ GoTo(p, "install", [f EXCEPT !.offset = @ + Len(Page(f.offset))])
  BY <1>1 DEF InstallPage
<1>4. CASE EndWith(p, "raised")
  BY <1>2, <1>4, AloneDone
<1>5. ASSUME NEW next \in {"apply", "install"}, NEW g, g.todo = f.todo, GoTo(p, next, g)
      PROVE  AloneInv'
  <2>1. "install" \in Busy \ {"restore"} /\ next \in Busy \ {"write"}
    BY DEF Busy
  <2>2. LeftAlone(next, g, touched[p], host, before[p])
    BY <1>2, <1>5, <2>1, LeftQuiet
  <2>3. QED
    BY <1>2, <1>5, <2>2, AloneQuiet
<1>6. /\ [f EXCEPT !.offset = 0, !.result = "applied"].todo = f.todo
      /\ [f EXCEPT !.offset = @ + Len(Page(f.offset))].todo = f.todo
  BY <1>2 DEF Frames
<1>7. QED
  BY <1>3, <1>4, <1>5, <1>6

\* To the rollback.
LEMMA FailsAlone ==
  ASSUME DeploymentInv, AloneInv, NEW p \in Appliers, NEW g,
         pc[p] \in {"apply", "write", "check"}, GoTo(p, "restore", g),
         g.todo = frame[p].todo, UNCHANGED <<host, Ghosts>>
  PROVE  AloneInv'
<1>1. LeftAlone(pc[p], frame[p], touched[p], host, before[p])
  BY DEF AloneInv
<1>2. pc[p] \in Busy \ {"restore"} /\ "restore" \in Busy \ {"write"}
  BY DEF Busy
<1>3. LeftAlone("restore", g, touched[p], host, before[p])
  BY <1>1, <1>2, LeftQuiet
<1>4. QED
  BY <1>3, AloneQuiet

LEMMA FaultAlone ==
  ASSUME DeploymentInv, AloneInv, NEW p \in Appliers, Fault(p)
  PROVE  AloneInv'
BY FailsAlone DEF Fault

\* A job is done.
LEMMA DoneAlone ==
  ASSUME DeploymentInv, AloneInv, NEW p \in Appliers, NEW g,
         pc[p] \in {"apply", "check"}, frame[p].todo # <<>>,
         g = [frame[p] EXCEPT !.todo = Tail(@)], GoTo(p, "apply", g),
         UNCHANGED <<host, Ghosts>>
  PROVE  AloneInv'
<1>1. LeftAlone(pc[p], frame[p], touched[p], host, before[p])
  BY DEF AloneInv
<1>2. pc[p] \in Busy \ {"restore"} /\ "apply" \in Busy \ {"write"}
  BY DEF Busy
<1>3. PICK f : f = frame[p]
  OBVIOUS
<1>4. f.todo \in Seq(Jobs) /\ f.todo # <<>> /\ g.todo = Tail(f.todo)
  BY <1>3, FrameFacts DEF Frames
<1>5. LeftAlone("apply", g, touched[p], host, before[p])
  <2>1. PICK step : step = pc[p]
    OBVIOUS
  <2>2. LeftAlone(step, f, touched[p], host, before[p]) /\ step \in Busy \ {"restore"}
    BY <1>1, <1>2, <1>3, <2>1
  <2>3. PICK theirs, was : theirs = touched[p] /\ was = before[p]
    OBVIOUS
  <2>4. /\ step \in Busy \ {"restore"} /\ "apply" \in Busy \ {"write"}
        /\ \/ g.todo = f.todo
           \/ f.todo \in Seq(Jobs) /\ f.todo # <<>> /\ g.todo = Tail(f.todo)
        /\ LeftAlone(step, f, theirs, host, was)
    BY <1>2, <1>4, <2>2, <2>3
  <2>5. LeftAlone("apply", g, theirs, host, was)
    BY ONLY <2>4, LeftQuiet
  <2>6. QED
    BY <2>3, <2>5
<1>6. QED
  BY <1>5, AloneQuiet

LEMMA ReadBackAlone ==
  ASSUME DeploymentInv, AloneInv, NEW p \in Appliers, ReadBack(p)
  PROVE  AloneInv'
<1>1. pc[p] = "check" /\ frame[p].todo # <<>> /\ UNCHANGED <<host, Ghosts>>
  BY FrameFacts DEF ReadBack, InHand
<1>2. \/ GoTo(p, "apply", [frame[p] EXCEPT !.todo = Tail(@)])
      \/ GoTo(p, "restore", frame[p])
  BY DEF ReadBack
<1>3. QED
  BY <1>1, <1>2, DoneAlone, FailsAlone

\* What ReadStore does.
LEMMA StoreRead ==
  ASSUME DeploymentInv, NEW p \in Appliers, ReadStore(p)
  PROVE  \E f, job, text, g :
            /\ f = frame[p] /\ job = Head(f.todo) /\ text = host[job.cell]
            /\ job \in Jobs /\ job.cell \in Cells /\ text \in Texts /\ f.todo # <<>>
            /\ g.todo = f.todo /\ g.held = text /\ g.result = f.result
            /\ g.removed = f.removed
            /\ \/ GoTo(p, "restore", f)
               \/ GoTo(p, "restore", g)
               \/ /\ ~IsPut(job) /\ ~JobRaises(job, text) /\ ~Present(job, text)
                  /\ GoTo(p, "apply", [f EXCEPT !.todo = Tail(@)])
               \/ /\ ~IsPut(job) => Present(job, text)
                  /\ GoTo(p, "write", g)
<1>1. PICK f : f = frame[p]
  OBVIOUS
<1>2. PICK job : job = Head(f.todo)
  OBVIOUS
<1>3. PICK text : text = host[job.cell]
  OBVIOUS
<1>4. f \in Frames /\ f.todo \in Seq(Jobs) /\ f.todo # <<>>
  BY <1>1, FrameFacts DEF ReadStore
<1>5. job \in Jobs /\ job.cell \in Cells
  BY <1>2, <1>4, HeadFacts
<1>6. text \in Texts
  BY <1>3, <1>5, FrameFacts
<1>7. PICK g : g = [f EXCEPT !.captured = Capture(f.captured, job.cell, text), !.held = text]
  OBVIOUS
<1>8. g.todo = f.todo /\ g.held = text /\ g.result = f.result /\ g.removed = f.removed
  BY <1>4, <1>7 DEF Frames
<1>9. \/ GoTo(p, "restore", f)
      \/ GoTo(p, "restore", g)
      \/ /\ ~IsPut(job) /\ ~JobRaises(job, text) /\ ~Present(job, text)
         /\ GoTo(p, "apply", [f EXCEPT !.todo = Tail(@)])
      \/ /\ ~IsPut(job) => Present(job, text)
         /\ GoTo(p, "write", g)
  <2>1. [f EXCEPT !.captured = Capture(@, job.cell, text), !.held = text] = g
    BY <1>4, <1>7 DEF Frames
  <2>2. /\ Job(p) = job /\ host[Job(p).cell] = text
        /\ [frame[p] EXCEPT !.captured = Capture(@, Job(p).cell, host[Job(p).cell]),
                            !.held = host[Job(p).cell]] = g
    BY <1>1, <1>2, <1>3, <2>1 DEF Job
  <2>3. IF JobRaises(job, text)
        THEN GoTo(p, "restore", IF job.rev = NoRev THEN f ELSE g)
        ELSE IF job.rev = NoRev /\ ~Present(job, text)
        THEN GoTo(p, "apply", [f EXCEPT !.todo = Tail(@)])
        ELSE GoTo(p, IF RemovalRaises(job, text) THEN "restore" ELSE "write", g)
    BY <1>1, <2>2 DEF ReadStore
  <2>4. QED
    BY <2>3 DEF IsPut
<1>10. QED
  BY <1>1, <1>2, <1>3, <1>4, <1>5, <1>6, <1>8, <1>9

LEMMA ReadStoreAlone ==
  ASSUME DeploymentInv, AloneInv, NEW p \in Appliers, ReadStore(p)
  PROVE  AloneInv'
<1>1. PICK f, job, text, g :
            /\ f = frame[p] /\ job = Head(f.todo) /\ text = host[job.cell]
            /\ job \in Jobs /\ job.cell \in Cells /\ text \in Texts /\ f.todo # <<>>
            /\ g.todo = f.todo /\ g.held = text /\ g.result = f.result
            /\ g.removed = f.removed
            /\ \/ GoTo(p, "restore", f)
               \/ GoTo(p, "restore", g)
               \/ /\ ~IsPut(job) /\ ~JobRaises(job, text) /\ ~Present(job, text)
                  /\ GoTo(p, "apply", [f EXCEPT !.todo = Tail(@)])
               \/ /\ ~IsPut(job) => Present(job, text)
                  /\ GoTo(p, "write", g)
  BY StoreRead
<1>2. pc[p] = "apply" /\ UNCHANGED <<host, Ghosts>>
  BY DEF ReadStore
<1>3. CASE GoTo(p, "restore", f) \/ GoTo(p, "restore", g)
  BY <1>1, <1>2, <1>3, FailsAlone
<1>4. CASE GoTo(p, "apply", [f EXCEPT !.todo = Tail(@)])
  BY <1>1, <1>2, <1>4, DoneAlone
<1>5. CASE (~IsPut(job) => Present(job, text)) /\ GoTo(p, "write", g)
  <2>1. LeftAlone("apply", f, touched[p], host, before[p])
    BY <1>1, <1>2 DEF AloneInv
  <2>2. "apply" \in Busy \ {"restore"} /\ "check" \in Busy \ {"write"} /\ "write" \in Busy
    BY DEF Busy
  <2>3. LeftAlone("check", g, touched[p], host, before[p])
    BY <1>1, <2>1, <2>2, LeftQuiet
  <2>4. ASSUME NEW cell \in Cells \ touched[p]
        PROVE  Stands("write", g, cell, host[cell], before[p][cell])
    <3>1. Stands("check", g, cell, host[cell], before[p][cell])
      BY <2>2, <2>3 DEF LeftAlone
    <3>2. Reads("write", g.todo, g.held, cell, host[cell])
      BY <1>1, <1>5 DEF Reads
    <3>3. QED
      BY <3>1, <3>2 DEF Stands, CrontabStands, FileStands
  <2>5. LeftAlone("write", g, touched[p], host, before[p])
    BY <2>2, <2>3, <2>4 DEF LeftAlone
  <2>6. QED
    BY <1>2, <1>5, <2>5, AloneQuiet
<1>6. QED
  BY <1>1, <1>3, <1>4, <1>5

-----------------------------------------------------------------------------
\* The steps that write.

\* What the job in hand writes stands.
LEMMA WrittenStands ==
  ASSUME NEW f \in Frames, f.todo # <<>>, NEW on \in [Cells -> Texts], NEW was, NEW theirs,
         LeftAlone("write", f, theirs, on, was), InHand("write", f),
         NEW cell \in Cells \ theirs, cell = Head(f.todo).cell,
         NEW new, new = NewText(Head(f.todo), f.held),
         NEW step \in {"check", "restore"}, NEW g, g.todo = f.todo
  PROVE  /\ Stands(step, g, cell, new, was[cell])
         /\ ~IsCrontab(cell) => on[cell] = <<>> \/ Owned(on[cell])
<1>1. PICK job, todo, text : /\ job = Head(f.todo) /\ todo = f.todo /\ text = on[cell]
  OBVIOUS
<1>2. todo \in Seq(Jobs) /\ todo # <<>> /\ text \in Texts
  BY <1>1 DEF Frames
<1>3. job \in Jobs /\ 1 \in DOMAIN todo /\ todo[1] = job
  BY <1>1, <1>2, HeadFacts, TailJobs
<1>4. /\ PutsFirst(todo) /\ Stands("write", f, cell, text, was[cell])
      /\ ~JobRaises(job, f.held)
  BY <1>1 DEF LeftAlone, Busy, InHand
<1>5. text = f.held /\ (~IsPut(job) => Present(job, text))
  BY <1>1, <1>4 DEF Stands, Reads
<1>6. new = NewText(job, text) /\ job.cell = cell
  BY <1>1, <1>5
<1>7. ~IsPut(job) => \A i \in DOMAIN todo : ~IsPut(todo[i])
  <2>1. ASSUME NEW i \in DOMAIN todo, IsPut(todo[i]), ~IsPut(job) PROVE FALSE
    <3>1. PICK J : J = Jobs
      OBVIOUS
    <3>2. todo \in Seq(J)
      BY <1>2, <3>1
    <3>3. i = 1 \/ 1 < i
      BY <3>2
    <3>4. QED
      BY <1>3, <1>4, <2>1, <3>3 DEF PutsFirst
  <2>2. QED
    BY <2>1
<1>8. Reads(step, g.todo, g.held, cell, new)
  BY DEF Reads
<1>9. CASE IsCrontab(cell)
  <2>1. CrontabStands("write", todo, cell, text, was[cell])
    BY <1>1, <1>4, <1>9 DEF Stands
  <2>2. ASSUME Regular(was[cell])
        PROVE  /\ Sound(was[cell]) /\ Sound(new) /\ Unmanaged(new) = Unmanaged(was[cell])
               /\ \A i \in DOMAIN todo : IsPut(todo[i]) /\ todo[i].cell = cell =>
                     OwnFirst(Kind(new, todo[i].rev), todo[i].slug)
    <3>1. /\ Sound(was[cell]) /\ Sound(text) /\ Unmanaged(text) = Unmanaged(was[cell])
          /\ \A i \in DOMAIN todo : IsPut(todo[i]) /\ todo[i].cell = cell =>
                OwnFirst(Kind(text, todo[i].rev), todo[i].slug)
      BY <2>1, <2>2 DEF CrontabStands
    <3>2. CASE IsPut(job)
      <4>1. OwnFirst(Kind(text, job.rev), job.slug)
        BY <1>3, <1>6, <3>1, <3>2
      <4>2. Sound(new) /\ Unmanaged(new) = Unmanaged(text) /\ \A t : StaysOwn(new, text, t)
        BY <1>2, <1>3, <1>6, <1>9, <3>1, <3>2, <4>1, PutOnSound
      <4>3. QED
        BY <3>1, <4>2 DEF StaysOwn
    <3>3. CASE ~IsPut(job)
      <4>1. Sound(new) /\ Unmanaged(new) = Unmanaged(text)
        BY <1>2, <1>3, <1>6, <1>9, <3>1, <3>3, DropOnSound
      <4>2. QED
        BY <1>7, <3>1, <3>3, <4>1
    <3>4. QED
      BY <3>2, <3>3
  <2>3. CrontabStands(step, g.todo, cell, new, was[cell])
    BY <1>1, <2>2 DEF CrontabStands
  <2>4. QED
    BY <1>8, <1>9, <2>3 DEF Stands
<1>10. CASE ~IsCrontab(cell)
  <2>1. FileStands("write", todo, cell, text, was[cell])
    BY <1>1, <1>4, <1>10 DEF Stands
  <2>2. CASE IsPut(job)
    <3>1. text = <<>> \/ Owned(text)
      BY <1>3, <1>6, <2>1, <2>2 DEF FileStands
    <3>2. PICK s, rev : s = job.slug /\ rev = job.rev
      OBVIOUS
    <3>3. s \in Slugs /\ rev \in Revs /\ WritesAFile(rev) /\ rev # NoRev
      BY <1>3, <1>6, <1>10, <2>2, <3>2, CellFacts DEF Jobs, IsPut
    <3>4. new = RenderArtefact(s, rev)
      BY <1>6, <3>2, <3>3 DEF NewText, WritesAFile
    <3>5. PICK i, k : OnlyRegion(new, i, k, s)
      BY <3>3, <3>4, RenderedShapes
    <3>6. new \in Texts
      BY <3>3, <3>4, RenderedText
    <3>7. Owned(new)
      BY <3>5, <3>6, OneRegionRead DEF Owned
    <3>8. FileStands(step, g.todo, cell, new, was[cell])
      BY <3>7 DEF FileStands
    <3>9. QED
      BY <1>1, <1>8, <1>10, <3>1, <3>8 DEF Stands
  <2>3. CASE ~IsPut(job)
    <3>1. new = <<>>
      BY <1>6, <1>10, <2>3 DEF NewText, IsPut
    <3>2. FileStands(step, g.todo, cell, new, was[cell])
      BY <3>1 DEF FileStands
    <3>3. FindManagedRegions(text) # {} /\ RegionsReadable(text)
      BY <1>4, <1>5, <1>6, <1>10, <2>3 DEF Present, JobRaises, IsPut
    <3>4. QED
      BY <1>1, <1>8, <1>10, <3>2, <3>3 DEF Stands, Owned
  <2>4. QED
    BY <2>2, <2>3
<1>11. QED
  BY <1>9, <1>10

\* Whoever writes a cell has touched it for the others.
LEMMA WriterTouches ==
  ASSUME DeploymentInv, NEW p \in Appliers, NEW cell \in Cells, NEW text,
         WriteCell({p}, cell, text), UNCHANGED before
  PROVE  /\ \A q \in Appliers \ {p} :
               /\ before'[q] = before[q] /\ touched[q] \subseteq touched'[q]
               /\ \A c \in Cells \ touched'[q] : host'[c] = host[c]
         /\ touched'[p] = touched[p] /\ host'[cell] = text
         /\ \A c \in Cells \ {cell} : host'[c] = host[c]
<1>1. /\ host' = [host EXCEPT ![cell] = text] /\ before' = before
      /\ touched' = [q \in Appliers |->
                        IF {q} = {p} THEN touched[q] ELSE touched[q] \cup {cell}]
  BY DEF WriteCell
<1>2. host \in [Cells -> Texts]
  BY DEF DeploymentInv, Typed
<1>3. \A q \in Appliers \ {p} : touched'[q] = touched[q] \cup {cell}
  BY <1>1
<1>4. touched'[p] = touched[p]
  BY <1>1
<1>5. QED
  BY <1>1, <1>2, <1>3, <1>4

LEMMA WriteStoreAlone ==
  ASSUME DeploymentInv, AloneInv, NEW p \in Appliers, WriteStore(p)
  PROVE  /\ AloneInv'
         /\ \A cell \in Cells \ touched[p] : ~IsCrontab(cell) /\ host'[cell] # host[cell] =>
               host[cell] = <<>> \/ Owned(host[cell])
         /\ pc[p] \in Busy /\ pc'[p] \in Busy
<1>1. PICK f, job, cell, new : /\ f = frame[p] /\ job = Head(f.todo) /\ cell = job.cell
                               /\ new = NewText(job, f.held)
  OBVIOUS
<1>2. /\ f \in Frames /\ InHand("write", f) /\ f.todo # <<>> /\ host \in [Cells -> Texts]
      /\ pc[p] = "write" /\ f.todo \in Seq(Jobs)
  BY <1>1, FrameFacts DEF WriteStore, InHand, DeploymentInv, Typed
<1>3. cell \in Cells
  BY <1>1, <1>2, HeadFacts
<1>4. WriteCell({p}, cell, new) /\ UNCHANGED before
  BY <1>1 DEF WriteStore, Job
<1>5. /\ \A q \in Appliers \ {p} :
            /\ before'[q] = before[q] /\ touched[q] \subseteq touched'[q]
            /\ \A c \in Cells \ touched'[q] : host'[c] = host[c]
      /\ touched'[p] = touched[p] /\ host'[cell] = new
      /\ \A c \in Cells \ {cell} : host'[c] = host[c]
  BY <1>3, <1>4, WriterTouches
<1>6. PICK theirs, was : theirs = touched[p] /\ was = before[p]
  OBVIOUS
<1>7. LeftAlone("write", f, theirs, host, was)
  BY <1>1, <1>2, <1>6 DEF AloneInv
<1>8. \A step \in {"check", "restore"} : \A g : g.todo = f.todo /\ cell \notin theirs =>
         /\ Stands(step, g, cell, new, was[cell])
         /\ ~IsCrontab(cell) => host[cell] = <<>> \/ Owned(host[cell])
  BY <1>1, <1>2, <1>3, <1>7, WrittenStands
<1>9. ASSUME NEW step \in {"check", "restore"}, NEW g, g.todo = f.todo
      PROVE  LeftAlone(step, g, theirs, host', was)
  <2>1. "write" \in Busy \ {"restore"} /\ step \in Busy \ {"write"}
    BY DEF Busy
  <2>2. LeftAlone(step, g, theirs, host, was)
    BY <1>7, <1>9, <2>1, LeftQuiet
  <2>3. ASSUME NEW c \in Cells \ theirs PROVE Stands(step, g, c, host'[c], was[c])
    <3>1. CASE c = cell
      BY <1>5, <1>8, <1>9, <3>1
    <3>2. CASE c # cell
      BY <1>5, <2>1, <2>2, <3>2 DEF LeftAlone
    <3>3. QED
      BY <3>1, <3>2
  <2>4. QED
    BY <2>1, <2>2, <2>3 DEF LeftAlone
<1>10. \E step \in {"check", "restore"} : \E g : g.todo = f.todo /\ GoTo(p, step, g)
  <2>1. [f EXCEPT !.held = <<>>].todo = f.todo
    BY <1>2 DEF Frames
  <2>2. GoTo(p, "check", [f EXCEPT !.held = <<>>]) \/ GoTo(p, "restore", f)
    BY <1>1 DEF WriteStore
  <2>3. QED
    BY <2>1, <2>2
<1>11. PICK step \in {"check", "restore"} : \E h : h.todo = f.todo /\ GoTo(p, step, h)
  BY <1>10
<1>12. PICK g : g.todo = f.todo /\ GoTo(p, step, g)
  BY <1>11
<1>13. LeftAlone(step, g, touched'[p], host', before'[p])
  BY <1>4, <1>5, <1>6, <1>9, <1>12
<1>14. AloneInv'
  BY <1>5, <1>12, <1>13, AloneSteps
<1>15. pc[p] \in Busy /\ pc'[p] \in Busy
  BY <1>2, <1>12 DEF GoTo, Busy, DeploymentInv, Typed
<1>16. QED
  BY <1>5, <1>6, <1>8, <1>14, <1>15

LEMMA RestoreAlone ==
  ASSUME DeploymentInv, AloneInv, NEW p \in Appliers, Restore(p)
  PROVE  /\ AloneInv'
         /\ \/ host' = host
            \/ /\ \A cell \in Cells \ touched[p] :
                     ~IsCrontab(cell) /\ host'[cell] # host[cell] =>
                        host[cell] = <<>> \/ Owned(host[cell])
               /\ pc[p] \in Busy /\ pc'[p] \in Busy
<1>1. PICK f, captured, theirs, was :
         /\ f = frame[p] /\ captured = f.captured /\ theirs = touched[p] /\ was = before[p]
  OBVIOUS
<1>2. /\ f \in Frames /\ captured \in Captures /\ pc[p] = "restore"
      /\ Undoable("restore", f, theirs, host, was)
      /\ LeftAlone("restore", f, theirs, host, was)
      /\ UNCHANGED <<estate, installed, before, moved, raced>>
      /\ DOMAIN captured \subseteq Cells
  BY <1>1, FrameFacts DEF Restore, AloneInv
<1>3. CASE host' = host /\ touched' = touched /\ \E result : EndWith(p, result)
  <2>1. UNCHANGED <<host, Ghosts>>
    BY <1>2, <1>3 DEF Ghosts
  <2>2. AloneInv'
    BY <1>3, <2>1, AloneDone
  <2>3. QED
    BY <1>3, <2>2
<1>4. ASSUME NEW cell \in DOMAIN captured, WriteCell({p}, cell, captured[cell]),
             NEW g, g.todo = f.todo, GoTo(p, "restore", g)
      PROVE  /\ AloneInv'
             /\ \A c \in Cells \ touched[p] : ~IsCrontab(c) /\ host'[c] # host[c] =>
                   host[c] = <<>> \/ Owned(host[c])
             /\ pc[p] \in Busy /\ pc'[p] \in Busy
  <2>1. cell \in Cells
    BY <1>2
  <2>3. /\ \A q \in Appliers \ {p} :
              /\ before'[q] = before[q] /\ touched[q] \subseteq touched'[q]
              /\ \A c \in Cells \ touched'[q] : host'[c] = host[c]
        /\ touched'[p] = touched[p] /\ host'[cell] = captured[cell]
        /\ \A c \in Cells \ {cell} : host'[c] = host[c]
    BY <1>2, <1>4, <2>1, WriterTouches
  <2>4. cell \notin theirs => captured[cell] = was[cell]
    BY <1>1, <1>2, <1>4, <2>1 DEF Undoable
  <2>5. "restore" \in Busy
    BY DEF Busy
  <2>6. PutsFirst(f.todo)
        /\ \A c \in Cells \ theirs : Stands("restore", f, c, host[c], was[c])
    BY <1>2, <2>5 DEF LeftAlone
  <2>7. ASSUME NEW c \in Cells \ theirs
        PROVE  /\ Stands("restore", g, c, host'[c], was[c])
               /\ ~IsCrontab(c) /\ host'[c] # host[c] => host[c] = <<>> \/ Owned(host[c])
    <3>1. Stands("restore", f, c, host[c], was[c])
      BY <2>6
    <3>2. host'[c] = host[c] \/ host'[c] = was[c]
      BY <2>3, <2>4
    <3>3. Reads("restore", g.todo, g.held, c, host'[c])
      BY DEF Reads
    <3>4. CASE IsCrontab(c)
      <4>1. CrontabStands("restore", f.todo, c, host[c], was[c])
        BY <3>1, <3>4 DEF Stands
      <4>2. CrontabStands("restore", g.todo, c, host'[c], was[c])
        BY <3>2, <4>1 DEF CrontabStands
      <4>3. QED
        BY <3>3, <3>4, <4>2 DEF Stands
    <3>5. CASE ~IsCrontab(c)
      <4>1. FileStands("restore", f.todo, c, host[c], was[c])
        BY <3>1, <3>5 DEF Stands
      <4>2. FileStands("restore", g.todo, c, host'[c], was[c])
        BY <3>2, <4>1 DEF FileStands
      <4>3. host'[c] # host[c] => host[c] = <<>> \/ Owned(host[c])
        BY <3>2, <4>1 DEF FileStands
      <4>4. QED
        BY <3>3, <3>5, <4>2, <4>3 DEF Stands
    <3>6. QED
      BY <3>4, <3>5
  <2>8. LeftAlone("restore", g, theirs, host', was)
    BY <1>4, <2>6, <2>7 DEF LeftAlone
  <2>9. LeftAlone("restore", g, touched'[p], host', before'[p])
    BY <1>1, <1>2, <2>3, <2>8
  <2>10. AloneInv'
    BY <1>4, <2>3, <2>9, AloneSteps
  <2>11. pc[p] \in Busy /\ pc'[p] \in Busy
    BY <1>2, <1>4, <2>5 DEF GoTo, DeploymentInv, Typed
  <2>12. QED
    BY <1>1, <2>7, <2>10, <2>11
<1>5. \/ host' = host /\ touched' = touched /\ \E result : EndWith(p, result)
      \/ \E cell \in DOMAIN captured : \E g :
            /\ WriteCell({p}, cell, captured[cell]) /\ g.todo = f.todo
            /\ GoTo(p, "restore", g)
  <2>1. CASE \E cell \in DOMAIN captured :
               /\ WriteCell({p}, cell, captured[cell])
               /\ GoTo(p, "restore", [f EXCEPT !.captured =
                     [c \in DOMAIN captured \ {cell} |-> captured[c]]])
    <3>1. PICK cell \in DOMAIN captured :
               /\ WriteCell({p}, cell, captured[cell])
               /\ GoTo(p, "restore", [f EXCEPT !.captured =
                     [c \in DOMAIN captured \ {cell} |-> captured[c]]])
      BY <2>1
    <3>2. PICK g : g = [f EXCEPT !.captured =
                          [c \in DOMAIN captured \ {cell} |-> captured[c]]]
      OBVIOUS
    <3>3. g.todo = f.todo
      BY <1>2, <3>2 DEF Frames
    <3>4. QED
      BY <3>1, <3>2, <3>3
  <2>2. QED
    BY <1>1, <2>1 DEF Restore
<1>6. QED
  BY <1>3, <1>4, <1>5

\* The steps that end, but for the restoring.
LEMMA EndsAlone ==
  ASSUME DeploymentInv, AloneInv, NEW p \in Appliers,
         InstallFails(p) \/ Uninstall(p) \/ Kill(p)
  PROVE  AloneInv'
<1>1. UNCHANGED <<host, Ghosts>> /\ \E result : EndWith(p, result)
  BY DEF InstallFails, Uninstall, Kill
<1>2. QED
  BY <1>1, AloneDone

-----------------------------------------------------------------------------
\* Beside the appliers.

LEMMA PublishAlone ==
  ASSUME AloneInv, NEW s, NEW rev, Publish(s, rev)
  PROVE  AloneInv'
BY DEF Publish, AloneInv

LEMMA EditAlone ==
  ASSUME DeploymentInv, AloneInv, NEW cell, NEW text, EditByHand(cell, text)
  PROVE  /\ AloneInv'
         /\ \A p \in Appliers : \A c \in Cells \ touched'[p] : host'[c] = host[c]
<1>1. /\ host' = [host EXCEPT ![cell] = text]
      /\ touched' = [p \in Appliers |->
                        IF {p} = {} THEN touched[p] ELSE touched[p] \cup {cell}]
      /\ UNCHANGED <<pc, frame, before>>
  BY DEF EditByHand, WriteCell
<1>2. \A p \in Appliers : touched'[p] = touched[p] \cup {cell}
  BY <1>1
<1>3. host \in [Cells -> Texts]
  BY DEF DeploymentInv, Typed
<1>4. \A p \in Appliers : \A c \in Cells \ touched'[p] :
         c \in Cells \ touched[p] /\ host'[c] = host[c]
  BY <1>1, <1>2, <1>3
<1>5. ASSUME NEW p \in Appliers
      PROVE  LeftAlone(pc'[p], frame'[p], touched'[p], host', before'[p])
  <2>1. LeftAlone(pc[p], frame[p], touched[p], host, before[p])
    BY DEF AloneInv
  <2>2. pc'[p] = pc[p] /\ frame'[p] = frame[p] /\ before'[p] = before[p]
    BY <1>1
  <2>3. QED
    BY <1>4, <2>1, <2>2 DEF LeftAlone
<1>6. QED
  BY <1>4, <1>5 DEF AloneInv

LEMMA EditsByHand ==
  ASSUME Edit
  PROVE  \E cell, text : EditByHand(cell, text)
BY DEF Edit

LEMMA AloneInit ==
  ASSUME Init
  PROVE  AloneInv
<1>1. pc = [p \in Appliers |-> "idle"]
  BY DEF Init
<1>2. QED
  BY <1>1 DEF AloneInv, LeftAlone, Busy

LEMMA AloneNext ==
  ASSUME DeploymentInv, AloneInv, [Next]_vars
  PROVE  AloneInv'
<1>1. ASSUME NEW p \in Appliers, Apply(p) PROVE AloneInv'
  BY <1>1, BeginAlone, UndeployAlone, ReadPageAlone, MakePlanAlone, ConfirmAlone,
     InstallPageAlone, ReadStoreAlone, WriteStoreAlone, ReadBackAlone, FaultAlone,
     RestoreAlone, EndsAlone DEF Apply
<1>2. CASE UNCHANGED vars
  BY <1>2 DEF vars, AloneInv
<1>3. CASE Edit
  BY <1>3, EditsByHand, EditAlone
<1>4. QED
  BY <1>1, <1>2, <1>3, PublishAlone DEF Next

LEMMA OnlyWriters ==
  ASSUME DeploymentInv, AloneInv, [Next]_vars, NEW p \in Appliers,
         NEW cell \in Cells \ touched'[p], host'[cell] # host[cell], pc[p] # "idle"
  PROVE  WriteStore(p) \/ Restore(p)
<1>1. ASSUME NEW q \in Appliers, Apply(q) PROVE (WriteStore(p) \/ Restore(p))
  <2>1. WriteStore(q) \/ Restore(q)
    BY <1>1 DEF Apply, Begin, Undeploy, Starts, ReadPage, MakePlan, Confirm, InstallPage,
       InstallFails, ReadStore, ReadBack, Fault, Uninstall, Kill
  <2>2. \E c, text : WriteCell({q}, c, text)
    BY <2>1 DEF WriteStore, Restore
  <2>3. PICK c, text : WriteCell({q}, c, text)
    BY <2>2
  <2>4. c = cell
    BY <2>3 DEF WriteCell, DeploymentInv, Typed
  <2>5. p # q => cell \in touched'[p]
    BY <2>3, <2>4 DEF WriteCell
  <2>6. QED
    BY <2>1, <2>5
<1>2. ~Edit
  BY EditsByHand, EditAlone
<1>3. QED
  BY <1>1, <1>2 DEF Next, vars, Publish

LEMMA AloneLeaves ==
  ASSUME DeploymentInv, AloneInv, [Next]_vars, NEW p \in Appliers,
         NEW cell \in Cells \ touched'[p], pc[p] # "idle", AloneInv', DeploymentInv'
  PROVE  IF IsCrontab(cell)
         THEN Regular(before[p][cell]) =>
                 /\ Unmanaged(host'[cell]) = Unmanaged(host[cell])
                 /\ Readable(host[cell]) => Readable(host'[cell])
         ELSE host'[cell] # host[cell] => host[cell] = <<>> \/ Owned(host[cell])
<1>1. CASE host'[cell] = host[cell]
  BY <1>1
<1>2. CASE host'[cell] # host[cell]
  <2>1. WriteStore(p) \/ Restore(p)
    BY <1>2, OnlyWriters
  <2>2. /\ pc[p] \in Busy /\ pc'[p] \in Busy
        /\ \A c \in Cells \ touched[p] : ~IsCrontab(c) /\ host'[c] # host[c] =>
              host[c] = <<>> \/ Owned(host[c])
    BY <1>2, <2>1, WriteStoreAlone, RestoreAlone
  <2>3. touched'[p] = touched[p] /\ before' = before
    <3>1. touched \in [Appliers -> SUBSET Cells]
      BY DEF DeploymentInv, Typed
    <3>2. QED
      BY <2>1, <3>1 DEF WriteStore, Restore, WriteCell
  <2>4. CASE IsCrontab(cell) /\ Regular(before[p][cell])
    <3>1. /\ Stands(pc[p], frame[p], cell, host[cell], before[p][cell])
          /\ Stands(pc'[p], frame'[p], cell, host'[cell], before[p][cell])
      BY <2>2, <2>3 DEF AloneInv, LeftAlone
    <3>2. /\ Unmanaged(host[cell]) = Unmanaged(before[p][cell])
          /\ Unmanaged(host'[cell]) = Unmanaged(before[p][cell]) /\ Sound(host'[cell])
      BY <2>4, <3>1 DEF Stands, CrontabStands
    <3>3. host'[cell] \in Texts
      BY DEF DeploymentInv, Typed
    <3>4. QED
      BY <2>4, <3>2, <3>3, SoundMeans
  <2>5. CASE ~IsCrontab(cell)
    BY <2>2, <2>3, <2>5
  <2>6. QED
    BY <2>4, <2>5
<1>3. QED
  BY <1>1, <1>2

\* In a crontab, what TaskControl did not write it does not change, and what
\* could be read stays readable, where the block and the regions are apart and
\* nobody renamed an artefact; a file it writes over or removes is its own: unless
\* somebody changed that very crontab or file since the applier began (rule 1 of
\* SchedulerManagement), whatever else happens between its steps.
THEOREM OthersLeftAlone == Spec => OthersAreLeftAlone
<1> DEFINE Leaves(p, cell) ==
              IF IsCrontab(cell)
              THEN Apart(before[p][cell]) /\ Attributed(before[p][cell]) =>
                      /\ Unmanaged(host'[cell]) = Unmanaged(host[cell])
                      /\ Readable(host[cell]) => Readable(host'[cell])
              ELSE host'[cell] # host[cell] =>
                      \/ host[cell] = <<>>
                      \/ /\ RegionsReadable(host[cell])
                         /\ FindManagedRegions(host[cell]) # {}
           Lets == \A p \in Appliers, cell \in Cells :
                      cell \notin touched'[p] /\ pc[p] # "idle" => Leaves(p, cell)
<1>1. Init => AloneInv
  BY AloneInit
<1>2. DeploymentInv /\ AloneInv /\ [Next]_vars => AloneInv'
  BY AloneNext
<1>3. DeploymentInv /\ DeploymentInv' /\ AloneInv /\ AloneInv' /\ [Next]_vars => [Lets]_vars
  <2>1. ASSUME DeploymentInv, DeploymentInv', AloneInv, AloneInv', [Next]_vars,
               NEW p \in Appliers, NEW cell \in Cells,
               cell \notin touched'[p], pc[p] # "idle"
        PROVE  Leaves(p, cell)
    <3>1. cell \in Cells \ touched'[p]
      BY <2>1
    <3>2. IF IsCrontab(cell)
          THEN Regular(before[p][cell]) =>
                  /\ Unmanaged(host'[cell]) = Unmanaged(host[cell])
                  /\ Readable(host[cell]) => Readable(host'[cell])
          ELSE host'[cell] # host[cell] => host[cell] = <<>> \/ Owned(host[cell])
      BY <2>1, <3>1, AloneLeaves
    <3>3. QED
      BY <3>2 DEF Regular, Owned
  <2>2. QED
    BY <2>1
<1>4. QED
  BY <1>1, <1>2, <1>3, DeploymentSafety, PTL DEF Spec, OthersAreLeftAlone

(***************************************************************************)
(* What an apply achieves.  The plan of an apply with which nobody          *)
(* interferes lists whatever the host is short of; a job that is verified   *)
(* leaves the others' artefacts as they are, and takes its own off.         *)
(***************************************************************************)

\* The artefact of s is there, and says what its revision says.
Current(on, s, rev) ==
    LET text == on[CellOf(s, rev)]
    IN IF WritesAFile(rev) THEN text = RenderArtefact(s, rev)
       ELSE Leads(Kind(text, rev), text, s, RenderArtefact(s, rev))

\* Something in a cell is found by the slug s.
Found(cell, text, s) ==
    IF IsCrontab(cell)
    THEN \/ \E r \in FindManagedRegions(text) : r.slug = s
         \/ \E r \in FindBlockMembers(text) : r.slug = s
    ELSE cell[2] = s /\ FindManagedRegions(text) # {}

ToPut(todo, s) == \E i \in DOMAIN todo : IsPut(todo[i]) /\ todo[i].slug = s
ToDrop(todo, s, cell) == \E i \in DOMAIN todo : todo[i] = DropOf(s, cell)

\* With these jobs the host becomes what is wanted.
Underway(todo, on, wanted) ==
    /\ \A i \in DOMAIN todo :
          IF IsPut(todo[i])
          THEN todo[i].slug \in DOMAIN wanted /\ todo[i].rev = wanted[todo[i].slug]
          ELSE todo[i].slug \notin DOMAIN wanted
    /\ \A cell \in CrontabCells : Tidy(on[cell])
    /\ \A cell \in FileCells :
          /\ cell[2] \notin DOMAIN wanted => RegionsReadable(on[cell])
          /\ cell[2] \in Copies => FindManagedRegions(on[cell]) = {}
    /\ \A s \in DOMAIN wanted :
          Configured(wanted[s]) /\ (ToPut(todo, s) \/ Current(on, s, wanted[s]))
    /\ \A s \in Slugs \ DOMAIN wanted : \A cell \in Cells :
          Found(cell, on[cell], s) => ToDrop(todo, s, cell)

\* What is current is what planning and reading back take for it.
LEMMA CurrentMeans ==
  ASSUME NEW on \in [Cells -> Texts], NEW s \in Slugs, NEW rev \in Revs, Configured(rev),
         ~WritesAFile(rev) => Tidy(on[CellOf(s, rev)])
  PROVE  Current(on, s, rev) <=>
            ~Ambiguous(on, s, rev) /\ CurrentContent(on, s, rev) = RenderArtefact(s, rev)
<1>1. PICK text, put : text = on[CellOf(s, rev)] /\ put = RenderArtefact(s, rev)
  OBVIOUS
<1>2. text \in Texts /\ put \in Texts /\ put # <<>>
  BY <1>1, CellFacts, RenderedText
<1>3. CASE WritesAFile(rev)
  <2>1. CurrentContent(on, s, rev) = text
    BY <1>1, <1>3 DEF CurrentContent
  <2>2. Current(on, s, rev) <=> text = put
    BY <1>1, <1>3 DEF Current
  <2>3. ASSUME text = put PROVE ~Ambiguous(on, s, rev)
    <3>1. PICK i, k : OnlyRegion(text, i, k, s)
      BY <1>1, <1>3, <2>3, RenderedShapes
    <3>2. PICK r : r = RegionAt(text, i, k)
      OBVIOUS
    <3>3. /\ RegionsReadable(text) /\ r \in FindManagedRegions(text) /\ r.task = s
          /\ \A q \in FindManagedRegions(text) : q = r
      BY <1>2, <3>1, <3>2, OneRegionRead
    <3>4. \A q \in FindManagedRegions(text) : q.start \in Nat
      BY <1>2, RegionFacts, AtFacts
    <3>5. FirstOf(FindManagedRegions(text)) = r
      BY <3>3, <3>4, FirstOfFacts
    <3>6. SUFFICES ASSUME Ambiguous(on, s, rev) PROVE FALSE
      OBVIOUS
    <3>7. \/ ~RegionsReadable(text) \/ FindManagedRegions(text) = {}
          \/ FirstOf(FindManagedRegions(text)).task # s
      BY <1>1, <1>3, <3>6 DEF Ambiguous, WritesAFile
    <3>8. QED
      BY <3>3, <3>5, <3>7
  <2>4. QED
    BY <1>1, <2>1, <2>2, <2>3
<1>4. CASE ~WritesAFile(rev)
  <2>1. Tidy(text) /\ Neat(text) /\ RegionsReadable(text) /\ BlockReadable(text)
    BY <1>1, <1>2, <1>4, TidyMeans DEF Tidy
  <2>2. PICK mine, first : mine = Carrying(text, s, rev) /\ first = FirstOf(mine)
    OBVIOUS
  <2>3. /\ mine # {} => Leading(Kind(text, rev), s, first)
        /\ \A r : Leading(Kind(text, rev), s, r) => mine # {} /\ r = first
    BY <1>2, <2>1, <2>2, FirstLeads
  <2>4. Ambiguous(on, s, rev) <=> mine # {} /\ first.task # s
    BY <1>1, <1>4, <2>1, <2>2 DEF Ambiguous
  <2>5. CurrentContent(on, s, rev) = IF mine = {} THEN <<>> ELSE Piece(text, first)
    BY <1>1, <1>4, <2>2 DEF CurrentContent
  <2>6. Current(on, s, rev) <=> Leads(Kind(text, rev), text, s, put)
    BY <1>1, <1>4 DEF Current
  <2>7. ASSUME Leads(Kind(text, rev), text, s, put)
        PROVE  mine # {} /\ first.task = s /\ Piece(text, first) = put
    BY <2>3, <2>7 DEF Leads
  <2>8. ASSUME mine # {}, first.task = s, Piece(text, first) = put
        PROVE  Leads(Kind(text, rev), text, s, put)
    BY <2>3, <2>8 DEF Leads
  <2>9. QED
    BY <1>1, <1>2, <2>4, <2>5, <2>6, <2>7, <2>8
<1>5. QED
  BY <1>3, <1>4

-----------------------------------------------------------------------------
\* A job is done.

\* Only one cell changed, and nothing in it that is of others than s.
Differ(new, on, c, s) ==
    /\ \A cell \in Cells \ {c} : new[cell] = on[cell]
    /\ IsCrontab(c) => Keeping(new[c], on[c], s) /\ Tidy(new[c])

LEMMA CellOfJob ==
  ASSUME NEW job \in Jobs
  PROVE  /\ job.cell \in Cells /\ job.cell \in CellsOf(job.slug) /\ job.slug \in Slugs
         /\ job.rev \in Revs \cup {NoRev}
         /\ ~IsCrontab(job.cell) => job.cell \in FileCells /\ job.cell[2] = job.slug
         /\ IsPut(job) => /\ job.rev \in Revs /\ Configured(job.rev)
                          /\ job.cell = CellOf(job.slug, job.rev)
                          /\ IsCrontab(job.cell) <=> ~WritesAFile(job.rev)
<1>1. /\ job.cell \in Cells /\ job.cell \in CellsOf(job.slug) /\ job.slug \in Slugs
      /\ job.rev \in Revs \cup {NoRev}
      /\ job.rev # NoRev => Configured(job.rev) /\ job.cell = CellOf(job.slug, job.rev)
  BY DEF Jobs
<1>2. ASSUME ~IsCrontab(job.cell) PROVE job.cell \in FileCells /\ job.cell[2] = job.slug
  <2>1. job.cell \in FileCells
    BY <1>1, <1>2 DEF Cells, IsCrontab
  <2>2. PICK d \in Directories : job.cell = <<d, job.slug>>
    BY <1>1, <1>2 DEF CellsOf, IsCrontab
  <2>3. QED
    BY <2>1, <2>2
<1>3. QED
  BY <1>1, <1>2, CellFacts DEF IsPut

LEMMA OthersCurrent ==
  ASSUME NEW job \in Jobs, NEW on, NEW new, Differ(new, on, job.cell, job.slug),
         NEW t \in Slugs, t # job.slug, NEW rev \in Revs, Configured(rev), Current(on, t, rev)
  PROVE  Current(new, t, rev)
<1>1. PICK e : e = CellOf(t, rev)
  OBVIOUS
<1>2. e \in Cells /\ (IsCrontab(e) <=> ~WritesAFile(rev))
  BY <1>1, CellFacts
<1>3. CASE e # job.cell
  <2>1. new[e] = on[e]
    BY <1>2, <1>3 DEF Differ
  <2>2. QED
    BY <1>1, <2>1 DEF Current
<1>4. CASE e = job.cell
  <2>1. ~WritesAFile(rev)
    <3>1. SUFFICES ASSUME WritesAFile(rev) PROVE FALSE
      OBVIOUS
    <3>2. job.cell[2] = job.slug
      BY <1>2, <1>4, <3>1, CellOfJob
    <3>3. e[2] = t
      BY <1>1, <3>1 DEF CellOf
    <3>4. QED
      BY <1>4, <3>2, <3>3
  <2>2. Keeping(new[e], on[e], job.slug)
    BY <1>2, <1>4, <2>1 DEF Differ
  <2>3. Leads(Kind(on[e], rev), on[e], t, RenderArtefact(t, rev))
    BY <1>1, <2>1 DEF Current
  <2>4. Leads(Kind(new[e], rev), new[e], t, RenderArtefact(t, rev))
    BY <2>2, <2>3 DEF Keeping, KeptOf, Kind
  <2>5. QED
    BY <1>1, <2>1, <2>4 DEF Current
<1>5. QED
  BY <1>3, <1>4

LEMMA OthersFound ==
  ASSUME NEW job \in Jobs, NEW on, NEW new, Differ(new, on, job.cell, job.slug),
         NEW t \in Slugs, t # job.slug, NEW cell \in Cells, Found(cell, new[cell], t)
  PROVE  Found(cell, on[cell], t)
<1>1. CASE cell # job.cell
  BY <1>1 DEF Differ
<1>2. CASE cell = job.cell /\ IsCrontab(cell)
  BY <1>2 DEF Differ, Keeping, KeptOf, Found
<1>3. CASE cell = job.cell /\ ~IsCrontab(cell)
  BY <1>3, CellOfJob DEF Found
<1>4. QED
  BY <1>1, <1>2, <1>3

(***************************************************************************)
(* A job is off the list once its artefact is current, or gone.             *)
(***************************************************************************)
LEMMA JobOff ==
  ASSUME NEW todo \in Seq(Jobs), todo # <<>>, NEW job, job = Head(todo),
         NEW on, NEW new, NEW wanted \in Desireds, Underway(todo, on, wanted),
         Differ(new, on, job.cell, job.slug),
         IsPut(job) => Current(new, job.slug, job.rev),
         ~IsPut(job) => /\ ~Found(job.cell, new[job.cell], job.slug)
                        /\ ~IsCrontab(job.cell) => RegionsReadable(new[job.cell])
  PROVE  Underway(Tail(todo), new, wanted)
<1>1. PICK tail : tail = Tail(todo)
  OBVIOUS
<1>2. /\ \A i \in DOMAIN tail : i + 1 \in DOMAIN todo /\ tail[i] = todo[i + 1]
      /\ 1 \in DOMAIN todo /\ todo[1] = job /\ job \in Jobs
      /\ \A i \in DOMAIN todo : i # 1 => \E j \in DOMAIN tail : tail[j] = todo[i]
  <2>1. PICK n \in Nat : DOMAIN todo = 1..n /\ n = Len(todo)
    BY DEF Jobs
  <2>2. n # 0
    BY <2>1
  <2>3. DOMAIN tail = 1..n - 1 /\ \A i \in 1..n - 1 : tail[i] = todo[i + 1]
    BY <1>1, <2>1, <2>2
  <2>4. \A i \in DOMAIN todo : i # 1 => i - 1 \in DOMAIN tail /\ tail[i - 1] = todo[i]
    BY <2>1, <2>3
  <2>5. job \in Jobs
    BY HeadFacts
  <2>6. /\ \A i \in DOMAIN tail : i + 1 \in DOMAIN todo /\ tail[i] = todo[i + 1]
        /\ 1 \in DOMAIN todo /\ todo[1] = job
    BY <1>1, TailJobs
  <2>7. QED
    BY <2>4, <2>5, <2>6
<1>3. /\ job.cell \in Cells /\ job.slug \in Slugs
      /\ ~IsCrontab(job.cell) => job.cell \in FileCells /\ job.cell[2] = job.slug
      /\ IF IsPut(job) THEN job.slug \in DOMAIN wanted /\ job.rev = wanted[job.slug]
         ELSE job.slug \notin DOMAIN wanted
  BY <1>2, CellOfJob DEF Underway
<1>4. \A i \in DOMAIN tail :
         IF IsPut(tail[i])
         THEN tail[i].slug \in DOMAIN wanted /\ tail[i].rev = wanted[tail[i].slug]
         ELSE tail[i].slug \notin DOMAIN wanted
  BY <1>2 DEF Underway
<1>5. \A cell \in CrontabCells : cell \in Cells /\ IsCrontab(cell)
  BY DEF Cells, IsCrontab
<1>6. \A cell \in FileCells : cell \in Cells
  BY DEF Cells
<1>7. \A cell \in CrontabCells : Tidy(new[cell])
  BY <1>5 DEF Differ, Underway
<1>8. ASSUME NEW cell \in FileCells
      PROVE  /\ cell[2] \notin DOMAIN wanted => RegionsReadable(new[cell])
             /\ cell[2] \in Copies => FindManagedRegions(new[cell]) = {}
  <2>1. CASE cell # job.cell
    <3>1. new[cell] = on[cell]
      BY <1>6, <2>1 DEF Differ
    <3>2. QED
      BY <3>1 DEF Underway
  <2>2. CASE cell = job.cell
    <3>1. ~IsCrontab(cell)
      <4>1. PICK d \in Directories, name \in Names : cell = <<d, name>>
        BY DEF FileCells
      <4>2. \A c \in Crontabs : c # d
        BY DeploymentAssumption
      <4>3. QED
        BY <4>1, <4>2 DEF IsCrontab, CrontabCells
    <3>2. cell[2] = job.slug
      BY <1>3, <2>2, <3>1
    <3>3. cell[2] \notin Copies
      BY <1>3, <3>2, DeploymentAssumption
    <3>4. QED
      BY <1>3, <2>2, <3>1, <3>2, <3>3
  <2>3. QED
    BY <2>1, <2>2
<1>9. ASSUME NEW s \in DOMAIN wanted
      PROVE  Configured(wanted[s]) /\ (ToPut(tail, s) \/ Current(new, s, wanted[s]))
  <2>1. Configured(wanted[s]) /\ (ToPut(todo, s) \/ Current(on, s, wanted[s]))
    BY DEF Underway
  <2>2. s \in Slugs /\ wanted[s] \in Revs
    BY DesiredFacts
  <2>3. CASE s = job.slug
    <3>1. IsPut(job)
      BY <1>3, <2>3
    <3>2. QED
      BY <1>3, <2>1, <2>3, <3>1
  <2>4. CASE s # job.slug /\ Current(on, s, wanted[s])
    BY <1>2, <2>1, <2>2, <2>4, OthersCurrent
  <2>5. CASE s # job.slug /\ ToPut(todo, s)
    BY <1>2, <2>1, <2>5 DEF ToPut
  <2>6. QED
    BY <2>1, <2>3, <2>4, <2>5
<1>10. ASSUME NEW s \in Slugs \ DOMAIN wanted, NEW cell \in Cells, Found(cell, new[cell], s)
       PROVE  ToDrop(tail, s, cell)
  <2>1. CASE s = job.slug
    <3>1. ~IsPut(job) /\ cell # job.cell
      BY <1>3, <1>10, <2>1
    <3>2. new[cell] = on[cell]
      BY <3>1 DEF Differ
    <3>3. PICK i \in DOMAIN todo : todo[i] = DropOf(s, cell)
      BY <1>10, <3>2 DEF Underway, ToDrop
    <3>4. i # 1
      BY <1>2, <3>1, <3>3 DEF DropOf
    <3>5. QED
      BY <1>2, <3>3, <3>4 DEF ToDrop
  <2>2. CASE s # job.slug
    <3>1. Found(cell, on[cell], s)
      BY <1>2, <1>10, <2>2, OthersFound
    <3>2. PICK i \in DOMAIN todo : todo[i] = DropOf(s, cell)
      BY <3>1 DEF Underway, ToDrop
    <3>3. i # 1
      BY <1>2, <2>2, <3>2 DEF DropOf
    <3>4. QED
      BY <1>2, <3>2, <3>3 DEF ToDrop
  <2>3. QED
    BY <2>1, <2>2
<1>11. QED
  BY <1>1, <1>4, <1>7, <1>8, <1>9, <1>10 DEF Underway

\* What is read back after a job as it should be takes the job off the list.
LEMMA VerifiedOff ==
  ASSUME NEW todo \in Seq(Jobs), todo # <<>>, NEW job, job = Head(todo),
         NEW on \in [Cells -> Texts], NEW new \in [Cells -> Texts],
         NEW wanted \in Desireds, Underway(todo, on, wanted),
         new = [on EXCEPT ![job.cell] = NewText(job, on[job.cell])], Verified(job, new)
  PROVE  Underway(Tail(todo), new, wanted)
<1>1. job \in Jobs
  BY HeadFacts
<1>2. PICK c, s, rev : c = job.cell /\ s = job.slug /\ rev = job.rev
  OBVIOUS
<1>3. /\ c \in Cells /\ s \in Slugs
      /\ IsPut(job) => rev \in Revs /\ Configured(rev) /\ c = CellOf(s, rev)
                       /\ (IsCrontab(c) <=> ~WritesAFile(rev))
  BY <1>1, <1>2, CellOfJob
<1>4. PICK text, after : text = on[c] /\ after = new[c]
  OBVIOUS
<1>5. /\ text \in Texts /\ after \in Texts /\ after = NewText(job, text)
      /\ \A cell \in Cells \ {c} : new[cell] = on[cell]
  BY <1>2, <1>3, <1>4
<1>6. IsCrontab(c) => Tidy(text)
  BY <1>4 DEF Underway, IsCrontab
<1>7. CASE IsPut(job)
  <2>1. rev # NoRev
    BY <1>2, <1>7 DEF IsPut
  <2>2. CASE IsCrontab(c)
    <3>1. /\ ~WritesAFile(rev) /\ ~Ambiguous(new, s, rev)
          /\ CurrentContent(new, s, rev) = RenderArtefact(s, rev)
      BY <1>2, <1>3, <1>7, <2>1, <2>2 DEF Verified
    <3>2. /\ Deploys[rev].shape = "region" => RegionsReadable(after)
          /\ Deploys[rev].shape = "block" => BlockReadable(after)
      <4>1. new[CellOf(s, rev)] = after
        BY <1>3, <1>4, <1>7
      <4>2. QED
        BY <3>1, <4>1 DEF Ambiguous, WritesAFile
    <3>3. Keeping(after, text, s) /\ Tidy(after)
      BY <1>1, <1>2, <1>5, <1>6, <1>7, <2>2, <3>2, PutKeeps
    <3>4. Current(new, s, rev)
      BY <1>3, <1>4, <1>7, <3>1, <3>3, CurrentMeans
    <3>5. Differ(new, on, c, s)
      BY <1>4, <1>5, <3>3 DEF Differ
    <3>6. QED
      BY <1>2, <1>7, <3>4, <3>5, JobOff
  <2>3. CASE ~IsCrontab(c)
    <3>1. WritesAFile(rev)
      BY <1>3, <1>7, <2>3
    <3>2. new[c] = RenderArtefact(s, rev)
      BY <1>2, <2>1, <3>1 DEF Verified
    <3>3. Current(new, s, rev)
      BY <1>3, <1>7, <3>1, <3>2 DEF Current
    <3>4. Differ(new, on, c, s)
      BY <1>5, <2>3 DEF Differ
    <3>5. QED
      BY <1>2, <1>7, <3>3, <3>4, JobOff
  <2>4. QED
    BY <2>2, <2>3
<1>8. CASE ~IsPut(job)
  <2>1. rev = NoRev
    BY <1>2, <1>8 DEF IsPut
  <2>2. CASE IsCrontab(c)
    <3>1. ~JobRaises(job, after) /\ ~Present(job, after)
      BY <1>2, <1>4, <2>1, <2>2 DEF Verified
    <3>2. RegionsReadable(after) /\ BlockReadable(after)
      BY <1>2, <2>1, <2>2, <3>1 DEF JobRaises
    <3>3. Keeping(after, text, s) /\ Tidy(after)
      BY <1>1, <1>2, <1>5, <1>6, <1>8, <2>2, <3>2, DropKeeps DEF Readable
    <3>4. ~Found(c, after, s)
      BY <1>2, <2>2, <3>1 DEF Present, Found, HasRegion, HasMember
    <3>5. Differ(new, on, c, s)
      BY <1>4, <1>5, <3>3 DEF Differ
    <3>6. QED
      BY <1>2, <1>4, <1>8, <2>2, <3>4, <3>5, JobOff
  <2>3. CASE ~IsCrontab(c)
    <3>1. after = <<>>
      BY <1>2, <1>4, <2>1, <2>3 DEF Verified
    <3>2. \A marks : At(after, marks) = {}
      BY <3>1 DEF At
    <3>3. FindManagedRegions(after) = {} /\ RegionsReadable(after)
      BY <3>2 DEF FindManagedRegions, RegionsReadable
    <3>4. ~Found(c, after, s)
      BY <2>3, <3>3 DEF Found
    <3>5. Differ(new, on, c, s)
      BY <1>5, <2>3 DEF Differ
    <3>6. QED
      BY <1>2, <1>4, <1>8, <3>3, <3>4, <3>5, JobOff
  <2>4. QED
    BY <2>2, <2>3
<1>9. QED
  BY <1>7, <1>8

\* Where nothing is to be removed the job is off the list as well.
LEMMA MissingOff ==
  ASSUME NEW todo \in Seq(Jobs), todo # <<>>, NEW job, job = Head(todo),
         NEW on \in [Cells -> Texts], NEW wanted \in Desireds, Underway(todo, on, wanted),
         ~IsPut(job), ~JobRaises(job, on[job.cell]), ~Present(job, on[job.cell])
  PROVE  Underway(Tail(todo), on, wanted)
<1>1. job \in Jobs
  BY HeadFacts
<1>2. PICK c, s : c = job.cell /\ s = job.slug
  OBVIOUS
<1>3. c \in Cells /\ on[c] \in Texts
  BY <1>1, <1>2, CellOfJob
<1>4. IsCrontab(c) => Tidy(on[c])
  BY DEF Underway, IsCrontab
<1>5. Differ(on, on, c, s)
  BY <1>3, <1>4 DEF Differ, Keeping, KeptOf, Tidy
<1>6. RegionsReadable(on[c])
  BY <1>2 DEF JobRaises, IsPut
<1>7. ~Found(c, on[c], s)
  BY <1>2 DEF Present, Found, HasRegion, HasMember
<1>8. QED
  BY <1>2, <1>5, <1>6, <1>7, JobOff

-----------------------------------------------------------------------------
\* The beginning and the end of the list.

LEMMA FileCellFacts ==
  ASSUME NEW cell \in FileCells
  PROVE  /\ cell \in Cells /\ ~IsCrontab(cell)
         /\ cell[2] \in Slugs => cell \in CellsOf(cell[2])
         /\ cell[2] \in Slugs \cup Copies
<1>1. PICK d \in Directories, name \in Names : cell = <<d, name>>
  BY DEF FileCells
<1>2. \A c \in Crontabs : c # d
  BY DeploymentAssumption
<1>3. ~IsCrontab(cell)
  BY <1>1, <1>2 DEF IsCrontab, CrontabCells
<1>4. QED
  BY <1>1, <1>3 DEF Cells, CellsOf, Names

\* Nothing is left to do: the host is what is wanted.
LEMMA NothingLeft ==
  ASSUME NEW on \in [Cells -> Texts], NEW wanted \in Desireds, Underway(<<>>, on, wanted)
  PROVE  /\ VerifyMatches(on, wanted)
         /\ \A s \in DOMAIN wanted :
               CurrentContent(on, s, wanted[s]) = RenderArtefact(s, wanted[s])
<1>1. /\ \A cell \in CrontabCells : Tidy(on[cell])
      /\ \A cell \in FileCells :
            /\ cell[2] \notin DOMAIN wanted => RegionsReadable(on[cell])
            /\ cell[2] \in Copies => FindManagedRegions(on[cell]) = {}
      /\ \A s \in DOMAIN wanted : Configured(wanted[s]) /\ Current(on, s, wanted[s])
      /\ \A s \in Slugs \ DOMAIN wanted : \A cell \in Cells : ~Found(cell, on[cell], s)
  BY DEF Underway, ToPut, ToDrop
<1>2. \A cell \in CrontabCells : cell \in Cells /\ IsCrontab(cell) /\ Readable(on[cell])
  BY <1>1, TidyMeans DEF Cells, IsCrontab
<1>3. ASSUME NEW s \in DOMAIN wanted
      PROVE  /\ ~Ambiguous(on, s, wanted[s]) /\ Configured(wanted[s])
             /\ CurrentContent(on, s, wanted[s]) = RenderArtefact(s, wanted[s])
  <2>1. PICK rev : rev = wanted[s]
    OBVIOUS
  <2>2. s \in Slugs /\ rev \in Revs /\ Configured(rev)
    BY <1>1, <2>1, DesiredFacts
  <2>3. ~WritesAFile(rev) => Tidy(on[CellOf(s, rev)])
    BY <1>1, <2>2, CellFacts DEF IsCrontab
  <2>4. QED
    BY <1>1, <2>1, <2>2, <2>3, CurrentMeans
<1>4. ~PlanRaises(on, wanted)
  BY <1>1, <1>2, <1>3 DEF PlanRaises
<1>5. Puts(on, wanted) = {}
  BY <1>3 DEF Puts
<1>6. ASSUME NEW cell \in CrontabCells, NEW h \in Held(on[cell])
      PROVE  h.slug \in DOMAIN wanted
  <2>1. h.slug \in Slugs
    BY <1>2, HeldSlugs
  <2>2. Found(cell, on[cell], h.slug)
    BY <1>2 DEF Held, Found
  <2>3. QED
    BY <1>1, <1>2, <2>1, <2>2
<1>7. ASSUME NEW cell \in FileCells, cell[2] \notin DOMAIN wanted
      PROVE  FindManagedRegions(on[cell]) = {}
  <2>1. CASE cell[2] \in Copies
    BY <1>1, <2>1
  <2>2. CASE cell[2] \in Slugs
    BY <1>1, <1>7, <2>2, FileCellFacts DEF Found
  <2>3. QED
    BY <2>1, <2>2, FileCellFacts
<1>8. RemovalEntries(on, wanted) = {}
  <2>1. {h \in UNION {Held(on[cell]) : cell \in CrontabCells} :
            h.slug \notin DOMAIN wanted} = {}
    BY <1>6
  <2>2. {c \in FileCells : /\ c[2] \notin DOMAIN wanted
                           /\ FindManagedRegions(on[c]) # {}} = {}
    BY <1>7
  <2>3. QED
    BY <2>1, <2>2 DEF RemovalEntries
<1>9. Removals(on, wanted) = {}
  BY <1>8 DEF Removals
<1>10. QED
  BY <1>3, <1>4, <1>5, <1>9 DEF VerifyMatches

\* Where files go by their slugs nothing is both wanted and removed, and whatever
\* is found of what is not wanted is to be removed.
LEMMA RemovalsApart ==
  ASSUME NEW on \in [Cells -> Texts], NEW wanted \in Desireds, NamedAfterSlugs(on)
  PROVE  /\ Removals(on, wanted) \cap DOMAIN wanted = {}
         /\ \A s \in Slugs \ DOMAIN wanted : \A cell \in Cells :
               Found(cell, on[cell], s) => s \in Removals(on, wanted) /\ cell \in CellsOf(s)
         /\ \A cell \in FileCells : cell[2] \in Copies => FindManagedRegions(on[cell]) = {}
<1> DEFINE first(cell) == FirstOf(FindManagedRegions(on[cell]))
           filed == {c \in FileCells : /\ c[2] \notin DOMAIN wanted
                                       /\ FindManagedRegions(on[c]) # {}}
           inTabs == {h \in UNION {Held(on[cell]) : cell \in CrontabCells} :
                         h.slug \notin DOMAIN wanted}
           inFiles == {[slug |-> first(cell).slug, task |-> first(cell).task] : cell \in filed}
<1>1. RemovalEntries(on, wanted) = inTabs \cup inFiles
  BY DEF RemovalEntries
<1>2. ASSUME NEW cell \in FileCells, NEW r \in FindManagedRegions(on[cell])
      PROVE  r.slug = cell[2] /\ r.slug \in Slugs
  <2>1. on[cell] \in Texts
    BY FileCellFacts
  <2>2. /\ r.start \in DOMAIN on[cell] /\ on[cell][r.start].mark = "begin"
        /\ r.slug = on[cell][r.start].slug /\ r.slug \in Slugs
    BY <2>1, RegionFacts
  <2>3. r.start \in At(on[cell], {"begin"})
    BY <2>2 DEF At
  <2>4. QED
    BY <2>2, <2>3 DEF NamedAfterSlugs
<1>3. ASSUME NEW cell \in FileCells, FindManagedRegions(on[cell]) # {}
      PROVE  first(cell) \in FindManagedRegions(on[cell]) /\ first(cell).slug = cell[2]
  <2>1. on[cell] \in Texts
    BY FileCellFacts
  <2>2. \A r \in FindManagedRegions(on[cell]) : r.start \in Nat
    BY <2>1, RegionFacts, AtFacts
  <2>3. first(cell) \in FindManagedRegions(on[cell])
    BY <1>3, <2>2, FirstOfFacts
  <2>4. QED
    BY <1>2, <2>3
<1> HIDE DEF first
<1>4. \A e \in inFiles : e.slug \notin DOMAIN wanted
  <2>1. \A cell \in filed : first(cell).slug \notin DOMAIN wanted
    BY <1>3
  <2>2. QED
    BY <2>1
<1>5. Removals(on, wanted) \cap DOMAIN wanted = {}
  BY <1>1, <1>4 DEF Removals
<1>6. ASSUME NEW s \in Slugs \ DOMAIN wanted, NEW cell \in Cells, Found(cell, on[cell], s)
      PROVE  s \in Removals(on, wanted) /\ cell \in CellsOf(s)
  <2>1. CASE IsCrontab(cell)
    <3>1. PICK r \in FindManagedRegions(on[cell]) \cup FindBlockMembers(on[cell]) :
             r.slug = s
      BY <1>6, <2>1 DEF Found
    <3>2. PICK h : h = [slug |-> r.slug, task |-> r.task]
      OBVIOUS
    <3>3. h \in Held(on[cell]) /\ h.slug = s
      BY <3>1, <3>2 DEF Held
    <3>4. h \in inTabs
      BY <2>1, <3>3 DEF IsCrontab
    <3>5. QED
      BY <1>1, <2>1, <3>3, <3>4 DEF Removals, CellsOf, IsCrontab
  <2>2. CASE ~IsCrontab(cell)
    <3>1. cell \in FileCells /\ cell[2] = s /\ FindManagedRegions(on[cell]) # {}
      BY <1>6, <2>2 DEF Found, Cells, IsCrontab
    <3>2. cell \in filed /\ first(cell).slug = s
      BY <1>3, <3>1
    <3>3. PICK e : e = [slug |-> first(cell).slug, task |-> first(cell).task]
      OBVIOUS
    <3>4. e \in inFiles /\ e.slug = s
      BY <3>2, <3>3
    <3>5. QED
      BY <1>1, <3>1, <3>4, FileCellFacts DEF Removals
  <2>3. QED
    BY <2>1, <2>2
<1>7. ASSUME NEW cell \in FileCells, cell[2] \in Copies
      PROVE  FindManagedRegions(on[cell]) = {}
  BY <1>2, <1>7, DeploymentAssumption
<1>8. QED
  BY <1>5, <1>6, <1>7

\* Whatever is to be put is on the list.
LEMMA PutsListed ==
  ASSUME NEW on, NEW desired \in Desireds, NEW s \in Puts(on, desired)
  PROVE  \E i \in DOMAIN PutJobs(on, desired) : PutJobs(on, desired)[i].slug = s
<1>1. PICK slugs, S : S = Puts(on, desired) /\ slugs = Chosen(TaskOrder, S)
  OBVIOUS
<1>2. s \in Slugs
  BY DesiredFacts DEF Puts
<1>3. PICK i \in DOMAIN TaskOrder : TaskOrder[i] = s
  BY <1>2 DEF Slugs
<1>4. TaskOrder \in Seq(Words)
  BY DeploymentAssumption
<1>4a. \A k \in DOMAIN TaskOrder : TaskOrder[k] \in S =>
          \E j \in DOMAIN slugs : slugs[j] = TaskOrder[k]
  <2>1. PICK W : W = Words \cap S
    OBVIOUS
  <2>2. /\ slugs \in Seq(W) /\ Len(slugs) <= Len(TaskOrder)
        /\ \A k \in DOMAIN TaskOrder : TaskOrder[k] \in S =>
              \E j \in DOMAIN slugs : slugs[j] = TaskOrder[k]
    BY <1>1, <1>4, <2>1, ChosenFacts
  <2>3. QED
    BY <2>2
<1>5. PICK j \in DOMAIN slugs : slugs[j] = s
  BY <1>1, <1>3, <1>4a
<1>6. /\ DOMAIN PutJobs(on, desired) = DOMAIN slugs
      /\ PutJobs(on, desired)[j].slug = slugs[j]
  BY <1>1 DEF PutJobs
<1>7. QED
  BY <1>5, <1>6

(***************************************************************************)
(* A plan for what is wanted, over files that go by their slugs and         *)
(* crontabs whose block is apart, leads there.                              *)
(***************************************************************************)
LEMMA PlanUnderway ==
  ASSUME NEW on \in [Cells -> Texts], NEW wanted \in Desireds, ~PlanRaises(on, wanted),
         NamedAfterSlugs(on), \A cell \in CrontabCells : Apart(on[cell]),
         NEW todo, todo = PutJobs(on, wanted) \o DropJobs(Removals(on, wanted))
  PROVE  Underway(todo, on, wanted)
<1>1. PICK puts, drops, gone : /\ gone = Removals(on, wanted) /\ puts = PutJobs(on, wanted)
                               /\ drops = DropJobs(gone)
  OBVIOUS
<1>2. gone \subseteq Slugs /\ gone \cap DOMAIN wanted = {}
  BY <1>1, RemovalSlugs, RemovalsApart
<1>3. /\ puts \in Seq(Jobs) /\ drops \in Seq(Drops(gone)) /\ drops \in Seq(Jobs)
      /\ \A i \in DOMAIN puts : /\ puts[i].slug \in DOMAIN wanted /\ IsPut(puts[i])
                                /\ puts[i].rev = wanted[puts[i].slug]
      /\ \A i \in DOMAIN drops : ~IsPut(drops[i]) /\ drops[i].slug \in gone
      /\ \A s \in gone : \A cell \in CellsOf(s) :
            \E i \in DOMAIN drops : drops[i] = DropOf(s, cell)
  <2>1. puts \in Seq(Jobs)
    BY <1>1, PutJobsFacts
  <2>2. \A i \in DOMAIN puts : /\ puts[i].slug \in DOMAIN wanted /\ IsPut(puts[i])
                               /\ puts[i].rev = wanted[puts[i].slug]
    BY <1>1, PutJobsFacts, PutJobsPlanned DEF IsPut
  <2>3. /\ drops \in Seq(Drops(gone))
        /\ \A s \in gone : \A cell \in CellsOf(s) :
              \E i \in DOMAIN drops : drops[i] = DropOf(s, cell)
    BY <1>1, <1>2, DropJobsFacts
  <2>4. Drops(gone) \subseteq Jobs
    BY DEF Drops
  <2>5. drops \in Seq(Jobs) /\ \A i \in DOMAIN drops : drops[i] \in Drops(gone)
    BY <2>3, <2>4
  <2>6. \A i \in DOMAIN drops : ~IsPut(drops[i]) /\ drops[i].slug \in gone
    BY <2>5 DEF Drops, IsPut
  <2>7. QED
    BY <2>1, <2>2, <2>3, <2>5, <2>6
<1>4. /\ Len(puts) \in Nat /\ Len(drops) \in Nat
      /\ DOMAIN puts = 1..Len(puts) /\ DOMAIN drops = 1..Len(drops)
  BY <1>3
<1>5. /\ \A i \in DOMAIN puts : i \in DOMAIN todo /\ todo[i] = puts[i]
      /\ \A i \in DOMAIN drops : Len(puts) + i \in DOMAIN todo /\ todo[Len(puts) + i] = drops[i]
      /\ \A i \in DOMAIN todo : \/ i \in DOMAIN puts /\ todo[i] = puts[i]
                                \/ \E j \in DOMAIN drops : todo[i] = drops[j]
  <2>1. todo = puts \o drops
    BY <1>1
  <2>2. todo \in Seq(Jobs) /\ Joins(todo, puts, drops)
    BY <1>3, <2>1, Joined
  <2>3. DOMAIN todo = 1..Len(puts) + Len(drops)
    BY <2>2 DEF Joins
  <2>4. ASSUME NEW i \in DOMAIN todo, i \notin DOMAIN puts
        PROVE  i - Len(puts) \in DOMAIN drops /\ todo[i] = drops[i - Len(puts)]
    BY <1>4, <2>2, <2>3, <2>4 DEF Joins
  <2>5. \A i \in DOMAIN puts : i \in DOMAIN todo /\ todo[i] = puts[i]
    BY <1>4, <2>2 DEF Joins
  <2>6. \A i \in DOMAIN drops : Len(puts) + i \in DOMAIN todo /\ todo[Len(puts) + i] = drops[i]
    BY <1>4, <2>2 DEF Joins
  <2>7. QED
    BY <2>4, <2>5, <2>6
<1>6. \A i \in DOMAIN todo :
         IF IsPut(todo[i])
         THEN todo[i].slug \in DOMAIN wanted /\ todo[i].rev = wanted[todo[i].slug]
         ELSE todo[i].slug \notin DOMAIN wanted
  BY <1>2, <1>3, <1>5
<1>7. ASSUME NEW cell \in CrontabCells PROVE Tidy(on[cell])
  <2>1. on[cell] \in Texts /\ Readable(on[cell])
    BY DEF PlanRaises, Cells
  <2>2. QED
    BY <2>1, TidyMeans
<1>8. \A cell \in FileCells :
         /\ cell[2] \notin DOMAIN wanted => RegionsReadable(on[cell])
         /\ cell[2] \in Copies => FindManagedRegions(on[cell]) = {}
  BY RemovalsApart DEF PlanRaises
<1>9. ASSUME NEW s \in DOMAIN wanted
      PROVE  Configured(wanted[s]) /\ (ToPut(todo, s) \/ Current(on, s, wanted[s]))
  <2>1. PICK rev : rev = wanted[s]
    OBVIOUS
  <2>2. s \in Slugs /\ rev \in Revs
    BY <2>1, DesiredFacts
  <2>3. Configured(rev) /\ ~Ambiguous(on, s, rev)
    BY <2>1 DEF PlanRaises
  <2>4. CASE CurrentContent(on, s, rev) = RenderArtefact(s, rev)
    <3>1. ~WritesAFile(rev) => Tidy(on[CellOf(s, rev)])
      BY <1>7, <2>2, <2>3, CellFacts DEF IsCrontab
    <3>2. Current(on, s, rev)
      BY <2>2, <2>3, <2>4, <3>1, CurrentMeans
    <3>3. QED
      BY <2>1, <2>3, <3>2
  <2>5. CASE CurrentContent(on, s, rev) # RenderArtefact(s, rev)
    <3>1. s \in Puts(on, wanted)
      BY <2>1, <2>5 DEF Puts
    <3>2. PICK i \in DOMAIN puts : puts[i].slug = s
      BY <1>1, <3>1, PutsListed
    <3>3. ToPut(todo, s)
      BY <1>3, <1>5, <3>2 DEF ToPut
    <3>4. QED
      BY <2>1, <2>3, <3>3
  <2>6. QED
    BY <2>4, <2>5
<1>10. ASSUME NEW s \in Slugs \ DOMAIN wanted, NEW cell \in Cells, Found(cell, on[cell], s)
       PROVE  ToDrop(todo, s, cell)
  <2>1. s \in gone /\ cell \in CellsOf(s)
    BY <1>1, <1>10, RemovalsApart
  <2>2. PICK i \in DOMAIN drops : drops[i] = DropOf(s, cell)
    BY <1>3, <2>1
  <2>3. QED
    BY <1>5, <2>2 DEF ToDrop
<1>11. QED
  BY <1>6, <1>7, <1>8, <1>9, <1>10 DEF Underway

-----------------------------------------------------------------------------
\* The applies.

\* What the pages so far say is what is wanted.
Reading(step, f, wanted, active) ==
    /\ step = "paging" =>
          /\ f.offset <= Len(active)
          /\ DOMAIN f.desired = {active[i] : i \in 1..f.offset}
          /\ \A s \in DOMAIN f.desired : f.desired[s] = wanted[s]
    /\ step = "plan" => f.desired = wanted

\* A plan is being carried out, and nothing has failed.
Forward(step, f) ==
    \/ step \in {"review", "install"}
    \/ step \in {"apply", "write", "check"} /\ f.result = "applied"

Matching(step, f, on, wanted) ==
    /\ Forward(step, f) => f.removed \cap DOMAIN wanted = {}
    /\ Forward(step, f) /\ step # "check" => Underway(f.todo, on, wanted)
    /\ Forward(step, f) /\ step = "check" /\ Verified(Head(f.todo), on) =>
          Underway(Tail(f.todo), on, wanted)
    /\ step = "idle" /\ f.result = "applied" => Underway(<<>>, on, wanted)

\* The manifests are those of what is wanted, as far as they are installed.
Manifested(step, f, inst, wanted, active) ==
    /\ step = "review" => f.offset = 0
    /\ step = "install" => \A i \in 1..Len(active) : i <= f.offset =>
          inst[active[i]] = wanted[active[i]]
    /\ step \in {"apply", "write", "check", "idle"} /\ f.result = "applied" =>
          \A s \in DOMAIN wanted : inst[s] = wanted[s]

\* Nobody interferes with p, and it began on a host it can put in order.
Fit(p) ==
    /\ Alone(p) /\ NamedAfterSlugs(before[p])
    /\ \A cell \in CrontabCells : Apart(before[p][cell])

\* p is done, and no second applier was about.
Settled(p) == Fit(p) /\ ~raced /\ pc[p] = "idle" /\ frame[p].result = "applied"

\* What an applier has read, what is left to do and what is installed agree with
\* the estate, as long as nobody interferes.
MatchInv ==
    \A p \in Appliers :
        /\ pc[p] = "idle" => frame[p].removed = {}
        /\ ~raced /\ pc[p] # "idle" => ~moved[p]
        /\ ~moved[p] => Reading(pc[p], frame[p], Wanted, Active)
        /\ Fit(p) => Matching(pc[p], frame[p], host, Wanted)
        /\ Fit(p) /\ ~(raced /\ Appliers # {p}) =>
              Manifested(pc[p], frame[p], installed, Wanted, Active)
        /\ Settled(p) => \A q \in Appliers : frame[q].removed = {}

LEMMA WantedFacts ==
  ASSUME DeploymentInv
  PROVE  /\ Wanted \in Desireds /\ DOMAIN Wanted \subseteq Slugs
         /\ \A s \in DOMAIN Wanted : Wanted[s] = estate[s]
         /\ Wanted \in [DOMAIN Wanted -> Revs]
<1>1. estate \in [Slugs -> Revs \cup {NoRev}]
  BY DEF DeploymentInv, Typed
<1>2. PICK D : D = {t \in Slugs : estate[t] # NoRev}
  OBVIOUS
<1>3. D \in SUBSET Slugs /\ Wanted \in [D -> Revs] /\ DOMAIN Wanted = D
  BY <1>1, <1>2 DEF Wanted
<1>4. Wanted \in Desireds
  BY <1>3 DEF Desireds
<1>5. \A s \in DOMAIN Wanted : Wanted[s] = estate[s]
  BY DEF Wanted
<1>6. QED
  BY <1>3, <1>4, <1>5

LEMMA MatchSteps ==
  ASSUME DeploymentInv, MatchInv, NEW p \in Appliers, NEW step, NEW f, GoTo(p, step, f),
         UNCHANGED estate, raced => raced',
         \A q \in Appliers \ {p} :
            /\ before'[q] = before[q] /\ touched[q] \subseteq touched'[q]
            /\ moved'[q] = moved[q]
            /\ touched'[q] = {} => host' = host
            /\ Settled(q) => f.removed = {}
            /\ Fit(q) /\ ~raced /\ Manifested(pc[q], frame[q], installed, Wanted, Active) =>
                  Manifested(pc[q], frame[q], installed', Wanted, Active),
         step = "idle" => f.removed = {},
         ~raced' /\ step # "idle" => ~moved'[p],
         ~moved'[p] => Reading(step, f, Wanted, Active),
         Fit(p)' => Matching(step, f, host', Wanted),
         Fit(p)' /\ ~(raced' /\ Appliers # {p}) =>
            Manifested(step, f, installed', Wanted, Active),
         Fit(p)' /\ ~raced' /\ step = "idle" /\ f.result = "applied" =>
            \A q \in Appliers \ {p} : frame[q].removed = {}
  PROVE  MatchInv'
<1>1. Wanted' = Wanted /\ Active' = Active
  BY DEF Wanted, Active
<1>2. /\ pc'[p] = step /\ frame'[p] = f
      /\ \A q \in Appliers \ {p} : pc'[q] = pc[q] /\ frame'[q] = frame[q]
  BY DEF GoTo, DeploymentInv, Typed
<1>3. ASSUME NEW q \in Appliers \ {p}, Fit(q)' PROVE Fit(q) /\ host' = host
  BY <1>3 DEF Fit, Alone
<1>4. ASSUME NEW q \in Appliers \ {p}
      PROVE  /\ (pc[q] = "idle" => frame[q].removed = {})'
             /\ (~raced /\ pc[q] # "idle" => ~moved[q])'
             /\ (~moved[q] => Reading(pc[q], frame[q], Wanted, Active))'
             /\ (Fit(q) => Matching(pc[q], frame[q], host, Wanted))'
             /\ (Fit(q) /\ ~(raced /\ Appliers # {q}) =>
                   Manifested(pc[q], frame[q], installed, Wanted, Active))'
             /\ (Settled(q) => \A o \in Appliers : frame[o].removed = {})'
  <2>1. pc'[q] = pc[q] /\ frame'[q] = frame[q]
    BY <1>2
  <2>2. (pc[q] = "idle" => frame[q].removed = {})'
    BY <2>1 DEF MatchInv
  <2>3. (~raced /\ pc[q] # "idle" => ~moved[q])'
    BY <2>1 DEF MatchInv
  <2>4. (~moved[q] => Reading(pc[q], frame[q], Wanted, Active))'
    BY <1>1, <2>1 DEF MatchInv
  <2>5. (Fit(q) => Matching(pc[q], frame[q], host, Wanted))'
    BY <1>1, <1>3, <2>1 DEF MatchInv
  <2>6. ASSUME Fit(q)', ~(raced' /\ Appliers # {q})
        PROVE  Manifested(pc[q], frame[q], installed, Wanted, Active)'
    <3>1. Fit(q) /\ ~raced
      BY <1>3, <2>6
    <3>2. Manifested(pc[q], frame[q], installed', Wanted, Active)
      BY <3>1 DEF MatchInv
    <3>3. QED
      BY <1>1, <2>1, <3>2
  <2>7. ASSUME Settled(q)', NEW o \in Appliers PROVE frame'[o].removed = {}
    <3>1. Settled(q)
      BY <1>3, <2>1, <2>7 DEF Settled
    <3>2. CASE o = p
      BY <1>2, <3>1, <3>2
    <3>3. CASE o # p
      BY <1>2, <3>1, <3>3 DEF MatchInv
    <3>4. QED
      BY <3>2, <3>3
  <2>8. QED
    BY <2>2, <2>3, <2>4, <2>5, <2>6, <2>7
<1>5. /\ (pc[p] = "idle" => frame[p].removed = {})'
      /\ (~raced /\ pc[p] # "idle" => ~moved[p])'
      /\ (~moved[p] => Reading(pc[p], frame[p], Wanted, Active))'
      /\ (Fit(p) => Matching(pc[p], frame[p], host, Wanted))'
      /\ (Fit(p) /\ ~(raced /\ Appliers # {p}) =>
            Manifested(pc[p], frame[p], installed, Wanted, Active))'
      /\ (Settled(p) => \A o \in Appliers : frame[o].removed = {})'
  <2>1. /\ (pc[p] = "idle" => frame[p].removed = {})'
        /\ (~raced /\ pc[p] # "idle" => ~moved[p])'
    BY <1>2
  <2>2. (~moved[p] => Reading(pc[p], frame[p], Wanted, Active))'
    BY <1>1, <1>2
  <2>3. (Fit(p) => Matching(pc[p], frame[p], host, Wanted))'
    BY <1>1, <1>2
  <2>4. (Fit(p) /\ ~(raced /\ Appliers # {p}) =>
            Manifested(pc[p], frame[p], installed, Wanted, Active))'
    BY <1>1, <1>2
  <2>5. ASSUME Settled(p)', NEW o \in Appliers PROVE frame'[o].removed = {}
    <3>1. Fit(p)' /\ ~raced' /\ step = "idle" /\ f.result = "applied"
      BY <1>2, <2>5 DEF Settled
    <3>2. QED
      BY <1>2, <3>1
  <2>6. QED
    BY <2>1, <2>2, <2>3, <2>4, <2>5
<1>6. QED
  BY <1>4, <1>5 DEF MatchInv

\* A step that changes neither the host nor the records.
LEMMA MatchQuiet ==
  ASSUME DeploymentInv, MatchInv, NEW p \in Appliers, NEW step, NEW f, GoTo(p, step, f),
         UNCHANGED <<estate, host, Ghosts>>, pc[p] # "idle",
         \A q \in Appliers \ {p} :
            /\ Settled(q) => f.removed = {}
            /\ Fit(q) /\ ~raced /\ Manifested(pc[q], frame[q], installed, Wanted, Active) =>
                  Manifested(pc[q], frame[q], installed', Wanted, Active),
         step = "idle" => f.removed = {},
         ~moved[p] => Reading(step, f, Wanted, Active),
         Fit(p) => Matching(step, f, host, Wanted),
         Fit(p) /\ ~(raced /\ Appliers # {p}) =>
            Manifested(step, f, installed', Wanted, Active),
         Fit(p) /\ ~raced /\ step = "idle" /\ f.result = "applied" =>
            \A q \in Appliers \ {p} : frame[q].removed = {}
  PROVE  MatchInv'
<1>1. /\ UNCHANGED <<before, touched, moved, raced, host, estate>>
      /\ ~raced => ~moved[p]
  BY DEF Ghosts, MatchInv
<1>2. Fit(p)' <=> Fit(p)
  BY <1>1 DEF Fit, Alone
<1>3. /\ raced' = raced /\ moved' = moved /\ host' = host /\ touched' = touched
      /\ before' = before
  BY <1>1
<1>4. QED
  BY <1>1, <1>2, <1>3, MatchSteps

\* The applier has failed, or goes back.
LEMMA MatchFails ==
  ASSUME DeploymentInv, MatchInv, NEW p \in Appliers, NEW f, GoTo(p, "restore", f),
         f.removed = frame[p].removed, pc[p] # "idle",
         UNCHANGED <<estate, host, installed, Ghosts>>
  PROVE  MatchInv'
<1>1. PICK step : step = "restore"
  OBVIOUS
<1>2. /\ Reading(step, f, Wanted, Active) /\ Matching(step, f, host, Wanted)
      /\ Manifested(step, f, installed', Wanted, Active)
  BY <1>1 DEF Reading, Matching, Manifested, Forward
<1>3. \A q \in Appliers \ {p} : Settled(q) => f.removed = {}
  BY DEF MatchInv
<1>4. installed' = installed
  OBVIOUS
<1>5. QED
  BY <1>1, <1>2, <1>3, <1>4, MatchQuiet

\* The applier ends without success.
LEMMA MatchEnds ==
  ASSUME DeploymentInv, MatchInv, NEW p \in Appliers, NEW result \in Results \ {"applied"},
         EndWith(p, result), pc[p] # "idle", UNCHANGED <<estate, host, Ghosts>>,
         \A q \in Appliers \ {p} :
            Fit(q) /\ ~raced /\ Manifested(pc[q], frame[q], installed, Wanted, Active) =>
               Manifested(pc[q], frame[q], installed', Wanted, Active)
  PROVE  MatchInv'
<1>1. PICK f, step : f = [FreshFrame EXCEPT !.result = result] /\ step = "idle"
  OBVIOUS
<1>2. GoTo(p, step, f)
  BY <1>1 DEF EndWith
<1>3. f.removed = {} /\ f.result # "applied"
  BY <1>1 DEF FreshFrame
<1>4. /\ Reading(step, f, Wanted, Active) /\ Matching(step, f, host, Wanted)
      /\ Manifested(step, f, installed', Wanted, Active)
  BY <1>1, <1>3 DEF Reading, Matching, Manifested, Forward
<1>5. QED
  BY <1>1, <1>2, <1>3, <1>4, MatchQuiet

LEMMA ActiveFacts ==
  /\ Active \in Seq(DOMAIN Wanted) /\ Len(Active) \in Nat /\ DOMAIN Active = 1..Len(Active)
  /\ \A i \in 1..Len(Active) : Active[i] \in DOMAIN Wanted
  /\ \A s \in DOMAIN Wanted : \E i \in 1..Len(Active) : Active[i] = s
<1>1. TaskOrder \in Seq(Words)
  BY DeploymentAssumption
<1>2. 0 \in 0..Len(TaskOrder)
  BY <1>1
<1>3. /\ Active \in Seq(DOMAIN Wanted)
      /\ \A s \in DOMAIN Wanted : \E i \in DOMAIN Active : Active[i] = s
  BY <1>2, PageFacts
<1>4. QED
  BY <1>3

\* What is installed from the estate is what is wanted.
LEMMA MoreWanted ==
  ASSUME DeploymentInv, NEW slugs, NEW step, NEW f,
         Manifested(step, f, installed, Wanted, Active)
  PROVE  Manifested(step, f, WithManifests(slugs), Wanted, Active)
<1>1. PICK inst : inst = WithManifests(slugs)
  OBVIOUS
<1>2. \A s \in DOMAIN Wanted : installed[s] = Wanted[s] => inst[s] = Wanted[s]
  BY <1>1, WantedFacts DEF WithManifests
<1>3. \A i \in 1..Len(Active) : Active[i] \in DOMAIN Wanted
  BY ActiveFacts
<1>4. QED
  BY <1>1, <1>2, <1>3 DEF Manifested

LEMMA BeginMatch ==
  ASSUME DeploymentInv, MatchInv, NEW p \in Appliers, Begin(p)
  PROVE  MatchInv'
<1>1. PICK step, f : step = "paging" /\ f = FreshFrame
  OBVIOUS
<1>2. /\ GoTo(p, step, f) /\ UNCHANGED <<estate, host, installed>>
      /\ before' = [before EXCEPT ![p] = host] /\ touched' = [touched EXCEPT ![p] = {}]
      /\ moved' = [moved EXCEPT ![p] = FALSE] /\ raced' = (raced \/ Running)
  BY <1>1 DEF Begin, Starts
<1>3. /\ before \in [Appliers -> [Cells -> Texts]] /\ touched \in [Appliers -> SUBSET Cells]
      /\ moved \in [Appliers -> BOOLEAN]
  BY DEF DeploymentInv, Typed
<1>4. /\ \A q \in Appliers \ {p} : /\ before'[q] = before[q] /\ touched'[q] = touched[q]
                                   /\ moved'[q] = moved[q]
      /\ moved'[p] = FALSE
  BY <1>2, <1>3
<1>5. /\ f.removed = {} /\ f.offset = 0 /\ DOMAIN f.desired = {}
  BY <1>1, FreshFrames
<1>6. Reading(step, f, Wanted, Active)
  <2>1. 0 <= Len(Active)
    BY ActiveFacts
  <2>2. DOMAIN f.desired = {Active[i] : i \in 1..f.offset}
    BY <1>5
  <2>3. QED
    BY <1>1, <1>5, <2>1, <2>2 DEF Reading
<1>7. /\ Matching(step, f, host', Wanted) /\ Manifested(step, f, installed', Wanted, Active)
  BY <1>1 DEF Matching, Manifested, Forward
<1>8. raced => raced'
  BY <1>2
<1>9. QED
  BY <1>1, <1>2, <1>4, <1>5, <1>6, <1>7, <1>8, MatchSteps

LEMMA UndeployMatch ==
  ASSUME DeploymentInv, MatchInv, NEW p \in Appliers,
         NEW slugs \in SUBSET Slugs, Undeploy(p, slugs)
  PROVE  MatchInv'
<1>1. PICK step, f : /\ step = "apply"
                     /\ f = [FreshFrame EXCEPT !.todo = DropJobs(slugs), !.result = "removed"]
  OBVIOUS
<1>2. /\ GoTo(p, step, f) /\ UNCHANGED <<estate, host, installed>>
      /\ before' = [before EXCEPT ![p] = host] /\ touched' = [touched EXCEPT ![p] = {}]
      /\ moved' = [moved EXCEPT ![p] = FALSE] /\ raced' = (raced \/ Running)
  BY <1>1 DEF Undeploy, Starts
<1>3. /\ before \in [Appliers -> [Cells -> Texts]] /\ touched \in [Appliers -> SUBSET Cells]
      /\ moved \in [Appliers -> BOOLEAN]
  BY DEF DeploymentInv, Typed
<1>4. /\ \A q \in Appliers \ {p} : /\ before'[q] = before[q] /\ touched'[q] = touched[q]
                                   /\ moved'[q] = moved[q]
      /\ moved'[p] = FALSE
  BY <1>2, <1>3
<1>5. f.removed = {} /\ f.result = "removed"
  BY <1>1 DEF FreshFrame
<1>6. /\ Reading(step, f, Wanted, Active) /\ Matching(step, f, host', Wanted)
      /\ Manifested(step, f, installed', Wanted, Active)
  BY <1>1, <1>5 DEF Matching, Manifested, Forward, Reading
<1>7. raced => raced'
  BY <1>2
<1>8. QED
  BY <1>1, <1>2, <1>4, <1>5, <1>6, <1>7, MatchSteps

\* What a page is of what is listed.
Continues(page, offset) ==
    /\ offset \in Nat /\ Len(page) \in Nat /\ DOMAIN page = 1..Len(page)
    /\ page = <<>> => Len(Active) <= offset
    /\ \A i \in DOMAIN page : /\ offset + i \in 1..Len(Active)
                              /\ page[i] = Active[offset + i] /\ page[i] \in DOMAIN Wanted
    /\ page # <<>> => offset + Len(page) <= Len(Active)

LEMMA PageContinues ==
  ASSUME NEW offset \in 0..Len(TaskOrder), NEW page, page = Page(offset)
  PROVE  Continues(page, offset)
<1>1. TaskOrder \in Seq(Words)
  BY DeploymentAssumption
<1>2. /\ page \in Seq(DOMAIN Wanted)
      /\ page = <<>> => Len(Active) <= offset
      /\ \A i \in DOMAIN page : offset + i \in DOMAIN Active /\ page[i] = Active[offset + i]
      /\ page # <<>> => offset + Len(page) <= Len(Active)
  BY PageFacts
<1>3. offset \in Nat /\ Len(page) \in Nat /\ DOMAIN page = 1..Len(page)
  BY <1>1, <1>2
<1>4. \A i \in DOMAIN page : page[i] \in DOMAIN Wanted
  BY <1>2
<1>5. DOMAIN Active = 1..Len(Active)
  BY ActiveFacts
<1>6. QED
  BY <1>2, <1>3, <1>4, <1>5 DEF Continues

\* A page adds what it says, and after the last one everything is read.
LEMMA PagesRead ==
  ASSUME DeploymentInv, NEW f \in Frames, Reading("paging", f, Wanted, Active),
         Continues(<<>>, f.offset)
  PROVE  Reading("plan", f, Wanted, Active)
<1>1. f.offset \in Nat /\ Len(Active) \in Nat /\ Len(Active) <= f.offset
  BY ActiveFacts DEF Continues
<1>2. /\ f.offset <= Len(Active)
      /\ DOMAIN f.desired = {Active[i] : i \in 1..f.offset}
      /\ \A s \in DOMAIN f.desired : f.desired[s] = Wanted[s]
  BY DEF Reading
<1>3. f.offset = Len(Active)
  BY <1>1, <1>2
<1>4. DOMAIN f.desired = {Active[i] : i \in 1..Len(Active)}
  BY <1>2, <1>3
<1>5. DOMAIN f.desired = DOMAIN Wanted
  BY <1>4, ActiveFacts
<1>6. f.desired \in [DOMAIN f.desired -> Revs] /\ Wanted \in [DOMAIN Wanted -> Revs]
  BY WantedFacts DEF Frames, Desireds
<1>7. f.desired = Wanted
  BY <1>2, <1>5, <1>6
<1>8. QED
  BY <1>7 DEF Reading

LEMMA PageRead ==
  ASSUME DeploymentInv, NEW f \in Frames, Reading("paging", f, Wanted, Active),
         NEW page, page # <<>>, Continues(page, f.offset),
         NEW read, read = {page[i] : i \in DOMAIN page},
         NEW g, g = [f EXCEPT !.offset = @ + Len(page),
                              !.desired = [s \in DOMAIN @ \cup read |->
                                 IF s \in read THEN estate[s] ELSE @[s]]]
  PROVE  Reading("paging", g, Wanted, Active)
<1>1. /\ f.offset \in Nat /\ Len(Active) \in Nat /\ Len(page) \in Nat
      /\ DOMAIN page = 1..Len(page)
      /\ \A i \in DOMAIN page : /\ f.offset + i \in 1..Len(Active)
                                /\ page[i] = Active[f.offset + i] /\ page[i] \in DOMAIN Wanted
      /\ f.offset + Len(page) <= Len(Active)
  BY ActiveFacts DEF Continues
<1>2. /\ DOMAIN f.desired = {Active[i] : i \in 1..f.offset}
      /\ \A s \in DOMAIN f.desired : f.desired[s] = Wanted[s]
  BY DEF Reading
<1>3. /\ g.offset = f.offset + Len(page)
      /\ g.desired = [s \in DOMAIN f.desired \cup read |->
                        IF s \in read THEN estate[s] ELSE f.desired[s]]
  BY DEF Frames
<1>4. DOMAIN f.desired \cup read = {Active[i] : i \in 1..f.offset + Len(page)}
  <2>1. \A s \in read : \E i \in 1..f.offset + Len(page) : s = Active[i]
    BY <1>1
  <2>2. \A s \in DOMAIN f.desired : \E i \in 1..f.offset + Len(page) : s = Active[i]
    BY <1>1, <1>2
  <2>3. ASSUME NEW i \in 1..f.offset + Len(page)
        PROVE  Active[i] \in DOMAIN f.desired \cup read
    <3>1. CASE i <= f.offset
      BY <1>1, <1>2, <3>1
    <3>2. CASE i > f.offset
      <4>1. i - f.offset \in DOMAIN page /\ f.offset + (i - f.offset) = i
        BY <1>1, <3>2
      <4>2. page[i - f.offset] = Active[i]
        BY <1>1, <4>1
      <4>3. QED
        BY <4>1, <4>2
    <3>3. QED
      BY <1>1, <3>1, <3>2
  <2>4. QED
    BY <2>1, <2>2, <2>3
<1>5. \A s \in read : s \in DOMAIN Wanted
  BY <1>1
<1>6. \A s \in DOMAIN g.desired : g.desired[s] = Wanted[s]
  BY <1>2, <1>3, <1>5, WantedFacts
<1>7. QED
  BY <1>1, <1>3, <1>4, <1>6 DEF Reading

LEMMA ReadPageMatch ==
  ASSUME DeploymentInv, MatchInv, NEW p \in Appliers, ReadPage(p)
  PROVE  MatchInv'
<1>1. PICK f, page : f = frame[p] /\ page = Page(f.offset)
  OBVIOUS
<1>2. PICK read : read = {page[i] : i \in DOMAIN page}
  OBVIOUS
<1>3. PICK g : g = [f EXCEPT !.offset = @ + Len(page),
                             !.desired = [s \in DOMAIN @ \cup read |->
                                IF s \in read THEN estate[s] ELSE @[s]]]
  OBVIOUS
<1>4. /\ pc[p] = "paging" /\ UNCHANGED <<estate, host, installed, Ghosts>>
      /\ \/ page = <<>> /\ GoTo(p, "plan", f)
         \/ page # <<>> /\ GoTo(p, "paging", g)
  BY <1>1, <1>2, <1>3 DEF ReadPage
<1>5. f \in Frames /\ f.offset \in 0..Len(TaskOrder)
  BY <1>1, FrameFacts
<1>6. g.removed = f.removed
  BY <1>3, <1>5 DEF Frames
<1>7. Continues(page, f.offset)
  BY <1>1, <1>5, PageContinues
<1>8. ~moved[p] => Reading("paging", f, Wanted, Active)
  BY <1>1, <1>4 DEF MatchInv
<1>9. ~moved[p] /\ page = <<>> => Reading("plan", f, Wanted, Active)
  BY <1>5, <1>7, <1>8, PagesRead
<1>10. ~moved[p] /\ page # <<>> => Reading("paging", g, Wanted, Active)
  BY <1>2, <1>3, <1>5, <1>7, <1>8, PageRead
<1>11. \A q \in Appliers \ {p} : Settled(q) => f.removed = {}
  BY <1>1 DEF MatchInv
<1>12. PICK step, h : /\ step \in {"plan", "paging"} /\ GoTo(p, step, h)
                      /\ h.removed = f.removed
                      /\ ~moved[p] => Reading(step, h, Wanted, Active)
  BY <1>4, <1>6, <1>9, <1>10
<1>13. Matching(step, h, host, Wanted) /\ Manifested(step, h, installed', Wanted, Active)
  BY <1>12 DEF Matching, Manifested, Forward
<1>14. installed' = installed
  BY <1>4
<1>15. step # "idle" /\ pc[p] # "idle"
  BY <1>4, <1>12
<1>16. QED
  BY <1>4, <1>11, <1>12, <1>13, <1>14, <1>15, MatchQuiet

LEMMA MakePlanMatch ==
  ASSUME DeploymentInv, MatchInv, NEW p \in Appliers, MakePlan(p)
  PROVE  MatchInv'
<1>1. PICK f, removed : f = frame[p] /\ removed = Removals(host, f.desired)
  OBVIOUS
<1>2. PICK todo : todo = PutJobs(host, f.desired) \o DropJobs(removed)
  OBVIOUS
<1>3. PICK g : g = [FreshFrame EXCEPT !.todo = todo, !.removed = removed]
  OBVIOUS
<1>4. /\ pc[p] = "plan" /\ UNCHANGED <<estate, host, installed, Ghosts>>
      /\ IF PlanRaises(host, f.desired) THEN EndWith(p, "raised")
         ELSE IF todo = <<>> THEN EndWith(p, "nothing")
         ELSE GoTo(p, "review", g)
  BY <1>1, <1>2, <1>3 DEF MakePlan
<1>5. installed' = installed
  BY <1>4
<1>6. ASSUME NEW result \in Results \ {"applied"}, EndWith(p, result) PROVE MatchInv'
  BY <1>4, <1>5, <1>6, MatchEnds
<1>7. ASSUME ~PlanRaises(host, f.desired), GoTo(p, "review", g) PROVE MatchInv'
  <2>1. /\ f \in Frames /\ InHand("plan", f) /\ host \in [Cells -> Texts]
        /\ before \in [Appliers -> [Cells -> Texts]]
        /\ Undoable("plan", f, touched[p], host, before[p])
    BY <1>1, <1>4, FrameFacts
  <2>2. g.todo = todo /\ g.removed = removed /\ g.offset = 0
    BY <1>3 DEF FreshFrame
  <2>3. ~moved[p] => f.desired = Wanted
    BY <1>1, <1>4 DEF MatchInv, Reading
  <2>4. Wanted \in Desireds
    BY WantedFacts
  <2>5. ASSUME NEW q \in Appliers \ {p}, Settled(q) PROVE g.removed = {}
    <3>1. Underway(<<>>, host, Wanted)
      BY <2>5 DEF Settled, MatchInv, Matching
    <3>2. VerifyMatches(host, Wanted)
      BY <2>1, <2>4, <3>1, NothingLeft
    <3>3. f.desired = Wanted
      BY <1>4, <2>3, <2>5 DEF Settled, MatchInv
    <3>4. QED
      BY <1>1, <2>2, <3>2, <3>3 DEF VerifyMatches
  <2>6. ASSUME Fit(p) PROVE Matching("review", g, host, Wanted)
    <3>1. /\ touched[p] = {} /\ f.desired = Wanted /\ NamedAfterSlugs(before[p])
          /\ \A cell \in CrontabCells : Apart(before[p][cell])
      BY <2>3, <2>6 DEF Fit, Alone
    <3>2. \A cell \in Cells : host[cell] = before[p][cell]
      BY <2>1, <3>1 DEF Undoable, InHand
    <3>3. host = before[p]
      BY <2>1, <3>2
    <3>4. Underway(todo, host, Wanted)
      BY <1>1, <1>2, <1>7, <2>1, <2>4, <3>1, <3>3, PlanUnderway
    <3>5. removed \cap DOMAIN Wanted = {}
      BY <1>1, <2>1, <2>4, <3>1, <3>3, RemovalsApart
    <3>6. QED
      BY <2>2, <3>4, <3>5 DEF Matching
  <2>7. Reading("review", g, Wanted, Active) /\ Manifested("review", g, installed', Wanted, Active)
    BY <2>2 DEF Reading, Manifested
  <2>8. PICK step : step = "review"
    OBVIOUS
  <2>9. QED
    BY <1>4, <1>5, <1>7, <2>5, <2>6, <2>7, <2>8, MatchQuiet
<1>8. {"raised", "nothing"} \subseteq Results \ {"applied"}
  BY DEF Results
<1>9. QED
  BY <1>4, <1>6, <1>7, <1>8

LEMMA ConfirmMatch ==
  ASSUME DeploymentInv, MatchInv, NEW p \in Appliers, Confirm(p)
  PROVE  MatchInv'
<1>1. PICK f, step : f = frame[p] /\ step = "install"
  OBVIOUS
<1>2. /\ pc[p] = "review" /\ UNCHANGED <<estate, host, installed, Ghosts>>
      /\ GoTo(p, step, f) \/ EndWith(p, "aborted")
  BY <1>1 DEF Confirm
<1>3. installed' = installed
  BY <1>2
<1>4. CASE EndWith(p, "aborted")
  <2>1. "aborted" \in Results \ {"applied"}
    BY DEF Results
  <2>2. QED
    BY <1>2, <1>3, <1>4, <2>1, MatchEnds
<1>5. CASE GoTo(p, step, f)
  <2>1. \A q \in Appliers \ {p} : Settled(q) => f.removed = {}
    BY <1>1 DEF MatchInv
  <2>2. Reading(step, f, Wanted, Active)
    BY <1>1 DEF Reading
  <2>3. Fit(p) => Matching(step, f, host, Wanted)
    BY <1>1, <1>2 DEF MatchInv, Matching, Forward
  <2>4. ASSUME Fit(p), ~(raced /\ Appliers # {p})
        PROVE  Manifested(step, f, installed', Wanted, Active)
    <3>1. f.offset = 0
      BY <1>1, <1>2, <2>4 DEF MatchInv, Manifested
    <3>2. \A i \in 1..Len(Active) : ~(i <= f.offset)
      BY <3>1, ActiveFacts
    <3>3. QED
      BY <1>1, <3>2 DEF Manifested
  <2>5. step # "idle" /\ pc[p] # "idle"
    BY <1>1, <1>2
  <2>6. QED
    BY <1>2, <1>3, <1>5, <2>1, <2>2, <2>3, <2>4, <2>5, MatchQuiet
<1>6. QED
  BY <1>2, <1>4, <1>5

\* A page of manifests installs the next ones, and after the last one those of
\* everything that is wanted are there.
LEMMA InstallPageMatch ==
  ASSUME DeploymentInv, MatchInv, NEW p \in Appliers, InstallPage(p)
  PROVE  MatchInv'
<1>1. PICK f, page : f = frame[p] /\ page = Page(f.offset)
  OBVIOUS
<1>2. PICK bad, good :
         /\ bad = {i \in DOMAIN page : ~Installable(estate[page[i]])}
         /\ good = {page[i] : i \in {j \in DOMAIN page : \A k \in bad : j < k}}
  OBVIOUS
<1>3. PICK g, h : /\ g = [f EXCEPT !.offset = 0, !.result = "applied"]
                  /\ h = [f EXCEPT !.offset = @ + Len(page)]
  OBVIOUS
<1>4. /\ pc[p] = "install" /\ UNCHANGED <<estate, host, Ghosts>>
      /\ installed' = WithManifests(good)
      /\ IF bad # {} THEN EndWith(p, "raised")
         ELSE IF page = <<>> THEN GoTo(p, "apply", g)
         ELSE GoTo(p, "install", h)
  BY <1>1, <1>2, <1>3 DEF InstallPage
<1>5. f \in Frames /\ f.offset \in 0..Len(TaskOrder)
  BY <1>1, FrameFacts
<1>6. Continues(page, f.offset)
  BY <1>1, <1>5, PageContinues
<1>7. \A q \in Appliers \ {p} :
         Manifested(pc[q], frame[q], installed, Wanted, Active) =>
            Manifested(pc[q], frame[q], installed', Wanted, Active)
  BY <1>4, MoreWanted
<1>8. /\ g.removed = f.removed /\ g.todo = f.todo /\ g.offset = 0 /\ g.result = "applied"
      /\ h.removed = f.removed /\ h.todo = f.todo /\ h.offset = f.offset + Len(page)
      /\ h.result = f.result
  BY <1>3, <1>5 DEF Frames
<1>9. \A q \in Appliers \ {p} : Settled(q) => f.removed = {}
  BY <1>1 DEF MatchInv
<1>10. Fit(p) => f.removed \cap DOMAIN Wanted = {} /\ Underway(f.todo, host, Wanted)
  BY <1>1, <1>4 DEF MatchInv, Matching, Forward
<1>11. ASSUME Fit(p), ~(raced /\ Appliers # {p}), NEW i \in 1..Len(Active), i <= f.offset
       PROVE  installed[Active[i]] = Wanted[Active[i]]
  BY <1>1, <1>4, <1>11 DEF MatchInv, Manifested
<1>12. ASSUME NEW s \in DOMAIN Wanted, s \in good \/ installed[s] = Wanted[s]
       PROVE  installed'[s] = Wanted[s]
  BY <1>4, <1>12, WantedFacts DEF WithManifests
<1>13. CASE bad # {}
  <2>1. "raised" \in Results \ {"applied"}
    BY DEF Results
  <2>2. QED
    BY <1>4, <1>7, <1>13, <2>1, MatchEnds
<1>14. CASE bad = {} /\ page = <<>>
  <2>1. PICK step : step = "apply"
    OBVIOUS
  <2>2. Reading(step, g, Wanted, Active)
    BY <2>1 DEF Reading
  <2>3. Fit(p) => Matching(step, g, host, Wanted)
    BY <1>8, <1>10, <2>1 DEF Matching, Forward
  <2>4. ASSUME Fit(p), ~(raced /\ Appliers # {p})
        PROVE  Manifested(step, g, installed', Wanted, Active)
    <3>1. ASSUME NEW s \in DOMAIN Wanted PROVE installed'[s] = Wanted[s]
      <4>1. PICK i \in 1..Len(Active) : Active[i] = s
        BY ActiveFacts
      <4>2. f.offset \in Nat /\ Len(Active) \in Nat /\ Len(Active) <= f.offset
        BY <1>6, <1>14, ActiveFacts DEF Continues
      <4>3. i <= f.offset
        BY <4>2
      <4>4. QED
        BY <1>11, <1>12, <2>4, <4>1, <4>3
    <3>2. QED
      BY <2>1, <3>1 DEF Manifested
  <2>5. step # "idle" /\ pc[p] # "idle" /\ GoTo(p, step, g)
    BY <1>4, <1>14, <2>1
  <2>6. QED
    BY <1>4, <1>7, <1>8, <1>9, <2>2, <2>3, <2>4, <2>5, MatchQuiet
<1>15. CASE bad = {} /\ page # <<>>
  <2>1. PICK step : step = "install"
    OBVIOUS
  <2>2. Reading(step, h, Wanted, Active)
    BY <2>1 DEF Reading
  <2>3. Fit(p) => Matching(step, h, host, Wanted)
    BY <1>8, <1>10, <2>1 DEF Matching, Forward
  <2>4. ASSUME Fit(p), ~(raced /\ Appliers # {p})
        PROVE  Manifested(step, h, installed', Wanted, Active)
    <3>1. ASSUME NEW i \in 1..Len(Active), i <= f.offset + Len(page)
          PROVE  installed'[Active[i]] = Wanted[Active[i]]
      <4>1. Active[i] \in DOMAIN Wanted
        BY ActiveFacts
      <4>2. CASE i <= f.offset
        BY <1>11, <1>12, <2>4, <4>1, <4>2
      <4>3. CASE ~(i <= f.offset)
        <5>1. /\ f.offset \in Nat /\ Len(page) \in Nat /\ DOMAIN page = 1..Len(page)
              /\ \A j \in DOMAIN page : page[j] = Active[f.offset + j]
          BY <1>6 DEF Continues
        <5>2. i - f.offset \in DOMAIN page /\ f.offset + (i - f.offset) = i
          BY <3>1, <4>3, <5>1
        <5>3. page[i - f.offset] = Active[i]
          BY <5>1, <5>2
        <5>4. Active[i] \in good
          BY <1>2, <1>15, <5>2, <5>3
        <5>5. QED
          BY <1>12, <4>1, <5>4
      <4>4. QED
        BY <4>2, <4>3
    <3>2. QED
      BY <1>8, <2>1, <3>1 DEF Manifested
  <2>5. step # "idle" /\ pc[p] # "idle" /\ GoTo(p, step, h)
    BY <1>4, <1>15, <2>1
  <2>6. QED
    BY <1>4, <1>7, <1>8, <1>9, <2>2, <2>3, <2>4, <2>5, MatchQuiet
<1>16. QED
  BY <1>13, <1>14, <1>15

LEMMA InstallFailsMatch ==
  ASSUME DeploymentInv, MatchInv, NEW p \in Appliers, InstallFails(p)
  PROVE  MatchInv'
<1>1. /\ pc[p] # "idle" /\ UNCHANGED <<estate, host, Ghosts>> /\ installed' = installed
      /\ EndWith(p, "raised")
  BY DEF InstallFails
<1>2. "raised" \in Results \ {"applied"}
  BY DEF Results
<1>3. QED
  BY <1>1, <1>2, MatchEnds

LEMMA KillMatch ==
  ASSUME DeploymentInv, MatchInv, NEW p \in Appliers, Kill(p)
  PROVE  MatchInv'
<1>1. /\ pc[p] # "idle" /\ UNCHANGED <<estate, host, Ghosts>> /\ installed' = installed
      /\ EndWith(p, "killed")
  BY DEF Kill
<1>2. "killed" \in Results \ {"applied"}
  BY DEF Results
<1>3. QED
  BY <1>1, <1>2, MatchEnds

LEMMA FaultMatch ==
  ASSUME DeploymentInv, MatchInv, NEW p \in Appliers, Fault(p)
  PROVE  MatchInv'
<1>1. /\ pc[p] # "idle" /\ UNCHANGED <<estate, host, installed, Ghosts>>
      /\ GoTo(p, "restore", frame[p])
  BY DEF Fault
<1>2. QED
  BY <1>1, MatchFails

-----------------------------------------------------------------------------
\* The jobs.

LEMMA ReadStoreMatch ==
  ASSUME DeploymentInv, MatchInv, NEW p \in Appliers, ReadStore(p)
  PROVE  MatchInv'
<1>1. PICK f, job, text, g :
            /\ f = frame[p] /\ job = Head(f.todo) /\ text = host[job.cell]
            /\ job \in Jobs /\ job.cell \in Cells /\ text \in Texts /\ f.todo # <<>>
            /\ g.todo = f.todo /\ g.held = text /\ g.result = f.result
            /\ g.removed = f.removed
            /\ \/ GoTo(p, "restore", f)
               \/ GoTo(p, "restore", g)
               \/ /\ ~IsPut(job) /\ ~JobRaises(job, text) /\ ~Present(job, text)
                  /\ GoTo(p, "apply", [f EXCEPT !.todo = Tail(@)])
               \/ /\ ~IsPut(job) => Present(job, text)
                  /\ GoTo(p, "write", g)
  BY StoreRead
<1>2. /\ pc[p] = "apply" /\ UNCHANGED <<estate, host, installed, Ghosts>>
      /\ f \in Frames /\ f.todo \in Seq(Jobs) /\ host \in [Cells -> Texts]
  BY <1>1, FrameFacts DEF ReadStore
<1>3. installed' = installed /\ \A q \in Appliers \ {p} : Settled(q) => f.removed = {}
  BY <1>1, <1>2 DEF MatchInv
<1>4. /\ Fit(p) => Matching("apply", f, host, Wanted)
      /\ Fit(p) /\ ~(raced /\ Appliers # {p}) =>
            Manifested("apply", f, installed, Wanted, Active)
  BY <1>1, <1>2 DEF MatchInv
<1>5. CASE GoTo(p, "restore", f) \/ GoTo(p, "restore", g)
  BY <1>1, <1>2, <1>5, MatchFails
<1>6. CASE GoTo(p, "write", g)
  <2>1. PICK step : step = "write"
    OBVIOUS
  <2>2. Reading(step, g, Wanted, Active)
    BY <2>1 DEF Reading
  <2>3. Fit(p) => Matching(step, g, host, Wanted)
    BY <1>1, <1>4, <2>1 DEF Matching, Forward
  <2>4. Fit(p) /\ ~(raced /\ Appliers # {p}) => Manifested(step, g, installed', Wanted, Active)
    BY <1>1, <1>3, <1>4, <2>1 DEF Manifested
  <2>5. step # "idle" /\ pc[p] # "idle" /\ GoTo(p, step, g)
    BY <1>2, <1>6, <2>1
  <2>6. QED
    BY <1>1, <1>2, <1>3, <2>2, <2>3, <2>4, <2>5, MatchQuiet
<1>7. ASSUME ~IsPut(job), ~JobRaises(job, text), ~Present(job, text),
             GoTo(p, "apply", [f EXCEPT !.todo = Tail(@)])
      PROVE  MatchInv'
  <2>1. PICK step, h : step = "apply" /\ h = [f EXCEPT !.todo = Tail(@)]
    OBVIOUS
  <2>2. h.todo = Tail(f.todo) /\ h.result = f.result /\ h.removed = f.removed
    BY <1>2, <2>1 DEF Frames
  <2>3. Reading(step, h, Wanted, Active)
    BY <2>1 DEF Reading
  <2>4. Wanted \in Desireds
    BY WantedFacts
  <2>5. ASSUME Underway(f.todo, host, Wanted) PROVE Underway(Tail(f.todo), host, Wanted)
    BY <1>1, <1>2, <1>7, <2>4, <2>5, MissingOff
  <2>6. Fit(p) => Matching(step, h, host, Wanted)
    BY <1>4, <2>1, <2>2, <2>5 DEF Matching, Forward
  <2>7. Fit(p) /\ ~(raced /\ Appliers # {p}) => Manifested(step, h, installed', Wanted, Active)
    BY <1>3, <1>4, <2>1, <2>2 DEF Manifested
  <2>8. step # "idle" /\ pc[p] # "idle" /\ GoTo(p, step, h)
    BY <1>2, <1>7, <2>1
  <2>9. QED
    BY <1>2, <1>3, <2>2, <2>3, <2>6, <2>7, <2>8, MatchQuiet
<1>8. QED
  BY <1>1, <1>5, <1>6, <1>7

\* What a job in hand makes of the host, once it has been verified.
LEMMA WriteStoreMatch ==
  ASSUME DeploymentInv, AloneInv, MatchInv, NEW p \in Appliers, WriteStore(p)
  PROVE  MatchInv'
<1>1. PICK f, job, cell, new : /\ f = frame[p] /\ job = Head(f.todo) /\ cell = job.cell
                               /\ new = NewText(job, f.held)
  OBVIOUS
<1>2. PICK g : g = [f EXCEPT !.held = <<>>]
  OBVIOUS
<1>3. /\ f \in Frames /\ f.todo # <<>> /\ f.todo \in Seq(Jobs) /\ host \in [Cells -> Texts]
      /\ touched \in [Appliers -> SUBSET Cells]
      /\ pc[p] = "write" /\ WriteCell({p}, cell, new)
      /\ UNCHANGED <<estate, installed, before, moved, raced>>
      /\ GoTo(p, "check", g) \/ GoTo(p, "restore", f)
  BY <1>1, <1>2, FrameFacts DEF WriteStore, InHand, Job
<1>4. job \in Jobs /\ cell \in Cells
  BY <1>1, <1>3, HeadFacts
<1>5. g.todo = f.todo /\ g.result = f.result /\ g.removed = f.removed
  BY <1>2, <1>3 DEF Frames
<1>6. /\ host' = [host EXCEPT ![cell] = new] /\ touched'[p] = touched[p]
      /\ \A q \in Appliers \ {p} : /\ touched'[q] = touched[q] \cup {cell}
                                   /\ touched[q] \subseteq touched'[q] /\ touched'[q] # {}
  BY <1>3 DEF WriteCell
<1>7. \A q \in Appliers \ {p} : /\ before'[q] = before[q] /\ moved'[q] = moved[q]
                                /\ Settled(q) => f.removed = {}
  BY <1>1, <1>3 DEF MatchInv
<1>8. Fit(p)' <=> Fit(p)
  BY <1>3, <1>6 DEF Fit, Alone
<1>9. moved' = moved /\ raced' = raced /\ installed' = installed /\ (~raced => ~moved[p])
  BY <1>3 DEF MatchInv
<1>10. /\ Fit(p) => Matching("write", f, host, Wanted)
       /\ Fit(p) /\ ~(raced /\ Appliers # {p}) =>
             Manifested("write", f, installed, Wanted, Active)
  BY <1>1, <1>3 DEF MatchInv
<1>11. ASSUME NEW step \in {"check", "restore"}, NEW h, GoTo(p, step, h),
              h.todo = f.todo, h.result = f.result, h.removed = f.removed
       PROVE  MatchInv'
  <2>1. Reading(step, h, Wanted, Active)
    BY <1>11 DEF Reading
  <2>2. ASSUME Fit(p), step = "check", f.result = "applied", Verified(job, host')
        PROVE  Underway(Tail(f.todo), host', Wanted)
    <3>1. Underway(f.todo, host, Wanted)
      BY <1>10, <2>2 DEF Matching, Forward
    <3>2. f.held = host[cell]
      <4>1. cell \in Cells \ touched[p]
        BY <1>4, <2>2 DEF Fit, Alone
      <4>2. LeftAlone("write", f, touched[p], host, before[p])
        BY <1>1, <1>3 DEF AloneInv
      <4>3. Reads("write", f.todo, f.held, cell, host[cell])
        BY <4>1, <4>2 DEF LeftAlone, Busy, Stands
      <4>4. QED
        BY <1>1, <4>3 DEF Reads
    <3>3. host' \in [Cells -> Texts]
      BY WriteStoreStep DEF DeploymentInv, Typed
    <3>4. Wanted \in Desireds
      BY WantedFacts
    <3>5. host' = [host EXCEPT ![job.cell] = NewText(job, host[job.cell])]
      BY <1>1, <1>6, <3>2
    <3>6. PICK next : next = host'
      OBVIOUS
    <3>7. Underway(Tail(f.todo), next, Wanted)
      BY <1>1, <1>3, <2>2, <3>1, <3>3, <3>4, <3>5, <3>6, VerifiedOff
    <3>8. QED
      BY <3>6, <3>7
  <2>3. Fit(p) => Matching(step, h, host', Wanted)
    BY <1>1, <1>10, <1>11, <2>2 DEF Matching, Forward
  <2>4. Fit(p) /\ ~(raced /\ Appliers # {p}) => Manifested(step, h, installed', Wanted, Active)
    BY <1>9, <1>10, <1>11 DEF Manifested
  <2>5. step # "idle" /\ pc[p] # "idle"
    BY <1>3, <1>11
  <2>6. estate' = estate /\ installed' = installed
    BY <1>3
  <2>7. QED
    BY <1>6, <1>7, <1>8, <1>9, <1>11, <2>1, <2>3, <2>4, <2>5, <2>6, MatchSteps
<1>12. QED
  BY <1>3, <1>5, <1>11

LEMMA ReadBackMatch ==
  ASSUME DeploymentInv, MatchInv, NEW p \in Appliers, ReadBack(p)
  PROVE  MatchInv'
<1>1. PICK f, job, g, step : /\ f = frame[p] /\ job = Head(f.todo)
                             /\ g = [f EXCEPT !.todo = Tail(@)] /\ step = "apply"
  OBVIOUS
<1>2. /\ pc[p] = "check" /\ UNCHANGED <<estate, host, installed, Ghosts>> /\ f \in Frames
      /\ \/ Verified(job, host) /\ GoTo(p, step, g)
         \/ GoTo(p, "restore", f)
  BY <1>1, FrameFacts DEF ReadBack, Job
<1>3. CASE GoTo(p, "restore", f)
  BY <1>1, <1>2, <1>3, MatchFails
<1>4. CASE Verified(job, host) /\ GoTo(p, step, g)
  <2>1. g.todo = Tail(f.todo) /\ g.result = f.result /\ g.removed = f.removed
    BY <1>1, <1>2 DEF Frames
  <2>2. /\ installed' = installed /\ step # "idle" /\ pc[p] # "idle"
        /\ \A q \in Appliers \ {p} : Settled(q) => g.removed = {}
    BY <1>1, <1>2, <2>1 DEF MatchInv
  <2>3. Reading(step, g, Wanted, Active)
    BY <1>1 DEF Reading
  <2>4. Fit(p) => Matching(step, g, host, Wanted)
    BY <1>1, <1>2, <1>4, <2>1 DEF MatchInv, Matching, Forward
  <2>5. Fit(p) /\ ~(raced /\ Appliers # {p}) => Manifested(step, g, installed', Wanted, Active)
    BY <1>1, <1>2, <2>1, <2>2 DEF MatchInv, Manifested
  <2>6. QED
    BY <1>2, <1>4, <2>2, <2>3, <2>4, <2>5, MatchQuiet
<1>5. QED
  BY <1>2, <1>3, <1>4

LEMMA RestoreMatch ==
  ASSUME DeploymentInv, MatchInv, NEW p \in Appliers, Restore(p)
  PROVE  MatchInv'
<1>1. PICK f : f = frame[p]
  OBVIOUS
<1>2. /\ pc[p] = "restore" /\ UNCHANGED <<estate, installed, before, moved, raced>>
      /\ f \in Frames /\ host \in [Cells -> Texts]
      /\ \/ /\ \E result \in {"rolled_back", "half"} : EndWith(p, result)
            /\ UNCHANGED <<host, touched>>
         \/ \E cell \in DOMAIN f.captured :
               /\ WriteCell({p}, cell, f.captured[cell])
               /\ GoTo(p, "restore", [f EXCEPT !.captured =
                     [c \in DOMAIN f.captured \ {cell} |-> f.captured[c]]])
  BY <1>1, FrameFacts DEF Restore
<1>3. CASE (\E result \in {"rolled_back", "half"} : EndWith(p, result))
              /\ UNCHANGED <<host, touched>>
  <2>1. PICK result \in {"rolled_back", "half"} : EndWith(p, result)
    BY <1>3
  <2>2. result \in Results \ {"applied"}
    BY DEF Results
  <2>3. UNCHANGED <<estate, host, Ghosts>> /\ pc[p] # "idle" /\ installed' = installed
    BY <1>2, <1>3 DEF Ghosts
  <2>4. QED
    BY <2>1, <2>2, <2>3, MatchEnds
<1>4. ASSUME NEW cell \in DOMAIN f.captured, WriteCell({p}, cell, f.captured[cell]),
             GoTo(p, "restore", [f EXCEPT !.captured =
                     [c \in DOMAIN f.captured \ {cell} |-> f.captured[c]]])
      PROVE  MatchInv'
  <2>1. PICK step, g : /\ step = "restore"
                       /\ g = [f EXCEPT !.captured =
                                 [c \in DOMAIN f.captured \ {cell} |-> f.captured[c]]]
    OBVIOUS
  <2>2. GoTo(p, step, g) /\ g.removed = f.removed /\ step # "idle"
    BY <1>2, <1>4, <2>1 DEF Frames
  <2>3. /\ Reading(step, g, Wanted, Active) /\ Matching(step, g, host', Wanted)
        /\ Manifested(step, g, installed', Wanted, Active)
    BY <2>1 DEF Reading, Matching, Manifested, Forward
  <2>4. touched \in [Appliers -> SUBSET Cells]
    BY FrameFacts
  <2>5. \A q \in Appliers \ {p} :
           /\ touched[q] \subseteq touched'[q] /\ touched'[q] # {}
           /\ before'[q] = before[q] /\ moved'[q] = moved[q]
           /\ Settled(q) => g.removed = {}
    BY <1>1, <1>2, <1>4, <2>2, <2>4 DEF WriteCell, MatchInv
  <2>6. /\ moved' = moved /\ raced' = raced /\ installed' = installed /\ estate' = estate
        /\ ~raced => ~moved[p]
    BY <1>2 DEF MatchInv
  <2>7. QED
    BY <2>2, <2>3, <2>5, <2>6, MatchSteps
<1>5. QED
  BY <1>2, <1>3, <1>4

\* The manifests that go are of what is not wanted, and nobody else's.
LEMMA UninstallMatch ==
  ASSUME DeploymentInv, ManifestInv, MatchInv, NEW p \in Appliers, Uninstall(p)
  PROVE  MatchInv'
<1>1. PICK f : f = frame[p]
  OBVIOUS
<1>2. /\ pc[p] = "apply" /\ f.todo = <<>> /\ UNCHANGED <<estate, host, Ghosts>>
      /\ \/ EndWith(p, f.result) /\ installed' = WithoutManifests(f.removed)
         \/ EndWith(p, "raised") /\ installed' = installed
  BY <1>1 DEF Uninstall
<1>3. /\ f.result \in {"none", "applied", "removed"}
      /\ installed \in [Slugs -> Revs \cup {NoRev}]
  BY <1>1, <1>2, FrameFacts DEF InHand
<1>4. CASE EndWith(p, "raised") /\ installed' = installed
  <2>1. "raised" \in Results \ {"applied"}
    BY DEF Results
  <2>2. QED
    BY <1>2, <1>4, <2>1, MatchEnds
<1>5. CASE EndWith(p, f.result) /\ installed' = WithoutManifests(f.removed)
  <2>1. ASSUME NEW s \in Slugs, s \notin f.removed PROVE installed'[s] = installed[s]
    BY <1>5, <2>1 DEF WithoutManifests
  <2>2. ASSUME NEW q \in Appliers \ {p}, Fit(q), ~raced,
               Manifested(pc[q], frame[q], installed, Wanted, Active)
        PROVE  Manifested(pc[q], frame[q], installed', Wanted, Active)
    <3>1. pc[q] = "idle"
      BY <1>2, <2>2, WayFacts
    <3>2. CASE frame[q].result = "applied"
      <4>1. Settled(q)
        BY <2>2, <3>1, <3>2 DEF Settled
      <4>2. f.removed = {}
        BY <1>1, <4>1 DEF MatchInv
      <4>3. \A s \in DOMAIN Wanted : installed'[s] = installed[s]
        BY <2>1, <4>2, WantedFacts
      <4>4. QED
        BY <2>2, <3>1, <4>3 DEF Manifested
    <3>3. CASE frame[q].result # "applied"
      BY <3>1, <3>3 DEF Manifested
    <3>4. QED
      BY <3>2, <3>3
  <2>3. CASE f.result # "applied"
    <3>1. f.result \in Results \ {"applied"}
      BY <1>3, <2>3 DEF Results
    <3>2. QED
      BY <1>2, <1>5, <2>2, <3>1, MatchEnds
  <2>4. CASE f.result = "applied"
    <3>1. PICK step, g : step = "idle" /\ g = [FreshFrame EXCEPT !.result = "applied"]
      OBVIOUS
    <3>2. GoTo(p, step, g) /\ g.removed = {} /\ g.result = "applied" /\ g.todo = <<>>
      BY <1>5, <2>4, <3>1 DEF EndWith, FreshFrame
    <3>3. Fit(p) => Matching("apply", f, host, Wanted)
      BY <1>1, <1>2 DEF MatchInv
    <3>4. Fit(p) => f.removed \cap DOMAIN Wanted = {} /\ Underway(<<>>, host, Wanted)
      BY <1>2, <2>4, <3>3 DEF Matching, Forward
    <3>5. Fit(p) => Matching(step, g, host, Wanted)
      BY <3>1, <3>4 DEF Matching, Forward
    <3>6. ASSUME Fit(p), ~(raced /\ Appliers # {p})
          PROVE  Manifested(step, g, installed', Wanted, Active)
      <4>1. Manifested("apply", f, installed, Wanted, Active)
        BY <1>1, <1>2, <3>6 DEF MatchInv
      <4>2. \A s \in DOMAIN Wanted : installed[s] = Wanted[s]
        BY <2>4, <4>1 DEF Manifested
      <4>3. \A s \in DOMAIN Wanted : s \in Slugs /\ s \notin f.removed
        BY <3>4, <3>6, WantedFacts
      <4>4. \A s \in DOMAIN Wanted : installed'[s] = Wanted[s]
        BY <2>1, <4>2, <4>3
      <4>5. QED
        BY <3>1, <4>4 DEF Manifested
    <3>7. ASSUME ~raced, NEW q \in Appliers \ {p} PROVE frame[q].removed = {}
      <4>1. pc[q] = "idle"
        BY <1>2, <3>7, WayFacts
      <4>2. QED
        BY <4>1 DEF MatchInv
    <3>8. Reading(step, g, Wanted, Active) /\ pc[p] # "idle"
      BY <1>2, <3>1 DEF Reading
    <3>9. QED
      BY <1>2, <2>2, <3>2, <3>5, <3>6, <3>7, <3>8, MatchQuiet
  <2>5. QED
    BY <2>3, <2>4
<1>6. QED
  BY <1>2, <1>4, <1>5

-----------------------------------------------------------------------------
\* Beside the appliers.

LEMMA PublishMatch ==
  ASSUME MatchInv, NEW s, NEW rev, Publish(s, rev)
  PROVE  MatchInv'
<1>1. /\ moved' = [p \in Appliers |-> TRUE] /\ raced' = (raced \/ Running)
      /\ UNCHANGED <<pc, frame>>
  BY DEF Publish
<1>2. ASSUME NEW p \in Appliers
      PROVE  /\ moved'[p] /\ ~Fit(p)' /\ ~Settled(p)'
             /\ pc'[p] = pc[p] /\ frame'[p] = frame[p]
             /\ pc[p] # "idle" => raced'
    <2>1. moved'[p] /\ pc'[p] = pc[p] /\ frame'[p] = frame[p]
      BY <1>1
    <2>2. pc[p] # "idle" => raced'
      BY <1>1 DEF Running
    <2>3. ~Fit(p)'
      BY <2>1 DEF Fit, Alone
    <2>4. ~Settled(p)'
      BY <2>3 DEF Settled
    <2>5. QED
      BY <2>1, <2>2, <2>3, <2>4
<1>3. QED
  BY <1>2 DEF MatchInv

LEMMA EditMatch ==
  ASSUME MatchInv, NEW cell, NEW text, EditByHand(cell, text)
  PROVE  MatchInv'
<1>1. /\ UNCHANGED <<estate, installed, pc, frame, before, moved, raced>>
      /\ touched' = [p \in Appliers |-> IF {p} = {} THEN touched[p] ELSE touched[p] \cup {cell}]
  BY DEF EditByHand, WriteCell
<1>2. Wanted' = Wanted /\ Active' = Active
  BY <1>1 DEF Wanted, Active
<1>3. ASSUME NEW p \in Appliers
      PROVE  /\ ~Fit(p)' /\ ~Settled(p)' /\ pc'[p] = pc[p] /\ frame'[p] = frame[p]
             /\ moved'[p] = moved[p]
  <2>1. touched'[p] # {}
    BY <1>1
  <2>2. ~Fit(p)'
    BY <2>1 DEF Fit, Alone
  <2>3. QED
    BY <1>1, <2>2 DEF Settled
<1>4. raced' = raced
  BY <1>1
<1>5. QED
  BY <1>2, <1>3, <1>4 DEF MatchInv

LEMMA MatchInit ==
  ASSUME Init
  PROVE  MatchInv
<1>1. ASSUME NEW p \in Appliers
      PROVE  pc[p] = "idle" /\ frame[p].removed = {} /\ frame[p].result = "none"
  BY FreshFrames DEF Init
<1>2. QED
  BY <1>1 DEF MatchInv, Reading, Matching, Manifested, Forward, Settled

LEMMA MatchNext ==
  ASSUME DeploymentInv, ManifestInv, AloneInv, MatchInv, [Next]_vars
  PROVE  MatchInv'
<1>1. ASSUME NEW p \in Appliers, Apply(p) PROVE MatchInv'
  BY <1>1, BeginMatch, UndeployMatch, ReadPageMatch, MakePlanMatch, ConfirmMatch,
     InstallPageMatch, InstallFailsMatch, ReadStoreMatch, WriteStoreMatch, ReadBackMatch,
     FaultMatch, RestoreMatch, UninstallMatch, KillMatch DEF Apply
<1>2. CASE UNCHANGED vars
  BY <1>2 DEF vars, MatchInv, Fit, Alone, Settled, Wanted, Active
<1>3. QED
  BY <1>1, <1>2, PublishMatch, EditMatch, EditsByHand DEF Next

\* An apply that reports success leaves a host that verify() finds nothing to say
\* about, every active capability deployed where and as its revision says, and its
\* manifest, unless a second applier was on its way to remove it: whatever the host
\* was before, if its files went by their slugs and no region stood in a block, and
\* whatever failed before, as long as nobody else changed the host or the estate
\* since that apply began.
THEOREM AppliesCompletely == Spec => []AppliedMatches
<1>1. Init => MatchInv
  BY MatchInit
<1>2. DeploymentInv /\ ManifestInv /\ AloneInv /\ MatchInv /\ [Next]_vars => MatchInv'
  BY MatchNext
<1>3. DeploymentInv /\ MatchInv => AppliedMatches
  <2>1. ASSUME DeploymentInv, MatchInv, NEW p \in Appliers, Ended(p, "applied"),
               NamedAfterSlugs(before[p]), \A cell \in CrontabCells : Apart(before[p][cell])
        PROVE  /\ VerifyMatches(host, Wanted)
               /\ \A s \in DOMAIN Wanted :
                     /\ CurrentContent(host, s, Wanted[s]) = RenderArtefact(s, Wanted[s])
                     /\ \/ installed[s] = Wanted[s]
                        \/ raced /\ Appliers # {p}
    <3>1. Fit(p) /\ pc[p] = "idle" /\ frame[p].result = "applied"
      BY <2>1 DEF Ended, Fit
    <3>2. Underway(<<>>, host, Wanted)
      BY <2>1, <3>1 DEF MatchInv, Matching
    <3>3. host \in [Cells -> Texts] /\ Wanted \in Desireds
      BY <2>1, WantedFacts DEF DeploymentInv, Typed
    <3>4. /\ VerifyMatches(host, Wanted)
          /\ \A s \in DOMAIN Wanted :
                CurrentContent(host, s, Wanted[s]) = RenderArtefact(s, Wanted[s])
      BY <3>2, <3>3, NothingLeft
    <3>5. ~(raced /\ Appliers # {p}) => \A s \in DOMAIN Wanted : installed[s] = Wanted[s]
      BY <2>1, <3>1 DEF MatchInv, Manifested
    <3>6. QED
      BY <3>4, <3>5
  <2>2. QED
    BY <2>1 DEF AppliedMatches
<1>4. QED
  BY <1>1, <1>2, <1>3, ManifestInit, ManifestNext, AloneInit, AloneNext, DeploymentSafety,
     PTL DEF Spec
=============================================================================
