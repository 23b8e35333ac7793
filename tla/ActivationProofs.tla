-------------------------- MODULE ActivationProofs --------------------------
(***************************************************************************)
(* Theorems about Activation for any activations, reconcilers and mishaps.  *)
(***************************************************************************)
EXTENDS Activation, TLAPS

-----------------------------------------------------------------------------
\* The inductive invariant.

Recorded(a) == IF a \in central THEN 1 ELSE 0

\* How many processes there were follows from the runtime's record and from the
\* outcome of the local run, and where activate() is says which of them there
\* can be.
RunsAddUp ==
    \A a \in Activations :
        /\ outcome[a] = "ran" => runs[a] = Recorded(a) + 1
        /\ outcome[a] # "ran" => runs[a] = Recorded(a)
        /\ pc[a] = "wake" => a \notin central
        /\ pc[a] \in {"wake", "local"} => outcome[a] = "none"
        /\ pc[a] \in {"open", "write"} => outcome[a] # "none"
        /\ a \notin Available =>
              pc[a] \notin {"local", "open", "write"} /\ outcome[a] = "none"

\* Lines are written, read and ingested only for runs that have happened.
LinesStandForRuns ==
    /\ \A i \in DOMAIN file : file[i] # Torn => outcome[file[i]] # "none"
    /\ \A q \in Reconcilers : \A a \in read[q] : outcome[a] # "none"
    /\ \A a \in ingested : outcome[a] # "none"

\* What is about to be removed, and was read, is in the database.
RemovesWhatItIngested ==
    \A q \in Reconcilers : step[q] = "clear" => read[q] \subseteq ingested

HistoryInv == TypeOK /\ RunsAddUp /\ LinesStandForRuns /\ RemovesWhatItIngested

-----------------------------------------------------------------------------
\* The journal.

(***************************************************************************)
(* What is read from the journal are lines of it, of activations.           *)
(***************************************************************************)
LEMMA EntriesAreLines ==
  ASSUME TypeOK, NEW a \in Entries
  PROVE  a \in Activations /\ \E i \in DOMAIN file : file[i] = a /\ file[i] # Torn
  BY DEF TypeOK, Entries

(***************************************************************************)
(* Appending a line keeps the journal well formed, keeps every entry, and   *)
(* adds no line but that one.                                               *)
(***************************************************************************)
LEMMA AppendKeeps ==
  ASSUME TypeOK, NEW a \in Activations, NEW line \in Activations \cup {Torn},
         AppendLine(a, line) \/ UNCHANGED file
  PROVE  /\ file' \in Seq(Activations \cup {Torn})
         /\ Entries \subseteq Entries'
         /\ \A i \in DOMAIN file' : file'[i] = line \/ \E j \in DOMAIN file : file'[i] = file[j]
<1>1. CASE file' = file
  BY <1>1 DEF TypeOK, Entries
<1>2. CASE file' = Append(file, line)
  <2>1. file \in Seq(Activations \cup {Torn})
    BY DEF TypeOK
  <2>2. /\ file' \in Seq(Activations \cup {Torn})
        /\ DOMAIN file = 1..Len(file) /\ DOMAIN file' = 1..Len(file) + 1
        /\ Len(file) \in Nat
        /\ \A i \in 1..Len(file) : file'[i] = file[i]
        /\ file'[Len(file) + 1] = line
    BY <1>2, <2>1
  <2>3. Entries \subseteq Entries'
    BY <2>2 DEF Entries
  <2>4. QED
    BY <2>2, <2>3
<1>3. QED
  BY <1>1, <1>2 DEF AppendLine

-----------------------------------------------------------------------------
\* The invariant is inductive.

(***************************************************************************)
(* Nothing has happened and nothing is on record.                           *)
(***************************************************************************)
LEMMA InitHistory == Init => HistoryInv
  BY ActivationAssumption DEF Init, HistoryInv, TypeOK, RunsAddUp, LinesStandForRuns,
     RemovesWhatItIngested, Recorded, LocalOutcomes, Exits


(***************************************************************************)
(* A refused manifest starts nothing and exits.                             *)
(***************************************************************************)
LEMMA RefuseManifestKeeps ==
  ASSUME HistoryInv, NEW a \in Activations, RefuseManifest(a)
  PROVE  HistoryInv'
<1> USE DEF HistoryInv, At
<1>1. TypeOK'
  BY ActivationAssumption DEF RefuseManifest, Exit, GoTo, TypeOK, LocalOutcomes, Exits, RunsAddUp, Recorded, reconcilers
<1>2. RunsAddUp'
  BY DEF RefuseManifest, Exit, GoTo, TypeOK, LocalOutcomes, RunsAddUp, Recorded
<1>3. LinesStandForRuns'
  BY DEF RefuseManifest, Exit, GoTo, TypeOK, LinesStandForRuns, reconcilers, LocalOutcomes
<1>4. RemovesWhatItIngested'
  BY DEF RefuseManifest, Exit, GoTo, RemovesWhatItIngested, reconcilers
<1>5. QED
  BY <1>1, <1>2, <1>3, <1>4

(***************************************************************************)
(* The runtime returns: a run it started is on its record.                  *)
(***************************************************************************)
LEMMA RunRecordedKeeps ==
  ASSUME HistoryInv, NEW a \in Activations, RunRecorded(a)
  PROVE  HistoryInv'
<1> USE DEF HistoryInv, At
<1>1. TypeOK'
  BY ActivationAssumption DEF RunRecorded, Exit, GoTo, RuntimeStarted, Started, TypeOK, LocalOutcomes, Exits, RunsAddUp, Recorded, reconcilers
<1>2. RunsAddUp'
  BY DEF RunRecorded, Exit, GoTo, RuntimeStarted, Started, TypeOK, LocalOutcomes, RunsAddUp, Recorded
<1>3. LinesStandForRuns'
  BY DEF RunRecorded, Exit, GoTo, RuntimeStarted, Started, TypeOK, LinesStandForRuns, reconcilers, LocalOutcomes
<1>4. RemovesWhatItIngested'
  BY DEF RunRecorded, Exit, GoTo, RuntimeStarted, Started, RemovesWhatItIngested, reconcilers
<1>5. QED
  BY <1>1, <1>2, <1>3, <1>4

(***************************************************************************)
(* The runtime raises: only an available capability goes on locally.        *)
(***************************************************************************)
LEMMA RunRaisesKeeps ==
  ASSUME HistoryInv, NEW a \in Activations, RunRaises(a)
  PROVE  HistoryInv'
<1> USE DEF HistoryInv, At
<1>1. TypeOK'
  BY ActivationAssumption DEF RunRaises, Exit, GoTo, RuntimeStarted, Started, MayRunLocally, TypeOK, LocalOutcomes, Exits, RunsAddUp, Recorded, reconcilers
<1>2. RunsAddUp'
  BY DEF RunRaises, Exit, GoTo, RuntimeStarted, Started, MayRunLocally, TypeOK, LocalOutcomes, RunsAddUp, Recorded
<1>3. LinesStandForRuns'
  BY DEF RunRaises, Exit, GoTo, RuntimeStarted, Started, MayRunLocally, TypeOK, LinesStandForRuns, reconcilers, LocalOutcomes
<1>4. RemovesWhatItIngested'
  BY DEF RunRaises, Exit, GoTo, RuntimeStarted, Started, MayRunLocally, RemovesWhatItIngested, reconcilers
<1>5. QED
  BY <1>1, <1>2, <1>3, <1>4

(***************************************************************************)
(* The local run gives the activation its outcome.                          *)
(***************************************************************************)
LEMMA RunLocallyKeeps ==
  ASSUME HistoryInv, NEW a \in Activations, RunLocally(a)
  PROVE  HistoryInv'
<1> USE DEF HistoryInv, At
<1>1. TypeOK'
  BY ActivationAssumption DEF RunLocally, GoTo, Started, TypeOK, LocalOutcomes, Exits, RunsAddUp, Recorded, reconcilers
<1>2. RunsAddUp'
  BY DEF RunLocally, GoTo, Started, TypeOK, LocalOutcomes, RunsAddUp, Recorded
<1>3. LinesStandForRuns'
  BY DEF RunLocally, GoTo, Started, TypeOK, LinesStandForRuns, reconcilers, LocalOutcomes
<1>4. RemovesWhatItIngested'
  BY DEF RunLocally, GoTo, Started, RemovesWhatItIngested, reconcilers
<1>5. QED
  BY <1>1, <1>2, <1>3, <1>4

(***************************************************************************)
(* The journal is opened after the run.                                     *)
(***************************************************************************)
LEMMA OpenJournalKeeps ==
  ASSUME HistoryInv, NEW a \in Activations, OpenJournal(a)
  PROVE  HistoryInv'
<1> USE DEF HistoryInv, At
<1>1. TypeOK'
  BY ActivationAssumption DEF OpenJournal, Exit, GoTo, Mishap, TypeOK, LocalOutcomes, Exits, RunsAddUp, Recorded, reconcilers
<1>2. RunsAddUp'
  BY DEF OpenJournal, Exit, GoTo, Mishap, TypeOK, LocalOutcomes, RunsAddUp, Recorded
<1>3. LinesStandForRuns'
  BY DEF OpenJournal, Exit, GoTo, Mishap, TypeOK, LinesStandForRuns, reconcilers, LocalOutcomes
<1>4. RemovesWhatItIngested'
  BY DEF OpenJournal, Exit, GoTo, Mishap, RemovesWhatItIngested, reconcilers
<1>5. QED
  BY <1>1, <1>2, <1>3, <1>4

(***************************************************************************)
(* The line that is written stands for the run before it.                   *)
(***************************************************************************)
LEMMA WriteEntryKeeps ==
  ASSUME HistoryInv, NEW a \in Activations, WriteEntry(a)
  PROVE  HistoryInv'
<1> USE DEF HistoryInv, At
<1>1. /\ file' \in Seq(Activations \cup {Torn})
      /\ \A i \in DOMAIN file' : file'[i] # Torn =>
            \/ file'[i] = a /\ pc[a] = "write"
            \/ \E j \in DOMAIN file : file'[i] = file[j]
  BY AppendKeeps DEF WriteEntry, TypeOK
<1>2. TypeOK'
  <2>1. /\ pc' = [pc EXCEPT ![a] = "done"]
        /\ \E code \in {"outcome", "unrecorded"} : exit' = [exit EXCEPT ![a] = code]
    BY DEF WriteEntry, Exit, GoTo
  <2>2. mishaps' \in 0..MaxMishaps
    BY ActivationAssumption DEF WriteEntry, Mishap, TypeOK
  <2>3. UNCHANGED <<runs, central, outcome, ingested, step, read, fresh>>
    BY DEF WriteEntry, reconcilers
  <2>4. opened' \subseteq Activations
    BY DEF WriteEntry, TypeOK
  <2>5. QED
    BY <1>1, <2>1, <2>2, <2>3, <2>4 DEF TypeOK, Exits
<1>3. RunsAddUp'
  BY DEF WriteEntry, Exit, GoTo, Mishap, TypeOK, RunsAddUp, Recorded
<1>4. LinesStandForRuns'
  BY <1>1 DEF WriteEntry, TypeOK, RunsAddUp, LinesStandForRuns, reconcilers
<1>5. RemovesWhatItIngested'
  BY DEF WriteEntry, RemovesWhatItIngested, reconcilers
<1>6. QED
  BY <1>2, <1>3, <1>4, <1>5

(***************************************************************************)
(* A death writes no line but that of the activation, or a torn one.        *)
(***************************************************************************)
LEMMA DieKeeps ==
  ASSUME HistoryInv, NEW a \in Activations, Die(a)
  PROVE  HistoryInv'
<1> USE DEF HistoryInv, At
<1>1. /\ file' \in Seq(Activations \cup {Torn})
      /\ \A i \in DOMAIN file' : file'[i] # Torn =>
            \/ file'[i] = a /\ pc[a] = "write"
            \/ \E j \in DOMAIN file : file'[i] = file[j]
  BY AppendKeeps DEF Die, TypeOK
<1>2. TypeOK'
  BY <1>1, ActivationAssumption DEF Die, GoTo, Mishap, TypeOK, Exits, reconcilers
<1>3. RunsAddUp'
  BY DEF Die, GoTo, Mishap, TypeOK, RunsAddUp, Recorded
<1>4. LinesStandForRuns'
  BY <1>1 DEF Die, TypeOK, RunsAddUp, LinesStandForRuns, reconcilers
<1>5. RemovesWhatItIngested'
  BY DEF Die, RemovesWhatItIngested, reconcilers
<1>6. QED
  BY <1>2, <1>3, <1>4, <1>5

(***************************************************************************)
(* A reconciliation reads lines of runs.                                    *)
(***************************************************************************)
LEMMA ReadJournalKeeps ==
  ASSUME HistoryInv, NEW q \in Reconcilers, ReadJournal(q)
  PROVE  HistoryInv'
<1> USE DEF HistoryInv
<1>1. TypeOK'
  BY EntriesAreLines DEF ReadJournal, TypeOK, activations
<1>2. RunsAddUp'
  BY DEF ReadJournal, RunsAddUp, Recorded, activations
<1>3. LinesStandForRuns'
  BY EntriesAreLines DEF ReadJournal, TypeOK, LinesStandForRuns, activations
<1>4. RemovesWhatItIngested'
  BY DEF ReadJournal, TypeOK, RemovesWhatItIngested
<1>5. QED
  BY <1>1, <1>2, <1>3, <1>4

(***************************************************************************)
(* What was read is in the database before it is removed.                   *)
(***************************************************************************)
LEMMA IngestKeeps ==
  ASSUME HistoryInv, NEW q \in Reconcilers, Ingest(q)
  PROVE  HistoryInv'
<1> USE DEF HistoryInv
<1>1. TypeOK'
  BY DEF Ingest, GoOn, AfterIngest, TypeOK, activations
<1>2. RunsAddUp'
  BY DEF Ingest, RunsAddUp, Recorded, activations
<1>3. LinesStandForRuns'
  BY DEF Ingest, GoOn, AfterIngest, TypeOK, LinesStandForRuns, activations
<1>4. RemovesWhatItIngested'
  BY DEF Ingest, GoOn, AfterIngest, TypeOK, RemovesWhatItIngested
<1>5. QED
  BY <1>1, <1>2, <1>3, <1>4

(***************************************************************************)
(* A conflict leaves everything as it is.                                   *)
(***************************************************************************)
LEMMA IngestConflictsKeeps ==
  ASSUME HistoryInv, NEW q \in Reconcilers, IngestConflicts(q)
  PROVE  HistoryInv'
<1> USE DEF HistoryInv
<1>1. TypeOK'
  BY DEF IngestConflicts, Leave, TypeOK, activations
<1>2. RunsAddUp'
  BY DEF IngestConflicts, RunsAddUp, Recorded, activations
<1>3. LinesStandForRuns'
  BY DEF IngestConflicts, Leave, TypeOK, LinesStandForRuns, activations
<1>4. RemovesWhatItIngested'
  BY DEF IngestConflicts, Leave, TypeOK, RemovesWhatItIngested
<1>5. QED
  BY <1>1, <1>2, <1>3, <1>4

(***************************************************************************)
(* A failed transaction may have been committed.                            *)
(***************************************************************************)
LEMMA IngestFailsKeeps ==
  ASSUME HistoryInv, NEW q \in Reconcilers, IngestFails(q)
  PROVE  HistoryInv'
<1> USE DEF HistoryInv
<1>1. TypeOK'
  BY ActivationAssumption DEF IngestFails, Leave, Mishap, TypeOK, activations
<1>2. RunsAddUp'
  BY DEF IngestFails, RunsAddUp, Recorded, activations
<1>3. LinesStandForRuns'
  BY DEF IngestFails, Leave, Mishap, TypeOK, LinesStandForRuns, activations
<1>4. RemovesWhatItIngested'
  BY DEF IngestFails, Leave, Mishap, TypeOK, RemovesWhatItIngested
<1>5. QED
  BY <1>1, <1>2, <1>3, <1>4

(***************************************************************************)
(* The journal is emptied.                                                  *)
(***************************************************************************)
LEMMA ClearJournalKeeps ==
  ASSUME HistoryInv, NEW q \in Reconcilers, ClearJournal(q)
  PROVE  HistoryInv'
<1> USE DEF HistoryInv
<1>1. TypeOK'
  BY DEF ClearJournal, Leave, TypeOK, activations
<1>2. RunsAddUp'
  BY DEF ClearJournal, RunsAddUp, Recorded, activations
<1>3. LinesStandForRuns'
  BY DEF ClearJournal, Leave, TypeOK, LinesStandForRuns, activations
<1>4. RemovesWhatItIngested'
  BY DEF ClearJournal, Leave, TypeOK, RemovesWhatItIngested
<1>5. QED
  BY <1>1, <1>2, <1>3, <1>4

(***************************************************************************)
(* A removal that fails leaves the journal as it is.                        *)
(***************************************************************************)
LEMMA ClearFailsKeeps ==
  ASSUME HistoryInv, NEW q \in Reconcilers, ClearFails(q)
  PROVE  HistoryInv'
<1> USE DEF HistoryInv
<1>1. TypeOK'
  BY ActivationAssumption DEF ClearFails, Leave, Mishap, TypeOK, activations
<1>2. RunsAddUp'
  BY DEF ClearFails, RunsAddUp, Recorded, activations
<1>3. LinesStandForRuns'
  BY DEF ClearFails, Leave, Mishap, TypeOK, LinesStandForRuns, activations
<1>4. RemovesWhatItIngested'
  BY DEF ClearFails, Leave, Mishap, TypeOK, RemovesWhatItIngested
<1>5. QED
  BY <1>1, <1>2, <1>3, <1>4

(***************************************************************************)
(* Every step keeps the invariant.                                          *)
(***************************************************************************)
LEMMA NextKeepsHistory == HistoryInv /\ [Next]_vars => HistoryInv'
<1> SUFFICES ASSUME HistoryInv, [Next]_vars PROVE HistoryInv'
  OBVIOUS
<1>1. CASE \E a \in Activations : Activate(a) \/ Die(a)
  BY <1>1, RefuseManifestKeeps, RunRecordedKeeps, RunRaisesKeeps, RunLocallyKeeps,
     OpenJournalKeeps, WriteEntryKeeps, DieKeeps DEF Activate
<1>2. CASE \E q \in Reconcilers : Reconcile(q)
  BY <1>2, ReadJournalKeeps, IngestKeeps, IngestConflictsKeeps, IngestFailsKeeps,
     ClearJournalKeeps, ClearFailsKeeps DEF Reconcile
<1>3. CASE UNCHANGED vars
  BY <1>3 DEF vars, HistoryInv, TypeOK, RunsAddUp, LinesStandForRuns, RemovesWhatItIngested,
     Recorded
<1>4. QED
  BY <1>1, <1>2, <1>3 DEF Next

(***************************************************************************)
(* The inductive invariant holds in every reachable state.                  *)
(***************************************************************************)
THEOREM HistoryInvariant == Spec => []HistoryInv
  BY InitHistory, NextKeepsHistory, PTL DEF Spec

-----------------------------------------------------------------------------
\* What follows from it.

(***************************************************************************)
(* Every reachable state is well formed.                                    *)
(***************************************************************************)
THEOREM TypeCorrect == Spec => []TypeOK
<1>1. HistoryInv => TypeOK
  BY DEF HistoryInv
<1>2. QED
  BY <1>1, HistoryInvariant, PTL

(***************************************************************************)
(* What is on record, in the database or in the journal, never exceeds what *)
(* happened (ActivationService._run_and_journal journals after the run;     *)
(* ReconciliationService ingests what it read).                             *)
(***************************************************************************)
THEOREM HistoryIsEarned == Spec => []HistoryMatchesRuns
<1>1. HistoryInv => HistoryMatchesRuns
  <2> SUFFICES ASSUME HistoryInv, NEW a \in ingested \cup Entries,
                      outcome[a] # "launch_failed"
               PROVE  runs[a] > Recorded(a)
    BY DEF HistoryMatchesRuns, Recorded
  <2>1. a \in Activations /\ outcome[a] # "none"
    BY EntriesAreLines DEF HistoryInv, TypeOK, LinesStandForRuns
  <2>2. outcome[a] = "ran"
    BY <2>1 DEF HistoryInv, TypeOK, LocalOutcomes
  <2>3. QED
    BY <2>1, <2>2 DEF HistoryInv, RunsAddUp, Recorded
<1>2. QED
  BY <1>1, HistoryInvariant, PTL

(***************************************************************************)
(* A capability that requires control state runs at most once per           *)
(* activation, and on record (_activate_degraded).                          *)
(***************************************************************************)
THEOREM StrictWork == Spec => []StrictWorkIsRecorded
<1>1. HistoryInv => StrictWorkIsRecorded
  BY DEF HistoryInv, TypeOK, RunsAddUp, Recorded, StrictWorkIsRecorded
<1>2. QED
  BY <1>1, HistoryInvariant, PTL

(***************************************************************************)
(* The journal gives up what a reconciliation has read only to the database *)
(* (ReconciliationService.reconcile: commit, then truncate).                *)
(***************************************************************************)
THEOREM JournalSafety == Spec => OnlyUnreadEntriesAreLost
<1> DEFINE Explained(a) ==
             \/ a \in ingested'
             \/ \E q \in Reconcilers : step[q] = "clear" /\ a \notin read[q]
<1>1. HistoryInv /\ [Next]_vars => \A a \in Entries \ Entries' : Explained(a)
  <2> SUFFICES ASSUME HistoryInv, [Next]_vars, NEW a \in Entries \ Entries'
               PROVE  Explained(a)
    OBVIOUS
  <2>1. CASE UNCHANGED file
    BY <2>1 DEF Entries
  <2>2. CASE \E b \in Activations : WriteEntry(b) \/ Die(b)
    BY <2>2, AppendKeeps DEF WriteEntry, Die, HistoryInv
  <2>3. CASE \E q \in Reconcilers : ClearJournal(q)
    BY <2>3 DEF ClearJournal, HistoryInv, RemovesWhatItIngested
  <2>4. UNCHANGED file \/ (\E b \in Activations : WriteEntry(b) \/ Die(b))
          \/ (\E q \in Reconcilers : ClearJournal(q))
    BY DEF Next, Activate, Reconcile, RefuseManifest, RunRecorded, RunRaises,
       RunLocally, OpenJournal, ReadJournal, Ingest, IngestConflicts, IngestFails,
       ClearFails, vars
  <2>5. QED
    BY <2>1, <2>2, <2>3, <2>4
<1>2. QED
  BY <1>1, HistoryInvariant, PTL DEF Spec, OnlyUnreadEntriesAreLost
=============================================================================
