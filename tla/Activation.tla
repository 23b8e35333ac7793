------------------------------ MODULE Activation ------------------------------
(***************************************************************************)
(* What happens when cron wakes a wrapper (application/activation/          *)
(* service.py), the local journal it falls back to (adapters/local/         *)
(* journal.py), and the reconciliation of that journal into the control     *)
(* plane (application/activation/reconciliation.py), on one host.           *)
(*                                                                          *)
(* The recorded runtime is one step here, with the endings that Runtime     *)
(* allows.  The journal is a file: an append opens it and then writes to    *)
(* what it opened, and a reconciliation removes it by name, so a line can   *)
(* go to a file that has been removed in between.                           *)
(*                                                                          *)
(* The journalled execution has an identity of its own, allocated by the    *)
(* wrapper; here it is the activation.  Ingestion keys on it.               *)
(***************************************************************************)
EXTENDS Naturals, Sequences

CONSTANTS
    Activations,    \* calls of activate(), each in a process of its own
    Available,      \* those that may run without the control plane
    Reconcilers,    \* processes that call reconcile() over and over
    Torn,           \* what a write leaves that was cut off
    MaxMishaps      \* bound: how many failures and deaths there may be

ASSUME ActivationAssumption ==
    /\ Available \subseteq Activations
    /\ Torn \notin Activations
    /\ MaxMishaps \in Nat

VARIABLES
    pc,         \* pc[a]: what activate() does next
    runs,       \* runs[a]: how many processes a has started
    central,    \* the activations with a process the runtime recorded
    outcome,    \* outcome[a]: the classified outcome of a's local run
    exit,       \* exit[a]: how the wrapper exits
    file,       \* the lines of the journal
    opened,     \* the activations that have opened the file it is now
    ingested,   \* the journalled runs that are in the database
    step,       \* step[q]: what reconcile() does next
    read,       \* read[q]: the entries it has read
    fresh,      \* fresh[q]: those it has not found in the database
    mishaps     \* how many failures and deaths there have been

activations == <<pc, runs, central, outcome, exit>>
reconcilers == <<step, read, fresh>>
vars == <<pc, runs, central, outcome, exit, file, opened, ingested, step, read,
          fresh, mishaps>>

-----------------------------------------------------------------------------
\* State.

\* Whether the classified outcome is one of those that ran.
LocalOutcomes == {"none", "ran", "launch_failed"}

\* 0 or 1, by the outcome; 70; 75; "error" is a traceback.
Exits == {"none", "outcome", "unrecorded", "declined", "error"}

TypeOK ==
    /\ pc \in [Activations -> {"wake", "local", "open", "write", "done", "dead"}]
    /\ runs \in [Activations -> 0..2]
    /\ central \subseteq Activations
    /\ outcome \in [Activations -> LocalOutcomes]
    /\ exit \in [Activations -> Exits]
    /\ file \in Seq(Activations \cup {Torn})
    /\ opened \subseteq Activations
    /\ ingested \subseteq Activations
    /\ step \in [Reconcilers -> {"idle", "ingest", "clear"}]
    /\ read \in [Reconcilers -> SUBSET Activations]
    /\ fresh \in [Reconcilers -> SUBSET Activations]
    /\ mishaps \in 0..MaxMishaps

Init ==
    /\ pc = [a \in Activations |-> "wake"]
    /\ runs = [a \in Activations |-> 0]
    /\ central = {}
    /\ outcome = [a \in Activations |-> "none"]
    /\ exit = [a \in Activations |-> "none"]
    /\ file = <<>>
    /\ opened = {}
    /\ ingested = {}
    /\ step = [q \in Reconcilers |-> "idle"]
    /\ read = [q \in Reconcilers |-> {}]
    /\ fresh = [q \in Reconcilers |-> {}]
    /\ mishaps = 0

-----------------------------------------------------------------------------
\* Helpers.

At(a, place) == pc[a] = place
GoTo(a, place) == pc' = [pc EXCEPT ![a] = place]
Exit(a, code) == GoTo(a, "done") /\ exit' = [exit EXCEPT ![a] = code]

Mishap == mishaps < MaxMishaps /\ mishaps' = mishaps + 1

\* ActivationJournal.entries: a line that is cut off has no end, so it spoils
\* the line that is appended to it; every other line stands for itself.
Entries ==
    {file[i] : i \in {j \in DOMAIN file :
        file[j] # Torn /\ (j = 1 \/ file[j - 1] # Torn)}}

Started(a) == runs' = [runs EXCEPT ![a] = @ + 1]

\* A process the runtime started, which is on its record (EveryLaunchIsRecorded
\* of Runtime), or none.
RuntimeStarted(a, started) ==
    IF started THEN Started(a) /\ central' = central \cup {a}
               ELSE UNCHANGED <<runs, central>>

-----------------------------------------------------------------------------
\* activate().

\* Nothing installed, or a manifest that was modified.
RefuseManifest(a) ==
    /\ At(a, "wake")
    /\ Exit(a, "error")
    /\ UNCHANGED <<runs, central, outcome, opened, file, ingested, reconcilers, mishaps>>

\* run() returns: its execution is finished and recorded.
RunRecorded(a) ==
    /\ At(a, "wake")
    /\ \E started \in BOOLEAN : RuntimeStarted(a, started)
    /\ Exit(a, "outcome")
    /\ UNCHANGED <<outcome, opened, file, ingested, reconcilers, mishaps>>

\* A policy that lets every capability run.
MayRunLocallySlip(a) == TRUE

\* executes_without_control_state, and no secret that only the control plane
\* can resolve.
MayRunLocally(a) == a \in Available

\* Building the runtime or run() raises an infrastructure error, before or
\* after a process was started.  _activate_degraded decides from the manifest
\* alone.
RunRaises(a) ==
    /\ At(a, "wake")
    /\ \E started \in BOOLEAN : RuntimeStarted(a, started)
    /\ IF MayRunLocally(a) THEN GoTo(a, "local") /\ UNCHANGED exit
                           ELSE Exit(a, "declined")
    /\ UNCHANGED <<outcome, opened, file, ingested, reconcilers, mishaps>>

\* A write-ahead journal: the line is written although nothing was started.
RunLocallySlip(a) ==
    /\ At(a, "local")
    /\ GoTo(a, "open")
    /\ UNCHANGED <<runs, central, outcome, exit, opened, file, ingested, reconcilers, mishaps>>

\* _run_and_journal: the work runs with no claim and nothing written before it.
RunLocally(a) ==
    /\ At(a, "local")
    /\ \E o \in LocalOutcomes \ {"none"} :
          /\ IF o = "ran" THEN Started(a) ELSE UNCHANGED runs
          /\ outcome' = [outcome EXCEPT ![a] = o]
    /\ GoTo(a, "open")
    /\ UNCHANGED <<central, exit, opened, file, ingested, reconcilers, mishaps>>

\* A journal that cannot be opened makes the wrapper try everything again.
OpenJournalSlip(a) ==
    /\ At(a, "open")
    /\ \/ /\ GoTo(a, "write")
          /\ opened' = opened \cup {a}
          /\ UNCHANGED mishaps
       \/ Mishap /\ GoTo(a, "local") /\ UNCHANGED opened
    /\ UNCHANGED <<runs, central, outcome, exit, file, ingested, reconcilers>>

\* ActivationJournal.append opens the file, which creates it if need be.
OpenJournal(a) ==
    /\ At(a, "open")
    /\ \/ /\ GoTo(a, "write")
          /\ opened' = opened \cup {a}
          /\ UNCHANGED <<exit, mishaps>>
       \/ Mishap /\ Exit(a, "unrecorded") /\ UNCHANGED opened
    /\ UNCHANGED <<runs, central, outcome, file, ingested, reconcilers>>

\* The line goes to the file that was opened, whatever the journal is now.
AppendLine(a, line) ==
    file' = IF a \in opened THEN Append(file, line) ELSE file

\* Written and synced; written but reported as failed; not written; cut off.
WriteEntry(a) ==
    /\ At(a, "write")
    /\ \/ /\ AppendLine(a, a)
          /\ Exit(a, "outcome")
          /\ UNCHANGED mishaps
       \/ /\ Mishap
          /\ UNCHANGED file \/ \E line \in {a, Torn} : AppendLine(a, line)
          /\ Exit(a, "unrecorded")
    /\ opened' = opened \ {a}
    /\ UNCHANGED <<runs, central, outcome, ingested, reconcilers>>

\* The wrapper dies, or leaves activate() with an exception nothing catches; a
\* line it was writing may be cut off.
Die(a) ==
    /\ ~At(a, "done") /\ ~At(a, "dead")
    /\ Mishap
    /\ GoTo(a, "dead")
    /\ \/ UNCHANGED file
       \/ At(a, "write") /\ \E line \in {a, Torn} : AppendLine(a, line)
    /\ opened' = opened \ {a}
    /\ UNCHANGED <<runs, central, outcome, exit, ingested, reconcilers>>

-----------------------------------------------------------------------------
\* reconcile().

\* reconcile() goes on, or returns and forgets what it read.
GoOn(q, place) == step' = [step EXCEPT ![q] = place] /\ UNCHANGED <<read, fresh>>

Leave(q) ==
    /\ step' = [step EXCEPT ![q] = "idle"]
    /\ read' = [read EXCEPT ![q] = {}]
    /\ fresh' = [fresh EXCEPT ![q] = {}]

\* The entries, if there are any, and then the unit of work.
ReadJournal(q) ==
    /\ step[q] = "idle"
    /\ Entries # {}
    /\ step' = [step EXCEPT ![q] = "ingest"]
    /\ read' = [read EXCEPT ![q] = Entries]
    /\ fresh' = [fresh EXCEPT ![q] = Entries \ ingested]
    /\ UNCHANGED <<activations, file, opened, ingested, mishaps>>

\* A reconciliation that had nothing new to record leaves the journal alone.
AfterIngestSlip(q) == IF fresh[q] = {} THEN "idle" ELSE "clear"

AfterIngest(q) == "clear"

\* Every entry that is not there yet is added, in one transaction.
Ingest(q) ==
    /\ step[q] = "ingest"
    /\ ingested' = ingested \cup read[q]
    /\ GoOn(q, AfterIngest(q))
    /\ UNCHANGED <<activations, file, opened, mishaps>>

\* A conflict taken for "already known".
IngestConflictsSlip(q) ==
    /\ step[q] = "ingest"
    /\ fresh[q] \cap ingested # {}
    /\ GoOn(q, "clear")
    /\ UNCHANGED <<activations, file, opened, ingested, mishaps>>

\* Another reconciliation added an entry after this one had looked for it: the
\* primary key refuses the second, and with it the whole transaction.
IngestConflicts(q) ==
    /\ step[q] = "ingest"
    /\ fresh[q] \cap ingested # {}
    /\ Leave(q)
    /\ UNCHANGED <<activations, file, opened, ingested, mishaps>>

\* The control plane is not reachable, or only the commit's reply is lost.
IngestFails(q) ==
    /\ step[q] = "ingest"
    /\ Mishap
    /\ UNCHANGED ingested \/ ingested' = ingested \cup read[q]
    /\ Leave(q)
    /\ UNCHANGED <<activations, file, opened>>

\* truncate: the journal is removed, whatever it holds by now.
ClearJournal(q) ==
    /\ step[q] = "clear"
    /\ file' = <<>>
    /\ opened' = {}
    /\ Leave(q)
    /\ UNCHANGED <<activations, ingested, mishaps>>

\* The file cannot be removed, or the process dies before it is.
ClearFails(q) ==
    /\ step[q] = "clear"
    /\ Mishap
    /\ Leave(q)
    /\ UNCHANGED <<activations, file, opened, ingested>>

-----------------------------------------------------------------------------
Activate(a) ==
    \/ RefuseManifest(a) \/ RunRecorded(a) \/ RunRaises(a)
    \/ RunLocally(a) \/ OpenJournal(a) \/ WriteEntry(a)

Reconcile(q) ==
    \/ ReadJournal(q) \/ Ingest(q) \/ IngestConflicts(q) \/ IngestFails(q)
    \/ ClearJournal(q) \/ ClearFails(q)

Next ==
    \/ \E a \in Activations : Activate(a) \/ Die(a)
    \/ \E q \in Reconcilers : Reconcile(q)

Spec == Init /\ [][Next]_vars

\* reconcile runs on a schedule, and the control plane comes back.
FairSpec == Spec /\ \A q \in Reconcilers : WF_vars(Reconcile(q))

-----------------------------------------------------------------------------
\* Properties.

\* The journal gives up an entry only when it is in the database, or when the
\* reconciliation that removes the file had not read it: what a reconciliation
\* has read is never lost, whatever fails and whoever else reconciles.
OnlyUnreadEntriesAreLost ==
    [][\A a \in Entries \ Entries' :
          \/ a \in ingested'
          \/ \E q \in Reconcilers : step[q] = "clear" /\ a \notin read[q]]_vars

\* What is on record never exceeds what happened: an entry, before and after
\* its ingestion, stands for a process of its own, beside the one the runtime
\* may have recorded for the same activation.
HistoryMatchesRuns ==
    \A a \in ingested \cup Entries :
        outcome[a] # "launch_failed" =>
            runs[a] > (IF a \in central THEN 1 ELSE 0)

\* Work that requires control state is started by the runtime only, hence once
\* and with a record (ActivationPolicy, require_control_state).
StrictWorkIsRecorded ==
    \A a \in Activations \ Available :
        runs[a] > 0 => runs[a] = 1 /\ a \in central

\* The journal does not keep an entry for ever.
JournalIsDrained ==
    \A a \in Activations : a \in Entries ~> a \notin Entries

\* A wrapper that exits with its work's own status has a trace of that work
\* somewhere ("Silent unrecorded execution is impossible: either it does not
\* run, or it is journalled", ADR 0024).
NoSilentUnrecordedRun ==
    \A a \in Activations :
        exit[a] = "outcome" /\ runs[a] > 0
            => a \in central \cup ingested \cup Entries
=============================================================================
