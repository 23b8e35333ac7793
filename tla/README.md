# TaskControl: a verification development

This directory holds TLA+ specifications of TaskControl (`src/src/taskcontrol`), TLC
configurations that check them on small instances, and theorems about them whose proofs
TLAPS checks for every value of the constants. Paths below are relative to
`src/src/taskcontrol` unless they start with `src/`.

- [The system](#the-system): its parts, their state, what is hard about each
- [Plan](#plan): the modules, in the order they are written
- [Modules](#modules): how each one corresponds to the code
- [Runs](#runs): what is model-checked, within which bounds
- [Proofs](#proofs): what is proved and how
- [What the runs found](#what-the-runs-found)
- [Not modelled](#not-modelled)

## The system

TaskControl does not schedule. Cron (or an operator, or another system) starts one
short-lived process per activation. That process loads a definition, runs it, and records
what happened. Everything the activations share is outside them: one SQL database, and on
every host a directory of installed manifests, a journal file and the crontabs.

```
   cron ── wrapper ── ActivationService ── RuntimeService ── SubprocessExecutor ── process
                        │      │               │    │
             manifests ─┘      │               │    └── DurableOverlapLock ── claim store ─┐
             (per host)   journal ── Reconciliation ──────── units of work ───────── database
                          (per host)
   operator ── DeploymentService ── CronSchedulerManagement ── crontabs, cron directories
                    └── manifests
```

| Component | State it keeps | Operations | What is hard | What makes it correct |
|---|---|---|---|---|
| Claims: `domain/claims`, `adapters/persistence/claim_store.py`, `adapters/locking/durable.py` | one row per subject: owner, end of the lease, fencing token; each process's handles | `try_acquire`, `renew`, `release`, `current` | a process stalls between clock, row and commit; replies are lost; owners die | one token, one owner; a holder is protected until its lease ends; a superseded claim changes nothing |
| Runtime: `application/runtime/service.py`, `domain/execution/execution.py` | an execution row and its attempt rows; local copies of them | `run`: look up a duplicate, create, evaluate, claim, attempt, retry, classify, finish; handlers; clean-up | every save is a transaction of its own that may fail or lose its reply; interrupts, kills; saves made from copies that are out of date | every created execution finishes, once; every started process is on record; no overlap; one execution per idempotency key |
| Vocabulary and classification: `domain/execution/vocabulary.py`, `results.py`, `domain/policies/classification.py` | none | classify a result; decide a retry | the order of the cases; the attempt count at its limit | a classification can be recorded; only safe outcomes are retried |
| Executor: `adapters/executors/subprocess_executor.py` | the child, its process group, two drain threads | `run`: start, wait, time out, cancel, terminate, escalate, collect | the child exits while it is being timed out; it ignores SIGTERM; descendants hold its pipes | the cause of an end is recorded when it is requested; the call returns |
| Activation: `application/activation/service.py` | none of its own | `activate`: load the manifest, try the runtime, otherwise decide by policy, run, journal | an infrastructure error can come before or after the work ran | work runs at most once per activation; the exit code says what happened; no run goes unrecorded in silence |
| Journal and reconciliation: `adapters/local/journal.py`, `application/activation/reconciliation.py` | a file of lines | append, read, remove; ingest into the database | torn lines; appends and other reconciliations during a reconciliation; crashes between commit and removal | an entry leaves the file only when it is in the database; ingesting twice changes nothing |
| Tasks and revisions: `domain/tasks`, their repositories | task rows with a version, revision rows | create, edit, publish, supersede, withdraw, activate, suspend, resume, retire, archive | two writers with the same version; two aggregates that must agree | a published revision never changes; legal transitions only; no lost update |
| Cron deployment: `adapters/schedulers/cron`, `application/deployment/service.py`, `domain/deployment`, `adapters/local/manifests.py` | crontabs, cron directories, installed manifests | plan, apply, roll back, verify, remove | a plan is older than the host it is applied to; a failure half way; files others edit too | apply does all or nothing; foreign lines survive; artefact and manifest belong together |
| Scheduling: `domain/scheduling` | none | next occurrence, cron field validation, calendars, conditions | clock changes, search limits | the next occurrence is the next one |
| Configuration: `domain/configuration/profiles.py` | none | resolve layered profiles with a trace | ties between layers | the value is the highest layer's, and the trace says why |
| Values, serialization, CLI, API, infrastructure | none | parse, print, wire | — | — |

How they interact: `ActivationService` builds a `RuntimeService` and treats every
infrastructure error that leaves it as "the control plane is unreachable". The runtime calls
the claim store through the overlap lock, the executor, and the execution repository, each
call of the repository in a unit of work of its own; there is no callback except the
executor's poll for a cancellation, which the runtime does not pass. The claim's subject is
the task; the claim's owner is `taskcontrol-runtime:<execution id>`.

The hazards this leads to are listed, each at its line and with the properties that watch
it, in `PROJECT.json` under `hazards`.

## Plan

In the order of what the system must not get wrong:

1. **Claims**: `FencedLease`, the abstract promise; `ClaimStore`, the store step by step;
   `ClaimStoreProofs`.
2. **Runtime**: `Outcomes`, the vocabulary and the decisions; `Runtime`, which uses them and
   the atomic claim `ClaimStore` implements; `RuntimeProofs`.
3. **Activation**: activations, the journal file and reconciliation, with the endings of
   `run()` that `Runtime` allows; `ActivationProofs`.
4. **Executor**: the supervision behind the one step `Report` of `Runtime`.
5. **Tasks**: tasks and revisions in their repositories, and the runtime's load of them.
6. **Deployment**, over **Rendering**: plan, apply, rollback and manifests on a host and an
   estate that both change.
7. **Schedules**, **Eligibility** and **Configuration**: decision procedures without state
   between calls; `DomainDecisions`, which composes them.

The models of all seven are done, and so are the proofs of every invariant and step property that
the passing runs check. Liveness stays with TLC.

## Modules

### FencedLease

The promise of `ports/claims.py`: a subject is owned until some moment; it changes hands only
after that moment, and every change of hands begins a new epoch; within an epoch only the end
of the ownership moves, and never more than the longest lease into the future.

### ClaimStore

`SqlAlchemyClaimStore` and the handles `DurableOverlapLock` keeps for its callers.

| In the module | In the code |
|---|---|
| `row` | the `claims` table; token 0 is the row that is not there yet |
| `handles` | `DurableOverlapLock._held`, and a claim that `renew` returned |
| `call` | where a process is within a store call, with what it has read: the clock, then the row |
| `BeginAcquire`, `ReadRow`, `Acquire`, `Refuse` | `try_acquire`: clock, `session.get`, then the INSERT or the conditional UPDATE and its commit |
| `BeginRenew`, `Renew`, `RenewNotHeld` | `renew`, with `Claim.renewed_until` |
| `BeginRelease`, `Release` | `DurableOverlapLock.release` and the store's `release`, which lapses the row and never deletes it |
| `AcquireReplyLost`, `RenewReplyLost` | the commit took effect, its reply did not arrive |
| `StoreFails`, `Crash` | an error before the commit; the death of the process |

Left out: `acquired_at`, which no decision reads; `current` and `is_held`, which only read.
All processes read one clock. Skew between hosts is outside the model, as it is outside what
the code defends against; a process that *stalls* with an old reading is in the model.

### Outcomes

States and outcomes of executions, process results, `classify_process_result` and
`decide_retry` as operators without state. Exit codes are abstracted to whether they are
among the successful ones, reason codes to the outcome they explain; backoff delays are left
out (`RuntimeService` retries at once and never reads the delay).

### Runtime

`RuntimeService.run` for several activations of one task. Each *runner* is one call of `run`
in a process of its own. `pc[r]` is the next statement that matters, `frame[r]` the local
variables: `outer` is the `execution` of `_execute`, `inner` the one of `_run_attempts`. The
two differ, and the handlers finish the *outer* one; the repository's `save` merges whatever
it is given into the stored row (`Merged`). Every save is one action that either takes effect
(`Saved`) or raises with or without effect (`NotSaved`).

| In the module | In the code |
|---|---|
| `Load`, `LookUp`, `Create`, `Enter` | `run` up to the try block of `_execute` |
| `Evaluate`, `AcquireLock`, `Block`, `Prepare`, `BeginAttempt`, `Launch`, `Report`, `RecordResult`, `Decide` | the try block, with `_run_attempts` |
| `Fail`, `RecordUnproven` | `except TaskControlError`, `except BaseException` |
| `ReleaseLock`, `ForceTerminal` | the finally block |
| `Interrupt`, `Kill` | an exception between two steps (KeyboardInterrupt, SystemExit); SIGKILL or a lost host |
| `OrphanEnds` | the end of a child nobody waits for: it runs in a session of its own and survives its runner |

The claim is atomic here, which is what `ClaimStore` is shown to implement, and it carries no
token, because each execution is an owner of its own. A failed read inside a transaction is
the same as a failed transaction. Whether a load failed because the task is missing or
because the store did is not distinguished: `run` raises either way, before anything exists.

### Activation

`ActivationService.activate` for several activations on one host, the journal file they
share, and processes that call `ReconciliationService.reconcile` again and again.

| In the module | In the code |
|---|---|
| `pc`, `runs`, `outcome`, `exit` | where `activate` is; how many processes it has started; the classified outcome of its local run; its exit code (0 and 1 are one value) |
| `central` | the runs that the runtime's own record has |
| `file`, `opened` | the lines of `activations.jsonl`; who has the present file open. A removed file takes its openers' lines with it |
| `Torn` | what is left of a line whose write was cut off; the next line is appended to it and neither can be read |
| `RunRecorded`, `RunRaises` | the two ways `run` ends: it returns, or an infrastructure error leaves it, before or after the process ran |
| `RunLocally`, `OpenJournal`, `WriteEntry` | `_run_and_journal` and `ActivationJournal.append` |
| `ReadJournal`, `Ingest`, `IngestConflicts`, `IngestFails` | the read and the one unit of work of `reconcile`; `fresh` is what `get` did not find |
| `ClearJournal`, `ClearFails` | `truncate`, which removes the file whatever it holds by then |

`RunRecorded` and `RunRaises` are the interface to `Runtime`: that the outcome returned is
the recorded one is `ReturnsWhatIsRecorded` there, that a started process is on record is
`EveryLaunchIsRecorded`, and that an error can leave `run` after the process ended is how
`ReleaseLock` and `Leave` fail. An activation passes no idempotency key, so it is never
answered with another delivery's execution. The journalled execution has an identity of its
own, so one activation can leave two records; then there were two runs.

Left out: the overlap claim, which a local run does not take (it says so in its explanation);
the content of an entry; entries of another format version; a cut that loses nothing but the
line's end.

### Executor

`SubprocessExecutor.run`: what `Runtime` has as `Launch` and `Report`, seen from inside. The
supervising thread runs beside the leader of the process group, a child it may leave behind,
the drain threads and the clock.

| In the module | In the code |
|---|---|
| `pc`, `cause`, `sent` | where `run` and `_supervise` are; the `_Termination` they carry |
| `leader`, `child`, `signals` | the process, a descendant in its group, the signals `_signal_group` has sent to both |
| `Poll`, `Decide` | one turn of `_wait`. They are two steps: the process may end between them |
| `Terminate`, `Escalate`, `AfterKill` | `_terminate`. `patience` says that the grace has passed; a grace of zero is no timeout |
| `Drain`, `Join`, `ClosePipes` | `_StreamCollector` and `_close_pipes`. `close()` takes the lock the reading thread holds, so it waits until nobody has the other end |
| `Classify` | the report: a termination that was begun decides, then the return code |

Time is whether a limit has passed. Output is counted in lines; the two streams are one.
After the leader's end `Join` assumes that the threads empty a full pipe within their five
seconds. Left out: environment and command line, and output of a child that outlives the
leader.

### Tasks

`Task` and `TaskRevision` as rows, and editors that read a row, work on their copy and hand it
back in a later unit of work. `TaskTransitions` and `PublicationTransitions` are the tables of
`lifecycle.py`; `UpdateMetadata`, `ActivateRevision`, `TransitionTo`, `Publish` and `MovedOn`
the operations on a copy; `ValidTask` and `ValidRevision` what `__post_init__` and the table
constraints refuse.

A save is two steps. `UpdateTask` reads the row, compares the version in Python and leaves in
the session what differs from the row; `FlushTask` writes these columns and no others, to
whatever the row is by then, since the UPDATE names the key only. `SaveState` and
`FlushRevision` are the same without a version; they never write the content.
`latest_revision_number` (`DraftRevision`) and the `add` that uses the number (`AddRevision`)
are in different units of work. `LoadTask` and `LoadRevision` are `RuntimeService._load`, which
reads the task, then its revision, and looks at the state of the revision only.

Names stand for all mutable metadata, `Contents` for all that a digest covers. `Begun` lets a
run start from a task that has a history. A withdrawn draft is not among the steps: its
validation always refuses it.

### Rendering and Deployment

`Rendering` is the text of a crontab or file: a sequence of lines, each a marker, a managed
entry or somebody else's. Regions, the single block and its members are found, replaced and
removed as in `rendering.py`, with what makes a text ambiguous (`RegionsReadable`,
`BlockReadable`). `Words` are what lines may say, whatever their order and number; the run takes all
strings. What an entry says is a function of the capability and its revision.

`Deployment` is `DeploymentService` over `CronSchedulerManagement`, in appliers that are a
`taskctl schedule apply` or a removal each.

| In the module | In the code |
|---|---|
| `host` | the text of every crontab and every file of a managed directory; an empty text is an absent file |
| `estate`, `installed` | the active revision of every capability; the manifests |
| `ReadPage`, `MakePlan`, `Confirm` | `desired_artefacts`, `plan`, and the prompt of the command |
| `InstallPage` | `_install_manifests`, which reads the estate *again* |
| `ReadStore`, `WriteStore`, `ReadBack` | `_apply_write` and `_apply_removal` for one store: read and capture, write what follows from the text that was read, read it back |
| `Restore` | `_roll_back` and `_Snapshot.restore` |
| `Uninstall` | `_uninstall_removed` |
| `Fault`, `InstallFails`, `Kill` | an exception in the loop or in the installation; the end of the process |
| `Publish`, `Edit` | the lifecycle activates or retires a capability; people edit the host |

`before`, `touched`, `moved` and `raced` record for the properties what others did meanwhile.
Left out: users, modes, escapes, and the atomic rename of a file, which makes a write one step;
the `verify` command, which reads only (`VerifyMatches` is what it computes).

### Schedules, Eligibility, Configuration

`Schedules`: instants are slots of UTC, a zone is one transition with its two offsets, and
`InstantOf` is what `zoneinfo` makes of a local time that exists twice or not at all.
`NextOfInterval` and `NextOfWeekly` are the two `next_occurrence_after`; `Preview` is one turn
of `preview_occurrences`. The search limit of 1500 days cannot be reached: a selected weekday
comes twice within two weeks, and a transition, which moves the clocks by a day at most
(`ZonesAssumption`), takes only one of the two. `MovesPastMidnight` are the zones for which the
two properties of previews say less, see [below](#what-the-runs-found).

`Eligibility`: `Classify` a day in a calendar, decide each condition, combine. No condition of
the repository answers "error" by itself; one supplied from outside does.

`Configuration`: the loop of `resolve_configuration`, one variable a step. `todo` is the set of
definitions still to come; the next one (`IsNext`) precedes all others, by layer and, since the
sort is stable, then by its place in what was given. A value is known by the profile that supplies
it.

`DomainDecisions` puts the three into one system, in which one of them is called and the others
rest: there is nothing that one of them reads and another writes.

## Runs

Times are for four workers.

| Run | Instance | What it shows |
|---|---|---|
| `claims` | 3 processes, 1 subject, leases of 2, clock to 4, 3 tokens (600 thousand states, 15 s) | types; tokens are unique; a holder is protected; only the current claim adjusts a row; `ClaimStore` implements `FencedLease` |
| `runtime` | 2 runners, 2 attempts, lease 1, clock to 2, one mishap of each kind (4.2 million states, 40 s) | the process runs under the claim; overlaps have one of two explanations; the claim is given back; every launch is on record, within the policy; a success was earned; what is returned is what is on record; the stored state moves legally |
| `runtime_keys` | 3 runners, 2 of them with one key, one failing transaction (64 thousand states, 15 s) | types; one execution per key; a finished execution is never written again; every created execution finishes |
| `activation` | 3 activations, one of them strict, 2 reconcilers, any 2 mishaps (2 min) | types; nothing is on record that did not happen; strict work runs once and on record; what a reconciliation has read is never lost; the journal is drained |
| `deployment` | 2 capabilities, 5 revisions (region, block, file, script, unpublished), a crontab, 2 directories, pages of 1, 2 applies, one change from outside, one failing step and one death (840 thousand states, 50 s) | types; an apply that succeeds is complete; a rollback restores; no artefact stands without its manifest; lines and files of others survive |
| `tasks` | 1 task, 2 revisions, 2 editors, 2 contents, 3 versions (6.6 million states, 90 s) | types; revisions are numbered without a gap; what has run keeps its meaning; writes that do not overlap follow versions and lifecycle |
| `executor` | 768 requests and programs, a pipe of 2 lines (468 thousand states, 30 s) | types; the report is true; output is whole or marked; every bounded run is reported; a termination reaches the tree |
| `decisions` | 6 zones, 3-slot days and 3-day weeks, previews of up to 4; calendars over 2 days, 2 conditions; 3 profiles, 3 layers, 2 keys (218 thousand states, 10 s) | types; previews are complete and keep the wall clock; a task is eligible exactly when all conditions permit; resolution ignores the order of profiles |
| `silent_loss`, `rewritten`, `lost_update`, `never_reports` | violations | see [below](#what-the-runs-found) |

Why the bounds are enough. Subjects do not interact in the store (every statement names its
subject), so one subject is checked; three processes allow a holder, its successor and a
third that still holds what it read before both; three tokens and a clock of two leases let a
claim lapse twice while a process stalls. In the runtime the rows of the runners are
independent but for the claim and the key, so two runners show every interaction through the
claim and three every interaction through a key and a claim together. One mishap of *each*
kind within one behaviour allows a failure and the failure of what handles it. Two attempts
show a retry and its limit. A lease of one and a clock of two let a lease lapse under a
running process and the next one be taken.

Three activations and two reconcilers let one line be in the journal, a second be appended
while it is reconciled, and the two reconciliations fight over both, with any pair of
mishaps (a failed or torn write, a failed transaction, a lost reply, a removal that fails, a
death) at any two places.

Deployment needs two capabilities so that one can be wanted and the other removed or moved, and
pages of one so that there is more than one page. A revision is a region of a crontab, a member
of its single block, a file of `/etc/cron.d`, a script of `/etc/cron.daily`, or a draft without a
digest; the five estates a run starts with move a capability between them. The four hosts are a
crontab with a user's lines around a managed region, one whose region of the same slug is another
installation's, one with a block and a region, and one in which the two overlap.
One process applies twice, and the estate or the host changes once in between. Two
editors with copies of any age are the two writers of every race here; the second task of a
repository meets the first only in the uniqueness of slugs. Three versions let a stale copy be two
writes behind. A pipe of two lines and programs that print up to more than pipe and limit
together make a program block and output be dropped. Two conditions show the first refusal and
one behind it; three profiles on three layers a chain of two overrides, a pin and a conflict.
With 3 slots a day every slot is next to a midnight; the zones spring forward and fall back in
the middle of a day, across midnight and, by two slots, just before it.

Deadlock is not checked but in `claims`: the other systems really end, when every call has
returned, every process is gone, the bounds on changes are used up.

**Fairness.** `EveryExecutionFinishes` is checked under `FairSpec`: each runner whose next
statement can be executed eventually executes it. This is what a process that is not killed
does. For `Report` it says that a started process ends, by itself or by the run timeout, so
it assumes one of the two: `run_timeout` 0 means no timeout. Nothing is assumed of the clock,
of mishaps, or of orphans. The run permits one failing transaction anywhere and no kill or
interrupt, since the code promises nothing about a runner that is gone (nothing calls
`list_unfinished`).

`JournalIsDrained` assumes of every reconciler that it goes on: `reconcile` is run on a
schedule ("safe to run repeatedly and safe to run on a schedule", `cli/commands.py`), and the
control plane comes back, since mishaps are bounded. Activations need no fairness.

`EveryRunIsReported` and `TerminationReachesTheTree` are checked under `EndingSpec`: the
supervising and the draining threads run, time passes, a started process goes on with what it
does, and a signal arrives. A process that can end by itself does, and so does a child that
holds the pipes; nobody has to cancel or to kill. `EveryRunIsReported` leaves out what the code
cannot end: a process without a timeout that never ends, and one that ignores SIGTERM with a
grace of zero. `never_reports` uses `FairSpec`, which lets the child live on.

**Mutants.** For every property of a passing run `PROJECT.json` names a plausible slip, the
definitions ending in `Slip`, that makes TLC find that property violated.

## Proofs

All proofs are checked by TLAPS for every value of the constants: any number of processes,
subjects, runners, tasks, stores and steps, texts and outputs of any length. Each module of
proofs begins with an inductive invariant whose parts say, for every place of the code, what the
process there has in hand; each action keeps each part; the properties follow from it.

| Module | What is proved |
|---|---|
| `ClaimStoreProofs` | types, fencing, the action property, protection, refinement of `FencedLease` |
| `RuntimeProofs` | every invariant and step property of `Runtime` that the runs check; soundness of classification and retries |
| `ActivationProofs` | types, the history, strict work, the journal |
| `ExecutorProofs` | types, output, the report |
| `TasksProofs` | types, numbering, history, versions and lifecycle |
| `DecisionsProofs` | previews, eligibility, configuration, each by itself and together |
| `RenderingProofs` | sequences, joins and texts: what is read, and what a write changes |
| `DeploymentProofs` | types, rollback, manifest before artefact, what others wrote, what an apply achieves |

**Assumptions.** Those named in the modules, as `RuntimeAssumption`, which TLC evaluates on the
instances it checks. They say that constants have their shape, that special values are none of
the ordinary ones, and that lease lengths and page sizes are positive. The bounds on clocks,
tokens and mishaps appear in guards only and are arbitrary. `ClaimProtected` alone assumes more,
**one lease length**.

### Claims

- `TypeCorrect`: `Spec => []TypeOK`.
- `Fencing`: `HandlesNameAcquisitions` and `TokensAreUnique`. Neither is inductive: an
  acquisition that has not committed yet must be known to carry a token that is not yet
  issued, and a pending release or renewal to carry one that was. `FencingInv` adds both.
- `OnlyCurrentClaim`: the action property, from the WHERE clauses.
- `Refinement`: `ImplementsFencedLease`. The grant needs that the row has lapsed *at the
  commit*, although the clause compares it with a clock that was read earlier. That is
  `CallsReadThePast`: a call's clock reading is never ahead of the clock.
- `Protection`: `ClaimProtected`. `ProtectionInv` says of every handle with the current token
  that the row lasts as long as the handle. It fails with two lengths; see
  [what the runs found](#what-the-runs-found).

### Runtime

`RuntimeSafety` is `Spec => []RuntimeInv`. None of the properties is inductive: an invariant of
the record cannot be kept without knowing what the copies in memory hold that the next save
merges into it. For each runner `RuntimeInv` says

- where its row can be (`RowFollows`) and that both copies are unfinished, the outer one without
  attempts, the inner one with all of them (`CopiesFollow`);
- that attempts are counted before they are launched, with one left when one is begun
  (`AttemptsAddUp`);
- that a good result was launched, and its attempt closed (`ResultsAreEarned`);
- that what will be returned is recorded first and not written over (`ReturnFollows`), for which
  handlers that find a finished row must be due to a lost reply (`HandlersFindItOpen`);

and of all runners that each holds a handle while it makes its attempts, which is the row for as
long as its lease lasts (`LockInv`), that a live claim without a handle is due to a failed
transaction (`ClaimsAreHeld`), and that the unique constraint holds (`KeysAreUnique`). From it follow
`WorkIsClaimed`, `OverlapsAreExplained`, `ClaimsAreGivenBack`, `LaunchesAreRecorded`,
`SuccessesAreEarned`, `ReturnsAreRecorded` and `KeysRunOnce`; with what a step may write
(`Writes`) also the action properties `StatesMoveLegally` and `TerminalStays`. `TerminalStays`
assumes that no reply is lost; `rewritten` shows that without this a finished row does change.

`ClassificationIsRecordable` (a classification satisfies the rules by which
`Execution.__post_init__` validates a finished execution) and `RetriesAreSafe` (a retry only
after an outcome that cannot have been a success, a cancellation or unproven, and within the
policy) hold for every result and every policy.

### Activation

`TypeCorrect`, `HistoryIsEarned` (`HistoryMatchesRuns`), `StrictWork` (`StrictWorkIsRecorded`) and
`JournalSafety` (`OnlyUnreadEntriesAreLost`). None of them is inductive. `HistoryInv` adds how
many processes there have been at each place of `activate` (`RunsAddUp`; without it not even the
types are inductive), that lines are written, read and ingested only for runs that have an
outcome (`LinesStandForRuns`), and that a reconciliation about to remove the journal has what it
read in the database (`RemovesWhatItIngested`). The one fact about sequences, `AppendKeeps`, says
that an appended line, torn or not, makes no earlier entry unreadable.

### Executor

`ExecutorSafety` is `Spec => []ExecutorInv`. A report is true because nothing it rests on changes
after the verdict (`ReportStands`), which needs that nothing is signalled outside a termination
and that a termination has a cause that stays true (`SignalsHaveCauses`, `CausesAreReal`). Output
is whole because the pipes are given up only when the leader is over or cannot write any more
(`WritersAreOver`) and what is dropped is marked (`DropsAreMarked`). `ReportsAreTrue` and
`OutputIsAccountedFor` follow, whatever the interleaving of the process with the poll.

### Tasks

`TasksSafety` is `Spec => []TasksInv`: the worth of the copy in an editor's hands, given the rows
as they are *now*. A task that was read is an older version of the row or, while no saves have
overlapped, the row itself if the versions agree (`TaskInHand`); what is about to be flushed is
an edit of the row that was compared (`TaskInFlight`), so that `EditsFollowTheRow` holds of the
write. A copy of a revision keeps its task and number (`RevisionInHand`), and what is about to be
written neither reopens it nor touches its content (`RevisionInFlight`), which keeps
`HistoryIsKept` under copies of any age. `RevisionsAreNumbered` needs in addition that drafts
that are not stored yet have identities of their own (`DraftsAreApart`); the unique constraint of
`AddRevision` refuses the second of two equal numbers.

### Deployment

`DeploymentSafety` is `Spec => []DeploymentInv`. `NothingWasChanged` (`RolledBackRestores`) rests
on `CanBeUndone`: at any moment the captured texts, put over the host as it is, give the host as it
was when the applier began, but for the cells somebody else wrote. That is kept because a cell is
captured before it is written and a second capture of it does not count (`JobsInHand`). Types are
the larger part of the proof: that whatever was readable for a job leaves a text of lines when a
region or a member is put in or taken out. It needs what `Chosen`, `FlattenSeq`, `SetToSeq` and
`SubSeq` return for sequences of any length.

`NoArtefactWithoutManifest` (`ManifestFirst`) has an invariant of its own, `ManifestInv`, relative
to the first: unless something raced, one applier at most is on its way, and it knows which
manifests are down and which artefacts are gone (`OnItsWay`):

- while it installs, the pages so far are down (`Installing`), and once it applies, all that it
  will write (`Listed`);
- what is wanted is written before anything is removed, and a name that is both, by a copied file,
  is removed after it was written (`PutsFirst`, `DropsLast`);
- a slug that has been removed from a cell stays gone (`Removing`), also from the text in hand
  (`Holding`) and from the texts a rollback would put back (`Restoring`).

*Gone* must be more than "no region and no member". A `member` line outside the block is nothing
to the reader, but the next write of a block can enclose it and so make it an artefact again. `Bare`
therefore says that no line shows an artefact where it stands or would when another line goes, and
its key lemma `NewBare` that no job on a bare text shows anything but its own slug.

`OthersLeftAlone` (`OthersAreLeftAlone`) is about single steps, but whether a step is harmless depends
on the text it was planned for, so that `AloneInv` follows it through the whole apply: unless
somebody else wrote to it, a crontab that was in order when the applier began is in order (`Sound`),
holds the lines of others it held then, and the first piece of every slug that is still to be
written is the artefact of that slug (`OwnFirst`); a file that is still to be written or removed is
absent or carries a region (`Owned`). What was read is still there between the read and the write.
The work is in `PutOnSound` and `DropOnSound`: a job on a `Sound` text leaves one. They rest on
`Moved`, which says that a text differs from another in one run of lines only, and on `Succeed`,
which matches the regions or members of the one with those of the other, in order, with the lines
they say; `RegionChanged`, `BlockShape` and `MembersPlaced` are the three cases, a region put or
taken out, a block that is read back, and members that keep their places when it is written anew.

`AppliesCompletely` (`AppliedMatches`) is about the end of an apply, and `MatchInv` says along the
whole of it that it leads there. Of an applier with which nobody interferes (`Fit`):

- the pages it has read are, so far, what the estate wants (`Reading`);
- from the plan on, the jobs that are left lead from the host as it is to what is wanted
  (`Underway`): every capability that is wanted is either to be put or already stands as its revision
  says (`Current`), and everything that is found by a slug that is not wanted is to be dropped;
- the manifests of the pages so far are those of the estate, and in the end all are (`Manifested`);
- while nothing raced, nobody else has removals ahead of it (`Settled`).

`PlanUnderway` shows that a plan that does not raise is `Underway`, `JobOff` that a job takes itself
off the list when its artefact is `Current`, or no longer found, and nothing of another slug has
changed, and `NothingLeft` that with an empty list `verify()` finds nothing. The first half is what
the code verifies by reading back (`VerifiedOff`); the second, which it does not look at, is
`PutKeeps` and `DropKeeps` in `RenderingProofs`. That the text in hand is the one on the host is
`Reads` of `AloneInv`, and that nobody else is about to remove a manifest needs `OneAtATime` of
`ManifestInv`, so that the four invariants are kept together.

### Decisions

`DecisionsInOrder` and `EligibleExactly`: the conditions are decided in order, and a task is
eligible exactly when all permit, for any number of conditions, calendars and days. `CalendarOpen`
is the meaning of `Classify` for every valid calendar.

`ResolutionSafety`: the definitions applied so far precede those to come (`Precedes`), and what the
loop has of a key (`Settled`) is what they make of it: a chain of profiles on rising layers that
are exactly those that defined it (`Traces`), a pin if one of them pinned it, and no conflict unless
it was refused. Since nothing else is in the invariant, `OrderDoesNotMatter` follows once nothing
is left to do. `SomethingIsNext` shows that the loop never stops before that: of finitely or
infinitely many definitions one has the lowest layer, name and key.

`PreviewSafety`: a preview is in order, names occurrences only, and none up to its last one was
passed over (`PassedOver`). The work is in the single search. `ADateComes` shows that it finds a
date, from a weekday that comes twice within two weeks (`OneOfTwoExists`); `NextOfWeeklyFacts` that
nothing is served between the moment and the answer, since the dates that are not searched lie
before the date of the moment, where `ServedOnItsDate` and `AheadIsLater` leave nothing to come.
`NextOfIntervalFacts` is the same of a series. The lengths of days and weeks are constants, so that
their multiples are not linear for the solver: `Divided`, `RemainderIs`, `Remainder` and `Multiples`
say once what is needed of them. `PreviewsAreComplete` and `WallClockStays` follow; the second
matches every date of a stretch with the occurrence that serves it (`DatesServed`).

These are theorems about each procedure alone. `EachByItself` shows that the system of all three,
which the run checks, implements each of them, and `DecisionsKeepPromises` carries the five
properties of the run over to it.

### Lemmas on sequences

The library's theorems of induction take an operator as a parameter, which the provers cannot
instantiate. `RenderingProofs` goes round this with the *least counterexample*: a non-empty set of
natural numbers has a least element (`Least`, from the finiteness of intervals), so the set of
prefixes at which a *particular* recursive function goes wrong is empty. `FlattenFacts`,
`SetToSeqFacts`, `Joined`, `ReplacedBetween` and `ChosenFacts` are proved
that way or follow from those. It is why `Rendering` has `Chosen`, a recursive function, where the
community modules have `SelectSeq` with an operator for its argument.

### Only model-checked

- Liveness under fairness (`EveryExecutionFinishes`, `JournalIsDrained`, `EveryRunIsReported`,
  `TerminationReachesTheTree`), which is out of the prover's reach.

### What the proofs found

Attempts that failed showed where a model said less, or something else, than the code. All of these
changed the model:

- Removing a region can make the single block unreadable when the two are interleaved, and the code
  then raises in the middle of a job: `RemovalRaises`.
- An artefact whose store is of the other kind has no store here (`Configured`).
- A removed file is verified by its absence, not by the absence of regions (`Verified`).
- A managed region in a directory is an artefact, a member line there is nothing (`Deployed`).
- The entry of a manifest that a fresh host has is of ours only when the line identifies its task
  (`EntryRev`, `Identifies`).
- A search must look at more than two weeks: with a day less, a transition can hide the only
  selected day (`CalendarAssumption`). Offsets and their changes must not exceed a day
  (`ZonesAssumption`).
- The exception for clocks that skip midnight was too narrow: a gap just before midnight can push an
  occurrence past it as well (`MovesPastMidnight`; the sixth zone of the run).
- The loop over the profiles is one over a set of definitions with an order, not over a sorted
  sequence (`Precedes`).
- Lines of others survive, and an apply is complete, only where blocks and regions do not overlap
  (`Apart`), and a managed file is written as a whole, with the lines somebody added to it: the two
  properties say so now, and the run has such hosts.
- A day is classified by the first test that applies, special dates before the week (`Classify`).
- Writing an artefact changes what others wrote where an artefact of another slug names our task, or
  where the block holds two entries of one slug: both are written with our task, which then is there
  twice, and the crontab can no longer be read. TaskControl itself writes neither, a slug is never
  updated (`Task.update_metadata`); `OthersAreLeftAlone` now says so (`Attributed`).
- Of two appliers one can remove the manifest the other has just installed: it planned while the
  capability was not wanted, and removes manifests last. `AppliedMatches` promises the manifest to a
  single applier, or when nothing raced. The run has one applier; TLC finds the trace with two.

## What the runs found

Four runs check what the repository says of itself and end in a counterexample.

- `rewritten`: a finished execution is immutable (`domain/execution/vocabulary.py:43`). If
  only the reply of the final save is lost, the handler finishes the execution again, from a
  copy that knows nothing of the first, as `infrastructure_failed`.
- `silent_loss`: no run goes unrecorded in silence (ADR 0024), and the journal is cleared only
  when all it holds is recorded (`application/activation/reconciliation.py:12`). A line that
  is appended after `reconcile` has read the file is removed with it; its wrapper exits 0.
- `lost_update`: a task that was edited and saved "must fail rather than overwrite a change made
  by someone else in between" (`ports/repositories.py:38`). `update` compares the version in
  Python and the UPDATE does not: two units of work that both read version 3 both write 4.
- `never_reports`: `run` "must always return a report" (`ports/executor.py:152`). A process
  that ends and leaves a child with its output open keeps a drain thread reading, and
  `_close_pipes` waits for that thread without a limit, timeout or not.

Seen while modelling, without a run of their own.

In the runtime and the claims:

- `renew` shortens the row before `Claim.renewed_until` refuses to shorten a lease
  (`adapters/persistence/claim_store.py:192`, `domain/claims/claim.py:195`). With one lease
  length it cannot happen.
- `adapters/locking/durable.py:9` says that the lease "is therefore derived from what the task is
  actually allowed to take". It is the constant `DEFAULT_LEASE` of one hour, and the runtime
  never renews it: a process that runs longer is joined by a second one.
- `infrastructure_failed` says that no process was started (`vocabulary.py:108`). A save that
  fails *after* the process ended records it all the same.
- A returned execution has finished (`application/runtime/service.py:103`). A duplicate delivery
  is given the first one's execution while it is running.
- An interrupt between the commit of a new execution and the try block, or a handler's save
  and the forced one failing together, leaves an execution that never finishes.
- An interrupt leaves the child running while the finally block gives the claim back.
- The failure path stores an execution without `started_at`, also when attempts were made
  (`domain/execution/execution.py:340`: "recorded once").
- The retry backoff is computed and never waited for.

In activations:

- Exit code 75 means that the work was not started (`application/activation/service.py:56`). An
  infrastructure error that leaves `run` after the process ended is taken for an unreachable
  control plane; a strict capability then exits 75 after it ran, and an availability-first one
  runs a second time.
- `append` reports a failed sync of a line that it has written: the wrapper exits 70, "there is
  no record of it", and reconciliation later finds the record.
- A strict activation that declined leaves nothing for reconciliation, although its message
  says it "will be reconciled as an infrastructure failure"
  (`application/activation/service.py:170`).
- With the control plane reachable, `activate` runs the *active* revision of the database, not
  the installed one it has just verified (`application/activation/service.py:138`).

In tasks and revisions:

- The runtime never reads the state of the task, although "Only `ACTIVE` does" accept triggers
  (`domain/tasks/lifecycle.py:41`), and it runs withdrawn revisions.
- Overlapping writes can revive an archived task. A stale `save_state` brings a withdrawn
  revision back to published.
- `with_changes` on a stored draft, `publish` and `save_state` store the digest of content that
  is not stored.
- `withdraw` of a draft always fails its own validation: a withdrawn revision must have a digest.

In the executor:

- A grace of zero waits for ever for a process that ignores SIGTERM
  (`subprocess_executor.py:279`).
- A child that ignores SIGTERM survives the termination of its leader: only the leader is waited
  for, and SIGKILL is not sent when it ended in time.
- A process that ends between the poll and the decision is reported as timed out.

In deployment:

- A capability that moves to another store leaves its old artefact: removals are planned by slug,
  and the slug is still wanted (`manager.py:211`). It then runs twice.
- A managed file that was copied to another name is planned for removal under the slug it
  carries; applying removes the wrong file or none, and the plan never becomes empty.
- The plan an operator confirmed is applied as it was; the manifests are those of the estate as
  it is by then (`application/deployment/service.py:183`). After a rollback the new manifests stay
  under the old artefacts.
- Two applies at once lose each other's crontab lines.
- One active revision without a digest makes every apply raise before the first artefact.
- A region that somebody moved into the block, behind a member, is a part of that member for the
  reader of the block. When the member is rewritten the region goes, and the apply reports success;
  one that reaches out of the block leaves a text that cannot be read.
- A second end marker of the block is accepted, and what stands between the two is rewritten.
- `--json` skips the confirmation of `schedule apply`.

In schedules:

- Where the clocks skip midnight (America/Nuuk, 30 March 2024, from 23:00 to 00:00), a schedule
  for 23:30 fires at 00:30 of the next local date; asked at 00:10 of that date,
  `next_occurrence_after` starts its search with that date and misses it
  (`domain/scheduling/schedules.py:289`). Any skipped time that is moved to the next date has this.
- A local date that does not exist at all is not noticed: only hour and minute are compared.

## Not modelled

- The process-local and absent overlap locks: a dictionary behind a mutex, and a lock that always
  grants; the wiring uses neither.
- Identifiers, values, tracing and action specifications: immutable data and its validation, which
  are model values here.
- Cron expressions: `CronExpression` checks the syntax of five fields and has no occurrences.
- Serialization of bundles and schemas: conversions of format, without state.
- The command line, but for the confirmation of `schedule apply`; the HTTP API, which has health
  checks only; the infrastructure: they parse, print, connect and migrate.
- Explanations, descriptions, evidence and log messages, everywhere.
