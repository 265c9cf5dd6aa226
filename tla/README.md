# RevTown in TLA+

A verification project for RevTown, the go-to-market agent platform of this
repository: TLA+ modules translated from the Python source, TLC configurations
that check them on small instances, and theorems that TLAPS proves for every
value of the constants. Paths below are relative to `src/`.

1. [The system](#1-the-system) - inventory
2. [The modules](#2-the-modules) - what models what
3. [The runs](#3-the-runs) - what TLC checks, bounds, fairness
4. [The proofs](#4-the-proofs)
5. [Disagreements found](#5-disagreements-found)
6. [What is only model-checked, and what is not modelled](#6-limits)
7. [Plan](#7-plan)

To run one of them, in this directory:

    tlc -workers 2 -config convoy.cfg MCConvoyExecutor
    tlapm ConvoyContract_proofs.tla

## 1. The system

RevTown turns a marketing goal into a *convoy* of *steps*; each step is carried
out by a *polecat* (an LLM worker); its output goes through the Refinery and the
Witness and, for many types, into an approval queue where a human decides. The
API is one asyncio event loop per replica (two replicas in
`infra/k8s/api-deployment.yaml`, at least three in production by
`overlays/production/hpa.yaml`); the Deacon is
a separate single process; they share one Dolt database.

| Component | State | Operations | Hard part | What makes it correct |
|---|---|---|---|---|
| Convoy store and local executor (`core/convoy_store.py`, `core/convoy_executor.py`) | in memory: convoys, step statuses, `_running_tasks` | create, start, run a step, complete, fail, queue for approval, pause, resume | one asyncio task per step; each completion decides what to launch, between awaits of the others | dependencies respected, no ready step lost, verdict earned and final, approval item before completion, an end is reached |
| Approval queue (`core/approval_store.py`, `routers/approval.py`) | tables `approval_queue`, `audit_log` | create, decide (single, quick, bulk), expire | read-check-write in snapshot transactions; requests and the hourly sweep overlap; commits refused or lost | a decision is final, a reported decision is recorded, the log tells and signs the status, overdue items close |
| Polecat executions (`core/polecat_store.py`, `routers/polecats.py`) | table `polecat_executions`; per replica `_tasks` | spawn, execute, cancel, orphan sweep | task, handlers, cancel requests of every replica and the sweep write one row; replicas die | output queued before COMPLETED, a delivered cancel sticks, nobody overrules a verdict but the execution's own handlers and the sweep, no row is RUNNING for ever |
| Deacon (`core/deacon.py`) | scheduler | seven periodic jobs | races with the API, one failure ends a sweep | the two jobs on rows of other components are modelled with those components |
| Mayor chat (`routers/mayor.py`) | none | plan, create and start a convoy | - | part of the executor's environment |
| Mayor service (`core/mayor.py`, `routers/campaigns.py`) | `_active_convoys`, in an object made anew for each request (`dependencies.py:253`) | create, start, step completion, pause, resume, re-slate | nothing survives a request | the campaign beads it writes are the bead store's |
| Bead store (`core/bead_store.py`, and the routes that write beads) | nine bead tables, each row with a version | create, update with `expected_version`, archive; enable, disable, unregister a plugin | the version is checked on a row read before, and the UPDATE does not name it | no two updates of a column pass for one version, what is archived is not revived by a request that did not see it |
| Polecat classes and registry (`rigs/`, `polecats/base.py`) | the registry of a process | 39 classes under 35 keys | which process imported which rigs, keys that collide | the output of a class with the approval flag waits for a human whoever runs it |
| Refinery and Witness (`core/refinery.py`, `core/witness.py`) | none | check, verify, force approval | many small verdicts, scores and crashes add up to one flag | nothing goes out unseen that a check would have stopped |
| Temporal workflows, runner (`infra/temporal`, `polecats/runner.py`) | workflow history, attempts of activities | run a polecat (the activities that report and queue only log); go through a convoy's steps, wait for an approval | activities retried after their effect, attempts given up that answer late, a worker with another registry and store than the API | totals and stored statuses tell what the attempts came to |
| Authentication and organizations (`routers/auth.py`, `routers/orgs.py`, `dependencies.py`) | `org_members`, `invitations`, `organizations.settings`; roles in access tokens | login, refresh, invite, change role, remove, cancel an invitation, change settings | overlapping requests; a token's role outlives the role | only owners decide on owners, a removed member stays out, no setting is lost, lost roles end |
| Neurometric client, billing, webhooks, plugin loader, schema, web | tables, HTTP clients | see `PROJECT.json` | - | - |

`PROJECT.json` lists every component with its status, and every hazard the survey
found, at its line.

## 2. The modules

| Module | Role |
|---|---|
| `ConvoyContract` | abstract: what an executor of convoys promises |
| `ConvoyExecutor` | the executor and its store, with any order of task turns; its properties; the refinement `ContractKept` |
| `ConvoyEventLoop` | the same actions under the FIFO ready queue of one asyncio loop |
| `ApprovalContract` | abstract: what an approval queue promises, each request and sweep in one step |
| `ApprovalQueue` | the approval store, its routes and the expiry sweep; the refinement `QueueContractKept` |
| `PolecatExecution` | API-spawned polecats: tasks, cancel requests, crashes, orphan sweep |
| `BeadStore` | one bead of any type and the requests about it |
| `Polecats` | the classes of the rigs and the registry |
| `QualityGates` | the checks of the Refinery, the Witness, the forced approval |
| `PolecatRuns` | runs of `BasePolecat.run`, called by the API or by a Temporal worker, over `Polecats` and `QualityGates` |
| `ConvoyWorkflow` | the campaign workflow and its activity, over `PolecatRuns` |
| `Organization` | members, invitations, settings and the roles in tokens |
| `MC*` | instances for TLC (`PolecatExecution` needs none) |
| `*_proofs` | the theorems about the module of that name (`ConvoyContract_proofs`: about the deployed executor, the contract and `ConvoyEventLoop`) |

Definitions called `X_Something` with the comment *Faulty variant* are the code
with a plausible bug. No specification uses them; put in the place of `X`, each
makes TLC find a property violated ("mutants" in `PROJECT.json`), which shows that
the property can fail.

### ConvoyExecutor

`status`, `step` and `plan` are the store's convoys; `task` holds every asyncio
task ever created for a step, with the await it stands at; `running_tasks` is
`_running_tasks`, keyed by step id as in the code (every convoy has a `step_1`);
`approvals` is what the database holds. One action is one turn of a task, from
one await to the next, so everything the code does between two awaits is atomic:
`CompleteStep` writes COMPLETED, lets `_check_convoy_completion` judge the convoy,
then launches the ready steps if the convoy is still EXECUTING. The polecat's
work is one await that answers (with or without need of approval: the Refinery
and Witness verdict is a free choice, the always-approve list is not) or raises.
`depends_on` entries match a step id or a polecat type, as `ready_steps` does.

`Spec` is the deployed system; no route reaches `pause_convoy` and
`resume_convoy` of this executor, which `OpsSpec` adds. A second convoy may be
created with the same step ids. `plan[c]` is chosen in `Init`: it is what the
Mayor will hand over, and nothing reads it before `CreateConvoy`.

`ConvoyEventLoop` restricts the order of turns to what asyncio really does:
`create_task` and the end of an awaited operation append to the loop's queue,
and the loop runs its head. Every behaviour of it is one of `ConvoyExecutor`
(with `loop` added; theorem `EventLoopImplements`), so what holds there holds
here; it exists to show that a double launch needs no unusual scheduling.

### ApprovalQueue

`row` and `audit` are the committed tables. A session reads (`Read`: the snapshot
is that of its first read), checks organization and status (`Skip`, `Decide`),
and commits row and log entry together. Bulk decisions commit item by item; an
item that is skipped leaves the transaction open, so the next one is judged by
the old snapshot. A commit is refused, lost after it took effect, or fails at
any point. `expire_items` selects, updates and logs in one transaction, all or
nothing. Dolt (`docker-compose.yml`) gives each transaction a snapshot and merges
cell by cell at commit, refusing when both sides set a cell to different values:
`Conflict` and `Merge`, the one assumption about a component outside `src/`.
`decided_at` is not modelled: where two different times would also be refused,
the model allows both the refusal and the merge.

`ApprovalContract` has neither sessions nor snapshots. Its state is the status column
(`status`), the log, what is overdue, and `reported`: the pairs of an item and the decision
somebody was told of it (`Told`). A decision, by a user of the item's organization, finds the item
pending or already decided the same way, and writes status, log entry and, unless
its answer is lost, report in one step; a decision of "pending" only signs the log. A
sweep closes a set of overdue items in one step. `QueueContractKept` says that the queue
does nothing else: its transactions take effect at their commits.

### PolecatExecution

`row` is the status committed for an execution, `home` the replica that spawned
it, `task` where `execute_polecat` stands, `seen` what its open transaction read.
Each status write is the code's read-then-update (`ReadRow`, `CommitRow`), and
`started`/`saved` are the moment the commit took effect and the task has not
heard. An exception or a cancellation in the `try` block goes to its handler, which
writes FAILED or CANCELLED; the write of RUNNING is outside it, and so are the
handlers' own writes (`OnError`, `OnCancel`). A cancel request reads the row,
cancels the task only if its own replica holds it in `_tasks` (`hit`), and then writes
CANCELLED whatever the row holds by now, unless the commit is refused; its answer may be
lost (`LoseCancel`). `Crash` takes a replica's tasks, `_tasks` and requests. A task that
is torn from the await of a COMMIT, by a cancel, an error or a crash, may leave it under
way: `late[e][ph]` keeps what that transaction had read, and `LateCommit` is the server
carrying it out, at any later time at which it does not conflict. The sweep finds RUNNING
executions older than 30 minutes, fails them one transaction each (the first in the
SELECT's own), without comparing the status it re-reads, and ends at the first
refusal. `Age` may happen at any time after the spawn.

### BeadStore

`kind` is the bead's type, `row` its committed row, `snap` what the open
transaction of each request has read, `seen` the bead as the client got it
before (that is where an `expected_version` comes from). The statuses of the
nine tables are the ENUMs of `init.sql`; those of the update models are other
sets, and a status the table does not admit is refused by the database. A
`Column` stands for the columns that one request sets together, and holds who
set it. One action per method: the seven `update_*` methods differ in their
model, their table and in whether a route passes `expected_version`;
an override is found by task class among the active ones, a plugin by name.
`Conflict` and `Merge` are the same assumption about Dolt as in `ApprovalQueue`,
for all cells of a row. Two facts of the code that the model keeps: an update that sets
nothing answers without a statement, and enabling, disabling and unregistering a plugin
leave the version as it is.

### Polecats, QualityGates, PolecatRuns

A class is what the pipeline sees of it: its key, the content type of its output,
the type of its bead, whether its output always needs approval. `Classes` is the
list of registrations in import order; the last one under a key wins, as in the
code's dictionary. (Five classes of `intelligence_station` share the key
`competitor_analysis`: only `CompetitorPRPolecat` can be reached.)

A text is a record of what the checks count in it, and the checks are operators
from text and bead to a verdict and a score. A check that raises (a NULL title
or description does) counts as a warning with half a point.

`runs` are the executions; `phase` is where a run stands, `attempt` the number of the
activity's attempt. The API calls `run()` once and adds its own list of sensitive
tasks; a task without a class falls back to a plain LLM call, without bead and gates.
A workflow reports "running", executes (three attempts at most, of ten minutes),
goes through the queueing of what needs approval, reports. Reporting and queueing are
phases and nothing else: both activities are stubs that log (`runner.py:109` and `:127`, TODO),
so a workflow leaves no status and no queue item, only its answer. `world` holds what differs between deployments:
whether the worker's process has imported the rigs, what the LLM may answer.

### ConvoyWorkflow

`next`, `attempt`, `waiting` and `results` are the workflow's own state;
`activity[i][k]` is attempt `k` of step `i`, which spawns a run and awaits it;
`stored` is the step's status in the convoy store. An attempt the server gave up
goes on, and what it writes in the store when its run ends is a step of its own
(`Collect`), at any later time. `world.shared` says whether the worker's process
is the one whose store holds the convoy; `bead` is the id all steps name: the code makes one
up (`uuid4`), which no table has.

None of this runs as the code stands. `create_worker` registers `PolecatWorkflow` and its
activities, not `CampaignConvoyWorkflow` and `execute_convoy_step`, and nothing starts a
worker: `run_worker` is called nowhere. The module says what the two do on a worker that
has them, as safety properties; no step of it is owed to anybody, and it has no fairness.

### Organization

`member`, `invite` and `settings` are the committed tables, `tokens[u]` the roles in
the live access tokens of `u`. A request of an administrator carries the role of its token;
what its handler checks is the snapshot of its transaction. How an invitation is
accepted is nowhere in `src/`: `Accept` is any such step that no request on
that user or invitation overlaps. Settings are a function of their top-level keys.

## 3. The runs

| Run | Specification | Bounds | Distinct states | Shows |
|---|---|---|---|---|
| `convoy` | `FairSpec` | 1 convoy, 3 steps, 8 plan shapes, 2 tasks per step | 75 thousand | `DependenciesHonoured`, `NoReadyStepLost`, `RunningHasTask`, `TerminalIsFinal`, `ContractKept` (refinement), `ReadyStepSettles`, `ConvoyResolves` (liveness) |
| `convoy_ops` | `OpsSpec` | 1 convoy, 3 steps, 2 plans, 2 tasks per step | 942 thousand | with pause and resume: `ApprovalBeforeCompletion`, `TerminalIsEarned`, `PausedLaunchesNothing` |
| `approval` | `FairSpec` | 2 items, 2 sessions with 6 kinds of request, 1 sweeper | 283 thousand | `DecisionIsFinal`, `ReportedIsRecorded`, `AuditTellsTheStatus`, `DecisionsAreSigned`, `QueueContractKept` (refinement), `OverdueIsClosed` (liveness) |
| `polecat` | `Spec` | 1 sensitive execution, 2 replicas, 2 cancels | 153 thousand | `CompletedIsQueued`, `DeliveredCancelSticks`, `VerdictsStand` |
| `polecat_orphans` | `FairSpec` | 2 executions, 1 replica, no cancel | 69 thousand | `RunningSettles` (liveness) |
| `workflow` | `Spec` | each key and two unknown types, called by API and Temporal, with 6 beads and 9 texts; convoys of 1 or 2 steps, up to 3 attempts | 918 thousand | `UnattendedIsPresentable`, `SensitiveIsReviewed`, `StepsAreAccounted`, `StoredStatusHasCause` |
| `beads` | `Spec` | every bead type, 3 requests (symmetric), 1 column, 3 statuses that clients send | 1.1 million | `OneUpdatePerVersion`, `VersionTellsChange`, `ArchivedIsLeftKnowingly`, `ArchivedByNameStays` |
| `organization` | `FairSpec` | 2 users, 1 invitation, 2 keys, 2 requests at a time, 2 of administrators | 864 thousand | `OwnersAnswerToOwners`, `RemovedStaysOut`, `SettingsAreNotLost`, `LostRolesExpire` (liveness) |
| `convoy_relaunch` | `LoopSpec` | 3 steps, two branches | violation | `FinishedConvoyIsQuiet` |
| `convoy_paused` | `OpsSpec` | as `convoy_ops` | violation | `RunningHasTask` |
| `approval_pending` | `Spec` | as `approval` | violation | `ProcessedIsDecided` |
| `polecat_cancel` | `Spec` | as `polecat` | violation | `CancelledStaysCancelled` |

**Bounds.** `MaxLaunch` caps the tasks created for one step (the code has no
cap): two are enough for a double launch, and each property that a third task
could touch is proved for any value. Three steps give every dependency shape
that matters: chain, fork, join, independent branches, a cycle, a dependency
nothing provides; the eight plans are these. `Sessions` and `Cancels` are
requests served once each; two are needed for a race of deciders, together with
the sweep for three. A request decides at most two items, so a bulk decision has
an item before and one after each commit. One execution is enough for every
race on its row; two are needed for a sweep cut short, where cancels are left out: they only add ways of
leaving RUNNING, and the commits they leave under way are left by errors and crashes too.

In `workflow` the texts lie on both sides of each threshold: three spam points, a
reading ease of 60 and of 30, an average of four fifths; the beads have a title that
fits, one that is NULL, a pitched journalist, a history with contradictions, and there is
the id nobody has and one that is no UUID. The number of runs needs no bound: the requests and
the attempts of a world give it. The convoys are what a worker started with
`python -m polecats.runner` would have (no rig imported, a store of its own, a bead nobody
has) and each way in which a deployment could differ; two steps, each with two attempts and
a sensitive one behind one that is not, let attempts given up at either step answer late. In `beads`,
three requests let two merge and a third read between them; one column
beside the status is enough, because columns interact only through the version, and
`Statuses` holds one status of each relation between model and table. In `organization`
two administrators' requests overlap with each other and with logins that go on
without bound; a third would meet the same rows. All runs set
`CHECK_DEADLOCK FALSE`, because all convoys and requests may be finished.

**Why the `convoy` run has one convoy.** Convoys share nothing but the slots of
`_running_tasks`, which only `PauseConvoy` reads. The theorems are for any number.

**Fairness.**
- `ConvoyExecutor!FairSpec`: weak fairness of each task's turns. The event loop gives
  every runnable task its turn, an LLM call ends within the client's 120 s timeout
  (`core/neurometric.py`), an insert ends or raises. Nothing favours success:
  `FailStep` is as fair as `CompleteStep`.
- `ApprovalQueue!FairSpec`: the sweep runs every hour (`deacon.py`, `_schedule_tasks`),
  and a sweep that can commit infinitely often does so once (strong fairness): the database
  does not refuse it for ever. Nothing is assumed of requests.
- `PolecatExecution!FairSpec`: time passes (`Age`), the Deacon sweeps every 15
  minutes, and the database does not refuse a given orphan's write for ever. Nothing
  is assumed of tasks and requests, which may hang or die.
- `ConvoyWorkflow` has none. A Temporal server owes an activity nothing that no worker has
  registered: a scheduled `execute_convoy_step` has only a start-to-close timeout and would
  wait for ever, so that a workflow ends is no property of this code.
- `Organization!FairSpec`: the clock passes the expiry of tokens. Nothing is
  assumed of requests; tokens may be refreshed for ever.

**Liveness, exactly.** `ConvoyResolves` does not promise that a convoy ends: a failed
step leaves its dependents PENDING and the convoy EXECUTING for ever, which is
how `_check_convoy_completion` is written; the property states what holds instead.
`RunningSettles` speaks of RUNNING rows, as `get_orphaned` does: an execution whose replica
dies before its first turn stays PENDING. `LostRolesExpire` is about a role lost for good.

**What `VerdictsStand` and `DeliveredCancelSticks` leave out.** The execution's own handlers
write their status whatever the row says, so a task that is cancelled, or fails, between
the commit of COMPLETED and its answer writes CANCELLED or FAILED over it; `VerdictsStand` says
that beside these (`Handling`) and the sweep nobody overrules a verdict: no cancel request on a
stale read, no late write of RUNNING. A delivered cancel can be undone by the sweep, once the
execution is 30 minutes old, and by a late commit of the task that had itself read CANCELLED.

## 4. The proofs

All proofs are checked by `tlapm` to the last leaf. They assume only the `ASSUME`
of the module: `ConvoyAssumption` (plans are well-formed, `MaxLaunch` is positive),
`QueueAssumption` (NULL is no user, requests are well-formed, requests and sweeps
are different processes), `PolecatAssumption` (sensitive executions are executions, no
replica is the null one), `StoreAssumption`, `OrganizationAssumption` (names of different
things differ), `RunsAssumption` and `WorkflowAssumption` (worlds are well-formed, numbers of
attempts positive, the made-up bead id is in no table, texts and beads are records of the fields
that the gates look at). The two theorems about `ConvoyEventLoop` also assume
that the tasks are finitely many, as `create_task` makes them one by one. They hold for any number of
convoys, steps, relaunches, items, requests, sweeps, executions, replicas, cancels,
columns, users, invitations, keys, plans, texts and attempts.

| Module | Theorem | Of | Property |
|---|---|---|---|
| `ConvoyExecutor_proofs` | `TypeCorrect`, `DependenciesAreHonoured`, `VerdictsAreEarned`, `ApprovalsComeFirst`, `PauseStopsLaunches` | `OpsSpec` | `TypeOK`, `DependenciesHonoured`, `TerminalIsEarned`, `ApprovalBeforeCompletion`, `PausedLaunchesNothing` |
| `ConvoyContract_proofs` | `NoReadyStepIsLost`, `RunningStepsHaveTasks`, `VerdictsAreFinal`, `ContractIsKept` | `Spec` | `NoReadyStepLost`, `RunningHasTask`, `TerminalIsFinal`, `ContractKept` |
| | `NoCallbackIsLost`, `EventLoopImplements` | `LoopSpec` | `ReadyOnce`; `Spec`, and with it `ContractKept` and `NoReadyStepLost` |
| | `ConvoyContractSuffices` | `ContractKept` | `TerminalIsFinal`, `TerminalIsEarned`, `StartedInOrder` |
| `ApprovalQueue_proofs` | `QueueTypeCorrect`, `DecisionsAreFinal`, `ReportsAreTrue`, `AuditIsTrue`, `SignaturesMatch`, `QueueContractIsKept` | `Spec` | `TypeOK`, `DecisionIsFinal`, `ReportedIsRecorded`, `AuditTellsTheStatus`, `DecisionsAreSigned`, `QueueContractKept` |
| | `ContractSuffices` | `QueueContractKept` | `DecisionIsFinal`, `AuditTellsTheStatus`, reports are true |
| `PolecatExecution_proofs` | `PolecatTypeCorrect`, `OutputIsQueued`, `DeliveredCancelsStick`, `VerdictsStandHold` | `Spec` | `TypeOK`, `CompletedIsQueued`, `DeliveredCancelSticks`, `VerdictsStand` |
| `BeadStore_proofs` | `StoreTypeCorrect`, `OneUpdatePerVersionHolds`, `VersionTellsChangeHolds`, `ArchivedIsLeftKnowinglyHolds`, `ArchivedByNameStaysHolds` | `Spec` | the property of that name |
| `Organization_proofs` | `OrganizationTypeCorrect`, `OwnersAnswerToOwnersHolds`, `RemovedStaysOutHolds`, `SettingsAreNotLostHolds` | `Spec` | the property of that name |
| `ConvoyWorkflow_proofs` | `WorkflowTypeCorrect`, `StoredStatusHasCauseHolds`, `StepsAreAccountedHolds`, `UnattendedIsPresentableHolds`, `SensitiveIsReviewedHolds` | `Spec` | the property of that name |
| `PolecatRuns_proofs` | `OnlyThePresentablePasses`, `RegistryKeepsTheLast`, `SensitiveRequiresApproval`, `JournalistResearchHasNoFlag` | any text, bead, class, key | the gates and the registry, as operators |

**`OpsInv`.** A step's status is not a reliable history: a late second task takes it
from COMPLETED back to RUNNING. So the invariants speak of tasks, whose phases only
advance: a COMPLETED step has a completed task (`CompletedWasRun`), a step that is
no longer PENDING has a task that began (`WrittenWasStarted`). From these, each launch
is of a step whose dependencies some task completed, and each verdict is earned.

**`RunInv`**, for the deployed system, adds that no convoy is PAUSED (`NeverPaused`), that
tasks exist only in a started convoy (`TasksWereStarted`), that an unlaunched step is
untouched (`PendingIsUntouched`), and the two properties that fail with pause:
`RunningHasTask` and `NoReadyStepLost`. `ContractIsKept` then maps each action to a
step or stutter of `ConvoyContract`; a second task's turns stutter, because
`started` and `succeeded` are sets that it adds nothing to. `ConvoyContractSuffices`
shows that the contract is worth keeping: it alone, with the type invariant
that makes `PhaseOf` a bijection on verdicts, makes verdicts earned and final and
starts steps in order.

**The event loop.** `LoopStep` maps a callback to the turn of the task at the head of the
queue; that the head is a task needs `ReadyOnce`, which is inductive with `TypeOK`: the
queue has each task at most once, only tasks that may take a turn, and every
created one. `EnumerationOf` (an enumeration of a finite set has each element once) and
`JoinedQueues` carry the step in which new tasks are appended.

**`QueueInv`.** The core is `SweepsReadPending` and `SessionsReadAll`: a sweep holds only
pending rows, so its commit conflicts with any decision made since; a decision
commits over a snapshot whose row is pending, so it conflicts with any different one.
`UndecidedIsUnnamed` ties the name in the row to a log entry.

`QueueContractIsKept` adds `SnapsWereTrue`: what a sweep found is overdue, and what a request saw
is still there. With it each commit maps to one step of `ApprovalContract` taken on the
*current* rows, not on the snapshot: the absence of a conflict says that the row is
pending or already closed the same way, which is the contract's guard; reads, waits, skips,
refusals and answers stutter. `ContractSuffices` looks the other way: from the contract alone
follow a final decision, a true log and true reports, so these three do not depend on
how transactions are made.

**`PolecatInv`.** `QueuedBeforeSaved` (a sensitive task that is saving, or has left that commit
under way, has queued its output) gives `CompletedIsQueued`. `CancelSawCancellable` (a request past its
check read pending or running) makes its commit conflict with a verdict. `HitTaskStops` (the
task a cancel found is over or on its way to CANCELLED) and `OrphansAreAged` leave only
commits under way and the sweep to undo a delivered cancel, and the merge lets only those
through that had read CANCELLED. `LeftBehind` says that only a task in a handler, or over, has left
a commit under way, and that a COMPLETED among them has its output queued. `VerdictIsLast` says,
of executions younger than 30 minutes, that a row shows a verdict only when the task has no other
write to begin than its handlers', and that only their transactions have read one: every other
write conflicts with it. `WhoWrites` lists the steps that change a row, and both action
properties are cases over it.

**`BeadStore`.** `StepKinds` reduces every action to three: one that leaves the row
alone, the creation, and the commit of a draft (the row as read, with cells changed).
The action properties follow from the absence of a conflict in a committed draft.
`OneUpdatePerVersion` needs `LockInv`: an accepted guarded update has raised the version
above the one its client saw, and while the version is the one it made its author stands
in the columns it sent (`Stands`). A second update with the same guard would have
to set such a cell over a different value, which is a conflict, or has read a later
version, which it refuses as stale. `Stamped` keeps this true of snapshots: what shows a
guarded author has a later version than that author saw.

**`Organization`.** The invariant is small: types, an invitation not yet made names no
owner, and a request to invite names a user and a role that members have. What carries the action
properties is that a commit changes only entries that are still what was read.

**`WorkflowInv`.** `SoundRuns` says that a run has no answer before `run()` returns and no
more attempts than its retry policy allows. `Entries` and `InOrder` place the attempts: those over have a run that ended,
none is ahead of the workflow. `Waits`: a waiting workflow has an answer that asks for
review. `Totals` bounds the counters by the cardinalities of the steps that answered
and of those that were reviewed, sets that only grow (`Grows`), so a late answer
can be counted only if the workflow still waits for it.

**The gates.** `OnlyThePresentablePasses` is arithmetic about every text: if the Refinery does
not force approval, the average of the checks is at least four fifths and none asks for
approval by itself; the lemmas `VoicePoints` to `ReadingPoints` bound the score of each check,
a crash included, by the points the text has lost, and one lemma per content type adds them up
(`TotalOfFew`: the recursive sum over a list of known length). The property is stated in points lost
against `Allowance`, the most that the average forgives for that type. `SensitiveClasses` goes
through the 39 classes and says which have the flag; `RegistryKeepsTheLast` (proved by a least counterexample,
since the dictionary is a `Max` over positions) says which of them a key finds.

**`VettedRuns`** lifts both to the specification: every answer a run holds, whoever asked for
it, is either held for approval or presentable for the class that the registry of its
process has under its key, and held if that class has the flag or the API's list its type
(`MustWait`); `BeadsAreDescribed` says what the gates may read of
its bead. It is inductive beside `WorkflowInv`, and gives `UnattendedIsPresentable` and
`SensitiveIsReviewed`.

## 5. Disagreements found

Each is the subject of a run expected to end in a violation; `PROJECT.json` quotes
the lines.

- **A step is launched twice** (`convoy_relaunch`). A launched step is PENDING until its
  task's first turn, so `ready_steps` still lists it; two steps that complete in one round of
  the event loop each launch it. The second task runs the step again in a convoy
  already COMPLETED, and queues a second approval item for a sensitive step.
- **A paused step never resumes** (`convoy_paused`). `pause_convoy` cancels the task and
  leaves the step RUNNING; `resume_convoy` launches only PENDING steps.
- **A decision may be "pending"** (`approval_pending`). The decision routes accept any
  `ApprovalStatus`; "pending" is logged, signed and reported as processed, and
  decides nothing.
- **A cancel is undone** (`polecat_cancel`). A replica that does not hold the task writes
  CANCELLED and answers so; the task then writes RUNNING over it and completes.

Other things the code does that its readers may not expect, kept in the models as
they are; no run is expected to fail on them:

- *Cancels*: `cancel_polecat` refuses an execution that is over ("Cannot cancel execution in
  status"), but one that completes while the request is served can be overruled: if the cancel
  reaches the task after its commit of COMPLETED and before the answer, the task's handler
  (`routers/polecats.py:217-219`) writes CANCELLED over COMPLETED, and the request answers
  "cancelled". A COMMIT of RUNNING under way in the cancelled task that had read CANCELLED (another
  replica's cancel) brings a cancelled execution back to RUNNING.
- *What always requires approval* is said in three places, which differ: the list of
  `routers/polecats.py:122` (`pitch_draft`, `journalist_research`, `sms_draft`, `winner_declare`), that of
  `convoy_executor.py:78` (`pr_pitch`, `journalist_research`, `sms_draft`, `ab_test_setup`) and the flag of the
  class. `journalist_research` is on both lists and its class has no flag
  (`JournalistResearchHasNoFlag`): an API request or a step of the local executor keeps it for a human,
  a worker with the rigs would let it out when the gates do. `SensitiveIsReviewed` holds each
  process to what it asks.
- *Temporal runs*: `update_execution_status_activity` and `queue_for_approval_activity` only log, so an
  output that requires approval would be queued nowhere and no row would say how a run ended.
- *Pause of a finished convoy*: `pause_convoy` sets PAUSED whatever the status, a COMPLETED
  convoy's too, and resuming makes it EXECUTING with nothing left to run.
- *Archived plugins* can still be configured (`update_plugin_config` looks at no status).

- *Campaign workflow*: a step whose answer has `success = False` counts as completed;
  `_step_approved` is always False and the signals do nothing, so each approval waits 24
  hours and its step is counted completed and failed; the steps name a bead that exists
  nowhere, so no polecat of a Temporal convoy succeeds; the worker imports no rig and has a convoy
  store of its own; each retried attempt spawns another execution; a late attempt
  overwrites the stored status.
- *Gates*: a failed spam check alone does not force approval, the average does; the API's fallback
  for a task without class passes no gate; a journalist without e-mail address is not held by
  the 30 days, and nothing in the code writes `last_pitched_at`.
- *Beads*: `expected_version=0` guards nothing; two requests in one second that set different
  columns may share a version, and then a guarded update lies over a change its client has not
  seen; archiving a missing bead answers True, archiving a lead or a test is rejected by
  the table; the models of competitors and profiles admit statuses their tables reject; the name of an
  archived plugin or override cannot be used again.
- *Organizations*: removing oneself answers "Transfer ownership first", but the only owner
  may make itself a member, and two owners may remove each other, so an organization can be
  left without an owner; two invitations of one address may cross; PATCH of the organization
  replaces all settings; no route accepts an invitation.

## 6. Limits

Model-checked only: liveness (`ReadyStepSettles`, `ConvoyResolves`, `OverdueIsClosed`,
`RunningSettles`, `LostRolesExpire`), since the prover handles neither
fairness nor ENABLED. Every other property that a passing run checks is also a
theorem. `SensitiveIsReviewed` speaks of the keys whose class has the flag, and of the API's list for the
API alone; `SensitiveRequiresApproval` is a theorem about this list of classes, not about any. The four
violations are TLC's. TLC also evaluates every assumption.

Abstractions worth knowing:
- Prompts, generated text, prices and log lines are left out; an LLM call is
  one await. In the executors the verdict of Refinery and Witness is a free choice; in
  `PolecatRuns` it is computed.
- Scores are integers in percent. Where the code's floating-point sum falls just short of an
  exact 0.8 it asks for approval and `QualityGates` does not: the code is on the safe side.
- `updated_at` is left out: commits within a second set it alike, others may be
  refused on its account, which `Fail` allows.
- `audit` is a set: a double entry for the same decision is one entry.
- Timestamps are left out, except the two the code compares: an item past
  `expires_at` (`overdue`), an execution older than 30 minutes (`aged`).
- A COMMIT that a task leaves under way may be carried out at any later time
  (`PolecatExecution!LateCommit`). That of a cancel request, of a decision or of a sweep takes effect, if it
  does, before the request or the sweep ends without an answer.
- The Temporal path of the executor is left out: `_temporal_available` returns False.
- Convoys live in memory. A restart loses them and nothing recovers them, so
  there is no step to model after it; their approval items are decided like any others. For the same
  reason there is no composition of executor and queue: the executor never reads a
  decision, and the queue never looks at a convoy.

Not modelled, and why:
- *Mayor service*: its object lives for one request; no state of it outlives an await, and its
  start, pause and resume routes always find nothing.
- `revert_bead`: `DOLT_CHECKOUT` of a whole table in a session of its own; what it does to
  open transactions is the database's. Listings, history and diff only read.
- A Temporal worker's process: nothing starts one, and `create_worker` registers neither
  `CampaignConvoyWorkflow` nor its activity, which `ConvoyWorkflow` models as they would run.
  `ScheduledMaintenanceWorkflow` and `ABTestMonitorWorkflow`: their activities exist nowhere and
  no worker registers them. `PolecatSpawner.cancel` and custom checks: nothing uses them.
- API keys, passwords, profiles, usage and limits, two signups with one address: single
  statements, or reads.
- Billing (calls of a payment service around one UPDATE each), webhooks (rows written and
  read; nothing delivers an event), the plugin loader (imports code), the Deacon's other jobs (reads and log
  lines), configuration, wiring and the web dashboard.

## 7. Plan

Everything of the first plan is done, except what section 6 says there is nothing to
model of (the composition of executor and queue, the Mayor's engine), and every safety
property of the runs is proved. What could follow:

1. An abstract specification of an API-spawned execution (what its row may go through, whoever
   writes it), and of a campaign workflow, with `PolecatExecution` and `ConvoyWorkflow` shown to
   implement them, as the two contracts are now.
2. Lemmas that the theorems of two components share (`Conflict` and `Merge` of `ApprovalQueue`
   and `BeadStore`), in a module of their own.
3. `Organization`: API keys, when a route that changes something takes their role.
4. The convoys' store, once it is kept in the database; then the restart is a step, and what
   recovers a convoy has properties.
5. The delivery of webhooks, once something delivers them.
