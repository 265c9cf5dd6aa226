--------------------------- MODULE ConvoyExecutor ---------------------------
(***************************************************************************)
(* The local convoy executor and the store it works on:                    *)
(* apps/api/core/convoy_store.py and apps/api/core/convoy_executor.py,     *)
(* driven by the Mayor chat (apps/api/routers/mayor.py).                   *)
(*                                                                         *)
(* A convoy is a plan of steps with dependencies.  Starting it creates one *)
(* asyncio task per ready step; a step that completes launches the steps   *)
(* it made ready.  The event loop runs one task at a time, from one await  *)
(* to the next: each action below is one such turn.  Which runnable task   *)
(* takes the next turn is left open.                                       *)
(***************************************************************************)
EXTENDS Naturals

CONSTANTS
  Convoys,                (* the convoy ids the store may hold             *)
  StepIds,                (* "step_1", "step_2", ...: shared by convoys    *)
  PolecatTypes,           (* the polecat types of the steps                *)
  AlwaysRequireApproval,  (* those whose output is always queued           *)
  Plans,                  (* the plans the Mayor may hand over             *)
  MaxLaunch               (* bound: tasks ever created for one step        *)

\* A depends_on entry is the id or the polecat type of another step.
Labels == StepIds \cup PolecatTypes

PlanShape == [steps : SUBSET StepIds,
              polecat_type : [StepIds -> PolecatTypes],
              depends_on : [StepIds -> SUBSET Labels]]

ASSUME ConvoyAssumption ==
  /\ Plans \subseteq PlanShape
  /\ AlwaysRequireApproval \subseteq PolecatTypes
  /\ MaxLaunch \in Nat \ {0}

ConvoyStatus == {"absent", "DRAFT", "PLANNING", "READY", "EXECUTING",
                 "PAUSED", "COMPLETED", "FAILED"}
StepStatus == {"PENDING", "RUNNING", "COMPLETED", "FAILED",
               "AWAITING_APPROVAL"}

\* The k-th task created for step s of convoy c, and where it stands:
\* created (no turn yet), running (awaiting its polecat), queueing (awaiting
\* the insert of its approval item), queued (item committed, the answer not
\* yet seen), or over.
Tasks == Convoys \X StepIds \X (1..MaxLaunch)
Live == {"created", "running", "queueing", "queued"}
Begun == {"running", "queueing", "queued"}
Over == {"completed", "failed", "cancelled"}
TaskPhase == {"none"} \cup Live \cup Over

VARIABLES
  status,         (* status[c]: Convoy.status                              *)
  plan,           (* plan[c]: the steps, their types and dependencies      *)
  step,           (* step[c][s]: ConvoyStep.status                         *)
  task,           (* task[t]: the phase of each asyncio task               *)
  running_tasks,  (* _running_tasks: the last task of each step id, if any *)
  approvals       (* the tasks whose approval item the database holds      *)

vars == <<status, plan, step, task, running_tasks, approvals>>
-----------------------------------------------------------------------------
Settled == {"COMPLETED", "FAILED"}
Terminal == {"COMPLETED", "FAILED"}

\* What a depends_on entry may match once the steps `done` of p are complete.
LabelsOf(p, done) == done \cup {p.polecat_type[s] : s \in done}

CompletedLabels(p, f) == LabelsOf(p, {s \in p.steps : f[s] = "COMPLETED"})

\* Faulty variant: one satisfied dependency is enough.
ReadySteps_AnyDependency(p, f) ==
  {s \in p.steps : f[s] = "PENDING"
                   /\ (p.depends_on[s] # {} =>
                         p.depends_on[s] \cap CompletedLabels(p, f) # {})}

ReadySteps(p, f) ==
  {s \in p.steps : f[s] = "PENDING"
                   /\ p.depends_on[s] \subseteq CompletedLabels(p, f)}

\* Faulty variants: a convoy that is no longer executing is judged again; a
\* convoy with a failed step completes all the same.
CheckCompletion_AnyStatus(c, f) ==
  IF \A s \in plan[c].steps : f[s] \in Settled
  THEN IF \E s \in plan[c].steps : f[s] = "FAILED"
       THEN "FAILED" ELSE "COMPLETED"
  ELSE status[c]

CheckCompletion_FailuresIgnored(c, f) ==
  IF /\ status[c] = "EXECUTING"
     /\ \A s \in plan[c].steps : f[s] \in Settled
  THEN "COMPLETED" ELSE status[c]

\* The convoy status after _check_convoy_completion has looked at f.
CheckCompletion(c, f) ==
  IF /\ status[c] = "EXECUTING"
     /\ \A s \in plan[c].steps : f[s] \in Settled
  THEN IF \E s \in plan[c].steps : f[s] = "FAILED"
       THEN "FAILED" ELSE "COMPLETED"
  ELSE status[c]

\* update_step_status: write the step, then check the whole convoy.
UpdateStepStatus(c, s, v) ==
  LET f == [step[c] EXCEPT ![s] = v]
  IN  /\ step' = [step EXCEPT ![c] = f]
      /\ status' = [status EXCEPT ![c] = CheckCompletion(c, f)]

\* The tasks create_task makes for the steps R of convoy c: the next unused
\* one of each step, none for a step that has used up MaxLaunch.
NextTasks(c, R) ==
  {t \in Tasks : /\ t[1] = c /\ t[2] \in R
                 /\ task[t] = "none"
                 /\ \A k \in 1..(t[3] - 1) : task[<<c, t[2], k>>] # "none"}

\* Faulty variant: _running_tasks keyed by convoy instead of by step id.
Register_ByConvoy(new) ==
  running_tasks' = [c \in Convoys |-> {t \in new : t[1] = c}]

\* Each created task takes the slot of its step id in _running_tasks.
Register(new) ==
  running_tasks' =
    [s \in StepIds |-> IF \E t \in new : t[2] = s
                       THEN {t \in new : t[2] = s}
                       ELSE running_tasks[s]]
-----------------------------------------------------------------------------
\* plan[c] is the plan the Mayor will hand over when c is created.
Init ==
  /\ status = [c \in Convoys |-> "absent"]
  /\ plan \in [Convoys -> Plans]
  /\ step = [c \in Convoys |-> [s \in StepIds |-> "PENDING"]]
  /\ task = [t \in Tasks |-> "none"]
  /\ running_tasks = [s \in StepIds |-> {}]
  /\ approvals = {}

\* _handle_create_campaign stores the planned convoy as a draft.
CreateConvoy(c) ==
  /\ status[c] = "absent"
  /\ status' = [status EXCEPT ![c] = "DRAFT"]
  /\ UNCHANGED <<plan, step, task, running_tasks, approvals>>

\* start_convoy: mark the convoy and launch every ready step.
StartConvoy(c) ==
  LET new == NextTasks(c, ReadySteps(plan[c], step[c]))
  IN  /\ status[c] \in {"DRAFT", "READY", "PAUSED"}
      /\ status' = [status EXCEPT ![c] = "EXECUTING"]
      /\ task' = [t \in Tasks |-> IF t \in new THEN "created" ELSE task[t]]
      /\ Register(new)
      /\ UNCHANGED <<plan, step, approvals>>

\* First turn of _execute_step_locally, up to the polecat's first await.
BeginStep(t) ==
  /\ task[t] = "created"
  /\ task' = [task EXCEPT ![t] = "running"]
  /\ UpdateStepStatus(t[1], t[2], "RUNNING")
  /\ UNCHANGED <<plan, running_tasks, approvals>>

\* The polecat's output needs a human: await the insert of an approval item.
RequireApproval(t) ==
  /\ task[t] = "running"
  /\ task' = [task EXCEPT ![t] = "queueing"]
  /\ UNCHANGED <<status, plan, step, running_tasks, approvals>>

\* The database commits the item (the task has not heard of it yet).
CommitApproval(t) ==
  /\ task[t] = "queueing"
  /\ task' = [task EXCEPT ![t] = "queued"]
  /\ approvals' = approvals \cup {t}
  /\ UNCHANGED <<status, plan, step, running_tasks>>

\* Faulty variant: the always-approve list is not consulted.
NeedsNoApproval_Never(t) == t \in Tasks

NeedsNoApproval(t) ==
  plan[t[1]].polecat_type[t[2]] \notin AlwaysRequireApproval

\* The last turn of a step, launching the tasks `new`: COMPLETED (also when
\* the polecat reported success = False), then the completion check.
Finish(t, new) ==
  /\ \/ task[t] = "running" /\ NeedsNoApproval(t)
     \/ task[t] = "queued"
  /\ UpdateStepStatus(t[1], t[2], "COMPLETED")
  /\ task' = [u \in Tasks |-> IF u = t THEN "completed"
                              ELSE IF u \in new THEN "created"
                              ELSE task[u]]
  /\ Register(new)
  /\ UNCHANGED <<plan, approvals>>

\* Faulty variants: the ready steps are those from before the update; the
\* convoy's status is not looked at again before launching.
CompleteStep_StaleReady(t) ==
  Finish(t, IF status[t[1]] = "EXECUTING"
            THEN NextTasks(t[1], ReadySteps(plan[t[1]], step[t[1]])) ELSE {})

CompleteStep_AnyStatus(t) ==
  Finish(t, NextTasks(t[1], ReadySteps(plan[t[1]], step'[t[1]])))

\* After step completes, check for more ready steps, if still EXECUTING.
CompleteStep(t) ==
  Finish(t, IF status'[t[1]] = "EXECUTING"
            THEN NextTasks(t[1], ReadySteps(plan[t[1]], step'[t[1]])) ELSE {})

\* Faulty variant: the exception is swallowed.
FailStep_Swallowed(t) ==
  /\ task[t] \in Begun
  /\ task' = [task EXCEPT ![t] = "failed"]
  /\ UNCHANGED <<status, plan, step, running_tasks, approvals>>

\* `except Exception`: the polecat, the fallback call or the insert raised
\* (an insert may raise after its commit took effect).  Nothing is launched.
FailStep(t) ==
  /\ task[t] \in Begun
  /\ task' = [task EXCEPT ![t] = "failed"]
  /\ UpdateStepStatus(t[1], t[2], "FAILED")
  /\ UNCHANGED <<plan, running_tasks, approvals>>

\* pause_convoy: whatever the status, cancel the task in the slot of each
\* RUNNING step.  The cancelled task ends at its await, past every handler.
PauseConvoy(c) ==
  LET slots == UNION {running_tasks[s] :
                      s \in {r \in plan[c].steps : step[c][r] = "RUNNING"}}
  IN  /\ status[c] # "absent"
      /\ status' = [status EXCEPT ![c] = "PAUSED"]
      /\ task' = [t \in Tasks |-> IF t \in slots /\ task[t] \in Live
                                  THEN "cancelled" ELSE task[t]]
      /\ UNCHANGED <<plan, step, running_tasks, approvals>>

ResumeConvoy(c) == status[c] = "PAUSED" /\ StartConvoy(c)

TaskTurn(t) == \/ BeginStep(t) \/ RequireApproval(t) \/ CommitApproval(t)
               \/ CompleteStep(t) \/ FailStep(t)

\* The deployed system: no route reaches pause_convoy or resume_convoy.
Next == \/ \E c \in Convoys : CreateConvoy(c) \/ StartConvoy(c)
        \/ \E t \in Tasks : TaskTurn(t)

Spec == Init /\ [][Next]_vars

\* Every public operation of the executor.
OpsNext == Next \/ \E c \in Convoys : PauseConvoy(c) \/ ResumeConvoy(c)

OpsSpec == Init /\ [][OpsNext]_vars

\* The event loop gives every runnable task its turn; an LLM call ends within
\* the client's 120 s timeout and an insert ends or raises.
FairSpec == Spec /\ \A t \in Tasks : WF_vars(TaskTurn(t))
-----------------------------------------------------------------------------
\* Properties.

\* Every variable has its shape.
TypeOK ==
  /\ status \in [Convoys -> ConvoyStatus]
  /\ plan \in [Convoys -> Plans]
  /\ step \in [Convoys -> [StepIds -> StepStatus]]
  /\ task \in [Tasks -> TaskPhase]
  /\ running_tasks \in [StepIds -> SUBSET Tasks]
  /\ approvals \subseteq Tasks

\* The steps of c that some task has seen through to COMPLETED, and those a
\* task has begun.  Unlike step[c] these never shrink.
Succeeded(c) ==
  {s \in StepIds : \E k \in 1..MaxLaunch : task[<<c, s, k>>] = "completed"}
Started(c) ==
  {s \in StepIds : \E k \in 1..MaxLaunch :
                     task[<<c, s, k>>] \notin {"none", "created"}}

\* No task exists for a step before each of its dependencies (an id or a
\* polecat type) was completed: the promise of ready_steps, although a second
\* task of a step may take its status back from COMPLETED.
DependenciesHonoured ==
  \A t \in Tasks : task[t] # "none" =>
    /\ t[2] \in plan[t[1]].steps
    /\ plan[t[1]].depends_on[t[2]] \subseteq LabelsOf(plan[t[1]], Succeeded(t[1]))

\* A step of an always-approve type is never reported complete without an
\* approval item in the database ("Polecats that ALWAYS require approval"),
\* and no item appears for a task that has not asked for one.
ApprovalBeforeCompletion ==
  \A t \in Tasks :
    /\ task[t] = "queued" => t \in approvals
    /\ /\ task[t] = "completed"
       /\ plan[t[1]].polecat_type[t[2]] \in AlwaysRequireApproval
       => t \in approvals
    /\ t \in approvals => task[t] \in {"queued"} \cup Over

\* COMPLETED means that every step of the plan succeeded, FAILED that every
\* one was at least tried: what _check_convoy_completion is for.
TerminalIsEarned ==
  \A c \in Convoys :
    /\ status[c] = "COMPLETED" => plan[c].steps \subseteq Succeeded(c)
    /\ status[c] = "FAILED" => plan[c].steps \subseteq Started(c)

\* An executing convoy has a task waiting to begin for each of its ready
\* steps: no completion can forget to launch what it made ready.
NoReadyStepLost ==
  \A c \in Convoys : status[c] = "EXECUTING" =>
    \A s \in ReadySteps(plan[c], step[c]) :
      \E k \in 1..MaxLaunch : task[<<c, s, k>>] = "created"

\* A step shown as RUNNING has a task that is still working on it.
RunningHasTask ==
  \A c \in Convoys, s \in StepIds : step[c][s] = "RUNNING" =>
    \E k \in 1..MaxLaunch : task[<<c, s, k>>] \in Begun

\* A convoy that has completed or failed keeps that status, whatever its
\* left-over tasks still write.
TerminalIsFinal ==
  [][\A c \in Convoys : status[c] \in Terminal => status'[c] = status[c]]_vars

\* While a convoy is paused, a step that completes launches nothing.
PausedLaunchesNothing ==
  [][\A t \in Tasks :
       /\ status[t[1]] = "PAUSED" /\ status'[t[1]] = "PAUSED"
       /\ task[t] = "none"
       => task'[t] = "none"]_vars

\* A step that is ready while its convoy executes is carried to COMPLETED or
\* FAILED, whatever happens to the steps beside it.
ReadyStepSettles ==
  \A c \in Convoys, s \in StepIds :
    (status[c] = "EXECUTING" /\ s \in ReadySteps(plan[c], step[c]))
      ~> step[c][s] \in Settled

\* Every nonempty set of p's steps has one whose dependencies the steps
\* outside the set provide: no cycle and no dependency that nothing matches.
Resolvable(p) ==
  \A U \in SUBSET p.steps : U # {} =>
    \E s \in U : p.depends_on[s] \subseteq LabelsOf(p, p.steps \ U)

\* A convoy with a nonempty, resolvable plan, once started, completes or
\* fails, unless a failed step holds up the steps that depend on it: those
\* are never settled, so _check_convoy_completion never sees it as done.
ConvoyResolves ==
  \A c \in Convoys :
    (status[c] = "EXECUTING" /\ plan[c].steps # {} /\ Resolvable(plan[c]))
      ~> \/ status[c] \in Terminal
         \/ \E s \in plan[c].steps : step[c][s] = "FAILED"

\* "Check if convoy is complete" (convoy_store.py:208): no task is still
\* working on a convoy that has completed or failed.  The code breaks this: a
\* step waiting for its first turn is launched again by every completion that
\* comes before it, and the second task runs on in the finished convoy.
FinishedConvoyIsQuiet ==
  \A t \in Tasks : status[t[1]] \in Terminal => task[t] \notin Begun

\* The refinement of the contract: a status maps to its phase, and a step has
\* started (succeeded) when one of its tasks has.
PhaseOf(v) ==
  CASE v = "absent" -> "absent"
    [] v \in {"DRAFT", "PLANNING", "READY"} -> "draft"
    [] v \in {"EXECUTING", "PAUSED"} -> "active"
    [] v = "COMPLETED" -> "completed"
    [] v = "FAILED" -> "failed"

Contract == INSTANCE ConvoyContract WITH
  phase <- [c \in Convoys |-> PhaseOf(status[c])],
  started <- [c \in Convoys |-> Started(c)],
  succeeded <- [c \in Convoys |-> Succeeded(c)]

\* The executor keeps the promises of ConvoyContract.
ContractKept == Contract!Spec
=============================================================================
