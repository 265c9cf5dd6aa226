------------------------ MODULE ConvoyExecutor_proofs -----------------------
(***************************************************************************)
(* Theorems about ConvoyExecutor, for every set of convoys, steps, plans   *)
(* and every bound on the tasks of a step.                                 *)
(***************************************************************************)
EXTENDS ConvoyExecutor, TLAPS

\* What a task is made of.
LEMMA TaskParts ==
  /\ \A t \in Tasks : /\ t[1] \in Convoys /\ t[2] \in StepIds
                      /\ t[3] \in 1..MaxLaunch /\ t = <<t[1], t[2], t[3]>>
  /\ \A c \in Convoys, s \in StepIds, k \in 1..MaxLaunch : <<c, s, k>> \in Tasks
  BY DEF Tasks

\* create_task makes tasks of the steps it is given that did not exist.
LEMMA NextTasksAreNew ==
  ASSUME NEW c, NEW R
  PROVE  \A t \in NextTasks(c, R) :
           t \in Tasks /\ t[1] = c /\ t[2] \in R /\ task[t] = "none"
  BY DEF NextTasks

\* The completion check yields the old status or, while executing, a verdict.
LEMMA CheckCompletionCases ==
  ASSUME NEW c, NEW f
  PROVE  \/ CheckCompletion(c, f) = status[c]
         \/ status[c] = "EXECUTING" /\ CheckCompletion(c, f) \in Terminal
  BY DEF CheckCompletion, Terminal

\* Writing a step's status keeps the types of the store.
LEMMA UpdateStepStatusType ==
  ASSUME TypeOK, NEW c \in Convoys, NEW s \in StepIds, NEW v \in StepStatus,
         UpdateStepStatus(c, s, v)
  PROVE  /\ step' \in [Convoys -> [StepIds -> StepStatus]]
         /\ status' \in [Convoys -> ConvoyStatus]
         /\ step' = [step EXCEPT ![c] = [step[c] EXCEPT ![s] = v]]
         /\ \A d \in Convoys : d # c => status'[d] = status[d]
         /\ status'[c] = CheckCompletion(c, step'[c])
  <1> DEFINE f == [step[c] EXCEPT ![s] = v]
  <1>1. f \in [StepIds -> StepStatus]
    BY DEF TypeOK
  <1>2. CheckCompletion(c, f) \in ConvoyStatus
    BY CheckCompletionCases DEF TypeOK, ConvoyStatus, Terminal
  <1>3. /\ step' = [step EXCEPT ![c] = f]
        /\ status' = [status EXCEPT ![c] = CheckCompletion(c, f)]
    BY DEF UpdateStepStatus
  <1> HIDE DEF f
  <1>4. step'[c] = f
    BY <1>3 DEF TypeOK
  <1>5. QED
    BY <1>1, <1>2, <1>3, <1>4 DEF TypeOK, f

\* Registering created tasks keeps the type of _running_tasks.
LEMMA RegisterType ==
  ASSUME TypeOK, NEW new \in SUBSET Tasks, Register(new)
  PROVE  running_tasks' \in [StepIds -> SUBSET Tasks]
  BY DEF Register, TypeOK

\* What the last turn of a step does to the tasks.
LEMMA FinishTasks ==
  ASSUME TypeOK, NEW t \in Tasks, CompleteStep(t)
  PROVE  \E new \in SUBSET Tasks :
           /\ \A u \in new : task[u] = "none" /\ u[1] = t[1]
           /\ Finish(t, new)
           /\ new = IF status'[t[1]] = "EXECUTING"
                    THEN NextTasks(t[1], ReadySteps(plan[t[1]], step'[t[1]]))
                    ELSE {}
  BY DEF CompleteStep, NextTasks

-----------------------------------------------------------------------------
(* Type correctness, for every operation of the executor.                  *)

LEMMA TypeInit == Init => TypeOK
  BY ConvoyAssumption DEF Init, TypeOK, ConvoyStatus, StepStatus, TaskPhase

LEMMA TypeStart ==
  ASSUME TypeOK, NEW c \in Convoys, StartConvoy(c)
  PROVE  TypeOK'
  <1> DEFINE new == NextTasks(c, ReadySteps(plan[c], step[c]))
  <1>1. new \in SUBSET Tasks
    BY DEF NextTasks
  <1>2. running_tasks' \in [StepIds -> SUBSET Tasks]
    BY <1>1, RegisterType DEF StartConvoy
  <1>3. task' \in [Tasks -> TaskPhase]
    BY DEF StartConvoy, TypeOK, TaskPhase, Live
  <1>4. QED
    BY <1>2, <1>3 DEF StartConvoy, TypeOK, ConvoyStatus

LEMMA TypeTurn ==
  ASSUME TypeOK, NEW t \in Tasks, TaskTurn(t)
  PROVE  TypeOK'
  <1>0. t[1] \in Convoys /\ t[2] \in StepIds
    BY TaskParts
  <1>1. CASE BeginStep(t)
    <2>1. UpdateStepStatus(t[1], t[2], "RUNNING")
      BY <1>1 DEF BeginStep
    <2>2. "RUNNING" \in StepStatus
      BY DEF StepStatus
    <2>3. /\ step' \in [Convoys -> [StepIds -> StepStatus]]
          /\ status' \in [Convoys -> ConvoyStatus]
      BY <1>0, <2>1, <2>2, UpdateStepStatusType
    <2>4. QED
      BY <1>1, <2>3 DEF BeginStep, TypeOK, TaskPhase, Live
  <1>2. CASE RequireApproval(t)
    BY <1>2 DEF RequireApproval, TypeOK, TaskPhase, Live
  <1>3. CASE CommitApproval(t)
    BY <1>3 DEF CommitApproval, TypeOK, TaskPhase, Live
  <1>4. CASE CompleteStep(t)
    <2>1. PICK new \in SUBSET Tasks : Finish(t, new)
      BY <1>4, FinishTasks
    <2>2. "COMPLETED" \in StepStatus
      BY DEF StepStatus
    <2>3. UpdateStepStatus(t[1], t[2], "COMPLETED")
      BY <2>1 DEF Finish
    <2>4. /\ step' \in [Convoys -> [StepIds -> StepStatus]]
          /\ status' \in [Convoys -> ConvoyStatus]
      BY <1>0, <2>2, <2>3, UpdateStepStatusType
    <2>5. running_tasks' \in [StepIds -> SUBSET Tasks]
      BY <2>1, RegisterType DEF Finish
    <2>6. task' \in [Tasks -> TaskPhase]
      BY <2>1 DEF Finish, TypeOK, TaskPhase, Live, Over
    <2>7. QED
      BY <2>1, <2>4, <2>5, <2>6 DEF Finish, TypeOK
  <1>5. CASE FailStep(t)
    <2>1. UpdateStepStatus(t[1], t[2], "FAILED")
      BY <1>5 DEF FailStep
    <2>2. "FAILED" \in StepStatus
      BY DEF StepStatus
    <2>3. /\ step' \in [Convoys -> [StepIds -> StepStatus]]
          /\ status' \in [Convoys -> ConvoyStatus]
      BY <1>0, <2>1, <2>2, UpdateStepStatusType
    <2>4. QED
      BY <1>5, <2>3 DEF FailStep, TypeOK, TaskPhase, Over
  <1>6. QED
    BY <1>1, <1>2, <1>3, <1>4, <1>5 DEF TaskTurn

LEMMA TypeStep == TypeOK /\ [OpsNext]_vars => TypeOK'
  <1> SUFFICES ASSUME TypeOK, [OpsNext]_vars PROVE TypeOK'
    OBVIOUS
  <1>1. ASSUME NEW c \in Convoys, CreateConvoy(c) PROVE TypeOK'
    BY <1>1 DEF CreateConvoy, TypeOK, ConvoyStatus
  <1>2. ASSUME NEW c \in Convoys, StartConvoy(c) PROVE TypeOK'
    BY <1>2, TypeStart
  <1>3. ASSUME NEW t \in Tasks, TaskTurn(t) PROVE TypeOK'
    BY <1>3, TypeTurn
  <1>4. ASSUME NEW c \in Convoys, PauseConvoy(c) PROVE TypeOK'
    BY <1>4 DEF PauseConvoy, TypeOK, ConvoyStatus, TaskPhase, Over
  <1>5. ASSUME NEW c \in Convoys, ResumeConvoy(c) PROVE TypeOK'
    BY <1>5, TypeStart DEF ResumeConvoy
  <1>6. CASE UNCHANGED vars
    BY <1>6 DEF vars, TypeOK
  <1>7. QED
    BY <1>1, <1>2, <1>3, <1>4, <1>5, <1>6 DEF OpsNext, Next

\* The deployed system is one way to use the operations.
LEMMA SpecIsOps == Spec => OpsSpec
  <1>1. [Next]_vars => [OpsNext]_vars
    BY DEF OpsNext
  <1>2. QED
    BY <1>1, PTL DEF Spec, OpsSpec

\* Every variable keeps its shape, under pause and resume too.
THEOREM TypeCorrect == OpsSpec => []TypeOK
  BY TypeInit, TypeStep, PTL DEF OpsSpec

-----------------------------------------------------------------------------
(* What a step of the executor may do to tasks, steps and verdicts.        *)

\* A task that exists stays; one that has begun stays begun or over; a
\* completed task stays completed; plans do not change.
LEMMA TasksAdvance ==
  ASSUME TypeOK, [OpsNext]_vars
  PROVE  /\ plan' = plan
         /\ \A t \in Tasks :
              /\ task[t] # "none" => task'[t] # "none"
              /\ task[t] \notin {"none", "created"}
                   => task'[t] \notin {"none", "created"}
              /\ task[t] = "completed" => task'[t] = "completed"
  <1> USE DEF Live, Begun
  <1>1. ASSUME NEW c \in Convoys, StartConvoy(c)
        PROVE  plan' = plan /\ \A t \in Tasks :
                 task'[t] = task[t] \/ (task[t] = "none" /\ task'[t] = "created")
    BY <1>1, NextTasksAreNew DEF StartConvoy
  <1>2. ASSUME NEW u \in Tasks, CompleteStep(u)
        PROVE  plan' = plan /\ \A t \in Tasks :
                 \/ task'[t] = task[t]
                 \/ task[t] = "none" /\ task'[t] = "created"
                 \/ t = u /\ task[t] \in Begun /\ task'[t] = "completed"
    <2>1. PICK new \in SUBSET Tasks : Finish(u, new)
                                     /\ \A v \in new : task[v] = "none"
      BY <1>2, FinishTasks
    <2>2. QED
      BY <2>1 DEF Finish
  <1>3. ASSUME NEW c \in Convoys, PauseConvoy(c)
        PROVE  plan' = plan /\ \A t \in Tasks :
                 task'[t] = task[t] \/ (task[t] \in Live /\ task'[t] = "cancelled")
    BY <1>3 DEF PauseConvoy
  <1>4. ASSUME NEW u \in Tasks,
               BeginStep(u) \/ RequireApproval(u) \/ CommitApproval(u) \/ FailStep(u)
        PROVE  plan' = plan /\ \A t \in Tasks :
                 \/ task'[t] = task[t]
                 \/ /\ task[t] \in Live
                    /\ task'[t] \in {"running", "queueing", "queued", "failed"}
    BY <1>4 DEF BeginStep, RequireApproval, CommitApproval, FailStep, TypeOK
  <1>5. ASSUME (\E c \in Convoys : CreateConvoy(c)) \/ UNCHANGED vars
        PROVE  plan' = plan /\ task' = task
    BY <1>5 DEF CreateConvoy, vars
  <1>6. QED
    BY <1>1, <1>2, <1>3, <1>4, <1>5 DEF OpsNext, Next, TaskTurn, ResumeConvoy

\* So the steps that have succeeded, or started, only grow in number.
LEMMA HistoryGrows ==
  ASSUME TypeOK, [OpsNext]_vars, NEW c \in Convoys
  PROVE  Succeeded(c) \subseteq Succeeded(c)' /\ Started(c) \subseteq Started(c)'
  BY TaskParts, TasksAdvance DEF Succeeded, Started

\* Who writes the status of a step: a task of that step, and only the task
\* that completes writes COMPLETED.
LEMMA StepsAreWrittenByTheirTasks ==
  ASSUME TypeOK, [OpsNext]_vars, NEW c \in Convoys, NEW s \in StepIds
  PROVE  \/ step'[c][s] = step[c][s]
         \/ \E t \in Tasks : /\ t[1] = c /\ t[2] = s
                             /\ task'[t] \notin {"none", "created"}
                             /\ step'[c][s] = "COMPLETED" => task'[t] = "completed"
  <1>1. ASSUME NEW t \in Tasks, NEW v \in StepStatus, UpdateStepStatus(t[1], t[2], v)
        PROVE  \/ step'[c][s] = step[c][s]
               \/ t[1] = c /\ t[2] = s /\ step'[c][s] = v
    <2>1. step' = [step EXCEPT ![t[1]] = [step[t[1]] EXCEPT ![t[2]] = v]]
      BY <1>1, TaskParts, UpdateStepStatusType
    <2>2. QED
      BY <2>1, TaskParts DEF TypeOK
  <1>2. ASSUME NEW t \in Tasks, BeginStep(t)
        PROVE  step'[c][s] = step[c][s] \/ (t[1] = c /\ t[2] = s
                 /\ step'[c][s] = "RUNNING" /\ task'[t] = "running")
    BY <1>1, <1>2 DEF BeginStep, TypeOK, StepStatus
  <1>3. ASSUME NEW t \in Tasks, FailStep(t)
        PROVE  step'[c][s] = step[c][s] \/ (t[1] = c /\ t[2] = s
                 /\ step'[c][s] = "FAILED" /\ task'[t] = "failed")
    BY <1>1, <1>3 DEF FailStep, TypeOK, StepStatus
  <1>4. ASSUME NEW t \in Tasks, CompleteStep(t)
        PROVE  step'[c][s] = step[c][s] \/ (t[1] = c /\ t[2] = s
                 /\ step'[c][s] = "COMPLETED" /\ task'[t] = "completed")
    <2>1. PICK new \in SUBSET Tasks : Finish(t, new)
      BY <1>4, FinishTasks
    <2>2. UpdateStepStatus(t[1], t[2], "COMPLETED") /\ task'[t] = "completed"
      BY <2>1 DEF Finish
    <2>3. QED
      BY <1>1, <2>2 DEF StepStatus
  <1>5. ASSUME \/ \E d \in Convoys : CreateConvoy(d) \/ StartConvoy(d)
                                     \/ PauseConvoy(d) \/ ResumeConvoy(d)
               \/ \E t \in Tasks : RequireApproval(t) \/ CommitApproval(t)
               \/ UNCHANGED vars
        PROVE  step' = step
    BY <1>5 DEF CreateConvoy, StartConvoy, PauseConvoy, ResumeConvoy,
                RequireApproval, CommitApproval, vars
  <1>6. QED
    BY <1>2, <1>3, <1>4, <1>5 DEF OpsNext, Next, TaskTurn

\* A task is only created for a step that is ready once the step of the
\* executor is over, in a convoy that is executing.
LEMMA LaunchesAreReady ==
  ASSUME TypeOK, [OpsNext]_vars, NEW t \in Tasks,
         task[t] = "none", task'[t] # "none"
  PROVE  /\ t[2] \in ReadySteps(plan[t[1]], step'[t[1]])
         /\ status'[t[1]] = "EXECUTING"
  <1>1. ASSUME NEW c \in Convoys, StartConvoy(c)
        PROVE  /\ t[2] \in ReadySteps(plan[t[1]], step'[t[1]])
               /\ status'[t[1]] = "EXECUTING"
    <2>1. t \in NextTasks(c, ReadySteps(plan[c], step[c]))
      BY <1>1 DEF StartConvoy
    <2>2. t[1] = c /\ t[2] \in ReadySteps(plan[c], step[c])
      BY <2>1, NextTasksAreNew
    <2>3. QED
      BY <1>1, <2>2 DEF StartConvoy, TypeOK
  <1>2. ASSUME NEW u \in Tasks, CompleteStep(u)
        PROVE  /\ t[2] \in ReadySteps(plan[t[1]], step'[t[1]])
               /\ status'[t[1]] = "EXECUTING"
    <2>1. PICK new \in SUBSET Tasks :
            /\ Finish(u, new)
            /\ new = IF status'[u[1]] = "EXECUTING"
                     THEN NextTasks(u[1], ReadySteps(plan[u[1]], step'[u[1]]))
                     ELSE {}
      BY <1>2, FinishTasks
    <2>2. task[u] # "none"
      BY <2>1 DEF Finish
    <2>3. t \in new
      BY <2>1, <2>2 DEF Finish
    <2>4. /\ status'[u[1]] = "EXECUTING"
          /\ t \in NextTasks(u[1], ReadySteps(plan[u[1]], step'[u[1]]))
      BY <2>1, <2>3
    <2>5. QED
      BY <2>4, NextTasksAreNew
  <1>3. ASSUME \/ \E c \in Convoys : CreateConvoy(c) \/ PauseConvoy(c)
               \/ \E u \in Tasks : BeginStep(u) \/ RequireApproval(u)
                                   \/ CommitApproval(u) \/ FailStep(u)
               \/ UNCHANGED vars
        PROVE  task'[t] = "none"
    BY <1>3 DEF CreateConvoy, PauseConvoy, BeginStep, RequireApproval,
                CommitApproval, FailStep, vars, TypeOK, Live, Begun
  <1>4. QED
    BY <1>1, <1>2, <1>3 DEF OpsNext, Next, TaskTurn, ResumeConvoy

\* A convoy becomes COMPLETED only with every step COMPLETED, and FAILED only
\* with every step settled, by the same step of the executor.
LEMMA VerdictsAreChecked ==
  ASSUME TypeOK, [OpsNext]_vars, NEW c \in Convoys,
         status'[c] # status[c], status'[c] \in Terminal
  PROVE  /\ status[c] = "EXECUTING"
         /\ \A s \in plan[c].steps : step'[c][s] \in Settled
         /\ status'[c] = "COMPLETED"
              => \A s \in plan[c].steps : step'[c][s] = "COMPLETED"
  <1>1. ASSUME NEW t \in Tasks, NEW v \in StepStatus, UpdateStepStatus(t[1], t[2], v)
        PROVE  status'[c] = CheckCompletion(c, step'[c])
    <2>1. /\ \A d \in Convoys : d # t[1] => status'[d] = status[d]
          /\ status'[t[1]] = CheckCompletion(t[1], step'[t[1]])
      BY <1>1, TaskParts, UpdateStepStatusType
    <2>2. QED
      BY <2>1
  <1>2. ASSUME NEW t \in Tasks, TaskTurn(t)
        PROVE  status'[c] = CheckCompletion(c, step'[c])
    <2>1. CASE BeginStep(t)
      BY <1>1, <2>1 DEF BeginStep, StepStatus
    <2>2. CASE CompleteStep(t)
      <3>1. PICK new \in SUBSET Tasks : Finish(t, new)
        BY <2>2, FinishTasks
      <3>2. QED
        BY <1>1, <3>1 DEF Finish, StepStatus
    <2>3. CASE FailStep(t)
      BY <1>1, <2>3 DEF FailStep, StepStatus
    <2>4. QED
      BY <1>2, <2>1, <2>2, <2>3 DEF TaskTurn, RequireApproval, CommitApproval
  <1>3. \E t \in Tasks : TaskTurn(t)
    BY DEF OpsNext, Next, CreateConvoy, StartConvoy, PauseConvoy, ResumeConvoy,
           vars, Terminal, TypeOK
  <1>4. QED
    BY <1>2, <1>3 DEF CheckCompletion, Settled

-----------------------------------------------------------------------------
(* The safety invariants that hold under every operation.                  *)

\* A step that reads COMPLETED has been seen through by one of its tasks.
CompletedWasRun ==
  \A c \in Convoys, s \in StepIds : step[c][s] = "COMPLETED" => s \in Succeeded(c)

\* A step whose status was ever written has been begun by one of its tasks.
WrittenWasStarted ==
  \A c \in Convoys, s \in StepIds : step[c][s] # "PENDING" => s \in Started(c)

\* Inductive: DependenciesHonoured needs CompletedWasRun for the labels
\* ready_steps goes by, TerminalIsEarned needs both for the statuses the
\* completion check goes by.
OpsInv == /\ TypeOK
          /\ CompletedWasRun
          /\ WrittenWasStarted
          /\ DependenciesHonoured
          /\ TerminalIsEarned
          /\ ApprovalBeforeCompletion

\* More steps done can only satisfy more labels.
LEMMA LabelsGrow ==
  ASSUME NEW p, NEW A, NEW B, A \subseteq B
  PROVE  LabelsOf(p, A) \subseteq LabelsOf(p, B)
  BY DEF LabelsOf

LEMMA PlanSteps ==
  ASSUME TypeOK, NEW c \in Convoys
  PROVE  plan[c].steps \subseteq StepIds
  BY ConvoyAssumption DEF TypeOK, PlanShape

LEMMA OpsInvInit == Init => OpsInv
  <1> SUFFICES ASSUME Init PROVE OpsInv
    OBVIOUS
  <1>1. TypeOK
    BY TypeInit
  <1>2. CompletedWasRun /\ WrittenWasStarted /\ DependenciesHonoured
    BY DEF Init, CompletedWasRun, WrittenWasStarted, DependenciesHonoured
  <1>3. TerminalIsEarned /\ ApprovalBeforeCompletion
    BY DEF Init, TerminalIsEarned, ApprovalBeforeCompletion
  <1>4. QED
    BY <1>1, <1>2, <1>3 DEF OpsInv

LEMMA OpsInvStep == OpsInv /\ [OpsNext]_vars => OpsInv'
  <1> SUFFICES ASSUME OpsInv, [OpsNext]_vars PROVE OpsInv'
    OBVIOUS
  <1>0. TypeOK /\ TypeOK'
    BY TypeStep DEF OpsInv
  <1>1. CompletedWasRun'
    <2> SUFFICES ASSUME NEW c \in Convoys, NEW s \in StepIds,
                        step'[c][s] = "COMPLETED"
                 PROVE  s \in Succeeded(c)'
      BY DEF CompletedWasRun
    <2>1. CASE step'[c][s] = step[c][s]
      BY <1>0, <2>1, HistoryGrows DEF OpsInv, CompletedWasRun
    <2>2. ASSUME NEW t \in Tasks, t[1] = c, t[2] = s, task'[t] = "completed"
          PROVE  s \in Succeeded(c)'
      BY <2>2, TaskParts DEF Succeeded
    <2>3. QED
      BY <1>0, <2>1, <2>2, StepsAreWrittenByTheirTasks
  <1>2. WrittenWasStarted'
    <2> SUFFICES ASSUME NEW c \in Convoys, NEW s \in StepIds,
                        step'[c][s] # "PENDING"
                 PROVE  s \in Started(c)'
      BY DEF WrittenWasStarted
    <2>1. CASE step'[c][s] = step[c][s]
      BY <1>0, <2>1, HistoryGrows DEF OpsInv, WrittenWasStarted
    <2>2. ASSUME NEW t \in Tasks, t[1] = c, t[2] = s,
                 task'[t] \notin {"none", "created"}
          PROVE  s \in Started(c)'
      BY <2>2, TaskParts DEF Started
    <2>3. QED
      BY <1>0, <2>1, <2>2, StepsAreWrittenByTheirTasks
  <1>3. DependenciesHonoured'
    <2> SUFFICES ASSUME NEW t \in Tasks, task'[t] # "none"
                 PROVE  /\ t[2] \in plan[t[1]].steps
                        /\ plan[t[1]].depends_on[t[2]]
                             \subseteq LabelsOf(plan[t[1]], Succeeded(t[1])')
      BY <1>0, TasksAdvance DEF DependenciesHonoured
    <2>0. t[1] \in Convoys
      BY TaskParts
    <2>1. CASE task[t] # "none"
      BY <1>0, <2>0, <2>1, HistoryGrows, LabelsGrow DEF OpsInv, DependenciesHonoured
    <2>2. CASE task[t] = "none"
      <3>1. t[2] \in ReadySteps(plan[t[1]], step'[t[1]])
        BY <1>0, <2>2, LaunchesAreReady
      <3> DEFINE done == {s \in plan[t[1]].steps : step'[t[1]][s] = "COMPLETED"}
      <3>2. done \subseteq Succeeded(t[1])'
        BY <1>0, <1>1, <2>0, PlanSteps DEF CompletedWasRun
      <3>3. /\ t[2] \in plan[t[1]].steps
            /\ plan[t[1]].depends_on[t[2]] \subseteq LabelsOf(plan[t[1]], done)
        BY <3>1 DEF ReadySteps, CompletedLabels
      <3> HIDE DEF done
      <3>4. QED
        BY <3>2, <3>3, LabelsGrow
    <2>3. QED
      BY <2>1, <2>2
  <1>4. TerminalIsEarned'
    <2> SUFFICES ASSUME NEW c \in Convoys
                 PROVE  /\ status'[c] = "COMPLETED"
                             => plan[c].steps \subseteq Succeeded(c)'
                        /\ status'[c] = "FAILED"
                             => plan[c].steps \subseteq Started(c)'
      BY <1>0, TasksAdvance DEF TerminalIsEarned
    <2>1. CASE status'[c] = status[c]
      BY <1>0, <2>1, HistoryGrows DEF OpsInv, TerminalIsEarned
    <2>2. CASE status'[c] # status[c] /\ status'[c] \in Terminal
      <3>1. /\ \A s \in plan[c].steps : step'[c][s] # "PENDING"
            /\ status'[c] = "COMPLETED"
                 => \A s \in plan[c].steps : step'[c][s] = "COMPLETED"
        BY <1>0, <2>2, VerdictsAreChecked DEF Settled
      <3>2. QED
        BY <1>0, <1>1, <1>2, <3>1, PlanSteps DEF CompletedWasRun, WrittenWasStarted
    <2>3. QED
      BY <2>1, <2>2 DEF Terminal
  <1>5. ApprovalBeforeCompletion'
    <2> SUFFICES ASSUME NEW t \in Tasks
                 PROVE  /\ task'[t] = "queued" => t \in approvals'
                        /\ (task'[t] = "completed" /\ ~NeedsNoApproval(t))
                             => t \in approvals'
                        /\ t \in approvals' => task'[t] \in {"queued"} \cup Over
      BY <1>0, TasksAdvance DEF ApprovalBeforeCompletion, NeedsNoApproval
    <2>0. /\ task[t] = "queued" => t \in approvals
          /\ (task[t] = "completed" /\ ~NeedsNoApproval(t)) => t \in approvals
          /\ t \in approvals => task[t] \in {"queued"} \cup Over
      BY DEF OpsInv, ApprovalBeforeCompletion, NeedsNoApproval
    <2>1. ASSUME NEW c \in Convoys, StartConvoy(c)
          PROVE  approvals' = approvals /\
                 (task'[t] = task[t] \/ (task[t] = "none" /\ task'[t] = "created"))
      BY <2>1, NextTasksAreNew DEF StartConvoy
    <2>2. ASSUME NEW u \in Tasks, CompleteStep(u)
          PROVE  /\ approvals' = approvals
                 /\ \/ task'[t] = task[t]
                    \/ task[t] = "none" /\ task'[t] = "created"
                    \/ /\ t = u /\ task'[t] = "completed"
                       /\ \/ task[t] = "running" /\ NeedsNoApproval(t)
                          \/ task[t] = "queued"
      <3>1. PICK new \in SUBSET Tasks : Finish(u, new)
                                       /\ \A v \in new : task[v] = "none"
        BY <1>0, <2>2, FinishTasks
      <3>2. QED
        BY <3>1 DEF Finish
    <2>3. ASSUME NEW u \in Tasks, CommitApproval(u)
          PROVE  /\ approvals' = approvals \cup {u}
                 /\ task'[t] = IF t = u THEN "queued" ELSE task[t]
      BY <1>0, <2>3 DEF CommitApproval, TypeOK
    <2>4. ASSUME NEW u \in Tasks, BeginStep(u) \/ RequireApproval(u) \/ FailStep(u)
          PROVE  /\ approvals' = approvals
                 /\ \/ task'[t] = task[t]
                    \/ /\ task[t] \in {"created", "running"}
                       /\ task'[t] \in {"running", "queueing"}
                    \/ task'[t] = "failed"
      BY <1>0, <2>4 DEF BeginStep, RequireApproval, FailStep, TypeOK
    <2>5. ASSUME NEW c \in Convoys, PauseConvoy(c)
          PROVE  approvals' = approvals /\ task'[t] \in {task[t], "cancelled"}
      BY <2>5 DEF PauseConvoy
    <2>6. ASSUME (\E c \in Convoys : CreateConvoy(c)) \/ UNCHANGED vars
          PROVE  approvals' = approvals /\ task'[t] = task[t]
      BY <2>6 DEF CreateConvoy, vars
    <2> USE <2>0 DEF Over
    <2>7. ASSUME NEW c \in Convoys, \/ CreateConvoy(c) \/ StartConvoy(c)
                                    \/ PauseConvoy(c) \/ ResumeConvoy(c)
          PROVE  /\ task'[t] = "queued" => t \in approvals'
                 /\ (task'[t] = "completed" /\ ~NeedsNoApproval(t))
                      => t \in approvals'
                 /\ t \in approvals' => task'[t] \in {"queued"} \cup Over
      BY <2>1, <2>5, <2>6, <2>7 DEF ResumeConvoy
    <2>8. ASSUME NEW u \in Tasks, TaskTurn(u)
          PROVE  /\ task'[t] = "queued" => t \in approvals'
                 /\ (task'[t] = "completed" /\ ~NeedsNoApproval(t))
                      => t \in approvals'
                 /\ t \in approvals' => task'[t] \in {"queued"} \cup Over
      BY <2>2, <2>3, <2>4, <2>8 DEF TaskTurn
    <2>9. QED
      BY <2>6, <2>7, <2>8 DEF OpsNext, Next
  <1>6. QED
    BY <1>0, <1>1, <1>2, <1>3, <1>4, <1>5 DEF OpsInv

LEMMA OpsInvariant == OpsSpec => []OpsInv
  BY OpsInvInit, OpsInvStep, PTL DEF OpsSpec

\* No step is launched before its dependencies were completed, whatever is
\* started, paused or resumed when.
THEOREM DependenciesAreHonoured == OpsSpec => []DependenciesHonoured
  <1>1. OpsInv => DependenciesHonoured
    BY DEF OpsInv
  <1>2. QED
    BY <1>1, OpsInvariant, PTL

\* A convoy that reads COMPLETED has succeeded in every step, one that reads
\* FAILED has tried every step.
THEOREM VerdictsAreEarned == OpsSpec => []TerminalIsEarned
  <1>1. OpsInv => TerminalIsEarned
    BY DEF OpsInv
  <1>2. QED
    BY <1>1, OpsInvariant, PTL

\* No always-approve step is reported complete before its item is committed.
THEOREM ApprovalsComeFirst == OpsSpec => []ApprovalBeforeCompletion
  <1>1. OpsInv => ApprovalBeforeCompletion
    BY DEF OpsInv
  <1>2. QED
    BY <1>1, OpsInvariant, PTL

\* A paused convoy launches nothing while it stays paused.
THEOREM PauseStopsLaunches == OpsSpec => PausedLaunchesNothing
  <1>1. TypeOK /\ [OpsNext]_vars =>
          [\A t \in Tasks : /\ status[t[1]] = "PAUSED" /\ status'[t[1]] = "PAUSED"
                            /\ task[t] = "none"
                            => task'[t] = "none"]_vars
    BY LaunchesAreReady
  <1>2. QED
    BY <1>1, TypeCorrect, PTL DEF OpsSpec, PausedLaunchesNothing
=============================================================================
