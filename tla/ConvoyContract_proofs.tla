------------------------ MODULE ConvoyContract_proofs -----------------------
(***************************************************************************)
(* Theorems about the deployed system (no route reaches pause_convoy): no  *)
(* ready step is forgotten, no RUNNING step is without its task, verdicts  *)
(* are final, and the executor implements ConvoyContract, under any order  *)
(* of turns and so under the FIFO queue of ConvoyEventLoop.                *)
(***************************************************************************)
EXTENDS ConvoyExecutor_proofs, ConvoyEventLoop, FiniteSetTheorems

\* A step still PENDING has only tasks that have not begun.
PendingIsUntouched ==
  \A t \in Tasks : step[t[1]][t[2]] = "PENDING" => task[t] \in {"none", "created"}

\* Tasks exist only in a convoy that has been started.
TasksWereStarted ==
  \A t \in Tasks : task[t] # "none"
                     => status[t[1]] \in {"EXECUTING", "COMPLETED", "FAILED"}

NeverPaused == \A c \in Convoys : status[c] \notin {"PLANNING", "READY", "PAUSED"}

\* Inductive for the deployed system.
RunInv == /\ OpsInv
          /\ NeverPaused
          /\ TasksWereStarted
          /\ PendingIsUntouched
          /\ RunningHasTask
          /\ NoReadyStepLost

\* What a task that has begun, or a ready step's task, does in one turn.
LEMMA StatusTurn ==
  ASSUME TypeOK, NEW t \in Tasks, NEW v \in StepStatus,
         UpdateStepStatus(t[1], t[2], v)
  PROVE  /\ \A c \in Convoys : \/ status'[c] = status[c]
                               \/ status[c] = "EXECUTING" /\ status'[c] \in Terminal
         /\ \A c \in Convoys, s \in StepIds :
              step'[c][s] = IF c = t[1] /\ s = t[2] THEN v ELSE step[c][s]
  <1>1. /\ step' = [step EXCEPT ![t[1]] = [step[t[1]] EXCEPT ![t[2]] = v]]
        /\ \A d \in Convoys : d # t[1] => status'[d] = status[d]
        /\ status'[t[1]] = CheckCompletion(t[1], step'[t[1]])
    BY TaskParts, UpdateStepStatusType
  <1>2. \A c \in Convoys, s \in StepIds :
              step'[c][s] = IF c = t[1] /\ s = t[2] THEN v ELSE step[c][s]
    BY <1>1, TaskParts DEF TypeOK
  <1>3. \A c \in Convoys : \/ status'[c] = status[c]
                           \/ status[c] = "EXECUTING" /\ status'[c] \in Terminal
    BY <1>1, CheckCompletionCases
  <1>4. QED
    BY <1>2, <1>3

\* The whole of a task's turn, one line per kind.
LEMMA TurnCases ==
  ASSUME TypeOK, NEW t \in Tasks, TaskTurn(t)
  PROVE  /\ plan' = plan
         /\ \/ /\ UNCHANGED <<status, step>>
               /\ \/ task[t] = "running" /\ task' = [task EXCEPT ![t] = "queueing"]
                  \/ task[t] = "queueing" /\ task' = [task EXCEPT ![t] = "queued"]
            \/ /\ UpdateStepStatus(t[1], t[2], "RUNNING")
               /\ task[t] = "created" /\ task' = [task EXCEPT ![t] = "running"]
            \/ /\ UpdateStepStatus(t[1], t[2], "FAILED")
               /\ task[t] \in Begun /\ task' = [task EXCEPT ![t] = "failed"]
            \/ /\ UpdateStepStatus(t[1], t[2], "COMPLETED")
               /\ task[t] \in Begun
               /\ \E new \in SUBSET Tasks :
                    /\ \A u \in new : task[u] = "none" /\ u[1] = t[1]
                    /\ new = IF status'[t[1]] = "EXECUTING"
                             THEN NextTasks(t[1], ReadySteps(plan[t[1]], step'[t[1]]))
                             ELSE {}
                    /\ task' = [u \in Tasks |-> IF u = t THEN "completed"
                                                ELSE IF u \in new THEN "created"
                                                ELSE task[u]]
  <1>1. CASE BeginStep(t)
    BY <1>1 DEF BeginStep
  <1>2. CASE RequireApproval(t) \/ CommitApproval(t)
    BY <1>2 DEF RequireApproval, CommitApproval
  <1>3. CASE CompleteStep(t)
    <2>1. PICK new \in SUBSET Tasks :
           /\ \A u \in new : task[u] = "none" /\ u[1] = t[1]
           /\ Finish(t, new)
           /\ new = IF status'[t[1]] = "EXECUTING"
                    THEN NextTasks(t[1], ReadySteps(plan[t[1]], step'[t[1]]))
                    ELSE {}
      BY <1>3, FinishTasks
    <2>2. /\ UpdateStepStatus(t[1], t[2], "COMPLETED")
          /\ task[t] \in Begun
          /\ plan' = plan
          /\ task' = [u \in Tasks |-> IF u = t THEN "completed"
                                      ELSE IF u \in new THEN "created"
                                      ELSE task[u]]
      BY <2>1 DEF Finish, Begun
    <2>3. QED
      BY <2>1, <2>2
  <1>4. CASE FailStep(t)
    BY <1>4 DEF FailStep
  <1>5. QED
    BY <1>1, <1>2, <1>3, <1>4 DEF TaskTurn

\* create_task covers every step it is asked for that has no task yet.
LEMMA NextTasksCover ==
  ASSUME TypeOK, NEW c \in Convoys, NEW R \in SUBSET StepIds, NEW s \in R,
         \A k \in 1..MaxLaunch : task[<<c, s, k>>] = "none"
  PROVE  <<c, s, 1>> \in NextTasks(c, R)
  <1>1. 1 \in 1..MaxLaunch
    BY ConvoyAssumption
  <1>2. <<c, s, 1>> \in Tasks
    BY <1>1, TaskParts
  <1>3. \A k \in 1..(1 - 1) : task[<<c, s, k>>] # "none"
    OBVIOUS
  <1>4. QED
    BY <1>1, <1>2, <1>3 DEF NextTasks

LEMMA RunInvInit == Init => RunInv
  <1> SUFFICES ASSUME Init PROVE RunInv
    OBVIOUS
  <1>1. OpsInv
    BY OpsInvInit
  <1>2. NeverPaused /\ TasksWereStarted /\ PendingIsUntouched
    BY TaskParts DEF Init, NeverPaused, TasksWereStarted, PendingIsUntouched
  <1>3. RunningHasTask /\ NoReadyStepLost
    BY DEF Init, RunningHasTask, NoReadyStepLost
  <1>4. QED
    BY <1>1, <1>2, <1>3 DEF RunInv

-----------------------------------------------------------------------------
(* One lemma per kind of step: a start, a turn, a creation.                *)

LEMMA RunInvStart ==
  ASSUME RunInv, OpsInv', NEW c \in Convoys, StartConvoy(c)
  PROVE  RunInv'
  <1> DEFINE new == NextTasks(c, ReadySteps(plan[c], step[c]))
  <1>0. TypeOK
    BY DEF RunInv, OpsInv
  <1>1. /\ UNCHANGED <<plan, step>>
        /\ status' = [status EXCEPT ![c] = "EXECUTING"]
        /\ task' = [t \in Tasks |-> IF t \in new THEN "created" ELSE task[t]]
    BY DEF StartConvoy
  <1>2. \A t \in new : t \in Tasks /\ t[1] = c /\ task[t] = "none"
    BY NextTasksAreNew
  <1>3. NeverPaused'
    BY <1>0, <1>1 DEF RunInv, NeverPaused, TypeOK
  <1>4. TasksWereStarted'
    BY <1>0, <1>1, <1>2, TaskParts DEF RunInv, TasksWereStarted, TypeOK
  <1>5. PendingIsUntouched'
    BY <1>1 DEF RunInv, PendingIsUntouched
  <1>6. RunningHasTask'
    <2> SUFFICES ASSUME NEW d \in Convoys, NEW s \in StepIds, step[d][s] = "RUNNING"
                 PROVE  \E k \in 1..MaxLaunch : task'[<<d, s, k>>] \in Begun
      BY <1>1 DEF RunningHasTask
    <2>1. PICK k \in 1..MaxLaunch : task[<<d, s, k>>] \in Begun
      BY DEF RunInv, RunningHasTask
    <2>2. <<d, s, k>> \in Tasks /\ <<d, s, k>> \notin new
      BY <1>2, <2>1, TaskParts DEF Begun
    <2>3. QED
      BY <1>1, <2>1, <2>2
  <1>7. NoReadyStepLost'
    <2> SUFFICES ASSUME NEW d \in Convoys, status'[d] = "EXECUTING",
                        NEW s \in ReadySteps(plan[d], step[d])
                 PROVE  \E k \in 1..MaxLaunch : task'[<<d, s, k>>] = "created"
      BY <1>1 DEF NoReadyStepLost
    <2>0. s \in StepIds /\ ReadySteps(plan[d], step[d]) \subseteq StepIds
          /\ step[d][s] = "PENDING"
      BY <1>0, PlanSteps DEF ReadySteps
    <2>1. CASE \E k \in 1..MaxLaunch : task[<<d, s, k>>] = "created"
      <3>1. PICK k \in 1..MaxLaunch : task[<<d, s, k>>] = "created"
        BY <2>1
      <3>2. <<d, s, k>> \in Tasks
        BY <2>0, TaskParts
      <3>3. QED
        BY <1>1, <3>1, <3>2
    <2>2. CASE d = c /\ \A k \in 1..MaxLaunch : task[<<d, s, k>>] # "created"
      <3>1. \A k \in 1..MaxLaunch : task[<<d, s, k>>] = "none"
        <4> TAKE k \in 1..MaxLaunch
        <4>1. <<d, s, k>> \in Tasks
          BY <2>0, TaskParts
        <4>2. QED
          BY <2>0, <2>2, <4>1 DEF RunInv, PendingIsUntouched
      <3>2. <<d, s, 1>> \in new
        BY <1>0, <2>0, <2>2, <3>1, NextTasksCover
      <3>3. 1 \in 1..MaxLaunch
        BY ConvoyAssumption
      <3>4. QED
        BY <1>1, <1>2, <3>2, <3>3
    <2>3. CASE d # c
      <3>1. status[d] = "EXECUTING"
        BY <1>0, <1>1, <2>3 DEF TypeOK
      <3>2. \E k \in 1..MaxLaunch : task[<<d, s, k>>] = "created"
        BY <3>1 DEF RunInv, NoReadyStepLost
      <3>3. QED
        BY <2>1, <3>2
    <2>4. QED
      BY <2>1, <2>2, <2>3
  <1>8. QED
    BY <1>3, <1>4, <1>5, <1>6, <1>7 DEF RunInv

\* A task of another step, or one that has not begun, keeps its phase.
LEMMA OthersKeepTheirPhase ==
  ASSUME TypeOK, NEW t \in Tasks, TaskTurn(t), NEW u \in Tasks, u # t
  PROVE  task'[u] = task[u] \/ (task[u] = "none" /\ task'[u] = "created")
  BY TurnCases DEF TypeOK

LEMMA RunInvTurn ==
  ASSUME RunInv, OpsInv', NEW t \in Tasks, TaskTurn(t)
  PROVE  RunInv'
  <1>0. /\ TypeOK /\ TypeOK' /\ plan' = plan
        /\ t[1] \in Convoys /\ t[2] \in StepIds
    BY TurnCases, TaskParts DEF RunInv, OpsInv
  <1>a. {"RUNNING", "FAILED", "COMPLETED"} \subseteq StepStatus
    BY DEF StepStatus
  <1>b. /\ task[t] \in Live
        /\ task'[t] \in {"running", "queueing", "queued", "failed", "completed"}
    BY <1>0, TurnCases DEF TypeOK, Live, Begun
  <1>c. \A c \in Convoys : \/ status'[c] = status[c]
                           \/ status[c] = "EXECUTING" /\ status'[c] \in Terminal
    BY <1>0, <1>a, TurnCases, StatusTurn
  <1>d. \A c \in Convoys, s \in StepIds :
          step'[c][s] # step[c][s] => c = t[1] /\ s = t[2]
    BY <1>0, <1>a, TurnCases, StatusTurn
  <1>e. step'[t[1]][t[2]] # "PENDING"
    <2>1. CASE step'[t[1]][t[2]] = step[t[1]][t[2]] /\ task[t] # "created"
      BY <1>b, <2>1 DEF RunInv, PendingIsUntouched, Live
    <2>2. CASE \E v \in {"RUNNING", "FAILED", "COMPLETED"} :
                 UpdateStepStatus(t[1], t[2], v)
      BY <1>0, <1>a, <2>2, StatusTurn
    <2>3. QED
      BY <1>0, <2>1, <2>2, TurnCases
  <1>1. NeverPaused'
    BY <1>c DEF RunInv, NeverPaused, Terminal
  <1>2. TasksWereStarted'
    <2> SUFFICES ASSUME NEW u \in Tasks, task'[u] # "none"
                 PROVE  status'[u[1]] \in {"EXECUTING", "COMPLETED", "FAILED"}
      BY DEF TasksWereStarted
    <2>0. u[1] \in Convoys
      BY TaskParts
    <2>1. CASE task[u] # "none"
      BY <1>c, <2>0, <2>1 DEF RunInv, TasksWereStarted, Terminal
    <2>2. CASE task[u] = "none"
      BY <1>0, <2>2, LaunchesAreReady DEF OpsNext, Next
    <2>3. QED
      BY <2>1, <2>2
  <1>3. PendingIsUntouched'
    <2> SUFFICES ASSUME NEW u \in Tasks, step'[u[1]][u[2]] = "PENDING"
                 PROVE  task'[u] \in {"none", "created"}
      BY DEF PendingIsUntouched
    <2>0. u[1] \in Convoys /\ u[2] \in StepIds
      BY TaskParts
    <2>1. u # t /\ step[u[1]][u[2]] = "PENDING"
      BY <1>d, <1>e, <2>0
    <2>2. task[u] \in {"none", "created"}
      BY <2>1 DEF RunInv, PendingIsUntouched
    <2>3. QED
      BY <1>0, <2>1, <2>2, OthersKeepTheirPhase
  <1>4. RunningHasTask'
    <2> SUFFICES ASSUME NEW c \in Convoys, NEW s \in StepIds, step'[c][s] = "RUNNING"
                 PROVE  \E k \in 1..MaxLaunch : task'[<<c, s, k>>] \in Begun
      BY DEF RunningHasTask
    <2>1. CASE c = t[1] /\ s = t[2] /\ task'[t] \in Begun
      BY <2>1, TaskParts
    <2>2. CASE c = t[1] /\ s = t[2] /\ task'[t] \notin Begun
      <3>1. UpdateStepStatus(t[1], t[2], "FAILED") \/ UpdateStepStatus(t[1], t[2], "COMPLETED")
        BY <1>0, <2>2, TurnCases DEF TypeOK, Begun
      <3>2. step'[c][s] # "RUNNING"
        BY <1>0, <1>a, <2>2, <3>1, StatusTurn
      <3>3. QED
        BY <3>2
    <2>3. CASE ~(c = t[1] /\ s = t[2])
      <3>1. PICK k \in 1..MaxLaunch : task[<<c, s, k>>] \in Begun
        BY <1>d, <2>3 DEF RunInv, RunningHasTask
      <3>2. <<c, s, k>> \in Tasks /\ <<c, s, k>> # t
        BY <2>3, TaskParts
      <3>3. task'[<<c, s, k>>] = task[<<c, s, k>>]
        BY <1>0, <3>1, <3>2, OthersKeepTheirPhase DEF Begun
      <3>4. QED
        BY <3>1, <3>3
    <2>4. QED
      BY <2>1, <2>2, <2>3
  <1>5. NoReadyStepLost'
    <2> SUFFICES ASSUME NEW c \in Convoys, status'[c] = "EXECUTING",
                        NEW s \in ReadySteps(plan[c], step'[c])
                 PROVE  \E k \in 1..MaxLaunch : task'[<<c, s, k>>] = "created"
      BY <1>0 DEF NoReadyStepLost
    <2>0. /\ status[c] = "EXECUTING" /\ s \in StepIds /\ step'[c][s] = "PENDING"
          /\ ~(c = t[1] /\ s = t[2])
          /\ ReadySteps(plan[c], step'[c]) \subseteq StepIds
      BY <1>0, <1>c, <1>e, PlanSteps DEF ReadySteps, Terminal
    <2>1. CASE \E k \in 1..MaxLaunch : task[<<c, s, k>>] = "created"
      <3>1. PICK k \in 1..MaxLaunch : task[<<c, s, k>>] = "created"
        BY <2>1
      <3>2. <<c, s, k>> \in Tasks /\ <<c, s, k>> # t
        BY <2>0, TaskParts
      <3>3. QED
        BY <1>0, <3>1, <3>2, OthersKeepTheirPhase
    <2>2. CASE c # t[1] \/ step'[t[1]][t[2]] # "COMPLETED" \/ UNCHANGED step
      <3>1. s \in ReadySteps(plan[c], step[c])
        <4>1. CASE c # t[1] \/ UNCHANGED step
          <5>1. \A r \in StepIds : step'[c][r] = step[c][r]
            BY <1>d, <4>1
          <5>2. step'[c] = step[c]
            BY <1>0, <5>1 DEF TypeOK
          <5>3. QED
            BY <5>2
        <4>2. CASE c = t[1] /\ step'[t[1]][t[2]] # "COMPLETED"
          <5>1. \A r \in plan[c].steps : r # t[2] => step'[c][r] = step[c][r]
            BY <1>0, <1>d, <4>2, PlanSteps
          <5>2. step'[c][t[2]] # "PENDING" /\ step'[c][t[2]] # "COMPLETED"
            BY <1>e, <4>2
          <5>3. {r \in plan[c].steps : step'[c][r] = "COMPLETED"}
                  \subseteq {r \in plan[c].steps : step[c][r] = "COMPLETED"}
            BY <5>1, <5>2
          <5>4. CompletedLabels(plan[c], step'[c]) \subseteq CompletedLabels(plan[c], step[c])
            BY <5>3, LabelsGrow DEF CompletedLabels
          <5>5. QED
            BY <2>0, <5>1, <5>4, <4>2 DEF ReadySteps
        <4>3. QED
          BY <2>2, <4>1, <4>2
      <3>2. QED
        BY <2>0, <2>1, <3>1 DEF RunInv, NoReadyStepLost
    <2>3. CASE /\ c = t[1] /\ step' # step
               /\ UpdateStepStatus(t[1], t[2], "COMPLETED")
               /\ \A k \in 1..MaxLaunch : task[<<c, s, k>>] # "created"
      <3>1. PICK new \in SUBSET Tasks :
              /\ new = NextTasks(c, ReadySteps(plan[c], step'[c]))
              /\ \A u \in new : task[u] = "none"
              /\ task' = [u \in Tasks |-> IF u = t THEN "completed"
                                          ELSE IF u \in new THEN "created"
                                          ELSE task[u]]
        <4>1. step'[t[1]][t[2]] = "COMPLETED"
          BY <1>0, <1>a, <2>3, StatusTurn
        <4>2. ~UpdateStepStatus(t[1], t[2], "RUNNING") /\ ~UpdateStepStatus(t[1], t[2], "FAILED")
          BY <1>0, <1>a, <4>1, StatusTurn
        <4>3. QED
          BY <1>0, <2>3, <4>2, TurnCases
      <3>2. \A k \in 1..MaxLaunch : task[<<c, s, k>>] = "none"
        <4> TAKE k \in 1..MaxLaunch
        <4>1. <<c, s, k>> \in Tasks /\ step[c][s] = "PENDING"
          BY <1>d, <2>0, TaskParts
        <4>2. QED
          BY <2>3, <4>1 DEF RunInv, PendingIsUntouched
      <3>3. <<c, s, 1>> \in new
        BY <1>0, <2>0, <3>1, <3>2, NextTasksCover
      <3>4. 1 \in 1..MaxLaunch /\ <<c, s, 1>> # t
        BY <2>0, ConvoyAssumption
      <3>5. QED
        BY <3>1, <3>3, <3>4
    <2>4. QED
      <3>1. UNCHANGED step \/ UpdateStepStatus(t[1], t[2], "COMPLETED")
            \/ step'[t[1]][t[2]] # "COMPLETED"
        BY <1>0, <1>a, TurnCases, StatusTurn
      <3>2. QED
        BY <2>1, <2>2, <2>3, <3>1
  <1>6. QED
    BY <1>1, <1>2, <1>3, <1>4, <1>5 DEF RunInv

LEMMA RunInvStep == RunInv /\ [Next]_vars => RunInv'
  <1> SUFFICES ASSUME RunInv, [Next]_vars PROVE RunInv'
    OBVIOUS
  <1>0. TypeOK /\ OpsInv'
    BY OpsInvStep DEF RunInv, OpsInv, OpsNext
  <1>1. ASSUME NEW c \in Convoys, CreateConvoy(c) PROVE RunInv'
    <2>1. /\ UNCHANGED <<plan, step, task>> /\ status[c] = "absent"
          /\ status' = [status EXCEPT ![c] = "DRAFT"]
      BY <1>1 DEF CreateConvoy
    <2>2. NeverPaused' /\ TasksWereStarted'
      BY <1>0, <2>1, TaskParts DEF RunInv, NeverPaused, TasksWereStarted, TypeOK
    <2>3. PendingIsUntouched' /\ RunningHasTask' /\ NoReadyStepLost'
      BY <1>0, <2>1 DEF RunInv, PendingIsUntouched, RunningHasTask,
                        NoReadyStepLost, TypeOK
    <2>4. QED
      BY <1>0, <2>2, <2>3 DEF RunInv
  <1>2. ASSUME NEW c \in Convoys, StartConvoy(c) PROVE RunInv'
    BY <1>0, <1>2, RunInvStart
  <1>3. ASSUME NEW t \in Tasks, TaskTurn(t) PROVE RunInv'
    BY <1>0, <1>3, RunInvTurn
  <1>4. CASE UNCHANGED vars
    BY <1>0, <1>4 DEF vars, RunInv, NeverPaused, TasksWereStarted,
                      PendingIsUntouched, RunningHasTask, NoReadyStepLost
  <1>5. QED
    BY <1>1, <1>2, <1>3, <1>4 DEF Next

LEMMA RunInvariant == Spec => []RunInv
  BY RunInvInit, RunInvStep, PTL DEF Spec

\* No completion forgets to launch a step it made ready.
THEOREM NoReadyStepIsLost == Spec => []NoReadyStepLost
  <1>1. RunInv => NoReadyStepLost
    BY DEF RunInv
  <1>2. QED
    BY <1>1, RunInvariant, PTL

\* As long as nothing pauses convoys, a RUNNING step has a task at work.
THEOREM RunningStepsHaveTasks == Spec => []RunningHasTask
  <1>1. RunInv => RunningHasTask
    BY DEF RunInv
  <1>2. QED
    BY <1>1, RunInvariant, PTL

\* Verdicts are final, although tasks launched twice still write their steps.
THEOREM VerdictsAreFinal == Spec => TerminalIsFinal
  <1>1. RunInv /\ [Next]_vars =>
          [\A c \in Convoys : status[c] \in Terminal => status'[c] = status[c]]_vars
    <2> SUFFICES ASSUME RunInv, Next, NEW c \in Convoys, status[c] \in Terminal
                 PROVE  status'[c] = status[c]
      OBVIOUS
    <2>0. TypeOK
      BY DEF RunInv, OpsInv
    <2>1. ASSUME NEW d \in Convoys, CreateConvoy(d) \/ StartConvoy(d)
          PROVE  status'[c] = status[c]
      BY <2>0, <2>1 DEF CreateConvoy, StartConvoy, Terminal, TypeOK
    <2>2. ASSUME NEW t \in Tasks, TaskTurn(t) PROVE status'[c] = status[c]
      <3>1. {"RUNNING", "FAILED", "COMPLETED"} \subseteq StepStatus
        BY DEF StepStatus
      <3>2. QED
        BY <2>0, <2>2, <3>1, TurnCases, StatusTurn DEF Terminal
    <2>3. QED
      BY <2>1, <2>2 DEF Next
  <1>2. QED
    BY <1>1, RunInvariant, PTL DEF Spec, TerminalIsFinal

-----------------------------------------------------------------------------
(* The executor implements ConvoyContract.                                 *)

\* What changes the set of started and of succeeded steps.
LEMMA HistoryUnchanged ==
  ASSUME TypeOK, TypeOK', NEW c \in Convoys,
         \A t \in Tasks : t[1] = c =>
           \/ task'[t] = task[t]
           \/ /\ task[t] \in {"none", "created"}
              /\ task'[t] \in {"none", "created"}
           \/ /\ task[t] \notin {"none", "created", "completed"}
              /\ task'[t] \notin {"none", "created", "completed"}
  PROVE  Started(c)' = Started(c) /\ Succeeded(c)' = Succeeded(c)
  <1>1. ASSUME NEW s \in StepIds, NEW k \in 1..MaxLaunch
        PROVE  /\ task'[<<c, s, k>>] \notin {"none", "created"}
                    <=> task[<<c, s, k>>] \notin {"none", "created"}
               /\ task'[<<c, s, k>>] = "completed" <=> task[<<c, s, k>>] = "completed"
    <2>1. <<c, s, k>> \in Tasks /\ <<c, s, k>>[1] = c
      BY TaskParts
    <2>2. QED
      BY <2>1
  <1>2. QED
    BY <1>1 DEF Started, Succeeded

LEMMA HistoryOfOne ==
  ASSUME TypeOK, TypeOK', NEW t \in Tasks,
         \A u \in Tasks : u # t =>
           task'[u] = task[u] \/ (task[u] = "none" /\ task'[u] = "created")
  PROVE  /\ \A c \in Convoys : c # t[1] =>
              Started(c)' = Started(c) /\ Succeeded(c)' = Succeeded(c)
         /\ (task[t] \notin {"none", "created"} /\ task'[t] \notin {"none", "created"})
              => Started(t[1])' = Started(t[1])
         /\ task'[t] \notin {"none", "created"}
              => Started(t[1])' = Started(t[1]) \cup {t[2]}
         /\ (task[t] # "completed" /\ task'[t] # "completed")
              => Succeeded(t[1])' = Succeeded(t[1])
         /\ task'[t] = "completed" => Succeeded(t[1])' = Succeeded(t[1]) \cup {t[2]}
  <1>1. ASSUME NEW c \in Convoys, c # t[1]
        PROVE  Started(c)' = Started(c) /\ Succeeded(c)' = Succeeded(c)
    BY <1>1, HistoryUnchanged
  <1> DEFINE c == t[1]
  <1>2. /\ c \in Convoys /\ t[2] \in StepIds /\ t[3] \in 1..MaxLaunch
        /\ t = <<c, t[2], t[3]>>
    BY TaskParts
  <1>3. ASSUME NEW s \in StepIds, NEW k \in 1..MaxLaunch
        PROVE  \/ <<c, s, k>> = t /\ s = t[2]
               \/ task'[<<c, s, k>>] = task[<<c, s, k>>]
               \/ task[<<c, s, k>>] = "none" /\ task'[<<c, s, k>>] = "created"
    <2>1. <<c, s, k>> \in Tasks
      BY <1>2, TaskParts
    <2>2. QED
      BY <2>1
  <1> HIDE DEF c
  <1>4. (task[t] \notin {"none", "created"} /\ task'[t] \notin {"none", "created"})
          => Started(c)' = Started(c)
    BY <1>2, <1>3 DEF Started
  <1>5. task'[t] \notin {"none", "created"} => Started(c)' = Started(c) \cup {t[2]}
    BY <1>2, <1>3 DEF Started
  <1>6. (task[t] # "completed" /\ task'[t] # "completed")
          => Succeeded(c)' = Succeeded(c)
    BY <1>2, <1>3 DEF Succeeded
  <1>7. task'[t] = "completed" => Succeeded(c)' = Succeeded(c) \cup {t[2]}
    BY <1>2, <1>3 DEF Succeeded
  <1>8. QED
    BY <1>1, <1>4, <1>5, <1>6, <1>7 DEF c

LEMMA PhaseValues ==
  /\ PhaseOf("absent") = "absent" /\ PhaseOf("DRAFT") = "draft"
  /\ PhaseOf("EXECUTING") = "active"
  /\ PhaseOf("COMPLETED") = "completed" /\ PhaseOf("FAILED") = "failed"
  BY DEF PhaseOf

LEMMA ContractInit == Init => Contract!Init
  <1> SUFFICES ASSUME Init PROVE Contract!Init
    OBVIOUS
  <1>1. \A c \in Convoys : Started(c) = {} /\ Succeeded(c) = {}
    BY TaskParts DEF Init, Started, Succeeded
  <1>2. QED
    BY <1>1 DEF Init, Contract!Init, PhaseOf

\* A first turn starts its step, or repeats a step already started.
LEMMA ContractBegin ==
  ASSUME RunInv, RunInv', NEW t \in Tasks, BeginStep(t)
  PROVE  Contract!Next \/ UNCHANGED Contract!vars
  <1> DEFINE c == t[1]
             s == t[2]
  <1>0. /\ TypeOK /\ TypeOK' /\ c \in Convoys /\ s \in StepIds /\ "RUNNING" \in StepStatus
    BY TaskParts DEF RunInv, OpsInv, StepStatus
  <1>1. /\ UpdateStepStatus(c, s, "RUNNING") /\ plan' = plan
        /\ task[t] = "created" /\ task' = [task EXCEPT ![t] = "running"]
    BY DEF BeginStep
  <1>2. /\ s \in plan[c].steps
        /\ plan[c].depends_on[s] \subseteq LabelsOf(plan[c], Succeeded(c))
    BY <1>1 DEF RunInv, OpsInv, DependenciesHonoured
  <1>3. status' = status
    <2>1. step'[c][s] = "RUNNING" /\ status'[c] = CheckCompletion(c, step'[c])
          /\ \A d \in Convoys : d # c => status'[d] = status[d]
      BY <1>0, <1>1, UpdateStepStatusType, StatusTurn
    <2>2. CheckCompletion(c, step'[c]) = status[c]
      BY <1>2, <2>1 DEF CheckCompletion, Settled
    <2>3. QED
      BY <1>0, <2>1, <2>2 DEF TypeOK
  <1>4. /\ \A d \in Convoys : d # c => Started(d)' = Started(d) /\ Succeeded(d)' = Succeeded(d)
        /\ Started(c)' = Started(c) \cup {s} /\ Succeeded(c)' = Succeeded(c)
    BY <1>0, <1>1, HistoryOfOne DEF TypeOK
  <1>5. CASE s \in Started(c)
    <2>1. \A d \in Convoys : Started(d)' = Started(d) /\ Succeeded(d)' = Succeeded(d)
      BY <1>4, <1>5
    <2>2. QED
      BY <1>1, <1>3, <2>1 DEF Contract!vars
  <1>6. CASE s \notin Started(c)
    <2>1. status[c] = "EXECUTING"
      <3>1. status[c] \in {"EXECUTING", "COMPLETED", "FAILED"}
        BY <1>0, <1>1 DEF RunInv, TasksWereStarted
      <3>2. Succeeded(c) \subseteq Started(c)
        BY DEF Succeeded, Started
      <3>3. QED
        BY <1>0, <1>2, <1>6, <3>1, <3>2 DEF RunInv, OpsInv, TerminalIsEarned
    <2>2. plan[c].depends_on[s] \subseteq Contract!Provided(c)
      BY <1>0, <1>2 DEF Contract!Provided, LabelsOf
    <2>3. Contract!StartStep(c, s)
      <3> HIDE DEF c, s
      <3>1. [d \in Convoys |-> Started(d)]'
              = [[d \in Convoys |-> Started(d)] EXCEPT ![c] = Started(c) \cup {s}]
        BY <1>0, <1>4
      <3>2. UNCHANGED <<[d \in Convoys |-> PhaseOf(status[d])],
                        [d \in Convoys |-> Succeeded(d)]>>
        BY <1>3, <1>4
      <3>3. QED
        BY <1>0, <1>1, <1>2, <1>6, <2>1, <2>2, <3>1, <3>2, PhaseValues
        DEF Contract!StartStep
    <2>4. QED
      BY <1>0, <2>3 DEF Contract!Next
  <1>7. QED
    BY <1>5, <1>6

\* The verdict of a completion check is one the contract allows.
LEMMA ContractVerdict ==
  ASSUME RunInv, RunInv', plan' = plan, NEW c \in Convoys, NEW done,
         \A d \in Convoys : d # c => status'[d] = status[d],
         \/ status'[c] = status[c]
         \/ status[c] = "EXECUTING" /\ status'[c] \in Terminal,
         Started(c)' = Started(c), Succeeded(c)' = done
  PROVE  Contract!Verdict(c, done)
  <1>1. TerminalIsEarned'
    BY DEF RunInv, OpsInv
  <1>2. CASE status'[c] = status[c]
    BY <1>2 DEF Contract!Verdict
  <1>3. CASE status[c] = "EXECUTING" /\ status'[c] = "COMPLETED"
    <2>1. plan[c].steps \subseteq done
      BY <1>1, <1>3 DEF TerminalIsEarned
    <2>2. [d \in Convoys |-> PhaseOf(status[d])]'
            = [[d \in Convoys |-> PhaseOf(status[d])] EXCEPT ![c] = "completed"]
      BY <1>3, PhaseValues
    <2>3. QED
      BY <1>3, <2>1, <2>2, PhaseValues DEF Contract!Verdict
  <1>4. CASE status[c] = "EXECUTING" /\ status'[c] = "FAILED"
    <2>1. plan[c].steps \subseteq Started(c)
      BY <1>1, <1>4 DEF TerminalIsEarned
    <2>2. [d \in Convoys |-> PhaseOf(status[d])]'
            = [[d \in Convoys |-> PhaseOf(status[d])] EXCEPT ![c] = "failed"]
      BY <1>4, PhaseValues
    <2>3. QED
      BY <1>4, <2>1, <2>2, PhaseValues DEF Contract!Verdict
  <1>5. QED
    BY <1>2, <1>3, <1>4 DEF Terminal

\* A last turn is a success or a failure of its step.
LEMMA ContractFinish ==
  ASSUME RunInv, RunInv', NEW t \in Tasks, CompleteStep(t) \/ FailStep(t)
  PROVE  Contract!Next
  <1> DEFINE c == t[1]
             s == t[2]
  <1>0. /\ TypeOK /\ TypeOK' /\ c \in Convoys /\ s \in StepIds
        /\ {"FAILED", "COMPLETED"} \subseteq StepStatus /\ TaskTurn(t)
    BY TaskParts DEF RunInv, OpsInv, StepStatus, TaskTurn
  <1>1. /\ task[t] \in Begun /\ plan' = plan
        /\ task'[t] = IF FailStep(t) THEN "failed" ELSE "completed"
        /\ \/ UpdateStepStatus(c, s, "FAILED")
           \/ UpdateStepStatus(c, s, "COMPLETED")
    <2>1. CASE FailStep(t)
      BY <1>0, <2>1 DEF FailStep, TypeOK
    <2>2. CASE CompleteStep(t) /\ ~FailStep(t)
      <3>1. PICK new \in SUBSET Tasks : Finish(t, new)
        BY <1>0, <2>2, FinishTasks
      <3>2. QED
        BY <2>2, <3>1 DEF Finish, Begun
    <2>3. QED
      BY <2>1, <2>2
  <1>2. /\ \A d \in Convoys : d # c => status'[d] = status[d]
        /\ \/ status'[c] = status[c]
           \/ status[c] = "EXECUTING" /\ status'[c] \in Terminal
    BY <1>0, <1>1, UpdateStepStatusType, StatusTurn
  <1>3. /\ \A d \in Convoys : d # c => Started(d)' = Started(d) /\ Succeeded(d)' = Succeeded(d)
        /\ Started(c)' = Started(c)
        /\ Succeeded(c)' = IF FailStep(t) THEN Succeeded(c) ELSE Succeeded(c) \cup {s}
    BY <1>0, <1>1, OthersKeepTheirPhase, HistoryOfOne DEF Begun
  <1>4. s \in Started(c)
    <2>1. task[<<c, s, t[3]>>] \notin {"none", "created"} /\ t[3] \in 1..MaxLaunch
      BY <1>1, TaskParts DEF Begun
    <2>2. QED
      BY <1>0, <2>1 DEF Started
  <1>5. CASE FailStep(t)
    <2>1. Contract!Verdict(c, Succeeded(c))
      BY <1>0, <1>1, <1>2, <1>3, <1>5, ContractVerdict
    <2>2. Contract!StepFails(c, s)
      BY <1>0, <1>1, <1>3, <1>4, <1>5, <2>1 DEF Contract!StepFails
    <2>3. QED
      BY <1>0, <2>2 DEF Contract!Next
  <1>6. CASE ~FailStep(t)
    <2>1. Contract!Verdict(c, Succeeded(c) \cup {s})
      BY <1>0, <1>1, <1>2, <1>3, <1>6, ContractVerdict
    <2>2. Contract!StepSucceeds(c, s)
      BY <1>0, <1>1, <1>3, <1>4, <1>6, <2>1 DEF Contract!StepSucceeds
    <2>3. QED
      BY <1>0, <2>2 DEF Contract!Next
  <1>7. QED
    BY <1>5, <1>6

LEMMA ContractStep ==
  RunInv /\ RunInv' /\ [Next]_vars => [Contract!Next]_(Contract!vars)
  <1> SUFFICES ASSUME RunInv, RunInv', [Next]_vars
               PROVE  Contract!Next \/ UNCHANGED Contract!vars
    OBVIOUS
  <1>0. TypeOK /\ TypeOK'
    BY DEF RunInv, OpsInv
  <1>1. ASSUME NEW c \in Convoys, CreateConvoy(c)
        PROVE  Contract!Next
    <2>1. /\ status[c] = "absent" /\ UNCHANGED <<plan, task>>
          /\ status' = [status EXCEPT ![c] = "DRAFT"]
      BY <1>1 DEF CreateConvoy
    <2>2. \A d \in Convoys : Started(d)' = Started(d) /\ Succeeded(d)' = Succeeded(d)
      BY <2>1 DEF Started, Succeeded
    <2>3. [d \in Convoys |-> PhaseOf(status[d])]'
            = [[d \in Convoys |-> PhaseOf(status[d])] EXCEPT ![c] = "draft"]
      BY <1>0, <2>1, PhaseValues DEF TypeOK
    <2>4. Contract!Create(c)
      BY <2>1, <2>2, <2>3, PhaseValues DEF Contract!Create
    <2>5. QED
      BY <2>4 DEF Contract!Next
  <1>2. ASSUME NEW c \in Convoys, StartConvoy(c)
        PROVE  Contract!Next
    <2>1. /\ status[c] = "DRAFT" /\ plan' = plan
          /\ status' = [status EXCEPT ![c] = "EXECUTING"]
      BY <1>2 DEF StartConvoy, RunInv, NeverPaused
    <2>2. \A t \in Tasks : \/ task'[t] = task[t]
                           \/ task[t] = "none" /\ task'[t] = "created"
      BY <1>2, NextTasksAreNew DEF StartConvoy
    <2>3. \A d \in Convoys : Started(d)' = Started(d) /\ Succeeded(d)' = Succeeded(d)
      BY <1>0, <2>2, HistoryUnchanged
    <2>4. [d \in Convoys |-> PhaseOf(status[d])]'
            = [[d \in Convoys |-> PhaseOf(status[d])] EXCEPT ![c] = "active"]
      BY <1>0, <2>1, PhaseValues DEF TypeOK
    <2>5. Contract!Activate(c)
      BY <2>1, <2>3, <2>4, PhaseValues DEF Contract!Activate
    <2>6. QED
      BY <2>5 DEF Contract!Next
  <1>3. ASSUME NEW t \in Tasks, RequireApproval(t) \/ CommitApproval(t)
        PROVE  UNCHANGED Contract!vars
    <2>1. /\ UNCHANGED <<status, plan>> /\ task[t] \in {"running", "queueing"}
          /\ task' = [task EXCEPT ![t] = "queueing"] \/ task' = [task EXCEPT ![t] = "queued"]
      BY <1>3 DEF RequireApproval, CommitApproval
    <2>2. \A d \in Convoys : Started(d)' = Started(d) /\ Succeeded(d)' = Succeeded(d)
      BY <1>0, <2>1, HistoryUnchanged DEF TypeOK
    <2>3. QED
      BY <2>1, <2>2 DEF Contract!vars
  <1>4. ASSUME NEW t \in Tasks, BeginStep(t)
        PROVE  Contract!Next \/ UNCHANGED Contract!vars
    BY <1>4, ContractBegin
  <1>5. ASSUME NEW t \in Tasks, CompleteStep(t) \/ FailStep(t)
        PROVE  Contract!Next
    BY <1>5, ContractFinish
  <1>6. CASE UNCHANGED vars
    BY <1>6 DEF vars, Contract!vars, Started, Succeeded
  <1>7. QED
    BY <1>1, <1>2, <1>3, <1>4, <1>5, <1>6 DEF Next, TaskTurn

\* The executor implements ConvoyContract: whatever tasks it launches twice,
\* a step first starts after its dependencies, in a convoy still open, and the
\* verdict is one the contract allows.
THEOREM ContractIsKept == Spec => ContractKept
  BY ContractInit, ContractStep, RunInvariant, PTL DEF Spec, ContractKept, Contract!Spec

-----------------------------------------------------------------------------
(* What the contract is worth: it alone makes the promises below.          *)

Phase(c) == PhaseOf(status[c])

\* Every step begun is of the plan and comes after what it depends on.
StartedInOrder ==
  \A c \in Convoys : \A s \in Started(c) :
    /\ s \in plan[c].steps
    /\ plan[c].depends_on[s] \subseteq LabelsOf(plan[c], Succeeded(c))

Promised ==
  /\ \A c \in Convoys :
       /\ Phase(c) = "completed" => plan[c].steps \subseteq Succeeded(c)
       /\ Phase(c) = "failed" => plan[c].steps \subseteq Started(c)
  /\ StartedInOrder

\* What a step of the contract can do to convoy c.
LEMMA ContractConvoyStep ==
  ASSUME [Contract!Next]_(Contract!vars), NEW c \in Convoys
  PROVE  /\ plan' = plan
         /\ Started(c) \subseteq Started(c)' /\ Succeeded(c) \subseteq Succeeded(c)'
         /\ \A s \in Started(c)' \ Started(c) :
              /\ s \in plan[c].steps
              /\ plan[c].depends_on[s] \subseteq LabelsOf(plan[c], Succeeded(c))
         /\ \/ Phase(c)' = Phase(c)
            \/ Phase(c) \in {"absent", "draft"} /\ Phase(c)' \in {"draft", "active"}
            \/ /\ Phase(c) = "active" /\ Phase(c)' = "completed"
               /\ plan[c].steps \subseteq Succeeded(c)'
            \/ /\ Phase(c) = "active" /\ Phase(c)' = "failed"
               /\ plan[c].steps \subseteq Started(c)'
  <1> DEFINE Ph == [d \in Convoys |-> PhaseOf(status[d])]
             Sd == [d \in Convoys |-> Started(d)]
             Su == [d \in Convoys |-> Succeeded(d)]
  <1>0. /\ Ph[c] = Phase(c) /\ Ph'[c] = Phase(c)'
        /\ Sd[c] = Started(c) /\ Sd'[c] = Started(c)'
        /\ Su[c] = Succeeded(c) /\ Su'[c] = Succeeded(c)'
    BY DEF Phase
  <1> HIDE DEF Ph, Sd, Su
  <1> DEFINE Goal == /\ plan' = plan
                     /\ Sd[c] \subseteq Sd'[c] /\ Su[c] \subseteq Su'[c]
                     /\ \A s \in Sd'[c] \ Sd[c] :
                          /\ s \in plan[c].steps
                          /\ plan[c].depends_on[s] \subseteq LabelsOf(plan[c], Su[c])
                     /\ \/ Ph'[c] = Ph[c]
                        \/ Ph[c] \in {"absent", "draft"} /\ Ph'[c] \in {"draft", "active"}
                        \/ /\ Ph[c] = "active" /\ Ph'[c] = "completed"
                           /\ plan[c].steps \subseteq Su'[c]
                        \/ /\ Ph[c] = "active" /\ Ph'[c] = "failed"
                           /\ plan[c].steps \subseteq Sd'[c]
  <1>1. ASSUME UNCHANGED Contract!vars PROVE Goal
    <2>1. UNCHANGED <<Ph, plan, Sd, Su>>
      BY <1>1 DEF Contract!vars, Ph, Sd, Su
    <2>2. QED
      BY <2>1
  <1>2. ASSUME NEW d \in Convoys, Contract!Create(d) \/ Contract!Activate(d)
        PROVE  Goal
    <2>1. /\ UNCHANGED <<plan, Sd, Su>>
          /\ \/ Ph[d] = "absent" /\ Ph' = [Ph EXCEPT ![d] = "draft"]
             \/ Ph[d] = "draft" /\ Ph' = [Ph EXCEPT ![d] = "active"]
      BY <1>2 DEF Contract!Create, Contract!Activate, Ph, Sd, Su
    <2>2. DOMAIN Ph = Convoys
      BY DEF Ph
    <2>3. QED
      BY <2>1, <2>2
  <1>3. ASSUME NEW d \in Convoys, NEW s \in StepIds, Contract!StartStep(d, s)
        PROVE  Goal
    <2>1. /\ UNCHANGED <<Ph, plan, Su>> /\ Sd' = [Sd EXCEPT ![d] = @ \cup {s}]
          /\ s \in plan[d].steps
          /\ plan[d].depends_on[s] \subseteq LabelsOf(plan[d], Su[d])
      BY <1>3 DEF Contract!StartStep, Contract!Provided, LabelsOf, Ph, Sd, Su
    <2>2. DOMAIN Sd = Convoys
      BY DEF Sd
    <2>3. QED
      BY <2>1, <2>2
  <1>4. ASSUME NEW d \in Convoys, NEW s \in StepIds,
               Contract!StepSucceeds(d, s) \/ Contract!StepFails(d, s)
        PROVE  Goal
    <2>1. /\ UNCHANGED <<plan, Sd>>
          /\ Su' = [Su EXCEPT ![d] = @ \cup {s}] \/ Su' = Su
          /\ \/ Ph' = Ph
             \/ /\ Ph[d] = "active" /\ plan[d].steps \subseteq Su'[d]
                /\ Ph' = [Ph EXCEPT ![d] = "completed"]
             \/ /\ Ph[d] = "active" /\ plan[d].steps \subseteq Sd[d]
                /\ Ph' = [Ph EXCEPT ![d] = "failed"]
      <3>1. CASE Contract!StepSucceeds(d, s)
        <4>1. Su' = [Su EXCEPT ![d] = @ \cup {s}] /\ UNCHANGED <<plan, Sd>>
          BY <3>1 DEF Contract!StepSucceeds, Ph, Sd, Su
        <4>2. Su'[d] = Su[d] \cup {s}
          BY <4>1 DEF Su
        <4>3. QED
          BY <3>1, <4>1, <4>2 DEF Contract!StepSucceeds, Contract!Verdict, Ph, Sd, Su
      <3>2. CASE Contract!StepFails(d, s)
        BY <3>2 DEF Contract!StepFails, Contract!Verdict, Ph, Sd, Su
      <3>3. QED
        BY <1>4, <3>1, <3>2
    <2>2. DOMAIN Ph = Convoys /\ DOMAIN Su = Convoys
      BY DEF Ph, Su
    <2>3. QED
      BY <2>1, <2>2
  <1>5. Goal
    <2> HIDE DEF Goal
    <2>1. QED
      BY <1>1, <1>2, <1>3, <1>4 DEF Contract!Next
  <1>6. QED
    BY <1>0, <1>5

LEMMA PromisedInit == Contract!Init => Promised
  <1> SUFFICES ASSUME Contract!Init, NEW c \in Convoys
               PROVE  Phase(c) = "absent" /\ Started(c) = {}
    BY DEF Promised, StartedInOrder
  <1> DEFINE Ph == [d \in Convoys |-> PhaseOf(status[d])]
             Sd == [d \in Convoys |-> Started(d)]
  <1>1. Ph = [d \in Convoys |-> "absent"] /\ Sd = [d \in Convoys |-> {}]
    BY DEF Contract!Init
  <1>2. Ph[c] = Phase(c) /\ Sd[c] = Started(c)
    BY DEF Phase
  <1>3. QED
    BY <1>1, <1>2

LEMMA PromisedStep ==
  ASSUME Promised, [Contract!Next]_(Contract!vars)
  PROVE  Promised'
  <1>1. ASSUME NEW c \in Convoys
        PROVE  /\ Phase(c)' = "completed" => plan'[c].steps \subseteq Succeeded(c)'
               /\ Phase(c)' = "failed" => plan'[c].steps \subseteq Started(c)'
    BY ContractConvoyStep DEF Promised
  <1>2. ASSUME NEW c \in Convoys, NEW s \in Started(c)'
        PROVE  /\ s \in plan'[c].steps
               /\ plan'[c].depends_on[s] \subseteq LabelsOf(plan'[c], Succeeded(c)')
    <2>1. /\ s \in plan[c].steps
          /\ plan[c].depends_on[s] \subseteq LabelsOf(plan[c], Succeeded(c))
      BY <1>2, ContractConvoyStep DEF Promised, StartedInOrder
    <2>2. plan' = plan /\ Succeeded(c) \subseteq Succeeded(c)'
      BY ContractConvoyStep
    <2>3. QED
      BY <2>1, <2>2 DEF LabelsOf
  <1>3. QED
    BY <1>1, <1>2 DEF Promised, StartedInOrder

\* An executor that keeps the contract, however it is built and scheduled,
\* starts steps in order, earns its verdicts and does not change them.
THEOREM ConvoyContractSuffices ==
  ContractKept /\ []TypeOK => TerminalIsFinal /\ []TerminalIsEarned /\ []StartedInOrder
  <1>1. Promised /\ [Contract!Next]_(Contract!vars) => Promised'
    BY PromisedStep
  <1>2. TypeOK /\ Promised => TerminalIsEarned /\ StartedInOrder
    BY DEF Promised, TerminalIsEarned, Phase, PhaseOf
  <1>3. TypeOK /\ TypeOK' /\ [Contract!Next]_(Contract!vars) =>
          [\A c \in Convoys : status[c] \in Terminal => status'[c] = status[c]]_vars
    <2>1. ASSUME TypeOK, TypeOK', [Contract!Next]_(Contract!vars), NEW c \in Convoys,
                 status[c] \in Terminal
          PROVE  status'[c] = status[c]
      <3>1. Phase(c)' = Phase(c)
        BY <2>1, ContractConvoyStep DEF Phase, PhaseOf, Terminal
      <3>2. status[c] \in ConvoyStatus /\ status'[c] \in ConvoyStatus
        BY <2>1 DEF TypeOK
      <3>3. QED
        BY <2>1, <3>1, <3>2 DEF Phase, PhaseOf, Terminal, ConvoyStatus
    <2>2. QED
      BY <2>1
  <1>4. QED
    BY <1>1, <1>2, <1>3, PromisedInit, PTL
    DEF ContractKept, Contract!Spec, TerminalIsFinal

-----------------------------------------------------------------------------
(* The event loop.                                                         *)

\* The ready queue loses no callback and holds none twice: a task is in it at
\* most once, only to begin or to go on, and from its creation to its first turn.
ReadyOnce ==
  /\ loop \in Seq(Tasks)
  /\ \A i, j \in DOMAIN loop : loop[i] = loop[j] => i = j
  /\ \A i \in DOMAIN loop : task[loop[i]] \in {"created"} \cup Begun
  /\ \A t \in Tasks : task[t] = "created" => \E i \in DOMAIN loop : loop[i] = t

LoopInv == TypeOK /\ ReadyOnce

\* Each enumeration of a finite set has every element, once.
LEMMA EnumerationOf ==
  ASSUME NEW S, IsFiniteSet(S), NEW q \in SetToSeqs(S)
  PROVE  /\ q \in Seq(S)
         /\ \A i, j \in DOMAIN q : q[i] = q[j] => i = j
         /\ \A x \in S : \E i \in DOMAIN q : q[i] = x
  <1> DEFINE D == 1..Cardinality(S)
  <1>1. Cardinality(S) \in Nat
    BY FS_CardinalityType
  <1>2. IsFiniteSet(D) /\ Cardinality(D) = Cardinality(S)
    BY <1>1, FS_Interval
  <1>3. q \in [D -> S] /\ \A i, j \in D : i # j => q[i] # q[j]
    BY DEF SetToSeqs
  <1>4. q \in Injection(D, S)
    BY <1>3 DEF Injection, IsInjective
  <1>5. q \in Surjection(D, S)
    BY <1>2, <1>4, FS_Injection
  <1>6. q \in Seq(S)
    BY <1>1, <1>3
  <1>7. QED
    BY <1>3, <1>5, <1>6 DEF Surjection

\* In a turn the task that has it moves on, no other task is disturbed, and
\* the only new ones are created.
LEMMA TurnEffect ==
  ASSUME TypeOK, NEW t \in Tasks, TaskTurn(t)
  PROVE  /\ task[t] \in {"created"} \cup Begun
         /\ task'[t] \in Begun \cup Over
         /\ \A u \in Tasks : u # t => \/ task'[u] = task[u]
                                      \/ task[u] = "none" /\ task'[u] = "created"
  <1>1. CASE BeginStep(t) \/ RequireApproval(t) \/ CommitApproval(t) \/ FailStep(t)
    <2>1. /\ task[t] \in {"created"} \cup Begun
          /\ \E v \in Begun \cup Over : task' = [task EXCEPT ![t] = v]
      BY <1>1 DEF BeginStep, RequireApproval, CommitApproval, FailStep, Begun, Over
    <2>2. PICK v \in Begun \cup Over : task' = [task EXCEPT ![t] = v]
      BY <2>1
    <2>3. task'[t] = v /\ \A u \in Tasks : u # t => task'[u] = task[u]
      BY <2>2 DEF TypeOK
    <2>4. QED
      BY <2>1, <2>2, <2>3
  <1>2. CASE CompleteStep(t)
    <2>1. PICK new \in SUBSET Tasks : (\A u \in new : task[u] = "none") /\ Finish(t, new)
      BY <1>2, FinishTasks
    <2>2. /\ task[t] \in {"running", "queued"}
          /\ task' = [u \in Tasks |-> IF u = t THEN "completed"
                                      ELSE IF u \in new THEN "created"
                                      ELSE task[u]]
      BY <2>1 DEF Finish
    <2>3. /\ task'[t] = "completed"
          /\ \A u \in Tasks : u # t =>
               task'[u] = IF u \in new THEN "created" ELSE task[u]
      BY <2>2
    <2>4. "completed" \in Over /\ {"running", "queued"} \subseteq Begun
      BY DEF Begun, Over
    <2>5. QED
      BY <2>1, <2>2, <2>3, <2>4
  <1>3. QED
    BY <1>1, <1>2 DEF TaskTurn

LEMMA LoopInvInit == LoopInit => LoopInv
  <1> SUFFICES ASSUME LoopInit PROVE LoopInv
    OBVIOUS
  <1>1. Init /\ loop = <<>>
    BY DEF LoopInit
  <1>2. TypeOK
    BY <1>1, TypeInit
  <1>3. ReadyOnce
    BY <1>1 DEF ReadyOnce, Init
  <1>4. QED
    BY <1>2, <1>3 DEF LoopInv

\* A step of the loop is a step of the executor: what is popped is a task.
LEMMA LoopStep ==
  ASSUME LoopInv, [LoopNext]_loopVars
  PROVE  [Next]_vars
  <1>1. CASE RunCallback
    <2>1. Head(loop) \in Tasks
      BY <1>1 DEF LoopInv, ReadyOnce, RunCallback
    <2>2. PICK t \in Tasks : t = Head(loop)
      BY <2>1
    <2>3. TaskTurn(t)
      BY <1>1, <2>2 DEF RunCallback, TaskTurn
    <2>4. QED
      BY <2>3 DEF Next
  <1>2. CASE ~RunCallback
    BY <1>2 DEF LoopNext, LoopStartConvoy, WakeUp, Next, TaskTurn, loopVars
  <1>3. QED
    BY <1>1, <1>2

\* Two queues without repetition and without a common element, joined.
LEMMA JoinedQueues ==
  ASSUME NEW rest \in Seq(Tasks), NEW new \in Seq(Tasks),
         \A i, j \in DOMAIN rest : rest[i] = rest[j] => i = j,
         \A i, j \in DOMAIN new : new[i] = new[j] => i = j,
         \A i \in DOMAIN rest, j \in DOMAIN new : rest[i] # new[j]
  PROVE  LET q == rest \o new
         IN  /\ q \in Seq(Tasks)
             /\ \A i, j \in DOMAIN q : q[i] = q[j] => i = j
             /\ \A i \in DOMAIN q : \/ \E k \in DOMAIN rest : q[i] = rest[k]
                                    \/ \E k \in DOMAIN new : q[i] = new[k]
             /\ \A k \in DOMAIN rest : \E i \in DOMAIN q : q[i] = rest[k]
             /\ \A k \in DOMAIN new : \E i \in DOMAIN q : q[i] = new[k]
  <1> DEFINE q == rest \o new
             m == Len(rest)
             n == Len(new)
  <1>1. /\ q \in Seq(Tasks) /\ m \in Nat /\ n \in Nat
        /\ DOMAIN rest = 1..m /\ DOMAIN new = 1..n /\ DOMAIN q = 1..(m + n)
    OBVIOUS
  <1>2. /\ \A k \in 1..m : q[k] = rest[k]
        /\ \A i \in 1..(m + n) : i > m => i - m \in 1..n /\ q[i] = new[i - m]
        /\ \A k \in 1..n : m + k \in 1..(m + n) /\ q[m + k] = new[k]
    OBVIOUS
  <1> HIDE DEF q, m, n
  <1>3. \A i \in 1..(m + n) : \/ i \in 1..m /\ q[i] = rest[i]
                              \/ i > m /\ i - m \in 1..n /\ q[i] = new[i - m]
    BY <1>1, <1>2
  <1>4. ASSUME NEW i \in 1..(m + n), NEW j \in 1..(m + n), q[i] = q[j]
        PROVE  i = j
    <2>1. CASE i \in 1..m /\ q[i] = rest[i]
      <3>1. CASE j \in 1..m /\ q[j] = rest[j]
        BY <1>1, <1>4, <2>1, <3>1
      <3>2. CASE j > m /\ j - m \in 1..n /\ q[j] = new[j - m]
        <4>1. rest[i] # new[j - m]
          BY <1>1, <2>1, <3>2
        <4>2. QED
          BY <1>4, <2>1, <3>2, <4>1
      <3>3. QED
        BY <1>3, <3>1, <3>2
    <2>2. CASE i > m /\ i - m \in 1..n /\ q[i] = new[i - m]
      <3>1. CASE j \in 1..m /\ q[j] = rest[j]
        <4>1. rest[j] # new[i - m]
          BY <1>1, <2>2, <3>1
        <4>2. QED
          BY <1>4, <2>2, <3>1, <4>1
      <3>2. CASE j > m /\ j - m \in 1..n /\ q[j] = new[j - m]
        <4>1. i - m = j - m
          BY <1>1, <1>4, <2>2, <3>2
        <4>2. QED
          BY <1>1, <4>1
      <3>3. QED
        BY <1>3, <3>1, <3>2
    <2>3. QED
      BY <1>3, <2>1, <2>2
  <1>5. \A i \in 1..(m + n) : \/ \E k \in 1..m : q[i] = rest[k]
                              \/ \E k \in 1..n : q[i] = new[k]
    BY <1>3
  <1>6. /\ \A k \in 1..m : k \in 1..(m + n)
        /\ \A k \in 1..n : m + k \in 1..(m + n)
    BY <1>1
  <1>7. /\ \A k \in DOMAIN rest : \E i \in DOMAIN q : q[i] = rest[k]
        /\ \A k \in DOMAIN new : \E i \in DOMAIN q : q[i] = new[k]
    BY <1>1, <1>2, <1>6
  <1>8. QED
    BY <1>1, <1>4, <1>5, <1>7 DEF q

\* The tasks just created join the queue, behind those that still wait.
LEMMA CreatedJoin ==
  ASSUME IsFiniteSet(Tasks), NEW rest \in Seq(Tasks), NEW new \in SetToSeqs(Created),
         loop' = rest \o new,
         \A i, j \in DOMAIN rest : rest[i] = rest[j] => i = j,
         \A i \in DOMAIN rest : /\ task[rest[i]] \in {"created"} \cup Begun
                                /\ task'[rest[i]] = task[rest[i]],
         \A t \in Tasks : (task[t] = "created" /\ task'[t] = "created")
                             => \E i \in DOMAIN rest : rest[i] = t
  PROVE  ReadyOnce'
  <1>1. IsFiniteSet(Created)
    BY FS_Subset DEF Created
  <1>2. /\ new \in Seq(Created)
        /\ \A i, j \in DOMAIN new : new[i] = new[j] => i = j
        /\ \A x \in Created : \E i \in DOMAIN new : new[i] = x
    BY <1>1, EnumerationOf
  <1>3. /\ new \in Seq(Tasks)
        /\ \A i \in DOMAIN new : task[new[i]] # "created" /\ task'[new[i]] = "created"
    BY <1>2 DEF Created
  <1>4. \A i \in DOMAIN rest, j \in DOMAIN new : rest[i] # new[j]
    BY <1>3 DEF Begun
  <1> DEFINE q == rest \o new
  <1>5. /\ q \in Seq(Tasks)
        /\ \A i, j \in DOMAIN q : q[i] = q[j] => i = j
        /\ \A i \in DOMAIN q : \/ \E k \in DOMAIN rest : q[i] = rest[k]
                               \/ \E k \in DOMAIN new : q[i] = new[k]
        /\ \A k \in DOMAIN rest : \E i \in DOMAIN q : q[i] = rest[k]
        /\ \A k \in DOMAIN new : \E i \in DOMAIN q : q[i] = new[k]
    BY <1>2, <1>3, <1>4, JoinedQueues
  <1> HIDE DEF q
  <1>6. \A i \in DOMAIN q : task'[q[i]] \in {"created"} \cup Begun
    BY <1>3, <1>5
  <1>7. ASSUME NEW t \in Tasks, task'[t] = "created"
        PROVE  \E i \in DOMAIN q : q[i] = t
    <2>1. CASE task[t] = "created"
      BY <1>5, <1>7, <2>1
    <2>2. CASE task[t] # "created"
      BY <1>2, <1>5, <1>7, <2>2 DEF Created
    <2>3. QED
      BY <2>1, <2>2
  <1>8. loop' = q
    BY DEF q
  <1>9. QED
    BY <1>5, <1>6, <1>7, <1>8 DEF ReadyOnce

LEMMA ReadyOnceStep ==
  ASSUME IsFiniteSet(Tasks), LoopInv, [LoopNext]_loopVars
  PROVE  ReadyOnce'
  <1>0. /\ TypeOK /\ ReadyOnce /\ loop \in Seq(Tasks)
        /\ \A i, j \in DOMAIN loop : loop[i] = loop[j] => i = j
        /\ \A i \in DOMAIN loop : /\ loop[i] \in Tasks
                                  /\ task[loop[i]] \in {"created"} \cup Begun
        /\ \A t \in Tasks : task[t] = "created" => \E i \in DOMAIN loop : loop[i] = t
    BY DEF LoopInv, ReadyOnce
  <1>1. CASE UNCHANGED <<task, loop>>
    BY <1>0, <1>1 DEF ReadyOnce
  <1>2. ASSUME NEW t \in Tasks, CommitApproval(t), UNCHANGED loop
        PROVE  ReadyOnce'
    <2>1. task[t] = "queueing" /\ task' = [task EXCEPT ![t] = "queued"]
      BY <1>2 DEF CommitApproval
    <2>2. \A u \in Tasks : /\ task'[u] = "created" => task[u] = "created"
                           /\ task[u] \in {"created"} \cup Begun =>
                                task'[u] \in {"created"} \cup Begun
      BY <1>0, <2>1 DEF TypeOK, Begun
    <2>3. QED
      BY <1>0, <1>2, <2>2 DEF ReadyOnce
  <1>3. ASSUME NEW t \in Tasks, WakeUp(t) PROVE ReadyOnce'
    <2>1. /\ task' = task /\ task[t] \in Begun /\ loop' = Append(loop, t)
          /\ \A i \in DOMAIN loop : loop[i] # t
      BY <1>3 DEF WakeUp, vars
    <2> DEFINE q == Append(loop, t)
    <2>2. /\ q \in Seq(Tasks) /\ Len(loop) \in Nat
          /\ DOMAIN loop = 1..Len(loop) /\ DOMAIN q = 1..(Len(loop) + 1)
          /\ \A i \in 1..Len(loop) : q[i] = loop[i]
          /\ q[Len(loop) + 1] = t
      BY <1>0
    <2> HIDE DEF q
    <2>3. \A i \in DOMAIN q : i \in DOMAIN loop \/ i = Len(loop) + 1
      BY <2>2
    <2>4. \A i, j \in DOMAIN q : q[i] = q[j] => i = j
      BY <1>0, <2>1, <2>2, <2>3
    <2>5. \A i \in DOMAIN q : task[q[i]] \in {"created"} \cup Begun
      BY <1>0, <2>1, <2>2, <2>3
    <2>6. \A i \in DOMAIN loop : i \in DOMAIN q /\ q[i] = loop[i]
      BY <2>2
    <2>7. QED
      BY <1>0, <2>1, <2>2, <2>4, <2>5, <2>6 DEF ReadyOnce, q
  <1>4. ASSUME NEW c \in Convoys, LoopStartConvoy(c) PROVE ReadyOnce'
    <2>1. PICK new \in SetToSeqs(Created) : loop' = loop \o new
      BY <1>4 DEF LoopStartConvoy
    <2>2. \A u \in Tasks : \/ task'[u] = task[u]
                           \/ task[u] = "none" /\ task'[u] = "created"
      BY <1>4, NextTasksAreNew DEF LoopStartConvoy, StartConvoy
    <2>3. \A i \in DOMAIN loop : task'[loop[i]] = task[loop[i]]
      BY <1>0, <2>2 DEF Begun
    <2>4. QED
      BY <1>0, <2>1, <2>3, CreatedJoin
  <1>5. CASE RunCallback
    <2>1. loop # <<>>
      BY <1>5 DEF RunCallback
    <2>2. PICK new \in SetToSeqs(Created) : loop' = Tail(loop) \o new
      BY <1>5 DEF RunCallback
    <2>3. PICK t \in Tasks : t = Head(loop)
      BY <1>0, <2>1
    <2>4. TaskTurn(t)
      BY <1>5, <2>3 DEF RunCallback, TaskTurn
    <2>5. /\ task'[t] # "created"
          /\ \A u \in Tasks : u # t => \/ task'[u] = task[u]
                                       \/ task[u] = "none" /\ task'[u] = "created"
      BY <1>0, <2>4, TurnEffect DEF Begun, Over
    <2> DEFINE rest == Tail(loop)
    <2>6. /\ rest \in Seq(Tasks) /\ loop[1] = t
          /\ \A i \in DOMAIN rest : /\ i + 1 \in DOMAIN loop /\ i + 1 # 1 /\ i \in Nat
                                    /\ rest[i] = loop[i + 1]
          /\ \A i \in DOMAIN loop : i # 1 => i - 1 \in DOMAIN rest
                                             /\ rest[i - 1] = loop[i]
          /\ 1 \in DOMAIN loop
      BY <1>0, <2>1, <2>3
    <2> HIDE DEF rest
    <2>7. \A i, j \in DOMAIN rest : rest[i] = rest[j] => i = j
      <3>1. \A i, j \in DOMAIN rest : rest[i] = rest[j] => i + 1 = j + 1
        BY <1>0, <2>6
      <3>2. QED
        BY <2>6, <3>1
    <2>8. \A i \in DOMAIN rest : /\ rest[i] \in Tasks /\ rest[i] # t
                                 /\ task[rest[i]] \in {"created"} \cup Begun
      BY <1>0, <2>6
    <2>9. \A i \in DOMAIN rest : task'[rest[i]] = task[rest[i]]
      BY <2>5, <2>8 DEF Begun
    <2>10. \A u \in Tasks : (task[u] = "created" /\ task'[u] = "created")
                              => \E i \in DOMAIN rest : rest[i] = u
      <3> SUFFICES ASSUME NEW u \in Tasks, task[u] = "created", task'[u] = "created"
                   PROVE  \E i \in DOMAIN rest : rest[i] = u
        OBVIOUS
      <3>1. PICK i \in DOMAIN loop : loop[i] = u
        BY <1>0
      <3>2. i # 1
        BY <2>5, <2>6, <3>1
      <3>3. QED
        BY <2>6, <3>1, <3>2
    <2>11. loop' = rest \o new
      BY <2>2 DEF rest
    <2>12. /\ rest \in Seq(Tasks) /\ new \in SetToSeqs(Created)
           /\ \A i \in DOMAIN rest : /\ task[rest[i]] \in {"created"} \cup Begun
                                     /\ task'[rest[i]] = task[rest[i]]
      BY <2>2, <2>6, <2>8, <2>9
    <2>13. QED
      BY <2>7, <2>10, <2>11, <2>12, CreatedJoin
  <1>6. QED
    BY <1>1, <1>2, <1>3, <1>4, <1>5
    DEF LoopNext, loopVars, vars, CreateConvoy

LEMMA LoopInvStep ==
  ASSUME IsFiniteSet(Tasks), LoopInv, [LoopNext]_loopVars
  PROVE  LoopInv'
  <1>1. [Next]_vars /\ TypeOK
    BY LoopStep DEF LoopInv
  <1>2. TypeOK'
    BY <1>1, TypeStep DEF OpsNext
  <1>3. QED
    BY <1>2, ReadyOnceStep DEF LoopInv

LEMMA LoopInvariant ==
  ASSUME IsFiniteSet(Tasks)
  PROVE  LoopSpec => []LoopInv
  <1>1. LoopInv /\ [LoopNext]_loopVars => LoopInv'
    BY LoopInvStep
  <1>2. QED
    BY <1>1, LoopInvInit, PTL DEF LoopSpec

\* No callback of the event loop is lost or queued twice: each created task
\* waits in the ready queue, in one place, until its first turn.
THEOREM NoCallbackIsLost ==
  ASSUME IsFiniteSet(Tasks)
  PROVE  LoopSpec => []ReadyOnce
  <1>1. LoopInv => ReadyOnce
    BY DEF LoopInv
  <1>2. QED
    BY <1>1, LoopInvariant, PTL

\* The event loop runs the executor: each of its behaviours is one of Spec, so
\* the contract is kept and no ready step is lost under its FIFO order as well.
THEOREM EventLoopImplements ==
  ASSUME IsFiniteSet(Tasks)
  PROVE  LoopSpec => Spec /\ ContractKept /\ []NoReadyStepLost
  <1>1. LoopInit => Init
    BY DEF LoopInit
  <1>2. LoopInv /\ [LoopNext]_loopVars => [Next]_vars
    BY LoopStep
  <1>3. LoopSpec => Spec
    BY <1>1, <1>2, LoopInvariant, PTL DEF LoopSpec, Spec
  <1>4. QED
    BY <1>3, ContractIsKept, NoReadyStepIsLost, PTL
=============================================================================
