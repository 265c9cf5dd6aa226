--------------------------- MODULE ConvoyWorkflow ----------------------------
(***************************************************************************)
(* CampaignConvoyWorkflow of infra/temporal/workflows.py and its activity  *)
(* execute_convoy_step, which spawns a PolecatWorkflow per attempt         *)
(* (module PolecatRuns).                                                   *)
(*                                                                         *)
(* The workflow goes through its plan in order; the server gives an        *)
(* attempt of a step up after half an hour and schedules the next.  The    *)
(* attempt it gave up goes on: it waits for the run it spawned and writes  *)
(* the step's status in the convoy store, whenever that comes.             *)
(*                                                                         *)
(* All this is what the two would do on a worker that registers them.      *)
(* None does: create_worker of polecats/runner.py takes only               *)
(* PolecatWorkflow and its activities, nothing calls it, and               *)
(* python -m polecats.runner ends with its imports.  So no step here is    *)
(* owed to anybody, and Spec has no fairness.                              *)
(***************************************************************************)
EXTENDS PolecatRuns

CONSTANTS
  Workloads,    (* the worlds: those of PolecatRuns with a plan, direct (the *)
                (* runs others ask for), shared (the worker's store holds    *)
                (* the convoy), bead (the id of the steps' bead) and         *)
                (* step_attempts (the maximum_attempts of                    *)
                (* execute_convoy_step, 3 in the code)                       *)
  Fresh         (* uuid4(): the id of a bead no table has                    *)

ASSUME WorkflowAssumption ==
  /\ Fresh \notin DOMAIN Ledger \cup {Malformed}
  /\ \A w \in Workloads :
       /\ w.plan \in Seq([rig : STRING, task : STRING])
       /\ w.direct \in Seq([caller : {"api", "temporal"}, rig : STRING, task : STRING,
                           bead : {Fresh, Malformed} \cup DOMAIN Ledger])
       /\ w.run_attempts \in Nat \ {0} /\ w.step_attempts \in Nat \ {0}
       /\ w.loaded \in BOOLEAN /\ w.texts \subseteq Contents
       /\ w.shared \in BOOLEAN
       /\ w.bead \in {Fresh} \cup DOMAIN Ledger

VARIABLES
  asked,     (* how many of world.direct have been spawned                *)
  next,      (* the step the workflow is at                                  *)
  attempt,   (* the attempt of it that the server waits for, 0 before        *)
  waiting,   (* the workflow waits for the step's approval                   *)
  results,   (* steps_completed, steps_failed and the number of outputs      *)
  activity,  (* activity[i][k]: attempt k of step i, [stage, run]            *)
  stored     (* stored[i]: the status of step i in the convoy store          *)

convoyVars == <<asked, next, attempt, waiting, results, activity, stored>>
vars == <<world, runs, convoyVars>>

Steps == DOMAIN world.plan
Tries == 1..world.step_attempts
Stage == {"none", "scheduled", "spawning", "awaiting", "over"}
AtStep == next \in Steps /\ ~waiting
IsCurrent(i, k) == AtStep /\ i = next /\ k = attempt
-----------------------------------------------------------------------------
Init ==
  /\ world \in Workloads
  /\ runs = << >>
  /\ asked = 0
  /\ next = 1 /\ attempt = 0 /\ waiting = FALSE
  /\ results = [completed |-> 0, failed |-> 0, outputs |-> 0]
  /\ activity = [i \in Steps |-> [k \in Tries |-> [stage |-> "none", run |-> 0]]]
  /\ stored = [i \in Steps |-> "pending"]

\* A request of the API, or one of the spawner's other users.
Ask ==
  /\ asked < Len(world.direct)
  /\ LET d == world.direct[asked + 1]
     IN  runs' = Append(runs, NewRun(d.caller, d,
                                     IF d.caller = "api" THEN "calling" ELSE "starting"))
  /\ asked' = asked + 1
  /\ UNCHANGED <<world, next, attempt, waiting, results, activity, stored>>

RunGoesOn(e) == Advance(e) /\ UNCHANGED <<world, convoyVars>>
AttemptIsLost(e) == LoseAttempt(e) /\ UNCHANGED <<world, convoyVars>>
-----------------------------------------------------------------------------
\* update_step_status finds nothing in the store of a process that does not
\* hold the convoy.
Store(i, status) ==
  stored' = IF world.shared THEN [stored EXCEPT ![i] = status] ELSE stored

NextStep(counted) ==
  /\ results' = counted
  /\ next' = next + 1 /\ attempt' = 0 /\ waiting' = FALSE

\* Faulty variant: the answer of an attempt that was given up counts as well.
Respond_Late(i, k, answer) ==
  IF next \notin Steps THEN UNCHANGED <<next, attempt, waiting, results>>
  ELSE NextStep([results EXCEPT !.completed = @ + 1, !.outputs = @ + 1])

\* The activity returned, with or without success: the step counts as
\* completed, and its output may have to wait.
Respond(i, k, answer) ==
  IF ~IsCurrent(i, k) THEN UNCHANGED <<next, attempt, waiting, results>>
  ELSE LET counted == [results EXCEPT !.completed = @ + 1, !.outputs = @ + 1]
       IN  IF answer.requires_approval
           THEN waiting' = TRUE /\ results' = counted /\ UNCHANGED <<next, attempt>>
           ELSE NextStep(counted)

Stages(i, k, stage, run) ==
  activity' = [activity EXCEPT ![i][k] = [stage |-> stage, run |-> run]]

ScheduleStep ==
  /\ AtStep /\ attempt = 0
  /\ attempt' = 1
  /\ Stages(next, 1, "scheduled", 0)
  /\ UNCHANGED <<world, runs, asked, next, waiting, results, stored>>

BeginStep(i, k) ==
  /\ activity[i][k].stage = "scheduled"
  /\ Stages(i, k, "spawning", 0)
  /\ Store(i, "running")
  /\ UNCHANGED <<world, runs, asked, next, attempt, waiting, results>>

SpawnRun(i, k) ==
  /\ activity[i][k].stage = "spawning"
  /\ runs' = Append(runs,
       NewRun("temporal", [rig |-> world.plan[i].rig, task |-> world.plan[i].task,
                           bead |-> world.bead], "starting"))
  /\ Stages(i, k, "awaiting", Len(runs'))
  /\ UNCHANGED <<world, asked, next, attempt, waiting, results, stored>>

\* The server cannot be reached: the activity returns without success.
FailSpawn(i, k) ==
  /\ activity[i][k].stage = "spawning"
  /\ Stages(i, k, "over", 0)
  /\ Store(i, "failed")
  /\ Respond(i, k, NoSuccess)
  /\ UNCHANGED <<world, runs, asked>>

\* Faulty variant: what came back without an exception completes the step.
StepStatus_Completed(r) == IF r.phase = "done" THEN "completed" ELSE "failed"

StepStatus(r) == IF r.phase = "done" /\ r.answer.success THEN "completed" ELSE "failed"

\* get_result returns what the workflow did, or raises what it raised, which
\* the activity turns into an answer without success.
Collect(i, k) ==
  /\ activity[i][k].stage = "awaiting"
  /\ LET r == runs[activity[i][k].run]
     IN  /\ r.phase \in Ended
         /\ Store(i, StepStatus(r))
         /\ Respond(i, k, IF r.phase = "done" THEN r.answer ELSE NoSuccess)
  /\ Stages(i, k, "over", activity[i][k].run)
  /\ UNCHANGED <<world, runs, asked>>

\* Half an hour, or the end of the attempt's worker: another attempt, or an
\* exception in the workflow, which counts the step as failed and goes on.
TimeOutStep ==
  /\ AtStep /\ attempt > 0
  /\ activity[next][attempt].stage \in {"spawning", "awaiting"}
  /\ IF attempt = world.step_attempts
     THEN NextStep([results EXCEPT !.failed = @ + 1]) /\ UNCHANGED activity
     ELSE /\ attempt' = attempt + 1
          /\ Stages(next, attempt', "scheduled", 0)
          /\ UNCHANGED <<next, waiting, results>>
  /\ UNCHANGED <<world, runs, asked, stored>>

\* _step_approved is FALSE whatever was signalled (approve_step, reject_step,
\* pause_convoy and resume_convoy do nothing), so the wait always ends after its
\* 24 hours, with an exception.
TimeOutApproval ==
  /\ waiting
  /\ NextStep([results EXCEPT !.failed = @ + 1])
  /\ UNCHANGED <<world, runs, asked, activity, stored>>

StepAttempt(i, k) ==
  BeginStep(i, k) \/ SpawnRun(i, k) \/ FailSpawn(i, k) \/ Collect(i, k)

Next ==
  \/ Ask \/ ScheduleStep \/ TimeOutStep \/ TimeOutApproval
  \/ \E i \in Steps, k \in Tries : StepAttempt(i, k)
  \/ \E e \in DOMAIN runs : RunGoesOn(e) \/ AttemptIsLost(e)

Spec == Init /\ [][Next]_vars
-----------------------------------------------------------------------------
TypeOK ==
  /\ world \in Workloads
  /\ \A e \in DOMAIN runs : RunShape(runs[e])
  /\ asked \in 0..Len(world.direct)
  /\ next \in 1..(Len(world.plan) + 1) /\ attempt \in {0} \cup Tries
  /\ waiting \in BOOLEAN
  /\ results \in [completed : Nat, failed : Nat, outputs : Nat]
  /\ activity \in [Steps -> [Tries ->
                             [stage : Stage, run : 0..Len(runs)]]]
  /\ stored \in [Steps -> {"pending", "running", "completed", "failed"}]

Collected(i) == {k \in Tries : activity[i][k].stage = "over"}
Handled == (next - 1) + (IF waiting THEN 1 ELSE 0)

\* The runs spawned for step i, by its attempts so far.
RunsOf(i) == {activity[i][k].run : k \in Tries} \ {0}

\* Every step the workflow left behind was tried and is in its totals: as
\* completed with one output, if an attempt of it answered, or as failed; and a
\* second time, as failed, if its output had to wait for an approval, whatever
\* the attempts it gave up answer later (workflows.py:128-160).
StepsAreAccounted ==
  LET answered == {i \in Steps : i <= Handled /\ Collected(i) # {}}
      reviewed == {i \in Steps : i < next /\ \E e \in RunsOf(i) :
                                   runs[e].answer.requires_approval}
  IN  /\ \A i \in Steps : i < next => activity[i][1].stage # "none"
      /\ results.outputs = results.completed
      /\ results.completed <= Cardinality(answered)
      /\ results.completed + results.failed
           \in Handled..(Handled + Cardinality(reviewed))

\* What the store says of a step is what one of its attempts came to, a late one
\* included: completed if the run it spawned succeeded, failed if some attempt
\* of it did not (workflows.py:76-98).
StoredStatusHasCause ==
  \A i \in Steps :
    LET ended == {activity[i][k].run : k \in Collected(i)}
        good == {e \in ended : e # 0 /\ runs[e].phase = "done" /\ runs[e].answer.success}
    IN  /\ stored[i] = "completed" => good # {}
        /\ stored[i] = "failed" => ended \ good # {}
        /\ stored[i] # "pending" => world.shared /\ activity[i][1].stage # "none"
=============================================================================
