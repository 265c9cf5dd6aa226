----------------------- MODULE PolecatExecution_proofs -----------------------
(***************************************************************************)
(* Theorems about PolecatExecution, for any number of executions, replicas *)
(* and cancel requests.                                                    *)
(***************************************************************************)
EXTENDS PolecatExecution, TLAPS

\* The phases that write the row, and what they write.
LEMMA TargetTable ==
  /\ DOMAIN Target = {"starting", "saving", "failing", "cancelling"}
  /\ \A ph \in DOMAIN Target : Target[ph] \in PolecatStatus /\ After[ph] \in TaskPhase
  /\ \A ph \in DOMAIN Target : Target[ph] = "completed" <=> ph = "saving"
  /\ \A ph \in DOMAIN Target : After[ph] = "saved" <=> ph = "saving"
  /\ After["cancelling"] = "over" /\ Target["cancelling"] = "cancelled"
  /\ \A ph \in DOMAIN Target : After[ph] # "saving"
  BY DEF Target, After, PolecatStatus, TaskPhase

LEMMA ErrorTable ==
  ASSUME NEW ph \in TaskPhase
  PROVE  /\ OnError(ph) \in {"failing", "over"}
         /\ OnCancel(ph) \in {"cancelling", "over"}
         /\ ph \in {"cancelling", "over"} => OnError(ph) = "over" /\ OnCancel(ph) = "over"
  BY DEF OnError, OnCancel, TaskPhase

\* A write leaves the status it sets, or the one there was.
LEMMA MergedIsEither ==
  ASSUME NEW old, NEW new, NEW now
  PROVE  Merged(old, new, now) \in {new, now}
  BY DEF Merged

\* What a task leaves on the server: nothing, or one more commit under way.
LEMMA LeftShape ==
  ASSUME TypeOK, NEW e \in Executions
  PROVE  /\ Left(e) \in [DOMAIN Target -> Seen]
         /\ task[e] \in DOMAIN Target => Left(e) = [late[e] EXCEPT ![task[e]] = seen[e]]
         /\ task[e] \notin DOMAIN Target => Left(e) = late[e]
  BY DEF Left, TypeOK

-----------------------------------------------------------------------------
(* Type correctness.                                                       *)

LEMMA PolecatTypeInit == Init => TypeOK
  <1>1. NothingLate \in [DOMAIN Target -> Seen]
    BY DEF NothingLate, Seen
  <1>2. QED
    BY <1>1 DEF Init, TypeOK, TaskPhase, Seen, RowStatus

\* The turns of the tasks.
LEMMA PolecatTypeTask ==
  ASSUME TypeOK, NEW e \in Executions, TaskTurn(e)
  PROVE  TypeOK'
  <1>1. CASE CreateTask(e)
    BY <1>1 DEF CreateTask, TypeOK, TaskPhase, cancelVars, sweepVars
  <1>2. CASE BeginTask(e)
    BY <1>2 DEF BeginTask, TypeOK, TaskPhase, cancelVars, sweepVars
  <1>3. CASE ReadRow(e)
    BY <1>3 DEF ReadRow, TypeOK, Seen, cancelVars, sweepVars
  <1>4. CASE CommitRow(e)
    <2> DEFINE new == Target[task[e]]
    <2>1. new \in PolecatStatus /\ After[task[e]] \in TaskPhase
      BY <1>4, TargetTable DEF CommitRow
    <2>2. Merged(seen[e], new, row[e]) \in RowStatus
      BY <2>1, MergedIsEither DEF TypeOK, RowStatus
    <2>3. QED
      BY <1>4, <2>1, <2>2 DEF CommitRow, TypeOK, Seen, cancelVars, sweepVars
  <1>5. CASE Return(e)
    BY <1>5 DEF Return, TypeOK, TaskPhase, cancelVars, sweepVars
  <1>6. CASE Produce(e)
    BY <1>6 DEF Produce, TypeOK, TaskPhase, cancelVars, sweepVars
  <1>7. CASE Raise(e)
    <2>1. OnError(task[e]) \in TaskPhase
      BY ErrorTable DEF TypeOK, TaskPhase
    <2>2. approvals' \subseteq Executions
      BY <1>7 DEF Raise, TypeOK
    <2>3. late' \in [Executions -> [DOMAIN Target -> Seen]]
      BY <1>7, LeftShape DEF Raise, TypeOK
    <2>4. QED
      BY <1>7, <2>1, <2>2, <2>3 DEF Raise, TypeOK, Seen, cancelVars, sweepVars
  <1>8. QED
    BY <1>1, <1>2, <1>3, <1>4, <1>5, <1>6, <1>7 DEF TaskTurn

\* A commit that lands late.
LEMMA PolecatTypeLate ==
  ASSUME TypeOK, NEW e \in Executions, NEW ph \in DOMAIN Target, LateCommit(e, ph)
  PROVE  TypeOK'
  <1>1. Merged(late[e][ph], Target[ph], row[e]) \in RowStatus
    BY TargetTable, MergedIsEither DEF TypeOK, RowStatus
  <1>2. late' \in [Executions -> [DOMAIN Target -> Seen]]
    <2>1. [late[e] EXCEPT ![ph] = "none"] \in [DOMAIN Target -> Seen]
      BY DEF TypeOK, Seen
    <2>2. late' = [late EXCEPT ![e] = [late[e] EXCEPT ![ph] = "none"]]
      BY DEF LateCommit
    <2>3. QED
      BY <2>1, <2>2 DEF TypeOK
  <1>3. QED
    BY <1>1, <1>2 DEF LateCommit, TypeOK, cancelVars, sweepVars

\* The steps of a cancel request.
LEMMA PolecatTypeCancel ==
  ASSUME TypeOK, NEW c \in Cancels, Serve(c)
  PROVE  TypeOK'
  <1> DEFINE e == cancel[c].item
  <1>1. cancel[c] \in CancelShape /\ e \in Executions
    BY DEF TypeOK, CancelShape
  <1>2. CASE LookUp(c)
    <2>1. row[e] \in Seen
      BY <1>1 DEF TypeOK, Seen
    <2>2. cancel' \in [Cancels -> CancelShape]
      BY <1>1, <1>2, <2>1 DEF LookUp, TypeOK, CancelShape
    <2>3. QED
      BY <1>2, <2>2 DEF LookUp, TypeOK, taskVars, sweepVars
  <1>3. CASE CancelTask(c)
    <2>1. cancel' \in [Cancels -> CancelShape]
      BY <1>1, <1>3 DEF CancelTask, TypeOK, CancelShape
    <2>2. OnCancel(task[e]) \in TaskPhase
      <3>1. task[e] \in TaskPhase
        BY <1>1 DEF TypeOK
      <3>2. OnCancel(task[e]) \in {"cancelling", "over"}
        BY <3>1, ErrorTable
      <3>3. QED
        BY <3>2 DEF TaskPhase
    <2>3. task' \in [Executions -> TaskPhase] /\ seen' \in [Executions -> Seen]
      <3>1. /\ task' = [task EXCEPT ![e] = OnCancel(task[e])] \/ task' = task
            /\ seen' = [seen EXCEPT ![e] = "none"] \/ seen' = seen
        BY <1>3 DEF CancelTask
      <3>2. QED
        BY <1>1, <2>2, <3>1 DEF TypeOK, Seen
    <2>4. late' \in [Executions -> [DOMAIN Target -> Seen]]
      <3>1. Left(e) \in [DOMAIN Target -> Seen]
        BY <1>1, LeftShape
      <3>2. late' = [late EXCEPT ![e] = Left(e)] \/ late' = late
        BY <1>3 DEF CancelTask
      <3>3. QED
        BY <3>1, <3>2 DEF TypeOK
    <2>5. QED
      BY <1>3, <2>1, <2>3, <2>4 DEF CancelTask, TypeOK, sweepVars
  <1>4. CASE CommitCancel(c) \/ LoseCancel(c)
    <2>1. cancel' \in [Cancels -> CancelShape]
      <3>1. \A a \in {"cancelled", "error"} : [cancel[c] EXCEPT !.phase = a] \in CancelShape
        BY <1>1 DEF CancelShape
      <3>2. \E a \in {"cancelled", "error"} : cancel' = [cancel EXCEPT ![c].phase = a]
        BY <1>4 DEF CommitCancel, LoseCancel, Ends
      <3>3. QED
        BY <3>1, <3>2 DEF TypeOK
    <2>2. Merged(cancel[c].seen, "cancelled", row[e]) \in RowStatus
      BY <1>1, MergedIsEither DEF TypeOK, RowStatus, PolecatStatus
    <2>3. QED
      BY <1>4, <2>1, <2>2
         DEF CommitCancel, LoseCancel, WriteCancelled, TypeOK, taskVars, sweepVars
  <1>5. CASE FailCancel(c)
    <2>1. cancel' \in [Cancels -> CancelShape]
      BY <1>1, <1>5 DEF FailCancel, Ends, TypeOK, CancelShape
    <2>2. QED
      BY <1>5, <2>1 DEF FailCancel, TypeOK, taskVars, sweepVars
  <1>6. QED
    BY <1>2, <1>3, <1>4, <1>5 DEF Serve

\* The Deacon's sweep.
LEMMA PolecatTypeSweep ==
  ASSUME TypeOK, Sweep
  PROVE  TypeOK'
  <1>1. CASE BeginSweep
    BY <1>1 DEF BeginSweep, TypeOK, taskVars, cancelVars
  <1>2. CASE ReadOrphan
    BY <1>2 DEF ReadOrphan, TypeOK, taskVars, cancelVars
  <1>3. ASSUME NEW e \in Executions, CommitOrphan(e) PROVE TypeOK'
    <2>1. Merged(look[e], "failed", row[e]) \in RowStatus
      BY MergedIsEither DEF TypeOK, RowStatus, PolecatStatus
    <2>2. QED
      BY <1>3, <2>1 DEF CommitOrphan, TypeOK, taskVars, cancelVars
  <1>4. CASE FailSweep
    BY <1>4 DEF FailSweep, TypeOK, taskVars, cancelVars
  <1>5. QED
    BY <1>1, <1>2, <1>3, <1>4 DEF Sweep

LEMMA PolecatTypeStep == TypeOK /\ [Next]_vars => TypeOK'
  <1> SUFFICES ASSUME TypeOK, [Next]_vars PROVE TypeOK'
    OBVIOUS
  <1>1. ASSUME NEW e \in Executions, NEW p \in Processes, Spawn(e, p) PROVE TypeOK'
    BY <1>1 DEF Spawn, TypeOK, TaskPhase, RowStatus, PolecatStatus, cancelVars, sweepVars
  <1>2. ASSUME NEW e \in Executions, TaskTurn(e) PROVE TypeOK'
    BY <1>2, PolecatTypeTask
  <1>3. ASSUME NEW e \in Executions, Age(e) PROVE TypeOK'
    BY <1>3 DEF Age, TypeOK, taskVars, cancelVars, sweepVars
  <1>4. ASSUME NEW p \in Processes, Crash(p) PROVE TypeOK'
    <2>1. cancel' \in [Cancels -> CancelShape]
      <3>1. \A c \in Cancels : /\ cancel[c] \in CancelShape
                              /\ [cancel[c] EXCEPT !.phase = "error"] \in CancelShape
        BY DEF TypeOK, CancelShape
      <3>2. cancel' = [c \in Cancels |->
                        IF cancel[c].at = p /\ cancel[c].phase \in {"looking", "updating"}
                        THEN [cancel[c] EXCEPT !.phase = "error"] ELSE cancel[c]]
        BY <1>4 DEF Crash
      <3>3. QED
        BY <3>1, <3>2
    <2>2. late' \in [Executions -> [DOMAIN Target -> Seen]]
      <3>1. \A e \in Executions : /\ Left(e) \in [DOMAIN Target -> Seen]
                                 /\ late[e] \in [DOMAIN Target -> Seen]
        BY LeftShape DEF TypeOK
      <3>2. late' = [e \in Executions |-> IF e \in {d \in Executions : home[d] = p}
                                         THEN Left(e) ELSE late[e]]
        BY <1>4 DEF Crash
      <3>3. QED
        BY <3>1, <3>2
    <2>3. QED
      BY <1>4, <2>1, <2>2 DEF Crash, TypeOK, TaskPhase, Seen, sweepVars
  <1>5. ASSUME NEW c \in Cancels, Serve(c) PROVE TypeOK'
    BY <1>5, PolecatTypeCancel
  <1>6. CASE Sweep
    BY <1>6, PolecatTypeSweep
  <1>7. CASE UNCHANGED vars
    BY <1>7 DEF vars, taskVars, cancelVars, sweepVars, TypeOK
  <1>8. ASSUME NEW e \in Executions, NEW ph \in DOMAIN Target, LateCommit(e, ph)
        PROVE  TypeOK'
    BY <1>8, PolecatTypeLate
  <1>9. QED
    BY <1>1, <1>2, <1>3, <1>4, <1>5, <1>6, <1>7, <1>8 DEF Next

\* Every variable keeps its shape (TypeOK), whatever the replicas, the cancel
\* requests and the sweep do.
THEOREM PolecatTypeCorrect == Spec => []TypeOK
  BY PolecatTypeInit, PolecatTypeStep, PTL DEF Spec

-----------------------------------------------------------------------------
(* The inductive invariant.                                                *)

\* An execution without a row has no task and no replica.
AbsentIsUntouched ==
  \A e \in Executions : row[e] = "absent" => task[e] = "none" /\ home[e] = NoProcess

\* A task on its way to COMPLETED has queued what must be queued.
QueuedBeforeSaved ==
  \A e \in Sensitive : task[e] \in {"saving", "saved"} => e \in approvals

\* A cancel request goes on only with a row it read as pending or running.
CancelSawCancellable ==
  \A c \in Cancels : cancel[c].phase \in {"looking", "updating"}
                        => cancel[c].seen \in Cancellable

\* A task that a cancel request found can only write CANCELLED from then on.
HitTaskStops ==
  \A c \in Cancels : cancel[c].phase \in {"updating", "cancelled"} /\ cancel[c].hit
                        => task[cancel[c].item] \in {"cancelling", "over"}

OrphansAreAged == found \subseteq aged

CoreInv ==
  /\ TypeOK /\ AbsentIsUntouched /\ QueuedBeforeSaved /\ CompletedIsQueued
  /\ CancelSawCancellable /\ HitTaskStops /\ OrphansAreAged

\* What the tasks leave under way, and what the writers have read: only a task
\* torn from its commit leaves one, and then it is in a handler or over; a
\* commit of COMPLETED comes after the queueing; and, until the sweep comes into
\* play, a verdict is in the row only once the task is done with its work, so
\* that only the handlers ever read one.
Handlers == {"failing", "cancelling"}

LeftBehind(e) ==
  /\ \A ph \in DOMAIN Target : late[e][ph] # "none" => task[e] \in Handlers \cup {"over"}
  /\ e \in Sensitive /\ late[e]["saving"] # "none" => e \in approvals

VerdictIsLast(e) ==
  e \notin aged =>
    /\ row[e] \in Verdicts => task[e] \in Handlers \cup {"saved", "over"}
    /\ seen[e] \in Verdicts => task[e] \in Handlers
    /\ \A ph \in DOMAIN Target : late[e][ph] \in Verdicts => ph \in Handlers

PolecatInv == CoreInv /\ \A e \in Executions : LeftBehind(e) /\ VerdictIsLast(e)

LEMMA PolecatInvInit == Init => PolecatInv
  <1> SUFFICES ASSUME Init PROVE PolecatInv
    OBVIOUS
  <1>1. TypeOK
    BY PolecatTypeInit
  <1>2. CoreInv
    BY <1>1, PolecatAssumption
       DEF Init, CoreInv, AbsentIsUntouched, QueuedBeforeSaved, CompletedIsQueued,
           CancelSawCancellable, HitTaskStops, OrphansAreAged
  <1>3. ASSUME NEW e \in Executions PROVE LeftBehind(e) /\ VerdictIsLast(e)
    <2>1. row[e] = "absent" /\ seen[e] = "none" /\ late[e] = NothingLate
      BY DEF Init
    <2>2. \A ph \in DOMAIN Target : late[e][ph] = "none"
      BY <2>1 DEF NothingLate
    <2>3. QED
      BY <2>1, <2>2, TargetTable DEF LeftBehind, VerdictIsLast, Verdicts
  <1>4. QED
    BY <1>2, <1>3 DEF PolecatInv

\* What the commits of a task do, without the tables: one it waits for ...
LEMMA CommitRowEffect ==
  ASSUME TypeOK, NEW e \in Executions, CommitRow(e)
  PROVE  /\ \A d \in Executions \ {e} : /\ row'[d] = row[d] /\ task'[d] = task[d]
                                        /\ seen'[d] = seen[d]
         /\ row'[e] = row[e] \/ row'[e] # "absent"
         /\ row'[e] = "completed" => row[e] = "completed" \/ task[e] = "saving"
         /\ task[e] \in {"starting", "saving"} \cup Handlers
         /\ task[e] = "starting" => task'[e] = "started" /\ row'[e] \in {row[e], "running"}
         /\ task[e] = "saving" => task'[e] = "saved"
         /\ task[e] \in Handlers => task'[e] = "over"
         /\ task[e] = "cancelling" => row'[e] \in {row[e], "cancelled"}
         /\ seen'[e] = "none"
  <1> DEFINE new == Target[task[e]]
  <1>1. task[e] \in DOMAIN Target /\ task'[e] = After[task[e]] /\ seen'[e] = "none"
    BY DEF CommitRow, TypeOK
  <1>2. row'[e] \in {row[e], new}
    BY MergedIsEither DEF CommitRow, TypeOK
  <1>3. /\ task[e] \in {"starting", "saving"} \cup Handlers
        /\ new # "absent" /\ (new = "completed" <=> task[e] = "saving")
        /\ task[e] = "starting" => task'[e] = "started" /\ new = "running"
        /\ task[e] = "saving" => task'[e] = "saved"
        /\ task[e] \in Handlers => task'[e] = "over"
        /\ task[e] = "cancelling" => new = "cancelled"
    BY <1>1 DEF Target, After, Handlers
  <1>4. \A d \in Executions \ {e} : /\ row'[d] = row[d] /\ task'[d] = task[d]
                                    /\ seen'[d] = seen[d]
    BY DEF CommitRow, TypeOK
  <1>5. QED
    BY <1>1, <1>2, <1>3, <1>4

\* ... and one that lands late, over a status that its transaction had read or
\* that it sets itself.
LEMMA LateCommitEffect ==
  ASSUME TypeOK, NEW e \in Executions, NEW ph \in DOMAIN Target, LateCommit(e, ph)
  PROVE  /\ \A d \in Executions \ {e} : row'[d] = row[d] /\ late'[d] = late[d]
         /\ late[e][ph] # "none" /\ late'[e][ph] = "none"
         /\ \A other \in DOMAIN Target \ {ph} : late'[e][other] = late[e][other]
         /\ row'[e] \in {row[e], Target[ph]}
         /\ row'[e] # row[e] => row[e] = late[e][ph]
  <1>1. late'[e] = [late[e] EXCEPT ![ph] = "none"]
    BY DEF LateCommit, TypeOK
  <1>2. late[e] \in [DOMAIN Target -> Seen]
    BY DEF TypeOK
  <1>3. /\ late'[e][ph] = "none"
        /\ \A other \in DOMAIN Target \ {ph} : late'[e][other] = late[e][other]
    BY <1>1, <1>2
  <1>4. row'[e] = Merged(late[e][ph], Target[ph], row[e])
    BY DEF LateCommit, TypeOK
  <1>5. row'[e] \in {row[e], Target[ph]} /\ (row'[e] # row[e] => row[e] = late[e][ph])
    BY <1>4 DEF LateCommit, Merged, Refused
  <1>6. \A d \in Executions \ {e} : row'[d] = row[d] /\ late'[d] = late[d]
    BY DEF LateCommit, TypeOK
  <1>7. QED
    BY <1>3, <1>5, <1>6 DEF LateCommit

\* A cancel request that commits finds pending, running or cancelled, and leaves
\* cancelled.
LEMMA WriteCancelledEffect ==
  ASSUME PolecatInv, NEW c \in Cancels, WriteCancelled(c)
  PROVE  LET e == cancel[c].item
         IN  /\ row[e] \in Cancellable \cup {"cancelled"} /\ row'[e] = "cancelled"
             /\ \A d \in Executions \ {e} : row'[d] = row[d]
  <1> DEFINE e == cancel[c].item
  <1>1. e \in Executions /\ cancel[c].seen \in Cancellable
    BY DEF PolecatInv, CoreInv, TypeOK, CancelShape, CancelSawCancellable, WriteCancelled
  <1>2. row' = [row EXCEPT ![e] = Merged(cancel[c].seen, "cancelled", row[e])]
    BY DEF WriteCancelled
  <1>3. row \in [Executions -> RowStatus]
    BY DEF PolecatInv, CoreInv, TypeOK
  <1>4. row'[e] = Merged(cancel[c].seen, "cancelled", row[e])
    BY <1>1, <1>2, <1>3
  <1>5. QED
    BY <1>1, <1>2, <1>3, <1>4 DEF WriteCancelled, Merged, Refused, Cancellable

-----------------------------------------------------------------------------
(* The first part of the invariant, step by step.                          *)

LEMMA CoreTask ==
  ASSUME PolecatInv, TypeOK', NEW e \in Executions, TaskTurn(e)
  PROVE  CoreInv'
  <1> USE DEF PolecatInv, CoreInv, cancelVars, sweepVars
  <1>0. \A c \in Cancels : cancel[c].item \in Executions
    BY DEF TypeOK, CancelShape
  <1>1. CASE CreateTask(e)
    BY <1>0, <1>1 DEF CreateTask, TypeOK, AbsentIsUntouched, QueuedBeforeSaved,
         CompletedIsQueued, CancelSawCancellable, HitTaskStops, OrphansAreAged
  <1>2. CASE BeginTask(e)
    BY <1>0, <1>2 DEF BeginTask, TypeOK, AbsentIsUntouched, QueuedBeforeSaved,
         CompletedIsQueued, CancelSawCancellable, HitTaskStops, OrphansAreAged
  <1>3. CASE ReadRow(e)
    BY <1>0, <1>3 DEF ReadRow, TypeOK, AbsentIsUntouched, QueuedBeforeSaved,
         CompletedIsQueued, CancelSawCancellable, HitTaskStops, OrphansAreAged
  <1>4. CASE CommitRow(e)
    <2>1. /\ \A d \in Executions \ {e} : row'[d] = row[d] /\ task'[d] = task[d]
          /\ row'[e] = row[e] \/ row'[e] # "absent"
          /\ row'[e] = "completed" => row[e] = "completed" \/ task[e] = "saving"
          /\ task'[e] = "saved" => task[e] = "saving"
          /\ task'[e] # "saving" /\ task[e] # "none" /\ task[e] # "over"
          /\ task[e] = "cancelling" => task'[e] = "over"
      BY <1>4, CommitRowEffect DEF Handlers
    <2>2. UNCHANGED <<home, approvals, cancel, registered, aged, found, look>>
      BY <1>4 DEF CommitRow
    <2>3. AbsentIsUntouched'
      BY <2>1, <2>2 DEF AbsentIsUntouched
    <2>4. QueuedBeforeSaved' /\ CompletedIsQueued'
      BY <2>1, <2>2, PolecatAssumption DEF QueuedBeforeSaved, CompletedIsQueued
    <2>5. CancelSawCancellable' /\ OrphansAreAged'
      BY <2>2 DEF CancelSawCancellable, OrphansAreAged
    <2>6. HitTaskStops'
      BY <1>0, <2>1, <2>2 DEF HitTaskStops
    <2>7. QED
      BY <2>3, <2>4, <2>5, <2>6
  <1>5. CASE Return(e)
    BY <1>0, <1>5 DEF Return, TypeOK, AbsentIsUntouched, QueuedBeforeSaved,
         CompletedIsQueued, CancelSawCancellable, HitTaskStops, OrphansAreAged
  <1>6. CASE Produce(e)
    BY <1>0, <1>6 DEF Produce, TypeOK, AbsentIsUntouched, QueuedBeforeSaved,
         CompletedIsQueued, CancelSawCancellable, HitTaskStops, OrphansAreAged
  <1>7. CASE Raise(e)
    <2>1. /\ task'[e] \in {"failing", "over"}
          /\ task[e] \in {"cancelling", "over"} => task'[e] = "over"
          /\ task[e] # "none"
          /\ \A d \in Executions : d # e => task'[d] = task[d]
      BY <1>7, ErrorTable DEF Raise, TypeOK
    <2>2. approvals \subseteq approvals'
          /\ UNCHANGED <<row, home, cancel, registered, aged, found, look>>
      BY <1>7 DEF Raise
    <2>3. AbsentIsUntouched'
      BY <2>1, <2>2 DEF AbsentIsUntouched
    <2>4. QueuedBeforeSaved' /\ CompletedIsQueued'
      BY <2>1, <2>2, PolecatAssumption DEF QueuedBeforeSaved, CompletedIsQueued
    <2>5. CancelSawCancellable' /\ OrphansAreAged'
      BY <2>2 DEF CancelSawCancellable, OrphansAreAged
    <2>6. HitTaskStops'
      BY <1>0, <2>1, <2>2 DEF HitTaskStops
    <2>7. QED
      BY <2>3, <2>4, <2>5, <2>6
  <1>8. QED
    BY <1>1, <1>2, <1>3, <1>4, <1>5, <1>6, <1>7 DEF TaskTurn

LEMMA CoreLate ==
  ASSUME PolecatInv, TypeOK', NEW e \in Executions, NEW ph \in DOMAIN Target,
         LateCommit(e, ph)
  PROVE  CoreInv'
  <1> USE DEF PolecatInv, CoreInv, cancelVars, sweepVars
  <1>1. UNCHANGED <<home, task, approvals, cancel, aged, found>>
    BY DEF LateCommit
  <1>2. /\ \A d \in Executions \ {e} : row'[d] = row[d]
        /\ row'[e] \in {row[e], Target[ph]} /\ late[e][ph] # "none"
    BY LateCommitEffect
  <1>3. /\ Target[ph] # "absent"
        /\ Target[ph] = "completed" => ph = "saving"
    BY TargetTable DEF PolecatStatus
  <1>4. task[e] # "none" /\ row[e] # "absent"
    BY <1>2 DEF LeftBehind, Handlers, AbsentIsUntouched
  <1>5. e \in Sensitive /\ ph = "saving" => e \in approvals
    BY <1>2 DEF LeftBehind
  <1>6. AbsentIsUntouched'
    BY <1>1, <1>2, <1>3, <1>4 DEF AbsentIsUntouched
  <1>7. CompletedIsQueued'
    BY <1>1, <1>2, <1>3, <1>5, PolecatAssumption DEF CompletedIsQueued
  <1>8. QueuedBeforeSaved' /\ CancelSawCancellable' /\ HitTaskStops' /\ OrphansAreAged'
    BY <1>1 DEF QueuedBeforeSaved, CancelSawCancellable, HitTaskStops, OrphansAreAged
  <1>9. QED
    BY <1>6, <1>7, <1>8

LEMMA CoreCancel ==
  ASSUME PolecatInv, TypeOK', NEW c \in Cancels, Serve(c)
  PROVE  CoreInv'
  <1> DEFINE e == cancel[c].item
  <1> USE DEF PolecatInv, CoreInv, taskVars, sweepVars
  <1>0. /\ \A d \in Cancels : cancel[d] \in CancelShape
        /\ \A d \in Cancels : cancel[d].item \in Executions
    BY DEF TypeOK, CancelShape
  <1>1. /\ \A d \in Cancels : d # c => cancel'[d] = cancel[d]
        /\ cancel'[c].item = e
    <2>1. cancel \in [Cancels -> CancelShape]
      BY DEF TypeOK
    <2>2. CASE LookUp(c)
      BY <1>0, <2>1, <2>2 DEF LookUp, CancelShape
    <2>3. CASE CancelTask(c)
      BY <1>0, <2>1, <2>3 DEF CancelTask, CancelShape
    <2>4. CASE CommitCancel(c) \/ LoseCancel(c) \/ FailCancel(c)
      BY <1>0, <2>1, <2>4 DEF CommitCancel, LoseCancel, FailCancel, Ends, CancelShape
    <2>5. QED
      BY <2>2, <2>3, <2>4 DEF Serve
  <1>2. OrphansAreAged'
    BY DEF Serve, LookUp, CancelTask, CommitCancel, LoseCancel, WriteCancelled, FailCancel,
           OrphansAreAged
  <1>3. CASE LookUp(c)
    <2>1. /\ cancel'[c].phase \in {"looking", "refused"}
          /\ cancel'[c].phase = "looking" => cancel'[c].seen \in Cancellable
          /\ UNCHANGED <<row, home, task, approvals, aged>>
      BY <1>0, <1>3 DEF LookUp, TypeOK, CancelShape
    <2>2. QED
      BY <1>1, <1>2, <2>1 DEF AbsentIsUntouched, QueuedBeforeSaved, CompletedIsQueued,
           CancelSawCancellable, HitTaskStops
  <1>4. CASE CancelTask(c)
    <2> DEFINE hit == e \in registered /\ home[e] = cancel[c].at
    <2>1. /\ cancel[c].phase = "looking" /\ cancel'[c].phase = "updating"
          /\ cancel'[c].hit = hit /\ cancel'[c].seen = cancel[c].seen
          /\ UNCHANGED <<row, home, approvals, aged>>
      BY <1>0, <1>4 DEF CancelTask, TypeOK, CancelShape
    <2>2. /\ hit => task'[e] = OnCancel(task[e])
          /\ ~hit => task' = task
          /\ \A d \in Executions : d # e => task'[d] = task[d]
      BY <1>0, <1>4 DEF CancelTask, TypeOK
    <2>3. hit => task'[e] \in {"cancelling", "over"}
      BY <1>0, <2>2, ErrorTable DEF TypeOK
    <2>4. hit => row[e] # "absent"
      BY <1>0, PolecatAssumption DEF AbsentIsUntouched, CancelShape
    <2>5. AbsentIsUntouched'
      BY <1>0, <2>1, <2>2, <2>4 DEF AbsentIsUntouched
    <2>6. QueuedBeforeSaved' /\ CompletedIsQueued'
      BY <1>0, <2>1, <2>2, <2>3, PolecatAssumption DEF QueuedBeforeSaved, CompletedIsQueued
    <2>7. CancelSawCancellable'
      BY <1>1, <2>1 DEF CancelSawCancellable
    <2>8. HitTaskStops'
      <3> SUFFICES ASSUME NEW d \in Cancels, cancel'[d].hit,
                          cancel'[d].phase \in {"updating", "cancelled"}
                   PROVE  task'[cancel'[d].item] \in {"cancelling", "over"}
        BY DEF HitTaskStops
      <3>1. CASE d = c
        BY <1>1, <2>1, <2>3, <3>1
      <3>2. CASE d # c
        <4>1. cancel'[d] = cancel[d] /\ task[cancel[d].item] \in {"cancelling", "over"}
          BY <1>1, <3>2 DEF HitTaskStops
        <4>2. CASE cancel[d].item = e
          BY <2>2, <2>3, <4>1, <4>2
        <4>3. CASE cancel[d].item # e
          BY <1>0, <2>2, <4>1, <4>3
        <4>4. QED
          BY <4>2, <4>3
      <3>3. QED
        BY <3>1, <3>2
    <2>9. QED
      BY <1>2, <2>5, <2>6, <2>7, <2>8
  <1>5. CASE CommitCancel(c) \/ LoseCancel(c)
    <2>1. /\ cancel[c].phase = "updating" /\ cancel'[c].phase \in {"cancelled", "error"}
          /\ cancel'[c].hit = cancel[c].hit
          /\ UNCHANGED <<home, task, approvals, aged>>
      BY <1>0, <1>5 DEF CommitCancel, LoseCancel, WriteCancelled, Ends, TypeOK, CancelShape
    <2>2. /\ row'[e] = "cancelled" /\ row[e] # "absent"
          /\ \A d \in Executions \ {e} : row'[d] = row[d]
      BY <1>5, WriteCancelledEffect DEF CommitCancel, LoseCancel, Cancellable
    <2>3. QED
      BY <1>0, <1>1, <1>2, <2>1, <2>2, PolecatAssumption
         DEF AbsentIsUntouched, QueuedBeforeSaved, CompletedIsQueued,
             CancelSawCancellable, HitTaskStops
  <1>6. CASE FailCancel(c)
    <2>1. /\ cancel'[c].phase = "error"
          /\ UNCHANGED <<row, home, task, approvals, aged>>
      BY <1>0, <1>6 DEF FailCancel, Ends, TypeOK, CancelShape
    <2>2. QED
      BY <1>1, <1>2, <2>1 DEF AbsentIsUntouched, QueuedBeforeSaved, CompletedIsQueued,
           CancelSawCancellable, HitTaskStops
  <1>7. QED
    BY <1>3, <1>4, <1>5, <1>6 DEF Serve

LEMMA CoreSweep ==
  ASSUME PolecatInv, TypeOK', Sweep
  PROVE  CoreInv'
  <1> USE DEF PolecatInv, CoreInv, taskVars, cancelVars
  <1>1. CASE BeginSweep
    <2>1. found' \subseteq aged' /\ UNCHANGED <<row, home, task, approvals, cancel, aged>>
      BY <1>1 DEF BeginSweep, Orphaned
    <2>2. QED
      BY <2>1 DEF AbsentIsUntouched, QueuedBeforeSaved, CompletedIsQueued,
           CancelSawCancellable, HitTaskStops, OrphansAreAged
  <1>2. CASE ReadOrphan
    BY <1>2 DEF ReadOrphan, AbsentIsUntouched, QueuedBeforeSaved, CompletedIsQueued,
         CancelSawCancellable, HitTaskStops, OrphansAreAged
  <1>3. ASSUME NEW e \in Executions, CommitOrphan(e) PROVE CoreInv'
    <2>1. /\ found' \subseteq found
          /\ UNCHANGED <<home, task, approvals, cancel, aged>>
      BY <1>3 DEF CommitOrphan
    <2>2. /\ row'[e] \in {row[e], "failed"}
          /\ \A d \in Executions : d # e => row'[d] = row[d]
      BY <1>3, MergedIsEither DEF CommitOrphan, TypeOK
    <2>3. AbsentIsUntouched'
      BY <2>1, <2>2 DEF AbsentIsUntouched
    <2>4. QueuedBeforeSaved' /\ CompletedIsQueued'
      BY <2>1, <2>2, PolecatAssumption DEF QueuedBeforeSaved, CompletedIsQueued
    <2>5. CancelSawCancellable' /\ HitTaskStops' /\ OrphansAreAged'
      BY <2>1 DEF CancelSawCancellable, HitTaskStops, OrphansAreAged
    <2>6. QED
      BY <2>3, <2>4, <2>5
  <1>4. CASE FailSweep
    BY <1>4 DEF FailSweep, AbsentIsUntouched, QueuedBeforeSaved, CompletedIsQueued,
         CancelSawCancellable, HitTaskStops, OrphansAreAged
  <1>5. QED
    BY <1>1, <1>2, <1>3, <1>4 DEF Sweep

LEMMA CoreStep == PolecatInv /\ [Next]_vars => CoreInv'
  <1> SUFFICES ASSUME PolecatInv, [Next]_vars PROVE CoreInv'
    OBVIOUS
  <1>0. TypeOK' /\ \A c \in Cancels : cancel[c].item \in Executions
    BY PolecatTypeStep DEF PolecatInv, CoreInv, TypeOK, CancelShape
  <1>1. ASSUME NEW e \in Executions, NEW p \in Processes, Spawn(e, p) PROVE CoreInv'
    <2>1. /\ row[e] = "absent" /\ row'[e] = "pending" /\ task[e] = "none"
          /\ task'[e] = "spawning"
          /\ \A d \in Executions : d # e => /\ row'[d] = row[d] /\ task'[d] = task[d]
                                            /\ home'[d] = home[d]
          /\ UNCHANGED <<approvals, cancel, aged, found>>
      BY <1>1 DEF Spawn, PolecatInv, CoreInv, TypeOK, AbsentIsUntouched, cancelVars, sweepVars
    <2>2. AbsentIsUntouched' /\ QueuedBeforeSaved' /\ CompletedIsQueued'
      BY <2>1, PolecatAssumption
         DEF PolecatInv, CoreInv, AbsentIsUntouched, QueuedBeforeSaved, CompletedIsQueued
    <2>3. CancelSawCancellable' /\ HitTaskStops' /\ OrphansAreAged'
      BY <1>0, <2>1
         DEF PolecatInv, CoreInv, CancelSawCancellable, HitTaskStops, OrphansAreAged
    <2>4. QED
      BY <1>0, <2>2, <2>3 DEF CoreInv
  <1>2. ASSUME NEW e \in Executions, TaskTurn(e) PROVE CoreInv'
    BY <1>0, <1>2, CoreTask
  <1>3. ASSUME NEW e \in Executions, Age(e) PROVE CoreInv'
    BY <1>0, <1>3 DEF Age, PolecatInv, CoreInv, AbsentIsUntouched, QueuedBeforeSaved,
         CompletedIsQueued, CancelSawCancellable, HitTaskStops, OrphansAreAged,
         taskVars, cancelVars, sweepVars
  <1>4. ASSUME NEW p \in Processes, Crash(p) PROVE CoreInv'
    <2>1. \A e \in Executions : \/ task'[e] = task[e]
                                \/ task'[e] = "over" /\ home[e] \in Processes
      BY <1>4 DEF Crash
    <2>2. \A c \in Cancels :
            /\ cancel'[c].item = cancel[c].item /\ cancel'[c].hit = cancel[c].hit
            /\ cancel'[c].seen = cancel[c].seen
            /\ cancel'[c].phase = cancel[c].phase \/ cancel'[c].phase = "error"
      BY <1>4 DEF Crash, PolecatInv, CoreInv, TypeOK, CancelShape
    <2>3. UNCHANGED <<row, home, approvals, aged, found>>
      BY <1>4 DEF Crash, sweepVars
    <2>4. AbsentIsUntouched' /\ QueuedBeforeSaved' /\ CompletedIsQueued' /\ OrphansAreAged'
      BY <2>1, <2>3, PolecatAssumption
         DEF PolecatInv, CoreInv, AbsentIsUntouched, QueuedBeforeSaved, CompletedIsQueued,
             OrphansAreAged
    <2>5. CancelSawCancellable' /\ HitTaskStops'
      BY <1>0, <2>1, <2>2, <2>3
         DEF PolecatInv, CoreInv, CancelSawCancellable, HitTaskStops
    <2>6. QED
      BY <1>0, <2>4, <2>5 DEF CoreInv
  <1>5. ASSUME NEW c \in Cancels, Serve(c) PROVE CoreInv'
    BY <1>0, <1>5, CoreCancel
  <1>6. CASE Sweep
    BY <1>0, <1>6, CoreSweep
  <1>7. CASE UNCHANGED vars
    BY <1>7 DEF vars, taskVars, cancelVars, sweepVars, PolecatInv, CoreInv, TypeOK,
         AbsentIsUntouched, QueuedBeforeSaved, CompletedIsQueued, CancelSawCancellable,
         HitTaskStops, OrphansAreAged
  <1>8. ASSUME NEW e \in Executions, NEW ph \in DOMAIN Target, LateCommit(e, ph)
        PROVE  CoreInv'
    BY <1>0, <1>8, CoreLate
  <1>9. QED
    BY <1>1, <1>2, <1>3, <1>4, <1>5, <1>6, <1>7, <1>8 DEF Next

-----------------------------------------------------------------------------
(* The second part: what is left behind, and what has been read.           *)

\* A step that leaves alone all that is told of d, or only adds to the queue, to
\* the aged, or (once d is aged) to the row, keeps it.
Untouched(d) == task'[d] = task[d] /\ seen'[d] = seen[d] /\ late'[d] = late[d]
Grow == approvals \subseteq approvals' /\ aged \subseteq aged'

LEMMA UntouchedStays ==
  ASSUME NEW d \in Executions, LeftBehind(d), VerdictIsLast(d), Untouched(d), Grow,
         row'[d] = row[d] \/ d \in aged \/ row'[d] \notin Verdicts
  PROVE  LeftBehind(d)' /\ VerdictIsLast(d)'
  BY DEF LeftBehind, VerdictIsLast, Untouched, Grow

\* A task torn from what it awaits leaves at most the commit it was in.
LEMMA TornStays ==
  ASSUME TypeOK, NEW d \in Executions, LeftBehind(d), VerdictIsLast(d), Grow,
         QueuedBeforeSaved, row'[d] = row[d], seen'[d] = "none", late'[d] = Left(d),
         task'[d] \in Handlers \cup {"over"}
  PROVE  LeftBehind(d)' /\ VerdictIsLast(d)'
  <1>1. \A ph \in DOMAIN Target :
          \/ late'[d][ph] = late[d][ph]
          \/ ph = task[d] /\ late'[d][ph] = seen[d]
    BY LeftShape DEF TypeOK
  <1>2. d \in Sensitive /\ late'[d]["saving"] # "none" => d \in approvals
    BY <1>1, TargetTable DEF LeftBehind, QueuedBeforeSaved
  <1>3. LeftBehind(d)'
    BY <1>2 DEF LeftBehind, Grow
  <1>4. d \notin aged => \A ph \in DOMAIN Target : late'[d][ph] \in Verdicts => ph \in Handlers
    BY <1>1 DEF VerdictIsLast
  <1>5. VerdictIsLast(d)'
    BY <1>4 DEF VerdictIsLast, Grow, Verdicts
  <1>6. QED
    BY <1>3, <1>5

LEMMA LeftTask ==
  ASSUME PolecatInv, NEW e \in Executions, TaskTurn(e), NEW d \in Executions
  PROVE  LeftBehind(d)' /\ VerdictIsLast(d)'
  <1>0. TypeOK /\ LeftBehind(d) /\ VerdictIsLast(d) /\ QueuedBeforeSaved
    BY DEF PolecatInv, CoreInv
  <1>1. Grow
    BY DEF Grow, TaskTurn, CreateTask, BeginTask, ReadRow, CommitRow, Return, Produce, Raise
  <1>2. CASE d # e
    <2>1. Untouched(d) /\ row'[d] = row[d]
      BY <1>0, <1>2 DEF Untouched, TaskTurn, CreateTask, BeginTask, ReadRow, CommitRow,
           Return, Produce, Raise, TypeOK
    <2>2. QED
      BY <1>0, <1>1, <2>1, UntouchedStays
  <1>3. CASE d = e /\ (CreateTask(e) \/ BeginTask(e) \/ Return(e) \/ Produce(e))
    <2>1. /\ seen'[e] = seen[e] /\ late'[e] = late[e] /\ row'[e] = row[e]
          /\ task[e] \notin Handlers \cup {"over"}
          /\ task'[e] \in Handlers \cup {"over"} \/ task[e] # "saved"
      BY <1>0, <1>3 DEF CreateTask, BeginTask, Return, Produce, TypeOK, Handlers
    <2>2. QED
      BY <1>0, <1>1, <1>3, <2>1 DEF LeftBehind, VerdictIsLast, Grow, Handlers
  <1>4. CASE d = e /\ ReadRow(e)
    <2>1. /\ seen'[e] = row[e] /\ late'[e] = late[e] /\ row'[e] = row[e]
          /\ task'[e] = task[e] /\ task[e] \in {"starting", "saving"} \cup Handlers
      BY <1>0, <1>4, TargetTable DEF ReadRow, TypeOK, Handlers
    <2>2. QED
      BY <1>0, <1>1, <1>4, <2>1 DEF LeftBehind, VerdictIsLast, Grow, Handlers
  <1>5. CASE d = e /\ CommitRow(e)
    <2>1. /\ seen'[e] = "none" /\ late'[e] = late[e]
          /\ task[e] \in {"starting", "saving"} \cup Handlers
          /\ task[e] = "starting" => task'[e] = "started" /\ row'[e] \in {row[e], "running"}
          /\ task[e] = "saving" => task'[e] = "saved"
          /\ task[e] \in Handlers => task'[e] = "over"
      BY <1>0, <1>5, CommitRowEffect DEF CommitRow
    <2>2. QED
      BY <1>0, <1>1, <1>5, <2>1 DEF LeftBehind, VerdictIsLast, Grow, Handlers, Verdicts
  <1>6. CASE d = e /\ Raise(e)
    <2>1. /\ row'[e] = row[e] /\ seen'[e] = "none" /\ late'[e] = Left(e)
          /\ task'[e] \in Handlers \cup {"over"}
      BY <1>0, <1>6, ErrorTable DEF Raise, TypeOK, Handlers
    <2>2. QED
      BY <1>0, <1>1, <1>6, <2>1, TornStays
  <1>7. QED
    BY <1>2, <1>3, <1>4, <1>5, <1>6 DEF TaskTurn

LEMMA LeftLate ==
  ASSUME PolecatInv, NEW e \in Executions, NEW ph \in DOMAIN Target, LateCommit(e, ph),
         NEW d \in Executions
  PROVE  LeftBehind(d)' /\ VerdictIsLast(d)'
  <1>0. TypeOK /\ LeftBehind(d) /\ VerdictIsLast(d)
    BY DEF PolecatInv, CoreInv
  <1>1. /\ \A o \in Executions \ {e} : row'[o] = row[o] /\ late'[o] = late[o]
        /\ late[e][ph] # "none"
        /\ \A other \in DOMAIN Target : late'[e][other] \in {late[e][other], "none"}
        /\ UNCHANGED <<task, seen, approvals, aged>>
    BY <1>0, LateCommitEffect DEF LateCommit
  <1>2. CASE d # e
    BY <1>0, <1>1, <1>2, UntouchedStays DEF Untouched, Grow
  <1>3. CASE d = e
    <2>1. LeftBehind(d)'
      BY <1>0, <1>1, <1>3, TargetTable DEF LeftBehind
    <2>2. task[e] \in Handlers \cup {"over"}
      BY <1>0, <1>1, <1>3 DEF LeftBehind
    <2>3. VerdictIsLast(d)'
      BY <1>0, <1>1, <1>3, <2>2 DEF VerdictIsLast, Verdicts
    <2>4. QED
      BY <2>1, <2>3
  <1>4. QED
    BY <1>2, <1>3

LEMMA LeftCancel ==
  ASSUME PolecatInv, NEW c \in Cancels, Serve(c), NEW d \in Executions
  PROVE  LeftBehind(d)' /\ VerdictIsLast(d)'
  <1> DEFINE e == cancel[c].item
  <1>0. /\ TypeOK /\ LeftBehind(d) /\ VerdictIsLast(d) /\ QueuedBeforeSaved
        /\ e \in Executions
    BY DEF PolecatInv, CoreInv, TypeOK, CancelShape
  <1>1. Grow
    BY DEF Grow, Serve, LookUp, CancelTask, CommitCancel, LoseCancel, WriteCancelled,
           FailCancel, taskVars
  <1>2. CASE CancelTask(c)
    <2>1. row' = row
      BY <1>2 DEF CancelTask
    <2>2. \/ Untouched(d)
          \/ seen'[d] = "none" /\ late'[d] = Left(d) /\ task'[d] = OnCancel(task[d])
      BY <1>0, <1>2 DEF CancelTask, Untouched, TypeOK
    <2>3. OnCancel(task[d]) \in Handlers \cup {"over"}
      BY <1>0, ErrorTable DEF TypeOK, Handlers
    <2>4. QED
      BY <1>0, <1>1, <2>1, <2>2, <2>3, UntouchedStays, TornStays
  <1>3. CASE CommitCancel(c) \/ LoseCancel(c)
    <2>1. Untouched(d)
      BY <1>3 DEF CommitCancel, LoseCancel, WriteCancelled, Untouched, taskVars
    <2>2. row'[d] = row[d] \/ row'[d] = "cancelled"
      BY <1>0, <1>3, WriteCancelledEffect DEF CommitCancel, LoseCancel
    <2>3. QED
      BY <1>0, <1>1, <2>1, <2>2, UntouchedStays DEF Verdicts
  <1>4. CASE LookUp(c) \/ FailCancel(c)
    <2>1. Untouched(d) /\ row' = row
      BY <1>4 DEF LookUp, FailCancel, Untouched, taskVars
    <2>2. QED
      BY <1>0, <1>1, <2>1, UntouchedStays
  <1>5. QED
    BY <1>2, <1>3, <1>4 DEF Serve

LEMMA LeftStep ==
  ASSUME PolecatInv, [Next]_vars, NEW d \in Executions
  PROVE  LeftBehind(d)' /\ VerdictIsLast(d)'
  <1>0. /\ TypeOK /\ LeftBehind(d) /\ VerdictIsLast(d) /\ QueuedBeforeSaved
        /\ AbsentIsUntouched /\ OrphansAreAged
    BY DEF PolecatInv, CoreInv
  <1>1. ASSUME NEW e \in Executions, NEW p \in Processes, Spawn(e, p)
        PROVE  LeftBehind(d)' /\ VerdictIsLast(d)'
    <2>1. row[e] = "absent" /\ task[e] = "none"
      BY <1>0, <1>1 DEF Spawn, AbsentIsUntouched
    <2>2. UNCHANGED <<seen, late, approvals, aged>>
      BY <1>1 DEF Spawn
    <2>3. CASE d # e
      BY <1>0, <1>1, <2>2, <2>3, UntouchedStays DEF Spawn, Untouched, Grow, TypeOK
    <2>4. CASE d = e
      <3>1. row'[d] = "pending"
        BY <1>0, <1>1, <2>4 DEF Spawn, TypeOK
      <3>2. \A ph \in DOMAIN Target : late'[d][ph] = "none"
        BY <1>0, <2>1, <2>2, <2>4 DEF LeftBehind, Handlers
      <3>3. d \notin aged => seen[d] \notin Verdicts
        BY <1>0, <2>1, <2>4 DEF VerdictIsLast, Handlers
      <3>4. QED
        BY <2>2, <3>1, <3>2, <3>3, TargetTable DEF LeftBehind, VerdictIsLast, Verdicts
    <2>5. QED
      BY <2>3, <2>4
  <1>2. ASSUME NEW e \in Executions, TaskTurn(e) PROVE LeftBehind(d)' /\ VerdictIsLast(d)'
    BY <1>2, LeftTask
  <1>3. ASSUME NEW e \in Executions, NEW ph \in DOMAIN Target, LateCommit(e, ph)
        PROVE  LeftBehind(d)' /\ VerdictIsLast(d)'
    BY <1>3, LeftLate
  <1>4. ASSUME NEW e \in Executions, Age(e) PROVE LeftBehind(d)' /\ VerdictIsLast(d)'
    BY <1>0, <1>4, UntouchedStays DEF Age, Untouched, Grow, taskVars
  <1>5. ASSUME NEW p \in Processes, Crash(p) PROVE LeftBehind(d)' /\ VerdictIsLast(d)'
    <2>1. Grow /\ row' = row
      BY <1>5 DEF Crash, Grow
    <2>2. \/ Untouched(d)
          \/ seen'[d] = "none" /\ late'[d] = Left(d) /\ task'[d] = "over"
      BY <1>5 DEF Crash, Untouched
    <2>3. QED
      BY <1>0, <2>1, <2>2, UntouchedStays, TornStays
  <1>6. ASSUME NEW c \in Cancels, Serve(c) PROVE LeftBehind(d)' /\ VerdictIsLast(d)'
    BY <1>6, LeftCancel
  <1>7. CASE Sweep
    <2>1. Untouched(d) /\ Grow
      BY <1>7 DEF Sweep, BeginSweep, ReadOrphan, CommitOrphan, FailSweep, Untouched, Grow,
           taskVars
    <2>2. row'[d] = row[d] \/ d \in aged
      BY <1>0, <1>7 DEF Sweep, BeginSweep, ReadOrphan, CommitOrphan, FailSweep,
           OrphansAreAged, TypeOK
    <2>3. QED
      BY <1>0, <2>1, <2>2, UntouchedStays
  <1>8. CASE UNCHANGED vars
    BY <1>0, <1>8, UntouchedStays DEF vars, taskVars, Untouched, Grow
  <1>9. QED
    BY <1>1, <1>2, <1>3, <1>4, <1>5, <1>6, <1>7, <1>8 DEF Next

LEMMA PolecatInvStep == PolecatInv /\ [Next]_vars => PolecatInv'
  BY CoreStep, LeftStep DEF PolecatInv

LEMMA PolecatInvariance == Spec => []PolecatInv
  BY PolecatInvInit, PolecatInvStep, PTL DEF Spec

-----------------------------------------------------------------------------
(* What follows from it.                                                   *)

\* No execution of an always-approve type is COMPLETED in the database before
\* its output is in the approval queue (CompletedIsQueued).
THEOREM OutputIsQueued == Spec => []CompletedIsQueued
  <1>1. PolecatInv => CompletedIsQueued
    BY DEF PolecatInv, CoreInv
  <1>2. QED
    BY <1>1, PolecatInvariance, PTL

\* Who writes the row, and what then holds: the spawn of an execution without a
\* row, its own task, a commit its task left behind, a cancel request that finds
\* no verdict, or the sweep.
LEMMA WhoWrites ==
  ASSUME PolecatInv, [Next]_vars, NEW e \in Executions, row'[e] # row[e]
  PROVE  \/ row[e] = "absent"
         \/ CommitRow(e)
         \/ \E ph \in DOMAIN Target : LateCommit(e, ph)
         \/ row[e] \in Cancellable \cup {"cancelled"} /\ row'[e] = "cancelled"
         \/ e \in aged
  <1> DEFINE Goal == \/ row[e] = "absent"
                     \/ CommitRow(e)
                     \/ \E ph \in DOMAIN Target : LateCommit(e, ph)
                     \/ row[e] \in Cancellable \cup {"cancelled"} /\ row'[e] = "cancelled"
                     \/ e \in aged
  <1>0. TypeOK /\ OrphansAreAged
    BY DEF PolecatInv, CoreInv
  <1>1. ASSUME NEW d \in Executions, NEW p \in Processes, Spawn(d, p) PROVE Goal
    BY <1>0, <1>1 DEF Spawn, TypeOK
  <1>2. ASSUME NEW d \in Executions, TaskTurn(d) PROVE Goal
    <2>1. CommitRow(d)
      BY <1>2 DEF TaskTurn, CreateTask, BeginTask, ReadRow, Return, Produce, Raise
    <2>2. QED
      BY <1>0, <2>1, CommitRowEffect
  <1>3. ASSUME NEW d \in Executions, NEW ph \in DOMAIN Target, LateCommit(d, ph) PROVE Goal
    BY <1>0, <1>3, LateCommitEffect
  <1>4. ASSUME NEW d \in Executions, Age(d) PROVE Goal
    BY <1>4 DEF Age
  <1>5. ASSUME NEW p \in Processes, Crash(p) PROVE Goal
    BY <1>5 DEF Crash
  <1>6. ASSUME NEW c \in Cancels, Serve(c) PROVE Goal
    <2>1. WriteCancelled(c)
      BY <1>6 DEF Serve, LookUp, CancelTask, CommitCancel, LoseCancel, FailCancel
    <2>2. QED
      BY <2>1, WriteCancelledEffect
  <1>7. CASE Sweep
    BY <1>0, <1>7 DEF Sweep, BeginSweep, ReadOrphan, CommitOrphan, FailSweep,
         OrphansAreAged, TypeOK
  <1>8. CASE UNCHANGED vars
    BY <1>8 DEF vars
  <1>9. QED
    BY <1>1, <1>2, <1>3, <1>4, <1>5, <1>6, <1>7, <1>8 DEF Next

\* A cancel that found its task and was acknowledged holds against whatever the
\* task, its handlers and the other requests still write; only the sweep, or a
\* commit under way that had itself read CANCELLED, takes it back
\* (DeliveredCancelSticks).
THEOREM DeliveredCancelsStick == Spec => DeliveredCancelSticks
  <1> DEFINE Sticks ==
        \A c \in Cancels :
          LET e == cancel[c].item
          IN  Undone(c)' /\ ~Undone(c)
                => e \in aged \/ \E ph \in DOMAIN Target : late[e][ph] = "cancelled"
  <1>1. PolecatInv /\ [Next]_vars => [Sticks]_vars
    <2> SUFFICES ASSUME PolecatInv, [Next]_vars, NEW c \in Cancels, Undone(c)', ~Undone(c)
                 PROVE  \/ cancel[c].item \in aged
                        \/ \E ph \in DOMAIN Target : late[cancel[c].item][ph] = "cancelled"
      OBVIOUS
    <2> DEFINE e == cancel[c].item
    <2>1. TypeOK /\ HitTaskStops /\ e \in Executions
      BY DEF PolecatInv, CoreInv, TypeOK, CancelShape
    <2>2. CASE cancel'[c] = cancel[c]
      <3>1. /\ row[e] = "cancelled" /\ row'[e] # "cancelled"
            /\ task[e] \in {"cancelling", "over"}
        BY <2>1, <2>2 DEF Undone, HitTaskStops
      <3>2. ~CommitRow(e)
        BY <2>1, <3>1, CommitRowEffect DEF Handlers
      <3>3. \A ph \in DOMAIN Target : LateCommit(e, ph) => late[e][ph] = "cancelled"
        BY <2>1, <3>1, LateCommitEffect
      <3>4. QED
        BY <2>1, <3>1, <3>2, <3>3, WhoWrites
    <2>3. CASE cancel'[c] # cancel[c]
      <3>1. ASSUME NEW d \in Cancels, Serve(d) PROVE FALSE
        <4>1. d = c /\ CommitCancel(c) /\ cancel'[c].item = e
          BY <2>1, <2>3, <3>1 DEF Serve, LookUp, CancelTask, CommitCancel, LoseCancel,
               FailCancel, Ends, Undone, TypeOK, CancelShape
        <4>2. row'[e] = "cancelled"
          BY <4>1, WriteCancelledEffect DEF CommitCancel
        <4>3. QED
          BY <4>1, <4>2 DEF Undone
      <3>2. ASSUME NEW p \in Processes, Crash(p) PROVE FALSE
        BY <2>1, <2>3, <3>2 DEF Crash, Undone, TypeOK, CancelShape
      <3>3. QED
        BY <2>3, <3>1, <3>2 DEF Next, TaskTurn, CreateTask, BeginTask, ReadRow, CommitRow,
             Return, Produce, Raise, LateCommit, Age, Spawn, Sweep, BeginSweep, ReadOrphan,
             CommitOrphan, FailSweep, cancelVars, vars
    <2>4. QED
      BY <2>2, <2>3
  <1>2. QED
    BY <1>1, PolecatInvariance, PTL DEF Spec, DeliveredCancelSticks, Sticks

\* Nobody but the handlers of the execution itself, and the orphan sweep, puts
\* another status over COMPLETED or FAILED (VerdictsStand): a cancel request that
\* read the row before the verdict is refused, and so is a commit of RUNNING or
\* COMPLETED that a torn task left under way.
THEOREM VerdictsStandHold == Spec => VerdictsStand
  <1> DEFINE Stand ==
        \A e \in Executions :
          row[e] \in Verdicts /\ row'[e] # row[e] => e \in aged \/ Handling(e)
  <1>1. PolecatInv /\ [Next]_vars => [Stand]_vars
    <2> SUFFICES ASSUME PolecatInv, [Next]_vars, NEW e \in Executions,
                        row[e] \in Verdicts, row'[e] # row[e], e \notin aged
                 PROVE  Handling(e)
      OBVIOUS
    <2>1. TypeOK /\ VerdictIsLast(e)
      BY DEF PolecatInv, CoreInv
    <2>2. CASE CommitRow(e)
      BY <2>1, <2>2, CommitRowEffect DEF VerdictIsLast, Handling, Handlers
    <2>3. ASSUME NEW ph \in DOMAIN Target, LateCommit(e, ph) PROVE Handling(e)
      <3>1. late[e][ph] # "none" /\ late[e][ph] = row[e]
        BY <2>1, <2>3, LateCommitEffect
      <3>2. QED
        BY <2>1, <3>1 DEF VerdictIsLast, Handling, Handlers
    <2>4. QED
      BY <2>2, <2>3, WhoWrites DEF Verdicts, Cancellable
  <1>2. QED
    BY <1>1, PolecatInvariance, PTL DEF Spec, VerdictsStand, Stand
=============================================================================
