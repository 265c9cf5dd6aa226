--------------------------- MODULE PolecatExecution --------------------------
(***************************************************************************)
(* Polecats spawned through the API: apps/api/routers/polecats.py,         *)
(* apps/api/core/polecat_store.py and the orphan sweep of                  *)
(* apps/api/core/deacon.py.                                                *)
(*                                                                         *)
(* Each execution is a row of polecat_executions and an asyncio task of    *)
(* the API replica that spawned it.  Only that replica can cancel the task *)
(* (the _tasks dict is its own); every replica, and the Deacon, writes the *)
(* row.  Every write first reads the row, and commits against what it has  *)
(* read: a commit is refused when another one changed the status since.    *)
(***************************************************************************)
CONSTANTS
  Executions,   (* the ids of the executions                               *)
  Sensitive,    (* those of a type in ALWAYS_REQUIRE_APPROVAL              *)
  Processes,    (* the API replicas                                        *)
  Cancels,      (* bound: the cancel requests served                       *)
  NoProcess

ASSUME PolecatAssumption ==
  /\ Sensitive \subseteq Executions
  /\ NoProcess \notin Processes

PolecatStatus == {"pending", "running", "completed", "failed", "cancelled"}
Verdicts == {"completed", "failed"}
Cancellable == {"pending", "running"}

\* Where execute_polecat stands.  It writes the row in starting, saving,
\* failing and cancelling; in started and saved the commit took effect and
\* the task has not heard of it yet.
TaskPhase == {"none", "spawning", "created", "starting", "started", "working",
              "saving", "saved", "failing", "cancelling", "over"}

\* What the database holds for an execution, and what a transaction has read.
RowStatus == {"absent"} \cup PolecatStatus
Seen == {"none"} \cup RowStatus

VARIABLES
  row,        (* row[e]: the status committed for e, or "absent"            *)
  home,       (* home[e]: the replica that spawned e                        *)
  task,       (* task[e]: the phase of its task                             *)
  seen,       (* seen[e]: the status its open transaction read, or "none"   *)
  late,       (* late[e][ph]: the status read by the transaction of phase   *)
              (* ph whose COMMIT the server may still carry out, although   *)
              (* the task does not wait for it any more, or "none"          *)
  registered, (* the executions in the _tasks dict of their replica         *)
  approvals,  (* the executions with an item in the approval queue          *)
  aged,       (* the executions that started more than 30 minutes ago       *)
  cancel,     (* cancel[c]: a cancel request (see CancelShape)              *)
  found,      (* the orphans the sweep's SELECT found and is yet to fail    *)
  look        (* the rows the sweep's open transaction shows, or NoRows     *)

taskVars == <<task, seen, late, approvals>>
cancelVars == <<cancel, registered>>
sweepVars == <<found, look>>
vars == <<row, home, taskVars, cancelVars, aged, sweepVars>>

\* A request to cancel `item` arrives at replica `at`; `hit` says whether it
\* found the item in that replica's _tasks.
CancelShape == [phase : {"idle", "looking", "updating", "cancelled", "refused",
                         "error"},
                item : Executions, at : Processes, seen : Seen, hit : BOOLEAN]
-----------------------------------------------------------------------------
NoRows == [e \in {} |-> "none"]

\* The commit of a transaction that read `old` and sets the status to `new`,
\* when `now` is the committed status: refused, or merged.
Refused(old, new, now) == new # old /\ now \notin {old, new}
Merged(old, new, now) == IF new # old THEN new ELSE now

\* Faulty variant: a handler writes a status the enumeration does not have.
Target_Unlisted == [starting |-> "running", saving |-> "completed",
                    failing |-> "error", cancelling |-> "cancelled"]

\* What the task writes in each phase that writes, and where it goes then.
Target == [starting |-> "running", saving |-> "completed",
           failing |-> "failed", cancelling |-> "cancelled"]
After == [starting |-> "started", saving |-> "saved",
          failing |-> "over", cancelling |-> "over"]

\* Where an exception, or a cancellation, takes the task: execute_polecat
\* handles both only inside its try block, and nothing inside the handlers.
OnError(ph) == IF ph \in {"working", "saving", "saved"} THEN "failing" ELSE "over"
OnCancel(ph) == IF ph \in {"working", "saving", "saved"} THEN "cancelling" ELSE "over"

\* What the task leaves under way on the server when it is torn from the await
\* of a commit.
NothingLate == [ph \in DOMAIN Target |-> "none"]
Left(e) == IF task[e] \in DOMAIN Target
           THEN [late[e] EXCEPT ![task[e]] = seen[e]] ELSE late[e]

Init ==
  /\ row = [e \in Executions |-> "absent"]
  /\ home = [e \in Executions |-> NoProcess]
  /\ task = [e \in Executions |-> "none"]
  /\ seen = [e \in Executions |-> "none"]
  /\ late = [e \in Executions |-> NothingLate]
  /\ registered = {}
  /\ approvals = {}
  /\ aged = {}
  /\ cancel \in [Cancels -> {r \in CancelShape : r.phase = "idle" /\ r.seen = "none" /\ ~r.hit}]
  /\ found = {}
  /\ look = NoRows

\* spawn_polecat: the row is committed ...
Spawn(e, p) ==
  /\ row[e] = "absent"
  /\ row' = [row EXCEPT ![e] = "pending"]
  /\ home' = [home EXCEPT ![e] = p]
  /\ task' = [task EXCEPT ![e] = "spawning"]
  /\ UNCHANGED <<seen, late, approvals, cancelVars, aged, sweepVars>>

\* ... then the task created and registered.
CreateTask(e) ==
  /\ task[e] = "spawning"
  /\ task' = [task EXCEPT ![e] = "created"]
  /\ registered' = registered \cup {e}
  /\ UNCHANGED <<row, home, seen, late, approvals, cancel, aged, sweepVars>>

\* First turn of execute_polecat, up to the write of RUNNING.
BeginTask(e) ==
  /\ task[e] = "created"
  /\ task' = [task EXCEPT ![e] = "starting"]
  /\ UNCHANGED <<row, home, seen, late, approvals, cancelVars, aged, sweepVars>>

\* update_status reads the row ...
ReadRow(e) ==
  /\ task[e] \in DOMAIN Target /\ seen[e] = "none"
  /\ seen' = [seen EXCEPT ![e] = row[e]]
  /\ UNCHANGED <<row, home, task, late, approvals, cancelVars, aged, sweepVars>>

\* ... and writes it back with the new status, whatever the one it read.
CommitRow(e) ==
  LET new == Target[task[e]]
  IN  /\ task[e] \in DOMAIN Target /\ seen[e] # "none"
      /\ ~Refused(seen[e], new, row[e])
      /\ row' = [row EXCEPT ![e] = Merged(seen[e], new, row[e])]
      /\ task' = [task EXCEPT ![e] = After[task[e]]]
      /\ seen' = [seen EXCEPT ![e] = "none"]
      /\ UNCHANGED <<home, late, approvals, cancelVars, aged, sweepVars>>

\* The write of RUNNING, or of COMPLETED, returns.
Return(e) ==
  /\ task[e] \in {"started", "saved"}
  /\ task' = [task EXCEPT ![e] = IF @ = "started" THEN "working" ELSE "over"]
  /\ UNCHANGED <<row, home, seen, late, approvals, cancelVars, aged, sweepVars>>

\* Faulty variant: the always-approve list is not consulted.
Produce_Unlisted(e) ==
  /\ task[e] = "working"
  /\ task' = [task EXCEPT ![e] = "saving"]
  /\ approvals' \in {approvals, approvals \cup {e}}
  /\ UNCHANGED <<row, home, seen, late, cancelVars, aged, sweepVars>>

\* The polecat (or the fallback call) answers; its output is queued for
\* approval if its type, the Refinery or the Witness asks for it.
Produce(e) ==
  /\ task[e] = "working"
  /\ task' = [task EXCEPT ![e] = "saving"]
  /\ approvals' \in {approvals \cup {e}} \cup (IF e \in Sensitive THEN {} ELSE {approvals})
  /\ UNCHANGED <<row, home, seen, late, cancelVars, aged, sweepVars>>

\* What the task awaits raises: the LLM call, the insert of the approval item
\* (its commit may have taken effect), a read or commit refused or unanswered.
Raise(e) ==
  /\ task[e] \in {"starting", "started", "working", "saving", "saved",
                  "failing", "cancelling"}
  /\ task' = [task EXCEPT ![e] = OnError(@)]
  /\ seen' = [seen EXCEPT ![e] = "none"]
  /\ late' = [late EXCEPT ![e] = Left(e)]
  /\ approvals' \in {approvals} \cup (IF task[e] = "working" THEN {approvals \cup {e}} ELSE {})
  /\ UNCHANGED <<row, home, cancelVars, aged, sweepVars>>

\* The server carries out a COMMIT that nobody waits for any more.
LateCommit(e, ph) ==
  LET old == late[e][ph]
      new == Target[ph]
  IN  /\ old # "none" /\ ~Refused(old, new, row[e])
      /\ row' = [row EXCEPT ![e] = Merged(old, new, row[e])]
      /\ late' = [late EXCEPT ![e][ph] = "none"]
      /\ UNCHANGED <<home, task, seen, approvals, cancelVars, aged, sweepVars>>

TaskTurn(e) == \/ CreateTask(e) \/ BeginTask(e) \/ ReadRow(e) \/ CommitRow(e)
               \/ Return(e) \/ Produce(e) \/ Raise(e)

\* Replica p dies and restarts: its tasks, _tasks and requests are gone.
Crash(p) ==
  LET lost == {e \in Executions : home[e] = p}
  IN  /\ \E e \in lost : task[e] # "over"
      /\ task' = [e \in Executions |-> IF e \in lost THEN "over" ELSE task[e]]
      /\ seen' = [e \in Executions |-> IF e \in lost THEN "none" ELSE seen[e]]
      /\ late' = [e \in Executions |-> IF e \in lost THEN Left(e) ELSE late[e]]
      /\ registered' = registered \ lost
      /\ cancel' = [c \in Cancels |->
                     IF cancel[c].at = p /\ cancel[c].phase \in {"looking", "updating"}
                     THEN [cancel[c] EXCEPT !.phase = "error"] ELSE cancel[c]]
      /\ UNCHANGED <<row, home, approvals, aged, sweepVars>>
-----------------------------------------------------------------------------
\* Faulty variant: the route does not look at the status.
LookUp_AnyStatus(c) ==
  LET now == row[cancel[c].item]
  IN  /\ cancel[c].phase = "idle" /\ now # "absent"
      /\ cancel' = [cancel EXCEPT ![c].phase = "looking", ![c].seen = now]
      /\ UNCHANGED <<row, home, taskVars, registered, aged, sweepVars>>

\* cancel_polecat reads the row and refuses what is not pending or running.
\* The read of PolecatStore.cancel is of the same transaction: it sees this.
LookUp(c) ==
  LET now == row[cancel[c].item]
  IN  /\ cancel[c].phase = "idle" /\ now # "absent"
      /\ cancel' = IF now \in Cancellable
                   THEN [cancel EXCEPT ![c].phase = "looking", ![c].seen = now]
                   ELSE [cancel EXCEPT ![c].phase = "refused"]
      /\ UNCHANGED <<row, home, taskVars, registered, aged, sweepVars>>

\* Faulty variant: the task is dropped from _tasks without being cancelled.
CancelTask_Forgotten(c) ==
  LET e == cancel[c].item
      hit == e \in registered /\ home[e] = cancel[c].at
  IN  /\ cancel[c].phase = "looking"
      /\ cancel' = [cancel EXCEPT ![c].phase = "updating", ![c].hit = hit]
      /\ registered' = IF hit THEN registered \ {e} ELSE registered
      /\ UNCHANGED <<row, home, taskVars, aged, sweepVars>>

\* PolecatStore.cancel: if this replica holds the task, cancel and forget it.
CancelTask(c) ==
  LET e == cancel[c].item
      hit == e \in registered /\ home[e] = cancel[c].at
  IN  /\ cancel[c].phase = "looking"
      /\ cancel' = [cancel EXCEPT ![c].phase = "updating", ![c].hit = hit]
      /\ registered' = IF hit THEN registered \ {e} ELSE registered
      /\ task' = IF hit THEN [task EXCEPT ![e] = OnCancel(@)] ELSE task
      /\ seen' = IF hit THEN [seen EXCEPT ![e] = "none"] ELSE seen
      /\ late' = IF hit THEN [late EXCEPT ![e] = Left(e)] ELSE late
      /\ UNCHANGED <<row, home, approvals, aged, sweepVars>>

\* Then it writes CANCELLED, over what it read ...
WriteCancelled(c) ==
  LET e == cancel[c].item
  IN  /\ cancel[c].phase = "updating"
      /\ ~Refused(cancel[c].seen, "cancelled", row[e])
      /\ row' = [row EXCEPT ![e] = Merged(cancel[c].seen, "cancelled", row[e])]
      /\ UNCHANGED <<home, taskVars, registered, aged, sweepVars>>

Ends(c, answer) == cancel' = [cancel EXCEPT ![c].phase = answer]

\* ... and the route answers "cancelled", unless the answer of the commit is lost.
CommitCancel(c) == WriteCancelled(c) /\ Ends(c, "cancelled")
LoseCancel(c) == WriteCancelled(c) /\ Ends(c, "error")

\* A read or commit of the request is refused or fails.
FailCancel(c) ==
  /\ cancel[c].phase \in {"looking", "updating"}
  /\ Ends(c, "error")
  /\ UNCHANGED <<row, home, taskVars, registered, aged, sweepVars>>

Serve(c) == \/ LookUp(c) \/ CancelTask(c) \/ CommitCancel(c)
            \/ FailCancel(c) \/ LoseCancel(c)
-----------------------------------------------------------------------------
\* 30 minutes have passed since execution e was created.
Age(e) ==
  /\ row[e] # "absent" /\ e \notin aged
  /\ aged' = aged \cup {e}
  /\ UNCHANGED <<row, home, taskVars, cancelVars, sweepVars>>

\* Faulty variant: get_orphaned looks for pending rows.
Orphaned_Pending(e) == row[e] = "pending" /\ e \in aged

Orphaned(e) == row[e] = "running" /\ e \in aged

\* _clean_orphaned_polecats: get_orphaned opens a transaction, in which the
\* first orphan is also read again.
BeginSweep ==
  /\ found = {}
  /\ found' = {e \in Executions : Orphaned(e)}
  /\ found' # {}
  /\ look' = row
  /\ UNCHANGED <<row, home, taskVars, cancelVars, aged>>

\* Each later orphan is read in a transaction of its own; its status is not
\* compared with anything.
ReadOrphan ==
  /\ found # {} /\ look = NoRows
  /\ look' = row
  /\ UNCHANGED <<row, home, taskVars, cancelVars, aged, found>>

CommitOrphan(e) ==
  /\ e \in found /\ look # NoRows
  /\ ~Refused(look[e], "failed", row[e])
  /\ row' = [row EXCEPT ![e] = Merged(look[e], "failed", row[e])]
  /\ found' = found \ {e}
  /\ look' = NoRows
  /\ UNCHANGED <<home, taskVars, cancelVars, aged>>

\* One refused or failed write ends the sweep.
FailSweep ==
  /\ found # {}
  /\ found' = {} /\ look' = NoRows
  /\ UNCHANGED <<row, home, taskVars, cancelVars, aged>>

Sweep == BeginSweep \/ ReadOrphan \/ (\E e \in Executions : CommitOrphan(e)) \/ FailSweep

Next ==
  \/ \E e \in Executions : \/ \E p \in Processes : Spawn(e, p)
                           \/ TaskTurn(e)
                           \/ \E ph \in DOMAIN Target : LateCommit(e, ph)
                           \/ Age(e)
  \/ \E p \in Processes : Crash(p)
  \/ \E c \in Cancels : Serve(c)
  \/ Sweep

Spec == Init /\ [][Next]_vars

\* Time passes; the Deacon sweeps every 15 minutes and the database does not
\* refuse it for ever.  Nothing is assumed of the tasks and the requests.
FairSpec ==
  /\ Spec
  /\ WF_vars(Sweep)
  /\ \A e \in Executions : WF_vars(Age(e)) /\ SF_vars(CommitOrphan(e))
-----------------------------------------------------------------------------
\* Properties.

\* Every variable has its shape.
TypeOK ==
  /\ row \in [Executions -> RowStatus]
  /\ home \in [Executions -> Processes \cup {NoProcess}]
  /\ task \in [Executions -> TaskPhase]
  /\ seen \in [Executions -> Seen]
  /\ late \in [Executions -> [DOMAIN Target -> Seen]]
  /\ registered \subseteq Executions
  /\ approvals \subseteq Executions
  /\ aged \subseteq Executions
  /\ cancel \in [Cancels -> CancelShape]
  /\ found \subseteq Executions
  /\ look \in {NoRows} \cup [Executions -> RowStatus]

\* An execution of an always-approve type is never shown as completed before
\* its output is in the approval queue, whoever cancels, sweeps or crashes.
CompletedIsQueued ==
  \A e \in Sensitive : row[e] = "completed" => e \in approvals

\* A cancel that found its task, and was answered "cancelled", sticks: what the
\* task, its handlers or other requests still write leaves the execution
\* CANCELLED.  The orphan sweep may take it out, 30 minutes after the start, and
\* so may a commit of the task, under way when the cancel came, that had itself
\* read CANCELLED: another cancel, which missed the task, was there before.
Undone(c) ==
  cancel[c].phase = "cancelled" /\ cancel[c].hit /\ row[cancel[c].item] # "cancelled"

DeliveredCancelSticks ==
  [][\A c \in Cancels :
       LET e == cancel[c].item
       IN  Undone(c)' /\ ~Undone(c)
             => e \in aged \/ \E ph \in DOMAIN Target : late[e][ph] = "cancelled"]_vars

\* COMPLETED and FAILED are overruled by nobody but the execution's own
\* handlers, which write their status whatever the row says (an error, or a
\* cancel, reached the task before it had heard of its own commit), and by the
\* orphan sweep.  A cancel request itself never is what overrules one, though
\* it may have read the row while it said RUNNING.
Handling(e) == \E ph \in {"failing", "cancelling"} : task[e] = ph \/ late[e][ph] # "none"

VerdictsStand ==
  [][\A e \in Executions :
       row[e] \in Verdicts /\ row'[e] # row[e] => e \in aged \/ Handling(e)]_vars

\* No execution stays RUNNING for ever, although the replica that ran it may
\* have died: the Deacon's sweep catches what nobody finishes.
RunningSettles ==
  \A e \in Executions : row[e] = "running" ~> row[e] # "running"

\* "Polecat execution cancelled" (routers/polecats.py:513): what was answered
\* "cancelled" stays cancelled.  The code breaks this: a replica without the
\* task writes the row and leaves the task running.
CancelledStaysCancelled ==
  \A c \in Cancels :
    cancel[c].phase = "cancelled" => row[cancel[c].item] = "cancelled"
=============================================================================
