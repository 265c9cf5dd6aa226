--------------------------- MODULE ConvoyEventLoop --------------------------
(***************************************************************************)
(* ConvoyExecutor under the scheduling of one asyncio event loop.          *)
(*                                                                         *)
(* ConvoyExecutor lets any runnable task take the next turn.  Here the     *)
(* turns come from the loop's FIFO queue of ready callbacks: create_task   *)
(* appends the new task, the end of an LLM call or of an insert appends    *)
(* the task that awaits it.  A task created while other wake-ups wait in   *)
(* the queue takes its first turn after them.                              *)
(***************************************************************************)
EXTENDS ConvoyExecutor, SequencesExt

VARIABLE loop   \* the ready queue: the tasks with a turn to take, in order

loopVars == <<vars, loop>>

Created == {t \in Tasks : task[t] # "created" /\ task'[t] = "created"}

LoopInit == Init /\ loop = <<>>

\* What task t awaits (its polecat or its insert) returns or raises.
WakeUp(t) ==
  /\ task[t] \in Begun
  /\ ~ \E i \in DOMAIN loop : loop[i] = t
  /\ loop' = Append(loop, t)
  /\ UNCHANGED vars

\* The loop runs the callback at the head of its queue up to its next await.
RunCallback ==
  /\ loop # <<>>
  /\ LET t == Head(loop)
     IN  BeginStep(t) \/ RequireApproval(t) \/ CompleteStep(t) \/ FailStep(t)
  /\ \E new \in SetToSeqs(Created) : loop' = Tail(loop) \o new

\* The chat handler runs start_convoy in a callback of its own request.
LoopStartConvoy(c) ==
  /\ StartConvoy(c)
  /\ \E new \in SetToSeqs(Created) : loop' = loop \o new

LoopNext ==
  \/ \E c \in Convoys : (CreateConvoy(c) /\ UNCHANGED loop) \/ LoopStartConvoy(c)
  \/ \E t \in Tasks : WakeUp(t)
  \/ \E t \in Tasks : /\ ~ \E i \in DOMAIN loop : loop[i] = t
                      /\ CommitApproval(t) /\ UNCHANGED loop
  \/ RunCallback

LoopSpec == LoopInit /\ [][LoopNext]_loopVars
=============================================================================
