--------------------------- MODULE ConvoyContract ---------------------------
(***************************************************************************)
(* What the convoy executor promises, whatever tasks it uses to do it: a   *)
(* step starts only in a started convoy and only after its dependencies    *)
(* succeeded, a convoy completes only when every step has succeeded and    *)
(* fails only when every step has been tried, and that verdict is final.   *)
(***************************************************************************)
CONSTANTS Convoys, StepIds, Plans

VARIABLES
  phase,      (* phase[c] \in {"absent", "draft", "active",
                               "completed", "failed"}                      *)
  plan,       (* plan[c]: the plan of convoy c                             *)
  started,    (* started[c]: the steps begun so far                        *)
  succeeded   (* succeeded[c]: the steps that have succeeded               *)

vars == <<phase, plan, started, succeeded>>

Provided(c) ==
  succeeded[c] \cup {plan[c].polecat_type[s] : s \in succeeded[c]}

Init ==
  /\ phase = [c \in Convoys |-> "absent"]
  /\ plan \in [Convoys -> Plans]
  /\ started = [c \in Convoys |-> {}]
  /\ succeeded = [c \in Convoys |-> {}]

Create(c) ==
  /\ phase[c] = "absent"
  /\ phase' = [phase EXCEPT ![c] = "draft"]
  /\ UNCHANGED <<plan, started, succeeded>>

Activate(c) ==
  /\ phase[c] = "draft"
  /\ phase' = [phase EXCEPT ![c] = "active"]
  /\ UNCHANGED <<plan, started, succeeded>>

StartStep(c, s) ==
  /\ phase[c] = "active"
  /\ s \in plan[c].steps \ started[c]
  /\ plan[c].depends_on[s] \subseteq Provided(c)
  /\ started' = [started EXCEPT ![c] = @ \cup {s}]
  /\ UNCHANGED <<phase, plan, succeeded>>

\* The verdicts open to a convoy whose steps `done` have succeeded.
Verdict(c, done) ==
  \/ phase' = phase
  \/ /\ phase[c] = "active" /\ plan[c].steps \subseteq done
     /\ phase' = [phase EXCEPT ![c] = "completed"]
  \/ /\ phase[c] = "active" /\ plan[c].steps \subseteq started[c]
     /\ phase' = [phase EXCEPT ![c] = "failed"]

StepSucceeds(c, s) ==
  /\ s \in started[c]
  /\ succeeded' = [succeeded EXCEPT ![c] = @ \cup {s}]
  /\ Verdict(c, succeeded[c] \cup {s})
  /\ UNCHANGED <<plan, started>>

StepFails(c, s) ==
  /\ s \in started[c]
  /\ Verdict(c, succeeded[c])
  /\ UNCHANGED <<plan, started, succeeded>>

Next ==
  \E c \in Convoys :
    \/ Create(c) \/ Activate(c)
    \/ \E s \in StepIds : StartStep(c, s) \/ StepSucceeds(c, s) \/ StepFails(c, s)

Spec == Init /\ [][Next]_vars
=============================================================================
