----------------------------- MODULE PolecatRuns -----------------------------
(***************************************************************************)
(* Runs of polecats: BasePolecat.run of polecats/base.py, as the API calls *)
(* it (apps/api/routers/polecats.py) and as a Temporal worker does         *)
(* (PolecatWorkflow and its activities in polecats/runner.py).             *)
(*                                                                         *)
(* The API's call is one await of execute_polecat, whose handlers are      *)
(* module PolecatExecution.  A workflow is carried by the Temporal server: *)
(* each activity is an attempt on some worker, which the server gives up   *)
(* after its timeout and schedules again; an attempt given up may still be *)
(* running, but as the activities write nothing it has no effect to model. *)
(* That goes for all three: update_execution_status_activity and           *)
(* queue_for_approval_activity are stubs, which log and return.  A         *)
(* workflow shows no status and queues no output: what it has to tell is   *)
(* its answer.                                                             *)
(***************************************************************************)
EXTENDS Polecats, QualityGates

CONSTANTS
  Ledger,      (* the beads of the organization: bead id -> BeadShape        *)
  Malformed,   (* an id that is no UUID                                      *)
  Contents,    (* what LLM calls may answer, as the gates see it             *)
  NoContent    (* no answer yet                                              *)

ASSUME RunsAssumption ==
  /\ Contents \subseteq ContentShape /\ NoContent \notin Contents
  /\ Ledger \in [DOMAIN Ledger -> BeadShape] /\ Malformed \notin DOMAIN Ledger

VARIABLES
  world,  (* fixed: loaded, whether the workers' process has imported the    *)
          (* rigs; texts, what the LLM may answer; run_attempts, the         *)
          (* maximum_attempts of execute_polecat_activity, 3 in the code     *)
  runs    (* the runs so far, in the order of their spawning                 *)

RunPhase == {"starting",    (* a workflow whose first report is not logged    *)
             "calling",     (* the call or the attempt has not looked up its  *)
                            (* class and bead                                 *)
             "loaded",      (* it has its bead's data and asks the LLM        *)
             "queueing",    (* the workflow logs that its output must wait    *)
             "reporting",   (* and logs how it ended                          *)
             "failing",     (* or logs "failed" and raises                    *)
             "done", "raised"}
Ended == {"done", "raised"}

\* gated: the refinery and the witness have seen the output.
Answer(success, requires_approval, gated) ==
  [success |-> success, requires_approval |-> requires_approval, gated |-> gated]

\* What run() returns after an exception, and what an unknown class gives.
NoSuccess == Answer(FALSE, FALSE, FALSE)

NoBead == [type |-> "none", title |-> "null", meta_description |-> "null",
           email |-> FALSE, pitched |-> FALSE, versions |-> 0]

\* MockBeadStore has a bead of any kind for any id, with a title made of the
\* type and the campaign, no description and no history.
MockBeads(bead_type) ==
  {[type |-> bead_type, title |-> t, meta_description |-> "misfits",
    email |-> FALSE, pitched |-> FALSE, versions |-> 0] : t \in {"fits", "misfits"}}

\* get_bead finds a bead in the table of the class's kind only.
Found(class, id) == id \in DOMAIN Ledger /\ Ledger[id].type = class.bead_type

\* The types routers/polecats.py always queues, whatever the class says.
ALWAYS_REQUIRE_APPROVAL ==
  {"pitch_draft", "journalist_research", "sms_draft", "winner_declare"}
-----------------------------------------------------------------------------
NewRun(caller, request, phase) ==
  [caller |-> caller, rig |-> request.rig, task |-> request.task,
   bead_id |-> request.bead, phase |-> phase, attempt |-> 1, bead |-> NoBead,
   content |-> NoContent, answer |-> NoSuccess]

\* The class as the process that runs it finds it: the API imports every rig
\* with the convoy executor, python -m polecats.runner imports none.
ClassOf(r) ==
  IF r.caller = "api" \/ world.loaded THEN get_polecat_class(r.rig, r.task) ELSE NoPolecat

Becomes(e, r) == runs' = [runs EXCEPT ![e] = r]

\* run() has its result: the API's call is over; the workflow goes through the
\* queueing of what needs approval, then reports.
AfterRun(r) ==
  IF r.caller = "api" THEN "done"
  ELSE IF r.answer.requires_approval THEN "queueing" ELSE "reporting"

Returns(e, answer, content) ==
  LET r == [runs[e] EXCEPT !.answer = answer, !.content = content]
  IN  Becomes(e, [r EXCEPT !.phase = AfterRun(r)])
-----------------------------------------------------------------------------
ReportRunning(e) ==
  /\ runs[e].phase = "starting"
  /\ Becomes(e, [runs[e] EXCEPT !.phase = "calling"])

\* The worker answers for a class it does not know.
UnknownClass(e) ==
  /\ runs[e].phase = "calling" /\ runs[e].caller = "temporal"
  /\ ClassOf(runs[e]) = NoPolecat
  /\ Returns(e, NoSuccess, NoContent)

\* The API asks the LLM itself: no bead, no gates.
Fallback(e) ==
  /\ runs[e].phase = "calling" /\ runs[e].caller = "api"
  /\ ClassOf(runs[e]) = NoPolecat
  /\ \/ \E c \in world.texts :
          Returns(e, Answer(TRUE, runs[e].task \in ALWAYS_REQUIRE_APPROVAL, FALSE), c)
     \/ Becomes(e, [runs[e] EXCEPT !.phase = "raised"])

\* _load_context; a bead that is not found is an exception, which run() catches.
LoadContext(e) ==
  LET r == runs[e]
      class == ClassOf(r)
  IN  /\ r.phase = "calling" /\ class # NoPolecat /\ r.bead_id # Malformed
      /\ IF r.caller = "api"
         THEN \E b \in MockBeads(class.bead_type) :
                Becomes(e, [r EXCEPT !.phase = "loaded", !.bead = b])
         ELSE IF Found(class, r.bead_id)
         THEN Becomes(e, [r EXCEPT !.phase = "loaded", !.bead = Ledger[r.bead_id]])
         ELSE Returns(e, NoSuccess, NoContent)

\* UUID(bead_id) raises a ValueError, which is not retried.
Malform(e) ==
  LET r == runs[e]
  IN  /\ r.phase = "calling" /\ ClassOf(r) # NoPolecat /\ r.bead_id = Malformed
      /\ Becomes(e, [r EXCEPT !.phase = IF r.caller = "api" THEN "raised" ELSE "failing"])

\* execute, the gates, and _requires_approval; the API adds its own list.
RunPolecat(e) ==
  LET r == runs[e]
      class == ClassOf(r)
  IN  /\ r.phase = "loaded"
      /\ \E c \in world.texts :
           LET refinery == Check(class.content_type, c, r.bead)
               approval == \/ RequiresApproval(class, refinery, Verify(c, r.bead))
                           \/ r.caller = "api" /\ r.task \in ALWAYS_REQUIRE_APPROVAL
           IN  Returns(e, Answer(TRUE, approval, TRUE), c)

\* Any exception in execute or the gates ends in a result without success.
RunFails(e) ==
  /\ runs[e].phase = "loaded"
  /\ Returns(e, NoSuccess, NoContent)

\* Faulty variant: one attempt too many.
Retries_OneMore(r) == r.attempt <= world.run_attempts
Retries(r) == r.attempt < world.run_attempts

\* The worker dies, the ten minutes pass or no session is to be had: the server
\* schedules the activity again from its beginning, up to its last attempt.
LoseAttempt(e) ==
  LET r == runs[e]
  IN  /\ r.phase \in {"calling", "loaded"} /\ r.caller = "temporal"
      /\ IF Retries(r)
         THEN Becomes(e, [r EXCEPT !.phase = "calling", !.attempt = @ + 1, !.bead = NoBead])
         ELSE Becomes(e, [r EXCEPT !.phase = "failing", !.bead = NoBead])

\* The other activities write nothing, and are retried without limit: an attempt
\* that fails is a step that changes nothing.
QueueForApproval(e) ==
  /\ runs[e].phase = "queueing"
  /\ Becomes(e, [runs[e] EXCEPT !.phase = "reporting"])

ReportEnd(e) ==
  /\ runs[e].phase = "reporting"
  /\ Becomes(e, [runs[e] EXCEPT !.phase = "done"])

ReportFailure(e) ==
  /\ runs[e].phase = "failing"
  /\ Becomes(e, [runs[e] EXCEPT !.phase = "raised"])

\* The steps that the server, its workers and the API's event loop bring about.
Advance(e) ==
  \/ ReportRunning(e) \/ UnknownClass(e) \/ Fallback(e) \/ LoadContext(e)
  \/ Malform(e) \/ RunPolecat(e) \/ RunFails(e) \/ QueueForApproval(e)
  \/ ReportEnd(e) \/ ReportFailure(e)
-----------------------------------------------------------------------------
RunShape(r) ==
  /\ r.phase \in RunPhase /\ r.caller \in {"api", "temporal"}
  /\ r.attempt \in 1..world.run_attempts
  /\ r.content \in Contents \cup {NoContent}

\* The points an output may lose: a fifth of what its checks could give, less
\* the fifteen the voice check always takes.
Allowance(type) ==
  CASE type = "email" -> 85 [] type = "blog" -> 85 [] type = "pr_pitch" -> 65
    [] type = "social" -> 45 [] type = "landing_page" -> 65

FigureLoss(c) == 15 * ((IF c.sourced THEN 0 ELSE c.stats) + (IF c.quotes THEN 1 ELSE 0))
PageLoss(c, b) ==
  IF "null" \in {b.title, b.meta_description} THEN 50
  ELSE 10 * Cardinality({f \in {"title", "meta_description"} : b[f] # "fits"})
       + 5 * c.keywords
ReadingLoss(c) == IF c.words = 0 THEN 50 ELSE 100 - FleschReadingEase(c)

PointsLost(type, c, b) ==
  10 * c.absolutes
  + (IF type # "landing_page" THEN FigureLoss(c) ELSE 0)
  + (IF type = "email" THEN 50 + 20 * SpamScore(c) ELSE 0)
  + (IF type = "pr_pitch" THEN 10 * c.ap_issues ELSE 0)
  + (IF type \in {"blog", "landing_page"} THEN PageLoss(c, b) + ReadingLoss(c) ELSE 0)

\* What a text and its bead may look like for it to go out unseen.
Presentable(type, c, b) ==
  /\ PointsLost(type, c, b) <= Allowance(type)
  /\ type = "email" => SpamScore(c) <= 2
  /\ type \in {"blog", "landing_page"} => c.words = 0 \/ FleschReadingEase(c) >= 30
  /\ ~(b.type = "journalist" /\ b.email /\ b.pitched)

\* An output that went through the pipeline and does not wait for a human is
\* presentable: no check failed, the average is four fifths or more, a check
\* that crashed counted as half, and no journalist with an address is written
\* to again within 30 days (refinery.py:should_force_approval, witness.py:
\* has_blocking_issues, base.py:_requires_approval).
UnattendedIsPresentable ==
  \A e \in DOMAIN runs :
    LET r == runs[e]
    IN  r.answer.success /\ r.answer.gated /\ ~r.answer.requires_approval
          => Presentable(ClassOf(r).content_type, r.content, r.bead)

\* The keys whose class says that its output ALWAYS waits, by the flag
\* always_requires_approval: pitches to journalists, embargoes, SMS and the
\* declaration of a winner.
Sensitive ==
  {k \in Keys : k[2] \in {"pr_pitch_draft", "embargo_management", "sms_draft",
                         "sms_analysis", "sms_response", "statistical_significance"}}

\* The output of such a class waits for a human, whichever process ran it and
\* whatever else is registered under its key; what the API runs waits as well if
\* its type is on the list of routers/polecats.py:122.  Flags and lists disagree
\* on journalist_research, which that list and the convoy executor's own
\* (convoy_executor.py:78) name while its class has no flag: where only the
\* class is asked, on a worker, it can go out unseen.
SensitiveIsReviewed ==
  \A e \in DOMAIN runs :
    LET r == runs[e]
        sensitive == \/ <<r.rig, r.task>> \in Sensitive
                     \/ r.caller = "api" /\ r.task \in ALWAYS_REQUIRE_APPROVAL
    IN  r.answer.success /\ sensitive => r.answer.requires_approval
=============================================================================
