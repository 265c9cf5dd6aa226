------------------------- MODULE ConvoyWorkflow_proofs -------------------------
(***************************************************************************)
(* Theorems about ConvoyWorkflow and the runs it spawns, for any beads,    *)
(* texts, plans, requests and numbers of attempts.                         *)
(***************************************************************************)
EXTENDS ConvoyWorkflow, PolecatRuns_proofs

-----------------------------------------------------------------------------
(* One run.                                                                *)

AnyBead ==
  {NoBead} \cup {Ledger[id] : id \in DOMAIN Ledger}
  \cup UNION {MockBeads(get_polecat_class(g, t).bead_type) : g \in STRING, t \in STRING}

AnyAnswer == [success : BOOLEAN, requires_approval : BOOLEAN, gated : BOOLEAN]

Run ==
  [caller : {"api", "temporal"}, rig : STRING, task : STRING,
   bead_id : {Fresh, Malformed} \cup DOMAIN Ledger, phase : RunPhase, attempt : Nat,
   bead : AnyBead, content : Contents \cup {NoContent}, answer : AnyAnswer]

\* A run keeps within its attempts and has no answer before run() returns one.
Sound(r) ==
  /\ r.attempt \in 1..world.run_attempts
  /\ r.phase \in {"starting", "calling", "loaded"} => r.answer = NoSuccess

SoundRuns == runs \in Seq(Run) /\ \A e \in DOMAIN runs : Sound(runs[e])

\* The step of a run: a sound one of what is not yet over, which takes no
\* approval back.
Succeeds(e, r) ==
  /\ r \in Run /\ Sound(r)
  /\ runs' = [runs EXCEPT ![e] = r]
  /\ runs[e].phase \notin Ended
  /\ runs[e].answer.requires_approval => r.answer.requires_approval

LEMMA AnswersAreAnswers ==
  ASSUME NEW a \in BOOLEAN, NEW b \in BOOLEAN, NEW c \in BOOLEAN
  PROVE  /\ Answer(a, b, c) \in AnyAnswer
         /\ Answer(a, b, c).success = a /\ Answer(a, b, c).requires_approval = b
  BY DEF Answer, AnyAnswer

LEMMA NoSuccessIsAnswer ==
  NoSuccess \in AnyAnswer /\ ~NoSuccess.success /\ ~NoSuccess.requires_approval
  BY AnswersAreAnswers DEF NoSuccess

LEMMA WorldShape ==
  ASSUME world \in Workloads
  PROVE  /\ world.run_attempts \in Nat \ {0} /\ world.step_attempts \in Nat \ {0}
         /\ world.texts \subseteq Contents
         /\ world.plan \in Seq([rig : STRING, task : STRING])
         /\ world.direct \in Seq([caller : {"api", "temporal"}, rig : STRING, task : STRING,
                                  bead : {Fresh, Malformed} \cup DOMAIN Ledger])
         /\ world.bead \in {Fresh, Malformed} \cup DOMAIN Ledger
  BY WorkflowAssumption

LEMMA NewRunIsSound ==
  ASSUME world \in Workloads, NEW caller \in {"api", "temporal"}, NEW rig \in STRING,
         NEW task \in STRING, NEW bead \in {Fresh, Malformed} \cup DOMAIN Ledger,
         NEW request, request.rig = rig, request.task = task, request.bead = bead
  PROVE  LET r == NewRun(caller, request, IF caller = "api" THEN "calling" ELSE "starting")
         IN  r \in Run /\ Sound(r)
  <1> DEFINE phase == IF caller = "api" THEN "calling" ELSE "starting"
             r == NewRun(caller, request, phase)
  <1>1. /\ r.caller = caller /\ r.phase = phase /\ r.attempt = 1 /\ r.answer = NoSuccess
    BY DEF NewRun
  <1>2. NoBead \in AnyBead /\ phase \in RunPhase
    BY DEF AnyBead, RunPhase
  <1>3. r \in Run
    BY <1>2, NoSuccessIsAnswer DEF NewRun, Run
  <1>4. Sound(r)
    BY <1>1, WorldShape DEF Sound
  <1>5. QED
    BY <1>3, <1>4

\* run() ends with an answer.
LEMMA ReturnStep ==
  ASSUME world \in Workloads, SoundRuns, NEW e \in DOMAIN runs,
         runs[e].phase \in {"calling", "loaded"}, NEW answer \in AnyAnswer,
         NEW content \in Contents \cup {NoContent}, Returns(e, answer, content)
  PROVE  \E r \in Run : Succeeds(e, r)
  <1> DEFINE old == runs[e]
             mid == [old EXCEPT !.answer = answer, !.content = content]
             new == [mid EXCEPT !.phase = AfterRun(mid)]
  <1>1. old \in Run /\ Sound(old) /\ old.answer = NoSuccess
    BY DEF SoundRuns, Sound
  <1>2. mid \in Run /\ mid.attempt = old.attempt
    BY <1>1 DEF Run
  <1> HIDE DEF mid
  <1>3. AfterRun(mid) \in {"done", "queueing", "reporting"}
    BY DEF AfterRun
  <1>4. /\ new \in Run /\ new.attempt = old.attempt /\ new.phase = AfterRun(mid)
    BY <1>2, <1>3 DEF Run, RunPhase
  <1>5. runs' = [runs EXCEPT ![e] = new]
    BY DEF Returns, Becomes, mid
  <1> HIDE DEF new
  <1>6. Sound(new)
    BY <1>1, <1>2, <1>3, <1>4 DEF Sound, Run
  <1>7. QED
    BY <1>1, <1>4, <1>5, <1>6, NoSuccessIsAnswer DEF Succeeds, Ended

\* A run that keeps its answer.
LEMMA FrameStep ==
  ASSUME world \in Workloads, SoundRuns, NEW e \in DOMAIN runs,
         runs[e].phase \notin Ended, NEW new \in Run, Sound(new),
         runs' = [runs EXCEPT ![e] = new], new.answer = runs[e].answer
  PROVE  \E r \in Run : Succeeds(e, r)
  BY DEF Succeeds

LEMMA RunStep ==
  ASSUME world \in Workloads, SoundRuns, NEW e \in DOMAIN runs,
         Advance(e) \/ LoseAttempt(e)
  PROVE  \E r \in Run : Succeeds(e, r)
  <1> DEFINE old == runs[e]
  <1>1. old \in Run /\ Sound(old)
    BY DEF SoundRuns
  <1> USE DEF Becomes, Ended
  <1>2. CASE ReportRunning(e)
    <2> DEFINE new == [old EXCEPT !.phase = "calling"]
    <2>1. /\ new \in Run /\ new.phase = "calling"
          /\ new.answer = old.answer /\ new.attempt = old.attempt
      BY <1>1 DEF Run, RunPhase
    <2>2. old.phase = "starting" /\ runs' = [runs EXCEPT ![e] = new]
      BY <1>2 DEF ReportRunning
    <2> HIDE DEF new
    <2>3. Sound(new)
      BY <1>1, <2>1, <2>2 DEF Sound, Run
    <2>4. QED
      BY <2>1, <2>2, <2>3, FrameStep
  <1>3. CASE UnknownClass(e)
    BY <1>3, ReturnStep, NoSuccessIsAnswer DEF UnknownClass
  <1>4. CASE Fallback(e)
    <2>1. old.phase = "calling" /\ old.caller = "api"
      BY <1>4 DEF Fallback
    <2>2. CASE \E c \in world.texts :
                 Returns(e, Answer(TRUE, old.task \in ALWAYS_REQUIRE_APPROVAL, FALSE), c)
      <3>1. PICK c \in world.texts :
              Returns(e, Answer(TRUE, old.task \in ALWAYS_REQUIRE_APPROVAL, FALSE), c)
        BY <2>2
      <3> DEFINE listed == old.task \in ALWAYS_REQUIRE_APPROVAL
      <3>2. listed \in BOOLEAN
        OBVIOUS
      <3> HIDE DEF listed
      <3>3. Answer(TRUE, listed, FALSE) \in AnyAnswer
        BY <3>2, AnswersAreAnswers
      <3>4. c \in Contents
        BY <3>1, WorldShape
      <3>5. Returns(e, Answer(TRUE, listed, FALSE), c)
        BY <3>1 DEF listed
      <3>6. QED
        BY <2>1, <3>3, <3>4, <3>5, ReturnStep
    <2>3. CASE runs' = [runs EXCEPT ![e] = [old EXCEPT !.phase = "raised"]]
      <3> DEFINE new == [old EXCEPT !.phase = "raised"]
      <3>1. /\ new \in Run /\ new.phase = "raised"
            /\ new.answer = old.answer /\ new.attempt = old.attempt
        BY <1>1 DEF Run, RunPhase
      <3> HIDE DEF new
      <3>2. Sound(new)
        BY <1>1, <2>1, <3>1 DEF Sound, Run
      <3>3. QED
        BY <2>1, <2>3, <3>1, <3>2, FrameStep DEF new
    <2>4. QED
      BY <1>4, <2>2, <2>3 DEF Fallback
  <1>5. CASE LoadContext(e)
    <2> DEFINE class == ClassOf(old)
    <2>1. /\ old.phase = "calling" /\ class # NoPolecat
          /\ class = get_polecat_class(old.rig, old.task)
      BY <1>5 DEF LoadContext, ClassOf
    <2>2. ASSUME NEW b \in AnyBead,
                 runs' = [runs EXCEPT ![e] = [old EXCEPT !.phase = "loaded", !.bead = b]]
          PROVE  \E r \in Run : Succeeds(e, r)
      <3> DEFINE new == [old EXCEPT !.phase = "loaded", !.bead = b]
      <3>1. /\ new \in Run /\ new.phase = "loaded"
            /\ new.answer = old.answer /\ new.attempt = old.attempt
        BY <1>1 DEF Run, RunPhase
      <3>2. runs' = [runs EXCEPT ![e] = new]
        BY <2>2
      <3> HIDE DEF new
      <3>3. Sound(new)
        BY <1>1, <2>1, <3>1 DEF Sound, Run
      <3>4. QED
        BY <2>1, <3>1, <3>2, <3>3, FrameStep
    <2>3. CASE old.caller = "api"
      <3>1. PICK b \in MockBeads(class.bead_type) :
              runs' = [runs EXCEPT ![e] = [old EXCEPT !.phase = "loaded", !.bead = b]]
        BY <1>5, <2>3 DEF LoadContext
      <3>2. old.rig \in STRING /\ old.task \in STRING
        BY <1>1 DEF Run
      <3>3. b \in AnyBead
        BY <2>1, <3>1, <3>2 DEF AnyBead
      <3>4. QED
        BY <2>2, <3>1, <3>3
    <2>4. CASE old.caller # "api" /\ Found(class, old.bead_id)
      <3>1. runs' = [runs EXCEPT ![e] =
              [old EXCEPT !.phase = "loaded", !.bead = Ledger[old.bead_id]]]
        BY <1>5, <2>4 DEF LoadContext
      <3>2. Ledger[old.bead_id] \in AnyBead
        BY <2>4 DEF Found, AnyBead
      <3>3. QED
        BY <2>2, <3>1, <3>2
    <2>5. CASE old.caller # "api" /\ ~Found(class, old.bead_id)
      <3>1. Returns(e, NoSuccess, NoContent)
        BY <1>5, <2>5 DEF LoadContext
      <3>2. QED
        BY <2>1, <3>1, ReturnStep, NoSuccessIsAnswer
    <2>6. QED
      BY <2>3, <2>4, <2>5
  <1>6. CASE Malform(e)
    <2> DEFINE phase == IF old.caller = "api" THEN "raised" ELSE "failing"
               new == [old EXCEPT !.phase = phase]
    <2>1. /\ new \in Run /\ new.phase = phase
          /\ new.answer = old.answer /\ new.attempt = old.attempt
      BY <1>1 DEF Run, RunPhase
    <2>2. old.phase = "calling" /\ runs' = [runs EXCEPT ![e] = new]
      BY <1>6 DEF Malform
    <2> HIDE DEF new
    <2>3. Sound(new)
      BY <1>1, <2>1, <2>2 DEF Sound, Run
    <2>4. QED
      BY <2>1, <2>2, <2>3, FrameStep
  <1>7. CASE RunPolecat(e)
    <2> DEFINE class == ClassOf(old)
               approval(c) ==
                 \/ RequiresApproval(class, Check(class.content_type, c, old.bead),
                                     Verify(c, old.bead))
                 \/ old.caller = "api" /\ old.task \in ALWAYS_REQUIRE_APPROVAL
    <2>1. PICK c \in world.texts :
            Returns(e, Answer(TRUE, approval(c), TRUE), c)
      BY <1>7 DEF RunPolecat
    <2>2. approval(c) \in BOOLEAN
      OBVIOUS
    <2> HIDE DEF approval
    <2>3. Answer(TRUE, approval(c), TRUE) \in AnyAnswer
      BY <2>2, AnswersAreAnswers
    <2>4. old.phase = "loaded"
      BY <1>7 DEF RunPolecat
    <2>5. QED
      BY <2>1, <2>3, <2>4, ReturnStep, WorldShape
  <1>8. CASE RunFails(e)
    BY <1>8, ReturnStep, NoSuccessIsAnswer DEF RunFails
  <1>9. CASE LoseAttempt(e)
    <2>1. old.phase \in {"calling", "loaded"} /\ old.caller = "temporal"
      BY <1>9 DEF LoseAttempt
    <2>2. NoBead \in AnyBead
      BY DEF AnyBead
    <2>3. CASE Retries(old)
      <3> DEFINE new == [old EXCEPT !.phase = "calling", !.attempt = @ + 1, !.bead = NoBead]
      <3>1. old.attempt \in Nat /\ old.attempt + 1 \in Nat
        BY <1>1 DEF Run
      <3>2. /\ new \in Run /\ new.phase = "calling"
            /\ new.answer = old.answer /\ new.attempt = old.attempt + 1
        BY <1>1, <2>2, <3>1 DEF Run, RunPhase
      <3>3. runs' = [runs EXCEPT ![e] = new]
        BY <1>9, <2>3 DEF LoseAttempt
      <3> HIDE DEF new
      <3>4. Sound(new)
        BY <1>1, <2>1, <2>3, <3>2, WorldShape DEF Sound, Run, Retries
      <3>5. QED
        BY <2>1, <3>2, <3>3, <3>4, FrameStep
    <2>4. CASE ~Retries(old)
      <3> DEFINE new == [old EXCEPT !.phase = "failing", !.bead = NoBead]
      <3>1. /\ new \in Run /\ new.phase = "failing"
            /\ new.answer = old.answer /\ new.attempt = old.attempt
        BY <1>1, <2>2 DEF Run, RunPhase
      <3>2. runs' = [runs EXCEPT ![e] = new]
        BY <1>9, <2>4 DEF LoseAttempt
      <3> HIDE DEF new
      <3>3. Sound(new)
        BY <1>1, <2>1, <3>1 DEF Sound, Run
      <3>4. QED
        BY <2>1, <3>1, <3>2, <3>3, FrameStep
    <2>5. QED
      BY <2>3, <2>4
  <1>10. CASE QueueForApproval(e)
    <2> DEFINE new == [old EXCEPT !.phase = "reporting"]
    <2>1. /\ new \in Run /\ new.phase = "reporting"
          /\ new.answer = old.answer /\ new.attempt = old.attempt
      BY <1>1 DEF Run, RunPhase
    <2>2. old.phase = "queueing" /\ runs' = [runs EXCEPT ![e] = new]
      BY <1>10 DEF QueueForApproval
    <2> HIDE DEF new
    <2>3. Sound(new)
      BY <1>1, <2>1, <2>2 DEF Sound, Run
    <2>4. QED
      BY <2>1, <2>2, <2>3, FrameStep
  <1>11. CASE ReportEnd(e)
    <2> DEFINE new == [old EXCEPT !.phase = "done"]
    <2>1. /\ new \in Run /\ new.phase = "done"
          /\ new.answer = old.answer /\ new.attempt = old.attempt
      BY <1>1 DEF Run, RunPhase
    <2>2. old.phase = "reporting" /\ runs' = [runs EXCEPT ![e] = new]
      BY <1>11 DEF ReportEnd
    <2> HIDE DEF new
    <2>3. Sound(new)
      BY <1>1, <2>1, <2>2 DEF Sound, Run
    <2>4. QED
      BY <2>1, <2>2, <2>3, FrameStep
  <1>12. CASE ReportFailure(e)
    <2> DEFINE new == [old EXCEPT !.phase = "raised"]
    <2>1. /\ new \in Run /\ new.phase = "raised"
          /\ new.answer = old.answer /\ new.attempt = old.attempt
      BY <1>1 DEF Run, RunPhase
    <2>2. old.phase = "failing" /\ runs' = [runs EXCEPT ![e] = new]
      BY <1>12 DEF ReportFailure
    <2> HIDE DEF new
    <2>3. Sound(new)
      BY <1>1, <2>1, <2>2 DEF Sound, Run
    <2>4. QED
      BY <2>1, <2>2, <2>3, FrameStep
  <1>13. QED
    BY <1>2, <1>3, <1>4, <1>5, <1>6, <1>7, <1>8, <1>9, <1>10, <1>11, <1>12 DEF Advance
-----------------------------------------------------------------------------
(* The runs so far: none is forgotten, none that is over changes.          *)

Kept ==
  /\ SoundRuns' /\ Len(runs') \in Nat /\ Len(runs') >= Len(runs)
  /\ \A e \in DOMAIN runs :
       /\ e \in DOMAIN runs'
       /\ runs[e].phase \in Ended => runs'[e] = runs[e]
       /\ runs[e].answer.requires_approval => runs'[e].answer.requires_approval

LEMMA SameRunsKept ==
  ASSUME SoundRuns, UNCHANGED <<world, runs>>
  PROVE  Kept
  <1>1. SoundRuns'
    BY DEF SoundRuns, Sound
  <1>2. QED
    BY <1>1 DEF Kept, SoundRuns

LEMMA SpawnedKept ==
  ASSUME SoundRuns, UNCHANGED world, NEW r \in Run, Sound(r), runs' = Append(runs, r)
  PROVE  Kept /\ Len(runs') = Len(runs) + 1 /\ Len(runs) \in Nat
  <1>1. /\ runs' \in Seq(Run) /\ Len(runs) \in Nat /\ Len(runs') = Len(runs) + 1
        /\ DOMAIN runs' = 1..Len(runs') /\ DOMAIN runs = 1..Len(runs)
        /\ \A e \in DOMAIN runs : runs'[e] = runs[e]
        /\ runs'[Len(runs')] = r
    BY DEF SoundRuns
  <1>2. \A e \in DOMAIN runs' : e \in DOMAIN runs \/ e = Len(runs')
    BY <1>1
  <1>3. \A e \in DOMAIN runs' : Sound(runs'[e])
    BY <1>1, <1>2 DEF SoundRuns
  <1>4. SoundRuns'
    BY <1>1, <1>3 DEF SoundRuns, Sound
  <1>5. QED
    BY <1>1, <1>4 DEF Kept

LEMMA StepKept ==
  ASSUME SoundRuns, UNCHANGED world, NEW e \in DOMAIN runs, NEW r \in Run, Succeeds(e, r)
  PROVE  Kept
  <1>1. /\ runs \in Seq(Run) /\ runs' = [runs EXCEPT ![e] = r] /\ Sound(r)
        /\ runs[e].phase \notin Ended
        /\ runs[e].answer.requires_approval => r.answer.requires_approval
    BY DEF Succeeds, SoundRuns
  <1>2. /\ runs' \in Seq(Run) /\ Len(runs') = Len(runs) /\ Len(runs) \in Nat
        /\ DOMAIN runs' = DOMAIN runs
        /\ \A f \in DOMAIN runs : runs'[f] = IF f = e THEN r ELSE runs[f]
    BY <1>1
  <1>3. \A f \in DOMAIN runs' : Sound(runs'[f])
    BY <1>1, <1>2 DEF SoundRuns
  <1>4. SoundRuns'
    BY <1>2, <1>3 DEF SoundRuns, Sound
  <1>5. QED
    BY <1>1, <1>2, <1>4 DEF Kept
-----------------------------------------------------------------------------
(* The attempts and the totals.                                            *)

Shape ==
  /\ world \in Workloads
  /\ asked \in 0..Len(world.direct)
  /\ next \in 1..(Len(world.plan) + 1) /\ attempt \in {0} \cup Tries
  /\ waiting \in BOOLEAN
  /\ results \in [completed : Nat, failed : Nat, outputs : Nat]
  /\ activity \in [Steps -> [Tries -> [stage : Stage, run : 0..Len(runs)]]]
  /\ stored \in [Steps -> {"pending", "running", "completed", "failed"}]

\* An attempt has a run once it has spawned one, and is over with it.
Entry(a) ==
  /\ a.stage \in {"none", "scheduled", "spawning"} => a.run = 0
  /\ a.stage = "awaiting" => a.run # 0
  /\ a.stage = "over" /\ a.run # 0 => runs[a.run].phase \in Ended

Entries == \A i \in Steps, k \in Tries : Entry(activity[i][k])

\* Steps are tried in order, each from its first attempt on.
InOrder ==
  /\ \A i \in Steps, k \in Tries : activity[i][k].stage # "none" =>
       /\ activity[i][1].stage # "none"
       /\ i < next \/ (i = next /\ k <= attempt)
  /\ \A i \in Steps : i < next => activity[i][1].stage # "none"
  /\ attempt > 0 => next \in Steps /\ activity[next][attempt].stage # "none"

\* The workflow waits for the approval of an output that asks for one.
NeedsReview(i) == \E e \in RunsOf(i) : runs[e].answer.requires_approval
Waits == waiting => attempt > 0 /\ Collected(next) # {} /\ NeedsReview(next)

Answered == {i \in Steps : i <= Handled /\ Collected(i) # {}}
Reviewed == {i \in Steps : i < next /\ NeedsReview(i)}

Totals ==
  /\ results.outputs = results.completed
  /\ results.completed <= Cardinality(Answered)
  /\ results.completed + results.failed >= Handled
  /\ results.completed + results.failed <= Handled + Cardinality(Reviewed)

WorkflowInv ==
  SoundRuns /\ Shape /\ Entries /\ InOrder /\ Waits /\ Totals /\ StoredStatusHasCause

LEMMA Domains ==
  ASSUME Shape, SoundRuns
  PROVE  /\ Len(world.plan) \in Nat /\ Steps = 1..Len(world.plan)
         /\ Tries = 1..world.step_attempts /\ 1 \in Tries
         /\ world.step_attempts \in Nat \ {0}
         /\ Len(runs) \in Nat /\ DOMAIN runs = 1..Len(runs)
         /\ \A e \in 0..Len(runs) : e # 0 => e \in DOMAIN runs
         /\ \A i \in Steps, k \in Tries :
              activity[i][k] \in [stage : Stage, run : 0..Len(runs)]
  <1>1. /\ Len(world.plan) \in Nat /\ Steps = 1..Len(world.plan)
        /\ world.step_attempts \in Nat \ {0}
    BY WorldShape DEF Shape, Steps
  <1>2. Tries = 1..world.step_attempts /\ 1 \in Tries
    BY <1>1 DEF Tries
  <1>3. Len(runs) \in Nat /\ DOMAIN runs = 1..Len(runs)
    BY DEF SoundRuns
  <1>4. \A e \in 0..Len(runs) : e # 0 => e \in DOMAIN runs
    BY <1>3
  <1>5. \A i \in Steps, k \in Tries :
          activity[i][k] \in [stage : Stage, run : 0..Len(runs)]
    BY DEF Shape
  <1>6. QED
    BY <1>1, <1>2, <1>3, <1>4, <1>5

LEMMA WorldStays ==
  ASSUME UNCHANGED world
  PROVE  Steps' = Steps /\ Tries' = Tries
  BY DEF Steps, Tries

LEMMA Positions ==
  ASSUME Shape, SoundRuns
  PROVE  /\ next \in Nat /\ attempt \in Nat /\ Steps \subseteq Nat /\ Tries \subseteq Nat
         /\ 1 \in Tries /\ (attempt > 0 => attempt \in Tries)
         /\ waiting \in BOOLEAN /\ Handled \in Nat
         /\ results.completed \in Nat /\ results.failed \in Nat /\ results.outputs \in Nat
  <1>1. Steps \subseteq Nat /\ Tries \subseteq Nat /\ 1 \in Tries
    BY Domains
  <1>2. next \in Nat /\ next >= 1
    BY Domains DEF Shape
  <1>3. attempt \in Nat /\ (attempt > 0 => attempt \in Tries)
    BY <1>1 DEF Shape
  <1>4. Handled \in Nat /\ waiting \in BOOLEAN
    BY <1>2 DEF Handled, Shape
  <1>5. results.completed \in Nat /\ results.failed \in Nat /\ results.outputs \in Nat
    BY DEF Shape
  <1>6. QED
    BY <1>1, <1>2, <1>3, <1>4, <1>5

\* No attempt forgets that it was made, what it spawned or that it is over.
Grows ==
  /\ Kept /\ UNCHANGED world
  /\ \A i \in Steps, k \in Tries :
       /\ activity[i][k].stage = "over" => activity'[i][k] = activity[i][k]
       /\ activity[i][k].stage # "none" => activity'[i][k].stage # "none"
       /\ activity[i][k].run # 0 => activity'[i][k].run = activity[i][k].run

LEMMA Collections ==
  ASSUME Shape, SoundRuns, Grows, NEW i \in Steps
  PROVE  /\ Collected(i) \subseteq Collected(i)' /\ RunsOf(i) \subseteq RunsOf(i)'
         /\ NeedsReview(i) => NeedsReview(i)'
  <1>1. Steps' = Steps /\ Tries' = Tries
    BY WorldStays DEF Grows
  <1>2. Collected(i) \subseteq Collected(i)'
    BY <1>1 DEF Collected, Grows
  <1>3. RunsOf(i) \subseteq RunsOf(i)'
    <2>1. SUFFICES ASSUME NEW e \in RunsOf(i) PROVE e \in RunsOf(i)'
      OBVIOUS
    <2>2. PICK k \in Tries : e = activity[i][k].run /\ e # 0
      BY <2>1 DEF RunsOf
    <2>3. activity'[i][k].run = e
      BY <2>2 DEF Grows
    <2>4. QED
      BY <1>1, <2>2, <2>3 DEF RunsOf
  <1>4. ASSUME NeedsReview(i) PROVE NeedsReview(i)'
    <2>1. PICK e \in RunsOf(i) : runs[e].answer.requires_approval
      BY <1>4 DEF NeedsReview
    <2>2. e \in DOMAIN runs
      <3>1. PICK k \in Tries : e = activity[i][k].run /\ e # 0
        BY DEF RunsOf
      <3>2. QED
        BY <3>1, Domains
    <2>3. runs'[e].answer.requires_approval
      BY <2>1, <2>2 DEF Grows, Kept
    <2>4. QED
      BY <1>3, <2>1, <2>3 DEF NeedsReview
  <1>5. QED
    BY <1>2, <1>3, <1>4

\* What the store says keeps its cause, and what it is told has one.
LEMMA CausesKept ==
  ASSUME Shape, SoundRuns, Entries, StoredStatusHasCause, Grows,
         \A i \in Steps :
           \/ stored'[i] = stored[i]
           \/ /\ world.shared /\ activity[i][1].stage # "none"
              /\ \/ stored'[i] = "running"
                 \/ \E k \in Tries :
                      LET e == activity'[i][k].run
                          good == e # 0 /\ runs'[e].phase = "done" /\ runs'[e].answer.success
                      IN  /\ activity'[i][k].stage = "over"
                          /\ stored'[i] = IF good THEN "completed" ELSE "failed"
  PROVE  StoredStatusHasCause'
  <1> DEFINE Good(e) == e # 0 /\ runs[e].phase = "done" /\ runs[e].answer.success
  <1>1. Steps' = Steps /\ Tries' = Tries /\ world' = world
    BY WorldStays DEF Grows
  <1>2. SUFFICES ASSUME NEW i \in Steps
                 PROVE  /\ stored'[i] = "completed" =>
                             \E k \in Collected(i)' : Good(activity[i][k].run)'
                        /\ stored'[i] = "failed" =>
                             \E k \in Collected(i)' : ~Good(activity[i][k].run)'
                        /\ stored'[i] # "pending" =>
                             world.shared /\ activity'[i][1].stage # "none"
    BY <1>1 DEF StoredStatusHasCause
  <1>3. 1 \in Tries
    BY Domains
  <1>4. ASSUME NEW k \in Collected(i)
        PROVE  /\ k \in Collected(i)' /\ activity'[i][k] = activity[i][k]
    BY <1>1, <1>4 DEF Collected, Grows
  <1>5. CASE stored'[i] = stored[i]
    <2>1. /\ stored[i] = "completed" => \E k \in Collected(i) : Good(activity[i][k].run)
          /\ stored[i] = "failed" => \E k \in Collected(i) : ~Good(activity[i][k].run)
          /\ stored[i] # "pending" => world.shared /\ activity[i][1].stage # "none"
      BY DEF StoredStatusHasCause
    <2>2. activity[i][1].stage # "none" => activity'[i][1].stage # "none"
      BY <1>3 DEF Grows
    <2>3. ASSUME NEW k \in Collected(i)
          PROVE  Good(activity[i][k].run)' <=> Good(activity[i][k].run)
      <3>1. activity'[i][k].run = activity[i][k].run
        BY <1>4, <2>3
      <3>2. CASE activity[i][k].run = 0
        BY <3>1, <3>2
      <3>3. CASE activity[i][k].run # 0
        <4>1. activity[i][k].run \in DOMAIN runs /\ activity[i][k].stage = "over"
          BY <3>3, Domains DEF Collected
        <4>2. runs'[activity[i][k].run] = runs[activity[i][k].run]
          BY <3>3, <4>1, <2>3 DEF Entries, Entry, Grows, Kept, Collected
        <4>3. QED
          BY <3>1, <4>2
      <3>4. QED
        BY <3>2, <3>3
    <2>4. QED
      BY <1>4, <1>5, <2>1, <2>2, <2>3
  <1>6. CASE stored'[i] # stored[i]
    <2>1. world.shared /\ activity'[i][1].stage # "none"
      BY <1>3, <1>6 DEF Grows
    <2>2. CASE stored'[i] = "running"
      BY <2>1, <2>2
    <2>3. CASE \E k \in Tries :
                 LET e == activity'[i][k].run
                     good == e # 0 /\ runs'[e].phase = "done" /\ runs'[e].answer.success
                 IN  /\ activity'[i][k].stage = "over"
                     /\ stored'[i] = IF good THEN "completed" ELSE "failed"
      <3>1. PICK k \in Tries :
              /\ activity'[i][k].stage = "over"
              /\ stored'[i] = IF Good(activity[i][k].run)' THEN "completed" ELSE "failed"
        BY <2>3
      <3>2. k \in Collected(i)'
        BY <1>1, <3>1 DEF Collected
      <3>3. QED
        BY <2>1, <3>1, <3>2
    <2>4. QED
      BY <1>6, <2>2, <2>3
  <1>7. QED
    BY <1>5, <1>6

LEMMA EntriesKept ==
  ASSUME Shape, SoundRuns, Entries, Grows,
         \A i \in Steps, k \in Tries :
           activity'[i][k] = activity[i][k] \/ Entry(activity[i][k])'
  PROVE  Entries'
  <1>1. Steps' = Steps /\ Tries' = Tries
    BY WorldStays DEF Grows
  <1>2. SUFFICES ASSUME NEW i \in Steps, NEW k \in Tries, activity'[i][k] = activity[i][k]
                 PROVE  Entry(activity[i][k])'
    BY <1>1 DEF Entries
  <1>3. Entry(activity[i][k])
    BY DEF Entries
  <1>4. activity[i][k].run # 0 => activity[i][k].run \in DOMAIN runs
    BY Domains
  <1>5. QED
    BY <1>2, <1>3, <1>4 DEF Entry, Grows, Kept

LEMMA OrderKept ==
  ASSUME Shape, SoundRuns, InOrder, Grows, next' \in Nat,
         \A i \in Steps, k \in Tries : activity'[i][k].stage # "none" =>
           \/ activity[i][k].stage # "none"
           \/ /\ i = next /\ next' = next /\ k = attempt'
              /\ activity'[i][1].stage # "none",
         \/ next' = next /\ attempt' = attempt
         \/ /\ next' = next /\ attempt' = attempt + 1 /\ next \in Steps
            /\ attempt' \in Tries /\ activity'[next][attempt'].stage # "none"
         \/ next' = next + 1 /\ attempt' = 0 /\ attempt > 0
  PROVE  InOrder'
  <1>1. Steps' = Steps /\ Tries' = Tries
    BY WorldStays DEF Grows
  <1>2. next \in Nat /\ attempt \in Nat /\ Steps \subseteq Nat /\ Tries \subseteq Nat
        /\ 1 \in Tries /\ (attempt > 0 => attempt \in Tries)
    BY Positions
  <1>3. \A i \in Steps : activity[i][1].stage # "none" => activity'[i][1].stage # "none"
    BY <1>2 DEF Grows
  <1>4. ASSUME NEW i \in Steps, NEW k \in Tries, activity'[i][k].stage # "none"
        PROVE  /\ activity'[i][1].stage # "none"
               /\ i < next' \/ (i = next' /\ k <= attempt')
    <2>1. CASE activity[i][k].stage # "none"
      <3>1. activity[i][1].stage # "none" /\ (i < next \/ (i = next /\ k <= attempt))
        BY <2>1 DEF InOrder
      <3>2. i \in Nat /\ k \in Nat
        BY <1>2
      <3>3. i < next' \/ (i = next' /\ k <= attempt')
        BY <1>2, <3>1, <3>2
      <3>4. QED
        BY <1>3, <3>1, <3>3
    <2>2. CASE activity[i][k].stage = "none"
      BY <1>2, <1>4, <2>2
    <2>3. QED
      BY <2>1, <2>2
  <1>5. ASSUME NEW i \in Steps, i < next'
        PROVE  activity'[i][1].stage # "none"
    <2>1. CASE i < next
      BY <1>3, <2>1 DEF InOrder
    <2>2. CASE ~(i < next)
      <3>1. i = next /\ attempt > 0
        BY <1>2, <1>5, <2>2
      <3>2. activity[i][1].stage # "none"
        BY <1>2, <3>1 DEF InOrder
      <3>3. QED
        BY <1>3, <3>2
    <2>3. QED
      BY <2>1, <2>2
  <1>6. ASSUME attempt' > 0
        PROVE  next' \in Steps /\ activity'[next'][attempt'].stage # "none"
    <2>1. CASE next' = next /\ attempt' = attempt
      <3>1. next \in Steps /\ attempt \in Tries /\ activity[next][attempt].stage # "none"
        BY <1>2, <1>6, <2>1 DEF InOrder
      <3>2. QED
        BY <2>1, <3>1 DEF Grows
    <2>2. CASE attempt' = 0
      BY <1>6, <2>2
    <2>3. QED
      BY <2>1, <2>2
  <1>7. QED
    BY <1>1, <1>4, <1>5, <1>6 DEF InOrder

LEMMA WaitsKept ==
  ASSUME Shape, SoundRuns, InOrder, Waits, Grows,
         waiting' =>
           \/ waiting /\ next' = next /\ attempt' = attempt
           \/ attempt' > 0 /\ Collected(next)' # {} /\ NeedsReview(next)'
  PROVE  Waits'
  <1>1. SUFFICES ASSUME waiting', waiting, next' = next, attempt' = attempt
                 PROVE  attempt' > 0 /\ Collected(next)' # {} /\ NeedsReview(next)'
    BY DEF Waits
  <1>2. attempt > 0 /\ Collected(next) # {} /\ NeedsReview(next) /\ next \in Steps
    BY <1>1 DEF Waits, InOrder
  <1>3. PICK i \in Steps : i = next
    BY <1>2
  <1>4. Collected(i) \subseteq Collected(i)' /\ (NeedsReview(i) => NeedsReview(i)')
    BY Collections
  <1>5. Collected(i)' # {} /\ NeedsReview(i)'
    BY <1>2, <1>3, <1>4
  <1>6. Collected(next)' = Collected(i)' /\ (NeedsReview(next)' <=> NeedsReview(i)')
    BY <1>1, <1>3 DEF Collected, NeedsReview, RunsOf
  <1>7. QED
    BY <1>1, <1>2, <1>5, <1>6

LEMMA FewSteps ==
  ASSUME NEW n \in Nat, NEW S \in SUBSET (1..n)
  PROVE  IsFiniteSet(S) /\ Cardinality(S) \in Nat
  <1>1. IsFiniteSet(1..n)
    BY FS_Interval
  <1>2. IsFiniteSet(S)
    BY <1>1, FS_Subset
  <1>3. QED
    BY <1>2, FS_CardinalityType

LEMMA TotalsKept ==
  ASSUME Shape, SoundRuns, Totals, Grows, next' \in Nat,
         \/ /\ results' = results /\ Handled' = Handled /\ next' >= next
         \/ /\ results'.completed = results.completed + 1
            /\ results'.outputs = results.outputs + 1 /\ results'.failed = results.failed
            /\ Handled' = Handled + 1 /\ next' >= next
            /\ next \in Steps /\ ~waiting /\ \E k \in Tries : activity'[next][k].stage = "over"
         \/ /\ results' = [results EXCEPT !.failed = @ + 1]
            /\ Handled' = Handled + 1 /\ next' >= next
         \/ /\ results' = [results EXCEPT !.failed = @ + 1]
            /\ Handled' = Handled /\ next' = next + 1 /\ next \in Steps /\ NeedsReview(next)
  PROVE  Totals'
  <1>1. Steps' = Steps /\ Tries' = Tries
    BY WorldStays DEF Grows
  <1>2. PICK n \in Nat : Steps = 1..n
    BY Domains
  <1>3. /\ next \in Nat /\ next' \in Nat /\ Handled \in Nat /\ Handled' \in Nat
        /\ results.completed \in Nat /\ results.failed \in Nat /\ results.outputs \in Nat
    BY Positions
  <1>4. next' >= next /\ Handled' >= Handled
    BY <1>3
  <1>5. /\ Answered \subseteq Answered' /\ Reviewed \subseteq Reviewed'
        /\ Answered' \subseteq 1..n /\ Reviewed' \subseteq 1..n
    <2>1. Answered \subseteq Answered'
      BY <1>1, <1>2, <1>3, <1>4, Collections DEF Answered
    <2>2. Reviewed \subseteq Reviewed'
      BY <1>1, <1>2, <1>3, <1>4, Collections DEF Reviewed
    <2>3. QED
      BY <1>1, <1>2, <2>1, <2>2 DEF Answered, Reviewed
  <1>6. /\ Cardinality(Answered) \in Nat /\ Cardinality(Answered') \in Nat
        /\ Cardinality(Reviewed) \in Nat /\ Cardinality(Reviewed') \in Nat
        /\ IsFiniteSet(Answered) /\ IsFiniteSet(Reviewed)
        /\ IsFiniteSet(Answered') /\ IsFiniteSet(Reviewed')
    BY <1>5, FewSteps
  <1>7. Cardinality(Answered) <= Cardinality(Answered')
        /\ Cardinality(Reviewed) <= Cardinality(Reviewed')
    BY <1>5, <1>6, FS_Subset
  <1>8. CASE results' = results /\ Handled' = Handled
    BY <1>3, <1>6, <1>7, <1>8 DEF Totals
  <1>9. CASE /\ results'.completed = results.completed + 1
             /\ results'.outputs = results.outputs + 1 /\ results'.failed = results.failed
             /\ Handled' = Handled + 1
             /\ next \in Steps /\ ~waiting
             /\ \E k \in Tries : activity'[next][k].stage = "over"
    <2>1. Handled = next - 1 /\ Handled' = next
      BY <1>3, <1>9 DEF Handled
    <2>2. PICK i \in Steps : i = next
      BY <1>9
    <2>3. i \notin Answered /\ i \in Nat
      BY <1>2, <1>3, <2>1, <2>2 DEF Answered
    <2>4. Collected(i)' # {}
      BY <1>1, <1>9, <2>2 DEF Collected
    <2>5. i \in Answered'
      BY <1>1, <1>3, <2>1, <2>2, <2>4 DEF Answered
    <2>6. Cardinality(Answered \cup {i}) = Cardinality(Answered) + 1
      BY <1>6, <2>3, FS_AddElement
    <2>7. Cardinality(Answered \cup {i}) <= Cardinality(Answered')
      BY <1>5, <1>6, <2>5, FS_Subset
    <2>8. QED
      BY <1>3, <1>6, <1>7, <1>9, <2>6, <2>7 DEF Totals
  <1>10. CASE results' = [results EXCEPT !.failed = @ + 1] /\ Handled' = Handled + 1
    <2>1. /\ results'.completed = results.completed
          /\ results'.outputs = results.outputs /\ results'.failed = results.failed + 1
      BY <1>10 DEF Shape
    <2>2. QED
      BY <1>3, <1>6, <1>7, <1>10, <2>1 DEF Totals
  <1>11. CASE /\ results' = [results EXCEPT !.failed = @ + 1]
              /\ Handled' = Handled /\ next' = next + 1 /\ next \in Steps
              /\ NeedsReview(next)
    <2>1. /\ results'.completed = results.completed
          /\ results'.outputs = results.outputs /\ results'.failed = results.failed + 1
      BY <1>11 DEF Shape
    <2>2. PICK i \in Steps : i = next
      BY <1>11
    <2>3. i \notin Reviewed /\ i \in Nat
      BY <1>2, <1>3, <2>2 DEF Reviewed
    <2>4. NeedsReview(i)'
      BY <1>11, <2>2, Collections
    <2>5. i \in Reviewed'
      BY <1>1, <1>3, <1>11, <2>2, <2>4 DEF Reviewed
    <2>6. Cardinality(Reviewed \cup {i}) = Cardinality(Reviewed) + 1
      BY <1>6, <2>3, FS_AddElement
    <2>7. Cardinality(Reviewed \cup {i}) <= Cardinality(Reviewed')
      BY <1>5, <1>6, <2>5, FS_Subset
    <2>8. QED
      BY <1>3, <1>6, <1>7, <1>11, <2>1, <2>6, <2>7 DEF Totals
  <1>12. QED
    BY <1>8, <1>9, <1>10, <1>11
-----------------------------------------------------------------------------
(* The steps.                                                              *)

LEMMA Still ==
  ASSUME Shape, SoundRuns, Kept, UNCHANGED <<world, activity>>
  PROVE  Grows /\ activity' \in [Steps' -> [Tries' -> [stage : Stage, run : 0..Len(runs')]]]
  <1>1. Grows
    BY DEF Grows
  <1>2. 0..Len(runs) \subseteq 0..Len(runs')
    BY Domains DEF Kept
  <1>3. activity \in [Steps -> [Tries -> [stage : Stage, run : 0..Len(runs')]]]
    BY <1>2 DEF Shape
  <1>4. QED
    BY <1>1, <1>3, WorldStays

LEMMA Moves ==
  ASSUME Shape, SoundRuns, Kept, UNCHANGED world, NEW i \in Steps, NEW k \in Tries,
         NEW stage \in Stage \ {"none"}, NEW run \in 0..Len(runs'),
         Stages(i, k, stage, run), activity[i][k].stage # "over",
         activity[i][k].run # 0 => run = activity[i][k].run
  PROVE  /\ Grows
         /\ activity' \in [Steps' -> [Tries' -> [stage : Stage, run : 0..Len(runs')]]]
         /\ \A j \in Steps, l \in Tries :
              activity'[j][l] = IF j = i /\ l = k THEN [stage |-> stage, run |-> run]
                                ELSE activity[j][l]
  <1> DEFINE entry == [stage |-> stage, run |-> run]
             Some == [stage : Stage, run : 0..Len(runs')]
  <1>1. entry \in Some /\ entry.stage = stage /\ entry.run = run
    OBVIOUS
  <1>2. activity' = [activity EXCEPT ![i][k] = entry]
    BY DEF Stages
  <1> HIDE DEF entry
  <1>3. 0..Len(runs) \subseteq 0..Len(runs')
    BY Domains DEF Kept
  <1>4. [stage : Stage, run : 0..Len(runs)] \subseteq Some
    BY <1>3
  <1>5. activity \in [Steps -> [Tries -> [stage : Stage, run : 0..Len(runs)]]]
    BY DEF Shape
  <1> HIDE DEF Some
  <1>6. activity \in [Steps -> [Tries -> Some]]
    BY <1>4, <1>5
  <1>7. activity' \in [Steps -> [Tries -> Some]]
    BY <1>1, <1>2, <1>6
  <1>8. \A j \in Steps, l \in Tries :
          activity'[j][l] = IF j = i /\ l = k THEN entry ELSE activity[j][l]
    BY <1>2, <1>6
  <1>9. Grows
    BY <1>1, <1>8 DEF Grows
  <1>10. QED
    BY <1>7, <1>8, <1>9, WorldStays DEF entry, Some

\* A step of the workflow's process that leaves the totals alone.
LEMMA QuietStep ==
  ASSUME WorkflowInv, Grows, Shape', UNCHANGED <<next, attempt, waiting, results>>,
         Entries', StoredStatusHasCause',
         \A i \in Steps, k \in Tries :
           activity[i][k].stage = "none" => activity'[i][k].stage = "none"
  PROVE  WorkflowInv'
  <1> USE DEF WorkflowInv
  <1>1. SoundRuns'
    BY DEF Grows, Kept
  <1>2. Handled' = Handled /\ next' \in Nat /\ next' >= next
    BY Positions DEF Handled
  <1>3. InOrder'
    BY <1>2, OrderKept
  <1>4. Waits'
    BY WaitsKept
  <1>5. Totals'
    BY <1>2, TotalsKept
  <1>6. QED
    BY <1>1, <1>3, <1>4, <1>5

\* A step of the runs alone.
LEMMA RunsStep ==
  ASSUME WorkflowInv, Kept, UNCHANGED <<world, next, attempt, waiting, results, activity, stored>>,
         asked' \in 0..Len(world.direct)
  PROVE  WorkflowInv'
  <1> USE DEF WorkflowInv
  <1>1. Grows /\ activity' \in [Steps' -> [Tries' -> [stage : Stage, run : 0..Len(runs')]]]
    BY Still
  <1>2. Shape'
    BY <1>1, WorldStays DEF Shape
  <1>3. Entries'
    BY <1>1, EntriesKept
  <1>4. StoredStatusHasCause'
    BY <1>1, CausesKept
  <1>5. QED
    BY <1>1, <1>2, <1>3, <1>4, QuietStep

LEMMA RespondEffect ==
  ASSUME Shape, SoundRuns, NEW i \in Steps, NEW k \in Tries, NEW answer, Respond(i, k, answer)
  PROVE  \/ UNCHANGED <<next, attempt, waiting, results>>
         \/ /\ AtStep /\ i = next /\ k = attempt
            /\ results' \in [completed : Nat, failed : Nat, outputs : Nat]
            /\ results'.completed = results.completed + 1
            /\ results'.outputs = results.outputs + 1 /\ results'.failed = results.failed
            /\ \/ answer.requires_approval /\ waiting' = TRUE /\ UNCHANGED <<next, attempt>>
               \/ next' = next + 1 /\ attempt' = 0 /\ waiting' = FALSE
  <1>1. CASE ~IsCurrent(i, k)
    BY <1>1 DEF Respond
  <1>2. CASE IsCurrent(i, k)
    <2> DEFINE counted == [results EXCEPT !.completed = @ + 1, !.outputs = @ + 1]
    <2>1. /\ counted \in [completed : Nat, failed : Nat, outputs : Nat]
          /\ counted.completed = results.completed + 1
          /\ counted.outputs = results.outputs + 1 /\ counted.failed = results.failed
      <3>1. results \in [completed : Nat, failed : Nat, outputs : Nat]
        BY DEF Shape
      <3>2. results.completed + 1 \in Nat /\ results.outputs + 1 \in Nat
        BY <3>1
      <3>3. QED
        BY <3>1, <3>2
    <2>2. IF answer.requires_approval
          THEN waiting' = TRUE /\ results' = counted /\ UNCHANGED <<next, attempt>>
          ELSE NextStep(counted)
      BY <1>2 DEF Respond
    <2> HIDE DEF counted
    <2>3. QED
      BY <1>2, <2>1, <2>2 DEF IsCurrent, NextStep
  <1>3. QED
    BY <1>1, <1>2

\* An attempt is over: the store is told, and the workflow if it still waits.
LEMMA EndOfAttempt ==
  ASSUME WorkflowInv, UNCHANGED <<world, runs, asked>>, NEW i \in Steps, NEW k \in Tries,
         activity[i][k].stage \in {"spawning", "awaiting"}, NEW run \in 0..Len(runs),
         run = activity[i][k].run, run # 0 => runs[run].phase \in Ended,
         Stages(i, k, "over", run), NEW answer, Respond(i, k, answer),
         answer.requires_approval => run # 0 /\ runs[run].answer.requires_approval,
         Store(i, IF run # 0 /\ runs[run].phase = "done" /\ runs[run].answer.success
                  THEN "completed" ELSE "failed")
  PROVE  WorkflowInv'
  <1> USE DEF WorkflowInv
  <1>1. Kept /\ Len(runs') = Len(runs)
    BY SameRunsKept
  <1>2. /\ Grows
        /\ activity' \in [Steps' -> [Tries' -> [stage : Stage, run : 0..Len(runs')]]]
        /\ \A j \in Steps, l \in Tries :
             activity'[j][l] = IF j = i /\ l = k THEN [stage |-> "over", run |-> run]
                               ELSE activity[j][l]
    <2>1. "over" \in Stage \ {"none"}
      BY DEF Stage
    <2>2. QED
      BY <1>1, <2>1, Moves
  <1>3. activity'[i][k].stage = "over" /\ activity'[i][k].run = run
    BY <1>2
  <1>4. SoundRuns' /\ Steps' = Steps /\ Tries' = Tries
    BY <1>1, WorldStays DEF Kept
  <1>5. Entries'
    <2>1. Entry(activity[i][k])'
      BY <1>3 DEF Entry
    <2>2. QED
      BY <1>2, <2>1, EntriesKept
  <1>6. activity[i][1].stage # "none"
    BY DEF InOrder
  <1>7. stored' \in [Steps -> {"pending", "running", "completed", "failed"}]
    BY DEF Store, Shape
  <1>8. StoredStatusHasCause'
    <2>1. \A j \in Steps : j # i => stored'[j] = stored[j]
      BY DEF Store, Shape
    <2>2. \/ stored'[i] = stored[i]
          \/ /\ world.shared
             /\ stored'[i] = IF run # 0 /\ runs'[run].phase = "done"
                                /\ runs'[run].answer.success
                             THEN "completed" ELSE "failed"
      BY DEF Store, Shape
    <2> DEFINE Said(j) ==
                 \/ stored'[j] = stored[j]
                 \/ /\ world.shared /\ activity[j][1].stage # "none"
                    /\ \/ stored'[j] = "running"
                       \/ \E l \in Tries :
                            LET e == activity'[j][l].run
                                good == e # 0 /\ runs'[e].phase = "done"
                                          /\ runs'[e].answer.success
                            IN  /\ activity'[j][l].stage = "over"
                                /\ stored'[j] = IF good THEN "completed" ELSE "failed"
    <2>3. Said(i)
      <3>1. CASE stored'[i] = stored[i]
        BY <3>1
      <3>2. CASE stored'[i] # stored[i]
        <4>1. LET e == activity'[i][k].run
                  good == e # 0 /\ runs'[e].phase = "done" /\ runs'[e].answer.success
              IN  /\ activity'[i][k].stage = "over"
                  /\ stored'[i] = IF good THEN "completed" ELSE "failed"
          BY <1>3, <2>2, <3>2
        <4>2. world.shared
          BY <2>2, <3>2
        <4>3. QED
          BY <1>6, <4>1, <4>2
      <3>3. QED
        BY <3>1, <3>2
    <2>4. \A j \in Steps : Said(j)
      BY <2>1, <2>3
    <2>5. QED
      BY <1>2, <2>4, CausesKept
  <1>9. \A j \in Steps, l \in Tries :
          activity[j][l].stage = "none" => activity'[j][l].stage = "none"
    BY <1>2
  <1>10. CASE UNCHANGED <<next, attempt, waiting, results>>
    <2>1. Shape'
      BY <1>1, <1>2, <1>4, <1>7, <1>10 DEF Shape
    <2>2. QED
      BY <1>2, <1>5, <1>8, <1>9, <1>10, <2>1, QuietStep
  <1>11. CASE /\ AtStep /\ i = next /\ k = attempt
              /\ results' \in [completed : Nat, failed : Nat, outputs : Nat]
              /\ results'.completed = results.completed + 1
              /\ results'.outputs = results.outputs + 1 /\ results'.failed = results.failed
              /\ \/ answer.requires_approval /\ waiting' = TRUE /\ UNCHANGED <<next, attempt>>
                 \/ next' = next + 1 /\ attempt' = 0 /\ waiting' = FALSE
    <2>1. /\ next \in Steps /\ ~waiting /\ attempt > 0 /\ next \in Nat /\ next' \in Nat
          /\ attempt \in Nat
      <3>1. next \in Steps /\ ~waiting /\ attempt \in Tries
        BY <1>11 DEF AtStep
      <3>2. next \in Nat /\ next + 1 \in Nat /\ attempt \in Nat
        BY Positions
      <3>3. attempt > 0
        BY <3>1, Domains
      <3>4. next' \in {next, next + 1}
        BY <1>11
      <3>5. QED
        BY <3>1, <3>2, <3>3, <3>4
    <2>2. Handled' = Handled + 1 /\ next' >= next
      <3>1. \/ waiting' = TRUE /\ next' = next
            \/ waiting' = FALSE /\ next' = next + 1
        BY <1>11
      <3>2. Handled = next - 1
        BY <2>1 DEF Handled
      <3>3. Handled' = (next' - 1) + (IF waiting' THEN 1 ELSE 0)
        BY DEF Handled
      <3>4. next \in Nat
        BY <2>1
      <3>5. CASE waiting' = TRUE /\ next' = next
        BY <3>2, <3>3, <3>4, <3>5
      <3>6. CASE waiting' = FALSE /\ next' = next + 1
        BY <3>2, <3>3, <3>4, <3>6
      <3>7. QED
        BY <3>1, <3>5, <3>6
    <2>3. next' \in 1..(Len(world.plan) + 1) /\ attempt' \in {0} \cup Tries
          /\ waiting' \in BOOLEAN
      <3>1. next \in 1..(Len(world.plan) + 1) /\ next + 1 \in 1..(Len(world.plan) + 1)
        BY <2>1, Domains
      <3>2. attempt \in {0} \cup Tries
        BY DEF Shape
      <3>3. next' \in {next, next + 1} /\ attempt' \in {0, attempt} /\ waiting' \in BOOLEAN
        BY <1>11
      <3>4. QED
        BY <3>1, <3>2, <3>3
    <2>4. Shape'
      BY <1>1, <1>2, <1>4, <1>7, <1>11, <2>3 DEF Shape
    <2>5. InOrder'
      BY <1>2, <1>9, <1>11, <2>1, OrderKept
    <2>6. waiting' => attempt' > 0 /\ Collected(next)' # {} /\ NeedsReview(next)'
      <3>1. SUFFICES ASSUME waiting'
                     PROVE  attempt' > 0 /\ Collected(next)' # {} /\ NeedsReview(next)'
        OBVIOUS
      <3>2. answer.requires_approval /\ next' = next /\ attempt' = attempt
        BY <1>11, <3>1
      <3>3. k \in Collected(next)'
        BY <1>3, <1>4, <1>11, <3>2 DEF Collected
      <3>4. run \in RunsOf(next)' /\ runs'[run].answer.requires_approval
        BY <1>3, <1>4, <1>11, <3>2 DEF RunsOf
      <3>5. QED
        BY <2>1, <3>2, <3>3, <3>4 DEF NeedsReview
    <2>7. Waits'
      BY <1>2, <2>6, WaitsKept
    <2>8. Totals'
      BY <1>2, <1>3, <1>11, <2>1, <2>2, TotalsKept
    <2>9. QED
      BY <1>4, <1>5, <1>8, <2>4, <2>5, <2>7, <2>8
  <1>12. QED
    BY <1>10, <1>11, RespondEffect

\* An attempt goes on: it begins, or has its run.
LEMMA AttemptGoesOn ==
  ASSUME WorkflowInv, Kept, UNCHANGED <<world, asked, next, attempt, waiting, results>>,
         NEW i \in Steps, NEW k \in Tries,
         activity[i][k].stage \in {"scheduled", "spawning"},
         NEW stage \in {"spawning", "awaiting"}, NEW run \in 0..Len(runs'),
         stage = "spawning" <=> run = 0, Stages(i, k, stage, run),
         stored' = stored \/ Store(i, "running")
  PROVE  WorkflowInv'
  <1> USE DEF WorkflowInv
  <1>1. /\ Grows
        /\ activity' \in [Steps' -> [Tries' -> [stage : Stage, run : 0..Len(runs')]]]
        /\ \A j \in Steps, l \in Tries :
             activity'[j][l] = IF j = i /\ l = k THEN [stage |-> stage, run |-> run]
                               ELSE activity[j][l]
    <2>1. stage \in Stage \ {"none"}
      BY DEF Stage
    <2>2. activity[i][k].run = 0
      BY DEF Entries, Entry
    <2>3. QED
      BY <2>1, <2>2, Moves
  <1>2. Entries'
    <2>1. Entry(activity[i][k])'
      BY <1>1 DEF Entry
    <2>2. QED
      BY <1>1, <2>1, EntriesKept
  <1>3. activity[i][1].stage # "none"
    BY DEF InOrder
  <1>4. /\ stored' \in [Steps -> {"pending", "running", "completed", "failed"}]
        /\ \A j \in Steps : \/ stored'[j] = stored[j]
                            \/ j = i /\ world.shared /\ stored'[j] = "running"
    BY DEF Store, Shape
  <1>5. StoredStatusHasCause'
    BY <1>1, <1>3, <1>4, CausesKept
  <1>6. Shape'
    BY <1>1, <1>4, WorldStays DEF Shape
  <1>7. QED
    BY <1>1, <1>2, <1>5, <1>6, QuietStep

\* The server schedules the first attempt of a step, or another one.
LEMMA AttemptIsScheduled ==
  ASSUME WorkflowInv, UNCHANGED <<world, runs, asked, next, waiting, results, stored>>,
         AtStep, attempt' = attempt + 1, attempt' \in Tries,
         Stages(next, attempt', "scheduled", 0)
  PROVE  WorkflowInv'
  <1> USE DEF WorkflowInv
  <1> DEFINE k == attempt + 1
  <1>1. Kept /\ Len(runs') = Len(runs) /\ Len(runs) \in Nat
    BY SameRunsKept, Domains
  <1>2. next \in Steps /\ k \in Tries /\ attempt \in Nat /\ Stages(next, k, "scheduled", 0)
    BY Positions DEF AtStep
  <1>3. activity[next][k].stage = "none" /\ activity[next][k].run = 0
    <2>1. activity[next][k].stage = "none"
      BY <1>2, Positions DEF InOrder
    <2>2. QED
      BY <1>2, <2>1 DEF Entries, Entry
  <1>4. /\ Grows
        /\ activity' \in [Steps' -> [Tries' -> [stage : Stage, run : 0..Len(runs')]]]
        /\ \A j \in Steps, l \in Tries :
             activity'[j][l] = IF j = next /\ l = k THEN [stage |-> "scheduled", run |-> 0]
                               ELSE activity[j][l]
    <2>1. "scheduled" \in Stage \ {"none"} /\ 0 \in 0..Len(runs')
      BY <1>1 DEF Stage
    <2> HIDE DEF k
    <2>2. QED
      BY <1>1, <1>2, <1>3, <2>1, Moves
  <1>5. SoundRuns' /\ Steps' = Steps /\ Tries' = Tries
    BY <1>1, WorldStays DEF Kept
  <1>6. Entries'
    <2>1. \A j \in Steps, l \in Tries :
            activity'[j][l] = activity[j][l] \/ Entry(activity[j][l])'
      BY <1>4 DEF Entry
    <2>2. QED
      BY <1>4, <2>1, EntriesKept
  <1>7. StoredStatusHasCause'
    BY <1>4, CausesKept
  <1>8. Shape'
    BY <1>1, <1>2, <1>4, <1>5 DEF Shape
  <1>9. activity'[next][1].stage # "none"
    <2>1. CASE attempt = 0
      BY <1>2, <1>4, <2>1
    <2>2. CASE attempt > 0
      <3>1. attempt \in Tries /\ activity[next][attempt].stage # "none"
        BY <2>2, Positions DEF InOrder
      <3>2. activity[next][1].stage # "none" /\ 1 \in Tries
        BY <1>2, <3>1, Positions DEF InOrder
      <3>3. QED
        BY <1>2, <1>4, <3>2
    <2>3. QED
      BY <1>2, <2>1, <2>2
  <1>10. InOrder'
    <2>1. activity'[next][attempt'].stage # "none"
      BY <1>2, <1>4
    <2>2. \A j \in Steps, l \in Tries : activity'[j][l].stage # "none" =>
            \/ activity[j][l].stage # "none"
            \/ /\ j = next /\ next' = next /\ l = attempt'
               /\ activity'[j][1].stage # "none"
      BY <1>4, <1>9
    <2>3. QED
      BY <1>2, <1>4, <2>1, <2>2, Positions, OrderKept
  <1>11. Waits'
    BY <1>4, WaitsKept DEF AtStep
  <1>12. Handled' = Handled /\ next' \in Nat /\ next' >= next
    BY Positions DEF Handled
  <1>13. Totals'
    BY <1>4, <1>12, TotalsKept
  <1>14. QED
    BY <1>5, <1>6, <1>7, <1>8, <1>10, <1>11, <1>13

\* The workflow counts a step as failed and goes on.
LEMMA StepIsGivenUp ==
  ASSUME WorkflowInv, UNCHANGED <<world, runs, asked, activity, stored>>,
         next \in Steps, attempt > 0,
         NextStep([results EXCEPT !.failed = @ + 1])
  PROVE  WorkflowInv'
  <1> USE DEF WorkflowInv
  <1>1. Kept /\ SoundRuns'
    BY SameRunsKept DEF Kept
  <1>2. Grows /\ activity' \in [Steps' -> [Tries' -> [stage : Stage, run : 0..Len(runs')]]]
    BY <1>1, Still
  <1>3. /\ next' = next + 1 /\ attempt' = 0 /\ waiting' = FALSE
        /\ results' = [results EXCEPT !.failed = @ + 1]
        /\ next \in Nat /\ next' \in Nat /\ next' >= next
    BY Positions DEF NextStep
  <1>4. Shape'
    <2>1. next' \in 1..(Len(world.plan) + 1)
      BY <1>3, Domains
    <2>2. results' \in [completed : Nat, failed : Nat, outputs : Nat]
      <3>1. results \in [completed : Nat, failed : Nat, outputs : Nat]
        BY DEF Shape
      <3>2. results.failed + 1 \in Nat
        BY <3>1
      <3> DEFINE failed == results.failed + 1
      <3>3. results' = [results EXCEPT !.failed = failed]
        BY <1>3
      <3> HIDE DEF failed
      <3>4. failed \in Nat
        BY <3>2 DEF failed
      <3>5. QED
        BY <3>1, <3>3, <3>4
    <2>3. QED
      BY <1>2, <1>3, <2>1, <2>2, WorldStays DEF Shape
  <1>5. Entries' /\ StoredStatusHasCause'
    BY <1>2, EntriesKept, CausesKept
  <1>6. InOrder'
    BY <1>2, <1>3, OrderKept
  <1>7. Waits'
    BY <1>3 DEF Waits
  <1>8. Totals'
    <2>1. CASE waiting
      BY <1>2, <1>3, <2>1, TotalsKept DEF Handled, Waits
    <2>2. CASE ~waiting
      BY <1>2, <1>3, <2>2, TotalsKept DEF Handled
    <2>3. QED
      BY <2>1, <2>2
  <1>9. QED
    BY <1>1, <1>4, <1>5, <1>6, <1>7, <1>8

LEMMA MemberOfSeq ==
  ASSUME NEW S, NEW s \in Seq(S), NEW n \in 1..Len(s)
  PROVE  s[n] \in S
  OBVIOUS

LEMMA WorkflowStep ==
  ASSUME WorkflowInv, [Next]_vars
  PROVE  WorkflowInv'
  <1> USE DEF WorkflowInv
  <1>1. world \in Workloads /\ SoundRuns
    BY DEF Shape
  <1>2. CASE UNCHANGED vars
    <2>1. asked' \in 0..Len(world.direct) /\ Kept
      BY <1>2, SameRunsKept DEF vars, convoyVars, Shape
    <2>2. QED
      BY <1>2, <2>1, RunsStep DEF vars, convoyVars
  <1>3. CASE Ask
    <2> DEFINE d == world.direct[asked + 1]
    <2>1. asked < Len(world.direct) /\ asked' = asked + 1
          /\ UNCHANGED <<world, next, attempt, waiting, results, activity, stored>>
          /\ runs' = Append(runs, NewRun(d.caller, d,
                                         IF d.caller = "api" THEN "calling" ELSE "starting"))
      BY <1>3 DEF Ask
    <2>2. asked' \in 0..Len(world.direct) /\ asked + 1 \in 1..Len(world.direct)
      BY <2>1, <1>1, WorldShape DEF Shape
    <2>3. d \in [caller : {"api", "temporal"}, rig : STRING, task : STRING,
                 bead : {Fresh, Malformed} \cup DOMAIN Ledger]
      BY <1>1, <2>2, WorldShape, MemberOfSeq
    <2> HIDE DEF d
    <2>4. LET r == NewRun(d.caller, d, IF d.caller = "api" THEN "calling" ELSE "starting")
          IN  r \in Run /\ Sound(r)
      BY <1>1, <2>3, NewRunIsSound
    <2>5. Kept
      BY <1>1, <2>1, <2>4, SpawnedKept
    <2>6. QED
      BY <2>1, <2>2, <2>5, RunsStep
  <1>4. ASSUME NEW e \in DOMAIN runs, RunGoesOn(e) \/ AttemptIsLost(e)
        PROVE  WorkflowInv'
    <2>1. /\ Advance(e) \/ LoseAttempt(e)
          /\ UNCHANGED <<world, asked, next, attempt, waiting, results, activity, stored>>
      BY <1>4 DEF RunGoesOn, AttemptIsLost, convoyVars
    <2>2. Kept
      BY <1>1, <2>1, RunStep, StepKept
    <2>3. asked' \in 0..Len(world.direct)
      BY <2>1 DEF Shape
    <2>4. QED
      BY <2>1, <2>2, <2>3, RunsStep
  <1>5. CASE ScheduleStep
    <2>1. 1 \in Tries
      BY Positions
    <2>2. QED
      BY <1>5, <2>1, AttemptIsScheduled DEF ScheduleStep
  <1>6. CASE TimeOutStep
    <2>1. AtStep /\ attempt > 0 /\ UNCHANGED <<world, runs, asked, stored>>
      BY <1>6 DEF TimeOutStep
    <2>2. CASE attempt = world.step_attempts
      BY <1>6, <2>1, <2>2, StepIsGivenUp DEF TimeOutStep, AtStep
    <2>3. CASE attempt # world.step_attempts
      <3>1. attempt' = attempt + 1 /\ Stages(next, attempt', "scheduled", 0)
            /\ UNCHANGED <<next, waiting, results>>
        BY <1>6, <2>3 DEF TimeOutStep
      <3>2. attempt' \in Tries
        BY <2>1, <2>3, <3>1, Domains, Positions
      <3>3. QED
        BY <2>1, <3>1, <3>2, AttemptIsScheduled
    <2>4. QED
      BY <2>2, <2>3
  <1>7. CASE TimeOutApproval
    <2>1. attempt > 0 /\ next \in Steps
      BY <1>7 DEF TimeOutApproval, Waits, InOrder
    <2>2. QED
      BY <1>7, <2>1, StepIsGivenUp DEF TimeOutApproval
  <1>8. ASSUME NEW i \in Steps, NEW k \in Tries, BeginStep(i, k)
        PROVE  WorkflowInv'
    <2>1. Kept /\ 0 \in 0..Len(runs')
      BY <1>8, SameRunsKept, Domains DEF BeginStep
    <2>2. QED
      BY <1>8, <2>1, AttemptGoesOn DEF BeginStep
  <1>9. ASSUME NEW i \in Steps, NEW k \in Tries, SpawnRun(i, k)
        PROVE  WorkflowInv'
    <2> DEFINE request == [rig |-> world.plan[i].rig, task |-> world.plan[i].task,
                           bead |-> world.bead]
    <2>1. world.plan[i] \in [rig : STRING, task : STRING]
      <3>1. i \in 1..Len(world.plan)
        BY Domains
      <3>2. QED
        BY <1>1, <3>1, WorldShape, MemberOfSeq
    <2>2. NewRun("temporal", request, "starting") \in Run
          /\ Sound(NewRun("temporal", request, "starting"))
      <3>1. /\ request.rig \in STRING /\ request.task \in STRING
            /\ request.bead \in {Fresh, Malformed} \cup DOMAIN Ledger
        BY <1>1, <2>1, WorldShape
      <3> HIDE DEF request
      <3>2. QED
        BY <1>1, <3>1, NewRunIsSound
    <2>3. Kept /\ Len(runs') = Len(runs) + 1 /\ Len(runs) \in Nat
      BY <1>1, <1>9, <2>2, SpawnedKept DEF SpawnRun
    <2>4. Len(runs') \in 0..Len(runs') /\ Len(runs') # 0
      BY <2>3
    <2>5. QED
      BY <1>9, <2>3, <2>4, AttemptGoesOn DEF SpawnRun
  <1>10. ASSUME NEW i \in Steps, NEW k \in Tries, FailSpawn(i, k)
         PROVE  WorkflowInv'
    <2>1. activity[i][k].run = 0 /\ 0 \in 0..Len(runs)
      BY <1>10, Domains DEF FailSpawn, Entries, Entry
    <2>2. ~NoSuccess.requires_approval
      BY NoSuccessIsAnswer
    <2>3. QED
      BY <1>10, <2>1, <2>2, EndOfAttempt DEF FailSpawn
  <1>11. ASSUME NEW i \in Steps, NEW k \in Tries, Collect(i, k)
         PROVE  WorkflowInv'
    <2> DEFINE run == activity[i][k].run
               answer == IF runs[run].phase = "done" THEN runs[run].answer ELSE NoSuccess
    <2>1. run # 0 /\ run \in 0..Len(runs) /\ activity[i][k].stage = "awaiting"
      BY <1>11, Domains DEF Collect, Entries, Entry
    <2>2. /\ runs[run].phase \in Ended /\ Store(i, StepStatus(runs[run]))
          /\ Respond(i, k, answer) /\ Stages(i, k, "over", run)
          /\ UNCHANGED <<world, runs, asked>>
      BY <1>11 DEF Collect
    <2>3. StepStatus(runs[run]) =
            IF run # 0 /\ runs[run].phase = "done" /\ runs[run].answer.success
            THEN "completed" ELSE "failed"
      BY <2>1 DEF StepStatus
    <2>4. answer.requires_approval => runs[run].answer.requires_approval
      BY NoSuccessIsAnswer
    <2> HIDE DEF answer
    <2>5. QED
      BY <2>1, <2>2, <2>3, <2>4, EndOfAttempt
  <1>12. QED
    BY <1>2, <1>3, <1>4, <1>5, <1>6, <1>7, <1>8, <1>9, <1>10, <1>11 DEF Next, StepAttempt

LEMMA WorkflowInit == Init => WorkflowInv
  <1>1. SUFFICES ASSUME Init PROVE WorkflowInv
    OBVIOUS
  <1>2. /\ world \in Workloads /\ runs = << >> /\ asked = 0 /\ next = 1 /\ attempt = 0
        /\ waiting = FALSE /\ results = [completed |-> 0, failed |-> 0, outputs |-> 0]
        /\ activity = [i \in Steps |-> [k \in Tries |-> [stage |-> "none", run |-> 0]]]
        /\ stored = [i \in Steps |-> "pending"]
    BY <1>1 DEF Init
  <1>3. SoundRuns /\ Len(runs) = 0
    BY <1>2 DEF SoundRuns
  <1>4. Shape
    <2>1. Len(world.direct) \in Nat /\ Len(world.plan) \in Nat
      BY <1>2, WorldShape
    <2>2. activity \in [Steps -> [Tries -> [stage : Stage, run : 0..Len(runs)]]]
      BY <1>2, <1>3 DEF Stage
    <2>3. /\ asked \in 0..Len(world.direct) /\ next \in 1..(Len(world.plan) + 1)
          /\ attempt \in {0} \cup Tries
      BY <1>2, <2>1
    <2>4. stored \in [Steps -> {"pending", "running", "completed", "failed"}]
      BY <1>2
    <2>5. results \in [completed : Nat, failed : Nat, outputs : Nat]
      BY <1>2
    <2>6. QED
      BY <1>2, <2>2, <2>3, <2>4, <2>5 DEF Shape
  <1>5. \A i \in Steps, k \in Tries :
          activity[i][k].stage = "none" /\ activity[i][k].run = 0
    BY <1>2
  <1>6. Entries /\ StoredStatusHasCause /\ Waits
    BY <1>2, <1>5 DEF Entries, Entry, StoredStatusHasCause, Waits
  <1>7. InOrder
    BY <1>2, <1>4, <1>5, <1>3, Domains DEF InOrder
  <1>8. Totals
    <2>1. Handled = 0
      BY <1>2 DEF Handled
    <2>2. Answered = {} /\ Reviewed = {}
      BY <1>2, <1>3, <1>4, <1>5, Domains DEF Answered, Reviewed, Handled, Collected
    <2>3. QED
      BY <1>2, <2>1, <2>2, FS_EmptySet DEF Totals
  <1>9. QED
    BY <1>3, <1>4, <1>6, <1>7, <1>8 DEF WorkflowInv
-----------------------------------------------------------------------------
\* Every variable keeps its shape.
THEOREM WorkflowTypeCorrect == Spec => []TypeOK
  <1>1. WorkflowInv /\ [Next]_vars => WorkflowInv'
    BY WorkflowStep
  <1>2. WorkflowInv => TypeOK
    <2>1. SUFFICES ASSUME WorkflowInv PROVE TypeOK
      OBVIOUS
    <2>2. \A e \in DOMAIN runs : RunShape(runs[e])
      <3>1. SUFFICES ASSUME NEW e \in DOMAIN runs PROVE RunShape(runs[e])
        OBVIOUS
      <3>2. runs[e] \in Run /\ Sound(runs[e])
        BY <2>1 DEF WorkflowInv, SoundRuns
      <3>3. /\ runs[e].phase \in RunPhase /\ runs[e].caller \in {"api", "temporal"}
            /\ runs[e].content \in Contents \cup {NoContent}
        BY <3>2 DEF Run
      <3>4. runs[e].attempt \in 1..world.run_attempts
        BY <3>2 DEF Sound
      <3>5. QED
        BY <3>3, <3>4 DEF RunShape
    <2>3. QED
      BY <2>1, <2>2 DEF WorkflowInv, Shape, TypeOK
  <1>3. QED
    BY WorkflowInit, <1>1, <1>2, PTL DEF Spec

\* The store says of a step what one of its attempts came to.
THEOREM StoredStatusHasCauseHolds == Spec => []StoredStatusHasCause
  <1>1. WorkflowInv /\ [Next]_vars => WorkflowInv'
    BY WorkflowStep
  <1>2. WorkflowInv => StoredStatusHasCause
    BY DEF WorkflowInv
  <1>3. QED
    BY WorkflowInit, <1>1, <1>2, PTL DEF Spec

\* Every step left behind was tried and is in the totals.
THEOREM StepsAreAccountedHolds == Spec => []StepsAreAccounted
  <1>1. WorkflowInv /\ [Next]_vars => WorkflowInv'
    BY WorkflowStep
  <1>2. WorkflowInv => StepsAreAccounted
    <2>1. SUFFICES ASSUME WorkflowInv PROVE StepsAreAccounted
      OBVIOUS
    <2>2. PICK n \in Nat : Steps = 1..n
      BY <2>1, Domains DEF WorkflowInv
    <2>3. Cardinality(Reviewed) \in Nat
      BY <2>2, FewSteps DEF Reviewed
    <2>4. /\ results.completed \in Nat /\ results.failed \in Nat /\ Handled \in Nat
      BY <2>1, Positions DEF WorkflowInv
    <2>5. results.completed + results.failed \in Handled..(Handled + Cardinality(Reviewed))
      BY <2>1, <2>3, <2>4 DEF WorkflowInv, Totals
    <2>6. QED
      BY <2>1, <2>5 DEF WorkflowInv, InOrder, Totals, StepsAreAccounted, Answered,
         Reviewed, NeedsReview
  <1>3. QED
    BY WorkflowInit, <1>1, <1>2, PTL DEF Spec
-----------------------------------------------------------------------------
(* What the runs let out.                                                  *)

\* What must wait for a human: the output of a class with the flag, and what
\* the API runs of the types on its list.
MustWait(r) ==
  \/ <<r.rig, r.task>> \in Sensitive
  \/ r.caller = "api" /\ r.task \in ALWAYS_REQUIRE_APPROVAL

\* An output that no human looks at is presentable, one that must wait does, and
\* a run that has its bead has its class.
Vetted(r) ==
  /\ r.answer.success /\ r.answer.gated /\ ~r.answer.requires_approval
       => Presentable(ClassOf(r).content_type, r.content, r.bead)
  /\ r.answer.success /\ MustWait(r) => r.answer.requires_approval
  /\ r.phase = "loaded" => ClassOf(r) # NoPolecat

VettedRuns == \A e \in DOMAIN runs : Vetted(runs[e])

LEMMA BeadsAreDescribed ==
  ASSUME NEW b \in AnyBead
  PROVE  Described(b)
  <1>1. CASE b = NoBead
    BY <1>1 DEF NoBead, Described, Length
  <1>2. ASSUME NEW id \in DOMAIN Ledger, b = Ledger[id]
        PROVE  Described(b)
    <2>1. b \in BeadShape
      BY <1>2, RunsAssumption
    <2>2. QED
      BY <2>1 DEF BeadShape, Described
  <1>3. ASSUME NEW type, b \in MockBeads(type)
        PROVE  Described(b)
    BY <1>3 DEF MockBeads, Described, Length
  <1>4. QED
    BY <1>1, <1>2, <1>3 DEF AnyBead

\* A run that keeps its answer, or has none, remains vetted.
LEMMA FrameVetted ==
  ASSUME NEW old, Vetted(old), NEW new, new.phase # "loaded",
         new.caller = old.caller, new.rig = old.rig, new.task = old.task,
         new.answer = old.answer, new.content = old.content, new.bead = old.bead
  PROVE  Vetted(new)
  <1>1. ClassOf(new) = ClassOf(old) /\ (MustWait(new) <=> MustWait(old))
    BY DEF ClassOf, MustWait
  <1>2. QED
    BY <1>1, Zenon DEF Vetted

LEMMA UnansweredVetted ==
  ASSUME NEW r, ~r.answer.success, r.phase = "loaded" => ClassOf(r) # NoPolecat
  PROVE  Vetted(r)
  BY Zenon DEF Vetted

\* What an answer must satisfy for run() to return it.
LEMMA ReturnVetted ==
  ASSUME SoundRuns, NEW e \in DOMAIN runs, NEW answer \in AnyAnswer,
         NEW content \in Contents \cup {NoContent}, Returns(e, answer, content),
         answer.success /\ answer.gated /\ ~answer.requires_approval
           => Presentable(ClassOf(runs[e]).content_type, content, runs[e].bead),
         answer.success /\ MustWait(runs[e]) => answer.requires_approval
  PROVE  \E r \in Run : runs' = [runs EXCEPT ![e] = r] /\ Vetted(r)
  <1> DEFINE old == runs[e]
             mid == [old EXCEPT !.answer = answer, !.content = content]
             new == [mid EXCEPT !.phase = AfterRun(mid)]
  <1>1. old \in Run
    BY DEF SoundRuns
  <1>2. /\ mid \in Run /\ mid.answer = answer /\ mid.content = content
        /\ mid.bead = old.bead /\ mid.caller = old.caller /\ mid.rig = old.rig
        /\ mid.task = old.task
    BY <1>1 DEF Run
  <1> HIDE DEF mid
  <1>3. AfterRun(mid) \in {"done", "queueing", "reporting"}
    BY DEF AfterRun
  <1>4. /\ new \in Run /\ new.answer = answer /\ new.content = content
        /\ new.bead = old.bead /\ new.caller = old.caller /\ new.rig = old.rig
        /\ new.task = old.task /\ new.phase = AfterRun(mid)
    BY <1>2, <1>3 DEF Run, RunPhase
  <1>5. runs' = [runs EXCEPT ![e] = new]
    BY DEF Returns, Becomes, mid
  <1> HIDE DEF new
  <1>6. ClassOf(new) = ClassOf(old) /\ (MustWait(new) <=> MustWait(old))
    BY <1>4 DEF ClassOf, MustWait
  <1>7. new.phase # "loaded"
    BY <1>3, <1>4
  <1>8. Vetted(new)
    BY <1>4, <1>6, <1>7, Zenon DEF Vetted
  <1>9. QED
    BY <1>4, <1>5, <1>8

LEMMA VettedStep ==
  ASSUME world \in Workloads, SoundRuns, NEW e \in DOMAIN runs, Vetted(runs[e]),
         Advance(e) \/ LoseAttempt(e)
  PROVE  \E r \in Run : runs' = [runs EXCEPT ![e] = r] /\ Vetted(r)
  <1> DEFINE old == runs[e]
  <1>1. old \in Run /\ Sound(old)
    BY DEF SoundRuns
  <1> USE DEF Becomes
  <1>2. CASE ReportRunning(e)
    <2> DEFINE new == [old EXCEPT !.phase = "calling"]
    <2>1. /\ new \in Run /\ new.phase = "calling" /\ new.answer = old.answer
          /\ new.content = old.content /\ new.bead = old.bead
          /\ new.caller = old.caller /\ new.rig = old.rig /\ new.task = old.task
      BY <1>1 DEF Run, RunPhase
    <2>2. runs' = [runs EXCEPT ![e] = new]
      BY <1>2 DEF ReportRunning
    <2> HIDE DEF new
    <2>3. QED
      BY <2>1, <2>2, FrameVetted
  <1>3. CASE UnknownClass(e)
    BY <1>3, ReturnVetted, NoSuccessIsAnswer DEF UnknownClass
  <1>4. CASE Fallback(e)
    <2>1. /\ old.phase = "calling" /\ old.caller = "api"
          /\ ClassOf(old) = NoPolecat
      BY <1>4 DEF Fallback
    <2>2. MustWait(old) => old.task \in ALWAYS_REQUIRE_APPROVAL
      BY <2>1, SensitiveIsKnown DEF ClassOf, MustWait
    <2>3. CASE \E c \in world.texts :
                 Returns(e, Answer(TRUE, old.task \in ALWAYS_REQUIRE_APPROVAL, FALSE), c)
      <3> DEFINE listed == old.task \in ALWAYS_REQUIRE_APPROVAL
      <3>1. listed \in BOOLEAN
        OBVIOUS
      <3>2. PICK c \in world.texts : Returns(e, Answer(TRUE, listed, FALSE), c)
        BY <2>3
      <3> HIDE DEF listed
      <3>3. /\ Answer(TRUE, listed, FALSE) \in AnyAnswer
            /\ Answer(TRUE, listed, FALSE).gated = FALSE
            /\ MustWait(old) => Answer(TRUE, listed, FALSE).requires_approval
        BY <2>2, <3>1, AnswersAreAnswers DEF Answer, listed
      <3>4. c \in Contents
        BY <3>2, WorldShape
      <3>5. QED
        BY <3>2, <3>3, <3>4, ReturnVetted
    <2>4. CASE runs' = [runs EXCEPT ![e] = [old EXCEPT !.phase = "raised"]]
      <3> DEFINE new == [old EXCEPT !.phase = "raised"]
      <3>1. /\ new \in Run /\ new.phase = "raised" /\ new.answer = old.answer
            /\ new.content = old.content /\ new.bead = old.bead
            /\ new.caller = old.caller /\ new.rig = old.rig /\ new.task = old.task
        BY <1>1 DEF Run, RunPhase
      <3>2. runs' = [runs EXCEPT ![e] = new]
        BY <2>4
      <3> HIDE DEF new
      <3>3. QED
        BY <3>1, <3>2, FrameVetted
    <2>5. QED
      BY <1>4, <2>3, <2>4 DEF Fallback
  <1>5. CASE LoadContext(e)
    <2> DEFINE class == ClassOf(old)
    <2>1. /\ old.phase = "calling" /\ class # NoPolecat
          /\ class = get_polecat_class(old.rig, old.task)
      BY <1>5 DEF LoadContext, ClassOf
    <2>2. ~old.answer.success
      BY <1>1, <2>1, NoSuccessIsAnswer DEF Sound
    <2>3. ASSUME NEW b \in AnyBead,
                 runs' = [runs EXCEPT ![e] = [old EXCEPT !.phase = "loaded", !.bead = b]]
          PROVE  \E r \in Run : runs' = [runs EXCEPT ![e] = r] /\ Vetted(r)
      <3> DEFINE new == [old EXCEPT !.phase = "loaded", !.bead = b]
      <3>1. /\ new \in Run /\ new.answer = old.answer /\ new.caller = old.caller
            /\ new.rig = old.rig /\ new.task = old.task
        BY <1>1 DEF Run, RunPhase
      <3>2. runs' = [runs EXCEPT ![e] = new]
        BY <2>3
      <3> HIDE DEF new
      <3>3. ClassOf(new) = class
        BY <3>1 DEF ClassOf
      <3>4. QED
        BY <2>1, <2>2, <3>1, <3>2, <3>3, UnansweredVetted
    <2>4. CASE old.caller = "api"
      <3>1. PICK b \in MockBeads(class.bead_type) :
              runs' = [runs EXCEPT ![e] = [old EXCEPT !.phase = "loaded", !.bead = b]]
        BY <1>5, <2>4 DEF LoadContext
      <3>2. old.rig \in STRING /\ old.task \in STRING
        BY <1>1 DEF Run
      <3>3. b \in AnyBead
        BY <2>1, <3>1, <3>2 DEF AnyBead
      <3>4. QED
        BY <2>3, <3>1, <3>3
    <2>5. CASE old.caller # "api" /\ Found(class, old.bead_id)
      <3>1. runs' = [runs EXCEPT ![e] =
              [old EXCEPT !.phase = "loaded", !.bead = Ledger[old.bead_id]]]
        BY <1>5, <2>5 DEF LoadContext
      <3>2. Ledger[old.bead_id] \in AnyBead
        BY <2>5 DEF Found, AnyBead
      <3>3. QED
        BY <2>3, <3>1, <3>2
    <2>6. CASE old.caller # "api" /\ ~Found(class, old.bead_id)
      <3>1. Returns(e, NoSuccess, NoContent)
        BY <1>5, <2>6 DEF LoadContext
      <3>2. QED
        BY <3>1, ReturnVetted, NoSuccessIsAnswer
    <2>7. QED
      BY <2>4, <2>5, <2>6
  <1>6. CASE Malform(e)
    <2> DEFINE phase == IF old.caller = "api" THEN "raised" ELSE "failing"
               new == [old EXCEPT !.phase = phase]
    <2>1. /\ new \in Run /\ new.phase = phase /\ new.answer = old.answer
          /\ new.content = old.content /\ new.bead = old.bead
          /\ new.caller = old.caller /\ new.rig = old.rig /\ new.task = old.task
      BY <1>1 DEF Run, RunPhase
    <2>2. runs' = [runs EXCEPT ![e] = new]
      BY <1>6 DEF Malform
    <2> HIDE DEF new
    <2>3. QED
      BY <2>1, <2>2, FrameVetted
  <1>7. CASE RunPolecat(e)
    <2> DEFINE class == ClassOf(old)
               gates(c) == RequiresApproval(class, Check(class.content_type, c, old.bead),
                                            Verify(c, old.bead))
               listed == old.caller = "api" /\ old.task \in ALWAYS_REQUIRE_APPROVAL
               approval(c) == gates(c) \/ listed
    <2>1. PICK c \in world.texts : Returns(e, Answer(TRUE, approval(c), TRUE), c)
      BY <1>7 DEF RunPolecat
    <2>2. approval(c) \in BOOLEAN
      OBVIOUS
    <2>3. old.phase = "loaded"
      BY <1>7 DEF RunPolecat
    <2>4. class # NoPolecat
      BY <2>3 DEF Vetted
    <2>5. c \in Contents /\ c \in ContentShape
      BY <2>1, WorldShape, RunsAssumption
    <2>6. Described(old.bead)
      BY <1>1, BeadsAreDescribed DEF Run
    <2>7. ~approval(c) => Presentable(class.content_type, c, old.bead)
      <3>1. ~approval(c) => ~gates(c)
        OBVIOUS
      <3> HIDE DEF approval
      <3>2. QED
        BY <2>5, <2>6, <3>1, OnlyThePresentablePasses, Zenon
    <2>8. MustWait(old) => approval(c)
      <3>1. class = get_polecat_class(old.rig, old.task)
        BY <2>4 DEF ClassOf
      <3>2. <<old.rig, old.task>> \in Sensitive => gates(c)
        BY <3>1, SensitiveRequiresApproval, SensitiveIsKnown, Zenon
      <3>3. QED
        BY <3>2 DEF MustWait
    <2> HIDE DEF approval
    <2>9. /\ Answer(TRUE, approval(c), TRUE) \in AnyAnswer
          /\ Answer(TRUE, approval(c), TRUE).requires_approval = approval(c)
      BY <2>2, AnswersAreAnswers
    <2>10. QED
      BY <2>1, <2>5, <2>7, <2>8, <2>9, ReturnVetted
  <1>8. CASE RunFails(e)
    BY <1>8, ReturnVetted, NoSuccessIsAnswer DEF RunFails
  <1>9. CASE LoseAttempt(e)
    <2>1. old.phase \in {"calling", "loaded"}
      BY <1>9 DEF LoseAttempt
    <2>2. ~old.answer.success /\ NoBead \in AnyBead
      BY <1>1, <2>1, NoSuccessIsAnswer DEF Sound, AnyBead
    <2>3. CASE Retries(old)
      <3> DEFINE new == [old EXCEPT !.phase = "calling", !.attempt = @ + 1, !.bead = NoBead]
      <3>1. old.attempt + 1 \in Nat
        BY <1>1 DEF Run
      <3>2. new \in Run /\ new.phase = "calling" /\ new.answer = old.answer
        BY <1>1, <2>2, <3>1 DEF Run, RunPhase
      <3>3. runs' = [runs EXCEPT ![e] = new]
        BY <1>9, <2>3 DEF LoseAttempt
      <3> HIDE DEF new
      <3>4. QED
        BY <2>2, <3>2, <3>3, UnansweredVetted
    <2>4. CASE ~Retries(old)
      <3> DEFINE new == [old EXCEPT !.phase = "failing", !.bead = NoBead]
      <3>1. new \in Run /\ new.phase = "failing" /\ new.answer = old.answer
        BY <1>1, <2>2 DEF Run, RunPhase
      <3>2. runs' = [runs EXCEPT ![e] = new]
        BY <1>9, <2>4 DEF LoseAttempt
      <3> HIDE DEF new
      <3>3. QED
        BY <2>2, <3>1, <3>2, UnansweredVetted
    <2>5. QED
      BY <2>3, <2>4
  <1>10. CASE QueueForApproval(e)
    <2> DEFINE new == [old EXCEPT !.phase = "reporting"]
    <2>1. /\ new \in Run /\ new.phase = "reporting" /\ new.answer = old.answer
          /\ new.content = old.content /\ new.bead = old.bead
          /\ new.caller = old.caller /\ new.rig = old.rig /\ new.task = old.task
      BY <1>1 DEF Run, RunPhase
    <2>2. runs' = [runs EXCEPT ![e] = new]
      BY <1>10 DEF QueueForApproval
    <2> HIDE DEF new
    <2>3. QED
      BY <2>1, <2>2, FrameVetted
  <1>11. CASE ReportEnd(e)
    <2> DEFINE new == [old EXCEPT !.phase = "done"]
    <2>1. /\ new \in Run /\ new.phase = "done" /\ new.answer = old.answer
          /\ new.content = old.content /\ new.bead = old.bead
          /\ new.caller = old.caller /\ new.rig = old.rig /\ new.task = old.task
      BY <1>1 DEF Run, RunPhase
    <2>2. runs' = [runs EXCEPT ![e] = new]
      BY <1>11 DEF ReportEnd
    <2> HIDE DEF new
    <2>3. QED
      BY <2>1, <2>2, FrameVetted
  <1>12. CASE ReportFailure(e)
    <2> DEFINE new == [old EXCEPT !.phase = "raised"]
    <2>1. /\ new \in Run /\ new.phase = "raised" /\ new.answer = old.answer
          /\ new.content = old.content /\ new.bead = old.bead
          /\ new.caller = old.caller /\ new.rig = old.rig /\ new.task = old.task
      BY <1>1 DEF Run, RunPhase
    <2>2. runs' = [runs EXCEPT ![e] = new]
      BY <1>12 DEF ReportFailure
    <2> HIDE DEF new
    <2>3. QED
      BY <2>1, <2>2, FrameVetted
  <1>13. QED
    BY <1>2, <1>3, <1>4, <1>5, <1>6, <1>7, <1>8, <1>9, <1>10, <1>11, <1>12 DEF Advance

LEMMA SpawnVetted ==
  ASSUME VettedRuns, SoundRuns, UNCHANGED world, NEW caller, NEW request, NEW phase,
         phase # "loaded", runs' = Append(runs, NewRun(caller, request, phase))
  PROVE  VettedRuns'
  <1> DEFINE new == NewRun(caller, request, phase)
  <1>1. new.answer = NoSuccess /\ new.phase = phase
    BY DEF NewRun
  <1> HIDE DEF new
  <1>2. Vetted(new)
    BY <1>1, UnansweredVetted, NoSuccessIsAnswer
  <1>3. \A e \in DOMAIN runs' : runs'[e] = new \/ (e \in DOMAIN runs /\ runs'[e] = runs[e])
    BY DEF SoundRuns, new
  <1>4. \A e \in DOMAIN runs' : Vetted(runs'[e])
    BY <1>2, <1>3 DEF VettedRuns
  <1>5. QED
    BY <1>4 DEF VettedRuns, Vetted, ClassOf, MustWait

LEMMA VettedKept ==
  ASSUME WorkflowInv, VettedRuns, [Next]_vars
  PROVE  VettedRuns'
  <1>1. world \in Workloads /\ SoundRuns
    BY DEF WorkflowInv, Shape
  <1>2. CASE UNCHANGED <<world, runs>>
    BY <1>2 DEF VettedRuns, Vetted, ClassOf, MustWait
  <1>3. CASE Ask
    <2> DEFINE d == world.direct[asked + 1]
    <2>1. /\ runs' = Append(runs, NewRun(d.caller, d,
                                         IF d.caller = "api" THEN "calling" ELSE "starting"))
          /\ UNCHANGED world
      BY <1>3 DEF Ask
    <2> HIDE DEF d
    <2>2. QED
      BY <1>1, <2>1, SpawnVetted
  <1>4. ASSUME NEW e \in DOMAIN runs, RunGoesOn(e) \/ AttemptIsLost(e)
        PROVE  VettedRuns'
    <2>1. (Advance(e) \/ LoseAttempt(e)) /\ UNCHANGED world
      BY <1>4 DEF RunGoesOn, AttemptIsLost
    <2>2. PICK r \in Run : runs' = [runs EXCEPT ![e] = r] /\ Vetted(r)
      BY <1>1, <2>1, VettedStep DEF VettedRuns
    <2>3. \A f \in DOMAIN runs' : Vetted(runs'[f])
      BY <2>2 DEF VettedRuns
    <2>4. QED
      BY <2>1, <2>3 DEF VettedRuns, Vetted, ClassOf, MustWait
  <1>5. ASSUME NEW i \in Steps, NEW k \in Tries, SpawnRun(i, k)
        PROVE  VettedRuns'
    <2> DEFINE request == [rig |-> world.plan[i].rig, task |-> world.plan[i].task,
                           bead |-> world.bead]
    <2>1. runs' = Append(runs, NewRun("temporal", request, "starting")) /\ UNCHANGED world
      BY <1>5 DEF SpawnRun
    <2> HIDE DEF request
    <2>2. QED
      BY <1>1, <2>1, SpawnVetted
  <1>6. CASE ScheduleStep \/ TimeOutStep \/ TimeOutApproval
    BY <1>2, <1>6 DEF ScheduleStep, TimeOutStep, TimeOutApproval
  <1>7. ASSUME NEW i \in Steps, NEW k \in Tries,
               BeginStep(i, k) \/ FailSpawn(i, k) \/ Collect(i, k)
        PROVE  VettedRuns'
    BY <1>2, <1>7 DEF BeginStep, FailSpawn, Collect
  <1>8. CASE UNCHANGED vars
    BY <1>2, <1>8 DEF vars
  <1>9. QED
    BY <1>3, <1>4, <1>5, <1>6, <1>7, <1>8 DEF Next, StepAttempt

LEMMA VettedAlways == Spec => []VettedRuns
  <1>1. Init => VettedRuns
    BY DEF Init, VettedRuns
  <1>2. (WorkflowInv /\ VettedRuns) /\ [Next]_vars => (WorkflowInv /\ VettedRuns)'
    BY WorkflowStep, VettedKept
  <1>3. QED
    BY WorkflowInit, <1>1, <1>2, PTL DEF Spec

\* Whatever the LLM writes and whatever the bead says, an output that no human
\* looks at is presentable.
THEOREM UnattendedIsPresentableHolds == Spec => []UnattendedIsPresentable
  <1>1. VettedRuns => UnattendedIsPresentable
    BY DEF VettedRuns, Vetted, UnattendedIsPresentable
  <1>2. QED
    BY VettedAlways, <1>1, PTL

\* The output of a class with the flag waits for a human, whoever asks for it and
\* whichever process runs it, and so does what the API runs of a type on its list
\* (SensitiveIsReviewed); a worker's journalist_research, which is on the list and
\* has no flag, is not covered.
THEOREM SensitiveIsReviewedHolds == Spec => []SensitiveIsReviewed
  <1>1. VettedRuns => SensitiveIsReviewed
    BY DEF VettedRuns, Vetted, MustWait, SensitiveIsReviewed
  <1>2. QED
    BY VettedAlways, <1>1, PTL
=============================================================================
