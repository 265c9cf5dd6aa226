----------------------------- MODULE MCWorkflow ------------------------------
(***************************************************************************)
(* A small instance of ConvoyWorkflow for TLC.                             *)
(***************************************************************************)
EXTENDS ConvoyWorkflow

CONSTANTS asset1, lead1, reporter1, untitled

Bead(type, title, meta, pitched, versions) ==
  [type |-> type, title |-> title, meta_description |-> meta, email |-> TRUE,
   pitched |-> pitched, versions |-> versions]

Beads ==
  (asset1 :> Bead("asset", "fits", "fits", FALSE, 2)) @@
  (untitled :> Bead("asset", "null", "fits", FALSE, 0)) @@
  (lead1 :> Bead("lead", "fits", "null", FALSE, 1)) @@
  (reporter1 :> Bead("journalist", "null", "null", TRUE, 2))

Plain == [stats |-> 0, sourced |-> FALSE, quotes |-> FALSE, absolutes |-> 0,
          triggers |-> 0, capitals |-> FALSE, shouting |-> FALSE,
          words |-> 100, sentences |-> 8, syllables |-> 140, keywords |-> 0,
          ap_issues |-> 0, contradicts |-> FALSE]

Cheeky == [Plain EXCEPT !.triggers = 1, !.shouting = TRUE, !.contradicts = TRUE]

\* Around every threshold: three spam points, the reading ease of 60 and 30, and
\* the average of four fifths.
Texts == {
  Plain,
  Cheeky,
  [Plain EXCEPT !.triggers = 1, !.capitals = TRUE],
  [Plain EXCEPT !.stats = 3, !.quotes = TRUE],
  [Plain EXCEPT !.stats = 3, !.sourced = TRUE, !.absolutes = 4],
  [Plain EXCEPT !.stats = 2, !.absolutes = 2],
  [Plain EXCEPT !.syllables = 200, !.keywords = 2],
  [Plain EXCEPT !.words = 0],
  [Plain EXCEPT !.syllables = 170, !.ap_issues = 6]}

Step(rig, task) == [rig |-> rig, task |-> task]
Direct(caller, rig, task, bead) ==
  [caller |-> caller, rig |-> rig, task |-> task, bead |-> bead]

World(loads, llm, run_attempts, direct) ==
  [loaded |-> loads, texts |-> llm, run_attempts |-> run_attempts, direct |-> direct,
   plan |-> << >>, shared |-> FALSE, bead |-> Fresh, step_attempts |-> 1]

Convoy(plan, w, bead, shared, step_attempts) ==
  [w EXCEPT !.plan = plan, !.bead = bead, !.shared = shared,
            !.step_attempts = step_attempts]

Blog == Step("content_factory", "blog_draft")
Pitch == Step("press_room", "pr_pitch_draft")

\* One run alone, of every class there is and of two types that have none.
Alone ==
  {World(TRUE, Texts, 3, <<Direct(caller, k[1], k[2], bead)>>) :
     caller \in {"api", "temporal"},
     k \in Keys \cup {<<"press_room", "pitch_draft">>, <<"sdr_hive", "personalize">>},
     bead \in {asset1, untitled, lead1, reporter1, Fresh, Malformed}}

\* The convoy as it would run on a worker that registers it: one that has
\* imported no rig, with a store of its own and a bead nobody has; one in the
\* API's process; and with the existing bead the comment at workflows.py:60 has
\* in mind.
Convoys ==
  {Convoy(<<Blog, Pitch>>, World(loads, {Plain}, 1, << >>), bead, shared, 1) :
     loads \in BOOLEAN, shared \in BOOLEAN, bead \in {Fresh, reporter1}}
  \cup {Convoy(<<Pitch>>, World(loads, {Cheeky}, 2, << >>), bead, TRUE, 2) :
          loads \in BOOLEAN, bead \in {Fresh, reporter1}}
  \cup {Convoy(<<Blog, Pitch>>, World(TRUE, {Plain}, 1, << >>), reporter1, TRUE, 2)}
  \cup {Convoy(<<Pitch>>, World(FALSE, {Plain}, 1, << >>), Fresh, TRUE, 3)}

SomeWorkloads == Alone \cup Convoys
=============================================================================
