---------------------------- MODULE QualityGates -----------------------------
(***************************************************************************)
(* The two gates an output passes: the checks of apps/api/core/refinery.py *)
(* and the verification of apps/api/core/witness.py.                       *)
(*                                                                         *)
(* A text is a record of what the checks count in it, a bead a record of   *)
(* the fields they look at.  Scores are in percent; where the floating     *)
(* sum of the code falls just short of an exact 0.8, the code asks for     *)
(* approval and this module does not.                                      *)
(***************************************************************************)
EXTENDS Integers, Sequences, FiniteSets

ContentShape == [
  stats : 0..3,          (* kinds of figures: percentages, dollars, multiples *)
  sourced : BOOLEAN,     (* the word "source" occurs                          *)
  quotes : BOOLEAN,      (* a quotation of 20 characters or more              *)
  absolutes : 0..6,      (* of the listed absolute terms                      *)
  triggers : 0..9,       (* of the listed spam triggers                       *)
  capitals : BOOLEAN,    (* more than 30 % upper case                         *)
  shouting : BOOLEAN,    (* more than three exclamation marks                 *)
  words : Nat, sentences : Nat, syllables : Nat,
  keywords : 0..3,       (* of the first three keywords, at a bad density     *)
  ap_issues : 0..6,      (* of the listed AP style patterns                   *)
  contradicts : BOOLEAN] (* the LLM finds it contradicts an earlier version   *)

\* A title or description has a good length, a bad one, or is NULL.
Length == {"fits", "misfits", "null"}

BeadShape == [
  type : STRING,
  title : Length, meta_description : Length,
  email : BOOLEAN,       (* the bead has an e-mail address                    *)
  pitched : BOOLEAN,     (* last_pitched_at is less than 30 days ago          *)
  versions : 0..2]       (* how many earlier versions its history shows, two  *)
                         (* standing for two or more                          *)

Score(result, score) == [result |-> result, score |-> score]
AtLeastZero(n) == IF n < 0 THEN 0 ELSE n
PassIf(b) == IF b THEN "pass" ELSE "warn"
-----------------------------------------------------------------------------
\* A placeholder in the code too.
check_brand_voice(c, b) == Score("pass", 85)

check_hallucination(c, b) ==
  LET warnings == (IF c.sourced THEN 0 ELSE c.stats) + (IF c.quotes THEN 1 ELSE 0)
  IN  Score(PassIf(warnings = 0), AtLeastZero(100 - 15 * warnings))

\* No bead has the field "competitor" that the first clause asks for.
check_legal_flags(c, b) ==
  Score(PassIf(c.absolutes = 0), AtLeastZero(100 - 10 * c.absolutes))

SpamScore(c) ==
  c.triggers + (IF c.capitals THEN 2 ELSE 0) + (IF c.shouting THEN 1 ELSE 0)

check_spam_score(c, b) ==
  Score(IF SpamScore(c) < 3 THEN "pass" ELSE "fail",
        AtLeastZero(100 - 20 * SpamScore(c)))

\* No bead has the field "lead" that holds the names to look for.
check_personalization_depth(c, b) == Score("warn", 50)

\* len() of a NULL raises, which Scored turns into the score of a crash.
Crash == Score("crash", 0)

check_seo_grade(c, b) ==
  LET score == 100 - (IF b.title = "fits" THEN 0 ELSE 10)
                   - (IF b.meta_description = "fits" THEN 0 ELSE 10)
                   - 5 * c.keywords
  IN  IF "null" \in {b.title, b.meta_description} THEN Crash
      ELSE Score(PassIf(score > 70), score)

\* 206.835 - 1.015 words/sentences - 84.6 syllables/words, between 0 and 100.
FleschReadingEase(c) ==
  LET fre == (206835 - (1015 * c.words) \div (IF c.sentences = 0 THEN 1 ELSE c.sentences)
              - (84600 * c.syllables) \div c.words) \div 1000
  IN  IF fre > 100 THEN 100 ELSE AtLeastZero(fre)

check_readability(c, b) ==
  IF c.words = 0 THEN Score("warn", 50)
  ELSE LET fre == FleschReadingEase(c)
       IN  Score(CASE fre >= 60 -> "pass" [] fre \in 30..59 -> "warn"
                   [] OTHER -> "fail", fre)

check_ap_style(c, b) ==
  Score(PassIf(c.ap_issues = 0), AtLeastZero(100 - 10 * c.ap_issues))

\* DEFAULT_CHECKS with the score each gives; an unknown type has none.
Checks(type, c, b) ==
  CASE type = "email" ->
         <<check_brand_voice(c, b), check_spam_score(c, b),
           check_personalization_depth(c, b), check_hallucination(c, b),
           check_legal_flags(c, b)>>
    [] type = "blog" ->
         <<check_brand_voice(c, b), check_seo_grade(c, b), check_readability(c, b),
           check_hallucination(c, b), check_legal_flags(c, b)>>
    [] type = "pr_pitch" ->
         <<check_brand_voice(c, b), check_ap_style(c, b),
           check_hallucination(c, b), check_legal_flags(c, b)>>
    [] type = "social" ->
         <<check_brand_voice(c, b), check_hallucination(c, b), check_legal_flags(c, b)>>
    [] type = "landing_page" ->
         <<check_brand_voice(c, b), check_seo_grade(c, b), check_readability(c, b),
           check_legal_flags(c, b)>>
    [] OTHER -> << >>

\* A check that raises warns with half a point.
Scored(s) == IF s = Crash THEN Score("warn", 50) ELSE s

Total(scores) ==
  LET sum[n \in 0..Len(scores)] == IF n = 0 THEN 0 ELSE sum[n - 1] + scores[n].score
  IN  sum[Len(scores)]

\* check: passed, and the overall score as total over count.
Check(type, c, b) ==
  LET raw == Checks(type, c, b)
      scores == [i \in DOMAIN raw |-> Scored(raw[i])]
  IN  [passed |-> \A i \in DOMAIN scores : scores[i].result # "fail",
       total |-> Total(scores),
       count |-> IF scores = << >> THEN 1 ELSE Len(scores)]

\* Faulty variant: only a failed check forces approval.
should_force_approval_OnFailure(r) == ~r.passed

should_force_approval(r) == ~r.passed \/ r.total < 80 * r.count
-----------------------------------------------------------------------------
\* Only journalists have a cooldown, and only one with an address is looked at.
check_duplicate_outreach(b) ==
  IF b.type = "journalist" /\ b.email /\ b.pitched THEN {"high"} ELSE {}

\* An LLM that fails or answers no JSON finds nothing.
check_contradictions(c, b) ==
  IF b.versions >= 2 /\ c.contradicts THEN {"medium"} ELSE {}

\* The severities of the issues found.  Content and campaign consistency look
\* at their context and report nothing.
Verify(c, b) ==
  (IF b.type \in {"lead", "journalist"} THEN check_duplicate_outreach(b) ELSE {})
    \cup (IF b.versions > 0 THEN check_contradictions(c, b) ELSE {})

has_blocking_issues(issues) == issues \cap {"high", "critical"} # {}
-----------------------------------------------------------------------------
RequiresApproval(class, refinery, issues) ==
  \/ class.always_requires_approval
  \/ should_force_approval(refinery)
  \/ has_blocking_issues(issues)
=============================================================================
