-------------------------- MODULE PolecatRuns_proofs --------------------------
(***************************************************************************)
(* What the gates of QualityGates let through and what the registry of     *)
(* Polecats holds, for any text and any bead: the lemmas that theorems     *)
(* about runs rest on (ConvoyWorkflow_proofs).                             *)
(***************************************************************************)
EXTENDS PolecatRuns, FiniteSetTheorems, WellFoundedInduction, TLAPS

-----------------------------------------------------------------------------
(* The checks, one by one: a score between 0 and 100, and how far a text   *)
(* is from the 100.                                                        *)

\* What the checks read of a bead.
Described(b) == b.title \in Length /\ b.meta_description \in Length

ContentTypes == {"email", "blog", "pr_pitch", "social", "landing_page"}

LEMMA VoicePoints ==
  ASSUME NEW c, NEW b
  PROVE  /\ Scored(check_brand_voice(c, b)).score = 85
         /\ Scored(check_brand_voice(c, b)).result # "fail"
  BY DEF Scored, Score, Crash, check_brand_voice

LEMMA DepthPoints ==
  ASSUME NEW c, NEW b
  PROVE  Scored(check_personalization_depth(c, b)).score = 50
  BY DEF Scored, Score, Crash, check_personalization_depth

LEMMA FigurePoints ==
  ASSUME NEW c \in ContentShape, NEW b
  PROVE  /\ FigureLoss(c) \in Nat
         /\ Scored(check_hallucination(c, b)).score = AtLeastZero(100 - FigureLoss(c))
<1>1. c.stats \in Nat /\ c.sourced \in BOOLEAN /\ c.quotes \in BOOLEAN
  BY DEF ContentShape
<1> DEFINE w == (IF c.sourced THEN 0 ELSE c.stats) + (IF c.quotes THEN 1 ELSE 0)
<1>2. w \in Nat
  BY <1>1
<1>3. check_hallucination(c, b) = Score(PassIf(w = 0), AtLeastZero(100 - 15 * w))
  BY DEF check_hallucination
<1>4. PassIf(w = 0) \in {"pass", "warn"}
  BY DEF PassIf
<1>5. FigureLoss(c) = 15 * w
  BY DEF FigureLoss
<1> HIDE DEF w
<1> QED
  BY <1>2, <1>3, <1>4, <1>5 DEF Scored, Score, Crash

LEMMA LegalPoints ==
  ASSUME NEW c \in ContentShape, NEW b
  PROVE  /\ c.absolutes \in Nat
         /\ Scored(check_legal_flags(c, b)).score = AtLeastZero(100 - 10 * c.absolutes)
<1>1. c.absolutes \in Nat
  BY DEF ContentShape
<1>2. PassIf(c.absolutes = 0) \in {"pass", "warn"}
  BY DEF PassIf
<1> QED
  BY <1>1, <1>2 DEF Scored, Score, Crash, check_legal_flags

LEMMA StylePoints ==
  ASSUME NEW c \in ContentShape, NEW b
  PROVE  /\ c.ap_issues \in Nat
         /\ Scored(check_ap_style(c, b)).score = AtLeastZero(100 - 10 * c.ap_issues)
<1>1. c.ap_issues \in Nat
  BY DEF ContentShape
<1>2. PassIf(c.ap_issues = 0) \in {"pass", "warn"}
  BY DEF PassIf
<1> QED
  BY <1>1, <1>2 DEF Scored, Score, Crash, check_ap_style

LEMMA SpamPoints ==
  ASSUME NEW c \in ContentShape, NEW b
  PROVE  /\ SpamScore(c) \in Nat
         /\ Scored(check_spam_score(c, b)).score = AtLeastZero(100 - 20 * SpamScore(c))
         /\ Scored(check_spam_score(c, b)).result # "fail" => SpamScore(c) <= 2
<1>1. c.triggers \in Nat /\ c.capitals \in BOOLEAN /\ c.shouting \in BOOLEAN
  BY DEF ContentShape
<1>2. SpamScore(c) \in Nat
  BY <1>1 DEF SpamScore
<1> QED
  BY <1>2 DEF Scored, Score, Crash, check_spam_score

LEMMA PagePoints ==
  ASSUME NEW c \in ContentShape, NEW b, Described(b)
  PROVE  /\ PageLoss(c, b) \in Nat
         /\ Scored(check_seo_grade(c, b)).score = 100 - PageLoss(c, b)
<1> DEFINE missing == {f \in {"title", "meta_description"} : b[f] # "fits"}
<1>1. c.keywords \in 0..3
  BY DEF ContentShape
<1>2. b.title \in Length /\ b.meta_description \in Length
  BY DEF Described
<1>3. CASE "null" \in {b.title, b.meta_description}
  <2>1. check_seo_grade(c, b) = Crash /\ PageLoss(c, b) = 50
    BY <1>3 DEF check_seo_grade, PageLoss
  <2> QED
    BY <2>1 DEF Scored, Score
<1>4. CASE "null" \notin {b.title, b.meta_description}
  <2>1. Cardinality({}) = 0 /\ Cardinality({"title"}) = 1
        /\ Cardinality({"meta_description"}) = 1
    BY FS_EmptySet, FS_Singleton
  <2>2. Cardinality({"title", "meta_description"}) = 2
    <3>1. "meta_description" \notin {"title"} /\ IsFiniteSet({"title"})
      BY FS_Singleton
    <3>2. {"title"} \cup {"meta_description"} = {"title", "meta_description"}
      OBVIOUS
    <3>3. Cardinality({"title"} \cup {"meta_description"}) = Cardinality({"title"}) + 1
      BY <3>1, FS_AddElement
    <3> QED
      BY <3>2, <3>3, <2>1
  <2>3. Cardinality(missing) = (IF b.title = "fits" THEN 0 ELSE 1)
                               + (IF b.meta_description = "fits" THEN 0 ELSE 1)
    <3>1. CASE b.title = "fits" /\ b.meta_description = "fits"
      <4>1. missing = {}
        BY <3>1
      <4> QED
        BY <4>1, <3>1, <2>1
    <3>2. CASE b.title = "fits" /\ b.meta_description # "fits"
      <4>1. missing = {"meta_description"}
        BY <3>2
      <4> QED
        BY <4>1, <3>2, <2>1
    <3>3. CASE b.title # "fits" /\ b.meta_description = "fits"
      <4>1. missing = {"title"}
        BY <3>3
      <4> QED
        BY <4>1, <3>3, <2>1
    <3>4. CASE b.title # "fits" /\ b.meta_description # "fits"
      <4>1. missing = {"title", "meta_description"}
        BY <3>4
      <4> QED
        BY <4>1, <3>4, <2>2
    <3> QED
      BY <3>1, <3>2, <3>3, <3>4
  <2>4. PageLoss(c, b) = 10 * Cardinality(missing) + 5 * c.keywords
    BY <1>4 DEF PageLoss
  <2> DEFINE score == 100 - (IF b.title = "fits" THEN 0 ELSE 10)
                          - (IF b.meta_description = "fits" THEN 0 ELSE 10) - 5 * c.keywords
  <2>5. check_seo_grade(c, b) = Score(PassIf(score > 70), score)
    BY <1>4 DEF check_seo_grade
  <2>6. PassIf(score > 70) \in {"pass", "warn"}
    BY DEF PassIf
  <2>7. score = 100 - PageLoss(c, b) /\ PageLoss(c, b) \in Nat
    BY <1>1, <2>3, <2>4
  <2> HIDE DEF score
  <2> QED
    BY <2>5, <2>6, <2>7 DEF Scored, Score, Crash
<1> QED
  BY <1>3, <1>4

LEMMA ReadingPoints ==
  ASSUME NEW c \in ContentShape, NEW b
  PROVE  /\ ReadingLoss(c) \in 0..100
         /\ Scored(check_readability(c, b)).score = 100 - ReadingLoss(c)
         /\ Scored(check_readability(c, b)).result # "fail"
              => c.words = 0 \/ FleschReadingEase(c) >= 30
<1>1. c.words \in Nat /\ c.sentences \in Nat /\ c.syllables \in Nat
  BY DEF ContentShape
<1>2. CASE c.words = 0
  BY <1>2 DEF check_readability, ReadingLoss, Scored, Score, Crash
<1>3. CASE c.words # 0
  <2> DEFINE fre == FleschReadingEase(c)
             result == CASE fre >= 60 -> "pass" [] fre \in 30..59 -> "warn"
                         [] OTHER -> "fail"
  <2>1. fre \in 0..100
    <3> DEFINE perSentence == (1015 * c.words) \div (IF c.sentences = 0 THEN 1 ELSE c.sentences)
               perWord == (84600 * c.syllables) \div c.words
               ease == (206835 - perSentence - perWord) \div 1000
    <3>1. perSentence \in Int /\ perWord \in Int
      BY <1>1, <1>3
    <3> HIDE DEF perSentence, perWord
    <3>2. ease \in Int
      BY <3>1
    <3>3. fre = IF ease > 100 THEN 100 ELSE AtLeastZero(ease)
      BY DEF FleschReadingEase, perSentence, perWord
    <3> HIDE DEF ease, fre
    <3> QED
      BY <3>2, <3>3 DEF AtLeastZero
  <2>2. check_readability(c, b) = Score(result, fre)
    BY <1>3, Zenon DEF check_readability
  <2>3. ReadingLoss(c) = 100 - fre
    BY <1>3 DEF ReadingLoss
  <2> HIDE DEF fre
  <2>4. result # "crash" /\ (result # "fail" => fre >= 30)
    <3>1. CASE fre >= 60
      <4>1. ~(fre \in 30..59)
        BY <3>1
      <4>2. result = "pass"
        BY <3>1, <4>1, Zenon
      <4> HIDE DEF result
      <4> QED
        BY <3>1, <4>2, <2>1
    <3>2. CASE fre \in 30..59
      <4>1. ~(fre >= 60)
        BY <3>2
      <4>2. result = "warn"
        BY <3>2, <4>1, Zenon
      <4> HIDE DEF result
      <4> QED
        BY <3>2, <4>2
    <3>3. CASE ~(fre >= 60) /\ ~(fre \in 30..59)
      <4>2. result = "fail"
        BY <3>3, Zenon
      <4> HIDE DEF result
      <4> QED
        BY <4>2
    <3> QED
      BY <3>1, <3>2, <3>3, Zenon
  <2> HIDE DEF result
  <2>5. Score(result, fre) # Crash
    BY <2>4 DEF Score, Crash
  <2>6. Scored(check_readability(c, b)) = Score(result, fre)
    BY <2>2, <2>5 DEF Scored
  <2> QED
    BY <2>1, <2>3, <2>4, <2>6, <1>3 DEF Score, fre
<1> QED
  BY <1>2, <1>3

-----------------------------------------------------------------------------
(* The sum of three, four or five scores, which is what a type's checks    *)
(* give.                                                                   *)

LEMMA TotalOfFew ==
  ASSUME NEW s, Len(s) \in 3..5, \A i \in 1..Len(s) : s[i].score \in Int
  PROVE  Total(s) = s[1].score + s[2].score + s[3].score
                    + (IF Len(s) >= 4 THEN s[4].score ELSE 0)
                    + (IF Len(s) = 5 THEN s[5].score ELSE 0)
<1> DEFINE
      Sums(g) == [n \in 0..Len(s) |-> IF n = 0 THEN 0 ELSE g[n - 1] + s[n].score]
      three == s[1].score + s[2].score + s[3].score
      few == [n \in 0..Len(s) |->
                IF n = 0 THEN 0 ELSE IF n = 1 THEN s[1].score
                ELSE IF n = 2 THEN s[1].score + s[2].score
                ELSE IF n = 3 THEN three
                ELSE IF n = 4 THEN three + s[4].score
                ELSE three + s[4].score + s[5].score]
      sums == CHOOSE g : g = Sums(g)
<1>1. few = Sums(few)
  BY SMT
<1>2. sums = Sums(sums)
  BY <1>1, Zenon
<1> HIDE DEF sums
<1>3. sums[0] = 0
  BY <1>2
<1>4. \A n \in 1..Len(s) : sums[n] = sums[n - 1] + s[n].score
  BY <1>2
<1>5. sums[3] = three
  <2>1. sums[1] = s[1].score
    BY <1>3, <1>4
  <2>2. sums[2] = s[1].score + s[2].score
    BY <1>4, <2>1
  <2> QED
    BY <1>4, <2>2
<1>6. Len(s) >= 4 => sums[4] = three + s[4].score
  BY <1>4, <1>5
<1>7. Len(s) = 5 => sums[5] = three + s[4].score + s[5].score
  BY <1>4, <1>6
<1>8. Total(s) = sums[Len(s)]
  BY Zenon DEF Total, sums
<1>9. s[1].score \in Int /\ s[2].score \in Int /\ s[3].score \in Int
  OBVIOUS
<1>10. CASE Len(s) = 3
  BY <1>5, <1>8, <1>9, <1>10
<1>11. CASE Len(s) = 4
  <2>1. s[4].score \in Int
    BY <1>11
  <2> QED
    BY <1>6, <1>8, <1>9, <1>11, <2>1
<1>12. CASE Len(s) = 5
  <2>1. s[4].score \in Int /\ s[5].score \in Int
    BY <1>12
  <2> QED
    BY <1>7, <1>8, <1>9, <1>12, <2>1
<1> QED
  BY <1>10, <1>11, <1>12

-----------------------------------------------------------------------------
(* What goes through the gates unseen.                                     *)

\* The results that Check looks at.
Results(type, c, b) ==
  [i \in DOMAIN Checks(type, c, b) |-> Scored(Checks(type, c, b)[i])]

LEMMA UnforcedAverage ==
  ASSUME NEW type, NEW c, NEW b, NEW n \in 3..5, Len(Checks(type, c, b)) = n,
         DOMAIN Checks(type, c, b) = 1..n,
         ~should_force_approval(Check(type, c, b)),
         NEW s, s = Results(type, c, b),
         \A i \in 1..n : s[i].score \in Int
  PROVE  /\ \A i \in 1..n : s[i].result # "fail"
         /\ s[1].score + s[2].score + s[3].score
              + (IF n >= 4 THEN s[4].score ELSE 0) + (IF n = 5 THEN s[5].score ELSE 0)
            >= 80 * n
<1> DEFINE r == Check(type, c, b)
<1>1. DOMAIN s = 1..n
  BY DEF Results
<1>2. Len(s) = n /\ s # << >>
  BY <1>1 DEF Results
<1>3. r = [passed |-> \A i \in DOMAIN s : s[i].result # "fail",
           total |-> Total(s),
           count |-> IF s = << >> THEN 1 ELSE Len(s)]
  BY Zenon DEF Check, Results
<1>4. r.passed = (\A i \in DOMAIN s : s[i].result # "fail")
      /\ r.total = Total(s) /\ r.count = n
  BY <1>2, <1>3
<1>5. Total(s) = s[1].score + s[2].score + s[3].score
                 + (IF n >= 4 THEN s[4].score ELSE 0) + (IF n = 5 THEN s[5].score ELSE 0)
  BY <1>2, TotalOfFew
<1> HIDE DEF r
<1>6. r.passed /\ ~(r.total < 80 * r.count)
  BY Zenon DEF should_force_approval, r
<1>7. \A i \in 1..n : s[i].result # "fail"
  BY <1>1, <1>4, <1>6, Zenon
<1>8. Total(s) \in Int
  <2>1. s[1].score \in Int /\ s[2].score \in Int /\ s[3].score \in Int
    OBVIOUS
  <2>2. (n >= 4 => s[4].score \in Int) /\ (n = 5 => s[5].score \in Int)
    OBVIOUS
  <2> QED
    BY <1>5, <2>1, <2>2
<1>9. Total(s) >= 80 * n
  <2>1. r.total = Total(s) /\ r.count = n /\ ~(r.total < 80 * r.count)
    BY <1>4, <1>6, Zenon
  <2> QED
    BY <1>8, <2>1
<1> QED
  BY <1>5, <1>7, <1>9

\* An unknown type has no checks, and no points either.
LEMMA UncheckedIsForced ==
  ASSUME NEW type, NEW c, NEW b, type \notin ContentTypes
  PROVE  should_force_approval(Check(type, c, b))
<1>1. Checks(type, c, b) = << >>
  BY Zenon DEF Checks, ContentTypes
<1> DEFINE s == Results(type, c, b)
           r == Check(type, c, b)
<1>2. s = << >> /\ Len(s) = 0
  BY <1>1 DEF Results
<1> DEFINE Sums(g) == [n \in 0..Len(s) |-> IF n = 0 THEN 0 ELSE g[n - 1] + s[n].score]
           nothing == [n \in 0..Len(s) |-> 0]
           sums == CHOOSE g : g = Sums(g)
<1>3. nothing = Sums(nothing)
  BY <1>2
<1>4. sums = Sums(sums)
  BY <1>3, Zenon
<1> HIDE DEF sums
<1>5. sums[0] = 0
  BY <1>2, <1>4
<1>6. Total(s) = sums[Len(s)]
  BY Zenon DEF Total, sums
<1>7. r = [passed |-> \A i \in DOMAIN s : s[i].result # "fail",
           total |-> Total(s),
           count |-> IF s = << >> THEN 1 ELSE Len(s)]
  BY Zenon DEF Check, Results
<1>8. r.total = 0 /\ r.count = 1
  BY <1>2, <1>5, <1>6, <1>7
<1> QED
  BY <1>8 DEF should_force_approval

LEMMA Allowances ==
  /\ Allowance("email") = 85 /\ Allowance("blog") = 85 /\ Allowance("pr_pitch") = 65
  /\ Allowance("social") = 45 /\ Allowance("landing_page") = 65
  BY Zenon DEF Allowance

LEMMA EmailPasses ==
  ASSUME NEW c \in ContentShape, NEW b, Described(b),
         ~should_force_approval(Check("email", c, b))
  PROVE  /\ PointsLost("email", c, b) <= Allowance("email")
         /\ SpamScore(c) <= 2
<1> DEFINE s == Results("email", c, b)
<1>1. Checks("email", c, b) =
        <<check_brand_voice(c, b), check_spam_score(c, b),
          check_personalization_depth(c, b), check_hallucination(c, b),
          check_legal_flags(c, b)>>
  BY Zenon DEF Checks
<1>2. /\ s[1] = Scored(check_brand_voice(c, b))
      /\ s[2] = Scored(check_spam_score(c, b))
      /\ s[3] = Scored(check_personalization_depth(c, b))
      /\ s[4] = Scored(check_hallucination(c, b))
      /\ s[5] = Scored(check_legal_flags(c, b))
  BY <1>1 DEF Results
<1>3. Len(Checks("email", c, b)) = 5 /\ DOMAIN Checks("email", c, b) = 1..5
  BY <1>1
<1> HIDE DEF s
<1>4. /\ s[1].score = 85 /\ s[2].score = AtLeastZero(100 - 20 * SpamScore(c))
      /\ s[3].score = 50 /\ s[4].score = AtLeastZero(100 - FigureLoss(c))
      /\ s[5].score = AtLeastZero(100 - 10 * c.absolutes)
  BY <1>2, VoicePoints, SpamPoints, DepthPoints, FigurePoints, LegalPoints
<1>5. SpamScore(c) \in Nat /\ FigureLoss(c) \in Nat /\ c.absolutes \in Nat
  BY SpamPoints, FigurePoints, LegalPoints
<1>6. \A i \in 1..5 : s[i].score \in Int
  BY <1>4, <1>5 DEF AtLeastZero
<1>7. /\ \A i \in 1..5 : s[i].result # "fail"
      /\ s[1].score + s[2].score + s[3].score + s[4].score + s[5].score >= 400
  BY <1>3, <1>6, UnforcedAverage DEF s
<1>8. SpamScore(c) <= 2
  <2>1. s[2].result # "fail"
    BY <1>7
  <2> QED
    BY <1>2, <2>1, SpamPoints
<1>9. 10 * c.absolutes + FigureLoss(c) + 50 + 20 * SpamScore(c) <= 85
  BY <1>4, <1>5, <1>7 DEF AtLeastZero
<1>10. PointsLost("email", c, b) = 10 * c.absolutes + FigureLoss(c) + 50 + 20 * SpamScore(c)
  BY <1>5 DEF PointsLost
<1> QED
  BY <1>9, <1>10, Allowances, <1>8

LEMMA BlogPasses ==
  ASSUME NEW c \in ContentShape, NEW b, Described(b),
         ~should_force_approval(Check("blog", c, b))
  PROVE  /\ PointsLost("blog", c, b) <= Allowance("blog")
         /\ c.words = 0 \/ FleschReadingEase(c) >= 30
<1> DEFINE s == Results("blog", c, b)
<1>1. Checks("blog", c, b) =
        <<check_brand_voice(c, b), check_seo_grade(c, b), check_readability(c, b),
          check_hallucination(c, b), check_legal_flags(c, b)>>
  BY Zenon DEF Checks
<1>2. /\ s[1] = Scored(check_brand_voice(c, b))
      /\ s[2] = Scored(check_seo_grade(c, b))
      /\ s[3] = Scored(check_readability(c, b))
      /\ s[4] = Scored(check_hallucination(c, b))
      /\ s[5] = Scored(check_legal_flags(c, b))
  BY <1>1 DEF Results
<1>3. Len(Checks("blog", c, b)) = 5 /\ DOMAIN Checks("blog", c, b) = 1..5
  BY <1>1
<1> HIDE DEF s
<1>4. /\ s[1].score = 85 /\ s[2].score = 100 - PageLoss(c, b)
      /\ s[3].score = 100 - ReadingLoss(c) /\ s[4].score = AtLeastZero(100 - FigureLoss(c))
      /\ s[5].score = AtLeastZero(100 - 10 * c.absolutes)
  BY <1>2, VoicePoints, PagePoints, ReadingPoints, FigurePoints, LegalPoints
<1>5. /\ PageLoss(c, b) \in Nat /\ ReadingLoss(c) \in 0..100
      /\ FigureLoss(c) \in Nat /\ c.absolutes \in Nat
  BY PagePoints, ReadingPoints, FigurePoints, LegalPoints
<1>6. \A i \in 1..5 : s[i].score \in Int
  BY <1>4, <1>5 DEF AtLeastZero
<1>7. /\ \A i \in 1..5 : s[i].result # "fail"
      /\ s[1].score + s[2].score + s[3].score + s[4].score + s[5].score >= 400
  BY <1>3, <1>6, UnforcedAverage DEF s
<1>8. c.words = 0 \/ FleschReadingEase(c) >= 30
  <2>1. s[3].result # "fail"
    BY <1>7
  <2> QED
    BY <1>2, <2>1, ReadingPoints
<1>9. 10 * c.absolutes + FigureLoss(c) + PageLoss(c, b) + ReadingLoss(c) <= 85
  BY <1>4, <1>5, <1>7 DEF AtLeastZero
<1>10. PointsLost("blog", c, b) = 10 * c.absolutes + FigureLoss(c) + PageLoss(c, b) + ReadingLoss(c)
  BY <1>5 DEF PointsLost
<1> QED
  BY <1>9, <1>10, Allowances, <1>8

LEMMA PitchPasses ==
  ASSUME NEW c \in ContentShape, NEW b, Described(b),
         ~should_force_approval(Check("pr_pitch", c, b))
  PROVE  PointsLost("pr_pitch", c, b) <= Allowance("pr_pitch")
<1> DEFINE s == Results("pr_pitch", c, b)
<1>1. Checks("pr_pitch", c, b) =
        <<check_brand_voice(c, b), check_ap_style(c, b),
          check_hallucination(c, b), check_legal_flags(c, b)>>
  BY Zenon DEF Checks
<1>2. /\ s[1] = Scored(check_brand_voice(c, b))
      /\ s[2] = Scored(check_ap_style(c, b))
      /\ s[3] = Scored(check_hallucination(c, b))
      /\ s[4] = Scored(check_legal_flags(c, b))
  BY <1>1 DEF Results
<1>3. Len(Checks("pr_pitch", c, b)) = 4 /\ DOMAIN Checks("pr_pitch", c, b) = 1..4
  BY <1>1
<1> HIDE DEF s
<1>4. /\ s[1].score = 85 /\ s[2].score = AtLeastZero(100 - 10 * c.ap_issues)
      /\ s[3].score = AtLeastZero(100 - FigureLoss(c))
      /\ s[4].score = AtLeastZero(100 - 10 * c.absolutes)
  BY <1>2, VoicePoints, StylePoints, FigurePoints, LegalPoints
<1>5. c.ap_issues \in Nat /\ FigureLoss(c) \in Nat /\ c.absolutes \in Nat
  BY StylePoints, FigurePoints, LegalPoints
<1>6. \A i \in 1..4 : s[i].score \in Int
  BY <1>4, <1>5 DEF AtLeastZero
<1>7. s[1].score + s[2].score + s[3].score + s[4].score >= 320
  BY <1>3, <1>4, <1>5, <1>6, UnforcedAverage DEF s, AtLeastZero
<1>9. 10 * c.absolutes + FigureLoss(c) + 10 * c.ap_issues <= 65
  BY <1>4, <1>5, <1>7 DEF AtLeastZero
<1>10. PointsLost("pr_pitch", c, b) = 10 * c.absolutes + FigureLoss(c) + 10 * c.ap_issues
  BY <1>5 DEF PointsLost
<1> QED
  BY <1>9, <1>10, Allowances

LEMMA SocialPasses ==
  ASSUME NEW c \in ContentShape, NEW b, Described(b),
         ~should_force_approval(Check("social", c, b))
  PROVE  PointsLost("social", c, b) <= Allowance("social")
<1> DEFINE s == Results("social", c, b)
<1>1. Checks("social", c, b) =
        <<check_brand_voice(c, b), check_hallucination(c, b), check_legal_flags(c, b)>>
  BY Zenon DEF Checks
<1>2. /\ s[1] = Scored(check_brand_voice(c, b))
      /\ s[2] = Scored(check_hallucination(c, b))
      /\ s[3] = Scored(check_legal_flags(c, b))
  BY <1>1 DEF Results
<1>3. Len(Checks("social", c, b)) = 3 /\ DOMAIN Checks("social", c, b) = 1..3
  BY <1>1
<1> HIDE DEF s
<1>4. /\ s[1].score = 85 /\ s[2].score = AtLeastZero(100 - FigureLoss(c))
      /\ s[3].score = AtLeastZero(100 - 10 * c.absolutes)
  BY <1>2, VoicePoints, FigurePoints, LegalPoints
<1>5. FigureLoss(c) \in Nat /\ c.absolutes \in Nat
  BY FigurePoints, LegalPoints
<1>6. \A i \in 1..3 : s[i].score \in Int
  BY <1>4, <1>5 DEF AtLeastZero
<1>7. s[1].score + s[2].score + s[3].score >= 240
  BY <1>3, <1>4, <1>5, <1>6, UnforcedAverage DEF s, AtLeastZero
<1>9. 10 * c.absolutes + FigureLoss(c) <= 45
  BY <1>4, <1>5, <1>7 DEF AtLeastZero
<1>10. PointsLost("social", c, b) = 10 * c.absolutes + FigureLoss(c)
  BY <1>5 DEF PointsLost
<1> QED
  BY <1>9, <1>10, Allowances

LEMMA LandingPagePasses ==
  ASSUME NEW c \in ContentShape, NEW b, Described(b),
         ~should_force_approval(Check("landing_page", c, b))
  PROVE  /\ PointsLost("landing_page", c, b) <= Allowance("landing_page")
         /\ c.words = 0 \/ FleschReadingEase(c) >= 30
<1> DEFINE s == Results("landing_page", c, b)
<1>1. Checks("landing_page", c, b) =
        <<check_brand_voice(c, b), check_seo_grade(c, b), check_readability(c, b),
          check_legal_flags(c, b)>>
  BY Zenon DEF Checks
<1>2. /\ s[1] = Scored(check_brand_voice(c, b))
      /\ s[2] = Scored(check_seo_grade(c, b))
      /\ s[3] = Scored(check_readability(c, b))
      /\ s[4] = Scored(check_legal_flags(c, b))
  BY <1>1 DEF Results
<1>3. Len(Checks("landing_page", c, b)) = 4 /\ DOMAIN Checks("landing_page", c, b) = 1..4
  BY <1>1
<1> HIDE DEF s
<1>4. /\ s[1].score = 85 /\ s[2].score = 100 - PageLoss(c, b)
      /\ s[3].score = 100 - ReadingLoss(c)
      /\ s[4].score = AtLeastZero(100 - 10 * c.absolutes)
  BY <1>2, VoicePoints, PagePoints, ReadingPoints, LegalPoints
<1>5. PageLoss(c, b) \in Nat /\ ReadingLoss(c) \in 0..100 /\ c.absolutes \in Nat
  BY PagePoints, ReadingPoints, LegalPoints
<1>6. \A i \in 1..4 : s[i].score \in Int
  BY <1>4, <1>5 DEF AtLeastZero
<1>7. /\ \A i \in 1..4 : s[i].result # "fail"
      /\ s[1].score + s[2].score + s[3].score + s[4].score >= 320
  BY <1>3, <1>4, <1>5, <1>6, UnforcedAverage DEF s, AtLeastZero
<1>8. c.words = 0 \/ FleschReadingEase(c) >= 30
  <2>1. s[3].result # "fail"
    BY <1>7
  <2> QED
    BY <1>2, <2>1, ReadingPoints
<1>9. 10 * c.absolutes + PageLoss(c, b) + ReadingLoss(c) <= 65
  BY <1>4, <1>5, <1>7 DEF AtLeastZero
<1>10. PointsLost("landing_page", c, b) = 10 * c.absolutes + PageLoss(c, b) + ReadingLoss(c)
  BY <1>5 DEF PointsLost
<1> QED
  BY <1>9, <1>10, Allowances, <1>8

\* For any text, any bead and any class: what the gates do not hold back is
\* presentable (refinery.py:check and should_force_approval, witness.py:verify
\* and has_blocking_issues, base.py:_requires_approval).
THEOREM OnlyThePresentablePasses ==
  ASSUME NEW class, NEW c \in ContentShape, NEW b, Described(b),
         ~RequiresApproval(class, Check(class.content_type, c, b), Verify(c, b))
  PROVE  Presentable(class.content_type, c, b)
<1> DEFINE type == class.content_type
<1>1. /\ ~should_force_approval(Check(type, c, b))
      /\ ~has_blocking_issues(Verify(c, b))
  BY Zenon DEF RequiresApproval
<1>2. ~(b.type = "journalist" /\ b.email /\ b.pitched)
  <2> SUFFICES ASSUME b.type = "journalist" /\ b.email /\ b.pitched
               PROVE  has_blocking_issues(Verify(c, b))
    BY <1>1
  <2>1. check_duplicate_outreach(b) = {"high"}
    BY DEF check_duplicate_outreach
  <2>2. "high" \in Verify(c, b)
    BY <2>1 DEF Verify
  <2> QED
    BY <2>2 DEF has_blocking_issues
<1>3. type \in ContentTypes
  BY <1>1, UncheckedIsForced
<1> HIDE DEF type
<1>4. PointsLost(type, c, b) <= Allowance(type)
  BY <1>1, <1>3, EmailPasses, BlogPasses, PitchPasses, SocialPasses, LandingPagePasses,
     Zenon DEF ContentTypes
<1>5. type = "email" => SpamScore(c) <= 2
  BY <1>1, EmailPasses, Zenon
<1>6. type \in {"blog", "landing_page"} => c.words = 0 \/ FleschReadingEase(c) >= 30
  BY <1>1, BlogPasses, LandingPagePasses, Zenon
<1> QED
  BY <1>2, <1>4, <1>5, <1>6, Zenon DEF Presentable, type

-----------------------------------------------------------------------------
(* The registry at the keys of the classes whose output always waits, and  *)
(* at the others.                                                          *)

SensitiveTasks == {"pr_pitch_draft", "embargo_management", "sms_draft", "sms_analysis",
                   "sms_response", "statistical_significance"}
Key(i) == <<Classes[i].rig, Classes[i].task_class>>

LEMMA ClassCount == DOMAIN Classes = 1..39 /\ Len(Classes) = 39
  BY DEF Classes

LEMMA SensitiveClasses ==
  ASSUME NEW i \in 1..39
  PROVE  /\ Classes[i].task_class \in SensitiveTasks => Classes[i].always_requires_approval
         /\ Classes[i].task_class \notin SensitiveTasks => ~Classes[i].always_requires_approval
  BY SMTT(60) DEF SensitiveTasks,
     BlogDraftPolecat, SEOMetaPolecat, SocialSnippetPolecat, ContentCalendarPolecat,
     ImageBriefPolecat, ScoutPolecat, EnrichPolecat, PersonalizePolecat,
     SequencePolecat, SMSPolecat, DraftTweetPolecat, DraftLinkedInPolecat,
     DraftThreadsPolecat, EngagementPolecat, HashtagResearchPolecat,
     CrossPostAdaptPolecat, JournalistResearchPolecat, PitchDraftPolecat,
     PRWireDraftPolecat, HAROWatcherPolecat, EmbargoPolecat,
     CompetitorWebChangePolecat, CompetitorJobsPolecat, CompetitorSocialPolecat,
     CompetitorReviewPolecat, CompetitorPRPolecat, LandingPageDraftPolecat,
     LandingPageVariantPolecat, EmailVariantPolecat, WinnerDeclarePolecat,
     WireSMSDraftPolecat, WireConversationAnalysisPolecat,
     WireResponseSuggestionPolecat, RepoStargazerPolecat, IssueTrendPolecat,
     PRMentionPolecat, ReadmeOptimizePolecat, DevRelContentPolecat,
     ChangelogPolecat, Classes, Polecat, ALWAYS, WhenForced

LEMMA LastPlace ==
  ASSUME NEW n \in Nat, NEW S, S \subseteq 1..n, S # {}
  PROVE  Max(S) \in S /\ \A i \in S : i <= Max(S)
<1> DEFINE toEnd == {n - i : i \in S}
<1>1. toEnd \subseteq Nat /\ toEnd # {}
  <2>1. \A i \in S : i \in Int /\ i <= n
    OBVIOUS
  <2>2. \A i \in S : n - i \in Nat
    BY <2>1
  <2>3. PICK i \in S : TRUE
    OBVIOUS
  <2>4. n - i \in toEnd
    BY <2>3
  <2> QED
    BY <2>2, <2>4
<1>2. PICK d \in toEnd : \A e \in toEnd : <<e, d>> \notin OpToRel(<, Nat)
  BY <1>1, NatLessThanWellFounded, WFMin, Zenon
<1>3. \A e \in toEnd : ~(e < d)
  <2> TAKE e \in toEnd
  <2>1. e \in Nat /\ d \in Nat
    BY <1>1
  <2> HIDE DEF toEnd
  <2>2. <<e, d>> \in Nat \X Nat /\ <<e, d>>[1] = e /\ <<e, d>>[2] = d
    BY <2>1
  <2> QED
    BY <1>2, <2>2, Zenon DEF OpToRel
<1>4. PICK i \in S : d = n - i
  OBVIOUS
<1>5. \A j \in S : i >= j
  <2> TAKE j \in S
  <2>1. n - j \in toEnd
    OBVIOUS
  <2> QED
    BY <1>3, <1>4, <2>1
<1>6. Max(S) \in S /\ \A j \in S : Max(S) >= j
  BY <1>5, Zenon DEF Max
<1>7. \A j \in S : j <= Max(S)
  BY <1>6
<1> QED
  BY <1>6, <1>7

\* Under every key of the registry stands the last class that registered it
\* (base.py:register_polecat): an earlier one with the same key is gone.
THEOREM RegistryKeepsTheLast ==
  ASSUME NEW k \in Keys
  PROVE  \E i \in 1..39 : /\ Key(i) = k /\ register_polecat[k] = Classes[i]
                          /\ \A j \in 1..39 : Key(j) = k => j <= i
<1> DEFINE places == {i \in 1..Len(Classes) :
                        <<Classes[i].rig, Classes[i].task_class>> = k}
           last == Max(places)
<1>1. places = {i \in 1..39 : Key(i) = k}
  BY ClassCount DEF Key
<1>2. places # {}
  BY ClassCount, <1>1 DEF Key, Keys, ToSet
<1>3. last \in places /\ \A i \in places : i <= last
  BY ClassCount, <1>2, LastPlace
<1>4. SelectLastInSeq(Classes, LAMBDA c : <<c.rig, c.task_class>> = k) = last
  BY <1>2, Zenon DEF SelectLastInSeq
<1>5. register_polecat[k] = Classes[last]
  BY <1>4, Zenon DEF register_polecat
<1> HIDE DEF last
<1> QED
  BY <1>1, <1>3, <1>5

LEMMA FlagTellsTheSensitive ==
  ASSUME NEW k \in Keys
  PROVE  /\ k \in Sensitive => register_polecat[k].always_requires_approval
         /\ k \notin Sensitive => ~register_polecat[k].always_requires_approval
<1>1. PICK i \in 1..39 : Key(i) = k /\ register_polecat[k] = Classes[i]
  BY RegistryKeepsTheLast
<1>2. k \in Sensitive <=> Classes[i].task_class \in SensitiveTasks
  BY <1>1 DEF Sensitive, SensitiveTasks, Key
<1> QED
  BY <1>1, <1>2, SensitiveClasses

\* For any request of a registered key: the class that is found for it has the
\* flag exactly at the keys in Sensitive, whatever else was registered there.  At
\* those it lets nothing out unseen, whatever the gates say; at the others, the
\* gates alone decide.
THEOREM SensitiveRequiresApproval ==
  ASSUME NEW rig, NEW task, <<rig, task>> \in Keys, NEW refinery, NEW issues
  PROVE  /\ <<rig, task>> \in Sensitive
              => RequiresApproval(get_polecat_class(rig, task), refinery, issues)
         /\ <<rig, task>> \notin Sensitive
              => (RequiresApproval(get_polecat_class(rig, task), refinery, issues)
                    => should_force_approval(refinery) \/ has_blocking_issues(issues))
<1>1. get_polecat_class(rig, task) = register_polecat[<<rig, task>>]
  BY DEF get_polecat_class
<1>2. /\ <<rig, task>> \in Sensitive => get_polecat_class(rig, task).always_requires_approval
      /\ <<rig, task>> \notin Sensitive
           => ~get_polecat_class(rig, task).always_requires_approval
  BY <1>1, FlagTellsTheSensitive
<1> QED
  BY <1>2, Zenon DEF RequiresApproval

\* The type that the API's list names and the registry lets through: no process
\* but the API makes journalist_research wait for its own sake, although both
\* routers/polecats.py:121 and convoy_executor.py:77 call it one that always does.
THEOREM JournalistResearchHasNoFlag ==
  ASSUME NEW refinery, NEW issues,
         RequiresApproval(get_polecat_class("press_room", "journalist_research"),
                          refinery, issues)
  PROVE  /\ "journalist_research" \in ALWAYS_REQUIRE_APPROVAL
         /\ should_force_approval(refinery) \/ has_blocking_issues(issues)
<1>1. <<"press_room", "journalist_research">> \in Keys
  <2>1. Classes[17] = JournalistResearchPolecat /\ 17 \in DOMAIN Classes
    BY DEF Classes
  <2>2. <<"press_room", "journalist_research">>
          = <<Classes[17].rig, Classes[17].task_class>>
    BY <2>1 DEF JournalistResearchPolecat, Polecat
  <2>3. Classes[17] \in ToSet(Classes)
    BY <2>1 DEF ToSet
  <2> QED
    BY <2>2, <2>3 DEF Keys
<1>2. <<"press_room", "journalist_research">> \notin Sensitive
  BY DEF Sensitive
<1>3. "journalist_research" \in ALWAYS_REQUIRE_APPROVAL
  BY DEF ALWAYS_REQUIRE_APPROVAL
<1> QED
  BY <1>1, <1>2, <1>3, SensitiveRequiresApproval

\* A sensitive key has a class, and the class is none that lets things out.
LEMMA SensitiveIsKnown ==
  ASSUME NEW rig, NEW task, <<rig, task>> \in Sensitive
  PROVE  <<rig, task>> \in Keys /\ get_polecat_class(rig, task) # NoPolecat
<1>1. <<rig, task>> \in Keys /\ get_polecat_class(rig, task) = register_polecat[<<rig, task>>]
  BY DEF get_polecat_class, Sensitive
<1>2. get_polecat_class(rig, task).always_requires_approval
  BY <1>1, FlagTellsTheSensitive
<1>3. ~NoPolecat.always_requires_approval
  BY DEF NoPolecat, Polecat, WhenForced
<1> QED
  BY <1>1, <1>2, <1>3, Zenon
===============================================================================
