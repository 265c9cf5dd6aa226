------------------------------ MODULE Polecats ------------------------------
(***************************************************************************)
(* The polecat classes of rigs/*/polecats.py and their registry in         *)
(* polecats/base.py.                                                       *)
(*                                                                         *)
(* A class fills a prompt from its bead's fields and its config, makes one *)
(* LLM call and returns the answer.  The wording decides nothing here:     *)
(* what the pipeline sees of a class is the key it registers under, the    *)
(* content type its answer is checked as, the kind of bead it reads, and   *)
(* whether its answers always wait for a human.                            *)
(***************************************************************************)
EXTENDS Integers, Sequences, SequencesExt

Polecat(rig, task_class, content_type, bead_type, always) ==
  [rig |-> rig, task_class |-> task_class, content_type |-> content_type,
   bead_type |-> bead_type, always_requires_approval |-> always]

ALWAYS == TRUE
WhenForced == FALSE
-----------------------------------------------------------------------------
\* rigs/content_factory/polecats.py
BlogDraftPolecat ==
  Polecat("content_factory", "blog_draft", "blog", "asset", WhenForced)
SEOMetaPolecat ==
  Polecat("content_factory", "seo_meta", "blog", "asset", WhenForced)
SocialSnippetPolecat ==
  Polecat("content_factory", "social_snippet", "social", "asset", WhenForced)
ContentCalendarPolecat ==
  Polecat("content_factory", "content_calendar", "blog", "campaign", WhenForced)
ImageBriefPolecat ==
  Polecat("content_factory", "image_brief", "blog", "asset", WhenForced)

\* rigs/sdr_hive/polecats.py
ScoutPolecat ==
  Polecat("sdr_hive", "lead_scout", "email", "lead", WhenForced)
EnrichPolecat ==
  Polecat("sdr_hive", "lead_enrich", "email", "lead", WhenForced)
PersonalizePolecat ==
  Polecat("sdr_hive", "email_personalization", "email", "lead", WhenForced)
SequencePolecat ==
  Polecat("sdr_hive", "email_sequence", "email", "campaign", WhenForced)
SMSPolecat ==
  Polecat("sdr_hive", "sms_draft", "social", "lead", ALWAYS)

\* rigs/social_command/polecats.py
DraftTweetPolecat ==
  Polecat("social_command", "draft_tweet", "social", "asset", WhenForced)
DraftLinkedInPolecat ==
  Polecat("social_command", "draft_linkedin", "social", "asset", WhenForced)
DraftThreadsPolecat ==
  Polecat("social_command", "draft_threads", "social", "asset", WhenForced)
EngagementPolecat ==
  Polecat("social_command", "engagement_response", "social", "asset", WhenForced)
HashtagResearchPolecat ==
  Polecat("social_command", "hashtag_research", "social", "asset", WhenForced)
CrossPostAdaptPolecat ==
  Polecat("social_command", "cross_post_adapt", "social", "asset", WhenForced)

\* rigs/press_room/polecats.py
JournalistResearchPolecat ==
  Polecat("press_room", "journalist_research", "pr_pitch", "journalist", WhenForced)
\* Faulty variant: the class attribute is forgotten.
PitchDraftPolecat_WhenForced ==
  Polecat("press_room", "pr_pitch_draft", "pr_pitch", "journalist", WhenForced)
PitchDraftPolecat ==
  Polecat("press_room", "pr_pitch_draft", "pr_pitch", "journalist", ALWAYS)
PRWireDraftPolecat ==
  Polecat("press_room", "pr_wire_draft", "pr_pitch", "campaign", WhenForced)
HAROWatcherPolecat ==
  Polecat("press_room", "haro_analysis", "pr_pitch", "asset", WhenForced)
EmbargoPolecat ==
  Polecat("press_room", "embargo_management", "pr_pitch", "journalist", ALWAYS)

\* rigs/intelligence_station/polecats.py
CompetitorWebChangePolecat ==
  Polecat("intelligence_station", "competitor_analysis", "blog", "competitor", WhenForced)
CompetitorJobsPolecat ==
  Polecat("intelligence_station", "competitor_analysis", "blog", "competitor", WhenForced)
CompetitorSocialPolecat ==
  Polecat("intelligence_station", "competitor_analysis", "social", "competitor", WhenForced)
CompetitorReviewPolecat ==
  Polecat("intelligence_station", "competitor_analysis", "blog", "competitor", WhenForced)
CompetitorPRPolecat ==
  Polecat("intelligence_station", "competitor_analysis", "pr_pitch", "competitor", WhenForced)

\* rigs/landing_pad/polecats.py
LandingPageDraftPolecat ==
  Polecat("landing_pad", "landing_page_draft", "landing_page", "asset", WhenForced)
LandingPageVariantPolecat ==
  Polecat("landing_pad", "landing_page_variant", "landing_page", "asset", WhenForced)
EmailVariantPolecat ==
  Polecat("landing_pad", "subject_line_ab", "email", "test", WhenForced)
WinnerDeclarePolecat ==
  Polecat("landing_pad", "statistical_significance", "blog", "test", ALWAYS)

\* rigs/wire/polecats.py
WireSMSDraftPolecat ==
  Polecat("wire", "sms_draft", "social", "lead", ALWAYS)
WireConversationAnalysisPolecat ==
  Polecat("wire", "sms_analysis", "social", "lead", ALWAYS)
WireResponseSuggestionPolecat ==
  Polecat("wire", "sms_response", "social", "lead", ALWAYS)

\* rigs/repo_watch/polecats.py
RepoStargazerPolecat ==
  Polecat("repo_watch", "repo_stargazer", "blog", "asset", WhenForced)
IssueTrendPolecat ==
  Polecat("repo_watch", "issue_trend", "blog", "asset", WhenForced)
PRMentionPolecat ==
  Polecat("repo_watch", "pr_mention", "blog", "asset", WhenForced)
ReadmeOptimizePolecat ==
  Polecat("repo_watch", "readme_optimize", "blog", "asset", WhenForced)
DevRelContentPolecat ==
  Polecat("repo_watch", "devrel_content", "blog", "asset", WhenForced)
ChangelogPolecat ==
  Polecat("repo_watch", "changelog", "blog", "asset", WhenForced)
-----------------------------------------------------------------------------
\* Every class in the order _load_polecat_registry imports the rigs: the
\* order in which the decorators run.
Classes == <<
  BlogDraftPolecat, SEOMetaPolecat, SocialSnippetPolecat,
  ContentCalendarPolecat, ImageBriefPolecat, ScoutPolecat, EnrichPolecat,
  PersonalizePolecat, SequencePolecat, SMSPolecat, DraftTweetPolecat,
  DraftLinkedInPolecat, DraftThreadsPolecat, EngagementPolecat,
  HashtagResearchPolecat, CrossPostAdaptPolecat,
  JournalistResearchPolecat, PitchDraftPolecat, PRWireDraftPolecat,
  HAROWatcherPolecat, EmbargoPolecat, CompetitorWebChangePolecat,
  CompetitorJobsPolecat, CompetitorSocialPolecat, CompetitorReviewPolecat,
  CompetitorPRPolecat, LandingPageDraftPolecat, LandingPageVariantPolecat,
  EmailVariantPolecat, WinnerDeclarePolecat, WireSMSDraftPolecat,
  WireConversationAnalysisPolecat, WireResponseSuggestionPolecat,
  RepoStargazerPolecat, IssueTrendPolecat, PRMentionPolecat,
  ReadmeOptimizePolecat, DevRelContentPolecat, ChangelogPolecat>>

Keys == {<<c.rig, c.task_class>> : c \in ToSet(Classes)}

\* One dictionary entry per "rig:task_class": the last class registered under
\* a key is the one that stays.
register_polecat ==
  [k \in Keys |->
    Classes[SelectLastInSeq(Classes, LAMBDA c : <<c.rig, c.task_class>> = k)]]

NoPolecat == Polecat("", "", "", "", WhenForced)

\* What a process that imported the rigs finds.
get_polecat_class(rig, task_class) ==
  IF <<rig, task_class>> \in Keys THEN register_polecat[<<rig, task_class>>] ELSE NoPolecat
=============================================================================
