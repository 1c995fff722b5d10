-------------------------- MODULE EvidencePipeline --------------------------
(***************************************************************************)
(* One run's data on its way: evidence package, impact package, draft,     *)
(* review, report, and the later judgement of the draft from the command   *)
(* line.  What the steps do to the run's row, and what becomes of a step   *)
(* that raises, is WorkflowEngine's; here a step that raises changes       *)
(* nothing.                                                                *)
(***************************************************************************)
EXTENDS ImpactAnalysis, DraftChecks, FrozenCase

CONSTANTS
  Activations,   \* answers of the CEMS API
  Answers,       \* answers of the model
  Adjudications,
  Texts          \* ids of claims and findings, and what gaps are about

ASSUME TextsAssumption ==
  {"cems-event-identity", "cems-aoi-product-status", "cems-source-reachable",
   "cems-hazard-outside-mvp", "cems-activation-open", "cems-products-pending",
   "fixture-integrity-verified", "fixture-preliminary-claims", "pending", "no download"} \subseteq Texts

ClaimStatus == {"supported", "preliminary"}
Claims == [id : Texts, status : ClaimStatus, sources : SUBSET Sources]
Findings == [id : Texts, severity : {"info", "warning", "blocker"}]
Gaps == [area : Areas, about : Texts]

Packages ==
  [snapshots : SUBSET [source : Sources, raw : Activation \cup {None}],
   claims    : (SUBSET Claims) \cup (SUBSET [id : Texts, status : ClaimStatus]),
   findings  : SUBSET Findings,
   gaps      : SUBSET Gaps,
   status    : {"supported", "preliminary", "conflicting"}]

ASSUME ActivationAssumption ==
  Activations \subseteq Activation /\ None \notin Activations /\ CemsSource \in Sources
\* Lists of the API's answer.
ASSUME ListsAssumption ==
  \A activation \in Activations : activation.aois # None =>
    IsFiniteSet(activation.aois) /\ \A aoi \in activation.aois : IsFiniteSet(aoi.products)
ASSUME AnswerAssumption ==
  Answers \subseteq Answer /\ \A answer \in Answers : answer.kind = "json" => answer.response # None
\* The contents of case files, edited or not, are of their schema: others are
\* refused when they are read.
ASSUME DossierAssumption ==
  \A dossier \in Contents("dossier") :
    dossier.sources \subseteq Sources /\ dossier.claims \subseteq Claims /\ dossier.gaps \subseteq Gaps
\* severity_weight is declared to be from 1 to 5.
ASSUME GoldAssumption ==
  \A content \in Contents("gold_actions") :
    IsFiniteSet(content.actions) /\ \A action \in content.actions : action.weight \in 1..5
ASSUME NoneAssumption == None \notin Packages \cup Artifact \cup ActionIds

VARIABLES
  kind,       \* "live", "fixture" or "baseline"
  stage,      \* how far the run is
  attempt,    \* drafts before this one
  package,
  impacts,
  artifact,   \* the last draft
  review,     \* of the last draft that kept to the policy
  report,     \* the last evaluation
  judged      \* history: the decisions it is from, the gold actions they are
              \* about, and whether these were edited while they were loaded

case == <<files, load>>

vars == <<kind, case, stage, attempt, package, impacts, artifact, review, report, judged>>

Stages == {"source_check", "impact_analysis", "action_drafting", "evidence_verification",
           "awaiting_human_review", "blocked"}

NotJudged == [decisions |-> {}, gold |-> {}, edited |-> FALSE]

Init ==
  /\ kind \in {"live", "fixture", "baseline"}
  /\ InitCase
  /\ stage = IF kind = "baseline" THEN "action_drafting" ELSE "source_check"
  /\ attempt = 0
  /\ package = None /\ impacts = None /\ artifact = None
  /\ review = None /\ report = None /\ judged = NotJudged

(***************************************************************************)
(* The frozen case                                                         *)
(***************************************************************************)
\* The steps that load it: of the workflow, and of the commands.
CaseWanted ==
  \/ kind = "fixture" /\ (stage \in {"source_check", "evidence_verification"}
                          \/ (stage = "action_drafting" /\ attempt = 0))
  \/ kind = "baseline" /\ stage \in {"action_drafting", "evidence_verification"}
  \/ artifact # None /\ stage \in {"awaiting_human_review", "blocked"}

\* A file is edited whenever that can make a difference.
LoadCase ==
  /\ CaseWanted
  /\ HashFile \/ ReadFile \/ Refuse \/ \E n \in 1..3 : Edit(n)
  /\ UNCHANGED <<kind, stage, attempt, package, impacts, artifact, review, report, judged>>

\* What was loaded is used, once.
UseCase == CaseLoaded /\ load' = NotLoaded /\ UNCHANGED files

(***************************************************************************)
(* The agent workflow                                                      *)
(***************************************************************************)
\* Faulty variant: a conflicting package is analysed.
TakeAnyPackage(p) ==
  /\ package' = p
  /\ stage' = "impact_analysis"
  /\ UNCHANGED <<kind, attempt, impacts, artifact, review, report, judged>>

TakePackage(p) ==
  /\ package' = p
  /\ stage' = IF p.status = "conflicting" THEN "blocked" ELSE "impact_analysis"
  /\ UNCHANGED <<kind, attempt, impacts, artifact, review, report, judged>>

VerifySources ==
  /\ stage = "source_check"
  /\ \/ /\ kind = "live"
        /\ \E activation \in Activations :
             Fetch(activation) # None /\ TakePackage(Fetch(activation))
        /\ UNCHANGED case
     \/ kind = "fixture" /\ UseCase /\ TakePackage(FixturePackage(Case))

AnalyzeImpacts ==
  /\ stage = "impact_analysis"
  /\ Analyze(package) # None
  /\ impacts' = Analyze(package)
  /\ stage' = "action_drafting"
  /\ UNCHANGED <<kind, case, attempt, package, artifact, review, report, judged>>

\* One turn of the loop in _draft_and_verify_response.  The case is loaded
\* before the first.
DraftAndVerify ==
  /\ stage = "action_drafting" /\ kind # "baseline"
  /\ IF kind = "fixture" /\ attempt = 0 THEN UseCase ELSE UNCHANGED case
  /\ \E answer \in Answers :
       artifact' = RunResponseSupervisor(answer, SourcesOf(package))
  /\ IF artifact'.status = "failed"
     THEN stage' = "blocked" /\ UNCHANGED <<attempt, review>>
     ELSE /\ review' = ReviewResponseDraft(artifact'.response, SourcesOf(package), impacts.gaps)
          /\ \/ /\ review'.verdict = "pass"
                /\ stage' = "evidence_verification" /\ UNCHANGED attempt
             \/ /\ review'.verdict = "revise" /\ attempt < 2
                /\ attempt' = attempt + 1 /\ UNCHANGED stage
             \/ /\ review'.verdict = "reject" \/ (review'.verdict = "revise" /\ attempt = 2)
                /\ stage' = "blocked" /\ UNCHANGED attempt
  /\ UNCHANGED <<kind, package, impacts, report, judged>>

EvaluateResponseSupervisor ==
  /\ stage = "evidence_verification" /\ kind # "baseline"
  /\ IF kind = "fixture" THEN UseCase ELSE UNCHANGED case
  /\ report' = Unjudged(AgentCounts(artifact.response, SourcesOf(package)),
                        IF kind = "fixture" THEN Case.gold ELSE {})
  /\ stage' = "awaiting_human_review"
  /\ judged' = NotJudged
  /\ UNCHANGED <<kind, attempt, package, impacts, artifact, review>>

(***************************************************************************)
(* The baseline                                                            *)
(***************************************************************************)
ExecuteBaseline ==
  /\ stage = "action_drafting" /\ kind = "baseline" /\ UseCase
  /\ \E answer \in Answers : artifact' = RunBaseline(answer, Case.dossier.sources)
  /\ IF artifact'.status = "failed"
     THEN stage' = "blocked" /\ report' = RunFailed
     ELSE stage' = "evidence_verification" /\ UNCHANGED report
  /\ UNCHANGED <<kind, attempt, package, impacts, review, judged>>

WriteBaselineEvaluation ==
  /\ stage = "evidence_verification" /\ kind = "baseline" /\ UseCase
  /\ report' = Unjudged(BaselineCounts(artifact.response), Case.gold)
  /\ stage' = "awaiting_human_review"
  /\ judged' = NotJudged
  /\ UNCHANGED <<kind, attempt, package, impacts, artifact, review>>

(***************************************************************************)
(* The commands that evaluate a stored draft, of whatever run              *)
(***************************************************************************)
Counts ==
  IF kind = "baseline" THEN BaselineCounts(artifact.response)
  ELSE AgentCounts(artifact.response, SourcesOf(package))

EvaluateStored ==
  /\ artifact # None /\ stage \in {"awaiting_human_review", "blocked"} /\ UseCase
  /\ \/ /\ artifact.status = "failed"
        /\ report' = RunFailed /\ judged' = NotJudged
     \/ /\ artifact.status = "completed" /\ kind # "baseline"
        /\ report' = Unjudged(Counts, Case.gold) /\ judged' = NotJudged
     \/ /\ artifact.status = "completed"
        /\ \E adjudication \in Adjudications :
             /\ ValidDecisions(adjudication.decisions)
             /\ Decides(adjudication, Case.gold, artifact.response)
             /\ report' = Judged(Counts, Case.gold, adjudication)
             /\ judged' = [decisions |-> adjudication.decisions, gold |-> Case.gold,
                           edited |-> "gold_actions" \in load.slipped]
  /\ UNCHANGED <<kind, stage, attempt, package, impacts, artifact, review>>

Next ==
  \/ LoadCase
  \/ VerifySources
  \/ AnalyzeImpacts
  \/ DraftAndVerify
  \/ EvaluateResponseSupervisor
  \/ ExecuteBaseline
  \/ WriteBaselineEvaluation
  \/ EvaluateStored

Spec == Init /\ [][Next]_vars

(***************************************************************************)
(* Properties                                                              *)
(***************************************************************************)
\* The artifacts have their declared form, and each is there from its stage on.
TypeOK ==
  /\ stage \in Stages /\ attempt \in 0..2
  /\ package \in Packages \cup {None}
  /\ artifact \in Artifact \cup {None}
  /\ impacts # None => package # None /\ package.status # "conflicting"
  /\ review # None => review.verdict \in {"pass", "revise", "reject"} /\ impacts # None
  /\ stage \in {"evidence_verification", "awaiting_human_review"} => artifact # None
  /\ artifact # None => (artifact.status = "failed" <=> artifact.failure # "none")

\* A citation that the output policy let pass holds up with every later check,
\* which each look it up anew: the review finds none unknown, and the reports
\* count none missing and every one as valid.
CitationsHold ==
  /\ review # None => \A f \in review.findings : f.code # "unknown_evidence_reference"
  /\ report # None /\ report.counts # None =>
       /\ report.counts.missing = 0
       /\ report.counts.valid = Cardinality(References(artifact.response))

Newest(p, aoi) ==
  /\ p.status = "F"
  /\ \A q \in aoi.products :
       q.status = "F" => q.delivered < p.delivered \/
                         (q.delivered = p.delivered /\ q.version <= p.version)

\* What the entries of an impact package say of the areas of an activation.
Account(raw, entries) ==
  LET listed == {aoi \in raw.aois : aoi.number = "integer"}
      called(name) == {aoi \in listed : aoi.name = name}
      of(set, name) == {x \in set : x.area = name}
      reports(x, aoi) == \E p \in aoi.products :
        Newest(p, aoi) /\ p.stats # None /\ p.stats["population"] = x.population
      silent(aoi) == \A p \in aoi.products :
        p.status = "F" => \E q \in aoi.products : Newest(q, aoi) /\ q.stats = None
  IN  /\ \A x \in entries.impacts : \E aoi \in called(x.area) : reports(x, aoi)
      /\ \A gap \in entries.gaps : \E aoi \in called(gap.area) : silent(aoi)
      /\ \A aoi \in listed :
           /\ \/ \E x \in of(entries.impacts, aoi.name) : reports(x, aoi)
              \/ silent(aoi) /\ of(entries.gaps, aoi.name) # {}
           /\ Cardinality(of(entries.impacts, aoi.name)) + Cardinality(of(entries.gaps, aoi.name))
                <= Cardinality(called(aoi.name))

\* Every area the activation lists by a number is accounted for once, by what its
\* newest finished product reports or as a gap if that reports nothing, and no
\* other area is.  (Areas that have a name in common share their entries.)
AreasAccounted ==
  impacts # None /\ kind = "live" =>
    \A snapshot \in package.snapshots : Account(snapshot.raw, impacts)

\* Uncertainty is not lost: a package is called supported only if nothing in it
\* is open; what is pending is a gap, a finding and a preliminary claim alike; and
\* a draft that passed has, for every area without an analysis, its name, its place
\* or the words for its product in a text, though that may be about another area
\* (and not for an area that is called no more than "AOI" or "Area").
UncertaintyShown ==
  /\ package # None =>
       /\ package.status = "supported" =>
            /\ \A f \in package.findings : f.severity = "info"
            /\ \A c \in package.claims : c.status = "supported"
       /\ kind = "live" =>
            LET pending == \E g \in package.gaps : g.about = "pending"
            IN  /\ pending <=> \E f \in package.findings : f.id = "cems-products-pending"
                /\ pending <=> \E c \in package.claims : c.status = "preliminary"
  /\ stage \in {"evidence_verification", "awaiting_human_review"} /\ kind = "live" =>
       \A gap \in impacts.gaps : [area |-> gap.area, form |-> "name"] \notin Vague =>
         \E u \in VisibleText(artifact.response) : \E form \in {"name", "place", "product"} :
           Occurs([area |-> gap.area, form |-> form], u)

\* A score is of the gold actions of the case, all of them decided, each covered
\* one by an action of the draft; a draft that covers them all has the full score.
\* They are the frozen ones, whatever was edited before, since and meanwhile, but
\* for one case: gold_actions was edited after that very load had hashed it, and
\* before it read it.
ScoreIsOfTheFrozenCase ==
  report # None /\ report.lsac # None =>
    LET covering == {action \in judged.gold :
                       \E d \in judged.decisions : \E i \in DOMAIN artifact.response.actions :
                         d.gold = action.id /\ d.proposal = artifact.response.actions[i].id}
    IN  /\ judged.gold = Manifest.hashes["gold_actions"].actions \/ judged.edited
        /\ \A action \in judged.gold : \E d \in judged.decisions : d.gold = action.id
        /\ report.lsac = [covered |-> Weight(covering), of |-> Weight(judged.gold)]
        /\ report.lsac.covered \in 0..report.lsac.of
        /\ report.lsac.covered = report.lsac.of <=> covering = judged.gold
=============================================================================
