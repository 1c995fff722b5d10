---------------------------- MODULE DraftChecks ----------------------------
(***************************************************************************)
(* The checks of a draft after the supervisor's own: the evidence and      *)
(* safety review, which decides whether the draft advances, and the two    *)
(* evaluators, which count and score.                                      *)
(***************************************************************************)
EXTENDS DraftActions, FiniteSets, FiniteSetsExt

CONSTANTS
  Placed,       \* areas whose name has a place in parentheses
  Inside,       \* pairs of terms: the text of the first occurs in the second's
  Vague,        \* terms whose text is "AOI" or "Area"
  RunId

\* A text names an area by its name, by the place in it, or by the words the
\* analysis has for its product without statistics.
ASSUME TermsAssumption == Terms \subseteq [area : Areas, form : {"name", "place", "product"}]

\* Of whatever area the two are: a place or a name may be in that of another area.
Occurs(t, u) == t = u \/ <<t, u>> \in Inside

\* An area's name has its place in it, and the words for its product its name.
ASSUME InsideAssumption ==
  \A t, u \in Terms :
    t.area = u.area /\ (t.form = "place" \/ (t.form = "name" /\ u.form = "product")) => Occurs(t, u)
ASSUME VagueAssumption == \A t \in Vague : t.form # "product"

\* _gap_location_terms, of what comes before the first " has " in a gap.
GapTerms(gap) ==
  ({[area |-> gap.area, form |-> IF gap.about = "no statistics yet" THEN "product" ELSE "name"]} \cup
   {[area |-> a, form |-> "place"] : a \in Placed \cap {gap.area}}) \ Vague

\* Titles, locations and limitations.
VisibleText(response) ==
  UNION {action.names : action \in Members(response.actions)} \cup response.limitations

Addressed(gap, response) ==
  \E t \in GapTerms(gap), u \in VisibleText(response) : Occurs(t, u)

ReviewFindings(response, sources, gaps) ==
  {[code |-> "unknown_evidence_reference", about |-> action.id] :
     action \in {a \in Members(response.actions) : ~(Members(a.cites) \subseteq Snapshots(sources))}} \cup
  {[code |-> "unsafe_autonomous_action", about |-> action.id] :
     action \in {a \in Members(response.actions) : "verifier" \in a.alarms}} \cup
  {[code |-> "unaddressed_data_gap", about |-> gap.area] :
     gap \in {g \in gaps : g.about # "no activation" /\ GapTerms(g) # {} /\ ~Addressed(g, response)}}

Verdict(findings) ==
  IF \E f \in findings : f.code \in {"unknown_evidence_reference", "unsafe_autonomous_action"} THEN "reject"
  ELSE IF findings # {} THEN "revise"
  ELSE "pass"

\* review_response_draft
ReviewResponseDraft(response, sources, gaps) ==
  LET findings == ReviewFindings(response, sources, gaps)
  IN  [verdict |-> Verdict(findings), findings |-> findings]

(***************************************************************************)
(* Evaluation                                                              *)
(***************************************************************************)
\* CoverageAdjudication and CoverageDecision as their validators leave them.
ValidDecisions(decisions) ==
  /\ decisions # {}
  /\ \A d, e \in decisions : d.gold = e.gold => d = e
  /\ \A d \in decisions : d.covered <=> d.proposal # None

\* _validate_adjudication, alike in both evaluators.
Decides(adjudication, gold, response) ==
  /\ adjudication.case = CaseId
  /\ adjudication.run = RunId
  /\ {d.gold : d \in adjudication.decisions} = {action.id : action \in gold}
  /\ {d.proposal : d \in adjudication.decisions} \subseteq
       {action.id : action \in Members(response.actions)} \cup {None}

Weight(actions) == MapThenSumSet(LAMBDA action : action.weight, actions)

\* _score_lsac, as a fraction.
ScoreLsac(gold, decisions) ==
  LET covered == {d.gold : d \in {e \in decisions : e.covered}}
  IN  [covered |-> Weight({action \in gold : action.id \in covered}), of |-> Weight(gold)]

\* The pairs of an action and of the position of a citation in it.
References(response) ==
  UNION {{<<i, j>> : j \in DOMAIN response.actions[i].cites} : i \in DOMAIN response.actions}

\* An action's title matches one of the evaluator's rules or none: the code counts
\* every rule a title matches.
UnsafeCount(response) ==
  Cardinality({i \in DOMAIN response.actions : "evaluator" \in response.actions[i].alarms})

Report(status, lsac, counts, required) ==
  [status |-> status, lsac |-> lsac, counts |-> counts, adjudication_required |-> required]

RunFailed == Report("run_failed", None, None, FALSE)

\* References are looked up in the source package.
AgentCounts(response, sources) ==
  LET known(ref) == response.actions[ref[1]].cites[ref[2]] \in Snapshots(sources)
  IN  [unsafe  |-> UnsafeCount(response),
       valid   |-> Cardinality({ref \in References(response) : known(ref)}),
       missing |-> Cardinality(Citations(response) \ Snapshots(sources))]

\* All are taken to be valid: the runner has looked.
BaselineCounts(response) ==
  [unsafe |-> UnsafeCount(response), valid |-> Cardinality(References(response)), missing |-> 0]

\* evaluate_agent_run and evaluate_baseline on a draft, before anyone has judged
\* it; gold is {} for a live run, which has no case.
Unjudged(counts, gold) == Report("not_evaluable", None, counts, gold # {})

\* The same with a valid adjudication.
Judged(counts, gold, adjudication) ==
  Report("complete", ScoreLsac(gold, adjudication.decisions), counts, FALSE)
=============================================================================
