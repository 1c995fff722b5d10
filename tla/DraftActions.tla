---------------------------- MODULE DraftActions ----------------------------
(***************************************************************************)
(* One call of the model and what is made of its answer: by the response   *)
(* supervisor, which cites snapshots, and by the baseline, which cites     *)
(* sources.  A text is the areas it names (DraftChecks).                   *)
(***************************************************************************)
EXTENDS SourceEvidence, Sequences

CONSTANTS
  CaseId,       \* the case of the run
  OtherCase,
  Terms,        \* what a text can name
  ActionIds,
  MaxActions    \* the supervisor's max_actions

ASSUME MaxActionsAssumption == MaxActions \in 1..5

\* An id in evidence_ids; "unknown" is one that no package has.
Citation == [kind : {"source", "snapshot", "unknown"}, of : Sources]

\* alarms: the phrase lists, the verifier's and the evaluator's, that the title
\* matches.
Action == [id       : ActionIds,
           cites    : Seq(Citation),
           names    : SUBSET Terms,
           alarms   : SUBSET {"verifier", "evaluator"},
           draft    : BOOLEAN,
           estimate : {"none", "abstained", "numeric"}]

Response == [case : {CaseId, OtherCase}, actions : Seq(Action), limitations : SUBSET Terms]

FailureCodes == {"provider_not_configured", "provider_error", "model_schema", "output_policy"}

Artifact == [status   : {"completed", "failed"},
             failure  : FailureCodes \cup {"none"},
             attempts : 0..1,
             response : Response \cup {None}]

Failed(code, attempts, response) ==
  [status |-> "failed", failure |-> code, attempts |-> attempts, response |-> response]

Completed(response) ==
  [status |-> "completed", failure |-> "none", attempts |-> 1, response |-> response]

Members(s) == {s[i] : i \in DOMAIN s}

\* The fields and validators the two responses share.
WellFormed(response) ==
  /\ Len(response.actions) \in 1..5
  /\ \A i, j \in DOMAIN response.actions : response.actions[i].id = response.actions[j].id => i = j
  /\ \A action \in Members(response.actions) : action.draft /\ action.cites # << >>

\* NotEstimableLifeSafetyEstimate has a reason and no number.
SupervisorSchema(response) ==
  WellFormed(response) /\ \A action \in Members(response.actions) : action.estimate # "numeric"

BaselineSchema(response) ==
  WellFormed(response) /\ \A action \in Members(response.actions) : action.estimate = "none"

\* _canonicalize_evidence_references: a source id stands for its snapshot.
Canonical(citation, sources) ==
  IF citation.kind = "source" /\ citation.of \in sources
  THEN [citation EXCEPT !.kind = "snapshot"] ELSE citation

Canonicalized(response, sources) ==
  [response EXCEPT !.actions =
     [i \in DOMAIN response.actions |->
        [response.actions[i] EXCEPT !.cites =
           [j \in DOMAIN response.actions[i].cites |-> Canonical(response.actions[i].cites[j], sources)]]]]

Citations(response) == UNION {Members(action.cites) : action \in Members(response.actions)}

Snapshots(sources) == {[kind |-> "snapshot", of |-> s] : s \in sources}

SourceIds(sources) == {[kind |-> "source", of |-> s] : s \in sources}

\* The supervisor's output policy.
Allowed(response, sources) ==
  /\ response.case = CaseId
  /\ Len(response.actions) <= MaxActions
  /\ Citations(response) \subseteq Snapshots(sources)

\* The baseline's: there is no limit of actions but the schema's.
AllowedForCase(response, sources) ==
  /\ response.case = CaseId
  /\ Citations(response) \subseteq SourceIds(sources)

(***************************************************************************)
(* Answers: "no gateway" is asked nothing, "refused" is an error the       *)
(* gateway reports; "malformed" is not of the schema for other reasons     *)
(* than those above.                                                       *)
(***************************************************************************)
Answer == [kind : {"no gateway", "refused", "malformed", "json"}, response : Response \cup {None}]

NoDraft(answer) ==
  CASE answer.kind = "no gateway" -> Failed("provider_not_configured", 0, None)
    [] answer.kind = "refused"    -> Failed("provider_error", 1, None)
    [] OTHER                      -> Failed("model_schema", 1, None)

\* Faulty variant: the response is stored as it came.
RunResponseSupervisorAsIs(answer, sources) ==
  IF answer.kind # "json" \/ ~SupervisorSchema(answer.response) THEN NoDraft(answer)
  ELSE IF Allowed(Canonicalized(answer.response, sources), sources) THEN Completed(answer.response)
  ELSE Failed("output_policy", 1, answer.response)

\* run_response_supervisor
RunResponseSupervisor(answer, sources) ==
  IF answer.kind # "json" \/ ~SupervisorSchema(answer.response) THEN NoDraft(answer)
  ELSE LET response == Canonicalized(answer.response, sources)
       IN  IF Allowed(response, sources) THEN Completed(response)
           ELSE Failed("output_policy", 1, response)

\* run_baseline
RunBaseline(answer, sources) ==
  IF answer.kind # "json" \/ ~BaselineSchema(answer.response) THEN NoDraft(answer)
  ELSE IF AllowedForCase(answer.response, sources) THEN Completed(answer.response)
  ELSE Failed("output_policy", 1, answer.response)
=============================================================================
