---------------------------- MODULE RunArtifacts ----------------------------
(***************************************************************************)
(* The artifacts a run pins, by logical name, and their contents as far as *)
(* their SHA-256 tells them apart.  A content is                           *)
(*   by      the lease claim under which it was built, where the artifact  *)
(*           carries a timestamp or a fresh id and so never hashes twice   *)
(*           to the same value; 0 where the content is determined by what  *)
(*           it was computed from;                                         *)
(*   no      the draft attempt it records (0 for anything else);           *)
(*   result  what the rest of the workflow reads from it.                  *)
(***************************************************************************)
LOCAL INSTANCE Naturals

Names ==
  {"source_evidence_package", "impact_package", "response_supervisor_run",
   "response_supervisor_revision_1", "response_supervisor_revision_2",
   "evidence_safety_review", "agent_evaluation",
   "baseline_run", "baseline_evaluation"}

Attempts == 0..2

\* Two REVISE classes: reviews of two drafts may list the same findings or not.
ReviewResults == {"PASS", "REVISE1", "REVISE2", "REJECT"}

Results == ReviewResults \cup {"package", "conflicting", "impacts", "failed", "completed", "report"}

Contents == [by : Nat, no : Attempts, result : Results]

\* retrieved_at makes every build of the package differ.
EvidencePackage(claim, status) == [by |-> claim, no |-> 0, result |-> status]

\* A pure function of the evidence package: no clock, no fresh id.
ImpactPackage(evidence) == [by |-> evidence.by, no |-> 0, result |-> "impacts"]

\* started_at and completed_at make every draft artifact differ.
SupervisorRun(claim, attempt, outcome) == [by |-> claim, no |-> attempt, result |-> outcome]

\* A pure function of the draft; carries no timestamp, so equal findings hash equal.
SafetyReview(draft) == [by |-> 0, no |-> 0, result |-> draft.result]

\* evaluated_at makes every report differ.
Evaluation(claim) == [by |-> claim, no |-> 0, result |-> "report"]

\* A baseline artifact has a fresh uuid.
BaselineRun(claim, outcome) == [by |-> claim, no |-> 0, result |-> outcome]

\* The logical name the draft of an attempt is stored under.
DraftName(attempt) ==
  CASE attempt = 0 -> "response_supervisor_run"
    [] attempt = 1 -> "response_supervisor_revision_1"
    [] attempt = 2 -> "response_supervisor_revision_2"
=============================================================================
