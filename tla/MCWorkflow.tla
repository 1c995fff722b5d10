----------------------------- MODULE MCWorkflow -----------------------------
(* Instances of WorkflowEngine for TLC. *)
EXTENDS WorkflowClaims, TLC

OneRun  == {1}
TwoRuns == {1, 2}
AnyDraft    == {"PASS", "REVISE1", "REVISE2", "REJECT", "failed"}
PassOnly    == {"PASS"}
Revisable   == {"PASS", "REVISE1", "REVISE2"}
FewDrafts   == {"PASS", "REVISE1", "failed"}
AnySource   == {"package", "conflicting"}
PackageOnly == {"package"}
AnyBaseline == {"completed", "failed"}

WorkerSymmetry == Permutations(Workers)
=============================================================================
