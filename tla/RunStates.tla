----------------------------- MODULE RunStates -----------------------------
(***************************************************************************)
(* The states of a run and the moves the repository allows between them    *)
(* (RunState, ACTIVE_STATES, TERMINAL_STATES and ALLOWED_TRANSITIONS).     *)
(* "none" is a run nobody has created yet: there is no row for it.         *)
(***************************************************************************)

ActiveStates ==
  {"RECEIVED", "SOURCE_CHECK", "VERIFIED", "DATA_SNAPSHOT", "IMPACT_ANALYSIS",
   "ACTION_DRAFTING", "EVIDENCE_VERIFICATION", "REVISION_REQUESTED"}

TerminalStates == {"BLOCKED", "REJECTED", "EXPORTED"}

RunState == ActiveStates \cup TerminalStates \cup {"AWAITING_HUMAN_REVIEW", "APPROVED"}

AllowedTransitions ==
  [s \in RunState |->
     CASE s = "RECEIVED"              -> {"SOURCE_CHECK", "BLOCKED"}
       [] s = "SOURCE_CHECK"          -> {"VERIFIED", "BLOCKED"}
       [] s = "VERIFIED"              -> {"DATA_SNAPSHOT", "BLOCKED"}
       [] s = "DATA_SNAPSHOT"         -> {"IMPACT_ANALYSIS", "BLOCKED"}
       [] s = "IMPACT_ANALYSIS"       -> {"ACTION_DRAFTING", "BLOCKED"}
       [] s = "ACTION_DRAFTING"       -> {"EVIDENCE_VERIFICATION", "BLOCKED"}
       [] s = "EVIDENCE_VERIFICATION" -> {"AWAITING_HUMAN_REVIEW", "BLOCKED"}
       [] s = "AWAITING_HUMAN_REVIEW" -> {"APPROVED", "REVISION_REQUESTED", "REJECTED"}
       [] s = "APPROVED"              -> {"EXPORTED"}
       [] s = "REVISION_REQUESTED"    -> {"ACTION_DRAFTING", "BLOCKED"}
       [] OTHER                       -> {}]

\* The states in which the engine's loop stops and hands the run back.
SettledStates == TerminalStates \cup {"AWAITING_HUMAN_REVIEW"}
=============================================================================
