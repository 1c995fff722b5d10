--------------------------- MODULE WorkflowClaims ---------------------------
(***************************************************************************)
(* What the repository's documents and comments say of the workflow and    *)
(* the code does not do.  Each claim is checked by a run of its own, under *)
(* the circumstances it speaks about, and TLC shows how the code departs   *)
(* from it.                                                                *)
(***************************************************************************)
EXTENDS WorkflowEngine

\* The behaviours in which a lease lapses only because its worker crashed.
OnlyDeadLapse == \A r \in Runs : ttl'[r] = 0 /\ ttl[r] > 0 => ~Alive(owner[r])

CrashSpec == Init /\ [][Next /\ OnlyDeadLapse]_vars

\* "Worker crash | Reclaim expired lease and continue from persisted state"
\* (ADR-0001): when nothing but a worker crash goes wrong, no run is blocked.
ContinuesAfterCrash == \A r \in Runs : state[r] # "BLOCKED"

\* "The revision loop is capped at two attempts. Exhaustion moves the run to a
\* visible blocked state" (ADR-0001): when drafts only ever pass or need a
\* revision, a run is blocked after its third draft and not before.
BlockedOnlyWhenExhausted ==
  \A r \in AgentRuns : state[r] = "BLOCKED" => modelCalls[r] = 3
=============================================================================
