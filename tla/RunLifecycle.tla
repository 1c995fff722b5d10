---------------------------- MODULE RunLifecycle ----------------------------
(***************************************************************************)
(* What the durable record of a run promises to everyone who reads it: it  *)
(* is created once, its state only makes the moves ALLOWED_TRANSITIONS     *)
(* lists, and an artifact, once pinned under a logical name, stays what it *)
(* was.  Who makes the moves, leases, crashes and retries are invisible    *)
(* here; WorkflowEngine implements this module.                            *)
(***************************************************************************)
EXTENDS RunStates

CONSTANTS
  Runs,         \* the runs that may be created
  Names,        \* logical names an artifact can have within a run
  Contents,     \* artifact contents, told apart by their hash
  NoArtifact    \* nothing stored under that name

VARIABLES
  state,        \* state of each run, "none" before it is created
  artifacts     \* artifacts[r][n]: what run r has pinned under name n

vars == <<state, artifacts>>

Init ==
  /\ state = [r \in Runs |-> "none"]
  /\ artifacts = [r \in Runs |-> [n \in Names |-> NoArtifact]]

Create(r) ==
  /\ state[r] = "none"
  /\ state' = [state EXCEPT ![r] = "RECEIVED"]
  /\ UNCHANGED artifacts

\* The content is whatever the step stores: the set of contents may be infinite.
Pin(r, n) ==
  /\ state[r] # "none"
  /\ artifacts[r][n] = NoArtifact
  /\ artifacts'[r][n] \in Contents
  /\ artifacts' = [artifacts EXCEPT ![r][n] = artifacts'[r][n]]
  /\ UNCHANGED state

Move(r, s) ==
  /\ state[r] # "none"
  /\ s \in AllowedTransitions[state[r]]
  /\ state' = [state EXCEPT ![r] = s]
  /\ UNCHANGED artifacts

Next ==
  \E r \in Runs :
    \/ Create(r)
    \/ \E n \in Names : Pin(r, n)
    \/ \E s \in RunState : Move(r, s)

Spec == Init /\ [][Next]_vars
=============================================================================
