------------------------------ MODULE RunStore ------------------------------
(***************************************************************************)
(* The run repository: the rows of runs, run_events and run_artifacts and  *)
(* what each repository call writes.  A call is not one atomic step in the *)
(* code: pysqlite opens no transaction for the SELECTs that check the      *)
(* lease, only for the write that follows.  The operators here are those   *)
(* checks and those writes; WorkflowEngine puts them in order.             *)
(*                                                                         *)
(* A lease is its owner and the time it has left, in ticks: above 0 the    *)
(* owner may act on the run, below 0 anybody may claim it, and at 0        *)
(* (lease_expires_at = now) neither.  A NULL lease is claimable, so it is  *)
(* NoWorker with -1 ticks left.                                            *)
(***************************************************************************)
EXTENDS Integers, Sequences, FiniteSets, RunStates, RunArtifacts

CONSTANTS
  Runs,         \* run numbers, in order of created_at
  Workers,      \* worker ids; a worker process that dies never comes back
  NoWorker,     \* lease_owner NULL
  NoArtifact,   \* no row for that run and logical name
  LeaseTTL      \* ticks a lease lasts (lease_seconds)

ASSUME RunsAssumption == Runs \subseteq Nat \ {0}
ASSUME WorkersAssumption == NoWorker \notin Workers
ASSUME ArtifactAssumption == NoArtifact \notin Contents
ASSUME LeaseAssumption == LeaseTTL \in Nat \ {0}

VARIABLES
  state,        \* runs.state
  owner,        \* runs.lease_owner
  ttl,          \* runs.lease_expires_at, as the ticks that are left
  events,       \* run_events of each run; the position is the sequence
  artifacts     \* run_artifacts of each run, by logical name

storeVars == <<state, owner, ttl, events, artifacts>>

EventTypes == {"run_created", "lease_acquired", "lease_released", "state_transition", "progress"}

Event(type, stage) == [type |-> type, stage |-> stage]

AppendEvent(r, e) == events' = [events EXCEPT ![r] = Append(@, e)]

\* How often the run has been leased so far.
Claims(r) == Cardinality({i \in DOMAIN events[r] : events[r][i].type = "lease_acquired"})

StoreInit ==
  /\ state = [r \in Runs |-> "none"]
  /\ owner = [r \in Runs |-> NoWorker]
  /\ ttl = [r \in Runs |-> -1]
  /\ events = [r \in Runs |-> << >>]
  /\ artifacts = [r \in Runs |-> [n \in Names |-> NoArtifact]]

\* The check every lease-guarded call makes first.
Owns(w, r) == owner[r] = w /\ ttl[r] > 0

\* Faulty variant: only a lease that was given back can be claimed again.
ClaimableReleased(r) == state[r] \in ActiveStates /\ owner[r] = NoWorker

Claimable(r) == state[r] \in ActiveStates /\ ttl[r] < 0

\* ORDER BY created_at LIMIT 1
NextRun == {r \in Runs : Claimable(r) /\ \A q \in Runs : Claimable(q) => r <= q}

CreateRun(r) ==
  /\ state[r] = "none"
  /\ \A q \in Runs : q < r => state[q] # "none"
  /\ state' = [state EXCEPT ![r] = "RECEIVED"]
  /\ AppendEvent(r, Event("run_created", "RECEIVED"))
  /\ UNCHANGED <<owner, ttl, artifacts>>

\* BEGIN IMMEDIATE: the selection and the claim are one step.
LeaseNextRun(w, r) ==
  /\ r \in NextRun
  /\ owner' = [owner EXCEPT ![r] = w]
  /\ ttl' = [ttl EXCEPT ![r] = LeaseTTL]
  /\ AppendEvent(r, Event("lease_acquired", state[r]))
  /\ UNCHANGED <<state, artifacts>>

\* The UPDATE of renew_lease sets the expiry and nothing else.
RenewLease(r) ==
  /\ ttl' = [ttl EXCEPT ![r] = LeaseTTL]
  /\ UNCHANGED <<state, owner, events, artifacts>>

\* stage is the state the call read when it checked the lease.
ReleaseLease(r, stage) ==
  /\ owner' = [owner EXCEPT ![r] = NoWorker]
  /\ ttl' = [ttl EXCEPT ![r] = -1]
  /\ AppendEvent(r, Event("lease_released", stage))
  /\ UNCHANGED <<state, artifacts>>

\* Faulty variant: the state is updated and the event forgotten.
TransitionUnlogged(r, to) ==
  /\ state' = [state EXCEPT ![r] = to]
  /\ UNCHANGED <<owner, ttl, events, artifacts>>

\* The UPDATE takes the write lock before max(sequence) is read.
Transition(r, to) ==
  /\ state' = [state EXCEPT ![r] = to]
  /\ AppendEvent(r, Event("state_transition", to))
  /\ UNCHANGED <<owner, ttl, artifacts>>

\* The INSERT is the only write: sequence seq + 1 was chosen before it, and the
\* unique constraint refuses it when another event has taken that number.
SequenceFree(r, seq) == Len(events[r]) = seq

RecordProgress(r, stage) ==
  /\ AppendEvent(r, Event("progress", stage))
  /\ UNCHANGED <<state, owner, ttl, artifacts>>

\* No lease is asked for: any worker that still holds a result may store it.
StoreArtifact(r, n, c) ==
  /\ artifacts' = [artifacts EXCEPT ![r][n] = c]
  /\ UNCHANGED <<state, owner, ttl, events>>

\* The clock: every lease has one tick less to live.
Elapse ==
  /\ \E r \in Runs : ttl[r] > -1
  /\ ttl' = [r \in Runs |-> IF ttl[r] > -1 THEN ttl[r] - 1 ELSE -1]
  /\ UNCHANGED <<state, owner, events, artifacts>>
=============================================================================
