------------------------ MODULE WorkflowRecord_proofs ------------------------
(***************************************************************************)
(* Theorems about what the workers of WorkflowEngine leave in a run's rows: *)
(* its event log, the artifacts behind each state, what the run cost, how  *)
(* it is left to the reviewer and why each claim of it ends.               *)
(***************************************************************************)
EXTENDS WorkflowEngine_proofs

(***************************************************************************)
(* The event log                                                           *)
(***************************************************************************)

\* The log of one run: empty before the run is created, a history afterwards.
Tells(log, s) ==
  /\ s = "none" => log = << >>
  /\ s # "none" =>
       /\ log # << >>
       /\ log[Len(log)].stage = s
       /\ \A i \in 1..Len(log) - 1 :
            log[i].stage # log[i + 1].stage => log[i + 1].stage \in AllowedTransitions[log[i].stage]

\* A guarded call under way has read the state its run still is in.
StageRead == \A w \in Workers : InLeasedCall(w) => txn[w].stage = state[Run(w)]

LogInv == StageRead /\ \A r \in Runs : Tells(events[r], state[r])

\* An event that repeats the stage or makes an allowed step continues a history.
LEMMA AppendTells ==
  ASSUME NEW log \in Seq(EventType), NEW s, s # "none", Tells(log, s),
         NEW e \in EventType, e.stage # "none",
         e.stage = s \/ e.stage \in AllowedTransitions[s]
  PROVE  Tells(Append(log, e), e.stage)
<1> DEFINE next == Append(log, e)
<1>1. /\ Len(log) \in Nat \ {0} /\ Len(next) = Len(log) + 1
      /\ next[Len(log) + 1] = e /\ \A i \in 1..Len(log) : next[i] = log[i]
  BY AppendProperties, LenProperties, EmptySeq DEF Tells
<1>2. next # << >>
  BY AppendProperties
<1> HIDE DEF next
<1>3. ASSUME NEW i \in 1..Len(next) - 1, next[i].stage # next[i + 1].stage
      PROVE  next[i + 1].stage \in AllowedTransitions[next[i].stage]
  <2>1. CASE i = Len(log)
    <3>1. next[i] = log[Len(log)] /\ next[i + 1] = e
      BY <1>1, <2>1
    <3> QED BY <1>3, <3>1 DEF Tells
  <2>2. CASE i # Len(log)
    <3>1. i \in 1..Len(log) - 1 /\ next[i] = log[i] /\ next[i + 1] = log[i + 1]
      BY <1>1, <2>2
    <3> QED BY <1>3, <3>1 DEF Tells
  <2> QED BY <2>1, <2>2
<1> QED BY <1>1, <1>2, <1>3 DEF Tells, next

\* What a step of a worker does to the log.
LEMMA LogSteps ==
  ASSUME NEW v \in Workers, Work(v) \/ Fault(v) \/ Crash(v)
  PROVE  \/ UNCHANGED <<state, events>>
         \/ \E r \in Runs : LeaseNextRun(v, r)
         \/ CommitRelease(v)
         \/ CommitTransition(v)
         \/ Committing(v, "progress") /\ RecordProgress(Run(v), txn[v].stage)
<1>1. CASE Fault(v) \/ Crash(v)
  BY <1>1 DEF Fault, Crash, storeVars
<1>2. CASE AgentStep(v)
  BY <1>2
  DEF AgentStep, AcceptAgentRun, VerifyAgentSources, RetrieveSources, PinSnapshot,
      StartImpactAnalysis, AnalyzeImpacts, ExecuteResponseSupervisor, DraftResponse,
      ReviewDraft, Verdict, Passed, Exhausted, RevisionRequested, FinishDraft,
      EvaluateResponseSupervisor, Fail, Continue, storeVars
<1>3. CASE BaselineStep(v)
  BY <1>3
  DEF BaselineStep, AdvanceBaseline, ExecuteBaseline, WriteBaselineEvaluation, Fail, Continue,
      storeVars
<1>4. CASE Control(v)
  BY <1>4
  DEF Control, ClaimRun, Loop, HandleError, Finally, Return, Continue, storeVars
<1>5. CASE Repository(v)
  BY <1>5
  DEF Repository, Check, CheckStore, CommitRenew, RenewLease, CommitProgress, CommitStore,
      StoreArtifact, storeVars
<1> QED BY <1>1, <1>2, <1>3, <1>4, <1>5 DEF Work

\* After a step of a worker its call is open only if the step has just opened it.
LEMMA OpenedByBegin ==
  ASSUME TypeInv, NEW v \in Workers, Work(v) \/ Fault(v) \/ Crash(v), txn'[v].open
  PROVE  txn'[v].stage = state[Run(v)] /\ UNCHANGED <<storeVars, task>>
<1>0. txn \in [Workers -> TxnType] /\ (calls[v] = << >> => ~txn[v].open)
  BY DEF TypeInv, TypeOK, TxnType, Working, WorkingAt, Calling
<1>1. ASSUME Raise(v) \/ (\E l : Stop(v, l)) PROVE FALSE
  BY <1>0, <1>1 DEF Raise, Stop, Unwind, Closed
<1>2. ASSUME calls[v] = << >>, UNCHANGED txn PROVE FALSE
  BY <1>0, <1>2
<1>3. ASSUME EndCall(v) PROVE FALSE
  BY <1>0, <1>3 DEF EndCall, Closed
<1>4. ~(Fault(v) \/ Crash(v))
  BY <1>1 DEF Fault, Crash
<1>5. ~AgentStep(v)
  BY <1>1, <1>2
  DEF AgentStep, AcceptAgentRun, VerifyAgentSources, RetrieveSources, PinSnapshot,
      StartImpactAnalysis, AnalyzeImpacts, ExecuteResponseSupervisor, DraftResponse,
      ReviewDraft, Verdict, Passed, Exhausted, RevisionRequested, FinishDraft,
      EvaluateResponseSupervisor, Fail, Continue, Advancing, At
<1>6. ~BaselineStep(v)
  BY <1>1, <1>2
  DEF BaselineStep, AdvanceBaseline, ExecuteBaseline, WriteBaselineEvaluation, Fail, Continue,
      Advancing, At
<1>7. ~Control(v)
  BY <1>1, <1>2 DEF Control, ClaimRun, Loop, HandleError, Finally, Return, Continue, At
<1>8. Repository(v)
  BY <1>4, <1>5, <1>6, <1>7 DEF Work
<1>9. Begin(v) /\ UNCHANGED storeVars
  BY <1>0, <1>1, <1>3, <1>8
  DEF Repository, Check, CheckStore, CommitRenew, CommitRelease, CommitTransition,
      CommitProgress, CommitStore
<1> QED BY <1>0, <1>9 DEF Begin

LEMMA NextStageRead ==
  ASSUME TypeInv, HolderInv, StageRead, [Next]_vars
  PROVE  StageRead'
<1>0. SUFFICES ASSUME NEW w \in Workers, InLeasedCall(w)' PROVE txn'[w].stage = state'[Run(w)']
  BY DEF StageRead
<1>1. ASSUME UNCHANGED workerVars, UNCHANGED state \/ AcceptRun PROVE txn'[w].stage = state'[Run(w)']
  <2>1. InLeasedCall(w) /\ Run(w)' = Run(w) /\ txn'[w] = txn[w]
    BY <1>0, <1>1 DEF workerVars, InLeasedCall, Guarded, Calling, Call, Run
  <2>2. Run(w) \in Runs /\ state[Run(w)] # "none" /\ state \in [Runs -> RunState \cup {"none"}]
    BY <2>1 DEF InLeasedCall, Guarded, Calling, TypeInv, TypeOK, Working, WorkingAt
  <2>3. state'[Run(w)] = state[Run(w)]
    BY <1>1, <2>2 DEF AcceptRun, CreateRun
  <2> QED BY <2>1, <2>3 DEF StageRead
<1>2. ASSUME NEW v \in Workers, Work(v) \/ Fault(v) \/ Crash(v)
      PROVE  txn'[w].stage = state'[Run(w)']
  <2>1. CASE v = w
    BY <1>0, <1>2, <2>1, OpenedByBegin DEF InLeasedCall, storeVars, Run
  <2>2. CASE v # w
    <3>1. Local(v) /\ (UNCHANGED <<state, owner, ttl>> \/ LeaseStep(v))
      BY <1>2, WorkerLocal
    <3>2. task'[w] = task[w] /\ calls'[w] = calls[w] /\ txn'[w] = txn[w]
      BY <2>2, <3>1 DEF Local
    <3>3. InLeasedCall(w)
      BY <1>0, <3>2 DEF InLeasedCall, Guarded, Calling, Call
    <3>4. state'[Run(w)] = state[Run(w)]
      BY <2>2, <3>1, <3>3, LeaseUntouched
    <3> QED BY <3>2, <3>3, <3>4 DEF StageRead, Run
  <2> QED BY <2>1, <2>2
<1> QED BY <1>1, <1>2 DEF Next, Tick, Elapse, AcceptRun, vars, storeVars, workerVars

\* One event more in the log of one run, and its stage in the row.
LEMMA LogGrows ==
  ASSUME TypeInv, \A r \in Runs : Tells(events[r], state[r]),
         NEW q \in Runs, state[q] # "none", NEW e \in EventType, AppendEvent(q, e),
         e.stage = state[q] \/ e.stage \in AllowedTransitions[state[q]],
         state' = [state EXCEPT ![q] = e.stage]
  PROVE  \A r \in Runs : Tells(events'[r], state'[r])
<1>0. events \in [Runs -> Seq(EventType)] /\ state \in [Runs -> RunState \cup {"none"}]
  BY DEF TypeInv, TypeOK, EventType
<1>1. e.stage # "none"
  BY DEF EventType, RunState, ActiveStates, TerminalStates
<1>2. Tells(Append(events[q], e), e.stage)
  BY <1>0, <1>1, AppendTells
<1>3. events'[q] = Append(events[q], e) /\ state'[q] = e.stage
  BY <1>0 DEF AppendEvent
<1>4. \A r \in Runs \ {q} : events'[r] = events[r] /\ state'[r] = state[r]
  BY <1>0 DEF AppendEvent
<1> QED BY <1>2, <1>3, <1>4

LEMMA NextLog ==
  ASSUME TypeInv, HolderInv, LogInv, [Next]_vars
  PROVE  \A r \in Runs : Tells(events'[r], state'[r])
<1>0. /\ \A r \in Runs : Tells(events[r], state[r])
      /\ events \in [Runs -> Seq(EventType)] /\ state \in [Runs -> RunState \cup {"none"}]
  BY DEF LogInv, TypeInv, TypeOK, EventType
<1>1. CASE UNCHANGED <<state, events>>
  BY <1>0, <1>1
<1>2. CASE AcceptRun
  <2>1. PICK q \in Runs : CreateRun(q)
    BY <1>2 DEF AcceptRun
  <2>2. events[q] = << >>
    BY <1>0, <2>1 DEF CreateRun, Tells
  <2>3. events'[q] = <<Event("run_created", "RECEIVED")>> /\ state'[q] = "RECEIVED"
    BY <1>0, <2>1, <2>2 DEF CreateRun, AppendEvent
  <2>4. Tells(events'[q], state'[q])
    BY <2>3 DEF Tells, Event
  <2>5. \A r \in Runs \ {q} : events'[r] = events[r] /\ state'[r] = state[r]
    BY <1>0, <2>1 DEF CreateRun, AppendEvent
  <2> QED BY <1>0, <2>4, <2>5
<1>3. ASSUME NEW v \in Workers, Work(v) \/ Fault(v) \/ Crash(v)
      PROVE  \A r \in Runs : Tells(events'[r], state'[r])
  <2>1. CASE \E r \in Runs : LeaseNextRun(v, r)
    <3>1. PICK r \in Runs : LeaseNextRun(v, r)
      BY <2>1
    <3>2. state[r] \in RunState /\ state[r] # "none"
      BY <3>1 DEF LeaseNextRun, NextRun, Claimable, RunState, ActiveStates
    <3>3. Event("lease_acquired", state[r]) \in EventType
      BY <3>2 DEF Event, EventType, EventTypes
    <3>4. state' = [state EXCEPT ![r] = Event("lease_acquired", state[r]).stage]
      BY <1>0, <3>1 DEF LeaseNextRun, Event
    <3>5. AppendEvent(r, Event("lease_acquired", state[r]))
      BY <3>1 DEF LeaseNextRun
    <3> QED BY <1>0, <3>2, <3>3, <3>4, <3>5, LogGrows DEF Event
  <2>2. ASSUME InLeasedCall(v), NEW type \in EventTypes, UNCHANGED state,
               AppendEvent(Run(v), Event(type, txn[v].stage))
        PROVE  \A r \in Runs : Tells(events'[r], state'[r])
    <3>1. Run(v) \in Runs /\ state[Run(v)] # "none" /\ txn[v].stage = state[Run(v)]
      BY <2>2 DEF InLeasedCall, Guarded, Calling, TypeInv, Working, WorkingAt, LogInv, StageRead
    <3>2. Event(type, txn[v].stage) \in EventType
      BY <1>0, <3>1 DEF Event, EventType
    <3>3. state' = [state EXCEPT ![Run(v)] = Event(type, txn[v].stage).stage]
      BY <1>0, <2>2, <3>1 DEF Event
    <3> QED BY <1>0, <2>2, <3>1, <3>2, <3>3, LogGrows DEF Event
  <2>3. CASE CommitRelease(v)
    BY <2>2, <2>3 DEF CommitRelease, ReleaseLease, Committing, InLeasedCall, Guarded, EventTypes
  <2>4. CASE Committing(v, "progress") /\ RecordProgress(Run(v), txn[v].stage)
    BY <2>2, <2>4 DEF RecordProgress, Committing, InLeasedCall, Guarded, EventTypes
  <2>5. CASE CommitTransition(v)
    <3>1. /\ Run(v) \in Runs /\ state[Run(v)] # "none"
          /\ Call(v).to \in AllowedTransitions[state[Run(v)]]
      BY <2>5, TransitionAdmitted
    <3>2. Call(v).to \in RunState
      BY <1>0, <3>1, MovesType
    <3>3. Event("state_transition", Call(v).to) \in EventType
      BY <3>2 DEF Event, EventType, EventTypes
    <3>4. state' = [state EXCEPT ![Run(v)] = Event("state_transition", Call(v).to).stage]
      BY <2>5 DEF CommitTransition, Transition, Event
    <3>5. AppendEvent(Run(v), Event("state_transition", Call(v).to))
      BY <2>5 DEF CommitTransition, Transition
    <3> QED BY <1>0, <3>1, <3>3, <3>4, <3>5, LogGrows DEF Event
  <2> QED BY <1>1, <1>3, <2>1, <2>3, <2>4, <2>5, LogSteps
<1> QED BY <1>1, <1>2, <1>3 DEF Next, Tick, Elapse, vars, storeVars

\* As long as no worker is suspended inside a call past its lease, the events of
\* a run, whoever wrote them, are a path of allowed moves to its present state.
THEOREM LogTells ==
  ASSUME PromptCommits
  PROVE  Spec => []LogTellsHistory
<1>1. Init => LogInv
  BY DEF Init, StoreInit, Closed, LogInv, StageRead, InLeasedCall, Tells
<1>2. TypeInv /\ HolderInv /\ LogInv /\ [Next]_vars => LogInv'
  BY NextStageRead, NextLog DEF LogInv
<1>3. LogInv => LogTellsHistory
  BY DEF LogInv, Tells, LogTellsHistory, Created
<1>4. Spec => [](TypeInv /\ HolderInv)
  BY HolderAlways
<1> QED BY <1>1, <1>2, <1>3, <1>4, PTL DEF Spec

(***************************************************************************)
(* The artifacts behind a state                                            *)
(***************************************************************************)

RevisionNames == {"response_supervisor_revision_1", "response_supervisor_revision_2"}
AgentNames == {"source_evidence_package", "impact_package", "response_supervisor_run",
               "evidence_safety_review", "agent_evaluation"} \cup RevisionNames
BaselineNames == {"baseline_run", "baseline_evaluation"}

\* With artifacts A and calls q still to make: c is pinned under n, or will be
\* before the calls are done (one that does not succeed ends them).
Held(A, q, n, c) == A[n] = c \/ \E i \in DOMAIN q : q[i] = Store(n, c)

\* The first draft of the run was sent back, which the run's record shows.
Revised(A) == A["response_supervisor_run"] \in Contents /\ A["response_supervisor_run"].result # "PASS"

Sourced(A, q) ==
  \E p \in Contents : p.result # "conflicting" /\ Held(A, q, "source_evidence_package", p)

Analyzed(A, q) ==
  \E p \in Contents :
    /\ p.result # "conflicting"
    /\ A["source_evidence_package"] = p
    /\ Held(A, q, "impact_package", ImpactPackage(p))

Approved(A, q) ==
  \E d \in Contents :
    /\ d.result = "PASS"
    /\ A["evidence_safety_review"] = SafetyReview(d)
    /\ Held(A, q, "response_supervisor_run", d)

HeldSome(A, q, n) == \E c \in Contents : Held(A, q, n, c)

\* What a run must have pinned to be in state s.
AgentGate(A, q, s) ==
  /\ s \in {"VERIFIED", "DATA_SNAPSHOT", "IMPACT_ANALYSIS"} => Sourced(A, q)
  /\ s \in {"ACTION_DRAFTING", "EVIDENCE_VERIFICATION", "AWAITING_HUMAN_REVIEW"} => Analyzed(A, q)
  /\ s \in {"EVIDENCE_VERIFICATION", "AWAITING_HUMAN_REVIEW"} => Approved(A, q)
  /\ s = "AWAITING_HUMAN_REVIEW" => HeldSome(A, q, "agent_evaluation")

BaselineGate(A, q, s) ==
  /\ s \in {"EVIDENCE_VERIFICATION", "AWAITING_HUMAN_REVIEW"} =>
       \E c \in Contents : c.result = "completed" /\ Held(A, q, "baseline_run", c)
  /\ s = "AWAITING_HUMAN_REVIEW" => HeldSome(A, q, "baseline_evaluation")

Gate(r, A, q, s) ==
  /\ r \in AgentRuns => AgentGate(A, q, s)
  /\ r \notin AgentRuns => BaselineGate(A, q, s)

\* The pending calls: a transition is the last of them and its gate is open, and
\* what is stored belongs to the mode of the run.
CallsGood(A, q, l, r) ==
  \A i \in DOMAIN q :
    /\ q[i].op = "transition" =>
         /\ i = Len(q) /\ l \in {"loop", "finally"}
         /\ Gate(r, A, q, q[i].to)
    /\ q[i].op = "store" =>
         /\ q[i].name \in IF r \in AgentRuns THEN AgentNames ELSE BaselineNames
         /\ q[i].name \in RevisionNames => Revised(A)

\* What the code at label l relies on.
LabelGood(A, q, l, t) ==
  /\ l = "retrieve" => t.run \in AgentRuns
  /\ l \in {"draft", "review", "verdict", "drafted"} =>
       t.run \in AgentRuns /\ t.stage = "ACTION_DRAFTING"
  /\ l \in {"draft", "review", "verdict"} /\ t.attempt # 0 => Revised(A)
  /\ l \in {"review", "verdict", "drafted"} => t.draft \in Contents
  /\ l = "review" => Held(A, q, DraftName(t.attempt), t.draft)
  /\ l = "verdict" =>
       /\ A[DraftName(t.attempt)] = t.draft
       /\ Held(A, q, "evidence_safety_review", SafetyReview(t.draft))
  /\ l = "drafted" =>
       \/ t.draft.result = "failed"
       \/ t.draft.result = "PASS" /\ A["evidence_safety_review"] = SafetyReview(t.draft)

Good(A, q, l, t) ==
  /\ Gate(t.run, A, << >>, t.stage)
  /\ CallsGood(A, q, l, t.run)
  /\ LabelGood(A, q, l, t)

RunsGood == \A r \in Runs : Gate(r, artifacts[r], << >>, state[r])

WorkerGood(w) == ~Idle(w) => Good(artifacts[Run(w)], calls[w], pc[w], task[w])

RecordInv == RunsGood /\ \A w \in Workers : WorkerGood(w)

ArtifactsType == [Names -> Contents \cup {NoArtifact}]

\* Nothing that is pinned is changed.
Keeps(A, B) == \A n \in Names : A[n] # NoArtifact => B[n] = A[n]

\* The calls p are what is left of q, and a store that is gone has been made.
Left(q, p, B) ==
  \A n \in Names, c \in Contents :
    (\E i \in DOMAIN q : q[i] = Store(n, c)) => Held(B, p, n, c)

LEMMA HeldMono ==
  ASSUME NEW A \in ArtifactsType, NEW B \in ArtifactsType, Keeps(A, B),
         NEW q, NEW p, Left(q, p, B),
         NEW n \in Names, NEW c \in Contents, Held(A, q, n, c)
  PROVE  Held(B, p, n, c)
<1>1. CASE A[n] = c
  <2>1. A[n] # NoArtifact
    BY <1>1, ArtifactAssumption
  <2> QED BY <1>1, <2>1 DEF Keeps, Held
<1>2. CASE \E i \in DOMAIN q : q[i] = Store(n, c)
  BY <1>2 DEF Left
<1> QED BY <1>1, <1>2 DEF Held

\* A gate that is open stays open.
LEMMA GateMono ==
  ASSUME NEW A \in ArtifactsType, NEW B \in ArtifactsType, Keeps(A, B),
         NEW q, NEW p, Left(q, p, B),
         NEW r, NEW s, Gate(r, A, q, s)
  PROVE  Gate(r, B, p, s)
<1>0. \A n \in Names, c \in Contents : Held(A, q, n, c) => Held(B, p, n, c)
  BY HeldMono
<1>1. \A n \in Names, c \in Contents : A[n] = c => B[n] = c
  BY ArtifactAssumption DEF Keeps
<1>2. \A c \in Contents : ImpactPackage(c) \in Contents /\ SafetyReview(c) \in Contents
  BY ArtifactTypes
<1>3. AgentNames \cup BaselineNames \subseteq Names
  BY DEF AgentNames, BaselineNames, RevisionNames, Names
<1>4. Sourced(A, q) => Sourced(B, p)
  BY <1>0, <1>3 DEF Sourced, AgentNames
<1>5. Analyzed(A, q) => Analyzed(B, p)
  BY <1>0, <1>1, <1>2, <1>3 DEF Analyzed, AgentNames
<1>6. Approved(A, q) => Approved(B, p)
  BY <1>0, <1>1, <1>2, <1>3 DEF Approved, AgentNames
<1>7. /\ HeldSome(A, q, "agent_evaluation") => HeldSome(B, p, "agent_evaluation")
      /\ HeldSome(A, q, "baseline_evaluation") => HeldSome(B, p, "baseline_evaluation")
  BY <1>0, <1>3 DEF HeldSome, AgentNames, BaselineNames
<1>8. (\E c \in Contents : c.result = "completed" /\ Held(A, q, "baseline_run", c)) =>
      (\E c \in Contents : c.result = "completed" /\ Held(B, p, "baseline_run", c))
  BY <1>0, <1>3 DEF BaselineNames
<1>9. AgentGate(A, q, s) => AgentGate(B, p, s)
  BY <1>4, <1>5, <1>6, <1>7 DEF AgentGate
<1>10. BaselineGate(A, q, s) => BaselineGate(B, p, s)
  BY <1>7, <1>8 DEF BaselineGate
<1> QED BY <1>9, <1>10 DEF Gate

LEMMA RevisedMono ==
  ASSUME NEW A \in ArtifactsType, NEW B \in ArtifactsType, Keeps(A, B), Revised(A)
  PROVE  Revised(B)
  BY ArtifactAssumption DEF Keeps, Revised, Names

LEMMA LabelMono ==
  ASSUME NEW A \in ArtifactsType, NEW B \in ArtifactsType, Keeps(A, B),
         NEW q, NEW p, Left(q, p, B),
         NEW l, NEW t \in TaskType, LabelGood(A, q, l, t)
  PROVE  LabelGood(B, p, l, t)
<1>0. \A n \in Names, c \in Contents : Held(A, q, n, c) => Held(B, p, n, c)
  BY HeldMono
<1>1. \A n \in Names, c \in Contents : A[n] = c => B[n] = c
  BY ArtifactAssumption DEF Keeps
<1>2. \A c \in Contents : SafetyReview(c) \in Contents
  BY ArtifactTypes
<1>3. DraftName(t.attempt) \in Names /\ "evidence_safety_review" \in Names
  BY ArtifactTypes DEF TaskType, Names
<1>4. Revised(A) => Revised(B)
  BY RevisedMono
<1> QED BY <1>0, <1>1, <1>2, <1>3, <1>4 DEF LabelGood

\* Others' stores: the calls of the worker are the same.
LEMMA GoodMono ==
  ASSUME NEW A \in ArtifactsType, NEW B \in ArtifactsType, Keeps(A, B),
         NEW q, NEW l, NEW t \in TaskType, Good(A, q, l, t)
  PROVE  Good(B, q, l, t)
<1>1. Left(q, q, B) /\ Left(<< >>, << >>, B)
  BY DEF Left, Held
<1>2. Gate(t.run, B, << >>, t.stage) /\ \A s : Gate(t.run, A, q, s) => Gate(t.run, B, q, s)
  BY <1>1, GateMono DEF Good
<1>3. CallsGood(B, q, l, t.run)
  BY <1>2, RevisedMono DEF Good, CallsGood
<1>4. LabelGood(B, q, l, t)
  BY <1>1, LabelMono DEF Good
<1> QED BY <1>2, <1>3, <1>4 DEF Good

\* The first call is done, and if it was a store, its artifact is pinned.
LEMMA TailLeft ==
  ASSUME NEW q \in Seq(Calls), q # << >>, NEW B,
         Head(q).op = "store" => B[Head(q).name] = Head(q).content
  PROVE  Left(q, Tail(q), B)
<1>1. /\ Len(q) \in Nat \ {0} /\ DOMAIN q = 1..Len(q) /\ Head(q) = q[1]
      /\ DOMAIN Tail(q) = 1..Len(q) - 1 /\ \A i \in 1..Len(q) - 1 : Tail(q)[i] = q[i + 1]
  BY HeadTailProperties, LenProperties, EmptySeq
<1>2. SUFFICES ASSUME NEW n \in Names, NEW c \in Contents, NEW i \in DOMAIN q, q[i] = Store(n, c)
               PROVE  Held(B, Tail(q), n, c)
  BY DEF Left
<1>3. CASE i = 1
  <2>1. Head(q).op = "store" /\ Head(q).name = n /\ Head(q).content = c
    BY <1>1, <1>2, <1>3 DEF Store
  <2> QED BY <2>1 DEF Held
<1>4. CASE i # 1
  <2>1. i - 1 \in 1..Len(q) - 1 /\ Tail(q)[i - 1] = q[i]
    BY <1>1, <1>4
  <2> QED BY <1>1, <1>2, <2>1 DEF Held
<1> QED BY <1>3, <1>4

LEMMA GoodTail ==
  ASSUME NEW A \in ArtifactsType, NEW B \in ArtifactsType, Keeps(A, B),
         NEW q \in Seq(Calls), q # << >>,
         Head(q).op = "store" => B[Head(q).name] = Head(q).content,
         NEW l, NEW t \in TaskType, Good(A, q, l, t)
  PROVE  Good(B, Tail(q), l, t)
<1> DEFINE p == Tail(q)
<1>1. /\ Len(q) \in Nat \ {0} /\ DOMAIN q = 1..Len(q) /\ Len(p) = Len(q) - 1
      /\ DOMAIN p = 1..Len(q) - 1 /\ \A i \in 1..Len(q) - 1 : p[i] = q[i + 1]
  BY HeadTailProperties, LenProperties, EmptySeq
<1>2. Left(q, p, B)
  BY TailLeft
<1>3. Left(<< >>, << >>, B)
  BY DEF Left
<1> HIDE DEF p
<1>4. Gate(t.run, B, << >>, t.stage) /\ \A s : Gate(t.run, A, q, s) => Gate(t.run, B, p, s)
  BY <1>2, <1>3, GateMono DEF Good
<1>5. CallsGood(B, p, l, t.run)
  <2>1. SUFFICES ASSUME NEW i \in 1..Len(q) - 1
                 PROVE  /\ p[i].op = "transition" =>
                             /\ i = Len(p) /\ l \in {"loop", "finally"}
                             /\ Gate(t.run, B, p, p[i].to)
                        /\ p[i].op = "store" =>
                             /\ p[i].name \in IF t.run \in AgentRuns THEN AgentNames ELSE BaselineNames
                             /\ p[i].name \in RevisionNames => Revised(B)
    BY <1>1 DEF CallsGood
  <2>2. i + 1 \in DOMAIN q /\ p[i] = q[i + 1] /\ (i + 1 = Len(q) => i = Len(p))
    BY <1>1
  <2>3. /\ q[i + 1].op = "transition" =>
             i + 1 = Len(q) /\ l \in {"loop", "finally"} /\ Gate(t.run, A, q, q[i + 1].to)
        /\ q[i + 1].op = "store" =>
             /\ q[i + 1].name \in IF t.run \in AgentRuns THEN AgentNames ELSE BaselineNames
             /\ q[i + 1].name \in RevisionNames => Revised(A)
    BY <2>2 DEF Good, CallsGood
  <2> QED BY <1>4, <2>2, <2>3, RevisedMono
<1>6. LabelGood(B, p, l, t)
  BY <1>2, LabelMono DEF Good
<1> QED BY <1>4, <1>5, <1>6 DEF Good, p

\* The transition is made: there is nothing behind it, and its gate is that of
\* the new state.
LEMMA GoodMoved ==
  ASSUME NEW A \in ArtifactsType, NEW q \in Seq(Calls), q # << >>, Head(q).op = "transition",
         NEW l, NEW t \in TaskType, Good(A, q, l, t)
  PROVE  /\ Gate(t.run, A, << >>, Head(q).to)
         /\ Good(A, Tail(q), l, [t EXCEPT !.stage = Head(q).to])
<1> DEFINE m == [t EXCEPT !.stage = Head(q).to]
<1>1. /\ DOMAIN q = 1..Len(q) /\ Len(q) \in Nat \ {0} /\ Head(q) = q[1]
  BY HeadTailProperties, LenProperties, EmptySeq
<1>2. 1 = Len(q) /\ l \in {"loop", "finally"} /\ Gate(t.run, A, q, Head(q).to)
  BY <1>1 DEF Good, CallsGood
<1>3. Tail(q) = << >>
  <2>1. Tail(q) \in Seq(Calls) /\ Len(Tail(q)) = 0
    BY <1>2, HeadTailProperties
  <2> QED BY <2>1, EmptySeq
<1>4. Left(q, << >>, A)
  BY <1>3, TailLeft
<1>5. Gate(t.run, A, << >>, Head(q).to)
  BY <1>2, <1>4, GateMono DEF Keeps
<1>6. m.run = t.run /\ m.stage = Head(q).to
  BY DEF TaskType
<1> HIDE DEF m
<1>7. CallsGood(A, << >>, l, m.run)
  BY DEF CallsGood
<1>8. LabelGood(A, << >>, l, m)
  BY <1>2 DEF LabelGood
<1> QED BY <1>3, <1>5, <1>6, <1>7, <1>8 DEF Good, m

\* Code and calls abandoned by an exception.
LEMMA GoodUnwound ==
  ASSUME NEW A, NEW q, NEW l, NEW m \in {"failed", "finally"}, NEW t \in TaskType, Good(A, q, l, t),
         NEW u, u.run = t.run, u.stage = t.stage
  PROVE  Good(A, << >>, m, u)
<1>1. CallsGood(A, << >>, m, u.run) /\ LabelGood(A, << >>, m, u)
  BY DEF CallsGood, LabelGood
<1> QED BY <1>1 DEF Good

\* A worker that raises is good or dead afterwards.
LEMMA RaiseGood ==
  ASSUME TypeInv, NEW v \in Workers, ~Idle(v), WorkerGood(v), Raise(v) \/ \E l \in {"idle", "dead"} : Stop(v, l),
         UNCHANGED storeVars
  PROVE  WorkerGood(v)'
<1>0. /\ pc \in [Workers -> Labels] /\ calls \in [Workers -> Seq(Calls)] /\ task \in [Workers -> TaskType]
      /\ Good(artifacts[Run(v)], calls[v], pc[v], task[v])
  BY DEF TypeInv, TypeOK, TaskType, WorkerGood
<1>1. CASE \E l \in {"idle", "dead"} : Stop(v, l)
  BY <1>0, <1>1 DEF Stop, Unwind, WorkerGood, Idle
<1>2. ASSUME NEW m \in {"failed", "finally"}, Unwind(v, m),
             task' = task \/ task' = [task EXCEPT ![v].doomed = TRUE]
      PROVE  WorkerGood(v)'
  <2>1. pc'[v] = m /\ calls'[v] = << >>
    BY <1>0, <1>2 DEF Unwind
  <2>2. task'[v].run = task[v].run /\ task'[v].stage = task[v].stage
    BY <1>0, <1>2 DEF TaskType
  <2>3. Good(artifacts[Run(v)], << >>, m, task'[v])
    BY <1>0, <2>2, GoodUnwound
  <2> QED BY <2>1, <2>2, <2>3 DEF WorkerGood, Run, storeVars
<1>3. CASE Stop(v, "dead")
  BY <1>1, <1>3
<1>4. CASE Raise(v)
  BY <1>2, <1>3, <1>4 DEF Raise
<1> QED BY <1>1, <1>4

\* Engine code that queues calls and moves on.
LEMMA ContinueGood ==
  ASSUME TypeInv, NEW v \in Workers, ~Idle(v), NEW cs, NEW l, Continue(v, cs, l),
         NEW t \in TaskType, t.run = Run(v), task' = [task EXCEPT ![v] = t],
         Good(artifacts[Run(v)], cs, l, t)
  PROVE  WorkerGood(v)'
<1>1. /\ pc \in [Workers -> Labels] /\ calls \in [Workers -> Seq(Calls)] /\ task \in [Workers -> TaskType]
  BY DEF TypeInv, TypeOK, TaskType
<1>2. pc'[v] = l /\ calls'[v] = cs /\ task'[v] = t /\ artifacts' = artifacts
  BY <1>1 DEF Continue, storeVars
<1> QED BY <1>2 DEF WorkerGood, Run

LEMMA ContinueGoodSame ==
  ASSUME TypeInv, NEW v \in Workers, ~Idle(v), NEW cs, NEW l, Continue(v, cs, l), UNCHANGED task,
         Good(artifacts[Run(v)], cs, l, task[v])
  PROVE  WorkerGood(v)'
<1>1. task[v] \in TaskType /\ task' = [task EXCEPT ![v] = task[v]] /\ task[v].run = Run(v)
  BY DEF TypeInv, TypeOK, TaskType, Run
<1> QED BY <1>1, ContinueGood

\* What a worker at its code, with no call pending, may rely on.
LEMMA GoodAt ==
  ASSUME TypeInv, NEW v \in Workers, NEW l, At(v, l), l \notin {"idle", "dead"}, WorkerGood(v)
  PROVE  /\ ~Idle(v) /\ Run(v) \in Runs /\ artifacts[Run(v)] \in ArtifactsType
         /\ task[v] \in TaskType /\ Run(v) = task[v].run
         /\ Gate(Run(v), artifacts[Run(v)], << >>, task[v].stage)
         /\ LabelGood(artifacts[Run(v)], << >>, l, task[v])
<1>1. ~Idle(v) /\ pc[v] = l /\ calls[v] = << >>
  BY DEF At, Idle
<1>2. Run(v) \in Runs /\ artifacts[Run(v)] \in ArtifactsType /\ task[v] \in TaskType
  BY <1>1 DEF TypeInv, TypeOK, Working, WorkingAt, ArtifactsType, TaskType
<1> QED BY <1>1, <1>2 DEF WorkerGood, Good, Run

\* Gates of states that ask for nothing, and gates that are open with no call made.
LEMMA EasyGates ==
  ASSUME NEW A \in ArtifactsType, NEW q, NEW r
  PROVE  /\ \A s \in {"RECEIVED", "SOURCE_CHECK", "BLOCKED"} : Gate(r, A, q, s)
         /\ r \notin AgentRuns =>
              \A s \in {"VERIFIED", "DATA_SNAPSHOT", "IMPACT_ANALYSIS", "ACTION_DRAFTING"} : Gate(r, A, q, s)
         /\ \A s : Gate(r, A, << >>, s) => Gate(r, A, q, s)
<1>1. Left(<< >>, q, A) /\ Keeps(A, A)
  BY DEF Left, Keeps
<1>2. \A s : Gate(r, A, << >>, s) => Gate(r, A, q, s)
  BY <1>1, GateMono
<1>3. \A s \in {"RECEIVED", "SOURCE_CHECK", "BLOCKED"} : Gate(r, A, q, s)
  BY DEF Gate, AgentGate, BaselineGate
<1>4. r \notin AgentRuns =>
        \A s \in {"VERIFIED", "DATA_SNAPSHOT", "IMPACT_ANALYSIS", "ACTION_DRAFTING"} : Gate(r, A, q, s)
  BY DEF Gate, BaselineGate
<1> QED BY <1>2, <1>3, <1>4

\* Lists of calls that are good: none, one, two or three of them.
LEMMA ListsGood ==
  ASSUME NEW A, NEW r, NEW l
  PROVE  /\ CallsGood(A, << >>, l, r) /\ CallsGood(A, <<Progress>>, l, r)
         /\ CallsGood(A, <<Renew>>, l, r) /\ CallsGood(A, <<Release>>, l, r)
         /\ \A s : l \in {"loop", "finally"} /\ Gate(r, A, <<Move(s)>>, s) =>
              CallsGood(A, <<Move(s)>>, l, r)
  BY DEF CallsGood, Progress, Renew, Release, Move

StoreGood(A, r, n) ==
  /\ n \in IF r \in AgentRuns THEN AgentNames ELSE BaselineNames
  /\ n \in RevisionNames => Revised(A)

LEMMA StoreLists ==
  ASSUME NEW A, NEW r, NEW l, NEW n, NEW c, StoreGood(A, r, n)
  PROVE  /\ CallsGood(A, <<Store(n, c)>>, l, r)
         /\ CallsGood(A, <<Store(n, c), Progress>>, l, r)
  BY DEF CallsGood, Progress, Store, StoreGood

\* Lists that end in a transition.
LEMMA MoveLists ==
  ASSUME NEW A, NEW r, NEW n, NEW c, NEW s, StoreGood(A, r, n)
  PROVE  /\ Gate(r, A, <<Store(n, c), Move(s)>>, s) => CallsGood(A, <<Store(n, c), Move(s)>>, "loop", r)
         /\ Gate(r, A, <<Progress, Store(n, c), Move(s)>>, s) =>
              CallsGood(A, <<Progress, Store(n, c), Move(s)>>, "loop", r)
         /\ Gate(r, A, <<Store(n, c), Progress, Move(s)>>, s) =>
              CallsGood(A, <<Store(n, c), Progress, Move(s)>>, "loop", r)
         /\ \A m, d : StoreGood(A, r, m) /\ Gate(r, A, <<Store(n, c), Store(m, d), Move(s)>>, s) =>
              CallsGood(A, <<Store(n, c), Store(m, d), Move(s)>>, "loop", r)
  BY DEF CallsGood, Progress, Store, Move, StoreGood

LEMMA LoopGood ==
  ASSUME NEW A, NEW q, NEW t, Gate(t.run, A, << >>, t.stage), CallsGood(A, q, "loop", t.run)
  PROVE  Good(A, q, "loop", t)
  BY DEF Good, LabelGood

(***************************************************************************)
(* The agent workflow keeps the gates                                      *)
(***************************************************************************)
LEMMA FailGood ==
  ASSUME TypeInv, NEW v \in Workers, WorkerGood(v), Fail(v)
  PROVE  WorkerGood(v)'
<1>1. ~Idle(v) /\ Raise(v) /\ UNCHANGED storeVars
  BY DEF Fail, At, Idle
<1> QED BY <1>1, RaiseGood

\* Stages that only move on.
LEMMA EarlyStagesGood ==
  ASSUME TypeInv, NEW v \in Workers, WorkerGood(v),
         AcceptAgentRun(v) \/ VerifyAgentSources(v) \/ PinSnapshot(v) \/ StartImpactAnalysis(v)
  PROVE  WorkerGood(v)'
<1> DEFINE r == Run(v)
<1> DEFINE A == artifacts[Run(v)]
<1>0. /\ At(v, "advance") /\ r \in AgentRuns
  BY DEF AcceptAgentRun, VerifyAgentSources, PinSnapshot, StartImpactAnalysis, Advancing, Agent
<1>1. /\ ~Idle(v) /\ A \in ArtifactsType /\ task[v].run = r
      /\ Gate(r, A, << >>, task[v].stage)
  BY <1>0, GoodAt
<1>2. ASSUME NEW s \in RunState, Gate(r, A, << >>, s), Continue(v, <<Move(s)>>, "loop"), UNCHANGED task
      PROVE  WorkerGood(v)'
  <2>1. CallsGood(A, <<Move(s)>>, "loop", r)
    BY <1>1, <1>2, EasyGates, ListsGood
  <2>2. Good(A, <<Move(s)>>, "loop", task[v])
    BY <1>1, <2>1, LoopGood
  <2> QED BY <1>1, <1>2, <2>2, ContinueGoodSame
<1>3. \A s \in {"SOURCE_CHECK", "DATA_SNAPSHOT", "IMPACT_ANALYSIS"} : s \in RunState
  BY DEF RunState, ActiveStates
<1>4. CASE AcceptAgentRun(v)
  <2>1. Gate(r, A, << >>, "SOURCE_CHECK")
    BY <1>1, EasyGates
  <2> QED BY <1>2, <1>3, <1>4, <2>1 DEF AcceptAgentRun
<1>5. CASE VerifyAgentSources(v)
  <2>1. LabelGood(A, <<Progress>>, "retrieve", task[v])
    BY <1>0, <1>1 DEF LabelGood
  <2>2. Good(A, <<Progress>>, "retrieve", task[v])
    BY <1>1, <2>1, ListsGood DEF Good
  <2> QED BY <1>1, <1>5, <2>2, ContinueGoodSame DEF VerifyAgentSources
<1>6. CASE PinSnapshot(v)
  <2>1. task[v].stage = "VERIFIED"
    BY <1>6 DEF PinSnapshot, Advancing
  <2>2. Gate(r, A, << >>, "DATA_SNAPSHOT")
    BY <1>0, <1>1, <2>1 DEF Gate, AgentGate
  <2> QED BY <1>2, <1>3, <1>6, <2>2, FailGood DEF PinSnapshot
<1>7. CASE StartImpactAnalysis(v)
  <2>1. task[v].stage = "DATA_SNAPSHOT"
    BY <1>7 DEF StartImpactAnalysis, Advancing
  <2>2. Gate(r, A, << >>, "IMPACT_ANALYSIS")
    BY <1>0, <1>1, <2>1 DEF Gate, AgentGate
  <2> QED BY <1>2, <1>3, <1>7, <2>2 DEF StartImpactAnalysis
<1> QED BY <1>4, <1>5, <1>6, <1>7

\* A conflicting package is stored on the way to BLOCKED.
LEMMA RetrieveGood ==
  ASSUME TypeInv, NEW v \in Workers, WorkerGood(v), RetrieveSources(v)
  PROVE  WorkerGood(v)'
<1> DEFINE r == Run(v)
<1> DEFINE A == artifacts[Run(v)]
<1>1. /\ ~Idle(v) /\ A \in ArtifactsType /\ task[v].run = r /\ task[v] \in TaskType
      /\ Gate(r, A, << >>, task[v].stage) /\ r \in AgentRuns
  BY GoodAt DEF RetrieveSources, LabelGood
<1>2. PICK status \in SourceOutcomes :
        Continue(v, <<Store("source_evidence_package", EvidencePackage(task[v].claim, status)),
                      Move(IF status = "conflicting" THEN "BLOCKED" ELSE "VERIFIED")>>, "loop")
  BY DEF RetrieveSources
<1> DEFINE p == EvidencePackage(task[v].claim, status)
<1> DEFINE s == IF status = "conflicting" THEN "BLOCKED" ELSE "VERIFIED"
<1> DEFINE q == <<Store("source_evidence_package", p), Move(s)>>
<1>3. p \in Contents /\ p.result = status
  BY <1>1, OutcomesAssumption, ArtifactTypes DEF TaskType, EvidencePackage
<1>4. Held(A, q, "source_evidence_package", p)
  BY DEF Held
<1>5. Gate(r, A, q, s)
  <2>1. CASE status = "conflicting"
    BY <1>1, <2>1, EasyGates
  <2>2. CASE status # "conflicting"
    <3>1. Sourced(A, q)
      BY <1>3, <1>4, <2>2 DEF Sourced
    <3> QED BY <1>1, <2>2, <3>1 DEF Gate, AgentGate
  <2> QED BY <2>1, <2>2
<1>6. StoreGood(A, r, "source_evidence_package")
  BY <1>1 DEF StoreGood, AgentNames, RevisionNames
<1>7. CallsGood(A, q, "loop", r)
  BY <1>5, <1>6, MoveLists
<1>8. Good(A, q, "loop", task[v])
  BY <1>1, <1>7, LoopGood
<1>9. UNCHANGED task
  BY DEF RetrieveSources
<1> QED BY <1>1, <1>2, <1>8, <1>9, ContinueGoodSame

LEMMA AnalyzeGood ==
  ASSUME TypeInv, NEW v \in Workers, WorkerGood(v), AnalyzeImpacts(v)
  PROVE  WorkerGood(v)'
<1> DEFINE r == Run(v)
<1> DEFINE A == artifacts[Run(v)]
<1>1. /\ ~Idle(v) /\ A \in ArtifactsType /\ task[v].run = r
      /\ Gate(r, A, << >>, task[v].stage) /\ r \in AgentRuns /\ task[v].stage = "IMPACT_ANALYSIS"
  BY GoodAt DEF AnalyzeImpacts, Advancing, Agent
<1> DEFINE x == ImpactPackage(Stored(v, "source_evidence_package"))
<1> DEFINE q == <<Progress, Store("impact_package", x), Move("ACTION_DRAFTING")>>
<1>2. PICK p \in Contents : p.result # "conflicting" /\ A["source_evidence_package"] = p
  BY <1>1 DEF Gate, AgentGate, Sourced, Held
<1>3. Held(A, q, "impact_package", ImpactPackage(p))
  <2>1. x = ImpactPackage(p)
    BY <1>2 DEF Stored
  <2>2. 2 \in DOMAIN q /\ q[2] = Store("impact_package", x)
    OBVIOUS
  <2> HIDE DEF q, x
  <2> QED BY <2>1, <2>2 DEF Held
<1>4. Analyzed(A, q)
  BY <1>2, <1>3 DEF Analyzed
<1>5. Gate(r, A, q, "ACTION_DRAFTING")
  BY <1>1, <1>4 DEF Gate, AgentGate
<1>6. StoreGood(A, r, "impact_package")
  BY <1>1 DEF StoreGood, AgentNames, RevisionNames
<1>7. CallsGood(A, q, "loop", r)
  BY <1>5, <1>6, MoveLists
<1>8. Good(A, q, "loop", task[v])
  BY <1>1, <1>7, LoopGood
<1>9. Fail(v) \/ (Continue(v, q, "loop") /\ UNCHANGED task)
  BY DEF AnalyzeImpacts
<1> QED BY <1>1, <1>8, <1>9, ContinueGoodSame, FailGood

LEMMA SuperviseGood ==
  ASSUME TypeInv, NEW v \in Workers, WorkerGood(v), ExecuteResponseSupervisor(v)
  PROVE  WorkerGood(v)'
<1> DEFINE A == artifacts[Run(v)]
<1> DEFINE t == [task[v] EXCEPT !.attempt = 0]
<1>1. /\ ~Idle(v) /\ task[v] \in TaskType /\ Run(v) = task[v].run
      /\ Gate(Run(v), A, << >>, task[v].stage) /\ Run(v) \in AgentRuns /\ task[v].stage = "ACTION_DRAFTING"
      /\ task \in [Workers -> TaskType]
  BY GoodAt DEF ExecuteResponseSupervisor, Advancing, Agent, TypeInv, TypeOK, TaskType
<1>2. t \in TaskType /\ t.run = Run(v) /\ t.stage = task[v].stage /\ t.attempt = 0
  <2>1. 0 \in Attempts
    BY DEF Attempts
  <2> QED BY <1>1, <2>1 DEF TaskType
<1>3. Fail(v) \/ (Continue(v, <<Progress>>, "draft") /\ task' = [task EXCEPT ![v] = t])
  BY <1>1 DEF ExecuteResponseSupervisor
<1> HIDE DEF t
<1>4. LabelGood(A, <<Progress>>, "draft", t)
  BY <1>1, <1>2 DEF LabelGood
<1>5. Good(A, <<Progress>>, "draft", t)
  BY <1>1, <1>2, <1>4, ListsGood DEF Good
<1> QED BY <1>1, <1>2, <1>3, <1>5, ContinueGood, FailGood

\* A revision is stored under its own name, after the first draft was sent back.
LEMMA DraftGood ==
  ASSUME TypeInv, NEW v \in Workers, WorkerGood(v), DraftResponse(v)
  PROVE  WorkerGood(v)'
<1> DEFINE r == Run(v)
<1> DEFINE A == artifacts[Run(v)]
<1>1. /\ ~Idle(v) /\ task[v] \in TaskType /\ r = task[v].run
      /\ Gate(r, A, << >>, task[v].stage) /\ r \in AgentRuns /\ task[v].stage = "ACTION_DRAFTING"
      /\ task[v].attempt # 0 => Revised(A)
      /\ task \in [Workers -> TaskType]
  BY GoodAt DEF DraftResponse, LabelGood, TypeInv, TypeOK, TaskType
<1>2. PICK outcome \in DraftOutcomes :
        /\ Continue(v, <<Store(DraftName(task[v].attempt), SupervisorRun(task[v].claim, task[v].attempt, outcome))>>,
                    IF outcome = "failed" THEN "drafted" ELSE "review")
        /\ task' = [task EXCEPT ![v].draft = SupervisorRun(task[v].claim, task[v].attempt, outcome)]
  BY DEF DraftResponse
<1> DEFINE d == SupervisorRun(task[v].claim, task[v].attempt, outcome)
<1> DEFINE n == DraftName(task[v].attempt)
<1> DEFINE l == IF outcome = "failed" THEN "drafted" ELSE "review"
<1> DEFINE t == [task[v] EXCEPT !.draft = d]
<1>3. d \in Contents /\ d.result = outcome
  BY <1>1, OutcomesAssumption, ArtifactTypes DEF TaskType, SupervisorRun
<1>4. n \in AgentNames /\ (n \in RevisionNames => task[v].attempt # 0)
  BY <1>1 DEF TaskType, Attempts, DraftName, AgentNames, RevisionNames
<1>5. StoreGood(A, r, n)
  BY <1>1, <1>4 DEF StoreGood
<1>6. CallsGood(A, <<Store(n, d)>>, l, r)
  BY <1>5, StoreLists
<1>7. Continue(v, <<Store(n, d)>>, l) /\ task' = [task EXCEPT ![v] = t]
  BY <1>1, <1>2
<1> HIDE DEF d, n
<1>8. /\ t \in TaskType /\ t.run = r /\ t.stage = task[v].stage
      /\ t.attempt = task[v].attempt /\ t.draft = d
  BY <1>1, <1>3 DEF TaskType
<1>9. Held(A, <<Store(n, d)>>, n, d)
  BY DEF Held
<1> HIDE DEF t
<1>10. LabelGood(A, <<Store(n, d)>>, l, t)
  BY <1>1, <1>3, <1>8, <1>9 DEF LabelGood, n
<1>11. Good(A, <<Store(n, d)>>, l, t)
  BY <1>1, <1>6, <1>8, <1>10 DEF Good
<1> QED BY <1>1, <1>7, <1>8, <1>11, ContinueGood

LEMMA ReviewGood ==
  ASSUME TypeInv, NEW v \in Workers, WorkerGood(v), ReviewDraft(v)
  PROVE  WorkerGood(v)'
<1> DEFINE r == Run(v)
<1> DEFINE A == artifacts[Run(v)]
<1> DEFINE d == SafetyReview(task[v].draft)
<1> DEFINE q == <<Store("evidence_safety_review", d), Progress>>
<1>1. /\ ~Idle(v) /\ r = task[v].run
      /\ Gate(r, A, << >>, task[v].stage) /\ LabelGood(A, << >>, "review", task[v])
      /\ r \in AgentRuns
  BY GoodAt DEF ReviewDraft, LabelGood
<1>2. StoreGood(A, r, "evidence_safety_review")
  BY <1>1 DEF StoreGood, AgentNames, RevisionNames
<1>3. CallsGood(A, q, "verdict", r)
  BY <1>2, StoreLists
<1>4. Held(A, q, "evidence_safety_review", d)
  <2>1. 1 \in DOMAIN q /\ q[1] = Store("evidence_safety_review", d)
    OBVIOUS
  <2> QED BY <2>1 DEF Held
<1>5. LabelGood(A, q, "verdict", task[v])
  BY <1>1, <1>4 DEF LabelGood, Held
<1>6. Good(A, q, "verdict", task[v])
  BY <1>1, <1>3, <1>5 DEF Good
<1>7. Continue(v, q, "verdict") /\ UNCHANGED task
  BY DEF ReviewDraft
<1> QED BY <1>1, <1>6, <1>7, ContinueGoodSame

\* A draft that is sent back leaves its own trace: the first one stays pinned.
LEMMA VerdictGood ==
  ASSUME TypeInv, NEW v \in Workers, WorkerGood(v), Verdict(v)
  PROVE  WorkerGood(v)'
<1> DEFINE r == Run(v)
<1> DEFINE A == artifacts[Run(v)]
<1> DEFINE d == task[v].draft
<1>1. /\ ~Idle(v) /\ task[v] \in TaskType /\ r = task[v].run /\ A \in ArtifactsType
      /\ Gate(r, A, << >>, task[v].stage) /\ r \in AgentRuns /\ task[v].stage = "ACTION_DRAFTING"
      /\ task[v].attempt # 0 => Revised(A)
      /\ d \in Contents /\ A[DraftName(task[v].attempt)] = d
      /\ A["evidence_safety_review"] = SafetyReview(d)
      /\ task \in [Workers -> TaskType]
  <2>1. At(v, "verdict")
    BY DEF Verdict
  <2>2. /\ ~Idle(v) /\ task[v] \in TaskType /\ r = task[v].run /\ A \in ArtifactsType
        /\ Gate(r, A, << >>, task[v].stage) /\ LabelGood(A, << >>, "verdict", task[v])
    BY <2>1, GoodAt
  <2>3. \A n, c : Held(A, << >>, n, c) => A[n] = c
    BY DEF Held
  <2>4. task \in [Workers -> TaskType]
    BY DEF TypeInv, TypeOK, TaskType
  <2> HIDE DEF r, A
  <2> QED BY <2>2, <2>3, <2>4 DEF LabelGood
<1>2. CASE Passed(v)
  <2>1. StoreGood(A, r, "response_supervisor_run")
    BY <1>1 DEF StoreGood, AgentNames, RevisionNames
  <2>2. PICK q : q \in {<< >>, <<Store("response_supervisor_run", d)>>} /\ Continue(v, q, "drafted")
    BY <1>2 DEF Passed
  <2>3. CallsGood(A, q, "drafted", r)
    BY <2>1, <2>2, StoreLists, ListsGood
  <2>4. LabelGood(A, q, "drafted", task[v])
    BY <1>1, <1>2 DEF LabelGood, Passed
  <2>5. Good(A, q, "drafted", task[v])
    BY <1>1, <2>3, <2>4 DEF Good
  <2> QED BY <1>1, <1>2, <2>2, <2>5, ContinueGoodSame DEF Passed
<1>3. CASE Exhausted(v)
  <2>1. CallsGood(A, <<Move("BLOCKED")>>, "loop", r)
    BY <1>1, EasyGates, ListsGood
  <2>2. Good(A, <<Move("BLOCKED")>>, "loop", task[v])
    BY <1>1, <2>1, LoopGood
  <2> QED BY <1>1, <1>3, <2>2, ContinueGoodSame DEF Exhausted
<1>4. CASE RevisionRequested(v)
  <2> DEFINE t == [task[v] EXCEPT !.attempt = @ + 1]
  <2>1. d.result \in {"REVISE1", "REVISE2"} /\ task[v].attempt < 2 /\ task[v].attempt \in 0..2
    BY <1>1, <1>4 DEF RevisionRequested, TaskType, Attempts
  <2>2. task[v].attempt + 1 \in Attempts
    BY <2>1 DEF Attempts
  <2>3. t \in TaskType /\ t.run = r /\ t.stage = task[v].stage
    BY <1>1, <2>2 DEF TaskType
  <2>4. Continue(v, <<Progress>>, "draft") /\ task' = [task EXCEPT ![v] = t]
    BY <1>1, <1>4 DEF RevisionRequested
  <2>5. Revised(A)
    <3>1. CASE task[v].attempt = 0
      <4>1. A["response_supervisor_run"] = d
        BY <1>1, <3>1 DEF DraftName
      <4> QED BY <1>1, <2>1, <4>1 DEF Revised
    <3> QED BY <1>1, <3>1
  <2> HIDE DEF t
  <2>6. LabelGood(A, <<Progress>>, "draft", t)
    BY <1>1, <2>3, <2>5 DEF LabelGood
  <2>7. Good(A, <<Progress>>, "draft", t)
    BY <1>1, <2>3, <2>6, ListsGood DEF Good
  <2> QED BY <1>1, <2>3, <2>4, <2>7, ContinueGood
<1> QED BY <1>2, <1>3, <1>4 DEF Verdict

\* Only a draft that passed moves on, and it is the one that is stored.
LEMMA FinishGood ==
  ASSUME TypeInv, NEW v \in Workers, WorkerGood(v), FinishDraft(v)
  PROVE  WorkerGood(v)'
<1> DEFINE r == Run(v)
<1> DEFINE A == artifacts[Run(v)]
<1> DEFINE d == task[v].draft
<1> DEFINE s == IF d.result = "failed" THEN "BLOCKED" ELSE "EVIDENCE_VERIFICATION"
<1> DEFINE q == <<Store("response_supervisor_run", d), Progress, Move(s)>>
<1>1. /\ ~Idle(v) /\ r = task[v].run /\ A \in ArtifactsType
      /\ Gate(r, A, << >>, task[v].stage) /\ r \in AgentRuns /\ task[v].stage = "ACTION_DRAFTING"
      /\ d \in Contents
      /\ d.result = "failed" \/ (d.result = "PASS" /\ A["evidence_safety_review"] = SafetyReview(d))
  BY GoodAt DEF FinishDraft, LabelGood
<1>2. Held(A, q, "response_supervisor_run", d)
  <2>1. 1 \in DOMAIN q /\ q[1] = Store("response_supervisor_run", d)
    OBVIOUS
  <2> QED BY <2>1 DEF Held
<1>3. Gate(r, A, q, s)
  <2>1. CASE d.result = "failed"
    BY <1>1, <2>1, EasyGates
  <2>2. CASE d.result # "failed"
    <3>1. Approved(A, q)
      BY <1>1, <1>2, <2>2 DEF Approved
    <3>2. AgentGate(A, q, "ACTION_DRAFTING")
      BY <1>1, EasyGates DEF Gate
    <3>3. Analyzed(A, q)
      BY <3>2 DEF AgentGate
    <3> HIDE DEF q
    <3> QED BY <1>1, <2>2, <3>1, <3>3 DEF Gate, AgentGate
  <2> QED BY <2>1, <2>2
<1>4. StoreGood(A, r, "response_supervisor_run")
  BY <1>1 DEF StoreGood, AgentNames, RevisionNames
<1>5. CallsGood(A, q, "loop", r)
  BY <1>3, <1>4, MoveLists
<1>6. Good(A, q, "loop", task[v])
  BY <1>1, <1>5, LoopGood
<1>7. Continue(v, q, "loop") /\ UNCHANGED task
  BY DEF FinishDraft
<1> QED BY <1>1, <1>6, <1>7, ContinueGoodSame

LEMMA EvaluateGood ==
  ASSUME TypeInv, NEW v \in Workers, WorkerGood(v), EvaluateResponseSupervisor(v)
  PROVE  WorkerGood(v)'
<1> DEFINE r == Run(v)
<1> DEFINE A == artifacts[Run(v)]
<1> DEFINE c == Evaluation(task[v].claim)
<1> DEFINE q == <<Progress, Store("agent_evaluation", c), Move("AWAITING_HUMAN_REVIEW")>>
<1>1. /\ ~Idle(v) /\ r = task[v].run /\ A \in ArtifactsType /\ task[v] \in TaskType
      /\ Gate(r, A, << >>, task[v].stage) /\ r \in AgentRuns
      /\ task[v].stage = "EVIDENCE_VERIFICATION"
  BY GoodAt DEF EvaluateResponseSupervisor, Advancing, Agent
<1>2. c \in Contents
  BY <1>1, ArtifactTypes DEF TaskType
<1>3. Held(A, q, "agent_evaluation", c)
  <2>1. 2 \in DOMAIN q /\ q[2] = Store("agent_evaluation", c)
    OBVIOUS
  <2> QED BY <2>1 DEF Held
<1> HIDE DEF c
<1>4. HeldSome(A, q, "agent_evaluation")
  BY <1>2, <1>3 DEF HeldSome
<1>5. AgentGate(A, q, "EVIDENCE_VERIFICATION")
  BY <1>1, EasyGates DEF Gate
<1>6. Gate(r, A, q, "AWAITING_HUMAN_REVIEW")
  <2> HIDE DEF q
  <2> QED BY <1>1, <1>4, <1>5 DEF Gate, AgentGate
<1>7. StoreGood(A, r, "agent_evaluation")
  BY <1>1 DEF StoreGood, AgentNames, RevisionNames
<1>8. CallsGood(A, q, "loop", r)
  BY <1>6, <1>7, MoveLists
<1>9. Good(A, q, "loop", task[v])
  BY <1>1, <1>8, LoopGood
<1>10. Fail(v) \/ (Continue(v, q, "loop") /\ UNCHANGED task)
  BY DEF EvaluateResponseSupervisor, c
<1> QED BY <1>1, <1>9, <1>10, ContinueGoodSame, FailGood

(***************************************************************************)
(* So does the baseline                                                    *)
(***************************************************************************)
LEMMA AdvanceBaselineGood ==
  ASSUME TypeInv, NEW v \in Workers, WorkerGood(v), AdvanceBaseline(v)
  PROVE  WorkerGood(v)'
<1> DEFINE r == Run(v)
<1> DEFINE A == artifacts[Run(v)]
<1> DEFINE s == BaselineMoves[task[v].stage]
<1>1. /\ ~Idle(v) /\ r = task[v].run /\ A \in ArtifactsType
      /\ Gate(r, A, << >>, task[v].stage) /\ r \notin AgentRuns
  BY GoodAt DEF AdvanceBaseline, Baseline
<1>2. s \in {"SOURCE_CHECK", "VERIFIED", "DATA_SNAPSHOT", "IMPACT_ANALYSIS", "ACTION_DRAFTING"}
  BY DEF AdvanceBaseline, BaselineMoves
<1>3. Continue(v, <<Move(s)>>, "loop") /\ UNCHANGED task
  BY DEF AdvanceBaseline
<1> HIDE DEF s
<1>4. CallsGood(A, <<Move(s)>>, "loop", r)
  BY <1>1, <1>2, EasyGates, ListsGood
<1>5. Good(A, <<Move(s)>>, "loop", task[v])
  BY <1>1, <1>4, LoopGood
<1> QED BY <1>1, <1>3, <1>5, ContinueGoodSame

LEMMA ExecuteBaselineGood ==
  ASSUME TypeInv, NEW v \in Workers, WorkerGood(v), ExecuteBaseline(v)
  PROVE  WorkerGood(v)'
<1> DEFINE r == Run(v)
<1> DEFINE A == artifacts[Run(v)]
<1>1. /\ ~Idle(v) /\ r = task[v].run /\ A \in ArtifactsType /\ task[v] \in TaskType
      /\ Gate(r, A, << >>, task[v].stage) /\ r \notin AgentRuns
  BY GoodAt DEF ExecuteBaseline, Baseline, Advancing
<1>2. PICK outcome \in BaselineOutcomes :
        Continue(v,
          <<Store("baseline_run", BaselineRun(task[v].claim, outcome))>> \o
          IF outcome = "completed"
          THEN <<Move("EVIDENCE_VERIFICATION")>>
          ELSE <<Store("baseline_evaluation", Evaluation(task[v].claim)), Move("BLOCKED")>>,
          "loop")
  BY DEF ExecuteBaseline
<1> DEFINE c == BaselineRun(task[v].claim, outcome)
<1> DEFINE e == Evaluation(task[v].claim)
<1>3. c \in Contents /\ c.result = outcome
  BY <1>1, OutcomesAssumption, ArtifactTypes DEF TaskType, BaselineRun
<1>4. StoreGood(A, r, "baseline_run") /\ StoreGood(A, r, "baseline_evaluation")
  BY <1>1 DEF StoreGood, BaselineNames, RevisionNames
<1>5. UNCHANGED task
  BY DEF ExecuteBaseline
<1> HIDE DEF c, e
<1>6. CASE outcome = "completed"
  <2> DEFINE q == <<Store("baseline_run", c), Move("EVIDENCE_VERIFICATION")>>
  <2>1. Continue(v, q, "loop")
    <3>1. q = <<Store("baseline_run", c)>> \o <<Move("EVIDENCE_VERIFICATION")>>
      OBVIOUS
    <3> QED BY <1>2, <1>6, <3>1 DEF c
  <2>2. Held(A, q, "baseline_run", c)
    <3>1. 1 \in DOMAIN q /\ q[1] = Store("baseline_run", c)
      OBVIOUS
    <3> QED BY <3>1 DEF Held
  <2>3. Gate(r, A, q, "EVIDENCE_VERIFICATION")
    <3> HIDE DEF q
    <3> QED BY <1>1, <1>3, <1>6, <2>2 DEF Gate, BaselineGate
  <2>4. CallsGood(A, q, "loop", r)
    BY <1>4, <2>3, MoveLists
  <2>5. Good(A, q, "loop", task[v])
    BY <1>1, <2>4, LoopGood
  <2> QED BY <1>1, <1>5, <2>1, <2>5, ContinueGoodSame
<1>7. CASE outcome # "completed"
  <2> DEFINE q == <<Store("baseline_run", c), Store("baseline_evaluation", e), Move("BLOCKED")>>
  <2>1. Continue(v, q, "loop")
    <3>1. q = <<Store("baseline_run", c)>> \o <<Store("baseline_evaluation", e), Move("BLOCKED")>>
      OBVIOUS
    <3> QED BY <1>2, <1>7, <3>1 DEF c, e
  <2>2. Gate(r, A, q, "BLOCKED")
    BY <1>1, EasyGates
  <2>3. CallsGood(A, q, "loop", r)
    BY <1>4, <2>2, MoveLists
  <2>4. Good(A, q, "loop", task[v])
    BY <1>1, <2>3, LoopGood
  <2> QED BY <1>1, <1>5, <2>1, <2>4, ContinueGoodSame
<1> QED BY <1>6, <1>7

LEMMA BaselineEvaluationGood ==
  ASSUME TypeInv, NEW v \in Workers, WorkerGood(v), WriteBaselineEvaluation(v)
  PROVE  WorkerGood(v)'
<1> DEFINE r == Run(v)
<1> DEFINE A == artifacts[Run(v)]
<1> DEFINE c == Evaluation(task[v].claim)
<1> DEFINE q == <<Store("baseline_evaluation", c), Move("AWAITING_HUMAN_REVIEW")>>
<1>1. /\ ~Idle(v) /\ r = task[v].run /\ A \in ArtifactsType /\ task[v] \in TaskType
      /\ Gate(r, A, << >>, task[v].stage) /\ r \notin AgentRuns
      /\ task[v].stage = "EVIDENCE_VERIFICATION"
  BY GoodAt DEF WriteBaselineEvaluation, Baseline, Advancing
<1>2. c \in Contents
  BY <1>1, ArtifactTypes DEF TaskType
<1>3. Held(A, q, "baseline_evaluation", c)
  <2>1. 1 \in DOMAIN q /\ q[1] = Store("baseline_evaluation", c)
    OBVIOUS
  <2> QED BY <2>1 DEF Held
<1>10. Fail(v) \/ (Continue(v, q, "loop") /\ UNCHANGED task)
  BY DEF WriteBaselineEvaluation
<1> HIDE DEF c
<1>4. HeldSome(A, q, "baseline_evaluation")
  BY <1>2, <1>3 DEF HeldSome
<1>5. BaselineGate(A, q, "EVIDENCE_VERIFICATION")
  BY <1>1, EasyGates DEF Gate
<1>6. Gate(r, A, q, "AWAITING_HUMAN_REVIEW")
  <2> HIDE DEF q
  <2> QED BY <1>1, <1>4, <1>5 DEF Gate, BaselineGate
<1>7. StoreGood(A, r, "baseline_evaluation")
  BY <1>1 DEF StoreGood, BaselineNames, RevisionNames
<1>8. CallsGood(A, q, "loop", r)
  BY <1>6, <1>7, MoveLists
<1>9. Good(A, q, "loop", task[v])
  BY <1>1, <1>8, LoopGood
<1> QED BY <1>1, <1>9, <1>10, ContinueGoodSame, FailGood

(***************************************************************************)
(* So do the loop, the repository calls and everybody else                 *)
(***************************************************************************)
LEMMA ControlGood ==
  ASSUME TypeInv, RunsGood, NEW v \in Workers, WorkerGood(v), Control(v)
  PROVE  WorkerGood(v)'
<1> DEFINE A == artifacts[Run(v)]
<1>0. /\ pc \in [Workers -> Labels] /\ calls \in [Workers -> Seq(Calls)] /\ task \in [Workers -> TaskType]
  BY DEF TypeInv, TypeOK, TaskType
<1>1. CASE ClaimRun(v)
  <2>1. PICK r \in Runs : LeaseNextRun(v, r) /\ task' = [task EXCEPT ![v] = NewTask(r)]
    BY <1>1 DEF ClaimRun
  <2>2. /\ task'[v].run = r /\ task'[v].stage = state[r] /\ artifacts' = artifacts
        /\ pc'[v] = "loop" /\ calls'[v] = << >>
    BY <1>0, <1>1, <2>1 DEF ClaimRun, At, LeaseNextRun, NewTask
  <2>3. CallsGood(artifacts[r], << >>, "loop", r)
    BY ListsGood
  <2>4. Gate(r, artifacts[r], << >>, state[r])
    BY DEF RunsGood
  <2>5. Good(artifacts[r], << >>, "loop", task'[v])
    BY <2>2, <2>3, <2>4, LoopGood
  <2> QED BY <2>2, <2>5 DEF WorkerGood, Run
<1>2. ASSUME NEW l \in {"loop", "failed", "finally"}, At(v, l)
      PROVE  /\ ~Idle(v) /\ task[v] \in TaskType /\ task[v].run = Run(v) /\ A \in ArtifactsType
             /\ Gate(Run(v), A, << >>, task[v].stage)
  BY <1>2, GoodAt
<1>3. CASE Loop(v)
  <2>1. PICK q, l : /\ Continue(v, q, l)
                    /\ (q = << >> /\ l = "finally") \/ (q = <<Renew>> /\ l = "advance")
    BY <1>3 DEF Loop
  <2>2. CallsGood(A, q, l, Run(v))
    BY <2>1, ListsGood
  <2>3. LabelGood(A, q, l, task[v])
    BY <2>1 DEF LabelGood
  <2>4. At(v, "loop") /\ UNCHANGED task
    BY <1>3 DEF Loop
  <2>5. Good(A, q, l, task[v])
    BY <1>2, <2>2, <2>3, <2>4 DEF Good
  <2> QED BY <1>2, <2>1, <2>4, <2>5, ContinueGoodSame
<1>4. CASE HandleError(v)
  <2>0. At(v, "failed")
    BY <1>4 DEF HandleError
  <2>1. ASSUME NEW t \in TaskType, t.run = Run(v), t.stage = task[v].stage,
               NEW q, q \in {<< >>, <<Move("BLOCKED")>>}
        PROVE  Good(A, q, "finally", t)
    <3>1. CallsGood(A, << >>, "finally", Run(v))
      BY ListsGood
    <3>2. CallsGood(A, <<Move("BLOCKED")>>, "finally", Run(v))
      BY <1>2, <2>0, EasyGates, ListsGood
    <3>3. LabelGood(A, q, "finally", t)
      BY DEF LabelGood
    <3> QED BY <1>2, <2>0, <2>1, <3>1, <3>2, <3>3 DEF Good
  <2>2. CASE task' = [task EXCEPT ![v].doomed = TRUE] /\ Continue(v, << >>, "finally")
    <3> DEFINE t == [task[v] EXCEPT !.doomed = TRUE]
    <3>1. t \in TaskType /\ t.run = Run(v) /\ t.stage = task[v].stage /\ task' = [task EXCEPT ![v] = t]
      BY <1>0, <1>2, <2>0, <2>2 DEF TaskType
    <3> HIDE DEF t
    <3>2. Good(A, << >>, "finally", t)
      BY <2>1, <3>1
    <3> QED BY <1>2, <2>0, <2>2, <3>1, <3>2, ContinueGood
  <2>3. CASE UNCHANGED task /\ Continue(v, <<Move("BLOCKED")>>, "finally")
    <3>1. Good(A, <<Move("BLOCKED")>>, "finally", task[v])
      BY <1>2, <2>0, <2>1
    <3> QED BY <1>2, <2>0, <2>3, <3>1, ContinueGoodSame
  <2> QED BY <1>4, <2>2, <2>3 DEF HandleError
<1>5. CASE Finally(v)
  <2>1. PICK q : Continue(v, q, "exit") /\ q \in {<< >>, <<Release>>}
    BY <1>5 DEF Finally
  <2>2. CallsGood(A, q, "exit", Run(v))
    BY <2>1, ListsGood
  <2>3. LabelGood(A, q, "exit", task[v])
    BY DEF LabelGood
  <2>4. At(v, "finally") /\ UNCHANGED task
    BY <1>5 DEF Finally
  <2>5. Good(A, q, "exit", task[v])
    BY <1>2, <2>2, <2>3, <2>4 DEF Good
  <2> QED BY <1>2, <2>1, <2>4, <2>5, ContinueGoodSame
<1>6. CASE Return(v)
  <2>1. ~Idle(v) /\ UNCHANGED storeVars /\ \E l \in {"idle", "dead"} : Stop(v, l)
    BY <1>6 DEF Return, At, Idle
  <2> QED BY <2>1, RaiseGood
<1> QED BY <1>1, <1>3, <1>4, <1>5, <1>6 DEF Control

\* A call that is done, with its artifact if it was a store.
LEMMA DoneGood ==
  ASSUME TypeInv, NEW v \in Workers, WorkerGood(v), calls[v] # << >>,
         calls' = [calls EXCEPT ![v] = Tail(@)], UNCHANGED <<pc, task>>,
         artifacts'[Run(v)] \in ArtifactsType, Keeps(artifacts[Run(v)], artifacts'[Run(v)]),
         Call(v).op = "store" => artifacts'[Run(v)][Call(v).name] = Call(v).content
  PROVE  WorkerGood(v)'
<1>1. /\ ~Idle(v) /\ artifacts[Run(v)] \in ArtifactsType /\ task[v] \in TaskType
      /\ calls \in [Workers -> Seq(Calls)]
  BY DEF TypeInv, TypeOK, Working, WorkingAt, ArtifactsType, TaskType
<1>2. Good(artifacts[Run(v)], calls[v], pc[v], task[v])
  BY <1>1 DEF WorkerGood
<1>3. Good(artifacts'[Run(v)], Tail(calls[v]), pc[v], task[v])
  BY <1>1, <1>2, GoodTail DEF Call
<1>4. calls'[v] = Tail(calls[v])
  BY <1>1
<1> QED BY <1>3, <1>4 DEF WorkerGood, Run

LEMMA RepositoryGood ==
  ASSUME TypeInv, TypeInv', [Next]_vars, NEW v \in Workers, WorkerGood(v), Repository(v)
  PROVE  WorkerGood(v)'
<1>0. /\ calls[v] # << >> /\ calls \in [Workers -> Seq(Calls)] /\ task \in [Workers -> TaskType]
      /\ ~Idle(v) /\ Run(v) \in Runs
  <2>1. calls[v] # << >>
    BY DEF Repository, Check, CheckStore, CommitRenew, CommitRelease, CommitTransition,
           CommitProgress, CommitStore, Committing, Guarded, Calling
  <2> QED BY <2>1 DEF TypeInv, TypeOK, Working, WorkingAt, TaskType
<1>1. artifacts[Run(v)] \in ArtifactsType /\ artifacts'[Run(v)] \in ArtifactsType
  BY <1>0 DEF TypeInv, TypeOK, ArtifactsType
<1>2. Keeps(artifacts[Run(v)], artifacts'[Run(v)])
  BY <1>0, PinsStay DEF Keeps
<1>3. CASE Raise(v) /\ UNCHANGED storeVars
  BY <1>0, <1>3, RaiseGood
<1>4. CASE Begin(v) /\ UNCHANGED storeVars
  BY <1>4 DEF Begin, storeVars, WorkerGood, Idle, Run
<1>5. CASE EndCall(v) /\ UNCHANGED task /\ Call(v).op # "store"
  BY <1>0, <1>1, <1>2, <1>5, DoneGood DEF EndCall
<1>6. CASE Check(v)
  BY <1>3, <1>4, <1>6 DEF Check
<1>7. CASE CheckStore(v)
  <2>1. UNCHANGED storeVars /\ artifacts' = artifacts
    BY <1>7 DEF CheckStore, storeVars
  <2>2. CASE /\ Stored(v, Call(v).name) = Call(v).content
             /\ calls' = [calls EXCEPT ![v] = Tail(@)]
             /\ UNCHANGED <<pc, task, txn>>
    <3>1. artifacts'[Run(v)][Call(v).name] = Call(v).content
      BY <2>1, <2>2 DEF Stored
    <3> QED BY <1>0, <1>1, <1>2, <2>2, <3>1, DoneGood
  <2> QED BY <1>3, <1>4, <1>7, <2>1, <2>2 DEF CheckStore
<1>8. CASE CommitRenew(v) \/ CommitRelease(v)
  BY <1>5, <1>8 DEF CommitRenew, CommitRelease, Committing
<1>9. CASE CommitProgress(v)
  BY <1>3, <1>5, <1>9 DEF CommitProgress, Committing
<1>10. CASE CommitStore(v)
  <2>1. CASE StoreArtifact(Run(v), Call(v).name, Call(v).content) /\ EndCall(v) /\ UNCHANGED task
    <3>1. Call(v).op = "store" /\ Call(v).name \in Names
      <4>1. Call(v).op = "store" /\ Call(v) \in Calls
        BY <1>0, <1>10, TailType DEF CommitStore, Committing, Call
      <4> QED BY <4>1 DEF Calls, Renew, Progress, Release
    <3>2. artifacts'[Run(v)][Call(v).name] = Call(v).content
      BY <1>0, <2>1, <3>1 DEF StoreArtifact, TypeInv, TypeOK
    <3> QED BY <1>0, <1>1, <1>2, <2>1, <3>2, DoneGood DEF EndCall
  <2> QED BY <1>3, <1>10, <2>1 DEF CommitStore
<1>11. CASE CommitTransition(v)
  <2>1. /\ Call(v).op = "transition" /\ artifacts' = artifacts /\ pc' = pc
        /\ calls'[v] = Tail(calls[v]) /\ task'[v] = [task[v] EXCEPT !.stage = Head(calls[v]).to]
    BY <1>0, <1>11 DEF CommitTransition, Committing, Transition, EndCall, Call
  <2>2. Good(artifacts[Run(v)], calls[v], pc[v], task[v]) /\ task[v] \in TaskType
    BY <1>0 DEF WorkerGood
  <2>3. Good(artifacts[Run(v)], Tail(calls[v]), pc[v], [task[v] EXCEPT !.stage = Head(calls[v]).to])
    BY <1>0, <1>1, <2>1, <2>2, GoodMoved DEF Call
  <2>4. task'[v].run = task[v].run
    BY <1>0, <2>1 DEF TaskType
  <2> QED BY <2>1, <2>3, <2>4 DEF WorkerGood, Run
<1> QED BY <1>6, <1>7, <1>8, <1>9, <1>10, <1>11 DEF Repository

\* A worker that does not move is good as long as nothing pinned changes.
LEMMA OthersGood ==
  ASSUME TypeInv, TypeInv', [Next]_vars, NEW w \in Workers, WorkerGood(w),
         pc'[w] = pc[w], task'[w] = task[w], calls'[w] = calls[w]
  PROVE  WorkerGood(w)'
<1>1. SUFFICES ASSUME ~Idle(w) PROVE Good(artifacts'[Run(w)], calls[w], pc[w], task[w])
  BY DEF WorkerGood, Idle, Run
<1>2. /\ Run(w) \in Runs /\ artifacts[Run(w)] \in ArtifactsType /\ artifacts'[Run(w)] \in ArtifactsType
      /\ task[w] \in TaskType
  BY <1>1 DEF TypeInv, TypeOK, Working, WorkingAt, ArtifactsType, TaskType
<1>3. Keeps(artifacts[Run(w)], artifacts'[Run(w)])
  BY <1>2, PinsStay DEF Keeps
<1> QED BY <1>1, <1>2, <1>3, GoodMono DEF WorkerGood

\* A run enters a state by a transition whose gate is open.
LEMMA NextRunsGood ==
  ASSUME TypeInv, TypeInv', RecordInv, [Next]_vars
  PROVE  RunsGood'
<1> SUFFICES ASSUME NEW r \in Runs PROVE Gate(r, artifacts'[r], << >>, state'[r])
  BY DEF RunsGood
<1>1. artifacts[r] \in ArtifactsType /\ artifacts'[r] \in ArtifactsType
  BY DEF TypeInv, TypeOK, ArtifactsType
<1>2. Keeps(artifacts[r], artifacts'[r])
  BY PinsStay DEF Keeps
<1>3. Left(<< >>, << >>, artifacts'[r])
  BY DEF Left
<1>4. \A s : Gate(r, artifacts[r], << >>, s) => Gate(r, artifacts'[r], << >>, s)
  BY <1>1, <1>2, <1>3, GateMono
<1>5. CASE state'[r] = state[r]
  BY <1>4, <1>5 DEF RecordInv, RunsGood
<1>6. CASE state'[r] # state[r] /\ state[r] # "none"
  <2>1. PICK v \in Workers : CommitTransition(v) /\ Run(v) = r
    BY <1>6, StateSteps
  <2>2. calls[v] # << >> /\ Head(calls[v]).op = "transition" /\ state'[r] = Head(calls[v]).to
    BY <2>1 DEF CommitTransition, Committing, Calling, Transition, Call, TypeInv, TypeOK
  <2>3. ~Idle(v) /\ task[v] \in TaskType /\ calls[v] \in Seq(Calls)
    BY <2>2 DEF TypeInv, TypeOK, Working, WorkingAt, TaskType
  <2>4. Good(artifacts[r], calls[v], pc[v], task[v])
    BY <2>1, <2>3 DEF RecordInv, WorkerGood
  <2>5. Gate(r, artifacts[r], << >>, Head(calls[v]).to)
    BY <1>1, <2>1, <2>2, <2>3, <2>4, GoodMoved DEF Run
  <2> QED BY <1>4, <2>2, <2>5
<1>7. CASE state'[r] # state[r] /\ state[r] = "none"
  <2>1. CASE AcceptRun
    <3>1. state'[r] = "RECEIVED"
      BY <1>7, <2>1 DEF AcceptRun, CreateRun, TypeInv, TypeOK
    <3> QED BY <1>1, <3>1, EasyGates
  <2>2. ASSUME NEW v \in Workers, Work(v) \/ Fault(v) \/ Crash(v) PROVE FALSE
    <3>1. CommitTransition(v)
      BY <1>7, <2>2, RecordSteps DEF Storing, StoreArtifact
    <3>2. Run(v) = r
      BY <1>7, <3>1 DEF CommitTransition, Transition, TypeInv, TypeOK
    <3>3. ~Idle(v)
      BY <3>1 DEF CommitTransition, Committing, Calling, TypeInv, Working, WorkingAt
    <3> QED BY <1>7, <3>2, <3>3 DEF TypeInv, Working, WorkingAt
  <2> QED BY <1>7, <2>1, <2>2 DEF Next, Tick, Elapse, vars, storeVars
<1> QED BY <1>5, <1>6, <1>7

\* The worker that makes the step.
LEMMA WorkGood ==
  ASSUME TypeInv, TypeInv', RecordInv, [Next]_vars, NEW v \in Workers,
         Work(v) \/ Fault(v) \/ Crash(v)
  PROVE  WorkerGood(v)'
<1>0. WorkerGood(v) /\ RunsGood
  BY DEF RecordInv
<1>1. CASE AgentStep(v)
  BY <1>0, <1>1, EarlyStagesGood, RetrieveGood, AnalyzeGood, SuperviseGood, DraftGood,
     ReviewGood, VerdictGood, FinishGood, EvaluateGood DEF AgentStep
<1>2. CASE BaselineStep(v)
  BY <1>0, <1>2, AdvanceBaselineGood, ExecuteBaselineGood, BaselineEvaluationGood DEF BaselineStep
<1>3. CASE Control(v)
  BY <1>0, <1>3, ControlGood
<1>4. CASE Repository(v)
  BY <1>0, <1>4, RepositoryGood
<1>5. CASE Fault(v)
  <2>1. ~Idle(v)
    BY <1>5 DEF Fault, At, Calling, Idle, TypeInv, Working, WorkingAt
  <2> QED BY <1>0, <1>5, <2>1, RaiseGood DEF Fault
<1>6. CASE Crash(v)
  <2>1. CASE Idle(v)
    <3>1. pc'[v] = "dead"
      BY <1>6 DEF Crash, Stop, Unwind, TypeInv, TypeOK
    <3> QED BY <3>1 DEF WorkerGood, Idle
  <2> QED BY <1>0, <1>6, <2>1, RaiseGood DEF Crash
<1> QED BY <1>1, <1>2, <1>3, <1>4, <1>5, <1>6 DEF Work

\* A step of a worker is a step of that worker alone.
LEMMA StepOthers ==
  ASSUME TypeInv, NEW v \in Workers, Work(v) \/ Fault(v) \/ Crash(v), NEW w \in Workers, w # v
  PROVE  pc'[w] = pc[w] /\ task'[w] = task[w] /\ calls'[w] = calls[w]
<1>0. pc \in [Workers -> Labels]
  BY DEF TypeInv, TypeOK
<1>1. SUFFICES pc'[w] = pc[w]
  BY WorkerLocal DEF Local
<1>2. ASSUME UNCHANGED pc \/ \E l : pc' = [pc EXCEPT ![v] = l]
      PROVE  pc'[w] = pc[w]
  BY <1>0, <1>2
<1>3. Raise(v) => pc'[w] = pc[w]
  BY <1>2 DEF Raise, Unwind, Stop
<1>4. \A l : Stop(v, l) => pc'[w] = pc[w]
  BY <1>2 DEF Unwind, Stop
<1>5. \A q, l : Continue(v, q, l) => pc'[w] = pc[w]
  BY <1>2 DEF Continue
<1>6. CASE Fault(v) \/ Crash(v)
  BY <1>3, <1>4, <1>6 DEF Fault, Crash
<1>7. CASE AgentStep(v)
  BY <1>3, <1>5, <1>7
  DEF AgentStep, AcceptAgentRun, VerifyAgentSources, RetrieveSources, PinSnapshot,
      StartImpactAnalysis, AnalyzeImpacts, ExecuteResponseSupervisor, DraftResponse,
      ReviewDraft, Verdict, Passed, Exhausted, RevisionRequested, FinishDraft,
      EvaluateResponseSupervisor, Fail
<1>8. CASE BaselineStep(v)
  BY <1>3, <1>5, <1>8
  DEF BaselineStep, AdvanceBaseline, ExecuteBaseline, WriteBaselineEvaluation, Fail
<1>9. CASE Control(v)
  <2>1. CASE ClaimRun(v)
    BY <1>0, <2>1 DEF ClaimRun
  <2>2. CASE Loop(v) \/ HandleError(v) \/ Finally(v) \/ Return(v)
    BY <1>4, <1>5, <2>2 DEF Loop, HandleError, Finally, Return
  <2> QED BY <1>9, <2>1, <2>2 DEF Control
<1>10. CASE Repository(v)
  BY <1>3, <1>10
  DEF Repository, Check, CheckStore, CommitRenew, CommitRelease, CommitTransition,
      CommitProgress, CommitStore, Begin, EndCall
<1> QED BY <1>6, <1>7, <1>8, <1>9, <1>10 DEF Work

LEMMA NextRecord ==
  ASSUME TypeInv, TypeInv', RecordInv, [Next]_vars
  PROVE  RecordInv'
<1>1. ASSUME NEW w \in Workers PROVE WorkerGood(w)'
  <2>0. WorkerGood(w)
    BY DEF RecordInv
  <2>1. CASE UNCHANGED workerVars
    BY <2>0, <2>1, OthersGood DEF workerVars
  <2>2. ASSUME NEW v \in Workers, Work(v) \/ Fault(v) \/ Crash(v)
        PROVE  WorkerGood(w)'
    <3>1. CASE w = v
      BY <2>2, <3>1, WorkGood
    <3>2. CASE w # v
      BY <2>0, <2>2, <3>2, OthersGood, StepOthers
    <3> QED BY <3>1, <3>2
  <2> QED BY <2>1, <2>2 DEF Next, AcceptRun, Tick, vars
<1> QED BY <1>1, NextRunsGood DEF RecordInv

LEMMA InitRecord == Init => RecordInv
<1> SUFFICES ASSUME Init PROVE RecordInv
  OBVIOUS
<1>1. \A w \in Workers : WorkerGood(w)
  BY DEF Init, WorkerGood, Idle
<1>2. ASSUME NEW r \in Runs PROVE Gate(r, artifacts[r], << >>, state[r])
  <2>1. state[r] = "none"
    BY DEF Init, StoreInit
  <2> QED BY <2>1 DEF Gate, AgentGate, BaselineGate
<1> QED BY <1>1, <1>2 DEF RecordInv, RunsGood

LEMMA RecordAlways == Spec => [](TypeInv /\ RecordInv)
<1>1. Init => TypeInv /\ RecordInv
  BY InitType, InitRecord
<1>2. TypeInv /\ RecordInv /\ [Next]_vars => (TypeInv /\ RecordInv)'
  BY NextType, NextRecord
<1> QED BY <1>1, <1>2, PTL DEF Spec

\* With no calls to make, what is held is pinned.
LEMMA HeldNow ==
  ASSUME NEW A, NEW n, NEW c, Held(A, << >>, n, c)
  PROVE  A[n] = c
  BY DEF Held

\* No agent run, whatever its workers' faults, gets past drafting on a draft
\* other than the one the stored safety review passed: at every point of the
\* pipeline the gate to the next state is over artifacts that are pinned, or
\* over stores the worker has to make before it asks for the transition.
THEOREM OnlyReviewedAdvance == Spec => []OnlyReviewedDraftsAdvance
<1>1. RecordInv => OnlyReviewedDraftsAdvance
  <2> SUFFICES ASSUME RecordInv, NEW r \in AgentRuns,
                      state[r] \in {"EVIDENCE_VERIFICATION", "AWAITING_HUMAN_REVIEW"}
               PROVE  /\ artifacts[r]["response_supervisor_run"] # NoArtifact
                      /\ artifacts[r]["response_supervisor_run"].result = "PASS"
                      /\ artifacts[r]["evidence_safety_review"] =
                           SafetyReview(artifacts[r]["response_supervisor_run"])
    BY DEF OnlyReviewedDraftsAdvance
  <2>1. Approved(artifacts[r], << >>)
    BY ModeAssumption DEF RecordInv, RunsGood, Gate, AgentGate
  <2>2. PICK d \in Contents : /\ d.result = "PASS"
                              /\ artifacts[r]["evidence_safety_review"] = SafetyReview(d)
                              /\ artifacts[r]["response_supervisor_run"] = d
    BY <2>1, HeldNow DEF Approved
  <2> QED BY <2>2, ArtifactAssumption
<1> QED BY <1>1, RecordAlways, PTL

\* A run that awaits review shows the complete record of its mode, and its
\* impacts were computed from the very evidence package that is pinned.
THEOREM RecordsComplete == Spec => []RecordComplete
<1>1. RecordInv => RecordComplete
  <2> SUFFICES ASSUME RecordInv, NEW r \in Runs, state[r] = "AWAITING_HUMAN_REVIEW"
               PROVE  LET has(n) == artifacts[r][n] # NoArtifact
                      IN  IF r \in AgentRuns
                          THEN /\ has("source_evidence_package") /\ has("agent_evaluation")
                               /\ artifacts[r]["impact_package"] =
                                    ImpactPackage(artifacts[r]["source_evidence_package"])
                               /\ artifacts[r]["source_evidence_package"].result # "conflicting"
                          ELSE /\ has("baseline_evaluation") /\ has("baseline_run")
                               /\ artifacts[r]["baseline_run"].result = "completed"
    BY DEF RecordComplete
  <2>0. Gate(r, artifacts[r], << >>, "AWAITING_HUMAN_REVIEW")
    BY DEF RecordInv, RunsGood
  <2>1. CASE r \in AgentRuns
    <3>1. /\ Analyzed(artifacts[r], << >>)
          /\ HeldSome(artifacts[r], << >>, "agent_evaluation")
      BY <2>0, <2>1 DEF Gate, AgentGate
    <3>2. PICK p \in Contents :
            /\ p.result # "conflicting"
            /\ artifacts[r]["source_evidence_package"] = p
            /\ artifacts[r]["impact_package"] = ImpactPackage(p)
      BY <3>1, HeldNow DEF Analyzed
    <3>3. artifacts[r]["agent_evaluation"] \in Contents
      BY <3>1, HeldNow DEF HeldSome
    <3> QED BY <2>1, <3>2, <3>3, ArtifactAssumption
  <2>2. CASE r \notin AgentRuns
    <3>1. /\ HeldSome(artifacts[r], << >>, "baseline_evaluation")
          /\ \E c \in Contents : c.result = "completed" /\ Held(artifacts[r], << >>, "baseline_run", c)
      BY <2>0, <2>2 DEF Gate, BaselineGate
    <3>2. PICK c \in Contents : c.result = "completed" /\ artifacts[r]["baseline_run"] = c
      BY <3>1, HeldNow
    <3>3. artifacts[r]["baseline_evaluation"] \in Contents
      BY <3>1, HeldNow DEF HeldSome
    <3> QED BY <2>2, <3>2, <3>3, ArtifactAssumption
  <2> QED BY <2>1, <2>2
<1> QED BY <1>1, RecordAlways, PTL

\* Every name a late worker could still store under is taken once the run awaits
\* review, except those of revisions, of which such a worker has none to make.
LEMMA NothingLeftToStore ==
  ASSUME TypeInv, RecordInv, NEW v \in Workers, Storing(v)
  PROVE  state[Run(v)] # "AWAITING_HUMAN_REVIEW"
<1> DEFINE r == Run(v)
           A == artifacts[r]
           n == Call(v).name
<1> SUFFICES ASSUME state[r] = "AWAITING_HUMAN_REVIEW" PROVE FALSE
  OBVIOUS
<1>1. r \in Runs /\ A[n] = NoArtifact
  BY StoringPins
<1>2. Gate(r, A, << >>, "AWAITING_HUMAN_REVIEW")
  BY <1>1 DEF RecordInv, RunsGood
<1>3. calls[v] # << >> /\ calls[v] \in Seq(Calls) /\ Call(v).op = "store" /\ ~Idle(v)
  BY DEF Storing, Committing, Calling, TypeInv, TypeOK, Working, WorkingAt
<1>4. CallsGood(A, calls[v], pc[v], r)
  BY <1>3 DEF RecordInv, WorkerGood, Good, Run
<1>5. 1 \in DOMAIN calls[v] /\ calls[v][1] = Call(v)
  BY <1>3 DEF Call
<1>6. /\ n \in IF r \in AgentRuns THEN AgentNames ELSE BaselineNames
      /\ n \in RevisionNames => Revised(A)
  BY <1>3, <1>4, <1>5 DEF CallsGood
<1> HIDE DEF r, A, n
<1>7. CASE r \in AgentRuns
  <2>1. /\ Analyzed(A, << >>) /\ Approved(A, << >>)
        /\ HeldSome(A, << >>, "agent_evaluation")
    BY <1>2, <1>7 DEF Gate, AgentGate
  <2>2. A["source_evidence_package"] \in Contents /\ A["impact_package"] \in Contents
    BY <2>1, HeldNow, ArtifactTypes DEF Analyzed
  <2>3. /\ A["evidence_safety_review"] \in Contents /\ A["response_supervisor_run"] \in Contents
        /\ A["response_supervisor_run"].result = "PASS"
    BY <2>1, HeldNow, ArtifactTypes DEF Approved
  <2>4. A["agent_evaluation"] \in Contents
    BY <2>1, HeldNow DEF HeldSome
  <2>5. n \notin RevisionNames
    BY <1>6, <2>3 DEF Revised
  <2>6. n \in {"source_evidence_package", "impact_package", "response_supervisor_run",
               "evidence_safety_review", "agent_evaluation"}
    BY <1>6, <1>7, <2>5 DEF AgentNames
  <2> QED BY <1>1, <2>2, <2>3, <2>4, <2>6, ArtifactAssumption
<1>8. CASE r \notin AgentRuns
  <2>1. /\ HeldSome(A, << >>, "baseline_evaluation")
        /\ \E c \in Contents : Held(A, << >>, "baseline_run", c)
    BY <1>2, <1>8 DEF Gate, BaselineGate
  <2>2. A["baseline_evaluation"] \in Contents /\ A["baseline_run"] \in Contents
    BY <2>1, HeldNow DEF HeldSome
  <2>3. n \in {"baseline_run", "baseline_evaluation"}
    BY <1>6, <1>8 DEF BaselineNames
  <2> QED BY <1>1, <2>2, <2>3, ArtifactAssumption
<1> QED BY <1>7, <1>8

\* What a reviewer is shown stays: also with workers suspended past their lease
\* in the middle of a store, nothing joins or leaves a run that awaits review.
THEOREM RecordFrozen == Spec => ReviewedRecordFrozen
<1>1. ASSUME TypeInv, RecordInv, [Next]_vars,
             NEW r \in Runs, state[r] = "AWAITING_HUMAN_REVIEW"
      PROVE  artifacts'[r] = artifacts[r]
  <2>1. CASE AcceptRun
    BY <2>1 DEF AcceptRun, CreateRun
  <2>2. CASE Tick
    BY <2>2 DEF Tick, Elapse
  <2>3. ASSUME NEW v \in Workers, Work(v) \/ Fault(v) \/ Crash(v)
        PROVE  artifacts'[r] = artifacts[r]
    <3>1. CASE Storing(v)
      <4>1. artifacts' = [artifacts EXCEPT ![Run(v)][Call(v).name] = Call(v).content]
        BY <3>1 DEF Storing, StoreArtifact
      <4>2. Run(v) # r
        BY <1>1, <3>1, NothingLeftToStore
      <4>3. artifacts \in [Runs -> [Names -> Contents \cup {NoArtifact}]]
        BY <1>1 DEF TypeInv, TypeOK
      <4> QED BY <4>1, <4>2, <4>3
    <3>2. CASE CommitTransition(v)
      BY <3>2 DEF CommitTransition, Transition
    <3> QED BY <2>3, <3>1, <3>2, RecordSteps
  <2>4. CASE UNCHANGED vars
    BY <2>4 DEF vars, storeVars
  <2> QED BY <1>1, <2>1, <2>2, <2>3, <2>4 DEF Next
<1>2. TypeInv /\ RecordInv /\ [Next]_vars =>
        [\A r \in Runs : state[r] = "AWAITING_HUMAN_REVIEW" => artifacts'[r] = artifacts[r]]_vars
  BY <1>1
<1> QED BY <1>2, RecordAlways, PTL DEF Spec, ReviewedRecordFrozen

(***************************************************************************)
(* What a run costs                                                        *)
(***************************************************************************)

\* The stage at which the code after the pending calls q will look at the run.
NextStage(q, t) == IF q # << >> /\ q[Len(q)].op = "transition" THEN q[Len(q)].to ELSE t.stage

UndraftedStages ==
  {"RECEIVED", "SOURCE_CHECK", "VERIFIED", "DATA_SNAPSHOT", "IMPACT_ANALYSIS", "ACTION_DRAFTING"}

\* How often a worker may still turn to the model for the run it has claimed.
Turns(l, q, t) ==
  CASE l \in {"loop", "advance"} /\ NextStage(q, t) \in UndraftedStages -> CallsPerClaim(t.run)
    [] l = "retrieve" -> 3
    [] l = "draft" -> 3 - t.attempt
    [] l \in {"review", "verdict"} -> 2 - t.attempt
    [] OTHER -> 0

TurnsOf(w) == Turns(pc[w], calls[w], task[w])

\* The turns to the model that a run may still see.
Slots(r) == {slot \in Workers \X (1..3) : task[slot[1]].run = r /\ slot[2] <= TurnsOf(slot[1])}

\* What the model was asked, and may be without another claim.
CostInv ==
  \A r \in Runs :
    /\ IsFiniteSet(Slots(r))
    /\ modelCalls[r] + Cardinality(Slots(r)) <= CallsPerClaim(r) * Claims(r)

ClaimsIn(log) == Cardinality({i \in DOMAIN log : log[i].type = "lease_acquired"})

\* Appending an event counts it if it is a claim.
LEMMA ClaimsAppend ==
  ASSUME NEW log \in Seq(EventType), NEW e \in EventType
  PROVE  /\ ClaimsIn(log) \in Nat
         /\ ClaimsIn(Append(log, e)) = ClaimsIn(log) + (IF e.type = "lease_acquired" THEN 1 ELSE 0)
<1> DEFINE old == {i \in DOMAIN log : log[i].type = "lease_acquired"}
           new == {i \in DOMAIN Append(log, e) : Append(log, e)[i].type = "lease_acquired"}
<1>1. /\ Len(log) \in Nat /\ DOMAIN log = 1..Len(log)
      /\ DOMAIN Append(log, e) = 1..Len(log) + 1
      /\ Append(log, e)[Len(log) + 1] = e /\ \A i \in 1..Len(log) : Append(log, e)[i] = log[i]
  BY AppendProperties, LenProperties
<1>2. IsFiniteSet(1..Len(log))
  BY <1>1, FS_Interval
<1>3. old \in SUBSET (1..Len(log))
  BY <1>1
<1>4. IsFiniteSet(old) /\ Cardinality(old) \in Nat
  BY <1>2, <1>3, FS_Subset, FS_CardinalityType
<1>5. Len(log) + 1 \notin old
  BY <1>1, <1>3
<1>6. e.type = "lease_acquired" => new = old \cup {Len(log) + 1}
  BY <1>1
<1>7. e.type # "lease_acquired" => new = old
  BY <1>1
<1> HIDE DEF old, new
<1>8. Cardinality(old \cup {Len(log) + 1}) = Cardinality(old) + 1
  BY <1>4, <1>5, FS_AddElement
<1>9. CASE e.type = "lease_acquired"
  <2>1. Cardinality(new) = Cardinality(old) + 1
    BY <1>6, <1>8, <1>9
  <2> QED
    BY <1>4, <1>9, <2>1 DEF ClaimsIn, old, new
<1>10. CASE e.type # "lease_acquired"
  <2>1. new = old
    BY <1>7, <1>10
  <2>2. ClaimsIn(log) \in Nat /\ ClaimsIn(Append(log, e)) = ClaimsIn(log)
    BY <1>4, <2>1 DEF ClaimsIn, old, new
  <2> QED
    BY <1>10, <2>2
<1> QED
  BY <1>9, <1>10

LEMMA ClaimsAreCounted == \A log \in Seq(EventType) : ClaimsIn(log) \in Nat
<1>1. Event("progress", "BLOCKED") \in EventType
  BY DEF Event, EventType, EventTypes, RunState, TerminalStates
<1> QED
  BY <1>1, ClaimsAppend

LEMMA AppendClaims ==
  ASSUME TypeOK, NEW r \in Runs, NEW e \in EventType, AppendEvent(r, e), NEW q \in Runs
  PROVE  /\ Claims(q) \in Nat
         /\ Claims(q)' = IF q = r /\ e.type = "lease_acquired" THEN Claims(q) + 1 ELSE Claims(q)
<1>1. events \in [Runs -> Seq(EventType)]
  BY DEF TypeOK, EventType
<1>2. events' = [events EXCEPT ![r] = Append(events[r], e)]
  BY DEF AppendEvent
<1>3. /\ ClaimsIn(events[q]) \in Nat
      /\ ClaimsIn(Append(events[q], e)) = ClaimsIn(events[q]) + (IF e.type = "lease_acquired" THEN 1 ELSE 0)
  BY <1>1, ClaimsAppend
<1>4. events'[q] = IF q = r THEN Append(events[q], e) ELSE events[q]
  BY <1>1, <1>2
<1>5. Claims(q) = ClaimsIn(events[q]) /\ Claims(q)' = ClaimsIn(events'[q])
  BY DEF Claims, ClaimsIn
<1> HIDE DEF Claims
<1> QED
  BY <1>3, <1>4, <1>5

\* No step forgets a claim, and only claiming adds one.
LEMMA ClaimsStep ==
  ASSUME TypeInv, NEW v \in Workers, Work(v) \/ Fault(v) \/ Crash(v), NEW q \in Runs
  PROVE  /\ Claims(q) \in Nat /\ Claims(q)' \in Nat /\ Claims(q)' >= Claims(q)
         /\ \A r \in Runs : LeaseNextRun(v, r) => Claims(r)' = Claims(r) + 1
<1>0. TypeOK /\ events \in [Runs -> Seq(EventType)]
  BY DEF TypeInv, TypeOK, EventType
<1>1. \A r \in Runs : LeaseNextRun(v, r) =>
        /\ Claims(r)' = Claims(r) + 1
        /\ Claims(q) \in Nat /\ (Claims(q)' = Claims(q) \/ Claims(q)' = Claims(q) + 1)
  <2> SUFFICES ASSUME NEW r \in Runs, LeaseNextRun(v, r)
               PROVE  /\ Claims(r)' = Claims(r) + 1
                      /\ Claims(q) \in Nat /\ (Claims(q)' = Claims(q) \/ Claims(q)' = Claims(q) + 1)
    OBVIOUS
  <2> DEFINE e == Event("lease_acquired", state[r])
  <2>1. AppendEvent(r, e) /\ state[r] \in ActiveStates
    BY DEF LeaseNextRun, NextRun, Claimable
  <2>2. e \in EventType /\ e.type = "lease_acquired"
    BY <2>1 DEF Event, EventType, EventTypes, RunState
  <2> HIDE DEF e, Claims
  <2> QED
    BY <1>0, <2>1, <2>2, AppendClaims
<1>2. ASSUME NEW r \in Runs, NEW e \in EventType, AppendEvent(r, e), e.type # "lease_acquired"
      PROVE  Claims(q) \in Nat /\ Claims(q)' = Claims(q)
  BY <1>0, <1>2, AppendClaims
<1>3. CASE UNCHANGED events
  <2>1. ClaimsIn(events[q]) \in Nat
    BY <1>0, ClaimsAreCounted
  <2> QED
    BY <1>1, <1>3, <2>1 DEF Claims, ClaimsIn
<1>4. CASE CommitRelease(v) \/ CommitTransition(v)
           \/ (Committing(v, "progress") /\ RecordProgress(Run(v), txn[v].stage))
  <2>1. txn[v].open /\ Calling(v) /\ Run(v) \in Runs
    BY <1>4 DEF CommitRelease, CommitTransition, Committing, TypeInv, Working, WorkingAt, Calling
  <2>2. txn[v].stage \in RunState
    BY <2>1 DEF TypeInv, TypeOK, Working, WorkingAt
  <2>3. PICK e : /\ e \in {Event("lease_released", txn[v].stage), Event("progress", txn[v].stage)} \/
                      (CommitTransition(v) /\ e = Event("state_transition", Call(v).to))
                 /\ AppendEvent(Run(v), e)
    BY <1>4 DEF CommitRelease, ReleaseLease, CommitTransition, Transition, RecordProgress
  <2>4. CommitTransition(v) => Call(v).to \in RunState
    <3>1. Call(v) \in Calls
      BY <2>1, TailType DEF TypeInv, TypeOK, Call, Calling
    <3> QED
      BY <3>1 DEF CommitTransition, Committing, Calls, Renew, Progress, Release
  <2>5. e \in EventType /\ e.type # "lease_acquired"
    BY <2>2, <2>3, <2>4 DEF Event, EventType, EventTypes
  <2> QED
    BY <1>1, <1>2, <2>1, <2>3, <2>5
<1> QED
  BY <1>1, <1>3, <1>4, LogSteps

LEMMA TurnsInRange ==
  ASSUME NEW l, NEW q, NEW t \in TaskType
  PROVE  Turns(l, q, t) \in 0..3
  BY DEF Turns, CallsPerClaim, TaskType, Attempts

\* A step of v, of what it may still ask the model, asks once or not at all.
Spending(v) ==
  /\ OthersSame(v)
  /\ task'[v].run = task[v].run \/ TurnsOf(v)' = 0
  /\ \/ UNCHANGED modelCalls /\ TurnsOf(v)' <= TurnsOf(v)
     \/ CallModel(v) /\ TurnsOf(v) > 0 /\ TurnsOf(v)' < TurnsOf(v)

LEMMA SpendingKeeps ==
  ASSUME TypeInv, TypeInv', CostInv, NEW v \in Workers, Work(v) \/ Fault(v) \/ Crash(v), Spending(v)
  PROVE  CostInv'
<1> SUFFICES ASSUME NEW r \in Runs
             PROVE  /\ IsFiniteSet(Slots(r)')
                    /\ modelCalls'[r] + Cardinality(Slots(r)') <= CallsPerClaim(r) * Claims(r)'
  BY DEF CostInv, CallsPerClaim
<1>1. /\ Claims(r) \in Nat /\ Claims(r)' \in Nat /\ Claims(r)' >= Claims(r)
      /\ CallsPerClaim(r) \in {1, 3} /\ modelCalls[r] \in Nat /\ modelCalls \in [Runs -> Nat]
  BY ClaimsStep DEF CallsPerClaim, TypeInv, TypeOK
<1>2. /\ IsFiniteSet(Slots(r)) /\ Cardinality(Slots(r)) \in Nat
      /\ modelCalls[r] + Cardinality(Slots(r)) <= CallsPerClaim(r) * Claims(r)
  BY FS_CardinalityType DEF CostInv
<1>3. TurnsOf(v) \in 0..3 /\ TurnsOf(v)' \in 0..3
  BY TurnsInRange DEF TurnsOf, TypeInv, TypeOK, TaskType
<1>4. Slots(r)' \in SUBSET Slots(r)
  BY <1>3 DEF Spending, OthersSame, Slots, TurnsOf
<1>5. IsFiniteSet(Slots(r)') /\ Cardinality(Slots(r)') \in Nat /\ Cardinality(Slots(r)') <= Cardinality(Slots(r))
  BY <1>2, <1>4, FS_Subset, FS_CardinalityType
<1>6. CASE modelCalls'[r] = modelCalls[r]
  <2> QED
    BY <1>1, <1>2, <1>5, <1>6
<1>7. CASE modelCalls'[r] # modelCalls[r]
  <2>1. CallModel(v) /\ TurnsOf(v) > 0 /\ TurnsOf(v)' < TurnsOf(v)
    BY <1>7 DEF Spending
  <2>2. Run(v) = r /\ modelCalls'[r] = modelCalls[r] + 1
    BY <1>1, <1>7, <2>1 DEF CallModel
  <2> DEFINE spent == <<v, TurnsOf(v)>>
  <2>3. spent \in Slots(r)
    BY <1>3, <2>1, <2>2 DEF Slots, Run
  <2>4. spent \notin Slots(r)'
    BY <1>3, <2>1 DEF Slots
  <2> HIDE DEF spent
  <2>5. Slots(r)' \in SUBSET (Slots(r) \ {spent})
    BY <1>4, <2>4
  <2>6. IsFiniteSet(Slots(r) \ {spent}) /\ Cardinality(Slots(r) \ {spent}) = Cardinality(Slots(r)) - 1
    BY <1>2, <2>3, FS_RemoveElement
  <2>7. Cardinality(Slots(r)') <= Cardinality(Slots(r)) - 1
    BY <2>5, <2>6, FS_Subset
  <2> QED
    BY <1>1, <1>2, <1>5, <2>2, <2>7
<1> QED
  BY <1>6, <1>7

\* A claim adds the turns of the worker that made it.
LEMMA ClaimKeeps ==
  ASSUME TypeInv, TypeInv', CostInv, NEW v \in Workers, ClaimRun(v)
  PROVE  CostInv'
<1>1. PICK q \in Runs : LeaseNextRun(v, q) /\ task' = [task EXCEPT ![v] = NewTask(q)]
  BY DEF ClaimRun
<1>2. /\ task'[v].run = q /\ task[v].run = 0 /\ 0 \notin Runs
      /\ pc'[v] = "loop" /\ UNCHANGED modelCalls
      /\ \A w \in Workers \ {v} : pc'[w] = pc[w] /\ task'[w] = task[w] /\ calls'[w] = calls[w]
  <2>1. pc \in [Workers -> Labels] /\ task \in [Workers -> TaskType]
    BY DEF TypeInv, TypeOK, TaskType
  <2> QED
    BY <1>1, <2>1, RunsAssumption
    DEF ClaimRun, At, NewTask, TypeInv, Working, WorkingAt, Idle, NoTask
<1>3. TurnsOf(v)' <= CallsPerClaim(q) /\ TurnsOf(v)' \in 0..3 /\ CallsPerClaim(q) \in {1, 3}
  <2>1. TurnsOf(v)' \in {0, CallsPerClaim(q)}
    BY <1>2 DEF TurnsOf, Turns
  <2>2. CallsPerClaim(q) \in {1, 3}
    BY DEF CallsPerClaim
  <2> QED
    BY <2>1, <2>2
<1> SUFFICES ASSUME NEW r \in Runs
             PROVE  /\ IsFiniteSet(Slots(r)')
                    /\ modelCalls'[r] + Cardinality(Slots(r)') <= CallsPerClaim(r) * Claims(r)'
  BY DEF CostInv, CallsPerClaim
<1>4. /\ Claims(r) \in Nat /\ Claims(r)' \in Nat /\ Claims(r)' >= Claims(r)
      /\ Claims(q)' = Claims(q) + 1
      /\ CallsPerClaim(r) \in {1, 3} /\ modelCalls[r] \in Nat
  BY <1>1, ClaimsStep DEF CallsPerClaim, TypeInv, TypeOK, Work, Control
<1>5. /\ IsFiniteSet(Slots(r)) /\ Cardinality(Slots(r)) \in Nat
      /\ modelCalls[r] + Cardinality(Slots(r)) <= CallsPerClaim(r) * Claims(r)
  BY FS_CardinalityType DEF CostInv
<1>6. CASE r # q
  <2>1. Slots(r)' \in SUBSET Slots(r)
    BY <1>2, <1>6 DEF Slots, TurnsOf
  <2>2. IsFiniteSet(Slots(r)') /\ Cardinality(Slots(r)') \in Nat /\ Cardinality(Slots(r)') <= Cardinality(Slots(r))
    BY <1>5, <2>1, FS_Subset, FS_CardinalityType
  <2> QED
    BY <1>2, <1>4, <1>5, <2>2
<1>7. CASE r = q
  <2> DEFINE own == {v} \X (1..CallsPerClaim(q))
  <2>1. Slots(r)' \in SUBSET (Slots(r) \cup own)
    BY <1>2, <1>3 DEF Slots, TurnsOf
  <2>2. IsFiniteSet(own) /\ Cardinality(own) = CallsPerClaim(q)
    <3>1. IsFiniteSet({v}) /\ Cardinality({v}) = 1
      BY FS_Singleton
    <3>2. \A n \in Nat : IsFiniteSet(1..n) /\ Cardinality(1..n) = n
      BY FS_Interval
    <3>3. IsFiniteSet(1..CallsPerClaim(q)) /\ Cardinality(1..CallsPerClaim(q)) = CallsPerClaim(q)
      BY <1>3, <3>2
    <3>4. IsFiniteSet(own) /\ Cardinality(own) = Cardinality({v}) * Cardinality(1..CallsPerClaim(q))
      BY <3>1, <3>3, FS_Product
    <3>5. Cardinality(own) = 1 * CallsPerClaim(q)
      BY <3>1, <3>3, <3>4, Zenon
    <3> QED
      BY <1>3, <3>4, <3>5
  <2> HIDE DEF own
  <2>3. /\ IsFiniteSet(Slots(r) \cup own)
        /\ Cardinality(Slots(r) \cup own) = Cardinality(Slots(r)) + CallsPerClaim(q) - Cardinality(Slots(r) \cap own)
    BY <1>5, <2>2, FS_Union
  <2>4. Cardinality(Slots(r) \cap own) \in Nat
    <3>1. Slots(r) \cap own \in SUBSET own
      OBVIOUS
    <3>2. IsFiniteSet(Slots(r) \cap own)
      BY <2>2, <3>1, FS_Subset
    <3> QED
      BY <3>2, FS_CardinalityType
  <2>5. /\ IsFiniteSet(Slots(r)') /\ Cardinality(Slots(r)') \in Nat
        /\ Cardinality(Slots(r)') <= Cardinality(Slots(r) \cup own)
    BY <2>1, <2>3, FS_Subset, FS_CardinalityType
  <2>6. Cardinality(Slots(r)') <= Cardinality(Slots(r)) + CallsPerClaim(r)
    BY <1>4, <1>5, <1>7, <2>3, <2>4, <2>5
  <2>7. Claims(r)' = Claims(r) + 1
    BY <1>4, <1>7
  <2> QED
    BY <1>2, <1>4, <1>5, <2>5, <2>6, <2>7
<1> QED
  BY <1>6, <1>7

\* What the lists of calls lead to.
LEMMA NextStages ==
  ASSUME NEW t
  PROVE  /\ NextStage(<< >>, t) = t.stage /\ NextStage(<<Renew>>, t) = t.stage
         /\ NextStage(<<Progress>>, t) = t.stage
         /\ \A s : NextStage(<<Move(s)>>, t) = s
  BY DEF NextStage, Renew, Progress, Move

LEMMA LastOfTwo ==
  ASSUME NEW t, NEW a, NEW s
  PROVE  NextStage(<<a, Move(s)>>, t) = s
  BY DEF NextStage, Move

LEMMA LastOfThree ==
  ASSUME NEW t, NEW a, NEW b, NEW s
  PROVE  NextStage(<<a, b, Move(s)>>, t) = s
  BY DEF NextStage, Move

\* Engine code between two calls.
LEMMA ContinueTurns ==
  ASSUME TypeInv, NEW v \in Workers, NEW cs, NEW l, Continue(v, cs, l),
         NEW t, task' = [task EXCEPT ![v] = t], t.run = Run(v)
  PROVE  OthersSame(v) /\ task'[v].run = task[v].run /\ TurnsOf(v)' = Turns(l, cs, t)
<1>1. /\ pc \in [Workers -> Labels] /\ calls \in [Workers -> Seq(Calls)]
      /\ task \in [Workers -> TaskType]
  BY DEF TypeInv, TypeOK, TaskType
<1> QED
  BY <1>1 DEF Continue, OthersSame, TurnsOf, Run

LEMMA ContinueTurnsSame ==
  ASSUME TypeInv, NEW v \in Workers, NEW cs, NEW l, Continue(v, cs, l), UNCHANGED task
  PROVE  OthersSame(v) /\ task'[v].run = task[v].run /\ TurnsOf(v)' = Turns(l, cs, task[v])
<1>1. /\ pc \in [Workers -> Labels] /\ calls \in [Workers -> Seq(Calls)]
      /\ task \in [Workers -> TaskType]
  BY DEF TypeInv, TypeOK, TaskType
<1> QED
  BY <1>1 DEF Continue, OthersSame, TurnsOf

\* One that does not turn to the model.
LEMMA ContinueSpends ==
  ASSUME TypeInv, NEW v \in Workers, NEW cs, NEW l, Continue(v, cs, l), UNCHANGED <<task, modelCalls>>,
         Turns(l, cs, task[v]) <= TurnsOf(v)
  PROVE  Spending(v)
  BY ContinueTurnsSame DEF Spending

\* An exception ends the turns of a claim, as does a crash.
LEMMA RaiseSpends ==
  ASSUME TypeInv, NEW v \in Workers, UNCHANGED modelCalls,
         Raise(v) \/ \E l \in {"idle", "dead"} : Stop(v, l)
  PROVE  Spending(v)
<1>1. /\ pc \in [Workers -> Labels] /\ calls \in [Workers -> Seq(Calls)]
      /\ task \in [Workers -> TaskType]
  BY DEF TypeInv, TypeOK, TaskType
<1>2. OthersSame(v)
  BY <1>1 DEF Raise, Stop, Unwind, OthersSame
<1>3. pc'[v] \in {"failed", "finally", "idle", "dead"}
  BY <1>1 DEF Raise, Stop, Unwind
<1>4. TurnsOf(v)' = 0
  BY <1>3 DEF TurnsOf, Turns
<1>5. TurnsOf(v) \in 0..3
  BY <1>1, TurnsInRange DEF TurnsOf
<1> QED
  BY <1>2, <1>4, <1>5 DEF Spending

LEMMA FailSpends ==
  ASSUME TypeInv, NEW v \in Workers, Fail(v)
  PROVE  Spending(v)
  BY RaiseSpends DEF Fail

\* Where the worker is.
LEMMA TurnsAt ==
  ASSUME TypeInv, NEW v \in Workers
  PROVE  /\ \A s : Advancing(v, s) =>
              TurnsOf(v) = IF s \in UndraftedStages THEN CallsPerClaim(Run(v)) ELSE 0
         /\ At(v, "retrieve") => TurnsOf(v) = 3
         /\ At(v, "draft") => TurnsOf(v) = 3 - task[v].attempt
         /\ At(v, "review") \/ At(v, "verdict") => TurnsOf(v) = 2 - task[v].attempt
         /\ task[v].attempt \in 0..2 /\ CallsPerClaim(Run(v)) \in {1, 3}
         /\ Agent(v) => CallsPerClaim(Run(v)) = 3
<1>1. task[v].attempt \in 0..2 /\ CallsPerClaim(Run(v)) \in {1, 3}
  BY DEF TypeInv, TypeOK, Attempts, CallsPerClaim
<1> QED
  BY <1>1 DEF Advancing, At, TurnsOf, Turns, NextStage, Run, Agent, CallsPerClaim

\* The steps of the agent workflow that do not draft.
LEMMA AgentSpends ==
  ASSUME TypeInv, NEW v \in Workers,
         \/ AcceptAgentRun(v) \/ VerifyAgentSources(v) \/ RetrieveSources(v) \/ PinSnapshot(v)
         \/ StartImpactAnalysis(v) \/ AnalyzeImpacts(v) \/ EvaluateResponseSupervisor(v)
  PROVE  Spending(v)
<1> USE TurnsAt DEF UndraftedStages
<1>0. task[v] \in TaskType /\ CallsPerClaim(Run(v)) \in {1, 3}
  BY DEF TypeInv, TypeOK, TaskType
<1>1. \A cs : Turns("loop", cs, task[v]) =
                IF NextStage(cs, task[v]) \in UndraftedStages THEN CallsPerClaim(Run(v)) ELSE 0
  BY DEF Turns, Run
<1>2. \A cs : Turns("retrieve", cs, task[v]) = 3
  BY DEF Turns
<1>3. CASE AcceptAgentRun(v)
  <2>1. TurnsOf(v) = CallsPerClaim(Run(v)) /\ Turns("loop", <<Move("SOURCE_CHECK")>>, task[v]) = CallsPerClaim(Run(v))
    BY <1>1, <1>3, NextStages DEF AcceptAgentRun
  <2> QED
    BY <1>0, <1>3, <2>1, ContinueSpends DEF AcceptAgentRun
<1>4. CASE VerifyAgentSources(v)
  <2>1. TurnsOf(v) = 3
    BY <1>4 DEF VerifyAgentSources
  <2> QED
    BY <1>2, <1>4, <2>1, ContinueSpends DEF VerifyAgentSources
<1>5. CASE RetrieveSources(v)
  <2>1. TurnsOf(v) = 3
    BY <1>5 DEF RetrieveSources
  <2>2. \A cs : Turns("loop", cs, task[v]) <= 3
    BY <1>0, <1>1
  <2> QED
    BY <1>5, <2>1, <2>2, ContinueSpends DEF RetrieveSources
<1>6. CASE PinSnapshot(v)
  <2>1. TurnsOf(v) = CallsPerClaim(Run(v)) /\ Turns("loop", <<Move("DATA_SNAPSHOT")>>, task[v]) = CallsPerClaim(Run(v))
    BY <1>1, <1>6, NextStages DEF PinSnapshot
  <2> QED
    BY <1>0, <1>6, <2>1, ContinueSpends, FailSpends DEF PinSnapshot
<1>7. CASE StartImpactAnalysis(v)
  <2>1. TurnsOf(v) = CallsPerClaim(Run(v)) /\ Turns("loop", <<Move("IMPACT_ANALYSIS")>>, task[v]) = CallsPerClaim(Run(v))
    BY <1>1, <1>7, NextStages DEF StartImpactAnalysis
  <2> QED
    BY <1>0, <1>7, <2>1, ContinueSpends DEF StartImpactAnalysis
<1>8. CASE AnalyzeImpacts(v)
  <2>1. TurnsOf(v) = CallsPerClaim(Run(v))
    BY <1>8 DEF AnalyzeImpacts
  <2>2. \A n, c : Turns("loop", <<Progress, Store(n, c), Move("ACTION_DRAFTING")>>, task[v]) = CallsPerClaim(Run(v))
    <3> TAKE n, c
    <3> DEFINE cs == <<Progress, Store(n, c), Move("ACTION_DRAFTING")>>
    <3>1. NextStage(cs, task[v]) = "ACTION_DRAFTING"
      BY LastOfThree
    <3> HIDE DEF cs
    <3>2. Turns("loop", cs, task[v]) = CallsPerClaim(Run(v))
      BY <1>1, <3>1
    <3> QED
      BY <3>2 DEF cs
  <2> QED
    BY <1>0, <1>8, <2>1, <2>2, ContinueSpends, FailSpends DEF AnalyzeImpacts
<1>9. CASE EvaluateResponseSupervisor(v)
  <2>1. TurnsOf(v) = 0
    BY <1>9 DEF EvaluateResponseSupervisor
  <2>2. \A n, c : Turns("loop", <<Progress, Store(n, c), Move("AWAITING_HUMAN_REVIEW")>>, task[v]) = 0
    <3> TAKE n, c
    <3> DEFINE cs == <<Progress, Store(n, c), Move("AWAITING_HUMAN_REVIEW")>>
    <3>1. NextStage(cs, task[v]) = "AWAITING_HUMAN_REVIEW"
      BY LastOfThree
    <3> HIDE DEF cs
    <3>2. Turns("loop", cs, task[v]) = 0
      BY <1>1, <3>1
    <3> QED
      BY <3>2 DEF cs
  <2> QED
    BY <1>9, <2>1, <2>2, ContinueSpends, FailSpends DEF EvaluateResponseSupervisor
<1> QED
  BY <1>3, <1>4, <1>5, <1>6, <1>7, <1>8, <1>9

\* The drafting loop: an attempt is a turn.
LEMMA DraftingSpends ==
  ASSUME TypeInv, NEW v \in Workers,
         \/ ExecuteResponseSupervisor(v) \/ DraftResponse(v) \/ ReviewDraft(v)
         \/ Verdict(v) \/ FinishDraft(v)
  PROVE  Spending(v)
<1>0. task[v] \in TaskType /\ task[v].attempt \in 0..2 /\ task \in [Workers -> TaskType] /\ TurnsOf(v) \in 0..3
  BY TurnsInRange DEF TypeInv, TypeOK, TaskType, Attempts, TurnsOf
<1>1. CASE ExecuteResponseSupervisor(v)
  <2>1. TurnsOf(v) = 3
    BY <1>1, TurnsAt DEF ExecuteResponseSupervisor, UndraftedStages
  <2>2. CASE /\ Continue(v, <<Progress>>, "draft")
             /\ task' = [task EXCEPT ![v].attempt = 0]
             /\ UNCHANGED modelCalls
    <3> DEFINE t == [task[v] EXCEPT !.attempt = 0]
    <3>1. task' = [task EXCEPT ![v] = t] /\ t.run = Run(v) /\ t.attempt = 0
      BY <1>0, <2>2 DEF Run, TaskType
    <3>2. Turns("draft", <<Progress>>, t) = 3
      BY <3>1 DEF Turns
    <3> HIDE DEF t
    <3>3. Continue(v, <<Progress>>, "draft")
      BY <2>2
    <3>4. OthersSame(v) /\ task'[v].run = task[v].run /\ TurnsOf(v)' = Turns("draft", <<Progress>>, t)
      BY <3>1, <3>3, ContinueTurns
    <3> QED
      BY <2>1, <2>2, <3>2, <3>4 DEF Spending
  <2> QED
    BY <1>1, <2>2, FailSpends DEF ExecuteResponseSupervisor
<1>2. CASE DraftResponse(v)
  <2>1. PICK outcome, draft :
          /\ Continue(v, <<Store(DraftName(task[v].attempt), draft)>>,
                      IF outcome = "failed" THEN "drafted" ELSE "review")
          /\ task' = [task EXCEPT ![v].draft = draft]
    BY <1>2 DEF DraftResponse
  <2> DEFINE t == [task[v] EXCEPT !.draft = draft]
             l == IF outcome = "failed" THEN "drafted" ELSE "review"
             cs == <<Store(DraftName(task[v].attempt), draft)>>
  <2>2. task' = [task EXCEPT ![v] = t] /\ t.run = Run(v) /\ t.attempt = task[v].attempt
    BY <1>0, <2>1 DEF Run, TaskType
  <2>3. Turns(l, cs, t) \in {0, 2 - task[v].attempt}
    BY <2>2 DEF Turns
  <2>4. Continue(v, cs, l)
    BY <2>1
  <2> HIDE DEF t, l, cs
  <2>5. OthersSame(v) /\ task'[v].run = task[v].run /\ TurnsOf(v)' = Turns(l, cs, t)
    BY <2>2, <2>4, ContinueTurns
  <2>6. TurnsOf(v) = 3 - task[v].attempt /\ CallModel(v)
    BY <1>2, TurnsAt DEF DraftResponse
  <2> QED
    BY <1>0, <2>3, <2>5, <2>6 DEF Spending
<1>3. CASE ReviewDraft(v)
  <2>1. TurnsOf(v) = 2 - task[v].attempt
    BY <1>3, TurnsAt DEF ReviewDraft
  <2>2. \A cs : Turns("verdict", cs, task[v]) = 2 - task[v].attempt
    BY DEF Turns
  <2> QED
    BY <1>0, <1>3, <2>1, <2>2, ContinueSpends DEF ReviewDraft
<1>4. CASE Verdict(v)
  <2>1. TurnsOf(v) = 2 - task[v].attempt /\ UNCHANGED modelCalls
    BY <1>4, TurnsAt DEF Verdict
  <2>2. CASE Passed(v)
    <3>1. \A cs : Turns("drafted", cs, task[v]) = 0
      BY DEF Turns
    <3> QED
      BY <1>0, <2>1, <2>2, <3>1, ContinueSpends DEF Passed
  <2>3. CASE Exhausted(v)
    <3>1. Turns("loop", <<Move("BLOCKED")>>, task[v]) = 0
      BY NextStages DEF Turns, UndraftedStages
    <3> QED
      BY <1>0, <2>1, <2>3, <3>1, ContinueSpends DEF Exhausted
  <2>4. CASE RevisionRequested(v)
    <3> DEFINE t == [task[v] EXCEPT !.attempt = @ + 1]
    <3>1. task' = [task EXCEPT ![v] = t] /\ t.run = Run(v) /\ t.attempt = task[v].attempt + 1
      BY <1>0, <2>4 DEF Run, TaskType, RevisionRequested
    <3>2. Turns("draft", <<Progress>>, t) = 3 - (task[v].attempt + 1)
      BY <3>1 DEF Turns
    <3> HIDE DEF t
    <3>3. Continue(v, <<Progress>>, "draft") /\ task[v].attempt < 2
      BY <2>4 DEF RevisionRequested
    <3>4. OthersSame(v) /\ task'[v].run = task[v].run /\ TurnsOf(v)' = Turns("draft", <<Progress>>, t)
      BY <3>1, <3>3, ContinueTurns
    <3> QED
      BY <1>0, <2>1, <3>2, <3>4 DEF Spending
  <2> QED
    BY <1>4, <2>2, <2>3, <2>4 DEF Verdict
<1>5. CASE FinishDraft(v)
  <2>1. \A n, c : /\ Turns("loop", <<Store(n, c), Progress, Move("BLOCKED")>>, task[v]) = 0
                  /\ Turns("loop", <<Store(n, c), Progress, Move("EVIDENCE_VERIFICATION")>>, task[v]) = 0
    <3> TAKE n, c
    <3> DEFINE cs(s) == <<Store(n, c), Progress, Move(s)>>
    <3>1. \A s : NextStage(cs(s), task[v]) = s
      BY LastOfThree
    <3> HIDE DEF cs
    <3>2. Turns("loop", cs("BLOCKED"), task[v]) = 0 /\ Turns("loop", cs("EVIDENCE_VERIFICATION"), task[v]) = 0
      BY <3>1 DEF Turns, UndraftedStages
    <3> QED
      BY <3>2 DEF cs
  <2> QED
    BY <1>0, <1>5, <2>1, ContinueSpends DEF FinishDraft
<1> QED
  BY <1>1, <1>2, <1>3, <1>4, <1>5

\* A baseline run turns to the model once, when it leaves its last undrafted stage.
LEMMA BaselineSpends ==
  ASSUME TypeInv, NEW v \in Workers, BaselineStep(v)
  PROVE  Spending(v)
<1> USE TurnsAt DEF UndraftedStages
<1>0. task[v] \in TaskType /\ CallsPerClaim(Run(v)) \in {1, 3}
  BY DEF TypeInv, TypeOK, TaskType
<1>1. \A cs : Turns("loop", cs, task[v]) =
                IF NextStage(cs, task[v]) \in UndraftedStages THEN CallsPerClaim(Run(v)) ELSE 0
  BY DEF Turns, Run
<1>2. CASE AdvanceBaseline(v)
  <2>1. Advancing(v, task[v].stage) /\ task[v].stage \in UndraftedStages
    BY <1>2 DEF AdvanceBaseline, Advancing, BaselineMoves
  <2>2. TurnsOf(v) = CallsPerClaim(Run(v))
    BY <2>1
  <2>3. \A cs : Turns("loop", cs, task[v]) <= CallsPerClaim(Run(v))
    BY <1>0, <1>1
  <2> QED
    BY <1>2, <2>2, <2>3, ContinueSpends DEF AdvanceBaseline
<1>3. CASE ExecuteBaseline(v)
  <2>1. TurnsOf(v) > 0 /\ CallModel(v) /\ UNCHANGED task
    BY <1>0, <1>3 DEF ExecuteBaseline
  <2>2. PICK outcome \in BaselineOutcomes :
          Continue(v,
            <<Store("baseline_run", BaselineRun(task[v].claim, outcome))>> \o
            IF outcome = "completed"
            THEN <<Move("EVIDENCE_VERIFICATION")>>
            ELSE <<Store("baseline_evaluation", Evaluation(task[v].claim)), Move("BLOCKED")>>,
            "loop")
    BY <1>3 DEF ExecuteBaseline
  <2> DEFINE c == BaselineRun(task[v].claim, outcome)
             e == Evaluation(task[v].claim)
  <2> HIDE DEF c, e
  <2>3. CASE outcome = "completed"
    <3> DEFINE q == <<Store("baseline_run", c), Move("EVIDENCE_VERIFICATION")>>
    <3>1. Continue(v, q, "loop")
      <4>1. q = <<Store("baseline_run", c)>> \o <<Move("EVIDENCE_VERIFICATION")>>
        OBVIOUS
      <4> QED BY <2>2, <2>3, <4>1 DEF c
    <3>2. NextStage(q, task[v]) = "EVIDENCE_VERIFICATION"
      BY LastOfTwo
    <3> HIDE DEF q
    <3>3. Turns("loop", q, task[v]) = 0
      BY <1>1, <3>2
    <3> QED
      BY <2>1, <3>1, <3>3, ContinueTurnsSame DEF Spending
  <2>4. CASE outcome # "completed"
    <3> DEFINE q == <<Store("baseline_run", c), Store("baseline_evaluation", e), Move("BLOCKED")>>
    <3>1. Continue(v, q, "loop")
      <4>1. q = <<Store("baseline_run", c)>> \o <<Store("baseline_evaluation", e), Move("BLOCKED")>>
        OBVIOUS
      <4> QED BY <2>2, <2>4, <4>1 DEF c, e
    <3>2. NextStage(q, task[v]) = "BLOCKED"
      BY LastOfThree
    <3> HIDE DEF q
    <3>3. Turns("loop", q, task[v]) = 0
      BY <1>1, <3>2
    <3> QED
      BY <2>1, <3>1, <3>3, ContinueTurnsSame DEF Spending
  <2> QED
    BY <2>3, <2>4
<1>4. CASE WriteBaselineEvaluation(v)
  <2> DEFINE q == <<Store("baseline_evaluation", Evaluation(task[v].claim)), Move("AWAITING_HUMAN_REVIEW")>>
  <2>1. TurnsOf(v) = 0
    BY <1>4 DEF WriteBaselineEvaluation
  <2>2. Fail(v) \/ (Continue(v, q, "loop") /\ UNCHANGED <<task, modelCalls>>)
    BY <1>4 DEF WriteBaselineEvaluation
  <2>3. NextStage(q, task[v]) = "AWAITING_HUMAN_REVIEW"
    BY LastOfTwo
  <2> HIDE DEF q
  <2>4. Turns("loop", q, task[v]) = 0
    BY <1>1, <2>3
  <2> QED
    BY <2>1, <2>2, <2>4, ContinueSpends, FailSpends
<1> QED
  BY <1>2, <1>3, <1>4 DEF BaselineStep

\* The loop itself asks nothing, and out of it nothing is asked any more.
LEMMA ControlSpends ==
  ASSUME TypeInv, NEW v \in Workers, Loop(v) \/ HandleError(v) \/ Finally(v) \/ Return(v)
  PROVE  Spending(v)
<1>0. task[v] \in TaskType /\ task \in [Workers -> TaskType] /\ TurnsOf(v) \in 0..3
  BY TurnsInRange DEF TypeInv, TypeOK, TaskType, TurnsOf
<1>1. \A cs, t : Turns("finally", cs, t) = 0 /\ Turns("exit", cs, t) = 0
  BY DEF Turns
<1>2. CASE Loop(v)
  <2>1. TurnsOf(v) = Turns("advance", <<Renew>>, task[v])
    BY <1>2, NextStages DEF Loop, At, TurnsOf, Turns
  <2> QED
    BY <1>0, <1>1, <1>2, <2>1, ContinueSpends DEF Loop
<1>3. CASE HandleError(v)
  <2>1. CASE UNCHANGED task
    BY <1>0, <1>1, <1>3, <2>1, ContinueSpends DEF HandleError
  <2>2. CASE task' = [task EXCEPT ![v].doomed = TRUE] /\ Continue(v, << >>, "finally")
    <3> DEFINE t == [task[v] EXCEPT !.doomed = TRUE]
    <3>1. task' = [task EXCEPT ![v] = t] /\ t.run = Run(v)
      BY <1>0, <2>2 DEF Run, TaskType
    <3> HIDE DEF t
    <3>2. Continue(v, << >>, "finally")
      BY <2>2
    <3>3. OthersSame(v) /\ task'[v].run = task[v].run /\ TurnsOf(v)' = Turns("finally", << >>, t)
      BY <3>1, <3>2, ContinueTurns
    <3>4. OthersSame(v) /\ task'[v].run = task[v].run /\ TurnsOf(v)' = 0
      BY <1>1, <3>3
    <3> QED
      BY <1>0, <1>3, <3>4 DEF Spending, HandleError
  <2> QED
    BY <1>3, <2>1, <2>2 DEF HandleError
<1>4. CASE Finally(v)
  BY <1>0, <1>1, <1>4, ContinueSpends DEF Finally
<1>5. CASE Return(v)
  BY <1>5, RaiseSpends DEF Return
<1> QED
  BY <1>2, <1>3, <1>4, <1>5

\* What is behind the first call is where the code goes on.
LEMMA NothingBehind ==
  ASSUME NEW S, NEW q \in Seq(S), Len(q) = 1
  PROVE  Tail(q) = << >>
<1>1. Tail(q) \in Seq(S) /\ Len(Tail(q)) = 0
  BY HeadTailProperties, EmptySeq
<1> QED
  BY <1>1, EmptySeq

LEMMA NextOfTail ==
  ASSUME NEW q \in Seq(Calls), q # << >>, NEW t, Head(q).op # "transition"
  PROVE  NextStage(Tail(q), t) = NextStage(q, t)
<1>1. /\ Len(q) \in Nat \ {0} /\ Head(q) = q[1] /\ Len(Tail(q)) = Len(q) - 1 /\ Tail(q) \in Seq(Calls)
      /\ \A i \in 1..Len(q) - 1 : Tail(q)[i] = q[i + 1]
  BY HeadTailProperties, LenProperties, EmptySeq
<1>2. CASE Len(q) = 1
  <2>1. Tail(q) = << >>
    BY <1>2, NothingBehind
  <2> QED
    BY <1>1, <1>2, <2>1 DEF NextStage
<1>3. CASE Len(q) # 1
  <2>1. Tail(q) # << >> /\ Len(q) - 1 \in 1..Len(q) - 1
    <3>1. Len(q) - 1 \in 1..Len(q) - 1 /\ Len(Tail(q)) # 0
      BY <1>1, <1>3
    <3>2. Len(<< >>) = 0
      OBVIOUS
    <3> QED
      BY <3>1, <3>2
  <2>2. Tail(q)[Len(Tail(q))] = q[Len(q)]
    BY <1>1, <2>1
  <2> QED
    BY <2>1, <2>2 DEF NextStage
<1> QED
  BY <1>2, <1>3

\* A repository call asks nothing; a transition is what the code was going on to.
LEMMA RepositorySpends ==
  ASSUME TypeInv, NEW v \in Workers, WorkerGood(v), Repository(v)
  PROVE  Spending(v)
<1>0. /\ calls[v] # << >> /\ calls \in [Workers -> Seq(Calls)] /\ calls[v] \in Seq(Calls)
      /\ task \in [Workers -> TaskType] /\ task[v] \in TaskType /\ TurnsOf(v) \in 0..3
      /\ pc \in [Workers -> Labels]
  <2>1. calls[v] # << >>
    BY DEF Repository, Check, CheckStore, CommitRenew, CommitRelease, CommitTransition,
           CommitProgress, CommitStore, Committing, Guarded, Calling
  <2> QED
    BY <2>1, TurnsInRange DEF TypeInv, TypeOK, TaskType, TurnsOf
<1>1. CASE Raise(v) /\ UNCHANGED modelCalls
  BY <1>1, RaiseSpends
<1>2. CASE Begin(v) /\ UNCHANGED modelCalls
  <2>1. OthersSame(v) /\ task'[v].run = task[v].run /\ TurnsOf(v)' = TurnsOf(v)
    BY <1>2 DEF Begin, OthersSame, TurnsOf
  <2> QED
    BY <1>0, <1>2, <2>1 DEF Spending
<1>3. CASE /\ calls' = [calls EXCEPT ![v] = Tail(@)]
           /\ UNCHANGED <<pc, task, modelCalls>>
           /\ Call(v).op # "transition"
  <2>1. calls'[v] = Tail(calls[v]) /\ OthersSame(v) /\ task'[v].run = task[v].run
    BY <1>0, <1>3 DEF OthersSame
  <2>2. NextStage(Tail(calls[v]), task[v]) = NextStage(calls[v], task[v])
    BY <1>0, <1>3, NextOfTail DEF Call
  <2>3. Turns(pc[v], Tail(calls[v]), task[v]) = Turns(pc[v], calls[v], task[v])
    BY <2>2 DEF Turns
  <2>4. TurnsOf(v)' = TurnsOf(v)
    BY <1>3, <2>1, <2>3 DEF TurnsOf
  <2> QED
    BY <1>0, <1>3, <2>1, <2>4 DEF Spending
<1>4. CASE CommitTransition(v)
  <2>1. /\ Head(calls[v]).op = "transition" /\ pc' = pc /\ modelCalls' = modelCalls
        /\ calls' = [calls EXCEPT ![v] = Tail(@)]
        /\ task' = [task EXCEPT ![v].stage = Head(calls[v]).to]
    BY <1>4 DEF CommitTransition, Committing, EndCall, Call
  <2>2. /\ Len(calls[v]) \in Nat \ {0} /\ Head(calls[v]) = calls[v][1] /\ DOMAIN calls[v] = 1..Len(calls[v])
        /\ Len(Tail(calls[v])) = Len(calls[v]) - 1 /\ Tail(calls[v]) \in Seq(Calls)
    BY <1>0, HeadTailProperties, LenProperties, EmptySeq
  <2>3. 1 = Len(calls[v]) /\ pc[v] \in {"loop", "finally"}
    <3>1. CallsGood(artifacts[Run(v)], calls[v], pc[v], task[v].run)
      BY <1>0 DEF WorkerGood, Good, TypeInv, Working, WorkingAt
    <3>2. 1 \in DOMAIN calls[v] /\ calls[v][1].op = "transition"
      BY <2>1, <2>2
    <3> QED
      BY <3>1, <3>2 DEF CallsGood
  <2>4. Tail(calls[v]) = << >>
    BY <1>0, <2>3, NothingBehind
  <2>5. /\ calls'[v] = << >> /\ task'[v].run = task[v].run /\ task'[v].stage = Head(calls[v]).to
        /\ pc'[v] = pc[v] /\ OthersSame(v)
    BY <1>0, <2>1, <2>4 DEF OthersSame, TaskType
  <2>6. NextStage(calls[v], task[v]) = Head(calls[v]).to
    BY <1>0, <2>1, <2>2, <2>3 DEF NextStage
  <2>7. NextStage(calls'[v], task'[v]) = NextStage(calls[v], task[v])
    BY <2>5, <2>6 DEF NextStage
  <2>8. TurnsOf(v)' = TurnsOf(v)
    BY <2>3, <2>5, <2>7 DEF TurnsOf, Turns
  <2> QED
    BY <1>0, <2>1, <2>5, <2>8 DEF Spending
<1>5. CASE Check(v)
  BY <1>1, <1>2, <1>5 DEF Check
<1>6. CASE CheckStore(v)
  BY <1>1, <1>2, <1>3, <1>6 DEF CheckStore
<1>7. CASE CommitRenew(v) \/ CommitRelease(v)
  BY <1>3, <1>7 DEF CommitRenew, CommitRelease, Committing, EndCall
<1>8. CASE CommitProgress(v)
  BY <1>1, <1>3, <1>8 DEF CommitProgress, Committing, EndCall
<1>9. CASE CommitStore(v)
  BY <1>1, <1>3, <1>9 DEF CommitStore, Committing, EndCall
<1> QED
  BY <1>4, <1>5, <1>6, <1>7, <1>8, <1>9 DEF Repository

LEMMA WorkSpends ==
  ASSUME TypeInv, NEW v \in Workers, WorkerGood(v), Work(v) \/ Fault(v) \/ Crash(v), ~ClaimRun(v)
  PROVE  Spending(v)
<1>1. CASE AgentStep(v)
  BY <1>1, AgentSpends, DraftingSpends DEF AgentStep
<1>2. CASE Fault(v)
  BY <1>2, RaiseSpends DEF Fault
<1>3. CASE Crash(v)
  BY <1>3, RaiseSpends DEF Crash
<1> QED
  BY <1>1, <1>2, <1>3, BaselineSpends, ControlSpends, RepositorySpends DEF Work, Control

LEMMA InitCost == Init => CostInv
<1> SUFFICES ASSUME Init, NEW r \in Runs
             PROVE  /\ IsFiniteSet(Slots(r))
                    /\ modelCalls[r] + Cardinality(Slots(r)) <= CallsPerClaim(r) * Claims(r)
  BY DEF CostInv
<1>1. Slots(r) = {}
  BY RunsAssumption DEF Init, Slots, NoTask
<1>2. IsFiniteSet(Slots(r)) /\ Cardinality(Slots(r)) = 0
  BY <1>1, FS_EmptySet
<1>3. Claims(r) = ClaimsIn(<< >>)
  BY DEF Init, StoreInit, Claims, ClaimsIn
<1>4. ClaimsIn(<< >>) \in Nat
  <2>1. << >> \in Seq(EventType)
    OBVIOUS
  <2> QED
    BY <2>1, ClaimsAreCounted
<1>5. modelCalls[r] = 0 /\ CallsPerClaim(r) \in {1, 3}
  BY DEF Init, CallsPerClaim
<1> QED
  BY <1>2, <1>3, <1>4, <1>5

LEMMA NextCost ==
  ASSUME TypeInv, TypeInv', RecordInv, CostInv, [Next]_vars
  PROVE  CostInv'
<1>1. ASSUME UNCHANGED workerVars, \A r \in Runs : Claims(r)' = Claims(r)
      PROVE  CostInv'
  <2>1. \A r \in Runs : Slots(r)' = Slots(r) /\ modelCalls'[r] = modelCalls[r]
    BY <1>1 DEF Slots, TurnsOf, workerVars
  <2> QED
    BY <1>1, <2>1 DEF CostInv, CallsPerClaim
<1>2. CASE AcceptRun
  <2>1. PICK q \in Runs : CreateRun(q)
    BY <1>2 DEF AcceptRun
  <2> DEFINE e == Event("run_created", "RECEIVED")
  <2>2. e \in EventType /\ e.type # "lease_acquired" /\ AppendEvent(q, e)
    BY <2>1 DEF CreateRun, Event, EventType, EventTypes, RunState, ActiveStates
  <2> HIDE DEF e
  <2>3. \A r \in Runs : Claims(r)' = Claims(r)
    BY <2>2, AppendClaims DEF TypeInv
  <2> QED
    BY <1>1, <1>2, <2>3 DEF AcceptRun
<1>3. CASE Tick \/ UNCHANGED vars
  <2>1. UNCHANGED workerVars /\ events' = events
    BY <1>3 DEF Tick, Elapse, vars, storeVars
  <2>2. \A r \in Runs : Claims(r)' = Claims(r)
    BY <2>1 DEF Claims
  <2> QED
    BY <1>1, <2>1, <2>2
<1>4. ASSUME NEW v \in Workers, Work(v) \/ Fault(v) \/ Crash(v)
      PROVE  CostInv'
  <2>1. CASE ClaimRun(v)
    BY <2>1, ClaimKeeps
  <2>2. CASE ~ClaimRun(v)
    <3>1. WorkerGood(v)
      BY DEF RecordInv
    <3>2. Spending(v)
      BY <1>4, <2>2, <3>1, WorkSpends
    <3> QED
      BY <1>4, <3>2, SpendingKeeps
  <2> QED
    BY <2>1, <2>2
<1> QED
  BY <1>2, <1>3, <1>4 DEF Next

\* A claim of a baseline run asks the model once at the most and one of an agent
\* run three times (engine.py _advance_baseline, _execute_response_supervisor),
\* whatever fails, crashes, expires or is claimed again: what has been asked and
\* what the workers may still ask never exceeds what the claims allow.
THEOREM ModelCalls == Spec => []ModelCallsBounded
<1>1. TypeInv /\ RecordInv /\ CostInv /\ [Next]_vars /\ TypeInv' => CostInv'
  BY NextCost
<1>2. TypeInv /\ CostInv => ModelCallsBounded
  <2> SUFFICES ASSUME TypeInv, CostInv, NEW r \in Runs
               PROVE  modelCalls[r] <= CallsPerClaim(r) * Claims(r)
    BY DEF ModelCallsBounded
  <2>1. modelCalls[r] + Cardinality(Slots(r)) <= CallsPerClaim(r) * Claims(r)
    BY DEF CostInv
  <2>2. Cardinality(Slots(r)) \in Nat
    BY FS_CardinalityType DEF CostInv
  <2>3. Claims(r) \in Nat
    <3>1. events[r] \in Seq(EventType)
      BY DEF TypeInv, TypeOK, EventType
    <3> QED
      BY <3>1, ClaimsAreCounted DEF Claims, ClaimsIn
  <2>4. modelCalls[r] \in Nat /\ CallsPerClaim(r) \in {1, 3}
    BY DEF TypeInv, TypeOK, CallsPerClaim
  <2> QED
    BY <2>1, <2>2, <2>3, <2>4
<1> QED
  BY <1>1, <1>2, InitCost, RecordAlways, PTL DEF Spec

(***************************************************************************)
(* What is left to the human reviewer                                      *)
(***************************************************************************)

\* The states the engine moves a run to: the decisions of a reviewer and the
\* export are not among them.
EngineStates ==
  {"SOURCE_CHECK", "VERIFIED", "DATA_SNAPSHOT", "IMPACT_ANALYSIS", "ACTION_DRAFTING",
   "EVIDENCE_VERIFICATION", "AWAITING_HUMAN_REVIEW", "BLOCKED"}

EngineCalls(q) == \A i \in DOMAIN q : q[i].op = "transition" => q[i].to \in EngineStates

EngineInv == \A w \in Workers : EngineCalls(calls[w])

LEMMA EngineLists ==
  ASSUME NEW s \in EngineStates, NEW n, NEW c
  PROVE  /\ EngineCalls(<< >>) /\ EngineCalls(<<Renew>>) /\ EngineCalls(<<Progress>>)
         /\ EngineCalls(<<Release>>) /\ EngineCalls(<<Move(s)>>) /\ EngineCalls(<<Store(n, c)>>)
  BY DEF EngineCalls, Renew, Progress, Release, Move, Store

LEMMA EnginePairs ==
  ASSUME NEW s \in EngineStates, NEW n, NEW c
  PROVE  EngineCalls(<<Store(n, c), Move(s)>>) /\ EngineCalls(<<Store(n, c), Progress>>)
  BY DEF EngineCalls, Progress, Move, Store

LEMMA EngineTriples ==
  ASSUME NEW s \in EngineStates, NEW n, NEW c, NEW m, NEW d
  PROVE  /\ EngineCalls(<<Progress, Store(n, c), Move(s)>>)
         /\ EngineCalls(<<Store(n, c), Progress, Move(s)>>)
         /\ EngineCalls(<<Store(n, c), Store(m, d), Move(s)>>)
  BY DEF EngineCalls, Progress, Move, Store

LEMMA EngineTail ==
  ASSUME NEW q \in Seq(Calls), q # << >>, EngineCalls(q)
  PROVE  EngineCalls(Tail(q))
<1>1. /\ Len(q) \in Nat \ {0} /\ DOMAIN q = 1..Len(q) /\ DOMAIN Tail(q) = 1..Len(q) - 1
      /\ \A i \in 1..Len(q) - 1 : Tail(q)[i] = q[i + 1]
  BY HeadTailProperties, LenProperties, EmptySeq
<1>2. \A i \in DOMAIN Tail(q) : i + 1 \in DOMAIN q /\ Tail(q)[i] = q[i + 1]
  BY <1>1
<1> QED
  BY <1>2 DEF EngineCalls

\* The worker that makes the step.
LEMMA EngineStep ==
  ASSUME TypeInv, EngineInv, NEW v \in Workers, Work(v) \/ Fault(v) \/ Crash(v)
  PROVE  EngineCalls(calls'[v])
<1>0. calls \in [Workers -> Seq(Calls)] /\ EngineCalls(calls[v])
  BY DEF TypeInv, TypeOK, EngineInv
<1>1. ASSUME NEW cs, EngineCalls(cs), NEW l, Continue(v, cs, l)
      PROVE  EngineCalls(calls'[v])
  BY <1>0, <1>1 DEF Continue
<1>2. ASSUME Raise(v) \/ \E l : Stop(v, l)
      PROVE  EngineCalls(calls'[v])
  BY <1>0, <1>2, EngineLists DEF Raise, Stop, Unwind, EngineStates
<1>3. ASSUME calls' = [calls EXCEPT ![v] = Tail(@)], Calling(v)
      PROVE  EngineCalls(calls'[v])
  BY <1>0, <1>3, EngineTail DEF Calling
<1>4. CASE Fault(v) \/ Crash(v)
  BY <1>2, <1>4 DEF Fault, Crash
<1>5. CASE Control(v)
  BY <1>0, <1>1, <1>2, <1>5, EngineLists
  DEF Control, ClaimRun, Loop, HandleError, Finally, Return, EngineStates
<1>6. CASE Repository(v)
  BY <1>0, <1>2, <1>3, <1>6
  DEF Repository, Check, CheckStore, CommitRenew, CommitRelease, CommitTransition, CommitProgress,
      CommitStore, Begin, EndCall, Committing
<1>7. CASE BaselineStep(v)
  <2>1. CASE AdvanceBaseline(v)
    <3>1. BaselineMoves[task[v].stage] \in EngineStates
      BY <2>1 DEF AdvanceBaseline, BaselineMoves, EngineStates
    <3> QED
      BY <1>1, <2>1, <3>1, EngineLists DEF AdvanceBaseline
  <2>2. CASE ExecuteBaseline(v)
    <3>1. PICK outcome \in BaselineOutcomes :
            Continue(v,
              <<Store("baseline_run", BaselineRun(task[v].claim, outcome))>> \o
              IF outcome = "completed"
              THEN <<Move("EVIDENCE_VERIFICATION")>>
              ELSE <<Store("baseline_evaluation", Evaluation(task[v].claim)), Move("BLOCKED")>>,
              "loop")
      BY <2>2 DEF ExecuteBaseline
    <3> DEFINE c == BaselineRun(task[v].claim, outcome)
               e == Evaluation(task[v].claim)
               p == <<Store("baseline_run", c), Move("EVIDENCE_VERIFICATION")>>
               q == <<Store("baseline_run", c), Store("baseline_evaluation", e), Move("BLOCKED")>>
    <3> HIDE DEF c, e
    <3>2. Continue(v, p, "loop") \/ Continue(v, q, "loop")
      <4>1. /\ p = <<Store("baseline_run", c)>> \o <<Move("EVIDENCE_VERIFICATION")>>
            /\ q = <<Store("baseline_run", c)>> \o <<Store("baseline_evaluation", e), Move("BLOCKED")>>
        OBVIOUS
      <4> QED BY <3>1, <4>1 DEF c, e
    <3>3. EngineCalls(p) /\ EngineCalls(q)
      BY EnginePairs, EngineTriples DEF EngineStates
    <3> HIDE DEF p, q
    <3> QED
      BY <1>1, <3>2, <3>3
  <2>3. CASE WriteBaselineEvaluation(v)
    <3>1. \A n, c : EngineCalls(<<Store(n, c), Move("AWAITING_HUMAN_REVIEW")>>)
      BY EnginePairs DEF EngineStates
    <3> QED
      BY <1>1, <1>2, <2>3, <3>1 DEF WriteBaselineEvaluation, Fail
  <2> QED
    BY <1>7, <2>1, <2>2, <2>3 DEF BaselineStep
<1>8. CASE AgentStep(v)
  <2>1. CASE AcceptAgentRun(v) \/ VerifyAgentSources(v) \/ PinSnapshot(v) \/ StartImpactAnalysis(v)
             \/ ExecuteResponseSupervisor(v) \/ DraftResponse(v)
    BY <1>1, <1>2, <2>1, EngineLists
    DEF AcceptAgentRun, VerifyAgentSources, PinSnapshot, StartImpactAnalysis,
        ExecuteResponseSupervisor, DraftResponse, Fail, EngineStates
  <2>2. CASE Verdict(v)
    BY <1>1, <2>2, EngineLists DEF Verdict, Passed, Exhausted, RevisionRequested, EngineStates
  <2>3. CASE RetrieveSources(v)
    <3>1. PICK status \in SourceOutcomes :
            Continue(v, <<Store("source_evidence_package", EvidencePackage(task[v].claim, status)),
                          Move(IF status = "conflicting" THEN "BLOCKED" ELSE "VERIFIED")>>, "loop")
      BY <2>3 DEF RetrieveSources
    <3>2. \A n, c : \A s \in EngineStates : EngineCalls(<<Store(n, c), Move(s)>>)
      BY EnginePairs
    <3> QED
      BY <1>1, <3>1, <3>2 DEF EngineStates
  <2>4. CASE ReviewDraft(v)
    <3>1. \A n, c : EngineCalls(<<Store(n, c), Progress>>)
      BY EnginePairs DEF EngineStates
    <3> QED
      BY <1>1, <2>4, <3>1 DEF ReviewDraft
  <2>5. CASE AnalyzeImpacts(v)
    <3>1. \A n, c : EngineCalls(<<Progress, Store(n, c), Move("ACTION_DRAFTING")>>)
      BY EngineTriples DEF EngineStates
    <3> QED
      BY <1>1, <1>2, <2>5, <3>1 DEF AnalyzeImpacts, Fail
  <2>6. CASE EvaluateResponseSupervisor(v)
    <3>1. \A n, c : EngineCalls(<<Progress, Store(n, c), Move("AWAITING_HUMAN_REVIEW")>>)
      BY EngineTriples DEF EngineStates
    <3> QED
      BY <1>1, <1>2, <2>6, <3>1 DEF EvaluateResponseSupervisor, Fail
  <2>7. CASE FinishDraft(v)
    <3>1. \A n, c : \A s \in EngineStates : EngineCalls(<<Store(n, c), Progress, Move(s)>>)
      BY EngineTriples
    <3> QED
      BY <1>1, <2>7, <3>1 DEF FinishDraft, EngineStates
  <2> QED
    BY <1>8, <2>1, <2>2, <2>3, <2>4, <2>5, <2>6, <2>7 DEF AgentStep
<1> QED
  BY <1>4, <1>5, <1>6, <1>7, <1>8 DEF Work

LEMMA NextEngine ==
  ASSUME TypeInv, EngineInv, [Next]_vars
  PROVE  EngineInv'
<1>1. CASE UNCHANGED workerVars
  BY <1>1 DEF workerVars, EngineInv
<1>2. ASSUME NEW v \in Workers, Work(v) \/ Fault(v) \/ Crash(v), NEW w \in Workers
      PROVE  EngineCalls(calls'[w])
  <2>1. CASE w = v
    BY <1>2, <2>1, EngineStep
  <2>2. CASE w # v
    BY <1>2, <2>2, StepOthers DEF EngineInv
  <2> QED
    BY <2>1, <2>2
<1> QED
  BY <1>1, <1>2 DEF Next, AcceptRun, Tick, vars, EngineInv

LEMMA EngineAlways == Spec => []EngineInv
<1>1. Init => EngineInv
  BY DEF Init, EngineInv, EngineCalls
<1>2. TypeInv /\ EngineInv /\ [Next]_vars => EngineInv'
  BY NextEngine
<1> QED
  BY <1>1, <1>2, RecordAlways, PTL DEF Spec

\* A run that waits for a reviewer, or is blocked, rejected or exported, stays so.
SettledIsFinal == [][\A r \in Runs : Settled(r) => state'[r] = state[r]]_vars

\* As long as no worker is suspended inside a call past its lease, no worker moves
\* a settled run, late calls and the except clause's move to BLOCKED included, and
\* none takes a reviewer's decision (engine.py process_next).
THEOREM SettledStays ==
  ASSUME PromptCommits
  PROVE  Spec => SettledIsFinal
<1>1. ASSUME TypeInv, HolderInv, EngineInv, [Next]_vars, NEW r \in Runs, Settled(r), state'[r] # state[r]
      PROVE  FALSE
  <2>1. PICK v \in Workers : CommitTransition(v) /\ Run(v) = r
    BY <1>1, StateSteps DEF Settled, SettledStates, TerminalStates
  <2>2. Call(v).to \in AllowedTransitions[state[r]]
    BY <1>1, <2>1, TransitionAdmitted
  <2>3. Call(v).to \in EngineStates
    <3>1. /\ calls[v] # << >> /\ Call(v).op = "transition" /\ Call(v) = Head(calls[v])
          /\ EngineCalls(calls[v]) /\ calls[v] \in Seq(Calls)
      BY <1>1, <2>1 DEF CommitTransition, Committing, Calling, Call, EngineInv, TypeInv, TypeOK
    <3>2. 1 \in DOMAIN calls[v] /\ Head(calls[v]) = calls[v][1]
      BY <3>1, HeadTailProperties, LenProperties, EmptySeq
    <3> QED
      BY <3>1, <3>2 DEF EngineCalls
  <2>4. AllowedTransitions[state[r]] \in {{}, {"APPROVED", "REVISION_REQUESTED", "REJECTED"}}
    BY <1>1 DEF Settled, SettledStates, TerminalStates, AllowedTransitions, RunState
  <2> QED
    BY <2>2, <2>3, <2>4 DEF EngineStates
<1>2. TypeInv /\ HolderInv /\ EngineInv /\ [Next]_vars =>
        [\A r \in Runs : Settled(r) => state'[r] = state[r]]_vars
  BY <1>1
<1>3. Spec => [](TypeInv /\ HolderInv)
  BY HolderAlways
<1> QED
  BY <1>2, <1>3, EngineAlways, PTL DEF Spec, SettledIsFinal

(***************************************************************************)
(* Claims end                                                              *)
(***************************************************************************)

\* How far a stage is from review; a settled run is there.
StageRank(s) ==
  CASE s = "RECEIVED"              -> 8
    [] s = "SOURCE_CHECK"          -> 7
    [] s = "VERIFIED"              -> 6
    [] s = "DATA_SNAPSHOT"         -> 5
    [] s = "IMPACT_ANALYSIS"       -> 4
    [] s = "ACTION_DRAFTING"       -> 3
    [] s = "EVIDENCE_VERIFICATION" -> 2
    [] OTHER                       -> 1

\* How far the code at label l is from the end of process_next, with the calls q
\* still to make before it: far enough apart for the steps of the calls between.
Distance(l, q, t) ==
  CASE l = "loop"     -> 1000 * StageRank(NextStage(q, t)) + 900
    [] l = "advance"  -> 1000 * StageRank(NextStage(q, t)) + 800
    [] l = "retrieve" -> 7700
    [] l = "draft"    -> 3700 - 100 * t.attempt
    [] l = "review"   -> 3670 - 100 * t.attempt
    [] l = "verdict"  -> 3640 - 100 * t.attempt
    [] l = "drafted"  -> 3300
    [] l = "failed"   -> 800
    [] l = "finally"  -> 600
    [] l = "exit"     -> 400
    [] OTHER          -> 0

\* Each call is two steps, of which an open one has made the first.
CallSteps(q, x) == 2 * Len(q) + (IF x.open THEN 0 ELSE 1)

Rank(w) == Distance(pc[w], calls[w], task[w]) + CallSteps(calls[w], txn[w])

\* Once it has claimed a run, each step a worker takes brings it closer to the end
\* of process_next, and nothing anybody else does takes it further away: no loop
\* of the stages, of the revisions or of error handling goes on for ever.
ClaimsEnd ==
  [][\A w \in Workers : ~ClaimRun(w) =>
       /\ Rank(w)' <= Rank(w)
       /\ Work(w) => Rank(w)' < Rank(w)]_vars

Closer(v) == Rank(v)' < Rank(v)

LEMMA Distances ==
  ASSUME NEW l, NEW q, NEW t \in TaskType
  PROVE  /\ Distance(l, q, t) \in Nat
         /\ l \in {"loop", "advance"} => Distance(l, q, t) >= 1800
         /\ l \in {"retrieve", "draft", "review", "verdict", "drafted"} => Distance(l, q, t) >= 3300
<1>1. StageRank(NextStage(q, t)) \in 1..8
  BY DEF StageRank
<1>2. t.attempt \in 0..2
  BY DEF TaskType, Attempts
<1> QED
  BY <1>1, <1>2 DEF Distance

LEMMA CallStepsAre ==
  ASSUME NEW q, NEW x, Len(q) \in Nat
  PROVE  /\ CallSteps(q, x) \in Nat
         /\ CallSteps(q, x) >= 2 * Len(q) /\ CallSteps(q, x) <= 2 * Len(q) + 1
<1> DEFINE n == Len(q)
           o == x.open
<1> HIDE DEF n, o
<1>1. n \in Nat
  BY DEF n
<1>2. CallSteps(q, x) = 2 * n + (IF o THEN 0 ELSE 1)
  BY DEF CallSteps, n, o
<1>3. CallSteps(q, x) \in Nat /\ CallSteps(q, x) >= 2 * n /\ CallSteps(q, x) <= 2 * n + 1
  BY <1>1, <1>2
<1> QED
  BY <1>3 DEF n

LEMMA Ranks ==
  ASSUME TypeInv, NEW w \in Workers
  PROVE  /\ Distance(pc[w], calls[w], task[w]) \in Nat /\ CallSteps(calls[w], txn[w]) \in Nat
         /\ Rank(w) = Distance(pc[w], calls[w], task[w]) + CallSteps(calls[w], txn[w])
         /\ Rank(w) >= Distance(pc[w], calls[w], task[w])
<1>1. task[w] \in TaskType /\ calls[w] \in Seq(Calls)
  BY DEF TypeInv, TypeOK, TaskType
<1>2. Len(calls[w]) \in Nat
  BY <1>1, LenProperties
<1>3. Distance(pc[w], calls[w], task[w]) \in Nat
  BY <1>1, Distances
<1>4. CallSteps(calls[w], txn[w]) \in Nat
  BY <1>2, CallStepsAre
<1>5. Rank(w) = Distance(pc[w], calls[w], task[w]) + CallSteps(calls[w], txn[w])
  BY DEF Rank
<1> QED
  BY <1>3, <1>4, <1>5

LEMMA RankTypes == TypeInv => \A w \in Workers : Rank(w) \in Nat
<1> SUFFICES ASSUME TypeInv, NEW w \in Workers PROVE Rank(w) \in Nat
  OBVIOUS
<1> QED BY Ranks

LEMMA RankTypesNext == TypeInv' => \A w \in Workers : Rank(w)' \in Nat
<1>1. TypeInv' => (\A w \in Workers : Rank(w) \in Nat)'
  BY RankTypes, PTL
<1> QED BY <1>1

\* Engine code that queues calls and goes on at l comes closer if l is close enough.
LEMMA ContinueCloser ==
  ASSUME TypeInv, NEW v \in Workers, calls[v] = << >>, NEW cs, NEW l, Continue(v, cs, l),
         NEW t, task'[v] = t, Len(cs) \in 0..3,
         Distance(l, cs, t) \in Nat, Distance(l, cs, t) + 10 <= Distance(pc[v], << >>, task[v])
  PROVE  Closer(v)
<1>1. pc \in [Workers -> Labels] /\ calls \in [Workers -> Seq(Calls)]
  BY DEF TypeInv, TypeOK
<1>2. pc'[v] = l /\ calls'[v] = cs /\ task'[v] = t /\ txn' = txn
  BY <1>1 DEF Continue
<1>3. Rank(v)' = Distance(l, cs, t) + CallSteps(cs, txn[v])
  BY <1>2 DEF Rank
<1>4. CallSteps(cs, txn[v]) \in 0..7
  <2> DEFINE n == Len(cs)
             k == CallSteps(cs, txn[v])
  <2>1. n \in 0..3 /\ k \in Nat /\ k <= 2 * n + 1
    BY CallStepsAre
  <2> HIDE DEF n, k
  <2>2. k \in 0..7
    BY <2>1
  <2> QED
    BY <2>2 DEF k
<1>5. Rank(v) >= Distance(pc[v], << >>, task[v]) /\ Distance(pc[v], << >>, task[v]) \in Nat
  BY Ranks
<1>6. Rank(v) \in Nat
  BY Ranks
<1> HIDE DEF Rank
<1> QED
  BY <1>3, <1>4, <1>5, <1>6 DEF Closer

LEMMA ContinueCloserSame ==
  ASSUME TypeInv, NEW v \in Workers, calls[v] = << >>, NEW cs, NEW l, Continue(v, cs, l),
         UNCHANGED task, Len(cs) \in 0..3,
         Distance(l, cs, task[v]) + 10 <= Distance(pc[v], << >>, task[v])
  PROVE  Closer(v)
<1>1. task \in [Workers -> TaskType] /\ task[v] \in TaskType
  BY DEF TypeInv, TypeOK, TaskType
<1>2. task'[v] = task[v]
  OBVIOUS
<1>3. Distance(l, cs, task[v]) \in Nat
  BY <1>1, Distances
<1> QED
  BY <1>2, <1>3, ContinueCloser

\* An exception leads to the next of the clauses that wait for it.
LEMMA RaiseCloser ==
  ASSUME TypeInv, NEW v \in Workers, ~Idle(v), Raise(v)
  PROVE  Closer(v)
<1>1. /\ pc \in [Workers -> Labels] /\ calls \in [Workers -> Seq(Calls)] /\ task \in [Workers -> TaskType]
      /\ task[v] \in TaskType /\ txn \in [Workers -> TxnType] /\ calls[v] \in Seq(Calls)
  BY DEF TypeInv, TypeOK, TaskType, TxnType
<1>2. ASSUME NEW l \in {"failed", "finally", "dead"}, Unwind(v, l)
      PROVE  Rank(v)' = (IF l = "failed" THEN 800 ELSE IF l = "finally" THEN 600 ELSE 0) + 1
  <2>1. pc'[v] = l /\ calls'[v] = << >> /\ txn'[v] = Closed
    BY <1>1, <1>2 DEF Unwind
  <2>2. CallSteps(calls'[v], txn'[v]) = 1
    BY <2>1 DEF CallSteps, Closed
  <2>3. Distance(pc'[v], calls'[v], task'[v]) =
          IF l = "failed" THEN 800 ELSE IF l = "finally" THEN 600 ELSE 0
    BY <2>1 DEF Distance
  <2> QED
    BY <2>2, <2>3 DEF Rank
<1>3. /\ Distance(pc[v], calls[v], task[v]) \in Nat /\ CallSteps(calls[v], txn[v]) \in Nat
      /\ Rank(v) = Distance(pc[v], calls[v], task[v]) + CallSteps(calls[v], txn[v])
  BY Ranks
<1> HIDE DEF Rank
<1>4. CASE pc[v] \notin {"failed", "finally", "exit"} /\ Unwind(v, "failed")
  <2>1. pc[v] \in {"loop", "advance", "retrieve", "draft", "review", "verdict", "drafted"}
    BY <1>1, <1>4 DEF Idle, Labels
  <2>2. Distance(pc[v], calls[v], task[v]) >= 1800
    BY <1>1, <2>1, Distances
  <2>3. Rank(v)' = 801
    BY <1>2, <1>4
  <2> QED
    BY <1>3, <2>2, <2>3 DEF Closer
<1>5. CASE At(v, "failed") /\ Unwind(v, "finally")
  <2>1. Distance(pc[v], calls[v], task[v]) = 800
    BY <1>5 DEF At, Distance
  <2>2. Rank(v)' = 601
    BY <1>2, <1>5
  <2> QED
    BY <1>3, <2>1, <2>2 DEF Closer
<1>6. CASE pc[v] = "finally" /\ calls[v] # << >> /\ Unwind(v, "finally")
  <2>1. Distance(pc[v], calls[v], task[v]) = 600
    BY <1>6 DEF Distance
  <2>2. CallSteps(calls[v], txn[v]) >= 2
    <3>1. Len(calls[v]) \in Nat /\ Len(calls[v]) # 0
      BY <1>1, <1>6, LenProperties, EmptySeq
    <3>2. CallSteps(calls[v], txn[v]) >= 2 * Len(calls[v]) /\ CallSteps(calls[v], txn[v]) \in Nat
      BY <3>1, CallStepsAre
    <3> QED
      BY <3>1, <3>2
  <2>3. Rank(v)' = 601
    BY <1>2, <1>6
  <2> QED
    BY <1>3, <2>1, <2>2, <2>3 DEF Closer
<1>7. CASE (At(v, "finally") \/ pc[v] = "exit") /\ Unwind(v, "dead")
  <2>1. Distance(pc[v], calls[v], task[v]) >= 400
    BY <1>7 DEF Distance, At
  <2>2. Rank(v)' = 1
    BY <1>2, <1>7
  <2> QED
    BY <1>3, <2>1, <2>2 DEF Closer
<1> QED
  BY <1>4, <1>5, <1>6, <1>7 DEF Raise, Stop

LEMMA Lengths ==
  ASSUME NEW a, NEW b, NEW c
  PROVE  /\ Len(<< >>) \in 0..3 /\ Len(<<a>>) \in 0..3
         /\ Len(<<a, b>>) \in 0..3 /\ Len(<<a, b, c>>) \in 0..3
  OBVIOUS

LEMMA FailCloser ==
  ASSUME TypeInv, NEW v \in Workers, Fail(v)
  PROVE  Closer(v)
  BY RaiseCloser DEF Fail, At, Idle

\* Code that goes back to the loop for a later stage.
LEMMA LaterStageCloser ==
  ASSUME TypeInv, NEW v \in Workers, NEW s, Advancing(v, s), NEW cs, Continue(v, cs, "loop"),
         UNCHANGED task, Len(cs) \in 0..3, StageRank(NextStage(cs, task[v])) < StageRank(s)
  PROVE  Closer(v)
<1>1. calls[v] = << >> /\ Distance(pc[v], << >>, task[v]) = 1000 * StageRank(s) + 800
  BY DEF Advancing, At, Distance, NextStage
<1>2. Distance("loop", cs, task[v]) = 1000 * StageRank(NextStage(cs, task[v])) + 900
  BY DEF Distance
<1>3. StageRank(s) \in 1..8 /\ StageRank(NextStage(cs, task[v])) \in 1..8
  BY DEF StageRank
<1>4. Distance("loop", cs, task[v]) + 10 <= Distance(pc[v], << >>, task[v])
  BY <1>1, <1>2, <1>3
<1> QED
  BY <1>1, <1>4, ContinueCloserSame

\* The steps of the stages, the drafting loop apart.
LEMMA StagesCloser ==
  ASSUME TypeInv, NEW v \in Workers,
         \/ AcceptAgentRun(v) \/ VerifyAgentSources(v) \/ RetrieveSources(v) \/ PinSnapshot(v)
         \/ StartImpactAnalysis(v) \/ AnalyzeImpacts(v) \/ EvaluateResponseSupervisor(v)
  PROVE  Closer(v)
<1>1. ASSUME NEW s, NEW m, Advancing(v, s), StageRank(m) < StageRank(s), UNCHANGED task,
             Continue(v, <<Move(m)>>, "loop")
      PROVE  Closer(v)
  <2>1. NextStage(<<Move(m)>>, task[v]) = m
    BY NextStages
  <2> QED
    BY <1>1, <2>1, Lengths, LaterStageCloser
<1>2. ASSUME NEW s, NEW m, NEW n, NEW c, Advancing(v, s), StageRank(m) < StageRank(s), UNCHANGED task,
             Continue(v, <<Progress, Store(n, c), Move(m)>>, "loop")
      PROVE  Closer(v)
  <2> DEFINE cs == <<Progress, Store(n, c), Move(m)>>
  <2>1. NextStage(cs, task[v]) = m /\ Len(cs) \in 0..3 /\ Continue(v, cs, "loop")
    BY <1>2, LastOfThree, Lengths
  <2> HIDE DEF cs
  <2> QED
    BY <1>2, <2>1, LaterStageCloser
<1>3. CASE AcceptAgentRun(v)
  BY <1>1, <1>3 DEF AcceptAgentRun, StageRank
<1>4. CASE VerifyAgentSources(v)
  <2>1. /\ calls[v] = << >> /\ UNCHANGED task /\ Continue(v, <<Progress>>, "retrieve")
        /\ Distance(pc[v], << >>, task[v]) = 7800
    BY <1>4 DEF VerifyAgentSources, Advancing, At, Distance, NextStage, StageRank
  <2>2. Distance("retrieve", <<Progress>>, task[v]) = 7700
    BY DEF Distance
  <2> QED
    BY <2>1, <2>2, Lengths, ContinueCloserSame
<1>5. CASE RetrieveSources(v)
  <2>1. /\ calls[v] = << >> /\ UNCHANGED task /\ Distance(pc[v], << >>, task[v]) = 7700
    BY <1>5 DEF RetrieveSources, At, Distance
  <2>2. PICK status \in SourceOutcomes :
          Continue(v, <<Store("source_evidence_package", EvidencePackage(task[v].claim, status)),
                        Move(IF status = "conflicting" THEN "BLOCKED" ELSE "VERIFIED")>>, "loop")
    BY <1>5 DEF RetrieveSources
  <2> DEFINE m == IF status = "conflicting" THEN "BLOCKED" ELSE "VERIFIED"
             cs == <<Store("source_evidence_package", EvidencePackage(task[v].claim, status)), Move(m)>>
  <2>3. StageRank(m) \in 1..6
    BY DEF StageRank
  <2> HIDE DEF m
  <2>4. NextStage(cs, task[v]) = m /\ Len(cs) \in 0..3
    BY LastOfTwo, Lengths
  <2>5. Continue(v, cs, "loop")
    BY <2>2 DEF m
  <2> HIDE DEF cs
  <2>6. Distance("loop", cs, task[v]) = 1000 * StageRank(m) + 900
    BY <2>4 DEF Distance
  <2> QED
    BY <2>1, <2>3, <2>4, <2>5, <2>6, ContinueCloserSame
<1>6. CASE PinSnapshot(v)
  BY <1>1, <1>6, FailCloser DEF PinSnapshot, StageRank
<1>7. CASE StartImpactAnalysis(v)
  BY <1>1, <1>7 DEF StartImpactAnalysis, StageRank
<1>8. CASE AnalyzeImpacts(v)
  <2>1. StageRank("ACTION_DRAFTING") < StageRank("IMPACT_ANALYSIS")
    BY DEF StageRank
  <2> QED
    BY <1>2, <1>8, <2>1, FailCloser DEF AnalyzeImpacts
<1>9. CASE EvaluateResponseSupervisor(v)
  <2>1. StageRank("AWAITING_HUMAN_REVIEW") < StageRank("EVIDENCE_VERIFICATION")
    BY DEF StageRank
  <2> QED
    BY <1>2, <1>9, <2>1, FailCloser DEF EvaluateResponseSupervisor
<1> QED
  BY <1>3, <1>4, <1>5, <1>6, <1>7, <1>8, <1>9

\* Each turn of the drafting loop has a larger number, of three.
LEMMA DraftingCloser ==
  ASSUME TypeInv, NEW v \in Workers,
         \/ ExecuteResponseSupervisor(v) \/ DraftResponse(v) \/ ReviewDraft(v)
         \/ Verdict(v) \/ FinishDraft(v)
  PROVE  Closer(v)
<1>0. task[v] \in TaskType /\ task[v].attempt \in 0..2 /\ task \in [Workers -> TaskType]
  BY DEF TypeInv, TypeOK, TaskType, Attempts
<1>1. CASE ExecuteResponseSupervisor(v)
  <2>1. CASE Continue(v, <<Progress>>, "draft") /\ task' = [task EXCEPT ![v].attempt = 0]
    <3> DEFINE t == [task[v] EXCEPT !.attempt = 0]
    <3>1. task'[v] = t /\ t.attempt = 0
      BY <1>0, <2>1 DEF TaskType
    <3>2. Distance("draft", <<Progress>>, t) = 3700
      BY <3>1 DEF Distance
    <3> HIDE DEF t
    <3>3. calls[v] = << >> /\ Distance(pc[v], << >>, task[v]) = 3800
      BY <1>1 DEF ExecuteResponseSupervisor, Advancing, At, Distance, NextStage, StageRank
    <3> QED
      BY <2>1, <3>1, <3>2, <3>3, Lengths, ContinueCloser
  <2> QED
    BY <1>1, <2>1, FailCloser DEF ExecuteResponseSupervisor
<1>2. CASE DraftResponse(v)
  <2>1. PICK outcome, draft :
          /\ Continue(v, <<Store(DraftName(task[v].attempt), draft)>>,
                      IF outcome = "failed" THEN "drafted" ELSE "review")
          /\ task' = [task EXCEPT ![v].draft = draft]
    BY <1>2 DEF DraftResponse
  <2> DEFINE t == [task[v] EXCEPT !.draft = draft]
             l == IF outcome = "failed" THEN "drafted" ELSE "review"
             cs == <<Store(DraftName(task[v].attempt), draft)>>
  <2>2. task'[v] = t /\ t.attempt = task[v].attempt
    BY <1>0, <2>1 DEF TaskType
  <2>3. Distance(l, cs, t) \in {3300, 3670 - 100 * task[v].attempt}
    BY <2>2 DEF Distance
  <2>4. Continue(v, cs, l) /\ Len(cs) \in 0..3
    BY <2>1, Lengths
  <2> HIDE DEF t, l, cs
  <2>5. calls[v] = << >> /\ Distance(pc[v], << >>, task[v]) = 3700 - 100 * task[v].attempt
    BY <1>2 DEF DraftResponse, At, Distance
  <2>6. Distance(l, cs, t) \in Nat /\ Distance(l, cs, t) + 10 <= Distance(pc[v], << >>, task[v])
    BY <1>0, <2>3, <2>5
  <2> QED
    BY <2>2, <2>4, <2>5, <2>6, ContinueCloser
<1>3. CASE ReviewDraft(v)
  <2> DEFINE cs == <<Store("evidence_safety_review", SafetyReview(task[v].draft)), Progress>>
  <2>1. Continue(v, cs, "verdict") /\ Len(cs) \in 0..3 /\ UNCHANGED task
    BY <1>3, Lengths DEF ReviewDraft
  <2> HIDE DEF cs
  <2>2. calls[v] = << >> /\ Distance(pc[v], << >>, task[v]) = 3670 - 100 * task[v].attempt
    BY <1>3 DEF ReviewDraft, At, Distance
  <2>3. Distance("verdict", cs, task[v]) = 3640 - 100 * task[v].attempt
    BY DEF Distance
  <2> QED
    BY <1>0, <2>1, <2>2, <2>3, ContinueCloserSame
<1>4. CASE Verdict(v)
  <2>1. calls[v] = << >> /\ Distance(pc[v], << >>, task[v]) = 3640 - 100 * task[v].attempt
    BY <1>4 DEF Verdict, At, Distance
  <2>2. CASE Passed(v)
    <3>1. PICK cs : Continue(v, cs, "drafted") /\ Len(cs) \in 0..3
      BY <2>2, Lengths DEF Passed
    <3>2. Distance("drafted", cs, task[v]) = 3300 /\ UNCHANGED task
      BY <2>2 DEF Distance, Passed
    <3> QED
      BY <1>0, <2>1, <3>1, <3>2, ContinueCloserSame
  <2>3. CASE Exhausted(v)
    <3>1. Distance("loop", <<Move("BLOCKED")>>, task[v]) = 1900
      BY NextStages DEF Distance, StageRank
    <3> QED
      BY <1>0, <2>1, <2>3, <3>1, Lengths, ContinueCloserSame DEF Exhausted
  <2>4. CASE RevisionRequested(v)
    <3> DEFINE t == [task[v] EXCEPT !.attempt = @ + 1]
    <3>1. task'[v] = t /\ t.attempt = task[v].attempt + 1
      BY <1>0, <2>4 DEF TaskType, RevisionRequested
    <3>2. Distance("draft", <<Progress>>, t) = 3700 - 100 * (task[v].attempt + 1)
      BY <3>1 DEF Distance
    <3> HIDE DEF t
    <3>3. Continue(v, <<Progress>>, "draft") /\ task[v].attempt < 2
      BY <2>4 DEF RevisionRequested
    <3>4. /\ Distance("draft", <<Progress>>, t) \in Nat
          /\ Distance("draft", <<Progress>>, t) + 10 <= Distance(pc[v], << >>, task[v])
      BY <1>0, <2>1, <3>2, <3>3
    <3> QED
      BY <2>1, <3>1, <3>3, <3>4, Lengths, ContinueCloser
  <2> QED
    BY <1>4, <2>2, <2>3, <2>4 DEF Verdict
<1>5. CASE FinishDraft(v)
  <2> DEFINE m == IF task[v].draft.result = "failed" THEN "BLOCKED" ELSE "EVIDENCE_VERIFICATION"
             cs == <<Store("response_supervisor_run", task[v].draft), Progress, Move(m)>>
  <2>1. StageRank(m) \in 1..2
    BY DEF StageRank
  <2>2. Continue(v, cs, "loop") /\ UNCHANGED task
    BY <1>5 DEF FinishDraft
  <2> HIDE DEF m
  <2>3. NextStage(cs, task[v]) = m /\ Len(cs) \in 0..3
    BY LastOfThree, Lengths
  <2> HIDE DEF cs
  <2>4. Distance("loop", cs, task[v]) = 1000 * StageRank(m) + 900
    BY <2>3 DEF Distance
  <2>5. calls[v] = << >> /\ Distance(pc[v], << >>, task[v]) = 3300
    BY <1>5 DEF FinishDraft, At, Distance
  <2> QED
    BY <2>1, <2>2, <2>3, <2>4, <2>5, ContinueCloserSame
<1> QED
  BY <1>1, <1>2, <1>3, <1>4, <1>5

LEMMA BaselineCloser ==
  ASSUME TypeInv, NEW v \in Workers, BaselineStep(v)
  PROVE  Closer(v)
<1>1. CASE AdvanceBaseline(v)
  <2> DEFINE s == task[v].stage
             m == BaselineMoves[task[v].stage]
             cs == <<Move(BaselineMoves[task[v].stage])>>
  <2>1. Advancing(v, s) /\ Continue(v, cs, "loop") /\ UNCHANGED task
    BY <1>1 DEF AdvanceBaseline, Advancing
  <2>2. StageRank(m) < StageRank(s)
    BY <1>1 DEF AdvanceBaseline, BaselineMoves, StageRank
  <2>3. NextStage(cs, task[v]) = m /\ Len(cs) \in 0..3
    BY NextStages, Lengths
  <2> HIDE DEF s, m, cs
  <2> QED
    BY <2>1, <2>2, <2>3, LaterStageCloser
<1>2. CASE ExecuteBaseline(v)
  <2>1. PICK outcome \in BaselineOutcomes :
          Continue(v,
            <<Store("baseline_run", BaselineRun(task[v].claim, outcome))>> \o
            IF outcome = "completed"
            THEN <<Move("EVIDENCE_VERIFICATION")>>
            ELSE <<Store("baseline_evaluation", Evaluation(task[v].claim)), Move("BLOCKED")>>,
            "loop")
    BY <1>2 DEF ExecuteBaseline
  <2> DEFINE c == BaselineRun(task[v].claim, outcome)
             e == Evaluation(task[v].claim)
             p == <<Store("baseline_run", c), Move("EVIDENCE_VERIFICATION")>>
             q == <<Store("baseline_run", c), Store("baseline_evaluation", e), Move("BLOCKED")>>
  <2> HIDE DEF c, e
  <2>2. Continue(v, p, "loop") \/ Continue(v, q, "loop")
    <3>1. /\ p = <<Store("baseline_run", c)>> \o <<Move("EVIDENCE_VERIFICATION")>>
          /\ q = <<Store("baseline_run", c)>> \o <<Store("baseline_evaluation", e), Move("BLOCKED")>>
      OBVIOUS
    <3> QED BY <2>1, <3>1 DEF c, e
  <2>3. NextStage(p, task[v]) = "EVIDENCE_VERIFICATION" /\ Len(p) \in 0..3
    BY LastOfTwo, Lengths
  <2>4. NextStage(q, task[v]) = "BLOCKED" /\ Len(q) \in 0..3
    BY LastOfThree, Lengths
  <2> HIDE DEF p, q
  <2>5. Advancing(v, "ACTION_DRAFTING") /\ UNCHANGED task
    BY <1>2 DEF ExecuteBaseline
  <2>6. /\ StageRank("EVIDENCE_VERIFICATION") < StageRank("ACTION_DRAFTING")
        /\ StageRank("BLOCKED") < StageRank("ACTION_DRAFTING")
    BY DEF StageRank
  <2> QED
    BY <2>2, <2>3, <2>4, <2>5, <2>6, LaterStageCloser
<1>3. CASE WriteBaselineEvaluation(v)
  <2> DEFINE q == <<Store("baseline_evaluation", Evaluation(task[v].claim)), Move("AWAITING_HUMAN_REVIEW")>>
  <2>1. Fail(v) \/ (Continue(v, q, "loop") /\ UNCHANGED task)
    BY <1>3 DEF WriteBaselineEvaluation
  <2>2. NextStage(q, task[v]) = "AWAITING_HUMAN_REVIEW" /\ Len(q) \in 0..3
    BY LastOfTwo, Lengths
  <2> HIDE DEF q
  <2>3. Advancing(v, "EVIDENCE_VERIFICATION")
    BY <1>3 DEF WriteBaselineEvaluation
  <2>4. StageRank("AWAITING_HUMAN_REVIEW") < StageRank("EVIDENCE_VERIFICATION")
    BY DEF StageRank
  <2> QED
    BY <2>1, <2>2, <2>3, <2>4, LaterStageCloser, FailCloser
<1> QED
  BY <1>1, <1>2, <1>3 DEF BaselineStep

LEMMA ControlCloser ==
  ASSUME TypeInv, NEW v \in Workers, Loop(v) \/ HandleError(v) \/ Finally(v) \/ Return(v)
  PROVE  Closer(v)
<1>0. task[v] \in TaskType /\ task \in [Workers -> TaskType]
  BY DEF TypeInv, TypeOK, TaskType
<1>1. \A cs, t : Distance("finally", cs, t) = 600 /\ Distance("exit", cs, t) = 400
  BY DEF Distance
<1>2. CASE Loop(v)
  <2>1. calls[v] = << >> /\ Distance(pc[v], << >>, task[v]) = 1000 * StageRank(task[v].stage) + 900
    BY <1>2 DEF Loop, At, Distance, NextStage
  <2>2. Distance("advance", <<Renew>>, task[v]) = 1000 * StageRank(task[v].stage) + 800
    BY NextStages DEF Distance
  <2>3. StageRank(task[v].stage) \in 1..8
    BY DEF StageRank
  <2>4. CASE Continue(v, <<Renew>>, "advance")
    <3>1. Distance("advance", <<Renew>>, task[v]) + 10 <= Distance(pc[v], << >>, task[v])
      BY <2>1, <2>2, <2>3
    <3> QED
      BY <1>2, <2>1, <2>4, <3>1, Lengths, ContinueCloserSame DEF Loop
  <2>5. CASE Continue(v, << >>, "finally")
    <3>1. Distance("finally", << >>, task[v]) + 10 <= Distance(pc[v], << >>, task[v])
      BY <1>1, <2>1, <2>3
    <3> QED
      BY <1>2, <2>1, <2>5, <3>1, Lengths, ContinueCloserSame DEF Loop
  <2> QED
    BY <1>2, <2>4, <2>5 DEF Loop
<1>3. CASE HandleError(v)
  <2>1. calls[v] = << >> /\ Distance(pc[v], << >>, task[v]) = 800
    BY <1>3 DEF HandleError, At, Distance
  <2>2. PICK cs : Continue(v, cs, "finally") /\ Len(cs) \in 0..3
    BY <1>3, Lengths DEF HandleError
  <2>3. Distance("finally", cs, task'[v]) = 600
    BY <1>1
  <2> QED
    BY <2>1, <2>2, <2>3, ContinueCloser
<1>4. CASE Finally(v)
  <2>1. calls[v] = << >> /\ Distance(pc[v], << >>, task[v]) = 600
    BY <1>4 DEF Finally, At, Distance
  <2>2. PICK cs : Continue(v, cs, "exit") /\ Len(cs) \in 0..3
    BY <1>4, Lengths DEF Finally
  <2>3. Distance("exit", cs, task'[v]) = 400
    BY <1>1
  <2> QED
    BY <2>1, <2>2, <2>3, ContinueCloser
<1>5. CASE Return(v)
  <2>1. Distance(pc[v], calls[v], task[v]) = 400
    BY <1>1, <1>5 DEF Return, At
  <2>2. /\ pc \in [Workers -> Labels] /\ calls \in [Workers -> Seq(Calls)] /\ txn \in [Workers -> TxnType]
    BY DEF TypeInv, TypeOK, TxnType
  <2>3. pc'[v] \in {"idle", "dead"} /\ calls'[v] = << >> /\ txn'[v] = Closed
    BY <1>5, <2>2 DEF Return, Stop, Unwind
  <2>4. CallSteps(calls'[v], txn'[v]) = 1
    BY <2>3 DEF CallSteps, Closed
  <2>5. Distance(pc'[v], calls'[v], task'[v]) = 0
    BY <2>3 DEF Distance
  <2>6. Rank(v)' = 1
    BY <2>4, <2>5 DEF Rank
  <2>7. Rank(v) >= 400 /\ Rank(v) \in Nat
    BY <2>1, Ranks
  <2> HIDE DEF Rank
  <2> QED
    BY <2>6, <2>7 DEF Closer
<1> QED
  BY <1>2, <1>3, <1>4, <1>5

\* A call is opened, or it is over.
LEMMA RepositoryCloser ==
  ASSUME TypeInv, NEW v \in Workers, WorkerGood(v), Repository(v)
  PROVE  Closer(v)
<1>0. /\ calls[v] # << >> /\ calls \in [Workers -> Seq(Calls)] /\ calls[v] \in Seq(Calls)
      /\ task \in [Workers -> TaskType] /\ task[v] \in TaskType /\ txn \in [Workers -> TxnType]
      /\ pc \in [Workers -> Labels] /\ ~Idle(v)
  <2>1. calls[v] # << >>
    BY DEF Repository, Check, CheckStore, CommitRenew, CommitRelease, CommitTransition,
           CommitProgress, CommitStore, Committing, Guarded, Calling
  <2> QED
    BY <2>1 DEF TypeInv, TypeOK, TaskType, TxnType, Working, WorkingAt
<1>1. /\ Len(calls[v]) \in Nat \ {0} /\ Len(Tail(calls[v])) = Len(calls[v]) - 1
      /\ Tail(calls[v]) \in Seq(Calls) /\ Head(calls[v]) = calls[v][1]
      /\ DOMAIN calls[v] = 1..Len(calls[v])
  BY <1>0, HeadTailProperties, LenProperties, EmptySeq
<1>2. /\ Distance(pc[v], calls[v], task[v]) \in Nat /\ CallSteps(calls[v], txn[v]) \in Nat
      /\ Rank(v) = Distance(pc[v], calls[v], task[v]) + CallSteps(calls[v], txn[v])
  BY Ranks
<1>3. ASSUME Distance(pc[v], calls[v], task[v])' = Distance(pc[v], calls[v], task[v]),
             CallSteps(calls[v], txn[v])' < CallSteps(calls[v], txn[v]), CallSteps(calls[v], txn[v])' \in Nat
      PROVE  Closer(v)
  <2>1. Rank(v)' = Distance(pc[v], calls[v], task[v]) + CallSteps(calls[v], txn[v])'
    BY <1>3 DEF Rank
  <2> HIDE DEF Rank
  <2> QED
    BY <1>2, <1>3, <2>1 DEF Closer
<1>4. CASE Raise(v)
  BY <1>0, <1>4, RaiseCloser
<1>5. CASE Begin(v) /\ ~txn[v].open
  <2>1. pc' = pc /\ task' = task /\ calls' = calls /\ txn'[v].open
    BY <1>0, <1>5 DEF Begin
  <2>2. CallSteps(calls[v], txn[v])' = 2 * Len(calls[v]) /\ CallSteps(calls[v], txn[v]) = 2 * Len(calls[v]) + 1
    BY <1>5, <2>1 DEF CallSteps
  <2> QED
    BY <1>1, <1>3, <2>1, <2>2
<1>6. ASSUME calls' = [calls EXCEPT ![v] = Tail(@)],
             \/ txn' = [txn EXCEPT ![v] = Closed]
             \/ UNCHANGED txn /\ ~txn[v].open
      PROVE  CallSteps(calls[v], txn[v])' < CallSteps(calls[v], txn[v]) /\ CallSteps(calls[v], txn[v])' \in Nat
  <2>1. calls'[v] = Tail(calls[v]) /\ ~txn'[v].open
    BY <1>0, <1>6 DEF Closed
  <2>2. CallSteps(calls[v], txn[v])' = 2 * (Len(calls[v]) - 1) + 1
    BY <1>1, <2>1 DEF CallSteps
  <2>3. CallSteps(calls[v], txn[v]) >= 2 * Len(calls[v])
    BY <1>1, CallStepsAre
  <2> QED
    BY <1>1, <1>2, <2>2, <2>3
<1>7. ASSUME calls' = [calls EXCEPT ![v] = Tail(@)], UNCHANGED <<pc, task>>, Call(v).op # "transition"
      PROVE  Distance(pc[v], calls[v], task[v])' = Distance(pc[v], calls[v], task[v])
  <2>1. calls'[v] = Tail(calls[v]) /\ pc'[v] = pc[v] /\ task'[v] = task[v]
    BY <1>0, <1>7
  <2>2. NextStage(Tail(calls[v]), task[v]) = NextStage(calls[v], task[v])
    BY <1>0, <1>7, NextOfTail DEF Call
  <2>3. Distance(pc[v], Tail(calls[v]), task[v]) = Distance(pc[v], calls[v], task[v])
    BY <2>2 DEF Distance
  <2> QED
    BY <2>1, <2>3
<1>8. CASE CommitTransition(v)
  <2>1. /\ Head(calls[v]).op = "transition" /\ pc' = pc
        /\ calls' = [calls EXCEPT ![v] = Tail(@)] /\ txn' = [txn EXCEPT ![v] = Closed]
        /\ task' = [task EXCEPT ![v].stage = Head(calls[v]).to]
    BY <1>8 DEF CommitTransition, Committing, EndCall, Call
  <2>2. 1 = Len(calls[v]) /\ pc[v] \in {"loop", "finally"}
    <3>1. CallsGood(artifacts[Run(v)], calls[v], pc[v], task[v].run)
      BY <1>0 DEF WorkerGood, Good
    <3>2. 1 \in DOMAIN calls[v] /\ calls[v][1].op = "transition"
      BY <1>1, <2>1
    <3> QED
      BY <3>1, <3>2 DEF CallsGood
  <2>3. Tail(calls[v]) = << >>
    BY <1>0, <2>2, NothingBehind
  <2>4. calls'[v] = << >> /\ task'[v].stage = Head(calls[v]).to /\ pc'[v] = pc[v]
    BY <1>0, <2>1, <2>3 DEF TaskType
  <2>5. NextStage(calls[v], task[v]) = Head(calls[v]).to
    BY <1>0, <1>1, <2>1, <2>2 DEF NextStage
  <2>6. NextStage(calls'[v], task'[v]) = NextStage(calls[v], task[v])
    BY <2>4, <2>5 DEF NextStage
  <2>7. Distance(pc[v], calls[v], task[v])' = Distance(pc[v], calls[v], task[v])
    BY <2>2, <2>4, <2>6 DEF Distance
  <2> QED
    BY <1>3, <1>6, <2>1, <2>7
<1>9. CASE Check(v)
  BY <1>4, <1>5, <1>9 DEF Check
<1>10. CASE CheckStore(v)
  BY <1>3, <1>4, <1>5, <1>6, <1>7, <1>10 DEF CheckStore
<1>11. CASE CommitRenew(v) \/ CommitRelease(v)
  BY <1>3, <1>6, <1>7, <1>11 DEF CommitRenew, CommitRelease, Committing, EndCall
<1>12. CASE CommitProgress(v)
  BY <1>3, <1>4, <1>6, <1>7, <1>12 DEF CommitProgress, Committing, EndCall
<1>13. CASE CommitStore(v)
  BY <1>3, <1>4, <1>6, <1>7, <1>13 DEF CommitStore, Committing, EndCall
<1> QED
  BY <1>8, <1>9, <1>10, <1>11, <1>12, <1>13 DEF Repository

LEMMA WorkCloser ==
  ASSUME TypeInv, NEW v \in Workers, WorkerGood(v), Work(v), ~ClaimRun(v)
  PROVE  Closer(v)
<1>1. CASE AgentStep(v)
  BY <1>1, StagesCloser, DraftingCloser DEF AgentStep
<1> QED
  BY <1>1, BaselineCloser, ControlCloser, RepositoryCloser DEF Work, Control

\* An exception or the end of the process takes no worker further away either.
LEMMA FaultCloser ==
  ASSUME TypeInv, TypeInv', NEW v \in Workers, Fault(v) \/ Crash(v)
  PROVE  Rank(v)' <= Rank(v)
<1>0. /\ pc \in [Workers -> Labels] /\ calls \in [Workers -> Seq(Calls)] /\ txn \in [Workers -> TxnType]
  BY DEF TypeInv, TypeOK, TxnType
<1>1. Rank(v) \in Nat /\ Rank(v)' \in Nat
  <2>1. Rank(v) \in Nat
    BY Ranks
  <2>2. Rank(v)' \in Nat
    BY RankTypesNext
  <2> QED BY <2>1, <2>2
<1>2. CASE Fault(v)
  <2>1. ~Idle(v)
    BY <1>2 DEF Fault, At, Calling, Idle, TypeInv, Working, WorkingAt
  <2>2. Closer(v)
    BY <1>2, <2>1, RaiseCloser DEF Fault
  <2> HIDE DEF Rank
  <2> QED BY <1>1, <2>2 DEF Closer
<1>3. CASE Crash(v)
  <2>1. pc'[v] = "dead" /\ calls'[v] = << >> /\ txn'[v] = Closed
    BY <1>0, <1>3 DEF Crash, Stop, Unwind
  <2>2. CallSteps(calls'[v], txn'[v]) = 1
    BY <2>1 DEF CallSteps, Closed
  <2>3. Distance(pc'[v], calls'[v], task'[v]) = 0
    BY <2>1 DEF Distance
  <2>4. Rank(v)' = 1
    BY <2>2, <2>3 DEF Rank
  <2>5. CallSteps(calls[v], txn[v]) >= 1
    <3>1. Len(calls[v]) \in Nat /\ (calls[v] # << >> => Len(calls[v]) # 0)
      BY <1>0, LenProperties, EmptySeq
    <3>2. CASE calls[v] = << >>
      <4>1. ~txn[v].open
        BY <3>2 DEF TypeInv, Working, WorkingAt, Calling
      <4> QED BY <3>1, <4>1 DEF CallSteps
    <3>3. CASE calls[v] # << >>
      <4>1. CallSteps(calls[v], txn[v]) >= 2 * Len(calls[v]) /\ CallSteps(calls[v], txn[v]) \in Nat
        BY <3>1, CallStepsAre
      <4> QED BY <3>1, <3>3, <4>1
    <3> QED BY <3>2, <3>3
  <2>6. /\ Distance(pc[v], calls[v], task[v]) \in Nat /\ CallSteps(calls[v], txn[v]) \in Nat
        /\ Rank(v) = Distance(pc[v], calls[v], task[v]) + CallSteps(calls[v], txn[v])
    BY Ranks
  <2> HIDE DEF Rank
  <2> QED BY <2>4, <2>5, <2>6
<1> QED BY <1>2, <1>3

LEMMA RankOf ==
  ASSUME NEW w \in Workers, pc'[w] = pc[w], task'[w] = task[w], calls'[w] = calls[w], txn'[w] = txn[w]
  PROVE  Rank(w)' = Rank(w)
  BY DEF Rank

\* What a worker does leaves the others where they are.
LEMMA OthersStay ==
  ASSUME TypeInv, NEW v \in Workers, Work(v) \/ Fault(v) \/ Crash(v), NEW w \in Workers, w # v
  PROVE  Rank(w)' = Rank(w)
<1>1. pc'[w] = pc[w] /\ task'[w] = task[w] /\ calls'[w] = calls[w]
  BY StepOthers
<1>2. txn'[w] = txn[w]
  BY WorkerLocal DEF Local
<1> QED BY <1>1, <1>2, RankOf

\* As far as the program's own control flow goes, every claim comes to an end,
\* whatever faults, lost leases and revisions it meets: the stages, the draft
\* revisions and the error path are loops that cannot go on for ever (engine.py
\* process_next, _process_agent, _execute_response_supervisor).  What is left to
\* fairness is only that a worker which can step does.
THEOREM ClaimsTerminate == Spec => ClaimsEnd
<1>1. ASSUME TypeInv, TypeInv', RecordInv, [Next]_vars, ~UNCHANGED vars, NEW w \in Workers, ~ClaimRun(w)
      PROVE  Rank(w)' <= Rank(w) /\ (Work(w) => Rank(w)' < Rank(w))
  <2>1. Rank(w) \in Nat /\ Rank(w)' \in Nat
    <3>1. Rank(w) \in Nat
      BY <1>1, Ranks
    <3>2. Rank(w)' \in Nat
      BY <1>1, RankTypesNext
    <3> QED BY <3>1, <3>2
  <2>2. Work(w) => Rank(w)' < Rank(w)
    BY <1>1, WorkCloser DEF RecordInv, Closer
  <2>3. CASE UNCHANGED workerVars
    <3>1. Rank(w)' = Rank(w)
      BY <2>3, RankOf DEF workerVars
    <3> HIDE DEF Rank
    <3> QED BY <2>1, <2>2, <3>1
  <2>4. ASSUME NEW v \in Workers, Work(v) \/ Fault(v) \/ Crash(v), w # v
        PROVE  Rank(w)' = Rank(w)
    BY <1>1, <2>4, OthersStay
  <2>5. CASE Fault(w) \/ Crash(w)
    BY <1>1, <2>2, <2>5, FaultCloser
  <2> HIDE DEF Rank
  <2>6. CASE Work(w)
    BY <2>1, <2>2, <2>6
  <2>7. AcceptRun \/ Tick => UNCHANGED workerVars
    BY DEF AcceptRun, Tick
  <2> QED BY <1>1, <2>1, <2>2, <2>3, <2>4, <2>5, <2>6, <2>7 DEF Next
<1>2. TypeInv /\ RecordInv /\ TypeInv' /\ [Next]_vars =>
        [\A w \in Workers : ~ClaimRun(w) =>
           /\ Rank(w)' <= Rank(w)
           /\ Work(w) => Rank(w)' < Rank(w)]_vars
  BY <1>1
<1> QED
  BY <1>2, RecordAlways, PTL DEF Spec, ClaimsEnd
====
