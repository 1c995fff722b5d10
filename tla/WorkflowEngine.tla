--------------------------- MODULE WorkflowEngine ---------------------------
(***************************************************************************)
(* The worker processes that lease runs from the repository and drive them *)
(* to human review or to BLOCKED: WorkflowEngine.process_next and all it   *)
(* calls, for baseline and for agent runs.                                 *)
(*                                                                         *)
(* A worker executes engine code between repository calls.  calls[w] is    *)
(* the repository calls that code will make next, in order, and pc[w]      *)
(* names the code that runs when they are done.  A repository call is two  *)
(* steps, Check (the SELECTs) and Commit (the write), and anything may     *)
(* happen in between: other workers' steps, the clock, a crash.            *)
(***************************************************************************)
EXTENDS RunStore

CONSTANTS
  AgentRuns,        \* the runs created with mode agent; the others are baseline
  SourceOutcomes,   \* evidence packages the sources may yield
  DraftOutcomes,    \* supervisor artifacts the model may lead to
  BaselineOutcomes, \* baseline artifacts the model may lead to
  PromptCommits,    \* TRUE: no lease lapses between the check and the commit of
                    \* a call that holds it; FALSE: the process may be suspended
  FaultsPossible,   \* any step of a worker may raise (disk, database, bad data)
  CrashesPossible   \* a worker process may be killed

ASSUME ModeAssumption == AgentRuns \subseteq Runs
ASSUME OutcomesAssumption ==
  /\ SourceOutcomes \subseteq {"package", "conflicting"}
  /\ DraftOutcomes \subseteq ReviewResults \cup {"failed"}
  /\ BaselineOutcomes \subseteq {"completed", "failed"}
ASSUME SwitchAssumption == {PromptCommits, FaultsPossible, CrashesPossible} \subseteq BOOLEAN

VARIABLES
  pc,           \* the engine code a worker executes after its pending calls
  task,         \* the run it has claimed and the locals of that code
  calls,        \* the repository calls it has still to make before that code
  txn,          \* what the check of the first of them read, once it is made
  modelCalls    \* history: how often the model was turned to for each run

workerVars == <<pc, task, calls, txn, modelCalls>>
vars == <<storeVars, workerVars>>

Labels == {"idle", "loop", "advance", "retrieve", "draft", "review", "verdict",
           "drafted", "failed", "finally", "exit", "dead"}

(***************************************************************************)
(* Repository calls                                                        *)
(***************************************************************************)
Renew        == [op |-> "renew"]
Progress     == [op |-> "progress"]
Release      == [op |-> "release"]
Move(s)      == [op |-> "transition", to |-> s]
Store(n, c)  == [op |-> "store", name |-> n, content |-> c]

Calls ==
  {Renew, Progress, Release}
    \cup [op : {"transition"}, to : RunState]
    \cup [op : {"store"}, name : Names, content : Contents]

Closed == [open |-> FALSE, stage |-> "none", seq |-> 0]

NoTask == [run |-> 0, claim |-> 0, stage |-> "none", attempt |-> 0,
           draft |-> NoArtifact, doomed |-> FALSE]

Init ==
  /\ StoreInit
  /\ pc = [w \in Workers |-> "idle"]
  /\ task = [w \in Workers |-> NoTask]
  /\ calls = [w \in Workers |-> << >>]
  /\ txn = [w \in Workers |-> Closed]
  /\ modelCalls = [r \in Runs |-> 0]

Run(w) == task[w].run
Stored(w, n) == artifacts[Run(w)][n]
Has(w, n) == Stored(w, n) # NoArtifact
Alive(w) == pc[w] # "dead"

\* w is about to run the code at label l.
At(w, l) == pc[w] = l /\ calls[w] = << >>

\* Between two repository calls: make cs, then run the code at label l.
Continue(w, cs, l) ==
  /\ calls' = [calls EXCEPT ![w] = cs]
  /\ pc' = [pc EXCEPT ![w] = l]
  /\ UNCHANGED <<storeVars, txn>>

\* The code and the calls in progress are abandoned for the code at label l.
Unwind(w, l) ==
  /\ pc' = [pc EXCEPT ![w] = l]
  /\ calls' = [calls EXCEPT ![w] = << >>]
  /\ txn' = [txn EXCEPT ![w] = Closed]

\* The worker stops working on its run: process_next returns, or lets an
\* exception out that nothing in the worker loop catches.
Stop(w, l) ==
  /\ Unwind(w, l)
  /\ task' = [task EXCEPT ![w] = NoTask]

\* An exception: from the body of the try to the except clause, from there to
\* finally, and from finally out of process_next.
Raise(w) ==
  \/ /\ pc[w] \notin {"failed", "finally", "exit"}
     /\ Unwind(w, "failed")
     /\ UNCHANGED task
  \/ /\ At(w, "failed") \/ (pc[w] = "finally" /\ calls[w] # << >>)
     /\ Unwind(w, "finally")
     /\ task' = [task EXCEPT ![w].doomed = TRUE]
  \/ /\ At(w, "finally") \/ pc[w] = "exit"
     /\ Stop(w, "dead")

(***************************************************************************)
(* process_next and the loops of _process_claimed and _process_agent       *)
(***************************************************************************)
NewTask(r) == [run |-> r, claim |-> Claims(r) + 1, stage |-> state[r], attempt |-> 0,
               draft |-> NoArtifact, doomed |-> FALSE]

ClaimRun(w) ==
  /\ At(w, "idle")
  /\ \E r \in Runs :
       /\ LeaseNextRun(w, r)
       /\ task' = [task EXCEPT ![w] = NewTask(r)]
  /\ pc' = [pc EXCEPT ![w] = "loop"]
  /\ UNCHANGED <<calls, txn, modelCalls>>

\* The loop tests the state the last call returned, not the one in the database.
Loop(w) ==
  /\ At(w, "loop")
  /\ IF task[w].stage \in SettledStates
     THEN Continue(w, << >>, "finally")
     ELSE Continue(w, <<Renew>>, "advance")
  /\ UNCHANGED <<task, modelCalls>>

\* except Exception: block the run, unless it has settled: then re-raise.
HandleError(w) ==
  /\ At(w, "failed")
  /\ IF state[Run(w)] \in SettledStates
     THEN /\ task' = [task EXCEPT ![w].doomed = TRUE]
          /\ Continue(w, << >>, "finally")
     ELSE /\ Continue(w, <<Move("BLOCKED")>>, "finally")
          /\ UNCHANGED task
  /\ UNCHANGED modelCalls

\* Faulty variant: only a lease that has not expired is given back.
FinallyIfLeased(w) ==
  /\ At(w, "finally")
  /\ Continue(w, IF Owns(w, Run(w)) THEN <<Release>> ELSE << >>, "exit")
  /\ UNCHANGED <<task, modelCalls>>

\* finally: give the lease back if the row still names this worker.
Finally(w) ==
  /\ At(w, "finally")
  /\ Continue(w, IF owner[Run(w)] = w THEN <<Release>> ELSE << >>, "exit")
  /\ UNCHANGED <<task, modelCalls>>

Return(w) ==
  /\ At(w, "exit")
  /\ Stop(w, IF task[w].doomed THEN "dead" ELSE "idle")
  /\ UNCHANGED <<storeVars, modelCalls>>

(***************************************************************************)
(* Repository calls in progress                                            *)
(***************************************************************************)
Calling(w) == calls[w] # << >>
Call(w) == Head(calls[w])
Guarded(w) == Calling(w) /\ Call(w).op # "store"

\* Faulty variant: the expiry of the lease is not looked at.
AdmittedByName(w) ==
  /\ owner[Run(w)] = w
  /\ Call(w).op = "transition" => Call(w).to \in AllowedTransitions[state[Run(w)]]

\* What the SELECTs of the call require of a lease and of the transition.
Admitted(w) ==
  /\ Owns(w, Run(w))
  /\ Call(w).op = "transition" => Call(w).to \in AllowedTransitions[state[Run(w)]]

Begin(w) ==
  /\ txn' = [txn EXCEPT ![w] = [open  |-> TRUE,
                                stage |-> state[Run(w)],
                                seq   |-> Len(events[Run(w)])]]
  /\ UNCHANGED <<pc, task, calls>>

Check(w) ==
  /\ Guarded(w) /\ ~txn[w].open
  /\ IF Admitted(w) THEN Begin(w) ELSE Raise(w)
  /\ UNCHANGED <<storeVars, modelCalls>>

\* Faulty variant: a name that is taken is left as it is and no error raised.
CheckStoreFirstWins(w) ==
  /\ Calling(w) /\ Call(w).op = "store" /\ ~txn[w].open
  /\ IF Has(w, Call(w).name)
     THEN calls' = [calls EXCEPT ![w] = Tail(@)] /\ UNCHANGED <<pc, task, txn>>
     ELSE Begin(w)
  /\ UNCHANGED <<storeVars, modelCalls>>

\* store_artifact: free, the same content again, or an immutability error.
CheckStore(w) ==
  /\ Calling(w) /\ Call(w).op = "store" /\ ~txn[w].open
  /\ \/ /\ ~Has(w, Call(w).name)
        /\ Begin(w)
     \/ /\ Stored(w, Call(w).name) = Call(w).content
        /\ calls' = [calls EXCEPT ![w] = Tail(@)]
        /\ UNCHANGED <<pc, task, txn>>
     \/ /\ Has(w, Call(w).name)
        /\ Stored(w, Call(w).name) # Call(w).content
        /\ Raise(w)
  /\ UNCHANGED <<storeVars, modelCalls>>

EndCall(w) ==
  /\ calls' = [calls EXCEPT ![w] = Tail(@)]
  /\ txn' = [txn EXCEPT ![w] = Closed]
  /\ UNCHANGED <<pc, modelCalls>>

Committing(w, op) == txn[w].open /\ Calling(w) /\ Call(w).op = op

CommitRenew(w) ==
  /\ Committing(w, "renew")
  /\ RenewLease(Run(w))
  /\ EndCall(w) /\ UNCHANGED task

CommitRelease(w) ==
  /\ Committing(w, "release")
  /\ ReleaseLease(Run(w), txn[w].stage)
  /\ EndCall(w) /\ UNCHANGED task

CommitTransition(w) ==
  /\ Committing(w, "transition")
  /\ Transition(Run(w), Call(w).to)
  /\ task' = [task EXCEPT ![w].stage = Call(w).to]
  /\ EndCall(w)

CommitProgress(w) ==
  /\ Committing(w, "progress")
  /\ IF SequenceFree(Run(w), txn[w].seq)
     THEN RecordProgress(Run(w), txn[w].stage) /\ EndCall(w) /\ UNCHANGED task
     ELSE Raise(w) /\ UNCHANGED <<storeVars, modelCalls>>

\* Faulty variant: INSERT OR REPLACE.
CommitStoreReplacing(w) ==
  /\ Committing(w, "store")
  /\ StoreArtifact(Run(w), Call(w).name, Call(w).content)
  /\ EndCall(w) /\ UNCHANGED task

CommitStore(w) ==
  /\ Committing(w, "store")
  /\ IF Has(w, Call(w).name)
     THEN Raise(w) /\ UNCHANGED <<storeVars, modelCalls>>
     ELSE /\ StoreArtifact(Run(w), Call(w).name, Call(w).content)
          /\ EndCall(w) /\ UNCHANGED task

(***************************************************************************)
(* _advance_baseline                                                       *)
(***************************************************************************)
Advancing(w, s) == At(w, "advance") /\ task[w].stage = s
Baseline(w) == Run(w) \in Runs \ AgentRuns
Agent(w) == Run(w) \in AgentRuns

Fail(w) == At(w, "advance") /\ Raise(w) /\ UNCHANGED <<storeVars, modelCalls>>

CallModel(w) == modelCalls' = [modelCalls EXCEPT ![Run(w)] = @ + 1]

BaselineMoves ==
  [RECEIVED        |-> "SOURCE_CHECK",
   SOURCE_CHECK    |-> "VERIFIED",
   VERIFIED        |-> "DATA_SNAPSHOT",
   DATA_SNAPSHOT   |-> "IMPACT_ANALYSIS",
   IMPACT_ANALYSIS |-> "ACTION_DRAFTING"]

AdvanceBaseline(w) ==
  /\ Baseline(w) /\ At(w, "advance")
  /\ task[w].stage \in DOMAIN BaselineMoves
  /\ Continue(w, <<Move(BaselineMoves[task[w].stage])>>, "loop")
  /\ UNCHANGED <<task, modelCalls>>

\* Faulty variant: a failed model run goes on to its evaluation.
ExecuteBaselineUnchecked(w) ==
  /\ Baseline(w) /\ Advancing(w, "ACTION_DRAFTING")
  /\ \E outcome \in BaselineOutcomes :
       Continue(w, <<Store("baseline_run", BaselineRun(task[w].claim, outcome)),
                     Move("EVIDENCE_VERIFICATION")>>, "loop")
  /\ CallModel(w)
  /\ UNCHANGED task

ExecuteBaseline(w) ==
  /\ Baseline(w) /\ Advancing(w, "ACTION_DRAFTING")
  /\ \E outcome \in BaselineOutcomes :
       Continue(w,
         <<Store("baseline_run", BaselineRun(task[w].claim, outcome))>> \o
         IF outcome = "completed"
         THEN <<Move("EVIDENCE_VERIFICATION")>>
         ELSE <<Store("baseline_evaluation", Evaluation(task[w].claim)), Move("BLOCKED")>>,
         "loop")
  /\ CallModel(w)
  /\ UNCHANGED task

WriteBaselineEvaluation(w) ==
  /\ Baseline(w) /\ Advancing(w, "EVIDENCE_VERIFICATION")
  /\ IF Has(w, "baseline_run")
     THEN /\ Continue(w, <<Store("baseline_evaluation", Evaluation(task[w].claim)),
                           Move("AWAITING_HUMAN_REVIEW")>>, "loop")
          /\ UNCHANGED <<task, modelCalls>>
     ELSE Fail(w)

(***************************************************************************)
(* _advance_agent                                                          *)
(***************************************************************************)
AcceptAgentRun(w) ==
  /\ Agent(w) /\ Advancing(w, "RECEIVED")
  /\ Continue(w, <<Move("SOURCE_CHECK")>>, "loop")
  /\ UNCHANGED <<task, modelCalls>>

VerifyAgentSources(w) ==
  /\ Agent(w) /\ Advancing(w, "SOURCE_CHECK")
  /\ Continue(w, <<Progress>>, "retrieve")
  /\ UNCHANGED <<task, modelCalls>>

\* Faulty variant: sources that contradict each other are not blocked.
RetrieveSourcesUnchecked(w) ==
  /\ At(w, "retrieve")
  /\ \E status \in SourceOutcomes :
       Continue(w, <<Store("source_evidence_package", EvidencePackage(task[w].claim, status)),
                     Move("VERIFIED")>>, "loop")
  /\ UNCHANGED <<task, modelCalls>>

RetrieveSources(w) ==
  /\ At(w, "retrieve")
  /\ \E status \in SourceOutcomes :
       Continue(w, <<Store("source_evidence_package", EvidencePackage(task[w].claim, status)),
                     Move(IF status = "conflicting" THEN "BLOCKED" ELSE "VERIFIED")>>, "loop")
  /\ UNCHANGED <<task, modelCalls>>

PinSnapshot(w) ==
  /\ Agent(w) /\ Advancing(w, "VERIFIED")
  /\ IF Has(w, "source_evidence_package")
     THEN Continue(w, <<Move("DATA_SNAPSHOT")>>, "loop") /\ UNCHANGED <<task, modelCalls>>
     ELSE Fail(w)

StartImpactAnalysis(w) ==
  /\ Agent(w) /\ Advancing(w, "DATA_SNAPSHOT")
  /\ Continue(w, <<Move("IMPACT_ANALYSIS")>>, "loop")
  /\ UNCHANGED <<task, modelCalls>>

AnalyzeImpacts(w) ==
  /\ Agent(w) /\ Advancing(w, "IMPACT_ANALYSIS")
  /\ IF Has(w, "source_evidence_package")
     THEN /\ Continue(w,
               <<Progress,
                 Store("impact_package", ImpactPackage(Stored(w, "source_evidence_package"))),
                 Move("ACTION_DRAFTING")>>, "loop")
          /\ UNCHANGED <<task, modelCalls>>
     ELSE Fail(w)

ExecuteResponseSupervisor(w) ==
  /\ Agent(w) /\ Advancing(w, "ACTION_DRAFTING")
  /\ IF Has(w, "source_evidence_package") /\ Has(w, "impact_package")
     THEN /\ Continue(w, <<Progress>>, "draft")
          /\ task' = [task EXCEPT ![w].attempt = 0]
          /\ UNCHANGED modelCalls
     ELSE Fail(w)

\* One turn of the loop of _draft_and_verify_response, up to the review.
DraftResponse(w) ==
  /\ At(w, "draft")
  /\ \E outcome \in DraftOutcomes :
       LET draft == SupervisorRun(task[w].claim, task[w].attempt, outcome)
       IN  /\ Continue(w, <<Store(DraftName(task[w].attempt), draft)>>,
                       IF outcome = "failed" THEN "drafted" ELSE "review")
           /\ task' = [task EXCEPT ![w].draft = draft]
  /\ CallModel(w)

ReviewDraft(w) ==
  /\ At(w, "review")
  /\ Continue(w, <<Store("evidence_safety_review", SafetyReview(task[w].draft)), Progress>>, "verdict")
  /\ UNCHANGED <<task, modelCalls>>

Passed(w) ==
  /\ task[w].draft.result = "PASS"
  /\ Continue(w, IF task[w].attempt = 0 THEN << >>
                 ELSE <<Store("response_supervisor_run", task[w].draft)>>, "drafted")
  /\ UNCHANGED task

\* The draft is rejected, or was the last of the three attempts.
Exhausted(w) ==
  /\ \/ task[w].draft.result = "REJECT"
     \/ task[w].draft.result \in {"REVISE1", "REVISE2"} /\ task[w].attempt = 2
  /\ Continue(w, <<Move("BLOCKED")>>, "loop")
  /\ UNCHANGED task

\* Faulty variant: one revision too many.
RevisionRequestedAgain(w) ==
  /\ task[w].draft.result \in {"REVISE1", "REVISE2"} /\ task[w].attempt <= 2
  /\ Continue(w, <<Progress>>, "draft")
  /\ task' = [task EXCEPT ![w].attempt = @ + 1]

\* Faulty variant: the attempts are not counted.
RevisionRequestedUncounted(w) ==
  /\ task[w].draft.result \in {"REVISE1", "REVISE2"} /\ task[w].attempt < 2
  /\ Continue(w, <<Progress>>, "draft")
  /\ UNCHANGED task

RevisionRequested(w) ==
  /\ task[w].draft.result \in {"REVISE1", "REVISE2"} /\ task[w].attempt < 2
  /\ Continue(w, <<Progress>>, "draft")
  /\ task' = [task EXCEPT ![w].attempt = @ + 1]

Verdict(w) ==
  /\ At(w, "verdict")
  /\ Passed(w) \/ Exhausted(w) \/ RevisionRequested(w)
  /\ UNCHANGED modelCalls

\* Back in _execute_response_supervisor, which stores the returned artifact again.
FinishDraft(w) ==
  /\ At(w, "drafted")
  /\ Continue(w, <<Store("response_supervisor_run", task[w].draft),
                   Progress,
                   Move(IF task[w].draft.result = "failed" THEN "BLOCKED"
                        ELSE "EVIDENCE_VERIFICATION")>>, "loop")
  /\ UNCHANGED <<task, modelCalls>>

EvaluateResponseSupervisor(w) ==
  /\ Agent(w) /\ Advancing(w, "EVIDENCE_VERIFICATION")
  /\ IF Has(w, "source_evidence_package") /\ Has(w, "response_supervisor_run")
     THEN /\ Continue(w, <<Progress, Store("agent_evaluation", Evaluation(task[w].claim)),
                           Move("AWAITING_HUMAN_REVIEW")>>, "loop")
          /\ UNCHANGED <<task, modelCalls>>
     ELSE Fail(w)

(***************************************************************************)
(* The environment                                                         *)
(***************************************************************************)
\* A run request accepted by the API, for a key not seen before.
AcceptRun ==
  /\ \E r \in Runs : CreateRun(r)
  /\ UNCHANGED workerVars

\* A repository call, or engine code that does I/O or parses data, raises.
Fault(w) ==
  /\ FaultsPossible
  /\ \/ Calling(w)
     \/ \E l \in {"advance", "retrieve", "draft", "review", "drafted", "failed", "finally"} : At(w, l)
  /\ Raise(w)
  /\ UNCHANGED <<storeVars, modelCalls>>

Crash(w) ==
  /\ CrashesPossible
  /\ Alive(w)
  /\ Stop(w, "dead")
  /\ UNCHANGED <<storeVars, modelCalls>>

InLeasedCall(w) == Guarded(w) /\ txn[w].open

\* Time passes.  With PromptCommits the lease a call has checked outlives it.
Tick ==
  /\ Elapse
  /\ PromptCommits => \A w \in Workers : InLeasedCall(w) => ttl'[Run(w)] > 0
  /\ UNCHANGED workerVars

(***************************************************************************)
(* The specification                                                       *)
(***************************************************************************)
Control(w) ==
  \/ ClaimRun(w) \/ Loop(w) \/ HandleError(w) \/ Finally(w) \/ Return(w)

Repository(w) ==
  \/ Check(w) \/ CheckStore(w)
  \/ CommitRenew(w) \/ CommitRelease(w) \/ CommitTransition(w)
  \/ CommitProgress(w) \/ CommitStore(w)

BaselineStep(w) ==
  \/ AdvanceBaseline(w) \/ ExecuteBaseline(w) \/ WriteBaselineEvaluation(w)

AgentStep(w) ==
  \/ AcceptAgentRun(w) \/ VerifyAgentSources(w) \/ RetrieveSources(w)
  \/ PinSnapshot(w) \/ StartImpactAnalysis(w) \/ AnalyzeImpacts(w)
  \/ ExecuteResponseSupervisor(w) \/ DraftResponse(w) \/ ReviewDraft(w)
  \/ Verdict(w) \/ FinishDraft(w) \/ EvaluateResponseSupervisor(w)

Work(w) == Control(w) \/ Repository(w) \/ BaselineStep(w) \/ AgentStep(w)

Next ==
  \/ AcceptRun
  \/ Tick
  \/ \E w \in Workers : Work(w) \/ Fault(w) \/ Crash(w)

Spec == Init /\ [][Next]_vars

\* A live worker keeps polling and working, and the clock does not stop.
Fairness == WF_vars(Tick) /\ \A w \in Workers : WF_vars(Work(w))

FairSpec == Spec /\ Fairness

(***************************************************************************)
(* Properties                                                              *)
(***************************************************************************)
Created(r) == state[r] # "none"
Settled(r) == state[r] \in SettledStates

\* Every variable has its type.
TypeOK ==
  /\ state \in [Runs -> RunState \cup {"none"}]
  /\ owner \in [Runs -> Workers \cup {NoWorker}]
  /\ ttl \in [Runs -> -1..LeaseTTL]
  /\ events \in [Runs -> Seq([type : EventTypes, stage : RunState])]
  /\ artifacts \in [Runs -> [Names -> Contents \cup {NoArtifact}]]
  /\ pc \in [Workers -> Labels]
  /\ task \in [Workers -> [run     : Runs \cup {0},
                           claim   : Nat,
                           stage   : RunState \cup {"none"},
                           attempt : Attempts,
                           draft   : Contents \cup {NoArtifact},
                           doomed  : BOOLEAN]]
  /\ calls \in [Workers -> Seq(Calls)]
  /\ txn \in [Workers -> [open : BOOLEAN, stage : RunState \cup {"none"}, seq : Nat]]
  /\ modelCalls \in [Runs -> Nat]

\* The engine's durable record implements the lifecycle: whatever the workers
\* do, a run makes only listed moves and no pinned artifact changes.
Lifecycle == INSTANCE RunLifecycle
RefinesLifecycle == Lifecycle!Spec

\* Whatever races: what a run has pinned under a logical name is never replaced
\* or removed, also by two workers storing under that name at the same time.
PinsArePermanent ==
  [][\A r \in Runs, n \in Names :
       artifacts[r][n] # NoArtifact => artifacts'[r][n] = artifacts[r][n]]_vars

\* A run changes state only by a commit of the worker that holds its lease at
\* that very moment, unexpired (_require_owned_run before every transition).
MovedBy(w, r) == Owns(w, r) /\ task[w].run = r /\ calls'[w] # calls[w]

OnlyHolderMoves ==
  [][\A r \in Runs : Created(r) /\ state'[r] # state[r] => \E w \in Workers : MovedBy(w, r)]_vars

\* The events of a run, read in order, tell its history: each stage follows from
\* the one before, and the last one is where the run is now (the dashboard and
\* the SSE stream show nothing else).
LogTellsHistory ==
  \A r \in Runs : Created(r) =>
    /\ events[r][Len(events[r])].stage = state[r]
    /\ \A i \in 1..Len(events[r]) - 1 :
         LET from == events[r][i].stage
             to   == events[r][i + 1].stage
         IN  from # to => to \in AllowedTransitions[from]

\* No agent run gets past drafting unless the stored safety review is a PASS
\* and it is the review of the very draft that is stored, whoever wrote them.
OnlyReviewedDraftsAdvance ==
  \A r \in AgentRuns :
    state[r] \in {"EVIDENCE_VERIFICATION", "AWAITING_HUMAN_REVIEW"} =>
      LET draft  == artifacts[r]["response_supervisor_run"]
          review == artifacts[r]["evidence_safety_review"]
      IN  draft # NoArtifact /\ draft.result = "PASS" /\ review = SafetyReview(draft)

\* What the human reviewer is shown does not change under the review: no late
\* result of a worker that lost its lease joins a run awaiting review.
ReviewedRecordFrozen ==
  [][\A r \in Runs : state[r] = "AWAITING_HUMAN_REVIEW" => artifacts'[r] = artifacts[r]]_vars

\* A run awaiting review has every artifact of its mode, and the impact package
\* was computed from the evidence package that is pinned.
RecordComplete ==
  \A r \in Runs : state[r] = "AWAITING_HUMAN_REVIEW" =>
    LET has(n) == artifacts[r][n] # NoArtifact
    IN  IF r \in AgentRuns
        THEN /\ has("source_evidence_package") /\ has("agent_evaluation")
             /\ artifacts[r]["impact_package"] = ImpactPackage(artifacts[r]["source_evidence_package"])
             /\ artifacts[r]["source_evidence_package"].result # "conflicting"
        ELSE /\ has("baseline_evaluation") /\ has("baseline_run")
             /\ artifacts[r]["baseline_run"].result = "completed"

\* The capped revision loop bounds what a run costs, whoever takes it over: for
\* each time it was leased the model is turned to three times at most, and once
\* for a baseline run.
CallsPerClaim(r) == IF r \in AgentRuns THEN 3 ELSE 1

ModelCallsBounded == \A r \in Runs : modelCalls[r] <= CallsPerClaim(r) * Claims(r)

\* A live worker never leaves a lease behind: a row that names it is the run it
\* is working on (process_next releases on every path, or the worker dies).
NoLeakedLease ==
  \A r \in Runs, w \in Workers : owner[r] = w /\ Alive(w) => task[w].run = r

\* Every accepted run ends up awaiting review or blocked, unless every worker
\* process dies: leases of dead workers lapse and are reclaimed by the others.
NoneAlive == \A w \in Workers : ~Alive(w)

RunsSettle == \A r \in Runs : Created(r) ~> (Settled(r) \/ NoneAlive)
=============================================================================
