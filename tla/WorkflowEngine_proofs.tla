----------------------- MODULE WorkflowEngine_proofs -----------------------
(***************************************************************************)
(* Theorems about WorkflowEngine, for any number of runs and workers.      *)
(***************************************************************************)
EXTENDS WorkflowEngine, SequenceTheorems, FiniteSetTheorems, TLAPS

Idle(w) == pc[w] \in {"idle", "dead"}

\* What typing a step needs beyond TypeOK: a working worker has a created run,
\* one that does not work has nothing pending, code that uses the draft has one.
WorkingAt(w) ==
  /\ Idle(w) => calls[w] = << >> /\ task[w] = NoTask
  /\ ~Idle(w) => Run(w) \in Runs /\ state[Run(w)] # "none"
  /\ txn[w].open => Calling(w) /\ txn[w].stage # "none"
  /\ pc[w] \in {"review", "verdict", "drafted"} => task[w].draft # NoArtifact

Working == \A w \in Workers : WorkingAt(w)

TypeInv == TypeOK /\ Working

TaskType ==
  [run : Runs \cup {0}, claim : Nat, stage : RunState \cup {"none"}, attempt : Attempts,
   draft : Contents \cup {NoArtifact}, doomed : BOOLEAN]

TxnType == [open : BOOLEAN, stage : RunState \cup {"none"}, seq : Nat]

EventType == [type : EventTypes, stage : RunState]

(***************************************************************************)
(* Lemmas about the operators                                              *)
(***************************************************************************)

\* What is left of the pending calls after the first is still a list of calls.
LEMMA TailType ==
  ASSUME NEW S, NEW s \in Seq(S), s # << >>
  PROVE  Tail(s) \in Seq(S) /\ Head(s) \in S
  BY HeadTailProperties

\* Appending to the events of one run keeps the type of all event logs.
LEMMA AppendEventType ==
  ASSUME events \in [Runs -> Seq(EventType)],
         NEW r \in Runs, NEW e \in EventType, AppendEvent(r, e)
  PROVE  events' \in [Runs -> Seq(EventType)]
<1>1. Append(events[r], e) \in Seq(EventType)
  BY AppendProperties
<1> QED BY <1>1 DEF AppendEvent

\* Stopping and raising keep the types of what they assign.
LEMMA UnwindType ==
  ASSUME TypeOK, NEW w \in Workers, NEW l \in Labels, Unwind(w, l)
  PROVE  /\ pc' \in [Workers -> Labels]
         /\ calls' \in [Workers -> Seq(Calls)]
         /\ txn' \in [Workers -> TxnType]
<1>1. pc' \in [Workers -> Labels]
  BY DEF TypeOK, Unwind
<1>2. calls' \in [Workers -> Seq(Calls)]
  BY EmptySeq DEF TypeOK, Unwind
<1>3. Closed \in TxnType
  BY DEF Closed, TxnType
<1>4. txn' \in [Workers -> TxnType]
  BY <1>3 DEF TypeOK, Unwind, TxnType
<1> QED BY <1>1, <1>2, <1>4

LEMMA StopType ==
  ASSUME TypeOK, NEW w \in Workers, NEW l \in Labels, Stop(w, l)
  PROVE  /\ pc' \in [Workers -> Labels]
         /\ task' \in [Workers -> TaskType]
         /\ calls' \in [Workers -> Seq(Calls)]
         /\ txn' \in [Workers -> TxnType]
<1>1. NoTask \in TaskType
  BY DEF NoTask, TaskType, Attempts
<1>2. task' \in [Workers -> TaskType]
  BY <1>1 DEF TypeOK, Stop, TaskType
<1>3. Unwind(w, l)
  BY DEF Stop
<1> QED BY <1>2, <1>3, UnwindType

LEMMA RaiseType ==
  ASSUME TypeOK, NEW w \in Workers, Raise(w)
  PROVE  /\ pc' \in [Workers -> Labels]
         /\ task' \in [Workers -> TaskType]
         /\ calls' \in [Workers -> Seq(Calls)]
         /\ txn' \in [Workers -> TxnType]
<1>0. task \in [Workers -> TaskType]
  BY DEF TypeOK, TaskType
<1>1. CASE Unwind(w, "failed") /\ UNCHANGED task
  BY <1>0, <1>1, UnwindType DEF Labels
<1>2. CASE Unwind(w, "finally") /\ task' = [task EXCEPT ![w].doomed = TRUE]
  <2>1. [task[w] EXCEPT !.doomed = TRUE] \in TaskType
    BY <1>0 DEF TaskType
  <2>2. task' \in [Workers -> TaskType]
    BY <1>0, <1>2, <2>1
  <2> QED BY <1>2, <2>2, UnwindType DEF Labels
<1>3. CASE Stop(w, "dead")
  BY <1>3, StopType DEF Labels
<1> QED BY <1>1, <1>2, <1>3 DEF Raise

(***************************************************************************)
(* Type correctness                                                        *)
(***************************************************************************)

\* A step of worker w leaves the other workers and the created runs alone.
Frame(w) ==
  /\ \A v \in Workers \ {w} :
       pc'[v] = pc[v] /\ task'[v] = task[v] /\ calls'[v] = calls[v] /\ txn'[v] = txn[v]
  /\ \A r \in Runs : state[r] # "none" => state'[r] # "none"

LEMMA FrameWorks ==
  ASSUME TypeInv, NEW w \in Workers, Frame(w), WorkingAt(w)'
  PROVE  Working'
<1>1. SUFFICES ASSUME NEW v \in Workers, v # w PROVE WorkingAt(v)'
  BY DEF Working
<1>2. WorkingAt(v)
  BY DEF TypeInv, Working
<1> QED BY <1>1, <1>2 DEF WorkingAt, Frame, Idle, Run, Calling

\* Engine code that runs between two repository calls.
LEMMA ContinueStep ==
  ASSUME TypeInv, NEW w \in Workers, ~Idle(w), calls[w] = << >>,
         NEW cs \in Seq(Calls), NEW l \in Labels \ {"idle", "dead"},
         Continue(w, cs, l),
         modelCalls' \in [Runs -> Nat],
         NEW t \in TaskType, task' = [task EXCEPT ![w] = t], t.run = Run(w),
         l \in {"review", "verdict", "drafted"} => t.draft # NoArtifact
  PROVE  TypeInv'
<1>0. task \in [Workers -> TaskType] /\ WorkingAt(w)
  BY DEF TypeInv, TypeOK, TaskType, Working
<1>1. TypeOK'
  <2>1. task' \in [Workers -> TaskType]
    BY <1>0
  <2>2. pc' \in [Workers -> Labels] /\ calls' \in [Workers -> Seq(Calls)]
    BY DEF TypeInv, TypeOK, Continue
  <2>3. UNCHANGED <<state, owner, ttl, events, artifacts, txn>>
    BY DEF Continue, storeVars
  <2> QED BY <2>1, <2>2, <2>3 DEF TypeInv, TypeOK, TaskType
<1>2. Frame(w)
  BY <1>0 DEF TypeInv, TypeOK, Continue, Frame, storeVars
<1>3. pc'[w] = l /\ task'[w] = t /\ txn' = txn /\ state' = state
  BY <1>0 DEF TypeInv, TypeOK, Continue, storeVars
<1>4. ~txn[w].open
  BY <1>0 DEF WorkingAt, Calling
<1>5. WorkingAt(w)'
  BY <1>0, <1>3, <1>4 DEF WorkingAt, Idle, Run
<1> QED BY <1>1, <1>2, <1>5, FrameWorks DEF TypeInv

\* A worker that stops.
LEMMA StopStep ==
  ASSUME TypeInv, NEW w \in Workers, NEW l \in {"idle", "dead"}, Stop(w, l),
         UNCHANGED <<storeVars, modelCalls>>
  PROVE  TypeInv'
<1>0. TypeOK /\ l \in Labels
  BY DEF TypeInv, Labels
<1>1. TypeOK'
  BY <1>0, StopType DEF TypeOK, TaskType, TxnType, storeVars
<1>2. Frame(w)
  BY <1>0 DEF TypeOK, Stop, Unwind, Frame, storeVars
<1>3. pc'[w] = l /\ task'[w] = NoTask /\ calls'[w] = << >> /\ txn'[w] = Closed
  BY <1>0 DEF TypeOK, Stop, Unwind
<1>4. WorkingAt(w)'
  BY <1>3 DEF WorkingAt, Idle, Closed
<1> QED BY <1>1, <1>2, <1>4, FrameWorks DEF TypeInv

\* A worker whose code or repository call raises.
LEMMA RaiseStep ==
  ASSUME TypeInv, NEW w \in Workers, ~Idle(w), Raise(w),
         UNCHANGED <<storeVars, modelCalls>>
  PROVE  TypeInv'
<1>0. TypeOK /\ WorkingAt(w) /\ task \in [Workers -> TaskType]
  BY DEF TypeInv, Working, TypeOK, TaskType
<1>1. CASE Stop(w, "dead")
  BY <1>1, StopStep
<1>2. ASSUME NEW l \in {"failed", "finally"}, Unwind(w, l), Raise(w),
             task' = task \/ task' = [task EXCEPT ![w].doomed = TRUE]
      PROVE  TypeInv'
  <2>1. TypeOK'
    BY <1>0, RaiseType DEF TypeOK, TaskType, TxnType, storeVars
  <2>2. Frame(w)
    BY <1>0, <1>2 DEF TypeOK, Unwind, Frame, storeVars
  <2>3. pc'[w] = l /\ calls'[w] = << >> /\ txn'[w] = Closed /\ state' = state
    BY <1>0, <1>2 DEF TypeOK, Unwind, storeVars
  <2>4. task'[w].run = task[w].run
    BY <1>0, <1>2 DEF TaskType
  <2>5. WorkingAt(w)'
    BY <1>0, <2>3, <2>4 DEF WorkingAt, Idle, Run, Closed
  <2> QED BY <2>1, <2>2, <2>5, FrameWorks DEF TypeInv
<1> QED BY <1>1, <1>2 DEF Raise

\* The write of a repository call, once its own rows are known to be well typed.
LEMMA CommitStep ==
  ASSUME TypeInv, NEW w \in Workers, ~Idle(w), Calling(w),
         pc' = pc,
         calls' = [calls EXCEPT ![w] = Tail(@)], txn' = [txn EXCEPT ![w] = Closed],
         modelCalls' = modelCalls,
         NEW t \in TaskType, task' = [task EXCEPT ![w] = t],
         t.run = Run(w), t.draft = task[w].draft,
         state' \in [Runs -> RunState \cup {"none"}],
         owner' \in [Runs -> Workers \cup {NoWorker}],
         ttl' \in [Runs -> -1..LeaseTTL],
         events' \in [Runs -> Seq(EventType)],
         artifacts' \in [Runs -> [Names -> Contents \cup {NoArtifact}]],
         \A r \in Runs : state[r] # "none" => state'[r] # "none"
  PROVE  TypeInv'
<1>0. TypeOK /\ WorkingAt(w) /\ task \in [Workers -> TaskType]
  BY DEF TypeInv, Working, TypeOK, TaskType
<1>1. TypeOK'
  <2>1. Tail(calls[w]) \in Seq(Calls)
    BY <1>0, TailType DEF TypeOK, Calling
  <2>2. calls' \in [Workers -> Seq(Calls)]
    BY <1>0, <2>1 DEF TypeOK
  <2>3. Closed \in TxnType
    BY DEF Closed, TxnType
  <2>4. txn' \in [Workers -> TxnType]
    BY <1>0, <2>3 DEF TypeOK, TxnType
  <2>5. task' \in [Workers -> TaskType]
    BY <1>0
  <2> QED BY <1>0, <2>2, <2>4, <2>5 DEF TypeOK, TaskType, TxnType, EventType
<1>2. Frame(w)
  BY <1>0 DEF TypeOK, Frame
<1>3. pc'[w] = pc[w] /\ txn'[w] = Closed /\ task'[w] = t
  BY <1>0 DEF TypeOK
<1>4. WorkingAt(w)'
  BY <1>0, <1>3 DEF WorkingAt, Idle, Run, Closed
<1> QED BY <1>1, <1>2, <1>4, FrameWorks DEF TypeInv

\* The same for the calls that leave the worker's locals alone.
LEMMA CommitSameTask ==
  ASSUME TypeInv, NEW w \in Workers, ~Idle(w), Calling(w),
         EndCall(w), UNCHANGED task,
         state' = state,
         owner' \in [Runs -> Workers \cup {NoWorker}],
         ttl' \in [Runs -> -1..LeaseTTL],
         events' \in [Runs -> Seq(EventType)],
         artifacts' \in [Runs -> [Names -> Contents \cup {NoArtifact}]]
  PROVE  TypeInv'
<1>1. task \in [Workers -> TaskType] /\ task[w] \in TaskType
  BY DEF TypeInv, TypeOK, TaskType
<1>2. task' = [task EXCEPT ![w] = task[w]]
  BY <1>1
<1>3. state' \in [Runs -> RunState \cup {"none"}]
  BY DEF TypeInv, TypeOK
<1>4. \A r \in Runs : state[r] # "none" => state'[r] # "none"
  OBVIOUS
<1>5. /\ pc' = pc /\ modelCalls' = modelCalls
      /\ calls' = [calls EXCEPT ![w] = Tail(@)] /\ txn' = [txn EXCEPT ![w] = Closed]
  BY DEF EndCall
<1>6. task[w].run = Run(w)
  BY DEF Run
<1> QED BY <1>1, <1>2, <1>3, <1>4, <1>5, <1>6, CommitStep

LEMMA CommitType ==
  ASSUME TypeInv, NEW w \in Workers, ~Idle(w),
         \/ CommitRenew(w) \/ CommitRelease(w) \/ CommitTransition(w)
         \/ CommitProgress(w) \/ CommitStore(w)
  PROVE  TypeInv'
<1> DEFINE r == Run(w)
<1>0. /\ TypeOK /\ WorkingAt(w) /\ task \in [Workers -> TaskType]
      /\ r \in Runs /\ state[r] # "none" /\ task[w] \in TaskType
      /\ task = [task EXCEPT ![w] = task[w]]
      /\ events \in [Runs -> Seq(EventType)]
      /\ Calling(w) => Call(w) \in Calls
  <2>1. Calling(w) => Call(w) \in Calls
    BY TailType DEF TypeInv, TypeOK, Calling, Call
  <2> QED BY <2>1 DEF TypeInv, Working, WorkingAt, TypeOK, TaskType, EventType
<1>1. CASE CommitRenew(w)
  <2>1. ttl' \in [Runs -> -1..LeaseTTL]
    BY <1>0, <1>1, LeaseAssumption DEF CommitRenew, RenewLease, TypeOK
  <2> QED
    BY <1>0, <1>1, <2>1, CommitSameTask
    DEF CommitRenew, Committing, RenewLease, TypeOK
<1>2. CASE CommitRelease(w)
  <2>1. Event("lease_released", txn[w].stage) \in EventType
    BY <1>0, <1>2 DEF CommitRelease, Committing, WorkingAt, TypeOK, Event, EventType, EventTypes
  <2>2. events' \in [Runs -> Seq(EventType)]
    BY <1>0, <1>2, <2>1, AppendEventType DEF CommitRelease, ReleaseLease
  <2>3. owner' \in [Runs -> Workers \cup {NoWorker}] /\ ttl' \in [Runs -> -1..LeaseTTL]
    BY <1>0, <1>2, LeaseAssumption DEF CommitRelease, ReleaseLease, TypeOK
  <2> QED
    BY <1>0, <1>2, <2>2, <2>3, CommitSameTask
    DEF CommitRelease, Committing, ReleaseLease, TypeOK
<1>3. CASE CommitTransition(w)
  <2>1. Call(w).to \in RunState /\ Call(w).to # "none"
    BY <1>0, <1>3
    DEF CommitTransition, Committing, Calls, Renew, Progress, Release,
        RunState, ActiveStates, TerminalStates
  <2>2. Event("state_transition", Call(w).to) \in EventType
    BY <2>1 DEF Event, EventType, EventTypes
  <2>3. events' \in [Runs -> Seq(EventType)]
    BY <1>0, <1>3, <2>2, AppendEventType DEF CommitTransition, Transition
  <2>4. /\ state' \in [Runs -> RunState \cup {"none"}]
        /\ \A q \in Runs : state[q] # "none" => state'[q] # "none"
    BY <1>0, <1>3, <2>1 DEF CommitTransition, Transition, TypeOK
  <2>5. [task[w] EXCEPT !.stage = Call(w).to] \in TaskType
    BY <1>0, <2>1 DEF TaskType
  <2>6. /\ task' = [task EXCEPT ![w] = [task[w] EXCEPT !.stage = Call(w).to]]
        /\ [task[w] EXCEPT !.stage = Call(w).to].run = Run(w)
        /\ [task[w] EXCEPT !.stage = Call(w).to].draft = task[w].draft
    BY <1>0, <1>3 DEF CommitTransition, TaskType, Run
  <2> QED
    BY <1>0, <1>3, <2>3, <2>4, <2>5, <2>6, CommitStep
    DEF CommitTransition, Committing, Transition, EndCall, TypeOK
<1>4. CASE CommitProgress(w)
  <2>1. CASE Raise(w) /\ UNCHANGED <<storeVars, modelCalls>>
    BY <2>1, RaiseStep
  <2>2. CASE RecordProgress(Run(w), txn[w].stage) /\ EndCall(w) /\ UNCHANGED task
    <3>1. Event("progress", txn[w].stage) \in EventType
      BY <1>0, <1>4 DEF CommitProgress, Committing, WorkingAt, TypeOK, Event, EventType, EventTypes
    <3>2. events' \in [Runs -> Seq(EventType)]
      BY <1>0, <2>2, <3>1, AppendEventType DEF RecordProgress
    <3> QED
      BY <1>0, <1>4, <2>2, <3>2, CommitSameTask
      DEF CommitProgress, Committing, RecordProgress, TypeOK
  <2> QED BY <1>4, <2>1, <2>2 DEF CommitProgress
<1>5. CASE CommitStore(w)
  <2>1. CASE Raise(w) /\ UNCHANGED <<storeVars, modelCalls>>
    BY <2>1, RaiseStep
  <2>2. CASE /\ StoreArtifact(Run(w), Call(w).name, Call(w).content)
             /\ EndCall(w) /\ UNCHANGED task
    <3>1. Call(w).name \in Names /\ Call(w).content \in Contents
      BY <1>0, <1>5 DEF CommitStore, Committing, Calls, Renew, Progress, Release
    <3>2. artifacts' \in [Runs -> [Names -> Contents \cup {NoArtifact}]]
      BY <1>0, <2>2, <3>1 DEF StoreArtifact, TypeOK
    <3> QED
      BY <1>0, <1>5, <2>2, <3>2, CommitSameTask
      DEF CommitStore, Committing, StoreArtifact, TypeOK, EventType
  <2> QED BY <1>5, <2>1, <2>2 DEF CommitStore
<1> QED BY <1>1, <1>2, <1>3, <1>4, <1>5

\* The reads of a repository call.
LEMMA BeginStep ==
  ASSUME TypeInv, NEW w \in Workers, ~Idle(w), Calling(w), Begin(w),
         UNCHANGED <<storeVars, modelCalls>>
  PROVE  TypeInv'
<1>0. TypeOK /\ WorkingAt(w)
  BY DEF TypeInv, Working
<1> DEFINE t == [open |-> TRUE, stage |-> state[Run(w)], seq |-> Len(events[Run(w)])]
<1>1. Len(events[Run(w)]) \in Nat
  BY <1>0, LenProperties DEF TypeOK, WorkingAt
<1>2. t \in TxnType
  BY <1>0, <1>1 DEF TypeOK, WorkingAt, TxnType
<1>3. txn' = [txn EXCEPT ![w] = t] /\ UNCHANGED <<pc, task, calls>>
  BY DEF Begin
<1>4. t.stage # "none"
  BY <1>0 DEF WorkingAt
<1> HIDE DEF t
<1>5. TypeOK'
  BY <1>0, <1>2, <1>3 DEF TypeOK, TxnType, storeVars
<1>6. Frame(w)
  BY <1>0, <1>3 DEF TypeOK, Frame, storeVars
<1>7. txn'[w] = t
  BY <1>0, <1>3 DEF TypeOK
<1>8. WorkingAt(w)'
  BY <1>0, <1>3, <1>4, <1>7 DEF WorkingAt, Idle, Run, Calling, storeVars
<1> QED BY <1>5, <1>6, <1>8, FrameWorks DEF TypeInv

LEMMA CheckType ==
  ASSUME TypeInv, NEW w \in Workers, ~Idle(w), Check(w) \/ CheckStore(w)
  PROVE  TypeInv'
<1>1. Calling(w) /\ UNCHANGED <<storeVars, modelCalls>>
  BY DEF Check, CheckStore, Guarded
<1>2. CASE Begin(w)
  BY <1>1, <1>2, BeginStep
<1>3. CASE Raise(w)
  BY <1>1, <1>3, RaiseStep
<1>4. CASE /\ calls' = [calls EXCEPT ![w] = Tail(@)] /\ UNCHANGED <<pc, task, txn>>
           /\ ~txn[w].open
  <2>0. TypeOK /\ WorkingAt(w)
    BY DEF TypeInv, Working
  <2>1. Tail(calls[w]) \in Seq(Calls)
    BY <1>1, <2>0, TailType DEF TypeOK, Calling
  <2>2. calls' \in [Workers -> Seq(Calls)]
    BY <1>4, <2>0, <2>1 DEF TypeOK
  <2>3. TypeOK'
    BY <1>1, <1>4, <2>0, <2>2 DEF TypeOK, storeVars
  <2>4. Frame(w)
    BY <1>1, <1>4, <2>0 DEF TypeOK, Frame, storeVars
  <2>5. WorkingAt(w)'
    BY <1>1, <1>4, <2>0 DEF WorkingAt, Idle, Run, storeVars
  <2> QED BY <2>3, <2>4, <2>5, FrameWorks DEF TypeInv
<1> QED BY <1>2, <1>3, <1>4 DEF Check, CheckStore

\* Calls of the engine are well typed, and so are lists of one to three of them.
LEMMA CallType ==
  /\ Renew \in Calls /\ Progress \in Calls /\ Release \in Calls
  /\ \A s \in RunState : Move(s) \in Calls
  /\ \A n \in Names, c \in Contents : Store(n, c) \in Calls
BY DEF Calls, Renew, Progress, Release, Move, Store

\* What a state may move to is a state.
LEMMA MovesType == \A s \in RunState : AllowedTransitions[s] \subseteq RunState
  BY DEF AllowedTransitions, RunState, ActiveStates, TerminalStates

LEMMA CallsType ==
  /\ << >> \in Seq(Calls)
  /\ \A a \in Calls : <<a>> \in Seq(Calls)
  /\ \A a, b \in Calls : <<a, b>> \in Seq(Calls)
  /\ \A a, b, c \in Calls : <<a, b, c>> \in Seq(Calls)
OBVIOUS

LEMMA ArtifactTypes ==
  /\ \A n \in Nat, s \in {"package", "conflicting"} : EvidencePackage(n, s) \in Contents
  /\ \A e \in Contents : ImpactPackage(e) \in Contents
  /\ \A n \in Nat, a \in Attempts, o \in ReviewResults \cup {"failed"} :
       SupervisorRun(n, a, o) \in Contents
  /\ \A d \in Contents : SafetyReview(d) \in Contents
  /\ \A n \in Nat : Evaluation(n) \in Contents
  /\ \A n \in Nat, o \in {"completed", "failed"} : BaselineRun(n, o) \in Contents
  /\ \A a \in Attempts : DraftName(a) \in Names
BY DEF Contents, Results, ReviewResults, Attempts, Names, EvidencePackage, ImpactPackage,
       SupervisorRun, SafetyReview, Evaluation, BaselineRun, DraftName

\* Engine code that leaves the worker's locals alone.
LEMMA ContinueSameTask ==
  ASSUME TypeInv, NEW w \in Workers, ~Idle(w), calls[w] = << >>,
         NEW cs \in Seq(Calls), NEW l \in Labels \ {"idle", "dead"},
         Continue(w, cs, l), UNCHANGED task,
         modelCalls' \in [Runs -> Nat],
         l \in {"review", "verdict", "drafted"} => task[w].draft # NoArtifact
  PROVE  TypeInv'
<1>1. task \in [Workers -> TaskType] /\ task[w] \in TaskType
  BY DEF TypeInv, TypeOK, TaskType
<1>2. task' = [task EXCEPT ![w] = task[w]]
  BY <1>1
<1>3. task[w].run = Run(w)
  BY DEF Run
<1> QED BY <1>1, <1>2, <1>3, ContinueStep

LEMMA ControlType ==
  ASSUME TypeInv, NEW w \in Workers, Control(w)
  PROVE  TypeInv'
<1>0. /\ TypeOK /\ WorkingAt(w) /\ task \in [Workers -> TaskType] /\ task[w] \in TaskType
      /\ modelCalls \in [Runs -> Nat]
  BY DEF TypeInv, Working, TypeOK, TaskType
<1>1. CASE ClaimRun(w)
  <2>1. PICK r \in Runs :
          /\ LeaseNextRun(w, r)
          /\ task' = [task EXCEPT ![w] = NewTask(r)]
    BY <1>1 DEF ClaimRun
  <2>2. state[r] \in ActiveStates /\ state[r] # "none" /\ state[r] \in RunState
    BY <2>1 DEF LeaseNextRun, NextRun, Claimable, ActiveStates, RunState
  <2>3. Claims(r) \in Nat
    <3>1. events[r] \in Seq(EventType)
      BY <1>0 DEF TypeOK, EventType
    <3>2. DOMAIN events[r] = 1..Len(events[r]) /\ Len(events[r]) \in Nat
      BY <3>1, LenProperties
    <3>3. IsFiniteSet(DOMAIN events[r])
      BY <3>2, FS_Interval
    <3>4. IsFiniteSet({i \in DOMAIN events[r] : events[r][i].type = "lease_acquired"})
      BY <3>3, FS_Subset
    <3> QED BY <3>4, FS_CardinalityType DEF Claims
  <2> DEFINE t == NewTask(r)
  <2>4. t \in TaskType /\ t.run = r
    <3>1. Claims(r) + 1 \in Nat /\ 0 \in Attempts
      BY <2>3 DEF Attempts
    <3> QED BY <2>2, <3>1 DEF NewTask, TaskType
  <2> HIDE DEF t
  <2>5. task' = [task EXCEPT ![w] = t]
    BY <2>1 DEF t
  <2>6. Event("lease_acquired", state[r]) \in EventType
    BY <2>2 DEF Event, EventType, EventTypes
  <2>7. events' \in [Runs -> Seq(EventType)]
    BY <1>0, <2>1, <2>6, AppendEventType DEF LeaseNextRun, TypeOK, EventType
  <2>8. TypeOK'
    <3>1. task' \in [Workers -> TaskType]
      BY <1>0, <2>4, <2>5
    <3>2. pc' \in [Workers -> Labels]
      BY <1>0, <1>1 DEF ClaimRun, TypeOK, Labels
    <3>3. /\ owner' \in [Runs -> Workers \cup {NoWorker}]
          /\ ttl' \in [Runs -> -1..LeaseTTL]
          /\ UNCHANGED <<state, artifacts, calls, txn, modelCalls>>
      BY <1>0, <1>1, <2>1, LeaseAssumption DEF ClaimRun, LeaseNextRun, TypeOK
    <3> QED BY <1>0, <2>7, <3>1, <3>2, <3>3 DEF TypeOK, TaskType, EventType
  <2>9. Frame(w)
    BY <1>0, <1>1, <2>1, <2>5 DEF ClaimRun, LeaseNextRun, TypeOK, Frame
  <2>10. /\ pc'[w] = "loop" /\ task'[w] = t /\ state' = state
         /\ UNCHANGED <<calls, txn>> /\ calls[w] = << >>
    BY <1>0, <1>1, <2>1, <2>5 DEF ClaimRun, LeaseNextRun, At, TypeOK
  <2>11. WorkingAt(w)'
    BY <1>0, <2>2, <2>4, <2>10 DEF WorkingAt, Idle, Run, Calling
  <2> QED BY <2>8, <2>9, <2>11, FrameWorks DEF TypeInv
<1>2. CASE Loop(w)
  <2>1. ~Idle(w) /\ calls[w] = << >>
    BY <1>2 DEF Loop, At, Idle
  <2> QED BY <1>0, <1>2, <2>1, CallType, CallsType, ContinueSameTask DEF Loop, Labels
<1>3. CASE HandleError(w)
  <2>1. ~Idle(w) /\ calls[w] = << >>
    BY <1>3 DEF HandleError, At, Idle
  <2>2. Move("BLOCKED") \in Calls
    BY CallType DEF RunState, TerminalStates
  <2>3. CASE Continue(w, << >>, "finally") /\ task' = [task EXCEPT ![w].doomed = TRUE]
    <3> DEFINE t == [task[w] EXCEPT !.doomed = TRUE]
    <3>1. t \in TaskType /\ t.run = Run(w) /\ task' = [task EXCEPT ![w] = t]
      BY <1>0, <2>3 DEF TaskType, Run
    <3> HIDE DEF t
    <3>2. "finally" \in Labels \ {"idle", "dead"}
      BY DEF Labels
    <3>3. modelCalls' \in [Runs -> Nat] /\ << >> \in Seq(Calls)
      BY <1>0, <1>3, CallsType DEF HandleError
    <3>4. Continue(w, << >>, "finally")
      BY <2>3
    <3>5. "finally" \notin {"review", "verdict", "drafted"}
      OBVIOUS
    <3> QED
      BY <2>1, <3>1, <3>2, <3>3, <3>4, <3>5, ContinueStep
  <2>4. CASE Continue(w, <<Move("BLOCKED")>>, "finally") /\ UNCHANGED task
    BY <1>0, <1>3, <2>1, <2>2, <2>4, CallsType, ContinueSameTask DEF HandleError, Labels
  <2> QED BY <1>3, <2>3, <2>4 DEF HandleError
<1>4. CASE Finally(w)
  <2>1. ~Idle(w) /\ calls[w] = << >>
    BY <1>4 DEF Finally, At, Idle
  <2>2. (IF owner[Run(w)] = w THEN <<Release>> ELSE << >>) \in Seq(Calls)
    BY CallType, CallsType
  <2> QED BY <1>0, <1>4, <2>1, <2>2, ContinueSameTask DEF Finally, Labels
<1>5. CASE Return(w)
  BY <1>5, StopStep DEF Return
<1> QED BY <1>1, <1>2, <1>3, <1>4, <1>5 DEF Control

LEMMA FailType ==
  ASSUME TypeInv, NEW w \in Workers, Fail(w)
  PROVE  TypeInv'
BY RaiseStep DEF Fail, At, Idle

LEMMA BaselineType ==
  ASSUME TypeInv, NEW w \in Workers, BaselineStep(w)
  PROVE  TypeInv'
<1>0. /\ task[w] \in TaskType /\ task[w].claim \in Nat
      /\ modelCalls \in [Runs -> Nat]
  BY DEF TypeInv, TypeOK, TaskType
<1>1. ~Idle(w) /\ calls[w] = << >> /\ Run(w) \in Runs
  BY DEF BaselineStep, AdvanceBaseline, ExecuteBaseline, WriteBaselineEvaluation,
         Advancing, At, Idle, Baseline
<1>2. \A s \in {"BLOCKED", "EVIDENCE_VERIFICATION", "AWAITING_HUMAN_REVIEW"} : Move(s) \in Calls
  BY CallType DEF RunState, ActiveStates, TerminalStates
<1>3. /\ "loop" \in Labels \ {"idle", "dead"}
      /\ "loop" \notin {"review", "verdict", "drafted"}
  BY DEF Labels
<1>4. CASE AdvanceBaseline(w)
  <2>1. Move(BaselineMoves[task[w].stage]) \in Calls
    BY <1>4, CallType DEF AdvanceBaseline, BaselineMoves, RunState, ActiveStates
  <2>2. <<Move(BaselineMoves[task[w].stage])>> \in Seq(Calls)
    BY <2>1, CallsType
  <2>3. /\ Continue(w, <<Move(BaselineMoves[task[w].stage])>>, "loop")
        /\ UNCHANGED task /\ modelCalls' \in [Runs -> Nat]
    BY <1>0, <1>4 DEF AdvanceBaseline
  <2> QED BY <1>1, <1>3, <2>2, <2>3, ContinueSameTask
<1>5. CASE ExecuteBaseline(w)
  <2>1. PICK outcome \in BaselineOutcomes :
          Continue(w,
            <<Store("baseline_run", BaselineRun(task[w].claim, outcome))>> \o
            IF outcome = "completed"
            THEN <<Move("EVIDENCE_VERIFICATION")>>
            ELSE <<Store("baseline_evaluation", Evaluation(task[w].claim)), Move("BLOCKED")>>,
            "loop")
    BY <1>5 DEF ExecuteBaseline
  <2> DEFINE first == <<Store("baseline_run", BaselineRun(task[w].claim, outcome))>>
             rest  == IF outcome = "completed"
                      THEN <<Move("EVIDENCE_VERIFICATION")>>
                      ELSE <<Store("baseline_evaluation", Evaluation(task[w].claim)), Move("BLOCKED")>>
  <2>2. Store("baseline_run", BaselineRun(task[w].claim, outcome)) \in Calls
    BY <1>0, ArtifactTypes, CallType, OutcomesAssumption DEF Names
  <2>3. Store("baseline_evaluation", Evaluation(task[w].claim)) \in Calls
    BY <1>0, ArtifactTypes, CallType DEF Names
  <2>4. first \in Seq(Calls) /\ rest \in Seq(Calls)
    BY <1>2, <2>2, <2>3, CallsType
  <2> HIDE DEF first, rest
  <2>5. first \o rest \in Seq(Calls)
    BY <2>4, ConcatProperties
  <2>6. Continue(w, first \o rest, "loop")
    BY <2>1 DEF first, rest
  <2>7. modelCalls' \in [Runs -> Nat]
    BY <1>0, <1>1, <1>5 DEF ExecuteBaseline, CallModel
  <2>8. UNCHANGED task
    BY <1>5 DEF ExecuteBaseline
  <2> QED BY <1>1, <1>3, <2>5, <2>6, <2>7, <2>8, ContinueSameTask
<1>6. CASE WriteBaselineEvaluation(w)
  <2>1. CASE Fail(w)
    BY <2>1, FailType
  <2>2. CASE /\ Continue(w, <<Store("baseline_evaluation", Evaluation(task[w].claim)),
                              Move("AWAITING_HUMAN_REVIEW")>>, "loop")
             /\ UNCHANGED <<task, modelCalls>>
    <3>1. Store("baseline_evaluation", Evaluation(task[w].claim)) \in Calls
      BY <1>0, ArtifactTypes, CallType DEF Names
    <3>2. <<Store("baseline_evaluation", Evaluation(task[w].claim)),
            Move("AWAITING_HUMAN_REVIEW")>> \in Seq(Calls)
      BY <1>2, <3>1, CallsType
    <3>3. UNCHANGED task /\ modelCalls' \in [Runs -> Nat]
      BY <1>0, <2>2
    <3> QED BY <1>1, <1>3, <2>2, <3>2, <3>3, ContinueSameTask
  <2> QED BY <1>6, <2>1, <2>2 DEF WriteBaselineEvaluation
<1> QED BY <1>4, <1>5, <1>6 DEF BaselineStep

LEMMA AgentType ==
  ASSUME TypeInv, NEW w \in Workers, AgentStep(w)
  PROVE  TypeInv'
<1>0. /\ TypeOK /\ WorkingAt(w) /\ task \in [Workers -> TaskType] /\ task[w] \in TaskType
      /\ task[w].claim \in Nat /\ task[w].attempt \in Attempts
      /\ modelCalls \in [Runs -> Nat]
  BY DEF TypeInv, Working, TypeOK, TaskType
<1>1. ~Idle(w) /\ calls[w] = << >>
  BY DEF AgentStep, AcceptAgentRun, VerifyAgentSources, RetrieveSources, PinSnapshot,
         StartImpactAnalysis, AnalyzeImpacts, ExecuteResponseSupervisor, DraftResponse,
         ReviewDraft, Verdict, FinishDraft, EvaluateResponseSupervisor, Advancing, At, Idle
<1>2. Run(w) \in Runs /\ \A n \in Names : Has(w, n) => Stored(w, n) \in Contents
  BY <1>0, <1>1 DEF WorkingAt, TypeOK, Has, Stored
<1>3. \A s \in {"SOURCE_CHECK", "VERIFIED", "DATA_SNAPSHOT", "IMPACT_ANALYSIS", "ACTION_DRAFTING",
                 "EVIDENCE_VERIFICATION", "AWAITING_HUMAN_REVIEW", "BLOCKED"} : Move(s) \in Calls
  BY CallType DEF RunState, ActiveStates, TerminalStates
<1>4. \A n \in {"source_evidence_package", "impact_package", "response_supervisor_run",
                 "evidence_safety_review", "agent_evaluation"} : n \in Names
  BY DEF Names
<1>5. \A l \in {"loop", "retrieve", "draft", "review", "verdict", "drafted"} :
        l \in Labels \ {"idle", "dead"}
  BY DEF Labels
<1>6. ASSUME NEW cs \in Seq(Calls), NEW l \in {"loop", "retrieve", "draft", "verdict", "drafted"},
             Continue(w, cs, l), UNCHANGED <<task, modelCalls>>,
             l \in {"verdict", "drafted"} => task[w].draft # NoArtifact
      PROVE  TypeInv'
  BY <1>0, <1>1, <1>5, <1>6, ContinueSameTask
<1>7. CASE AcceptAgentRun(w)
  BY <1>3, <1>6, <1>7, CallsType DEF AcceptAgentRun
<1>8. CASE VerifyAgentSources(w)
  BY <1>6, <1>8, CallType, CallsType DEF VerifyAgentSources
<1>9. CASE RetrieveSources(w)
  <2>1. PICK status \in SourceOutcomes :
          Continue(w, <<Store("source_evidence_package", EvidencePackage(task[w].claim, status)),
                        Move(IF status = "conflicting" THEN "BLOCKED" ELSE "VERIFIED")>>, "loop")
    BY <1>9 DEF RetrieveSources
  <2>2. Store("source_evidence_package", EvidencePackage(task[w].claim, status)) \in Calls
    BY <1>0, <1>4, ArtifactTypes, CallType, OutcomesAssumption
  <2>3. Move(IF status = "conflicting" THEN "BLOCKED" ELSE "VERIFIED") \in Calls
    BY <1>3
  <2>4. UNCHANGED <<task, modelCalls>>
    BY <1>9 DEF RetrieveSources
  <2> QED BY <1>6, <2>1, <2>2, <2>3, <2>4, CallsType
<1>10. CASE PinSnapshot(w)
  BY <1>3, <1>6, <1>10, CallsType, FailType DEF PinSnapshot
<1>11. CASE StartImpactAnalysis(w)
  BY <1>3, <1>6, <1>11, CallsType DEF StartImpactAnalysis
<1>12. CASE AnalyzeImpacts(w)
  <2>1. CASE Fail(w)
    BY <2>1, FailType
  <2>2. CASE /\ Has(w, "source_evidence_package")
             /\ Continue(w,
                  <<Progress,
                    Store("impact_package", ImpactPackage(Stored(w, "source_evidence_package"))),
                    Move("ACTION_DRAFTING")>>, "loop")
             /\ UNCHANGED <<task, modelCalls>>
    <3>1. Store("impact_package", ImpactPackage(Stored(w, "source_evidence_package"))) \in Calls
      BY <1>2, <1>4, <2>2, ArtifactTypes, CallType
    <3> QED BY <1>3, <1>6, <2>2, <3>1, CallType, CallsType
  <2> QED BY <1>12, <2>1, <2>2 DEF AnalyzeImpacts
<1>13. CASE ExecuteResponseSupervisor(w)
  <2>1. CASE Fail(w)
    BY <2>1, FailType
  <2>2. CASE /\ Continue(w, <<Progress>>, "draft")
             /\ task' = [task EXCEPT ![w].attempt = 0] /\ UNCHANGED modelCalls
    <3> DEFINE t == [task[w] EXCEPT !.attempt = 0]
    <3>1. t \in TaskType /\ t.run = Run(w) /\ task' = [task EXCEPT ![w] = t]
      BY <1>0, <2>2 DEF TaskType, Run, Attempts
    <3> HIDE DEF t
    <3>2. <<Progress>> \in Seq(Calls)
      BY CallType, CallsType
    <3>3. modelCalls' \in [Runs -> Nat] /\ Continue(w, <<Progress>>, "draft")
      BY <1>0, <2>2
    <3>4. /\ "draft" \in Labels \ {"idle", "dead"}
          /\ "draft" \notin {"review", "verdict", "drafted"}
      BY <1>5
    <3> QED BY <1>1, <3>1, <3>2, <3>3, <3>4, ContinueStep
  <2> QED BY <1>13, <2>1, <2>2 DEF ExecuteResponseSupervisor
<1>14. CASE DraftResponse(w)
  <2>1. PICK outcome \in DraftOutcomes :
          LET draft == SupervisorRun(task[w].claim, task[w].attempt, outcome)
          IN  /\ Continue(w, <<Store(DraftName(task[w].attempt), draft)>>,
                          IF outcome = "failed" THEN "drafted" ELSE "review")
              /\ task' = [task EXCEPT ![w].draft = draft]
    BY <1>14 DEF DraftResponse
  <2> DEFINE draft == SupervisorRun(task[w].claim, task[w].attempt, outcome)
             l == IF outcome = "failed" THEN "drafted" ELSE "review"
             t == [task[w] EXCEPT !.draft = draft]
  <2>2. draft \in Contents /\ draft # NoArtifact
    BY <1>0, ArtifactTypes, OutcomesAssumption, ArtifactAssumption
  <2>3. <<Store(DraftName(task[w].attempt), draft)>> \in Seq(Calls)
    BY <1>0, <2>2, ArtifactTypes, CallType, CallsType
  <2>4. Continue(w, <<Store(DraftName(task[w].attempt), draft)>>, l)
    BY <2>1
  <2>5. task' = [task EXCEPT ![w].draft = draft]
    BY <2>1
  <2>6. l \in Labels \ {"idle", "dead"}
    BY <1>5
  <2> HIDE DEF draft, l
  <2>7. t \in TaskType /\ t.run = Run(w) /\ task' = [task EXCEPT ![w] = t] /\ t.draft # NoArtifact
    BY <1>0, <2>2, <2>5 DEF TaskType, Run
  <2>8. modelCalls' \in [Runs -> Nat]
    BY <1>0, <1>2, <1>14 DEF DraftResponse, CallModel
  <2> HIDE DEF t
  <2> QED BY <1>1, <2>3, <2>4, <2>6, <2>7, <2>8, ContinueStep
<1>15. CASE ReviewDraft(w)
  <2>1. task[w].draft \in Contents /\ task[w].draft # NoArtifact
    BY <1>0, <1>15 DEF ReviewDraft, At, WorkingAt, TaskType
  <2>2. Store("evidence_safety_review", SafetyReview(task[w].draft)) \in Calls
    BY <1>4, <2>1, ArtifactTypes, CallType
  <2> QED BY <1>6, <1>15, <2>1, <2>2, CallType, CallsType DEF ReviewDraft
<1>16. CASE Verdict(w)
  <2>1. task[w].draft \in Contents /\ task[w].draft # NoArtifact /\ UNCHANGED modelCalls
    BY <1>0, <1>16 DEF Verdict, At, WorkingAt, TaskType
  <2>2. Store("response_supervisor_run", task[w].draft) \in Calls
    BY <1>4, <2>1, CallType
  <2>3. CASE Passed(w)
    BY <1>6, <2>1, <2>2, <2>3, CallsType DEF Passed
  <2>4. CASE Exhausted(w)
    BY <1>3, <1>6, <2>1, <2>4, CallsType DEF Exhausted
  <2>5. CASE RevisionRequested(w)
    <3> DEFINE t == [task[w] EXCEPT !.attempt = task[w].attempt + 1]
    <3>1. task[w].attempt + 1 \in Attempts
      BY <1>0, <2>5 DEF RevisionRequested, Attempts
    <3>2. t \in TaskType /\ t.run = Run(w) /\ task' = [task EXCEPT ![w] = t]
      BY <1>0, <2>5, <3>1 DEF RevisionRequested, TaskType, Run
    <3> HIDE DEF t
    <3>3. <<Progress>> \in Seq(Calls) /\ modelCalls' \in [Runs -> Nat]
      BY <1>0, <2>1, CallType, CallsType
    <3>4. Continue(w, <<Progress>>, "draft")
      BY <2>5 DEF RevisionRequested
    <3> QED BY <1>1, <1>5, <3>2, <3>3, <3>4, ContinueStep
  <2> QED BY <1>16, <2>3, <2>4, <2>5 DEF Verdict
<1>17. CASE FinishDraft(w)
  <2>1. task[w].draft \in Contents /\ task[w].draft # NoArtifact
    BY <1>0, <1>17 DEF FinishDraft, At, WorkingAt, TaskType
  <2>2. Store("response_supervisor_run", task[w].draft) \in Calls
    BY <1>4, <2>1, CallType
  <2>3. Move(IF task[w].draft.result = "failed" THEN "BLOCKED" ELSE "EVIDENCE_VERIFICATION") \in Calls
    BY <1>3
  <2> QED BY <1>6, <1>17, <2>2, <2>3, CallType, CallsType DEF FinishDraft
<1>18. CASE EvaluateResponseSupervisor(w)
  <2>1. CASE Fail(w)
    BY <2>1, FailType
  <2>2. Store("agent_evaluation", Evaluation(task[w].claim)) \in Calls
    BY <1>0, <1>4, ArtifactTypes, CallType
  <2> QED
    BY <1>3, <1>6, <1>18, <2>1, <2>2, CallType, CallsType DEF EvaluateResponseSupervisor
<1> QED
  BY <1>7, <1>8, <1>9, <1>10, <1>11, <1>12, <1>13, <1>14, <1>15, <1>16, <1>17, <1>18
  DEF AgentStep

LEMMA InitType == Init => TypeInv
<1> SUFFICES ASSUME Init PROVE TypeInv
  OBVIOUS
<1>1. NoTask \in TaskType /\ Closed \in TxnType
  BY DEF NoTask, Closed, TaskType, TxnType, Attempts
<1>2. TypeOK
  BY <1>1, LeaseAssumption DEF Init, StoreInit, TypeOK, TaskType, TxnType, Labels
<1>3. Working
  BY DEF Init, Working, WorkingAt, Idle, Closed
<1> QED BY <1>2, <1>3 DEF TypeInv

LEMMA NextType == TypeInv /\ [Next]_vars => TypeInv'
<1> SUFFICES ASSUME TypeInv, [Next]_vars PROVE TypeInv'
  OBVIOUS
<1>0. TypeOK /\ Working
  BY DEF TypeInv
<1>1. CASE AcceptRun
  <2>1. PICK r \in Runs : CreateRun(r)
    BY <1>1 DEF AcceptRun
  <2>2. Event("run_created", "RECEIVED") \in EventType
    BY DEF Event, EventType, EventTypes, RunState, ActiveStates
  <2>3. events' \in [Runs -> Seq(EventType)]
    BY <1>0, <2>1, <2>2, AppendEventType DEF CreateRun, TypeOK, EventType
  <2>4. TypeOK'
    BY <1>0, <1>1, <2>1, <2>3
    DEF AcceptRun, CreateRun, TypeOK, workerVars, EventType, RunState, ActiveStates
  <2>5. \A q \in Runs : state[q] # "none" => state'[q] # "none"
    BY <1>0, <2>1 DEF CreateRun, TypeOK
  <2>6. Working'
    BY <1>0, <1>1, <2>5 DEF AcceptRun, Working, WorkingAt, Idle, Run, Calling, workerVars
  <2> QED BY <2>4, <2>6 DEF TypeInv
<1>2. CASE Tick
  <2>1. ttl' \in [Runs -> -1..LeaseTTL]
    BY <1>0, <1>2, LeaseAssumption DEF Tick, Elapse, TypeOK
  <2>2. UNCHANGED <<state, owner, events, artifacts, workerVars>>
    BY <1>2 DEF Tick, Elapse
  <2>3. TypeOK' /\ Working'
    BY <1>0, <2>1, <2>2 DEF TypeOK, Working, WorkingAt, Idle, Run, Calling, workerVars
  <2> QED BY <2>3 DEF TypeInv
<1>3. ASSUME NEW w \in Workers, Work(w) \/ Fault(w) \/ Crash(w)
      PROVE  TypeInv'
  <2>1. CASE Control(w)
    BY <2>1, ControlType
  <2>2. CASE Repository(w)
    <3>1. ~Idle(w)
      BY <1>0, <2>2
      DEF Repository, Check, CheckStore, CommitRenew, CommitRelease, CommitTransition,
          CommitProgress, CommitStore, Committing, Guarded, Calling, Working, WorkingAt
    <3> QED BY <2>2, <3>1, CheckType, CommitType DEF Repository
  <2>3. CASE BaselineStep(w)
    BY <2>3, BaselineType
  <2>4. CASE AgentStep(w)
    BY <2>4, AgentType
  <2>5. CASE Fault(w)
    <3>1. ~Idle(w)
      BY <1>0, <2>5 DEF Fault, At, Calling, Working, WorkingAt, Idle
    <3> QED BY <2>5, <3>1, RaiseStep DEF Fault
  <2>6. CASE Crash(w)
    BY <2>6, StopStep DEF Crash
  <2> QED BY <1>3, <2>1, <2>2, <2>3, <2>4, <2>5, <2>6 DEF Work
<1>4. CASE UNCHANGED vars
  BY <1>0, <1>4
  DEF TypeInv, TypeOK, Working, WorkingAt, Idle, Run, Calling, vars, storeVars, workerVars
<1> QED BY <1>1, <1>2, <1>3, <1>4 DEF Next

\* Type correctness of the engine and its store: every state field, lease, event,
\* artifact and pending repository call keeps its type in every reachable state.
THEOREM TypeCorrect == Spec => []TypeOK
<1>1. Spec => []TypeInv
  BY InitType, NextType, PTL DEF Spec
<1>2. TypeInv => TypeOK
  BY DEF TypeInv
<1> QED BY <1>1, <1>2, PTL

(***************************************************************************)
(* Lease-guarded calls                                                     *)
(***************************************************************************)

\* A call that has checked its lease still holds it, and a transition that was
\* found legal still is.
HolderInv == \A w \in Workers : InLeasedCall(w) => Admitted(w)

\* What a step of v does to the workers: nothing to the others, and v itself
\* ends up outside any call, or has just checked one.
Local(v) ==
  /\ \A w \in Workers \ {v} : task'[w] = task[w] /\ calls'[w] = calls[w] /\ txn'[w] = txn[w]
  /\ \/ ~txn'[v].open
     \/ /\ UNCHANGED <<storeVars, task, calls>>
        /\ Guarded(v) => Admitted(v)

LEMMA ContinueLocal ==
  ASSUME TypeInv, NEW v \in Workers, calls[v] = << >>, NEW cs, NEW l, Continue(v, cs, l),
         NEW t, task' = task \/ task' = [task EXCEPT ![v] = t]
  PROVE  Local(v)
<1>1. ~txn[v].open /\ task \in [Workers -> TaskType] /\ calls \in [Workers -> Seq(Calls)]
  BY DEF TypeInv, TypeOK, TaskType, Working, WorkingAt, Calling
<1> QED BY <1>1 DEF Continue, Local

LEMMA RaiseLocal ==
  ASSUME TypeInv, NEW v \in Workers, Raise(v) \/ \E l \in Labels : Stop(v, l)
  PROVE  Local(v)
<1>1. /\ task \in [Workers -> TaskType] /\ calls \in [Workers -> Seq(Calls)]
      /\ txn \in [Workers -> TxnType]
  BY DEF TypeInv, TypeOK, TaskType, TxnType
<1>2. \A l : Unwind(v, l) => /\ ~txn'[v].open
                            /\ \A w \in Workers \ {v} : calls'[w] = calls[w] /\ txn'[w] = txn[w]
  BY <1>1 DEF Unwind, Closed
<1>3. \A w \in Workers \ {v} : task'[w] = task[w]
  BY <1>1 DEF Raise, Stop
<1>4. \E l : Unwind(v, l)
  BY DEF Raise, Stop
<1> QED BY <1>2, <1>3, <1>4 DEF Local

LEMMA EndLocal ==
  ASSUME TypeInv, NEW v \in Workers, EndCall(v),
         NEW t, task' = task \/ task' = [task EXCEPT ![v] = t]
  PROVE  Local(v)
<1>1. /\ task \in [Workers -> TaskType] /\ calls \in [Workers -> Seq(Calls)]
      /\ txn \in [Workers -> TxnType]
  BY DEF TypeInv, TypeOK, TaskType, TxnType
<1> QED BY <1>1 DEF EndCall, Closed, Local

\* The steps that touch the state or the lease of a run.
LeaseStep(v) ==
  \/ \E r \in Runs : LeaseNextRun(v, r)
  \/ CommitRenew(v) \/ CommitRelease(v) \/ CommitTransition(v)

LEMMA AgentLocal ==
  ASSUME TypeInv, NEW v \in Workers, AgentStep(v)
  PROVE  Local(v) /\ UNCHANGED storeVars
<1>0. calls[v] = << >>
  BY DEF AgentStep, AcceptAgentRun, VerifyAgentSources, RetrieveSources, PinSnapshot,
         StartImpactAnalysis, AnalyzeImpacts, ExecuteResponseSupervisor, DraftResponse,
         ReviewDraft, Verdict, FinishDraft, EvaluateResponseSupervisor, Advancing, At
<1>1. ASSUME NEW cs, NEW l, Continue(v, cs, l), task' = task
      PROVE  Local(v) /\ UNCHANGED storeVars
  BY <1>0, <1>1, ContinueLocal DEF Continue
<1>2. ASSUME NEW cs, NEW l, NEW t, Continue(v, cs, l), task' = [task EXCEPT ![v] = t]
      PROVE  Local(v) /\ UNCHANGED storeVars
  BY <1>0, <1>2, ContinueLocal DEF Continue
<1>3. CASE Fail(v)
  BY <1>3, RaiseLocal DEF Fail
<1>4. CASE AcceptAgentRun(v) \/ VerifyAgentSources(v) \/ RetrieveSources(v) \/ StartImpactAnalysis(v)
           \/ ReviewDraft(v) \/ FinishDraft(v)
  BY <1>1, <1>4 DEF AcceptAgentRun, VerifyAgentSources, RetrieveSources, StartImpactAnalysis,
                    ReviewDraft, FinishDraft
<1>5. CASE PinSnapshot(v) \/ AnalyzeImpacts(v) \/ EvaluateResponseSupervisor(v)
  BY <1>1, <1>3, <1>5 DEF PinSnapshot, AnalyzeImpacts, EvaluateResponseSupervisor
<1>6. CASE ExecuteResponseSupervisor(v)
  <2>1. CASE Continue(v, <<Progress>>, "draft") /\ task' = [task EXCEPT ![v].attempt = 0]
    BY <1>2, <2>1
  <2> QED BY <1>3, <1>6, <2>1 DEF ExecuteResponseSupervisor
<1>7. CASE DraftResponse(v)
  BY <1>2, <1>7 DEF DraftResponse
<1>8. CASE Verdict(v)
  <2>1. CASE Passed(v) \/ Exhausted(v)
    BY <1>1, <2>1 DEF Passed, Exhausted
  <2>2. CASE RevisionRequested(v)
    BY <1>2, <2>2 DEF RevisionRequested
  <2> QED BY <1>8, <2>1, <2>2 DEF Verdict
<1> QED BY <1>4, <1>5, <1>6, <1>7, <1>8 DEF AgentStep

LEMMA BaselineLocal ==
  ASSUME TypeInv, NEW v \in Workers, BaselineStep(v)
  PROVE  Local(v) /\ UNCHANGED storeVars
<1>0. calls[v] = << >>
  BY DEF BaselineStep, AdvanceBaseline, ExecuteBaseline, WriteBaselineEvaluation, Advancing, At
<1>1. ASSUME NEW cs, NEW l, Continue(v, cs, l), task' = task
      PROVE  Local(v) /\ UNCHANGED storeVars
  BY <1>0, <1>1, ContinueLocal DEF Continue
<1>2. CASE Fail(v)
  BY <1>2, RaiseLocal DEF Fail
<1> QED
  BY <1>1, <1>2 DEF BaselineStep, AdvanceBaseline, ExecuteBaseline, WriteBaselineEvaluation

LEMMA ControlLocal ==
  ASSUME TypeInv, NEW v \in Workers, Control(v)
  PROVE  Local(v) /\ (UNCHANGED <<state, owner, ttl>> \/ LeaseStep(v))
<1>1. CASE ClaimRun(v)
  <2>1. ~txn[v].open /\ task \in [Workers -> TaskType]
    BY <1>1 DEF ClaimRun, At, TypeInv, TypeOK, TaskType, Working, WorkingAt, Calling
  <2>2. Local(v)
    BY <1>1, <2>1 DEF ClaimRun, Local
  <2>3. LeaseStep(v)
    BY <1>1 DEF ClaimRun, LeaseStep
  <2> QED BY <2>2, <2>3
<1>2. CASE Loop(v)
  BY <1>2, ContinueLocal DEF Loop, At, Continue, storeVars
<1>3. CASE HandleError(v)
  <2>1. calls[v] = << >>
    BY <1>3 DEF HandleError, At
  <2>2. CASE Continue(v, << >>, "finally") /\ task' = [task EXCEPT ![v].doomed = TRUE]
    BY <2>1, <2>2, ContinueLocal DEF Continue, storeVars
  <2>3. CASE Continue(v, <<Move("BLOCKED")>>, "finally") /\ UNCHANGED task
    BY <2>1, <2>3, ContinueLocal DEF Continue, storeVars
  <2> QED BY <1>3, <2>2, <2>3 DEF HandleError
<1>4. CASE Finally(v)
  BY <1>4, ContinueLocal DEF Finally, At, Continue, storeVars
<1>5. CASE Return(v)
  BY <1>5, RaiseLocal DEF Return, Labels, storeVars
<1> QED BY <1>1, <1>2, <1>3, <1>4, <1>5 DEF Control

LEMMA RepositoryLocal ==
  ASSUME TypeInv, NEW v \in Workers, Repository(v)
  PROVE  Local(v) /\ (UNCHANGED <<state, owner, ttl>> \/ LeaseStep(v))
<1>0. /\ task \in [Workers -> TaskType] /\ calls \in [Workers -> Seq(Calls)]
      /\ txn \in [Workers -> TxnType]
  BY DEF TypeInv, TypeOK, TaskType, TxnType
<1>1. CASE Check(v)
  <2>1. CASE Admitted(v) /\ Begin(v)
    BY <1>0, <1>1, <2>1 DEF Check, Begin, Local, storeVars
  <2>2. CASE Raise(v)
    BY <1>1, <2>2, RaiseLocal DEF Check, storeVars
  <2> QED BY <1>1, <2>1, <2>2 DEF Check
<1>2. CASE CheckStore(v)
  <2>1. ~Guarded(v) /\ ~txn[v].open /\ UNCHANGED storeVars
    BY <1>2 DEF CheckStore, Guarded
  <2>2. CASE Begin(v)
    BY <1>0, <2>1, <2>2 DEF Begin, Local, storeVars
  <2>3. CASE Raise(v)
    BY <2>1, <2>3, RaiseLocal DEF storeVars
  <2>4. CASE calls' = [calls EXCEPT ![v] = Tail(@)] /\ UNCHANGED <<pc, task, txn>>
    BY <1>0, <2>1, <2>4 DEF Local, storeVars
  <2> QED BY <1>2, <2>2, <2>3, <2>4 DEF CheckStore
<1>3. CASE CommitRenew(v) \/ CommitRelease(v)
  BY <1>3, EndLocal DEF CommitRenew, CommitRelease, LeaseStep
<1>4. CASE CommitTransition(v)
  BY <1>4, EndLocal DEF CommitTransition, LeaseStep
<1>5. CASE CommitProgress(v)
  BY <1>5, EndLocal, RaiseLocal DEF CommitProgress, RecordProgress, storeVars
<1>6. CASE CommitStore(v)
  BY <1>6, EndLocal, RaiseLocal DEF CommitStore, StoreArtifact, storeVars
<1> QED BY <1>1, <1>2, <1>3, <1>4, <1>5, <1>6 DEF Repository

LEMMA WorkerLocal ==
  ASSUME TypeInv, NEW v \in Workers, Work(v) \/ Fault(v) \/ Crash(v)
  PROVE  Local(v) /\ (UNCHANGED <<state, owner, ttl>> \/ LeaseStep(v))
<1>1. CASE Fault(v) \/ Crash(v)
  BY <1>1, RaiseLocal DEF Fault, Crash, Labels, storeVars
<1>2. CASE AgentStep(v) \/ BaselineStep(v)
  BY <1>2, AgentLocal, BaselineLocal DEF storeVars
<1> QED BY <1>1, <1>2, ControlLocal, RepositoryLocal DEF Work

\* A step on the lease or the state of a run cannot touch a run on which another
\* worker has a checked call open: that worker holds the lease.
LEMMA LeaseUntouched ==
  ASSUME TypeInv, HolderInv, NEW v \in Workers, LeaseStep(v),
         NEW w \in Workers, w # v, InLeasedCall(w)
  PROVE  /\ state'[Run(w)] = state[Run(w)] /\ owner'[Run(w)] = owner[Run(w)]
         /\ ttl'[Run(w)] = ttl[Run(w)]
<1>1. owner[Run(w)] = w /\ ttl[Run(w)] > 0
  BY DEF HolderInv, Admitted, Owns
<1>2. /\ state \in [Runs -> RunState \cup {"none"}] /\ owner \in [Runs -> Workers \cup {NoWorker}]
      /\ ttl \in [Runs -> -1..LeaseTTL] /\ Run(w) \in Runs
  BY DEF InLeasedCall, Guarded, TypeInv, TypeOK, Working, WorkingAt, Calling
<1>3. CASE \E r \in Runs : LeaseNextRun(v, r)
  <2>1. PICK r \in Runs : LeaseNextRun(v, r)
    BY <1>3
  <2>2. r # Run(w)
    BY <1>1, <1>2, <2>1, LeaseAssumption DEF LeaseNextRun, NextRun, Claimable
  <2> QED BY <1>2, <2>1, <2>2 DEF LeaseNextRun
<1>4. CASE CommitRenew(v) \/ CommitRelease(v) \/ CommitTransition(v)
  <2>1. InLeasedCall(v)
    BY <1>4 DEF CommitRenew, CommitRelease, CommitTransition, Committing, InLeasedCall, Guarded
  <2>2. Run(v) # Run(w)
    BY <1>1, <2>1 DEF HolderInv, Admitted, Owns
  <2> QED
    BY <1>2, <1>4, <2>2
    DEF CommitRenew, CommitRelease, CommitTransition, RenewLease, ReleaseLease, Transition
<1> QED BY <1>3, <1>4 DEF LeaseStep

LEMMA NextHolder ==
  ASSUME PromptCommits, TypeInv, HolderInv, [Next]_vars
  PROVE  HolderInv'
<1>1. CASE AcceptRun
  <2>1. PICK r \in Runs : CreateRun(r)
    BY <1>1 DEF AcceptRun
  <2>2. SUFFICES ASSUME NEW w \in Workers, InLeasedCall(w)' PROVE Admitted(w)'
    BY DEF HolderInv
  <2>3. InLeasedCall(w) /\ Admitted(w)
    BY <1>1, <2>2 DEF AcceptRun, workerVars, InLeasedCall, Guarded, Calling, Call, HolderInv
  <2>4. Run(w) \in Runs /\ state[Run(w)] # "none" /\ state \in [Runs -> RunState \cup {"none"}]
    BY <2>3 DEF InLeasedCall, Guarded, Calling, TypeInv, TypeOK, Working, WorkingAt
  <2>5. state'[Run(w)] = state[Run(w)] /\ UNCHANGED <<owner, ttl>>
    BY <2>1, <2>4 DEF CreateRun
  <2> QED BY <1>1, <2>3, <2>5 DEF AcceptRun, workerVars, Admitted, Owns, Run, Call
<1>2. CASE Tick
  <2>1. SUFFICES ASSUME NEW w \in Workers, InLeasedCall(w)' PROVE Admitted(w)'
    BY DEF HolderInv
  <2>2. UNCHANGED <<workerVars, state, owner>>
    BY <1>2 DEF Tick, Elapse
  <2>3. InLeasedCall(w) /\ Admitted(w)
    BY <2>1, <2>2 DEF workerVars, InLeasedCall, Guarded, Calling, Call, HolderInv
  <2>4. ttl'[Run(w)] > 0
    BY <1>2, <2>3 DEF Tick
  <2> QED BY <2>2, <2>3, <2>4 DEF workerVars, Admitted, Owns, Run, Call
<1>3. ASSUME NEW v \in Workers, Work(v) \/ Fault(v) \/ Crash(v)
      PROVE  HolderInv'
  <2>1. Local(v) /\ (UNCHANGED <<state, owner, ttl>> \/ LeaseStep(v))
    BY <1>3, WorkerLocal
  <2>2. SUFFICES ASSUME NEW w \in Workers, InLeasedCall(w)' PROVE Admitted(w)'
    BY DEF HolderInv
  <2>3. CASE w = v
    BY <2>1, <2>2, <2>3
    DEF Local, storeVars, InLeasedCall, Guarded, Calling, Call, Admitted, Owns, Run
  <2>4. CASE w # v
    <3>1. task'[w] = task[w] /\ calls'[w] = calls[w] /\ txn'[w] = txn[w]
      BY <2>1, <2>4 DEF Local
    <3>2. InLeasedCall(w) /\ Admitted(w)
      BY <2>2, <3>1 DEF InLeasedCall, Guarded, Calling, Call, HolderInv
    <3>3. /\ state'[Run(w)] = state[Run(w)] /\ owner'[Run(w)] = owner[Run(w)]
          /\ ttl'[Run(w)] = ttl[Run(w)]
      BY <2>1, <2>4, <3>2, LeaseUntouched
    <3> QED BY <3>1, <3>2, <3>3 DEF Admitted, Owns, Run, Call
  <2> QED BY <2>3, <2>4
<1>4. CASE UNCHANGED vars
  BY <1>4
  DEF vars, storeVars, workerVars, HolderInv, InLeasedCall, Guarded, Calling, Call, Admitted,
      Owns, Run
<1> QED BY <1>1, <1>2, <1>3, <1>4 DEF Next

LEMMA InitHolder == Init => HolderInv
  BY DEF Init, Closed, HolderInv, InLeasedCall

\* The induction both theorems below rest on.
LEMMA HolderAlways ==
  ASSUME PromptCommits
  PROVE  Spec => [](TypeInv /\ HolderInv)
<1>1. Init => TypeInv /\ HolderInv
  BY InitType, InitHolder
<1>2. TypeInv /\ HolderInv /\ [Next]_vars => (TypeInv /\ HolderInv)'
  BY NextType, NextHolder
<1> QED BY <1>1, <1>2, PTL DEF Spec

(***************************************************************************)
(* What a step does to the durable record                                  *)
(***************************************************************************)
Storing(v) ==
  /\ Committing(v, "store") /\ ~Has(v, Call(v).name)
  /\ StoreArtifact(Run(v), Call(v).name, Call(v).content)

\* Only the commit of a transition and the commit of a store touch it.
LEMMA RecordSteps ==
  ASSUME NEW v \in Workers, Work(v) \/ Fault(v) \/ Crash(v)
  PROVE  UNCHANGED <<state, artifacts>> \/ CommitTransition(v) \/ Storing(v)
<1>1. CASE Fault(v) \/ Crash(v)
  BY <1>1 DEF Fault, Crash, storeVars
<1>2. CASE AgentStep(v)
  BY <1>2
  DEF AgentStep, AcceptAgentRun, VerifyAgentSources, RetrieveSources, PinSnapshot,
      StartImpactAnalysis, AnalyzeImpacts, ExecuteResponseSupervisor, DraftResponse,
      ReviewDraft, Verdict, Passed, Exhausted, RevisionRequested, FinishDraft,
      EvaluateResponseSupervisor, Fail, Continue, storeVars
<1>3. CASE BaselineStep(v)
  BY <1>3
  DEF BaselineStep, AdvanceBaseline, ExecuteBaseline, WriteBaselineEvaluation, Fail, Continue,
      storeVars
<1>4. CASE Control(v)
  BY <1>4
  DEF Control, ClaimRun, LeaseNextRun, Loop, HandleError, Finally, Return, Continue, storeVars
<1>5. CASE Repository(v)
  BY <1>5
  DEF Repository, Check, CheckStore, CommitRenew, RenewLease, CommitRelease, ReleaseLease,
      CommitProgress, RecordProgress, CommitStore, Storing, storeVars
<1> QED BY <1>1, <1>2, <1>3, <1>4, <1>5 DEF Work

\* A transition that commits is one the lease and ALLOWED_TRANSITIONS admit.
LEMMA TransitionAdmitted ==
  ASSUME TypeInv, HolderInv, NEW v \in Workers, CommitTransition(v)
  PROVE  /\ Run(v) \in Runs /\ state[Run(v)] # "none" /\ Owns(v, Run(v))
         /\ Call(v).to \in AllowedTransitions[state[Run(v)]]
         /\ calls'[v] # calls[v]
<1>1. InLeasedCall(v) /\ Admitted(v) /\ Call(v).op = "transition"
  BY DEF CommitTransition, Committing, InLeasedCall, Guarded, HolderInv
<1>2. Run(v) \in Runs /\ state[Run(v)] # "none"
  BY <1>1 DEF InLeasedCall, Guarded, Calling, TypeInv, Working, WorkingAt
<1>3. calls \in [Workers -> Seq(Calls)] /\ calls[v] # << >>
  BY <1>1 DEF TypeInv, TypeOK, InLeasedCall, Guarded, Calling
<1>4. calls'[v] = Tail(calls[v])
  BY <1>3 DEF CommitTransition, EndCall
<1>5. Len(Tail(calls[v])) = Len(calls[v]) - 1 /\ Len(calls[v]) \in Nat
  BY <1>3, HeadTailProperties, LenProperties
<1>6. ASSUME NEW s, NEW t, Len(t) = Len(s) - 1, Len(s) \in Nat
      PROVE  t # s
  BY <1>6
<1>7. calls'[v] # calls[v]
  BY <1>4, <1>5, <1>6
<1> QED BY <1>1, <1>2, <1>7 DEF Admitted

\* An artifact that is stored goes to a free name and is a content.
LEMMA StoringPins ==
  ASSUME TypeInv, NEW v \in Workers, Storing(v)
  PROVE  /\ Run(v) \in Runs /\ state[Run(v)] # "none"
         /\ Call(v).name \in Names /\ Call(v).content \in Contents
         /\ artifacts[Run(v)][Call(v).name] = NoArtifact
<1>1. calls \in [Workers -> Seq(Calls)] /\ calls[v] # << >> /\ Call(v).op = "store"
  BY DEF TypeInv, TypeOK, Storing, Committing, Calling
<1>2. Call(v) \in Calls
  BY <1>1, TailType DEF Call
<1>3. Call(v).name \in Names /\ Call(v).content \in Contents
  BY <1>1, <1>2 DEF Calls, Renew, Progress, Release
<1>4. Run(v) \in Runs /\ state[Run(v)] # "none"
  BY <1>1 DEF TypeInv, Working, WorkingAt
<1> QED BY <1>3, <1>4 DEF Storing, Has, Stored

\* The state of a run changes by its creation or by an admitted transition.
LEMMA StateSteps ==
  ASSUME TypeInv, [Next]_vars, NEW r \in Runs, state'[r] # state[r]
  PROVE  state[r] = "none" \/ \E v \in Workers : CommitTransition(v) /\ Run(v) = r
<1>0. state \in [Runs -> RunState \cup {"none"}]
  BY DEF TypeInv, TypeOK
<1>1. CASE AcceptRun
  BY <1>0, <1>1 DEF AcceptRun, CreateRun
<1>2. CASE Tick
  BY <1>2 DEF Tick, Elapse
<1>3. ASSUME NEW v \in Workers, Work(v) \/ Fault(v) \/ Crash(v)
      PROVE  CommitTransition(v) /\ Run(v) = r
  <2>1. CommitTransition(v)
    BY <1>3, RecordSteps DEF Storing, StoreArtifact
  <2>2. state' = [state EXCEPT ![Run(v)] = Call(v).to]
    BY <2>1 DEF CommitTransition, Transition
  <2> QED BY <1>0, <2>1, <2>2
<1>4. CASE UNCHANGED vars
  BY <1>4 DEF vars, storeVars
<1> QED BY <1>1, <1>2, <1>3, <1>4 DEF Next

(***************************************************************************)
(* Leases a worker leaves behind                                           *)
(***************************************************************************)

\* A worker about to return from process_next has still to release the lease, or
\* no longer has it.
ExitInv ==
  \A w \in Workers :
    pc[w] = "exit" => calls[w] = <<Release>> \/ (calls[w] = << >> /\ owner[Run(w)] # w)

LeaseInv == NoLeakedLease /\ ExitInv

\* What a step of v leaves alone of the other workers.
OthersSame(v) ==
  \A w \in Workers \ {v} : pc'[w] = pc[w] /\ task'[w] = task[w] /\ calls'[w] = calls[w]

\* A step of v inside process_next that touches no lease.
Quiet(v) ==
  /\ OthersSame(v) /\ UNCHANGED owner
  /\ pc[v] # "dead" /\ pc'[v] # "exit"
  /\ pc'[v] # "dead" => task'[v].run = task[v].run

LEMMA QuietKeeps ==
  ASSUME LeaseInv, NEW v \in Workers, Quiet(v)
  PROVE  LeaseInv'
<1>1. ASSUME NEW w \in Workers, NEW r \in Runs, owner'[r] = w, pc'[w] # "dead"
      PROVE  task'[w].run = r
  BY <1>1 DEF Quiet, OthersSame, LeaseInv, NoLeakedLease, Alive
<1>2. ASSUME NEW w \in Workers, pc'[w] = "exit"
      PROVE  calls'[w] = <<Release>> \/ (calls'[w] = << >> /\ owner'[Run(w)'] # w)
  BY <1>2 DEF Quiet, OthersSame, LeaseInv, ExitInv, Run
<1> QED BY <1>1, <1>2 DEF LeaseInv, NoLeakedLease, ExitInv, Alive, Run

LEMMA ContinueQuiet ==
  ASSUME TypeInv, NEW v \in Workers, pc[v] # "dead", NEW cs, NEW l, l # "exit",
         Continue(v, cs, l), NEW t, task' = task \/ task' = [task EXCEPT ![v] = t],
         task'[v].run = task[v].run
  PROVE  Quiet(v)
<1>1. /\ pc \in [Workers -> Labels] /\ calls \in [Workers -> Seq(Calls)]
      /\ task \in [Workers -> TaskType]
  BY DEF TypeInv, TypeOK, TaskType
<1>2. pc'[v] = l /\ OthersSame(v)
  BY <1>1 DEF Continue, OthersSame
<1> QED BY <1>2 DEF Continue, storeVars, Quiet

LEMMA RaiseQuiet ==
  ASSUME TypeInv, NEW v \in Workers, pc[v] # "dead", UNCHANGED storeVars,
         Raise(v) \/ Stop(v, "dead")
  PROVE  Quiet(v)
<1>1. /\ pc \in [Workers -> Labels] /\ calls \in [Workers -> Seq(Calls)]
      /\ task \in [Workers -> TaskType]
  BY DEF TypeInv, TypeOK, TaskType
<1>2. OthersSame(v)
  BY <1>1 DEF Raise, Stop, Unwind, OthersSame
<1>3. pc'[v] \in {"failed", "finally", "dead"}
  BY <1>1 DEF Raise, Stop, Unwind
<1>4. pc'[v] # "dead" => task'[v].run = task[v].run
  BY <1>1 DEF Raise, Stop, Unwind, TaskType
<1> QED BY <1>2, <1>3, <1>4 DEF storeVars, Quiet

LEMMA AgentQuiet ==
  ASSUME TypeInv, NEW v \in Workers, AgentStep(v)
  PROVE  Quiet(v)
<1>0. pc[v] # "dead" /\ task \in [Workers -> TaskType]
  BY DEF AgentStep, AcceptAgentRun, VerifyAgentSources, RetrieveSources, PinSnapshot,
         StartImpactAnalysis, AnalyzeImpacts, ExecuteResponseSupervisor, DraftResponse,
         ReviewDraft, Verdict, FinishDraft, EvaluateResponseSupervisor, Advancing, At,
         TypeInv, TypeOK, TaskType
<1>1. ASSUME NEW cs, NEW l, l # "exit", Continue(v, cs, l), task' = task
      PROVE  Quiet(v)
  BY <1>0, <1>1, ContinueQuiet
<1>2. ASSUME NEW cs, NEW l, l # "exit", Continue(v, cs, l),
             NEW t, task' = [task EXCEPT ![v] = t], t.run = task[v].run
      PROVE  Quiet(v)
  <2>1. task'[v].run = task[v].run
    BY <1>0, <1>2
  <2> QED BY <1>0, <1>2, <2>1, ContinueQuiet
<1>3. CASE Fail(v)
  BY <1>0, <1>3, RaiseQuiet DEF Fail
<1>4. CASE AcceptAgentRun(v) \/ VerifyAgentSources(v) \/ RetrieveSources(v) \/ StartImpactAnalysis(v)
           \/ ReviewDraft(v) \/ FinishDraft(v)
  BY <1>1, <1>4 DEF AcceptAgentRun, VerifyAgentSources, RetrieveSources, StartImpactAnalysis,
                    ReviewDraft, FinishDraft
<1>5. CASE PinSnapshot(v) \/ AnalyzeImpacts(v) \/ EvaluateResponseSupervisor(v)
  BY <1>1, <1>3, <1>5 DEF PinSnapshot, AnalyzeImpacts, EvaluateResponseSupervisor
<1>6. CASE ExecuteResponseSupervisor(v)
  <2>1. CASE Continue(v, <<Progress>>, "draft") /\ task' = [task EXCEPT ![v].attempt = 0]
    BY <1>0, <1>2, <2>1 DEF TaskType
  <2> QED BY <1>3, <1>6, <2>1 DEF ExecuteResponseSupervisor
<1>7. CASE DraftResponse(v)
  BY <1>0, <1>2, <1>7 DEF DraftResponse, TaskType
<1>8. CASE Verdict(v)
  <2>1. CASE Passed(v) \/ Exhausted(v)
    BY <1>1, <2>1 DEF Passed, Exhausted
  <2>2. CASE RevisionRequested(v)
    BY <1>0, <1>2, <2>2 DEF RevisionRequested, TaskType
  <2> QED BY <1>8, <2>1, <2>2 DEF Verdict
<1> QED BY <1>4, <1>5, <1>6, <1>7, <1>8 DEF AgentStep

LEMMA BaselineQuiet ==
  ASSUME TypeInv, NEW v \in Workers, BaselineStep(v)
  PROVE  Quiet(v)
<1>0. pc[v] # "dead"
  BY DEF BaselineStep, AdvanceBaseline, ExecuteBaseline, WriteBaselineEvaluation, Advancing, At
<1>1. ASSUME NEW cs, NEW l, l # "exit", Continue(v, cs, l), task' = task
      PROVE  Quiet(v)
  BY <1>0, <1>1, ContinueQuiet
<1>2. CASE Fail(v)
  BY <1>0, <1>2, RaiseQuiet DEF Fail
<1> QED
  BY <1>1, <1>2 DEF BaselineStep, AdvanceBaseline, ExecuteBaseline, WriteBaselineEvaluation

\* The control steps: claiming gives the worker its run, finally decides by the
\* row whether there is a lease to release, and returning finds none.
LEMMA ControlKeeps ==
  ASSUME TypeInv, LeaseInv, NEW v \in Workers, Control(v)
  PROVE  LeaseInv'
<1>0. /\ pc \in [Workers -> Labels] /\ calls \in [Workers -> Seq(Calls)]
      /\ task \in [Workers -> TaskType] /\ owner \in [Runs -> Workers \cup {NoWorker}]
  BY DEF TypeInv, TypeOK, TaskType
<1>1. CASE ClaimRun(v)
  <2>1. PICK r \in Runs : LeaseNextRun(v, r) /\ task' = [task EXCEPT ![v] = NewTask(r)]
    BY <1>1 DEF ClaimRun
  <2>2. task[v].run = 0 /\ 0 \notin Runs
    BY <1>1, RunsAssumption DEF ClaimRun, At, TypeInv, Working, WorkingAt, Idle, NoTask
  <2>3. \A q \in Runs : owner[q] # v
    BY <1>1, <2>2 DEF ClaimRun, At, LeaseInv, NoLeakedLease, Alive, Run
  <2>4. task'[v].run = r /\ \A w \in Workers \ {v} : task'[w] = task[w] /\ pc'[w] = pc[w]
    BY <1>0, <1>1, <2>1 DEF ClaimRun, NewTask
  <2>5. pc'[v] = "loop" /\ UNCHANGED calls
    BY <1>0, <1>1 DEF ClaimRun
  <2>6. owner' = [owner EXCEPT ![r] = v]
    BY <2>1 DEF LeaseNextRun
  <2>7. NoLeakedLease'
    BY <1>0, <2>3, <2>4, <2>6 DEF LeaseInv, NoLeakedLease, Alive
  <2>8. ASSUME NEW w \in Workers, pc'[w] = "exit"
        PROVE  calls'[w] = <<Release>> \/ (calls'[w] = << >> /\ owner'[task'[w].run] # w)
    <3>1. w # v /\ pc[w] = "exit" /\ task'[w] = task[w] /\ calls'[w] = calls[w]
      BY <2>4, <2>5, <2>8
    <3>2. Run(w) \in Runs
      BY <3>1 DEF TypeInv, Working, WorkingAt, Idle
    <3> QED BY <1>0, <2>6, <3>1, <3>2 DEF LeaseInv, ExitInv, Run
  <2> QED BY <2>7, <2>8 DEF LeaseInv, ExitInv, Run
<1>2. CASE Loop(v) \/ HandleError(v)
  <2>1. pc[v] # "dead"
    BY <1>2 DEF Loop, HandleError, At
  <2>2. task' = task \/ (task' = [task EXCEPT ![v].doomed = TRUE] /\ task'[v].run = task[v].run)
    BY <1>0, <1>2 DEF Loop, HandleError, TaskType
  <2>3. \E cs, l : l # "exit" /\ Continue(v, cs, l)
    BY <1>2 DEF Loop, HandleError
  <2>4. Quiet(v)
    BY <2>1, <2>2, <2>3, ContinueQuiet
  <2> QED BY <2>4, QuietKeeps
<1>3. CASE Finally(v)
  <2>1. pc[v] # "dead" /\ pc'[v] = "exit" /\ UNCHANGED <<task, owner>> /\ OthersSame(v)
    BY <1>0, <1>3 DEF Finally, At, Continue, storeVars, OthersSame
  <2>2. calls'[v] = IF owner[Run(v)] = v THEN <<Release>> ELSE << >>
    BY <1>0, <1>3 DEF Finally, Continue
  <2>3. NoLeakedLease'
    BY <2>1 DEF OthersSame, LeaseInv, NoLeakedLease, Alive, Run
  <2>4. ExitInv'
    BY <2>1, <2>2 DEF OthersSame, LeaseInv, ExitInv, Run
  <2> QED BY <2>3, <2>4 DEF LeaseInv
<1>4. CASE Return(v)
  <2>1. /\ pc'[v] \in {"dead", "idle"} /\ OthersSame(v) /\ UNCHANGED owner
    BY <1>0, <1>4 DEF Return, Stop, Unwind, OthersSame, storeVars
  <2>2. \A r \in Runs : owner[r] # v
    <3>1. pc[v] = "exit" /\ calls[v] = << >> /\ << >> # <<Release>>
      BY <1>4 DEF Return, At
    <3> QED BY <3>1 DEF LeaseInv, NoLeakedLease, ExitInv, Alive, Run
  <2>3. NoLeakedLease'
    BY <2>1, <2>2 DEF OthersSame, LeaseInv, NoLeakedLease, Alive, Run
  <2>4. ExitInv'
    BY <2>1 DEF OthersSame, LeaseInv, ExitInv, Run
  <2> QED BY <2>3, <2>4 DEF LeaseInv
<1> QED BY <1>1, <1>2, <1>3, <1>4 DEF Control

\* A step of a call in progress leaves pc alone and drops that call, and only a
\* release touches an owner: it names nobody.
Dropping(v) ==
  /\ UNCHANGED pc /\ (calls' = calls \/ calls' = [calls EXCEPT ![v] = Tail(calls[v])])
  /\ \A w \in Workers : task'[w].run = task[w].run
  /\ \/ UNCHANGED owner /\ (Call(v).op # "release" \/ calls' = calls)
     \/ owner' = [owner EXCEPT ![Run(v)] = NoWorker]

LEMMA DroppingKeeps ==
  ASSUME TypeInv, LeaseInv, NEW v \in Workers, calls[v] # << >>, Dropping(v)
  PROVE  LeaseInv'
<1>0. /\ calls \in [Workers -> Seq(Calls)] /\ owner \in [Runs -> Workers \cup {NoWorker}]
  BY DEF TypeInv, TypeOK
<1>1. ASSUME NEW w \in Workers, NEW r \in Runs, owner'[r] = w PROVE owner[r] = w
  BY <1>0, <1>1, WorkersAssumption DEF Dropping
<1>2. NoLeakedLease'
  BY <1>1 DEF Dropping, LeaseInv, NoLeakedLease, Alive, Run
<1>3. ASSUME NEW w \in Workers, pc[w] = "exit"
      PROVE  calls'[w] = <<Release>> \/ (calls'[w] = << >> /\ owner'[task[w].run] # w)
  <2>1. Run(w) \in Runs
    BY <1>3 DEF TypeInv, Working, WorkingAt, Idle
  <2>2. CASE w # v \/ calls' = calls
    BY <1>0, <1>1, <1>3, <2>1, <2>2 DEF Dropping, LeaseInv, ExitInv, Run
  <2>3. CASE w = v /\ calls' = [calls EXCEPT ![v] = Tail(calls[v])]
    <3>1. calls[v] = <<Release>>
      BY <1>3, <2>3 DEF LeaseInv, ExitInv
    <3>2. calls'[v] = << >>
      BY <1>0, <2>3, <3>1
    <3>3. calls' # calls /\ Call(v).op = "release"
      BY <3>1, <3>2 DEF Call, Release
    <3>4. owner'[Run(v)] = NoWorker
      BY <1>0, <2>1, <2>3, <3>3 DEF Dropping
    <3> QED BY <2>3, <3>2, <3>4, WorkersAssumption DEF Run
  <2> QED BY <2>2, <2>3 DEF Dropping
<1>4. ExitInv'
  BY <1>3 DEF Dropping, ExitInv, Run
<1> QED BY <1>2, <1>4 DEF LeaseInv

LEMMA RepositoryKeeps ==
  ASSUME TypeInv, LeaseInv, NEW v \in Workers, Repository(v)
  PROVE  LeaseInv'
<1>0. calls[v] # << >> /\ pc[v] # "dead" /\ task \in [Workers -> TaskType]
  <2>1. calls[v] # << >>
    BY DEF Repository, Check, CheckStore, CommitRenew, CommitRelease, CommitTransition,
           CommitProgress, CommitStore, Committing, Guarded, Calling
  <2> QED BY <2>1 DEF TypeInv, TypeOK, TaskType, Working, WorkingAt, Idle
<1>1. CASE Raise(v) /\ UNCHANGED storeVars
  BY <1>0, <1>1, RaiseQuiet, QuietKeeps
<1>2. CASE Dropping(v)
  BY <1>0, <1>2, DroppingKeeps
<1>3. CASE Check(v) \/ CheckStore(v)
  <2>1. CASE Raise(v)
    BY <1>1, <1>3, <2>1 DEF Check, CheckStore
  <2>2. CASE Begin(v)
    BY <1>2, <1>3, <2>2 DEF Check, CheckStore, Begin, Dropping, storeVars
  <2>3. CASE calls' = [calls EXCEPT ![v] = Tail(@)] /\ UNCHANGED <<pc, task, txn>>
             /\ Call(v).op = "store" /\ UNCHANGED owner
    BY <1>2, <2>3 DEF Dropping
  <2> QED BY <1>3, <2>1, <2>2, <2>3 DEF Check, CheckStore, storeVars
<1>4. CASE CommitRenew(v) \/ CommitRelease(v)
  BY <1>2, <1>4
  DEF CommitRenew, RenewLease, CommitRelease, ReleaseLease, Committing, EndCall, Dropping
<1>5. CASE CommitTransition(v)
  <2>1. \A w \in Workers : task'[w].run = task[w].run
    BY <1>0, <1>5 DEF CommitTransition, TaskType
  <2> QED BY <1>2, <1>5, <2>1 DEF CommitTransition, Transition, Committing, EndCall, Dropping
<1>6. CASE CommitProgress(v)
  BY <1>1, <1>2, <1>6 DEF CommitProgress, RecordProgress, Committing, EndCall, Dropping
<1>7. CASE CommitStore(v)
  BY <1>1, <1>2, <1>7 DEF CommitStore, StoreArtifact, Committing, EndCall, Dropping
<1> QED BY <1>3, <1>4, <1>5, <1>6, <1>7 DEF Repository

LEMMA NextLease ==
  ASSUME TypeInv, LeaseInv, [Next]_vars
  PROVE  LeaseInv'
<1>1. CASE AcceptRun \/ Tick
  BY <1>1
  DEF AcceptRun, CreateRun, Tick, Elapse, workerVars, LeaseInv, NoLeakedLease, ExitInv, Alive, Run
<1>2. ASSUME NEW v \in Workers, Work(v) \/ Fault(v) \/ Crash(v)
      PROVE  LeaseInv'
  <2>1. CASE AgentStep(v) \/ BaselineStep(v)
    BY <2>1, AgentQuiet, BaselineQuiet, QuietKeeps
  <2>2. CASE Fault(v)
    <3>1. pc[v] # "dead"
      BY <2>2 DEF Fault, At, Calling, TypeInv, Working, WorkingAt, Idle
    <3> QED BY <2>2, <3>1, RaiseQuiet, QuietKeeps DEF Fault
  <2>3. CASE Crash(v)
    BY <2>3, RaiseQuiet, QuietKeeps DEF Crash, Alive
  <2> QED BY <1>2, <2>1, <2>2, <2>3, ControlKeeps, RepositoryKeeps DEF Work
<1>3. CASE UNCHANGED vars
  BY <1>3 DEF vars, storeVars, workerVars, LeaseInv, NoLeakedLease, ExitInv, Alive, Run
<1> QED BY <1>1, <1>2, <1>3 DEF Next

LEMMA InitLease == Init => LeaseInv
  BY WorkersAssumption DEF Init, StoreInit, LeaseInv, NoLeakedLease, ExitInv

(***************************************************************************)
(* Theorems                                                                *)
(***************************************************************************)

\* However the workers race, are suspended, fail or die: a row never names a live
\* worker that is not working on that run.
THEOREM LeasesReturned == Spec => []NoLeakedLease
<1>1. Init => TypeInv /\ LeaseInv
  BY InitType, InitLease
<1>2. TypeInv /\ LeaseInv /\ [Next]_vars => (TypeInv /\ LeaseInv)'
  BY NextType, NextLease
<1>3. LeaseInv => NoLeakedLease
  BY DEF LeaseInv
<1> QED BY <1>1, <1>2, <1>3, PTL DEF Spec

\* As long as no worker is suspended inside a call past its lease, a created run
\* changes state only by the commit of the worker that holds its lease then.
THEOREM HolderMoves ==
  ASSUME PromptCommits
  PROVE  Spec => OnlyHolderMoves
<1>1. ASSUME TypeInv, HolderInv, [Next]_vars,
             NEW r \in Runs, Created(r), state'[r] # state[r]
      PROVE  \E w \in Workers : MovedBy(w, r)
  <2>1. PICK v \in Workers : CommitTransition(v) /\ Run(v) = r
    BY <1>1, StateSteps DEF Created
  <2>2. Owns(v, Run(v)) /\ calls'[v] # calls[v]
    BY <1>1, <2>1, TransitionAdmitted
  <2> QED BY <2>1, <2>2 DEF MovedBy, Run
<1>2. TypeInv /\ HolderInv /\ [Next]_vars =>
        [\A r \in Runs : Created(r) /\ state'[r] # state[r] => \E w \in Workers : MovedBy(w, r)]_vars
  BY <1>1
<1>3. Spec => [](TypeInv /\ HolderInv)
  BY HolderAlways
<1> QED BY <1>2, <1>3, PTL DEF Spec, OnlyHolderMoves

\* No step changes what is pinned.
LEMMA PinsStay ==
  ASSUME TypeInv, [Next]_vars,
         NEW r \in Runs, NEW n \in Names, artifacts[r][n] # NoArtifact
  PROVE  artifacts'[r][n] = artifacts[r][n]
<1>1. CASE AcceptRun
  BY <1>1 DEF AcceptRun, CreateRun
<1>2. CASE Tick
  BY <1>2 DEF Tick, Elapse
<1>3. ASSUME NEW v \in Workers, Work(v) \/ Fault(v) \/ Crash(v)
      PROVE  artifacts'[r][n] = artifacts[r][n]
  <2>1. CASE Storing(v)
    <3>1. artifacts' = [artifacts EXCEPT ![Run(v)][Call(v).name] = Call(v).content]
      BY <2>1 DEF Storing, StoreArtifact
    <3>2. ~(r = Run(v) /\ n = Call(v).name)
      BY <2>1, StoringPins
    <3>3. artifacts \in [Runs -> [Names -> Contents \cup {NoArtifact}]]
      BY DEF TypeInv, TypeOK
    <3> QED BY <3>1, <3>2, <3>3
  <2>2. CASE CommitTransition(v)
    BY <2>2 DEF CommitTransition, Transition
  <2> QED BY <1>3, <2>1, <2>2, RecordSteps
<1>4. CASE UNCHANGED vars
  BY <1>4 DEF vars, storeVars
<1> QED BY <1>1, <1>2, <1>3, <1>4 DEF Next

\* However the workers race, are suspended, fail or die: what is pinned under a
\* logical name stays as it is (the unique constraint refuses the second INSERT).
THEOREM Pins == Spec => PinsArePermanent
<1>1. TypeInv /\ [Next]_vars =>
        [\A r \in Runs, n \in Names :
           artifacts[r][n] # NoArtifact => artifacts'[r][n] = artifacts[r][n]]_vars
  BY PinsStay
<1>2. Spec => []TypeInv
  BY InitType, NextType, PTL DEF Spec
<1> QED BY <1>1, <1>2, PTL DEF Spec, PinsArePermanent

\* The lifecycle and the repository speak of the same states and moves.
LEMMA SameStates ==
  Lifecycle!RunState = RunState /\ Lifecycle!AllowedTransitions = AllowedTransitions
  BY DEF RunState, ActiveStates, TerminalStates, AllowedTransitions, Lifecycle!RunState,
         Lifecycle!ActiveStates, Lifecycle!TerminalStates, Lifecycle!AllowedTransitions

\* As long as no worker is suspended inside a call past its lease, the engine
\* implements the lifecycle every reader of the durable record relies on.
THEOREM Refinement ==
  ASSUME PromptCommits
  PROVE  Spec => RefinesLifecycle
<1>1. Init => Lifecycle!Init
  BY DEF Init, StoreInit, Lifecycle!Init
<1>2. ASSUME TypeInv, HolderInv, [Next]_vars
      PROVE  [Lifecycle!Next]_(Lifecycle!vars)
  <2>1. CASE AcceptRun
    <3>1. PICK r \in Runs : CreateRun(r)
      BY <2>1 DEF AcceptRun
    <3>2. Lifecycle!Create(r)
      BY <3>1 DEF CreateRun, Lifecycle!Create
    <3> QED BY <3>2 DEF Lifecycle!Next
  <2>2. CASE Tick
    BY <2>2 DEF Tick, Elapse, Lifecycle!vars
  <2>3. ASSUME NEW v \in Workers, Work(v) \/ Fault(v) \/ Crash(v)
        PROVE  [Lifecycle!Next]_(Lifecycle!vars)
    <3>1. CASE CommitTransition(v)
      <4>1. /\ Run(v) \in Runs /\ state[Run(v)] # "none"
            /\ Call(v).to \in AllowedTransitions[state[Run(v)]]
        BY <1>2, <3>1, TransitionAdmitted
      <4>2. state[Run(v)] \in RunState
        BY <1>2, <4>1 DEF TypeInv, TypeOK
      <4>3. Call(v).to \in Lifecycle!RunState
        BY <4>1, <4>2, MovesType, SameStates
      <4>4. Lifecycle!Move(Run(v), Call(v).to)
        BY <3>1, <4>1, SameStates DEF CommitTransition, Transition, Lifecycle!Move
      <4> QED BY <4>1, <4>3, <4>4 DEF Lifecycle!Next
    <3>2. CASE Storing(v)
      <4>1. /\ Run(v) \in Runs /\ state[Run(v)] # "none"
            /\ Call(v).name \in Names /\ Call(v).content \in Contents
            /\ artifacts[Run(v)][Call(v).name] = NoArtifact
        BY <1>2, <3>2, StoringPins
      <4>2. /\ artifacts' = [artifacts EXCEPT ![Run(v)][Call(v).name] = Call(v).content]
            /\ UNCHANGED state
        BY <3>2 DEF Storing, StoreArtifact
      <4>3. artifacts \in [Runs -> [Names -> Contents \cup {NoArtifact}]]
        BY <1>2 DEF TypeInv, TypeOK
      <4>4. artifacts'[Run(v)][Call(v).name] = Call(v).content
        BY <4>1, <4>2, <4>3
      <4>5. Lifecycle!Pin(Run(v), Call(v).name)
        BY <4>1, <4>2, <4>4 DEF Lifecycle!Pin
      <4> QED BY <4>1, <4>5 DEF Lifecycle!Next
    <3> QED BY <2>3, <3>1, <3>2, RecordSteps DEF Lifecycle!vars
  <2>4. CASE UNCHANGED vars
    BY <2>4 DEF vars, storeVars, Lifecycle!vars
  <2> QED BY <1>2, <2>1, <2>2, <2>3, <2>4 DEF Next
<1>3. Spec => [](TypeInv /\ HolderInv)
  BY HolderAlways
<1> QED BY <1>1, <1>2, <1>3, PTL DEF Spec, RefinesLifecycle, Lifecycle!Spec
=============================================================================
