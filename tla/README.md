# Verification of the Climate Cascade Response Agent

TLA+ specifications of this repository: the workflow core, the API and the artifact
store around it, the dashboard in front of it and the data that passes through it,
with the TLC configurations that check them on small instances and theorems about
them checked by TLAPS. Paths below are relative to `backend/src/climate_cascade/`
unless they start with `docs/`, `dashboard/` or `README.md`.

## 1. The system

A *run* is one request to analyse a disaster case, in mode `baseline` (one model
call over a frozen fixture) or `agent` (source intake, impact analysis, a drafted
response, independent review, up to two revisions). The API stores it in SQLite;
worker processes or a daemon thread lease runs and drive them, stage by stage, to
`AWAITING_HUMAN_REVIEW` or `BLOCKED`; the dashboard polls and streams what is
stored.

| Component | State it keeps | Operations | Interacts with | Must hold |
| --- | --- | --- | --- | --- |
| Run repository (`persistence/repositories.py`) | rows `runs`, `run_events`, `artifacts`, `run_artifacts`, `action_reviews` | create, lease, renew, release, transition, record progress, store artifact, record review | everybody, through SQLite | only listed moves, by the lease holder; gap-free event log that tells the history; pinned artifacts never change |
| Workflow engine and workers (`workflow/`, `local.py`) | the claimed run and the locals of its stage | `process_next`, one handler per stage | repository, artifact store, sources, model | stages in order, only reviewed drafts advance, failures become `BLOCKED`, leases come back, every run settles |
| Artifact store (`persistence/artifacts.py`) | content-addressed files | `put_bytes`, `read_json` | engine, API | a row never names a missing file |
| HTTP API (`api/app.py`) | none of its own | create run (idempotent), read, review an action, stream events | repository | one run per key; every event once, in order |
| Dashboard (`dashboard/app.js`) | selected run, its event source, last answers | inspect, refresh, review | API | never shows one run's data under another |
| Sources (`sources/`) | none | fetch and verify a package, from the CEMS API or a frozen case | engine | nothing open is called supported; conflicting packages are marked so |
| Impact analysis (`impacts/cems.py`) | none | package from evidence | engine | every listed area is reported by its newest finished product or is a gap |
| Response supervisor (`agents/response_supervisor.py`) | none | one model call, canonicalise, validate | engine, model | what it cites exists, for every later reader |
| Evidence and safety verifier (`agents/evidence_safety_supervisor.py`) | none | verdict over a draft | engine | a draft that passes has words of every gap's area |
| Baseline runner, model gateway (`baseline/`) | none | one model request | engine | every failure has its code |
| Evaluation (`evaluation/`) | none | reports, LSAC@5 | engine, CLI | a score is of the frozen gold actions, all decided |
| Domain models, frozen cases (`domain/`, `estimates.py`) | the case directory | validation, hashes | everybody | an edited case is not used |
| CLI, environment | none | argument parsing, files | everybody | evaluation of a stored draft; the rest is not modelled |

What is hard here: several workers on one database, leases measured by wall-clock
time and not renewed during long steps, repository calls that check in autocommit
and write afterwards (pysqlite opens a transaction only at the first write;
`lease_next_run` alone asks for `BEGIN IMMEDIATE`), `store_artifact` without any
lease, artifacts that are immutable but not reproducible, exceptions inside
exception handlers, crashes between two commits, a page whose answers arrive in any
order and describe any run, and one draft that four readers (output policy, verifier,
two evaluators) each judge by rules of their own. `PROJECT.json` lists each
hazard with its line and the properties that watch it.

## 2. Modules

| Module | Models |
| --- | --- |
| *The core* | |
| `RunStates` | `RunState`, `ACTIVE_STATES`, `TERMINAL_STATES`, `ALLOWED_TRANSITIONS` |
| `RunArtifacts` | logical names and what distinguishes artifact contents: the claim under which they were built (where they carry a clock or fresh id), the draft attempt, the outcome read from them |
| `RunLifecycle` | the abstract promise of the durable record: `Create`, `Pin`, `Move` |
| `RunStore` | rows and writes of the repository, lease time in ticks |
| `WorkflowEngine` | workers, one action per handler; refines `RunLifecycle` |
| `WorkflowClaims` | statements of the documents that the code does not meet |
| `MCWorkflow` | instances for TLC |
| `WorkflowEngine_proofs`, `WorkflowRecord_proofs` | theorems about the core: leases and refinement; log, record, cost, settled runs, end of a claim |
| *Around it* | |
| `RunRegister` | abstract: what an idempotency key promises |
| `RunCreation` | `_create_run` and `create_run` under racing, repeated and lost requests; refines `RunRegister` |
| `EventFeed` | abstract: numbered events, each given to a client once and in order |
| `EventStream` | the writers of `run_events`, `stream_events`, two kinds of client; refines `EventFeed` |
| `ActionReviews` | `record_action_review` under racing reviewers |
| `WriteOnce` | abstract: a store in which every name is written once and can be read |
| `ArtifactStore` | `put_bytes` and `store_artifact` as steps on files and rows; refines `WriteOnce` |
| `RunCreation_proofs`, `EventStream_proofs`, `ActionReviews_proofs`, `ArtifactStore_proofs`, `Dashboard_proofs` | theorems about them |
| `Dashboard` | the page: selections, refreshes, event source and review form against late, reordered and failed answers |
| `MCRunCreation`, `MCEventStream`, `MCActionReviews`, `MCArtifactStore` | instances for TLC (`Dashboard` needs none) |
| *The data* | |
| `FrozenCase` | a case directory with its manifest: `load_frozen_case` file by file, hashes first, against edits |
| `SourceEvidence` | evidence package of an activation or of a frozen case |
| `ImpactAnalysis` | impact package of an evidence package |
| `DraftActions` | answers of the model, schema, canonical references, output policy, failure codes; agent and baseline |
| `DraftChecks` | review of a draft, the counts of both evaluators, adjudication and score |
| `EvidencePipeline` | puts them together: one run's data from source check to the later judgement |
| `MCEvidencePipeline`, `EvidencePipeline_proofs` | instance for TLC; theorems |

The modules meet at the database rows. Each of the second group looks at one
table's traffic in finer steps than the core does and sees the rest from outside:
`WorkflowEngine` creates a run in one step (`AcceptRun`), which `RunCreation`
justifies (`ImplementsRegister`); it takes a stored artifact to be readable, which
`ArtifactStore` justifies (`ImplementsWriteOnce`, `RowsHaveFiles`); `EventStream`
takes over its writers of events; `ActionReviews` its run, which a worker brings to
review and leaves there. `Dashboard` takes what an event source delivers from
`EventStream`. `EvidencePipeline` is where the outcomes `WorkflowEngine` takes from
its inputs come from: a status other than `conflicting` is the engine's `package`,
the verdict of `DraftChecks` its `DraftOutcomes`, an artifact with a failure code its
`failed`; a step that raises there changes nothing here, and `Fault` is what the
engine makes of it.

**How state maps.** `state`, `owner`, `ttl`, `events`, `artifacts` are columns of
`runs`, `run_events`, `run_artifacts`. `ttl[r]` is `lease_expires_at - now` in
ticks; 0 is the instant of expiry, where the owner's test (`<=`) already fails and
the claimer's (`<`) does not yet succeed. `pc[w]`, `task[w]` are the program point
and locals of worker `w`; `calls[w]` is the repository calls its handler makes
before it computes again. `modelCalls` is a history variable.

**How actions map.** A handler is one action that queues its repository calls in
order (`AnalyzeImpacts` queues progress, store, transition). Each call is then two
steps: `Check`/`CheckStore` is what the code reads and its early exits,
`CommitRenew` ... `CommitStore` is what it writes. Between any two steps others
move, time passes, the worker crashes. Three of the code's details decide the
outcome and are kept: `transition`, `renew_lease` and `release_lease` write by
primary key without looking again; `record_progress` chooses its sequence number
before it has the write lock, so the unique constraint may refuse it; and a second
insert under a logical name is refused. `Raise` is the way of an exception: from
the body to `HandleError`, from there to `Finally`, from there out of
`process_next`, which ends the worker (neither `worker.main` nor `_worker_loop`
catches it). `Fault` lets any call or computation raise.

**The other modules.** A SELECT outside a write transaction and the INSERT that
relies on it are two steps, with the unique constraint between them.

- `RunCreation`: `stage[h]` is the program point of the handler of one attempt,
  `Select` is `_create_run` up to `create_run`'s comparison, `Insert` its
  transaction. `Compared` is what the code compares, `config_hash` by what it
  distinguishes. A client repeats its request on an error or when it has waited long
  enough, and the abandoned handler goes on. The baseline and agent endpoints are the
  same handler with the mode fixed; that the agent endpoint answers 500 instead of
  422 to a body in baseline mode without a model is left out.
- `EventStream`: `AppendLocked` is every `_append_event` under the write lock,
  `ChooseSequence`/`Insert` that of `record_progress`. `cursor`, `batch` are the
  generator's `sequence` and `events`; `wire` is what is on its way. A broken
  connection loses both. Clients reconnect with `Last-Event-ID` as server-sent events
  prescribe, or ask once (`renderEvents`).
- `ActionReviews`: `FindAction` and `CheckRun` are the 404 and the 409 of the
  handler, `ChooseVersion` is `max(version) + 1` in autocommit, `Record` is the
  transaction with the review and its audit event (under the write lock from the
  first of its two inserts, so the event's sequence cannot collide).
- `ArtifactStore`: `file` is what is under the final name. The steps of `put_bytes`
  are `TestFile`, `WriteTemporary`, `Replace`; those of `store_artifact` `SelectRow`,
  then `InsertRow`, or `SelectMapping` and `InsertMapping`. `Fail` is any exception
  or death. Temporaries left behind are never looked at. That a rename survives a
  power failure is assumed; only processes die.
- `Dashboard`: a run is the number of its committed events. `requests` are the
  requests under way with the moment they were sent; an answer (`ShowPanels`,
  `ShowEvents`, `ReviewAnswered`, `ReviewRefused`) shows the run as it was at some
  moment since then and goes on as the function that waited for it does, reading
  `state.runId` again where the code does. A decision (`review`, and `recorded` once it
  is in the table) disables the button of its own form only: `form` says that this form
  is still the one on the page. `ShowPanels` draws the panels anew and with them an
  enabled form (`Redrawn`), so that several decisions can be under way. `feeds[n]` is the event source opened by
  call `n` of `inspectRun`, `current` the one in `state.eventSource`. The line with
  the latest event, the list of runs and the creation buttons are left out
  (`RunCreation` has the requests of the last).

**The data.** `EvidencePipeline` has one action per step of the agent and baseline
workflows and per evaluation command; what a step computes is an operator of the
module of its source file. `Fetch`, `FixturePackage`, `Analyze`, `RunResponseSupervisor`,
`RunBaseline`, `ReviewResponseDraft`, `AgentCounts`, `BaselineCounts`, `Judged` are the
functions of those names or the bodies that build the artifact; `None` is a raised
error. A text is what the checks tell apart in it: which area it names and in which
form, whether it holds a phrase of the verifier's or of the evaluator's list. A file is
its content, and its hash is the content. `load_frozen_case` is a step per file:
`HashFile` for all, then `ReadFile` for all, `Refuse` where it raises; `UseCase` is the
step of the caller that goes on with what was read, and `Edit` may come between any two.
(The files are hashed in the manifest's order, which in the case of this repository is
that of the reads.) `slipped` is history: the files edited after their hash and before
their reading. A term is what the verifier looks for in a text, an area's name, the
place in parentheses in it or the words for its product; `Inside` lists the pairs of
terms of which the first is a substring of the second, of whatever areas, and `Vague`
the terms "AOI" and "Area", which it drops. Texts are looked at one by one: a match that
only arises where two of them are joined is left out. So is the claim
`cems-impact-stats`, which is supported whenever it is made. Prompts, urls,
timestamps and the numbers nobody reads again are left out.

*Abstracted in the core*: payloads, messages and evidence ids; the `event_type` of a transition
(all are `state_transition`) and of a progress event; `stage_attempt`,
`completed_at`, `updated_at`; `--once`; database-busy errors (an outcome of
`Fault`). Sources, model and verifier are nondeterministic over `SourceOutcomes`,
`DraftOutcomes`, `BaselineOutcomes`; `DraftOutcomes` names a draft by the verdict
the verifier gives it, with two classes of findings, because two reviews with the
same findings hash equal and with different findings do not. A worker that dies
does not return; its replacement is another member of `Workers`.

`APPROVED`, `REVISION_REQUESTED`, `REJECTED` and `EXPORTED` are in the tables and
never reached: no code moves a run out of `AWAITING_HUMAN_REVIEW`. For the same
reason the `cannot advance from` errors of the engine are unreachable and have no
action.

Definitions called *faulty variant* are plausible slips of the definition after
them; putting one in the place of the original makes a named property fail
(`mutants` in `PROJECT.json`), which shows the property depends on the code.

**Constants that are switches.** `PromptCommits`: no lease lapses between the
check and the commit of one call, milliseconds against a lease of 120 s; FALSE
lets a process be suspended there. `FaultsPossible`, `CrashesPossible`: exceptions
and killed processes.

## 3. Properties and runs

| Property | Says |
| --- | --- |
| `TypeOK` | the type of every variable; in `Dashboard` also that a form which stays on the page is not submitted again while its decision is being saved |
| `RefinesLifecycle` | the engine implements `RunLifecycle` |
| `PinsArePermanent` | a pinned artifact never changes, even with suspended workers |
| `OnlyHolderMoves` | only the holder of an unexpired lease changes a run's state |
| `LogTellsHistory` | the event log, read in order, is a path of allowed moves ending at the current state |
| `OnlyReviewedDraftsAdvance` | past drafting, the pinned review is a PASS of exactly the pinned draft |
| `ReviewedRecordFrozen` | nothing is added to or changed in a run under human review |
| `RecordComplete` | a run under review has all artifacts of its mode, consistent with each other |
| `NoLeakedLease` | no row names a live worker that is not working on it |
| `ModelCallsBounded` | a claim asks the model at most once (baseline) or three times (agent), whatever interrupts it |
| `RunsSettle` | every created run reaches review or `BLOCKED` if a worker survives |
| `OneRunPerKey` | racing and repeated requests under a key leave one run |
| `AnswersAgree` | all who are told 202 under a key are told the same run |
| `ErrorsAreTransient` | a request that lost the race with a 500 never meets that error again |
| `ImplementsRegister` | creation is an atomic write-once register per key |
| `SequenceIsCommitOrder` | events are numbered 1, 2, 3, ... in the order of their commits |
| `ImplementsFeed` | each client is given each event once, in order, through lost connections |
| `EventsArrive`, `SnapshotArrives` | followers are given every event in the end; a one-shot answer has what was there |
| `VersionsFollowCommits` | the highest version of an action's reviews is the latest decision |
| `AnsweredReviewsStand` | an acknowledged decision is in the table, and the audit trail agrees with the table |
| `OnlyDraftsUnderReview` | decisions are only about the draft under review |
| `RowsHaveFiles` | a row names a complete file, whatever the writers do and wherever they die |
| `ImplementsWriteOnce` | storing is writing once, and what is stored can be read |
| `DeliveredIsShown` | an event the page has been given is in its panels or in the answer to a refresh under way |
| `FeedKept` | while nothing fails, the selected run has an event source or will get one, also if selections overlap |
| `FollowsSelection` | when the user stops selecting, the page comes to show the selected run and keeps up with it |
| `CitationsHold` | a citation the output policy let pass is known to the review and to both evaluators |
| `AreasAccounted` | every area listed is accounted for once, by its newest finished product or as a gap; areas of one name share their entries |
| `UncertaintyShown` | what is open is a claim, finding and gap alike, and a draft that passed has the name, place or product words of every gap's area in a text, be it about another area |
| `ScoreIsOfTheFrozenCase` | a score is of the gold actions loaded, all decided, each covered one by an action of the draft; they are the frozen ones unless their file was edited after its hash and before its reading in that load |

| Run | Instance | Shows |
| --- | --- | --- |
| `agent_two_workers` (`MCAgent`) | 1 agent run, 2 workers, lease of 2 ticks, all outcomes, faults, crashes | the safety properties under prompt commits |
| `agent_suspended` (`MCSuspended`) | 1 agent run, 2 workers, suspension inside calls | what survives even then: pins, the gate of drafting, the reviewed record |
| `mixed_runs` (`MCMixedRuns`) | an agent and a baseline run, 2 workers, lease of 1 tick | both kinds of record are complete, every run settles |
| `run_creation` (`MCRunCreation`) | 2 clients, 2 attempts each, 10 kinds of request, crashes, lost replies | creation under one key |
| `event_stream` (`MCEventStream`) | 3 events, 2 racing writers, a client that reconnects up to twice from event 1, a one-shot client | delivery, safety and liveness |
| `action_reviews` (`MCActionReviews`) | 3 reviewers, 2 actions, 2 decisions, up to 5 reviews, crashes | versions and audit trail |
| `artifact_store` (`MCArtifactStore`) | 3 writers, 2 names, 2 contents, deaths at any step | files and rows |
| `dashboard` (`MCDashboard`) | 2 runs, 2 selections that may overlap, decisions that may overlap, 1 failure | what the page shows, safety and liveness |
| `evidence_pipeline` (`MCEvidencePipeline`) | up to 2 of 3 areas with up to 3 products each, 2 sources, one answer of the model per behaviour, 2 gold actions, one edit of a case file at any step of a load | the data, agent and baseline, live and frozen |
| `claim_*` | smallest instance that shows it | a documented statement the code departs from (section 4) |

*Bounds.* Two workers suffice for the races of a stale worker with the present
holder, since a lease has one holder and every guard is per worker; 1 or 2 ticks
let a lease lapse at any point and be renewed before it does. Runs interact only
through the oldest-first claim (two runs are enough to overtake). The number of
claims needs no bound: a claim ends with the run settled or the worker dead, and
`ModelCallsBounded` is relative to it. The
core has no state constraint. `MaxAttempts` = 2: the race under a key needs two
handlers, and a repetition meets either the row or the race of the other client.
`MaxEvents` = 3 and `MaxBreaks` = 2: a client can be cut off with events received,
on the wire and unsent, twice. `MaxReviews` = 3 stops new submissions once there are
three reviews; the two others under way still get stored. The artifact store has no
bound but its sets. In `Dashboard` (`MaxRequests`, `MaxSelections` = 2) two refreshes of
different runs can be under way with both event sources open, which is the least that
makes a stale answer or a leaked event source; `MaxReviews` = 1 stops new submissions
once a review is recorded, and two can be under way by then; the refresh button is clicked only at
rest, because a refresh under way is the same whoever asked for it. In
`EvidencePipeline` the bounds are the sets of inputs: three areas ("Bidur",
"South (Bidur)", "Area": a name that is another's place, and one of which nothing is
asked), two areas of one name, product sets for every branch of the selection (none, only
waiting, newer version, newer delivery, without statistics, impossible status), and
answers that vary one thing at a time. One file of the case is edited, once, at any
moment; the proof (`EditLoad`) does not use that bound.

*Symmetry* of the workers is used in safety runs only. *Deadlock* is not checked:
with all runs settled and the workers idle, or all workers dead, the system rests.

*Fairness.* `WF(Tick)`: time does not stop. `WF(Work(w))`: a worker process that
is alive is scheduled and takes its next step; idle, it polls for ever
(`while True` in `worker.main`, `_worker_loop`), so a claim that stays possible is
made. Faults, crashes and requests are not fair. `RunsSettle` assumes one worker
that never dies, nothing about the others. In `EventStream`, `WF(Serve(c))`: the
generator of an open connection runs on; `WF(Receive(c))`: what is on the wire of an
unbroken connection arrives; `WF(Reconnect(c))`: an event source tries again, as the
standard says. Writers, first connections and breaks are not fair. In `Dashboard`,
requests are served and answered (or fail, which is not fair but bounded) and open
event sources deliver; the user and the workers are not fair. The other modules are
checked for safety only: a loop of `EvidencePipeline` that did not end would be the
engine's, where `RunsSettle` covers it. `mixed_runs` has no injected faults: a lapsed
lease raises the same exceptions in the same places.

## 4. Findings

The violation runs check what the documents say.

1. *Crash recovery* (`claim_crash`). `docs/architecture/ADR-0001...:784`: "Reclaim
   expired lease and continue from persisted state". The artifact of the
   interrupted stage is pinned; rebuilt, it carries another timestamp and
   `store_artifact` refuses it, so the run is blocked. In this run leases lapse
   only when their worker has crashed.
2. *Revision loop* (`claim_revision`). ADR:176 promises two revisions. Every
   review goes under the one name `evidence_safety_review`, so a second review
   that differs from the first (a PASS in particular) blocks the run.
3. *A decision for another run* (`claim_review`). `docs/product.md:188`: "Require the
   reviewer to inspect assumptions before approval." `submitReview`
   (`dashboard/app.js:248`) posts to `state.runId`, which `inspectRun` has set before
   the panels of that run arrive. The form still on the screen is of the run before;
   if both drafts have an action of that id, its decision is recorded for a draft the
   reviewer has not seen.

The models have other departures from the documents, which need no run of their own.

- *Engine.* `OnlyHolderMoves` and `RefinesLifecycle` hold under `PromptCommits` only,
  since `transition` checks outside its write transaction and a suspended worker can
  overwrite a `BLOCKED` that ADR:480 calls terminal. `store_artifact` asks for no
  lease, so ADR:477 ("a leased run has one active worker") is true of transitions
  only. If the failure of a stage is a lapsed lease, the handler that should record it
  and the finally clause fail too (`workflow/engine.py:76`), the worker loop ends and
  the run waits for another worker. A baseline model call is repeated by the worker
  that reclaims the run, where `README.md:126` speaks of one.
- *API.* `fixture_mode` is in neither `config` (`api/app.py:237`) nor the comparison of
  `persistence/repositories.py:122`, so a live request is answered with the fixture run
  of the same key. `ImplementsRegister` compares requests as the code does, so it holds
  on the instance with such a pair.
- *Dashboard.* `onerror = closeEventSource` (`dashboard/app.js:126`) ends live updates
  without a word, where ADR:565 has the client reconnect: `CutOff` in
  `FollowsSelection`. Overlapping calls of `inspectRun` leave the first event source
  open; an error on it closes the newer one. Answers are not checked against the
  selection, so an older one may stay on the screen (`behind`, the other escape).
  `renderMap` and `renderEvidence` keep the sources of the run before when the new one
  has none yet. `submitReview` disables the button of its own form until the decision is
  saved (lines 245 to 263), but any refresh or other selection puts a new, enabled form
  in its place (226, 238), so a second decision can be posted while the first is under
  way. Both are recorded, each with its version; the page shows them when it is refreshed.
- *Sources and impacts.* An area number given as a string of digits is read by source
  intake (`int()`) and skipped without a gap by impact analysis, where ADR:777 has gaps
  labelled: `AreasAccounted` speaks of numbers. `"aois": null` passes intake and raises
  in the analysis. The gap for missing statistics has the location "<name> finished
  CEMS product", so the bare label does not satisfy the verifier
  (`evidence_safety_supervisor.py:112` says it does). The substring match lets "AOI 10"
  stand for "AOI 1", and "South (Bidur)" for "North (Bidur)", whose place it has: a draft
  can pass that says nothing of an area with a gap. `UncertaintyShown` says what is left
  (`Inside`). Nothing is asked for an area called no more than "AOI" or "Area"
  (`Vague`, line 116).
- *Checks.* The verifier's terms and the evaluator's patterns differ, and a report says
  that the checks were passed even when it counts findings. The verifier's
  `unknown_evidence_reference` cannot occur after the output policy (`CitationsHold`).
  A draft that cites a source and its snapshot has two valid references. The
  evaluators never compare the case of the evidence with that of the fixture, so the
  command line can score a live run.
- *Frozen cases.* All files are hashed (`domain/fixtures.py:25`-33) and then opened again
  and read (35-37). An edit between the two is used, and scored, as long as ids and
  references still fit, where `docs/architecture/frozen-case-format.md:9` has a frozen
  case prevent silent changes: the one escape of `ScoreIsOfTheFrozenCase`.

## 5. Proofs

Eight modules of theorems, for every value of the constants that meets their named
assumptions: any number of runs, workers, clients, writers, reviewers, selections, any
lease length, any outcomes. The table
pairs each theorem with its property.

| Module | Theorem: property | Inductive invariant |
| --- | --- | --- |
| `WorkflowEngine_proofs` | `TypeCorrect`: `TypeOK`; `Pins`: `PinsArePermanent`; `LeasesReturned`: `NoLeakedLease`; `HolderMoves`: `OnlyHolderMoves`†; `Refinement`: `RefinesLifecycle`† | `TypeInv`, `LeaseInv`, `HolderInv`† |
| `WorkflowRecord_proofs` | `LogTells`: `LogTellsHistory`†; `OnlyReviewedAdvance`: `OnlyReviewedDraftsAdvance`; `RecordsComplete`: `RecordComplete`; `RecordFrozen`: `ReviewedRecordFrozen`; `ModelCalls`: `ModelCallsBounded`; `SettledStays`†; `ClaimsTerminate` | `LogInv`†, `RecordInv`, `CostInv`, `EngineInv` |
| `RunCreation_proofs` | `TypeCorrect`: `TypeOK`; `KeysAreUnique`: `OneRunPerKey`; `AcceptedForOneRun`: `AnswersAgree`; `ErrorsEnd`: `ErrorsAreTransient`; `CreationIsRegister`: `ImplementsRegister` | `CreationInv` |
| `EventStream_proofs` | `TypeCorrect`: `TypeOK`; `CommitOrder`: `SequenceIsCommitOrder`; `StreamIsFeed`: `ImplementsFeed` | `FeedInv` |
| `ActionReviews_proofs` | `TypeCorrect`: `TypeOK`; `Versioning`: `VersionsFollowCommits`; `ReviewsStand`: `AnsweredReviewsStand`; `DraftsOnly`: `OnlyDraftsUnderReview` | `ReviewInv` |
| `ArtifactStore_proofs` | `TypeCorrect`: `TypeOK`; `FilesBehindRows`: `RowsHaveFiles`; `Refinement`: `ImplementsWriteOnce` | `StoreInv` |
| `Dashboard_proofs` | `TypeCorrect`: `TypeOK`; `SelectionIsFed`: `FeedKept`; `DeliveredShows`: `DeliveredIsShown` | `PageInv`, `KeptInv`, `ShowsInv` |
| `EvidencePipeline_proofs` | `TypeCorrect`: `TypeOK`; `Citing`: `CitationsHold`; `Uncertainty`: `UncertaintyShown`; `Accounting`: `AreasAccounted`; `Scoring`: `ScoreIsOfTheFrozenCase` | `PipelineInv`, and one per theorem for what `Analyze` and the score leave behind |

† assumes `PromptCommits`, stated as the theorem's `ASSUME`.

*The core.* `TypeOK` is not inductive: a handler types its calls only if its worker has
a created run and, after drafting, a draft. `TypeInv` adds `Working`. `NoLeakedLease`
needs to know that a worker at `exit` still has the release to make or has no lease
(`ExitInv`). What assumes `PromptCommits` rests on `HolderInv`: an open lease-guarded
call still has what it checked. It holds because a step on the lease or state of a run
is made by its holder or on a claimable run (`LeaseUntouched`), and because `Tick`
respects open calls; without `PromptCommits` it fails, which is the first departure of
section 4. `RecordSteps` says that only two kinds of step touch the durable record;
permanence (`PinsStay`) and refinement follow from those two.

*Log and record.* For the log, `LogInv` is the property in inductive form plus
`StageRead`: an open call has read the state its run still is in, so the event it
appends is not of a state that is over. For the record, the properties speak of runs
that await review, and nothing in that state says how the run got there. `RecordInv`
therefore says it of every state and every pending transition: `Gate` is what must be
pinned to be in a state, with `Held` for what is pinned or is a store the worker makes
before it asks for the transition. A store that fails raises and takes the transition
with it; one that succeeds is permanent. So gates stay open (`GateMono`, from
`PinsStay`), whoever else stores, and no lease enters the argument: these three
theorems hold with suspended workers too. `RecordFrozen` follows because, under review,
every name is taken except those of revisions, and a worker with a revision to store
has seen a first draft that did not pass (`Revised`), while the gate has one that did.

*Cost and end of a run.* `ModelCallsBounded` counts calls over all claims and says
nothing of the claims under way. `CostInv` adds what these may still ask: `TurnsOf(w)`
is read off the worker's program point, its attempt and the stage to which its pending
calls lead, and `Slots(r)` is the finite set of the turns left to all workers on `r`, so
that no sum over workers is needed. A call takes a slot away, a claim adds as many as it
is allowed, an exception or a crash drops the rest. That a transition is the last of the
pending calls comes from `RecordInv`; prompt commits are not needed. `SettledStays` is
about a property stated next to it, `SettledIsFinal`: a run under review or blocked is
not moved again. No worker asks for a reviewer's decision (`EngineInv`), and from a
settled state the tables allow nothing else. TLC finds it violated as soon as a worker may be
suspended in a call (the first departure of section 4), and no single slip in the code
breaks it otherwise, so it has no run.

*Claims end.* `ClaimsTerminate` is the safety half of `RunsSettle`, for any number of
workers and with every fault: `Rank(w)`, a number read off the program point, the stage
ahead, the attempt and the calls left, gets smaller with each step of `w` but the claim,
and with none of the others' larger, so that the loops over stages and revisions and the
path from `except` through `finally` are finite. It needs `RecordInv` (a transition is
the last of the pending calls). Left to fairness and to TLC is that a worker which can
step does, and that claims suffice for a run. `ClaimsEnd` is stated beside the theorem;
TLC agrees with it on the instances of `agent_two_workers` and `mixed_runs`.

*Creation.* `CreationInv` adds to `OneRunPerKey` what the handlers and the wire know:
an answer 202 names the run of its key (`ReplyInv`), an attempt not sent has left
nothing (`UnsentInv`). The register's write is the commit of the INSERT; the unique
constraint makes the one that loses a stutter.

*Stream.* `FeedInv`: an INSERT goes through only with the next free number
(`WriterInv`), and a client's cursor, wire and received events join without a gap
(`StreamInv`), also across a reconnection with `Last-Event-ID`.

*Reviews.* `ReviewInv`: the versions of an action are 1 to their number in commit order
(`VersionInv`), and a handler past its checks has a draft's action of a run that awaits
review, which stays so (`HandlerInv`).

*Artifact store.* `StoreInv` adds `WriterInv` (a writer past `put_bytes` has a complete
file, one that skips the insert has the row) and `PinInv` (what is pinned has its row).
With it a slot reads as what is pinned in it, so only pins are steps of the abstract
store.

*Dashboard.* `PageInv`: at most one request waits for the form on the page, a waiting `inspectRun`
has its place among the event sources, the selected run is that of the last call.
`FeedKept` follows from `KeptInv`, which names that last call. `DeliveredIsShown` is not
inductive, since an answer may be overtaken in many ways; `ShowsInv` follows only the
refresh sent last: it is for the selected run, and either it is under way or every
refresh under way is late.

*Data.* `PipelineInv` has one conjunct per artifact that a later stage reads: what was
cited (`Cited`), where a package came from (`FromActivation`), what it shows
(`PackageShows`), what words a draft that passed has (`DraftNames`). `LoadInv` is about
the case files while they are loaded: what was hashed and is not read yet, and what was
read, is the frozen content or was edited since its hash (`HashedInv`, `ReadInv`), so
that each step, an edit included, leaves `ScoreIsOfTheFrozenCase` its one escape.

Two properties need
facts about the algorithms, proved without induction, from the strict subsets of a finite
set being well founded. `AreasAccounted`: a newest finished product exists, the one with
the fewest products above it (`NewestIsThere`); the entries under a name are images of
the areas of that name, so there are no more of them (`ImagesCount`); `Analyzed` says
the impact package is that of the present evidence. `ScoreIsOfTheFrozenCase`: the fold
behind `Weight` is a `CHOOSE` of a function that could fail to exist; the number of
points of a set of actions is such a function, and any other agrees with it
(`WeightIsPoints`). So sums over part of the gold actions compare as sets do, strictly
for a part that is missing. `Scored` keeps the adjudication, the draft, the gold actions
and the report together while files are edited and loaded again.

Model-checked only: the liveness properties (`RunsSettle`, `EventsArrive`,
`SnapshotArrives`, `FollowsSelection`), which are outside the proof system's reach. All
other properties of the runs have a theorem. Three theorems and `SettledStays` have
`PromptCommits` as a hypothesis, since their properties fail without it.

## 6. Not modelled

The environment file, argument parsing, start and shutdown of `local.py` (its daemon
thread is a worker that may die at any point). Of the gateway the HTTP request, the
prompt and the schema sent to the provider; of the domain models the patterns, lengths
and ranges of single fields, which are types here, and `estimates.py`, which only writes
abstentions. Read-only artifact endpoints of the API. Of the dashboard the creation
buttons, the list of runs and the status line. Database-busy errors are `Fault`s; the
migrations, which run before anything else, are taken as done.
