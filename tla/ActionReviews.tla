--------------------------- MODULE ActionReviews ---------------------------
(***************************************************************************)
(* Human decisions on the draft actions of one run.  A decision is posted  *)
(* to the API, which reads the pinned draft to see that the action exists, *)
(* then the run's state, then max(version) of the action's reviews, each   *)
(* in autocommit, and inserts the review and its audit event in one        *)
(* transaction.  Reviewers post concurrently, an answer may get lost and   *)
(* the decision be posted again, and the API process may die.              *)
(*                                                                         *)
(* The run is seen from outside: a worker pins its draft and takes it to   *)
(* AWAITING_HUMAN_REVIEW, where it stays, or to BLOCKED (WorkflowEngine).  *)
(***************************************************************************)
EXTENDS Naturals, Sequences, FiniteSetsExt

CONSTANTS
  Reviewers,
  Actions,        \* action ids
  Decisions,
  MaxReviews      \* bound: no decision is posted once there are so many reviews

ASSUME BoundAssumption == MaxReviews \in Nat

VARIABLES
  phase,          \* the run: "drafting", "drafted", "awaiting" or "blocked"
  draft,          \* the actions of the pinned response_supervisor_run
  reviews,        \* action_reviews, in the order of the commits
  audit,          \* human_review_recorded events, in the order of their sequence
  pc,             \* where the handler of each reviewer's request is
  form,           \* the decision posted, and the version chosen for it
  told            \* history: reviews whose reviewer was answered 200

vars == <<phase, draft, reviews, audit, pc, form, told>>

Init ==
  /\ phase = "drafting"
  /\ draft = {}
  /\ reviews = << >>
  /\ audit = << >>
  /\ pc = [r \in Reviewers |-> "idle"]
  /\ form \in [Reviewers -> [action : Actions, decision : Decisions, version : {0}]]
  /\ told = {}

(***************************************************************************)
(* The run                                                                 *)
(***************************************************************************)
PinDraft ==
  /\ phase = "drafting"
  /\ draft' \in SUBSET Actions
  /\ phase' = "drafted"
  /\ UNCHANGED <<reviews, audit, pc, form, told>>

LeaveDrafting ==
  /\ \/ phase = "drafted" /\ phase' = "awaiting"
     \/ phase \in {"drafting", "drafted"} /\ phase' = "blocked"
  /\ UNCHANGED <<draft, reviews, audit, pc, form, told>>

(***************************************************************************)
(* A review                                                                *)
(***************************************************************************)
Goto(r, label) == pc' = [pc EXCEPT ![r] = label]

Submit(r, a, d) ==
  /\ pc[r] = "idle"
  /\ Len(reviews) < MaxReviews
  /\ form' = [form EXCEPT ![r] = [action |-> a, decision |-> d, version |-> 0]]
  /\ Goto(r, "posted")
  /\ UNCHANGED <<phase, draft, reviews, audit, told>>

\* Faulty variant: any action id is taken.
FindAnyAction(r) ==
  /\ pc[r] = "posted"
  /\ Goto(r, "found")
  /\ UNCHANGED <<phase, draft, reviews, audit, form, told>>

\* 404 when the run has no such action.
FindAction(r) ==
  /\ pc[r] = "posted"
  /\ Goto(r, IF form[r].action \in draft THEN "found" ELSE "idle")
  /\ UNCHANGED <<phase, draft, reviews, audit, form, told>>

\* 409 when the run is not awaiting review.
CheckRun(r) ==
  /\ pc[r] = "found"
  /\ Goto(r, IF phase = "awaiting" THEN "checked" ELSE "idle")
  /\ UNCHANGED <<phase, draft, reviews, audit, form, told>>

Versions(a) == {reviews[i].version : i \in {j \in DOMAIN reviews : reviews[j].action = a}}

\* Faulty variant: versions count from zero.
NextVersionFromZero(a) == IF Versions(a) = {} THEN 0 ELSE Max(Versions(a)) + 1

\* max(version), or 0 when there is none, plus 1.
NextVersion(a) == Max(Versions(a) \cup {0}) + 1

ChooseVersion(r) ==
  /\ pc[r] = "checked"
  /\ form' = [form EXCEPT ![r].version = NextVersion(form[r].action)]
  /\ Goto(r, "versioned")
  /\ UNCHANGED <<phase, draft, reviews, audit, told>>

\* The answer reaches the reviewer or gets lost on the way.
AnswerOk(review) == told' \in {told, told \cup {review}}

\* Faulty variant: no unique constraint on run, action and version.
RecordUnconstrained(r) ==
  /\ pc[r] = "versioned"
  /\ reviews' = Append(reviews, form[r])
  /\ audit' = Append(audit, [action |-> form[r].action, decision |-> form[r].decision])
  /\ AnswerOk(form[r])
  /\ Goto(r, "idle")
  /\ UNCHANGED <<phase, draft, form>>

\* Faulty variant: the answer is given before the insert, which may then fail.
RecordAnsweredFirst(r) ==
  /\ pc[r] = "versioned"
  /\ AnswerOk(form[r])
  /\ \/ /\ reviews' = Append(reviews, form[r])
        /\ audit' = Append(audit, [action |-> form[r].action, decision |-> form[r].decision])
     \/ UNCHANGED <<reviews, audit>>
  /\ Goto(r, "idle")
  /\ UNCHANGED <<phase, draft, form>>

\* The unique constraint admits the version or the call fails with a 500.
Record(r) ==
  /\ pc[r] = "versioned"
  /\ \/ /\ form[r].version \notin Versions(form[r].action)
        /\ reviews' = Append(reviews, form[r])
        /\ audit' = Append(audit, [action |-> form[r].action, decision |-> form[r].decision])
        /\ AnswerOk(form[r])
     \/ /\ form[r].version \in Versions(form[r].action)
        /\ UNCHANGED <<reviews, audit, told>>
  /\ Goto(r, "idle")
  /\ UNCHANGED <<phase, draft, form>>

\* The API process dies: whatever it was doing is not committed.
Crash ==
  /\ pc # [r \in Reviewers |-> "idle"]
  /\ pc' = [r \in Reviewers |-> "idle"]
  /\ UNCHANGED <<phase, draft, reviews, audit, form, told>>

-----------------------------------------------------------------------------
Handle(r) == FindAction(r) \/ CheckRun(r) \/ ChooseVersion(r) \/ Record(r)

Next ==
  \/ PinDraft
  \/ LeaveDrafting
  \/ \E r \in Reviewers :
       \/ \E a \in Actions, d \in Decisions : Submit(r, a, d)
       \/ Handle(r)
  \/ Crash

Spec == Init /\ [][Next]_vars

(***************************************************************************)
(* Properties                                                              *)
(***************************************************************************)
Forms(versions) == [action : Actions, decision : Decisions, version : versions]

\* Every variable has its type; a stored review has a version from 1 on.
TypeOK ==
  /\ phase \in {"drafting", "drafted", "awaiting", "blocked"}
  /\ draft \subseteq Actions
  /\ reviews \in Seq(Forms(Nat \ {0}))
  /\ audit \in Seq([action : Actions, decision : Decisions])
  /\ pc \in [Reviewers -> {"idle", "posted", "found", "checked", "versioned"}]
  /\ form \in [Reviewers -> Forms(Nat)]
  /\ told \subseteq Forms(Nat \ {0})

\* However reviewers race on an action, its versions are 1, 2, 3, ... in the
\* order in which its reviews were committed, so that the highest version, which
\* the dashboard shows (latestReviewsByAction), is the decision made last.
VersionsFollowCommits ==
  \A i \in DOMAIN reviews :
    reviews[i].version = Cardinality({j \in 1..i : reviews[j].action = reviews[i].action})

\* A decision whose reviewer was told that it is recorded is in the table, and
\* the audit trail has every decision of the table in the order of the commits.
AnsweredReviewsStand ==
  /\ \A review \in told : \E i \in DOMAIN reviews : reviews[i] = review
  /\ DOMAIN audit = DOMAIN reviews
  /\ \A i \in DOMAIN audit :
       audit[i] = [action |-> reviews[i].action, decision |-> reviews[i].decision]

\* Decisions are recorded only about actions of the draft that is under review,
\* although draft and state are read before the transaction that records them.
OnlyDraftsUnderReview ==
  reviews # << >> => phase = "awaiting" /\ \A i \in DOMAIN reviews : reviews[i].action \in draft
=============================================================================
