----------------------------- MODULE Dashboard -----------------------------
(***************************************************************************)
(* The browser's side of a review: a page that selects runs, refreshes its *)
(* panels and follows the event source of the selected run, by requests    *)
(* that are answered late, in any order, or not at all.                    *)
(*                                                                         *)
(* A run is its events: progress[r] of them are committed, each with the   *)
(* state and the artifacts that go with it.  An answer shows the run as it *)
(* was at some moment after the request was sent.  What an event source    *)
(* delivers is what EventStream says.  The line with the latest event's    *)
(* message and the list of runs to choose from are left out.               *)
(***************************************************************************)
EXTENDS Naturals, Sequences

CONSTANTS
  Runs,
  NoRun,          \* the empty run id
  Sourced,        \* events of a run until it has its evidence package
  Steps,          \* events of a run until it awaits review, with its draft
  MaxRequests,    \* bound: requests under way when the page adds one
  MaxSelections,  \* bound: how often the user selects a run
  MaxReviews,     \* bound: reviews of a run recorded when another is submitted
  MaxFaults       \* bound: failed requests and broken connections

ASSUME NoRunAssumption == NoRun \notin Runs
ASSUME BoundsAssumption ==
  /\ Sourced \in Nat \ {0} /\ Steps \in Nat /\ Sourced <= Steps
  /\ MaxRequests \in Nat /\ MaxSelections \in Nat /\ MaxReviews \in Nat \ {0} /\ MaxFaults \in Nat

VARIABLES
  progress,   \* server: how many events each run has
  selected,   \* state.runId
  requests,   \* the requests under way, in the order they were sent
  feeds,      \* the event source of each call of inspectRun, in their order
  current,    \* state.eventSource: the call it belongs to, or 0
  shown,      \* the panels: run, its state, draft, and the run whose sources
  listed,     \* the list of events: run, and how many
  attention,  \* showError was called: "Dashboard needs attention"
  behind,     \* history: what is shown, listed is older than what once was
  faults

vars == <<progress, selected, requests, feeds, current, shown, listed,
          attention, behind, faults>>

Request == [kind   : {"panels", "events", "review", "recorded"},
            run    : Runs,
            from   : Nat,                  \* progress of the run when sent
            call   : 0..MaxSelections,     \* the call of inspectRun that waits
            drawn  : Runs \cup {NoRun},    \* the run of a submitted form
            form   : BOOLEAN,              \* what waits for it disabled the button
                                           \* of the form that is on the page
            late   : BOOLEAN]              \* a younger one has been answered

Feed == [run : Runs, open : BOOLEAN, cursor : Nat]

Init ==
  /\ progress = [r \in Runs |-> 1]
  /\ selected = NoRun
  /\ requests = << >>
  /\ feeds = << >>
  /\ current = 0
  /\ shown = [run |-> NoRun, at |-> 0, draft |-> FALSE, sources |-> NoRun]
  /\ listed = [run |-> NoRun, at |-> 0]
  /\ attention = FALSE
  /\ behind = [panels |-> FALSE, events |-> FALSE]
  /\ faults = 0

page == <<selected, feeds, current, shown, listed, attention, behind>>

Ask(kind, r, call) ==
  [kind |-> kind, run |-> r, from |-> progress[r], call |-> call,
   drawn |-> NoRun, form |-> FALSE, late |-> FALSE]

\* Request i is answered: it is gone, and older ones of its kind are now late.
Answered(i) ==
  LET rest == SubSeq(requests, 1, i - 1) \o SubSeq(requests, i + 1, Len(requests))
  IN  [j \in 1..Len(requests) - 1 |->
         [rest[j] EXCEPT !.late = @ \/ (j < i /\ rest[j].kind = requests[i].kind)]]

\* renderEvaluation puts a form, or none, in the place of the one that was there:
\* whatever is still being saved, the button is enabled.
Redrawn(queue) == [i \in DOMAIN queue |-> [queue[i] EXCEPT !.form = FALSE]]

\* closeEventSource: the one in state.eventSource, whatever it is connected to.
CloseEventSource ==
  /\ feeds' = [n \in DOMAIN feeds |-> [feeds[n] EXCEPT !.open = @ /\ n # current]]
  /\ current' = 0

(***************************************************************************)
(* The user                                                                *)
(***************************************************************************)
\* inspectRun, up to the first thing it waits for.
InspectRun(r) ==
  /\ Len(feeds) < MaxSelections /\ Len(requests) < MaxRequests
  /\ selected' = r
  /\ feeds' = Append([n \in DOMAIN feeds |-> [feeds[n] EXCEPT !.open = @ /\ n # current]],
                     [run |-> r, open |-> FALSE, cursor |-> 0])
  /\ current' = 0
  /\ requests' = Append(requests, Ask("panels", r, Len(feeds) + 1))
  /\ UNCHANGED <<progress, shown, listed, attention, behind, faults>>

\* The refresh button (bound: clicked when the page is at rest; other things may
\* happen before the answer).
RefreshClicked ==
  /\ selected # NoRun /\ requests = << >>
  /\ requests' = Append(requests, Ask("panels", selected, 0))
  /\ UNCHANGED <<progress, page, faults>>

\* The decision on its way: for the run selected now, whatever the form shows.
Submitted == [Ask("review", selected, 0) EXCEPT !.drawn = shown.run, !.form = TRUE]

\* Faulty variant: the button stays enabled while the decision is being saved.
SubmitReviewAgain ==
  /\ shown.at >= Steps /\ shown.draft
  /\ \A r \in Runs : progress[r] < Steps + MaxReviews
  /\ Len(requests) < MaxRequests
  /\ requests' = Append(requests, Submitted)
  /\ UNCHANGED <<progress, page, faults>>

\* The form is drawn for the draft of a run that awaits review.  It is posted
\* to the run selected now, and its button is disabled until the decision is
\* saved and shown.  A form drawn meanwhile can be submitted as well.
SubmitReview ==
  /\ shown.at >= Steps /\ shown.draft
  /\ \A i \in DOMAIN requests : ~requests[i].form
  /\ \A r \in Runs : progress[r] < Steps + MaxReviews
  /\ Len(requests) < MaxRequests
  /\ requests' = Append(requests, Submitted)
  /\ UNCHANGED <<progress, page, faults>>

(***************************************************************************)
(* The server                                                              *)
(***************************************************************************)
\* A worker commits an event of the run.
Work(r) ==
  /\ progress[r] < Steps
  /\ progress' = [progress EXCEPT ![r] = @ + 1]
  /\ UNCHANGED <<requests, page, faults>>

\* The review is recorded if the run has a draft of that action id, which the
\* model chose: the drafts of two runs may have it both.
RecordReview(i) ==
  /\ requests[i].kind = "review" /\ progress[requests[i].run] >= Steps
  /\ progress' = [progress EXCEPT ![requests[i].run] = @ + 1]
  /\ requests' = [requests EXCEPT ![i].kind = "recorded"]
  /\ UNCHANGED <<page, faults>>

(***************************************************************************)
(* Answers                                                                 *)
(***************************************************************************)
\* The panels, from the run's row and its artifacts as read at two moments.  The
\* panels of sources stay as they are if there is no evidence package.
Drawn(i, at, held) ==
  [run     |-> requests[i].run,
   at      |-> at,
   draft   |-> held >= Steps,
   sources |-> IF held >= Sourced THEN requests[i].run ELSE shown.sources]

\* refreshActiveRun after its five requests, which are not served all at once.
\* The list of events is requested for the run selected now.
ShowPanels(i) ==
  /\ requests[i].kind = "panels"
  /\ LET moments == requests[i].from..progress[requests[i].run]
     IN  \E at, held \in moments : shown' = Drawn(i, at, held)
  /\ requests' = Append(Redrawn(Answered(i)), Ask("events", selected, requests[i].call))
  /\ behind' = [behind EXCEPT !.panels = requests[i].late]
  /\ UNCHANGED <<progress, selected, feeds, current, listed, attention, faults>>

\* Faulty variant: the current event source is closed before the next is opened.
ShowEventsClosing(i) ==
  /\ requests[i].kind = "events"
  /\ \E at \in requests[i].from..progress[requests[i].run] :
       listed' = [run |-> requests[i].run, at |-> at]
  /\ requests' = Answered(i)
  /\ behind' = [behind EXCEPT !.events = requests[i].late]
  /\ IF requests[i].call = 0
     THEN UNCHANGED <<feeds, current>>
     ELSE /\ feeds' = [n \in DOMAIN feeds |->
                         [feeds[n] EXCEPT !.open = IF n = current THEN FALSE
                                                   ELSE @ \/ n = requests[i].call]]
          /\ current' = requests[i].call
  /\ UNCHANGED <<progress, selected, shown, attention, faults>>

\* renderEvents, and connectEvents where inspectRun has waited for it: the event
\* source of its own argument takes the place of the current one, unclosed.
ShowEvents(i) ==
  /\ requests[i].kind = "events"
  /\ \E at \in requests[i].from..progress[requests[i].run] :
       listed' = [run |-> requests[i].run, at |-> at]
  /\ requests' = Answered(i)
  /\ behind' = [behind EXCEPT !.events = requests[i].late]
  /\ IF requests[i].call = 0
     THEN UNCHANGED <<feeds, current>>
     ELSE /\ feeds' = [feeds EXCEPT ![requests[i].call].open = TRUE]
          /\ current' = requests[i].call
  /\ UNCHANGED <<progress, selected, shown, attention, faults>>

\* submitReview goes on to refresh the page, and enables its button after that.
ReviewAnswered(i) ==
  /\ requests[i].kind = "recorded"
  /\ requests' = Append(Answered(i), [Ask("panels", selected, 0) EXCEPT !.form = requests[i].form])
  /\ UNCHANGED <<progress, page, faults>>

\* The server does not know the action, or the run does not await review.
ReviewRefused(i) ==
  /\ requests[i].kind = "review"
  /\ requests[i].drawn # requests[i].run \/ progress[requests[i].run] < Steps
  /\ requests' = Answered(i)
  /\ attention' = TRUE
  /\ UNCHANGED <<progress, selected, feeds, current, shown, listed, behind, faults>>

\* A request fails: the function that waits for it ends in showError.
Fail(i) ==
  /\ faults < MaxFaults
  /\ faults' = faults + 1
  /\ requests' = Answered(i)
  /\ attention' = TRUE
  /\ UNCHANGED <<progress, selected, feeds, current, shown, listed, behind>>

(***************************************************************************)
(* Event sources                                                           *)
(***************************************************************************)
\* Faulty variant: the message is shown, nothing is refreshed.
DeliverMessage(n) ==
  /\ feeds[n].open /\ feeds[n].cursor < progress[feeds[n].run]
  /\ feeds' = [feeds EXCEPT ![n].cursor = @ + 1]
  /\ UNCHANGED <<progress, requests, selected, current, shown, listed, attention, behind, faults>>

\* Faulty variant: no refresh while requests are under way.
DeliverDebounced(n) ==
  /\ feeds[n].open /\ feeds[n].cursor < progress[feeds[n].run]
  /\ feeds' = [feeds EXCEPT ![n].cursor = @ + 1]
  /\ requests' = IF requests = << >> THEN << Ask("panels", selected, 0) >> ELSE requests
  /\ UNCHANGED <<progress, selected, current, shown, listed, attention, behind, faults>>

\* run_event: refreshActiveRun, of the selected run, whoever's event it is.
Deliver(n) ==
  /\ feeds[n].open /\ feeds[n].cursor < progress[feeds[n].run]
  /\ Len(requests) < MaxRequests
  /\ feeds' = [feeds EXCEPT ![n].cursor = @ + 1]
  /\ requests' = Append(requests, Ask("panels", selected, 0))
  /\ UNCHANGED <<progress, selected, current, shown, listed, attention, behind, faults>>

\* onerror: the current event source is closed.  One that is not the current one
\* stays, connects again and goes on from its cursor.
Break(n) ==
  /\ feeds[n].open /\ faults < MaxFaults
  /\ faults' = faults + 1
  /\ CloseEventSource
  /\ UNCHANGED <<progress, selected, requests, shown, listed, attention, behind>>

(***************************************************************************)
(* The specification                                                       *)
(***************************************************************************)
Answer(i) == ShowPanels(i) \/ ShowEvents(i) \/ ReviewAnswered(i) \/ ReviewRefused(i)

Next ==
  \/ \E r \in Runs : InspectRun(r) \/ Work(r)
  \/ RefreshClicked \/ SubmitReview
  \/ \E i \in DOMAIN requests : RecordReview(i) \/ Answer(i) \/ Fail(i)
  \/ \E n \in DOMAIN feeds : Deliver(n) \/ Break(n)

Spec == Init /\ [][Next]_vars

\* Requests are served and answered, open event sources deliver.
Fairness ==
  /\ WF_vars(\E i \in DOMAIN requests : RecordReview(i) \/ Answer(i))
  /\ WF_vars(\E n \in DOMAIN feeds : Deliver(n))

FairSpec == Spec /\ Fairness

(***************************************************************************)
(* Properties                                                              *)
(***************************************************************************)
\* Every variable has its type, and a form is not submitted again while its
\* decision is being saved (other forms are, as often as the page is redrawn).
TypeOK ==
  /\ progress \in [Runs -> Nat \ {0}]
  /\ selected \in Runs \cup {NoRun}
  /\ requests \in Seq(Request)
  /\ \A i, j \in DOMAIN requests : requests[i].form /\ requests[j].form => i = j
  /\ feeds \in Seq(Feed) /\ Len(feeds) <= MaxSelections
  /\ current \in 0..Len(feeds)
  /\ shown \in [run : Runs \cup {NoRun}, at : Nat, draft : BOOLEAN, sources : Runs \cup {NoRun}]
  /\ listed \in [run : Runs \cup {NoRun}, at : Nat]
  /\ attention \in BOOLEAN
  /\ behind \in [panels : BOOLEAN, events : BOOLEAN]
  /\ faults \in 0..MaxFaults

\* What the page shows is the selected run, with all that is committed of it.
UpToDate ==
  /\ shown.run = selected /\ shown.at = progress[selected]
  /\ shown.draft = (progress[selected] >= Steps)
  /\ progress[selected] >= Sourced => shown.sources = selected
  /\ listed = [run |-> selected, at |-> progress[selected]]

\* No event of the selected run will reach the page.
CutOff ==
  /\ \A n \in DOMAIN feeds : ~(feeds[n].open /\ feeds[n].run = selected)
  /\ \A i \in DOMAIN requests : requests[i].call = 0

\* Every event of the selected run that its event source has delivered is in the
\* panels, or in the answer to a request under way, unless there was an error or
\* an older answer has overtaken a younger one (a run_event is shown by a refresh
\* of whatever run is selected by then, while other refreshes are under way).
Covered(c) ==
  \/ shown.run = selected /\ shown.at >= c
  \/ \E i \in DOMAIN requests :
       requests[i].kind = "panels" /\ requests[i].run = selected /\ requests[i].from >= c

DeliveredIsShown ==
  \A n \in DOMAIN feeds :
    feeds[n].run = selected /\ feeds[n].cursor > 0 /\ ~attention /\ ~behind.panels
      => Covered(feeds[n].cursor)

\* While nothing fails, the selected run has an event source or an inspectRun
\* that will open it, also if calls of inspectRun overlap and connect in another
\* order than they were made (connectEvents does not look at what is connected).
FeedKept == selected # NoRun /\ faults = 0 => ~CutOff

\* A decision is recorded for the run whose draft the reviewer had on the screen
\* (submitReview posts to state.runId, the form is of the run drawn last).
DecisionsMatchDisplay ==
  \A i \in DOMAIN requests :
    requests[i].kind = "recorded" => requests[i].drawn = requests[i].run

\* Once the user stops selecting, the page comes to show the selected run as it
\* is, and keeps up with it, unless it says that it needs attention, its event
\* source broke, or an older answer has overtaken a younger one.
FollowsSelection ==
  <>[](selected = NoRun \/ UpToDate \/ attention \/ CutOff \/ behind.panels \/ behind.events)
=============================================================================
