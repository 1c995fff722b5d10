-------------------------- MODULE Dashboard_proofs --------------------------
(***************************************************************************)
(* Theorems about the dashboard: with any number of runs, selections,      *)
(* reviews and failures, and any number of requests under way.             *)
(***************************************************************************)
EXTENDS Dashboard, TLAPS

Reviewing(x) == x.kind \in {"review", "recorded"}

\* The requests q under way when n calls of inspectRun have been made.
QueueGood(q, n) ==
  /\ \A i \in DOMAIN q : q[i].call <= n /\ (Reviewing(q[i]) => q[i].call = 0)
  /\ \A i, j \in DOMAIN q : q[i].form /\ q[j].form => i = j

\* The selected run is that of the last call of inspectRun.
SelectionInv ==
  /\ feeds = << >> => selected = NoRun /\ requests = << >> /\ shown.at = 0
  /\ feeds # << >> => selected = feeds[Len(feeds)].run

CursorInv == \A n \in DOMAIN feeds : feeds[n].cursor <= progress[feeds[n].run]

PageInv == TypeOK /\ SelectionInv /\ CursorInv /\ QueueGood(requests, Len(feeds))

(***************************************************************************)
(* The requests under way                                                  *)
(***************************************************************************)
Alike(x, y) ==
  /\ x.kind = y.kind /\ x.run = y.run /\ x.from = y.from
  /\ x.call = y.call /\ x.drawn = y.drawn

\* Where the j-th request that is left after the answer to request i was before.
Before(i, j) == IF j < i THEN j ELSE j + 1

LEMMA AnsweredAre ==
  ASSUME TypeOK, NEW i \in DOMAIN requests
  PROVE  /\ Answered(i) \in Seq(Request) /\ Len(Answered(i)) = Len(requests) - 1
         /\ \A j \in DOMAIN Answered(i) :
              /\ j \in Nat /\ Before(i, j) \in DOMAIN requests \ {i}
              /\ Alike(Answered(i)[j], requests[Before(i, j)])
              /\ Answered(i)[j].form = requests[Before(i, j)].form
              /\ Answered(i)[j].late <=>
                   \/ requests[Before(i, j)].late
                   \/ j < i /\ requests[Before(i, j)].kind = requests[i].kind
<1> DEFINE q == requests
           left == SubSeq(q, 1, i - 1)
           right == SubSeq(q, i + 1, Len(q))
           rest == left \o right
           n == Len(q) - 1
<1>1. q \in Seq(Request) /\ i \in 1..Len(q) /\ Len(q) \in Nat /\ n \in Nat
  BY DEF TypeOK
<1>2. /\ left \in Seq(Request) /\ Len(left) = i - 1
      /\ \A j \in 1..i - 1 : left[j] = q[j]
  BY <1>1
<1>3. /\ right \in Seq(Request) /\ Len(right) = Len(q) - i
      /\ \A j \in 1..Len(q) - i : right[j] = q[i + j]
  BY <1>1
<1>4. ASSUME NEW j \in 1..n
      PROVE  /\ Before(i, j) \in DOMAIN q \ {i} /\ rest[j] = q[Before(i, j)]
             /\ rest[j] \in Request
  <2> HIDE DEF left, right
  <2>1. CASE j < i
    BY <1>1, <1>2, <1>3, <2>1 DEF Before
  <2>2. CASE ~(j < i)
    <3>1. j - (i - 1) \in 1..Len(q) - i
      BY <1>1, <2>2
    <3>2. rest[j] = right[j - (i - 1)]
      BY <1>1, <1>2, <1>3, <2>2
    <3>3. rest[j] = q[j + 1]
      BY <1>1, <1>3, <3>1, <3>2
    <3> QED BY <1>1, <2>2, <3>3 DEF Before
  <2> QED BY <2>1, <2>2
<1> DEFINE late(j) == rest[j].late \/ (j < i /\ rest[j].kind = q[i].kind)
<1>5. Answered(i) = [j \in 1..n |-> [rest[j] EXCEPT !.late = late(j)]]
  BY DEF Answered
<1>6. ASSUME NEW x \in Request, NEW b \in BOOLEAN
      PROVE  /\ [x EXCEPT !.late = b] \in Request
             /\ Alike([x EXCEPT !.late = b], x) /\ [x EXCEPT !.late = b].late = b
             /\ [x EXCEPT !.late = b].form = x.form
  BY <1>6 DEF Request, Alike
<1> HIDE DEF rest, n
<1>7. \A j \in 1..n : late(j) \in BOOLEAN
  BY <1>4 DEF Request
<1> HIDE DEF late
<1>8. ASSUME NEW j \in 1..n
      PROVE  /\ Answered(i)[j] \in Request /\ Alike(Answered(i)[j], rest[j])
             /\ Answered(i)[j].late = late(j) /\ Answered(i)[j].form = rest[j].form
  <2>1. Answered(i)[j] = [rest[j] EXCEPT !.late = late(j)]
    BY <1>5
  <2> QED BY <1>4, <1>6, <1>7, <2>1
<1>9. Answered(i) \in Seq(Request) /\ Len(Answered(i)) = n /\ DOMAIN Answered(i) = 1..n
  <2>1. DOMAIN Answered(i) = 1..n /\ Answered(i) = [j \in 1..n |-> Answered(i)[j]]
    BY <1>5
  <2>2. Answered(i) \in [1..n -> Request]
    BY <1>8, <2>1
  <2>3. n \in Nat
    BY <1>1 DEF n
  <2> QED BY <2>1, <2>2, <2>3
<1>10. ASSUME NEW j \in DOMAIN Answered(i)
       PROVE  /\ j \in Nat /\ Before(i, j) \in DOMAIN q \ {i}
              /\ Alike(Answered(i)[j], q[Before(i, j)])
              /\ Answered(i)[j].form = q[Before(i, j)].form
              /\ Answered(i)[j].late <=>
                   \/ q[Before(i, j)].late
                   \/ j < i /\ q[Before(i, j)].kind = q[i].kind
  <2>1. j \in 1..n /\ j \in Nat
    BY <1>9, <1>1 DEF n
  <2>2. Before(i, j) \in DOMAIN q \ {i} /\ rest[j] = q[Before(i, j)]
    BY <1>4, <2>1
  <2>3. /\ Alike(Answered(i)[j], q[Before(i, j)]) /\ Answered(i)[j].late = late(j)
        /\ Answered(i)[j].form = q[Before(i, j)].form
    BY <1>8, <2>1, <2>2
  <2>4. late(j) <=> q[Before(i, j)].late \/ (j < i /\ q[Before(i, j)].kind = q[i].kind)
    BY <2>2 DEF late
  <2> QED BY <2>1, <2>2, <2>3, <2>4
<1> QED BY <1>9, <1>10 DEF n

LEMMA AnsweredGood ==
  ASSUME TypeOK, NEW i \in DOMAIN requests, NEW n, QueueGood(requests, n)
  PROVE  /\ QueueGood(Answered(i), n)
         /\ requests[i].form => \A j \in DOMAIN Answered(i) : ~Answered(i)[j].form
<1>1. \A j \in DOMAIN Answered(i) :
        /\ j \in Nat /\ Before(i, j) \in DOMAIN requests \ {i}
        /\ Alike(Answered(i)[j], requests[Before(i, j)])
        /\ Answered(i)[j].form = requests[Before(i, j)].form
  BY AnsweredAre
<1>2. \A j, k \in Nat : Before(i, j) = Before(i, k) => j = k
  BY DEF Before, TypeOK
<1> QED BY <1>1, <1>2 DEF QueueGood, Reviewing, Alike

LEMMA AppendIs ==
  ASSUME NEW q \in Seq(Request), NEW x \in Request
  PROVE  /\ Append(q, x) \in Seq(Request) /\ Len(q) \in Nat
         /\ DOMAIN Append(q, x) = 1..Len(q) + 1 /\ DOMAIN q = 1..Len(q)
         /\ Append(q, x)[Len(q) + 1] = x
         /\ \A i \in DOMAIN q : i # Len(q) + 1 /\ Append(q, x)[i] = q[i]
  OBVIOUS

\* What is waited for by a call of inspectRun, or for a form, is sent.
LEMMA AppendGood ==
  ASSUME NEW q \in Seq(Request), NEW x \in Request, NEW n \in Nat, NEW m \in Nat, n <= m,
         QueueGood(q, n), x.call <= m, Reviewing(x) => x.call = 0,
         x.form => \A i \in DOMAIN q : ~q[i].form
  PROVE  Append(q, x) \in Seq(Request) /\ QueueGood(Append(q, x), m)
<1>1. ASSUME NEW i \in DOMAIN q PROVE q[i].call \in Nat
  <2>1. q[i] \in Request
    OBVIOUS
  <2>2. 0..MaxSelections \subseteq Nat
    BY BoundsAssumption
  <2> QED BY <2>1, <2>2 DEF Request
<1>2. \A i \in DOMAIN q : q[i].call <= m
  BY <1>1 DEF QueueGood
<1>3. ASSUME NEW i \in DOMAIN Append(q, x)
      PROVE  (i = Len(q) + 1 /\ Append(q, x)[i] = x) \/ (i \in DOMAIN q /\ Append(q, x)[i] = q[i])
  BY AppendIs
<1> QED BY <1>2, <1>3, AppendIs DEF QueueGood, Reviewing

LEMMA AskType ==
  ASSUME TypeOK, NEW kind \in {"panels", "events", "review", "recorded"},
         NEW r \in Runs, NEW c \in 0..MaxSelections
  PROVE  /\ Ask(kind, r, c) \in Request
         /\ Ask(kind, r, c).kind = kind /\ Ask(kind, r, c).run = r
         /\ Ask(kind, r, c).call = c /\ Ask(kind, r, c).from = progress[r]
         /\ ~Ask(kind, r, c).late /\ ~Ask(kind, r, c).form
<1>1. progress[r] \in Nat
  BY DEF TypeOK
<1> QED BY <1>1 DEF Ask, Request

\* A request that is waited for by something else, or sent from a form.
LEMMA FormsOf ==
  ASSUME NEW x \in Request, NEW b \in BOOLEAN, NEW r \in Runs \cup {NoRun}
  PROVE  /\ [x EXCEPT !.form = b] \in Request /\ Alike([x EXCEPT !.form = b], x)
         /\ [x EXCEPT !.form = b].form = b /\ [x EXCEPT !.form = b].late = x.late
         /\ [x EXCEPT !.drawn = r, !.form = b] \in Request
         /\ [x EXCEPT !.drawn = r, !.form = b].kind = x.kind
         /\ [x EXCEPT !.drawn = r, !.form = b].call = x.call
  BY DEF Request, Alike

\* The page has drawn another form: its button is enabled.
LEMMA RedrawnAre ==
  ASSUME NEW q \in Seq(Request)
  PROVE  /\ Redrawn(q) \in Seq(Request) /\ DOMAIN Redrawn(q) = DOMAIN q /\ Len(Redrawn(q)) = Len(q)
         /\ \A i \in DOMAIN q :
              /\ Alike(Redrawn(q)[i], q[i]) /\ Redrawn(q)[i].late = q[i].late
              /\ ~Redrawn(q)[i].form
<1>1. \A i \in DOMAIN q : Redrawn(q)[i] = [q[i] EXCEPT !.form = FALSE]
  BY DEF Redrawn
<1>2. ASSUME NEW i \in DOMAIN q
      PROVE  /\ Redrawn(q)[i] \in Request /\ Alike(Redrawn(q)[i], q[i])
             /\ Redrawn(q)[i].late = q[i].late /\ ~Redrawn(q)[i].form
  <2>1. q[i] \in Request
    OBVIOUS
  <2> QED BY <1>1, <2>1, FormsOf
<1>3. Redrawn(q) = [i \in 1..Len(q) |-> Redrawn(q)[i]] /\ DOMAIN q = 1..Len(q) /\ Len(q) \in Nat
  BY DEF Redrawn
<1>4. Redrawn(q) \in [1..Len(q) -> Request]
  BY <1>2, <1>3
<1> QED BY <1>2, <1>3, <1>4

LEMMA RedrawnGood ==
  ASSUME NEW q \in Seq(Request), NEW n, QueueGood(q, n)
  PROVE  Redrawn(q) \in Seq(Request) /\ QueueGood(Redrawn(q), n)
BY RedrawnAre DEF QueueGood, Reviewing, Alike

\* RecordReview: the i-th request, a review, has been recorded.
Recorded(i) == [requests EXCEPT ![i].kind = "recorded"]

LEMMA RecordedAre ==
  ASSUME TypeOK, NEW i \in DOMAIN requests
  PROVE  /\ Recorded(i) \in Seq(Request) /\ DOMAIN Recorded(i) = DOMAIN requests
         /\ \A j \in DOMAIN requests \ {i} : Recorded(i)[j] = requests[j]
         /\ Recorded(i)[i].kind = "recorded" /\ Recorded(i)[i].call = requests[i].call
         /\ Recorded(i)[i].form = requests[i].form
<1>1. requests[i] \in Request /\ requests \in Seq(Request)
  BY DEF TypeOK
<1>2. Recorded(i) = [requests EXCEPT ![i] = [requests[i] EXCEPT !.kind = "recorded"]]
  BY DEF Recorded
<1>3. /\ [requests[i] EXCEPT !.kind = "recorded"] \in Request
      /\ [requests[i] EXCEPT !.kind = "recorded"].kind = "recorded"
      /\ [requests[i] EXCEPT !.kind = "recorded"].call = requests[i].call
      /\ [requests[i] EXCEPT !.kind = "recorded"].form = requests[i].form
  BY <1>1 DEF Request
<1>4. requests \in [1..Len(requests) -> Request] /\ Len(requests) \in Nat
  BY <1>1
<1>5. Recorded(i) \in [1..Len(requests) -> Request]
  BY <1>1, <1>2, <1>3, <1>4
<1>6. Recorded(i) \in Seq(Request) /\ DOMAIN Recorded(i) = DOMAIN requests
  BY <1>1, <1>4, <1>5
<1>7. /\ Recorded(i)[i] = [requests[i] EXCEPT !.kind = "recorded"]
      /\ \A j \in DOMAIN requests \ {i} : Recorded(i)[j] = requests[j]
  BY <1>1, <1>2
<1> QED BY <1>3, <1>6, <1>7

(***************************************************************************)
(* Types, and what the page knows of its own requests                      *)
(***************************************************************************)
LEMMA InitPage == Init => PageInv
<1> SUFFICES ASSUME Init PROVE PageInv
  OBVIOUS
<1>1. TypeOK
  <2>1. 1 \in Nat \ {0} /\ 0 \in 0..MaxFaults
    BY BoundsAssumption
  <2>2. progress \in [Runs -> Nat \ {0}] /\ faults \in 0..MaxFaults
    BY <2>1 DEF Init
  <2>3. /\ requests \in Seq(Request) /\ feeds \in Seq(Feed) /\ DOMAIN requests = {}
        /\ Len(feeds) <= MaxSelections /\ current \in 0..Len(feeds)
    BY BoundsAssumption DEF Init
  <2>4. /\ shown \in [run : Runs \cup {NoRun}, at : Nat, draft : BOOLEAN, sources : Runs \cup {NoRun}]
        /\ listed \in [run : Runs \cup {NoRun}, at : Nat]
        /\ attention \in BOOLEAN /\ behind \in [panels : BOOLEAN, events : BOOLEAN]
        /\ selected \in Runs \cup {NoRun}
    BY DEF Init
  <2> QED BY <2>2, <2>3, <2>4 DEF TypeOK
<1>2. feeds = << >> /\ requests = << >> /\ selected = NoRun /\ shown.at = 0
  BY DEF Init
<1>3. SelectionInv /\ CursorInv /\ QueueGood(requests, Len(feeds))
  BY <1>2 DEF SelectionInv, CursorInv, QueueGood
<1> QED BY <1>1, <1>3 DEF PageInv

LEMMA ElementTypes ==
  ASSUME TypeOK
  PROVE  /\ \A i \in DOMAIN requests :
              /\ requests[i] \in Request /\ requests[i].run \in Runs /\ requests[i].from \in Nat
              /\ requests[i].call \in Nat /\ requests # << >>
         /\ \A n \in DOMAIN feeds :
              /\ feeds[n] \in Feed /\ feeds[n].run \in Runs /\ feeds[n].cursor \in Nat
              /\ feeds # << >> /\ n \in 1..Len(feeds)
<1>1. ASSUME NEW i \in DOMAIN requests
      PROVE  /\ requests[i] \in Request /\ requests[i].run \in Runs /\ requests[i].from \in Nat
             /\ requests[i].call \in Nat /\ requests # << >>
  <2>1. requests[i] \in Request /\ requests # << >>
    BY DEF TypeOK
  <2>2. 0..MaxSelections \subseteq Nat
    BY BoundsAssumption
  <2> QED BY <2>1, <2>2 DEF Request
<1>2. ASSUME NEW n \in DOMAIN feeds
      PROVE  /\ feeds[n] \in Feed /\ feeds[n].run \in Runs /\ feeds[n].cursor \in Nat
             /\ feeds # << >> /\ n \in 1..Len(feeds)
  <2>1. feeds[n] \in Feed /\ feeds # << >> /\ n \in 1..Len(feeds)
    BY DEF TypeOK
  <2> QED BY <2>1 DEF Feed
<1> QED BY <1>1, <1>2

\* What a page with requests or event sources has selected.
LEMMA SomethingSelected ==
  ASSUME PageInv, requests # << >> \/ feeds # << >> \/ shown.at # 0 \/ selected # NoRun
  PROVE  /\ feeds # << >> /\ Len(feeds) \in DOMAIN feeds /\ Len(feeds) \in 0..MaxSelections
         /\ selected \in Runs /\ selected = feeds[Len(feeds)].run
<1>1. feeds # << >> /\ selected = feeds[Len(feeds)].run
  BY DEF PageInv, SelectionInv
<1>2. feeds \in Seq(Feed) /\ Len(feeds) <= MaxSelections
  BY DEF PageInv, TypeOK
<1>3. Len(feeds) \in DOMAIN feeds /\ feeds[Len(feeds)] \in Feed
  BY <1>1, <1>2
<1> QED BY <1>1, <1>2, <1>3, BoundsAssumption DEF Feed

\* A step asks for something, answers something, or does both.
LEMMA QueueSteps ==
  ASSUME PageInv
  PROVE  /\ \A i \in DOMAIN requests :
              Answered(i) \in Seq(Request) /\ QueueGood(Answered(i), Len(feeds))
         /\ \A q \in Seq(Request), kind \in {"panels", "events"}, c \in 0..Len(feeds) :
              QueueGood(q, Len(feeds)) /\ selected \in Runs =>
                /\ Append(q, Ask(kind, selected, c)) \in Seq(Request)
                /\ QueueGood(Append(q, Ask(kind, selected, c)), Len(feeds))
<1>0. /\ TypeOK /\ QueueGood(requests, Len(feeds))
      /\ Len(feeds) \in Nat /\ 0..Len(feeds) \subseteq 0..MaxSelections
  BY BoundsAssumption DEF PageInv, TypeOK
<1>1. ASSUME NEW i \in DOMAIN requests
      PROVE  Answered(i) \in Seq(Request) /\ QueueGood(Answered(i), Len(feeds))
  BY <1>0, AnsweredAre, AnsweredGood
<1>2. ASSUME NEW kind \in {"panels", "events"}, NEW c \in 0..Len(feeds), selected \in Runs,
             NEW q \in Seq(Request), QueueGood(q, Len(feeds))
      PROVE  /\ Append(q, Ask(kind, selected, c)) \in Seq(Request)
             /\ QueueGood(Append(q, Ask(kind, selected, c)), Len(feeds))
  <2> DEFINE x == Ask(kind, selected, c)
  <2>1. x \in Request /\ x.kind = kind /\ x.call = c /\ ~x.form
    BY <1>0, <1>2, AskType
  <2>2. ~Reviewing(x) /\ x.call <= Len(feeds)
    BY <1>0, <2>1 DEF Reviewing
  <2> HIDE DEF x
  <2>3. Append(q, x) \in Seq(Request) /\ QueueGood(Append(q, x), Len(feeds))
    BY <1>0, <1>2, <2>1, <2>2, AppendGood
  <2> QED BY <2>3 DEF x
<1> QED BY <1>1, <1>2

\* The refresh that follows a review keeps the button of its form disabled.
LEMMA AnswerSteps ==
  ASSUME PageInv, selected \in Runs, NEW i \in DOMAIN requests
  PROVE  LET x == [Ask("panels", selected, 0) EXCEPT !.form = requests[i].form]
         IN  /\ x \in Request /\ Alike(x, Ask("panels", selected, 0)) /\ ~x.late
             /\ Append(Answered(i), x) \in Seq(Request)
             /\ QueueGood(Append(Answered(i), x), Len(feeds))
<1> DEFINE ask == Ask("panels", selected, 0)
           x == [ask EXCEPT !.form = requests[i].form]
<1>0. /\ TypeOK /\ QueueGood(requests, Len(feeds)) /\ Len(feeds) \in Nat
      /\ requests[i].form \in BOOLEAN
  <2>1. requests[i] \in Request
    BY ElementTypes DEF PageInv
  <2>2. requests[i].form \in BOOLEAN
    BY <2>1 DEF Request
  <2> QED BY <2>2 DEF PageInv, TypeOK
<1>1. ask \in Request /\ ask.kind = "panels" /\ ask.call = 0 /\ ~ask.late
  BY <1>0, AskType, BoundsAssumption
<1> HIDE DEF ask
<1>2. x \in Request /\ Alike(x, ask) /\ x.late = ask.late /\ x.form = requests[i].form
  BY <1>0, <1>1, FormsOf
<1> HIDE DEF x
<1>3. ~Reviewing(x) /\ x.call = 0
  BY <1>1, <1>2 DEF Alike, Reviewing
<1>4. Answered(i) \in Seq(Request) /\ QueueGood(Answered(i), Len(feeds))
  BY <1>0, AnsweredAre, AnsweredGood
<1>5. x.form => \A j \in DOMAIN Answered(i) : ~Answered(i)[j].form
  BY <1>0, <1>2, AnsweredGood
<1>6. Append(Answered(i), x) \in Seq(Request) /\ QueueGood(Append(Answered(i), x), Len(feeds))
  BY <1>0, <1>2, <1>3, <1>4, <1>5, AppendGood
<1> QED BY <1>1, <1>2, <1>6 DEF ask, x

\* What is left to show when the runs, the selection and the event sources stay.
LEMMA PageStays ==
  ASSUME PageInv, UNCHANGED <<progress, selected, feeds>>,
         requests' \in Seq(Request), QueueGood(requests', Len(feeds)),
         feeds # << >>,
         current' \in 0..Len(feeds),
         shown' \in [run : Runs \cup {NoRun}, at : Nat, draft : BOOLEAN, sources : Runs \cup {NoRun}],
         listed' \in [run : Runs \cup {NoRun}, at : Nat],
         attention' \in BOOLEAN, behind' \in [panels : BOOLEAN, events : BOOLEAN],
         faults' \in 0..MaxFaults
  PROVE  PageInv'
<1>0. \A i, j \in DOMAIN requests' : requests'[i].form /\ requests'[j].form => i = j
  BY DEF QueueGood
<1>1. TypeOK'
  BY <1>0 DEF PageInv, TypeOK
<1>2. SelectionInv' /\ CursorInv'
  BY DEF PageInv, SelectionInv, CursorInv
<1> QED BY <1>1, <1>2 DEF PageInv

\* The event sources after one of them has been opened, closed or has delivered.
LEMMA FeedStays ==
  ASSUME PageInv, UNCHANGED <<progress, selected, shown, listed, behind>>,
         feeds # << >>,
         requests' \in Seq(Request), QueueGood(requests', Len(feeds)),
         feeds' \in Seq(Feed), Len(feeds') = Len(feeds),
         \A n \in DOMAIN feeds : /\ feeds'[n].run = feeds[n].run
                                 /\ feeds'[n].cursor <= progress[feeds[n].run],
         current' \in 0..Len(feeds), attention' \in BOOLEAN, faults' \in 0..MaxFaults
  PROVE  PageInv'
<1>0. \A i, j \in DOMAIN requests' : requests'[i].form /\ requests'[j].form => i = j
  BY DEF QueueGood
<1>1. TypeOK'
  BY <1>0 DEF PageInv, TypeOK
<1>2. feeds' # << >> /\ DOMAIN feeds' = DOMAIN feeds /\ Len(feeds) \in DOMAIN feeds
  BY SomethingSelected DEF PageInv, TypeOK
<1>3. SelectionInv' /\ CursorInv'
  BY <1>2 DEF PageInv, SelectionInv, CursorInv
<1> QED BY <1>1, <1>3 DEF PageInv

LEMMA InspectPage ==
  ASSUME PageInv, NEW r \in Runs, InspectRun(r)
  PROVE  PageInv'
<1> DEFINE n == Len(feeds)
           closed == [m \in DOMAIN feeds |-> [feeds[m] EXCEPT !.open = @ /\ m # current]]
           feed == [run |-> r, open |-> FALSE, cursor |-> 0]
           x == Ask("panels", r, n + 1)
<1>0. /\ TypeOK /\ n \in Nat /\ n + 1 \in 0..MaxSelections /\ requests \in Seq(Request)
      /\ feeds \in Seq(Feed) /\ DOMAIN feeds = 1..n /\ QueueGood(requests, n)
  BY BoundsAssumption DEF PageInv, TypeOK, InspectRun
<1>1. /\ closed \in Seq(Feed) /\ Len(closed) = n
      /\ \A m \in 1..n : closed[m].run = feeds[m].run /\ closed[m].cursor = feeds[m].cursor
  <2>1. \A m \in 1..n : feeds[m] \in Feed
    BY <1>0
  <2>2. ASSUME NEW f \in Feed, NEW b \in BOOLEAN
        PROVE  /\ [f EXCEPT !.open = b] \in Feed
               /\ [f EXCEPT !.open = b].run = f.run /\ [f EXCEPT !.open = b].cursor = f.cursor
    BY <2>2 DEF Feed
  <2>3. \A m \in 1..n : (feeds[m].open /\ m # current) \in BOOLEAN
    OBVIOUS
  <2>4. \A m \in 1..n : closed[m] = [feeds[m] EXCEPT !.open = feeds[m].open /\ m # current]
    BY <1>0
  <2>5. closed \in [1..n -> Feed]
    BY <1>0, <2>1, <2>2, <2>3
  <2>6. \A m \in 1..n : closed[m].run = feeds[m].run /\ closed[m].cursor = feeds[m].cursor
    BY <2>1, <2>2, <2>3, <2>4
  <2> QED BY <1>0, <2>5, <2>6
<1>2. x \in Request /\ x.kind = "panels" /\ x.call = n + 1 /\ ~x.form
  BY <1>0, AskType
<1>3. /\ selected' = r /\ feeds' = Append(closed, feed) /\ requests' = Append(requests, x)
      /\ current' = 0 /\ UNCHANGED <<progress, shown, listed, attention, behind, faults>>
  BY DEF InspectRun
<1>4. feed \in Feed /\ feed.run = r /\ feed.cursor = 0
  BY DEF Feed
<1> HIDE DEF closed, feed, x
<1>5. /\ feeds' \in Seq(Feed) /\ Len(feeds') = n + 1 /\ feeds'[n + 1] = feed
      /\ \A m \in 1..n : feeds'[m] = closed[m]
  BY <1>0, <1>1, <1>3, <1>4
<1>6. requests' \in Seq(Request) /\ QueueGood(requests', n + 1)
  <2>1. ~Reviewing(x)
    BY <1>2 DEF Reviewing
  <2>2. x.call <= n + 1 /\ n <= n + 1 /\ n + 1 \in Nat
    BY <1>0, <1>2
  <2> QED BY <1>0, <1>2, <1>3, <2>1, <2>2, AppendGood
<1>7. TypeOK'
  <2>1. \A i, j \in DOMAIN requests' : requests'[i].form /\ requests'[j].form => i = j
    BY <1>6 DEF QueueGood
  <2> QED BY <1>0, <1>3, <1>5, <1>6, <2>1 DEF TypeOK
<1>8. SelectionInv'
  <2>1. feeds' # << >>
    BY <1>0, <1>5
  <2> QED BY <1>3, <1>4, <1>5, <2>1 DEF SelectionInv
<1>9. CursorInv'
  <2>1. \A m \in 1..n : feeds[m].cursor <= progress[feeds[m].run]
    BY <1>0 DEF PageInv, CursorInv
  <2>2. progress[r] \in Nat
    BY <1>0, BoundsAssumption DEF TypeOK
  <2>3. ASSUME NEW m \in DOMAIN feeds' PROVE feeds'[m].cursor <= progress[feeds'[m].run]
    <3>1. m \in 1..n \/ m = n + 1
      BY <1>0, <1>5
    <3> QED BY <1>1, <1>4, <1>5, <2>1, <2>2, <3>1
  <2> QED BY <1>3, <2>3 DEF CursorInv
<1>10. QueueGood(requests', Len(feeds'))
  BY <1>3, <1>5, <1>6
<1> QED BY <1>7, <1>8, <1>9, <1>10 DEF PageInv

\* A run has an event more.
LEMMA ProgressPage ==
  ASSUME PageInv, NEW r \in Runs, progress' = [progress EXCEPT ![r] = @ + 1],
         UNCHANGED page, faults' = faults,
         requests' \in Seq(Request), QueueGood(requests', Len(feeds)),
         feeds = << >> => requests' = requests
  PROVE  PageInv'
<1>0. progress[r] + 1 \in Nat \ {0} /\ progress \in [Runs -> Nat \ {0}]
  BY DEF PageInv, TypeOK
<1>1. TypeOK'
  <2>1. \A i, j \in DOMAIN requests' : requests'[i].form /\ requests'[j].form => i = j
    BY DEF QueueGood
  <2>2. TypeOK
    BY DEF PageInv
  <2> QED BY <1>0, <2>1, <2>2 DEF TypeOK, page
<1>2. SelectionInv'
  BY DEF PageInv, SelectionInv, page
<1>3. CursorInv'
  <2>1. ASSUME NEW n \in DOMAIN feeds PROVE feeds[n].cursor <= progress'[feeds[n].run]
    <3>1. feeds[n].run \in Runs /\ feeds[n].cursor \in Nat
      BY ElementTypes DEF PageInv
    <3>2. feeds[n].cursor <= progress[feeds[n].run] /\ progress[feeds[n].run] \in Nat
      BY <1>0, <3>1, BoundsAssumption DEF PageInv, CursorInv
    <3> QED BY <1>0, <3>1, <3>2
  <2> QED BY <2>1 DEF CursorInv, page
<1> QED BY <1>1, <1>2, <1>3 DEF PageInv, page

LEMMA WorkPage ==
  ASSUME PageInv, NEW r \in Runs, Work(r)
  PROVE  PageInv'
<1>1. requests \in Seq(Request) /\ QueueGood(requests, Len(feeds))
  BY DEF PageInv, TypeOK
<1>2. progress' = [progress EXCEPT ![r] = @ + 1] /\ UNCHANGED <<requests, page, faults>>
  BY DEF Work
<1> QED BY <1>1, <1>2, ProgressPage

LEMMA RecordReviewPage ==
  ASSUME PageInv, NEW i \in DOMAIN requests, RecordReview(i)
  PROVE  PageInv'
<1>0. /\ TypeOK /\ requests \in Seq(Request) /\ QueueGood(requests, Len(feeds))
      /\ requests[i].run \in Runs /\ feeds # << >>
  <2>1. requests[i].run \in Runs /\ requests # << >>
    BY ElementTypes DEF PageInv
  <2> QED BY <2>1, SomethingSelected DEF PageInv, TypeOK
<1>1. /\ progress' = [progress EXCEPT ![requests[i].run] = @ + 1] /\ requests[i].kind = "review"
      /\ requests' = Recorded(i) /\ UNCHANGED <<page, faults>>
  BY DEF RecordReview, Recorded
<1>2. /\ Recorded(i) \in Seq(Request) /\ DOMAIN Recorded(i) = DOMAIN requests
      /\ \A j \in DOMAIN requests : /\ Recorded(i)[j].call = requests[j].call
                                    /\ Recorded(i)[j].form = requests[j].form
                                    /\ Reviewing(Recorded(i)[j]) => Reviewing(requests[j])
  BY <1>0, <1>1, RecordedAre DEF Reviewing
<1>3. QueueGood(Recorded(i), Len(feeds))
  BY <1>0, <1>2 DEF QueueGood
<1> QED BY <1>0, <1>1, <1>2, <1>3, ProgressPage

\* The steps that only change what is under way and what is on the screen.
LEMMA ScreenPage ==
  ASSUME PageInv,
         \/ RefreshClicked
         \/ \E i \in DOMAIN requests : ShowPanels(i) \/ ReviewAnswered(i) \/ ReviewRefused(i) \/ Fail(i)
  PROVE  PageInv'
<1>0. /\ TypeOK /\ QueueGood(requests, Len(feeds)) /\ requests \in Seq(Request)
      /\ current \in 0..Len(feeds) /\ 0 \in 0..Len(feeds) /\ faults \in 0..MaxFaults
      /\ shown \in [run : Runs \cup {NoRun}, at : Nat, draft : BOOLEAN, sources : Runs \cup {NoRun}]
      /\ listed \in [run : Runs \cup {NoRun}, at : Nat]
      /\ attention \in BOOLEAN /\ behind \in [panels : BOOLEAN, events : BOOLEAN]
  BY DEF PageInv, TypeOK
<1>1. CASE RefreshClicked
  <2>1. /\ requests' = Append(requests, Ask("panels", selected, 0)) /\ selected # NoRun
        /\ UNCHANGED <<progress, page, faults>>
    BY <1>1 DEF RefreshClicked
  <2>2. selected \in Runs /\ feeds # << >>
    BY <2>1, SomethingSelected
  <2>3. requests' \in Seq(Request) /\ QueueGood(requests', Len(feeds))
    BY <1>0, <2>1, <2>2, QueueSteps
  <2> QED BY <1>0, <2>1, <2>2, <2>3, PageStays DEF page
<1>2. ASSUME NEW i \in DOMAIN requests,
             ShowPanels(i) \/ ReviewAnswered(i) \/ ReviewRefused(i) \/ Fail(i)
      PROVE  PageInv'
  <2>0. feeds # << >> /\ selected \in Runs /\ requests[i].call \in 0..Len(feeds)
    <3>1. requests # << >> /\ requests[i].call \in Nat
      BY <1>0, ElementTypes
    <3>2. requests[i].call <= Len(feeds)
      BY <1>0 DEF QueueGood
    <3>3. Len(feeds) \in Nat
      BY <1>0 DEF TypeOK
    <3> QED BY <3>1, <3>2, <3>3, SomethingSelected
  <2>1. CASE ShowPanels(i)
    <3>1. /\ requests' = Append(Redrawn(Answered(i)), Ask("events", selected, requests[i].call))
          /\ behind' = [behind EXCEPT !.panels = requests[i].late]
          /\ UNCHANGED <<progress, selected, feeds, current, listed, attention, faults>>
      BY <2>1 DEF ShowPanels
    <3>2. requests' \in Seq(Request) /\ QueueGood(requests', Len(feeds))
      <4>1. /\ Redrawn(Answered(i)) \in Seq(Request)
            /\ QueueGood(Redrawn(Answered(i)), Len(feeds))
        BY QueueSteps, RedrawnGood
      <4> QED BY <2>0, <3>1, <4>1, QueueSteps
    <3>3. behind' \in [panels : BOOLEAN, events : BOOLEAN]
      <4>1. requests[i].late \in BOOLEAN
        BY <1>0, ElementTypes DEF Request
      <4> QED BY <1>0, <3>1, <4>1
    <3>4. shown' \in [run : Runs \cup {NoRun}, at : Nat, draft : BOOLEAN, sources : Runs \cup {NoRun}]
      <4>1. PICK at \in requests[i].from..progress[requests[i].run],
                 held \in requests[i].from..progress[requests[i].run] :
              shown' = Drawn(i, at, held)
        BY <2>1 DEF ShowPanels
      <4>2. requests[i].run \in Runs /\ requests[i].from \in Nat /\ progress[requests[i].run] \in Nat
        BY <1>0, ElementTypes, BoundsAssumption DEF TypeOK
      <4>3. at \in Nat /\ held \in Nat
        BY <4>2
      <4>4. /\ (held >= Steps) \in BOOLEAN
            /\ (IF held >= Sourced THEN requests[i].run ELSE shown.sources) \in Runs \cup {NoRun}
        BY <1>0, <4>2
      <4> QED BY <4>1, <4>2, <4>3, <4>4 DEF Drawn
    <3> QED BY <1>0, <2>0, <3>1, <3>2, <3>3, <3>4, PageStays
  <2>2. CASE ReviewAnswered(i)
    <3>1. /\ requests' = Append(Answered(i), [Ask("panels", selected, 0) EXCEPT !.form = requests[i].form])
          /\ UNCHANGED <<progress, page, faults>>
      BY <2>2 DEF ReviewAnswered
    <3>2. requests' \in Seq(Request) /\ QueueGood(requests', Len(feeds))
      BY <2>0, <3>1, AnswerSteps
    <3> QED BY <1>0, <2>0, <3>1, <3>2, PageStays DEF page
  <2>3. CASE ReviewRefused(i) \/ Fail(i)
    <3>1. /\ requests' = Answered(i) /\ attention' = TRUE
          /\ UNCHANGED <<progress, selected, feeds, current, shown, listed, behind>>
      BY <2>3 DEF ReviewRefused, Fail
    <3>2. faults' \in 0..MaxFaults
      BY <1>0, <2>3, BoundsAssumption DEF ReviewRefused, Fail
    <3>3. requests' \in Seq(Request) /\ QueueGood(requests', Len(feeds))
      BY <1>0, <2>0, <3>1, QueueSteps
    <3> QED BY <1>0, <2>0, <3>1, <3>2, <3>3, PageStays
  <2> QED BY <1>2, <2>1, <2>2, <2>3
<1> QED BY <1>1, <1>2

LEMMA SubmittedIs ==
  ASSUME PageInv, shown.at >= Steps
  PROVE  /\ selected \in Runs /\ feeds # << >>
         /\ Submitted \in Request /\ Submitted.kind = "review" /\ Submitted.call = 0
<1>0. TypeOK /\ 0 \in 0..MaxSelections /\ shown.run \in Runs \cup {NoRun} /\ shown.at # 0
  BY BoundsAssumption DEF PageInv, TypeOK
<1>1. selected \in Runs /\ feeds # << >>
  BY <1>0, SomethingSelected
<1> DEFINE ask == Ask("review", selected, 0)
<1>2. ask \in Request /\ ask.kind = "review" /\ ask.call = 0
  BY <1>0, <1>1, AskType
<1>3. Submitted = [ask EXCEPT !.drawn = shown.run, !.form = TRUE]
  BY DEF Submitted
<1> HIDE DEF ask
<1> QED BY <1>0, <1>1, <1>2, <1>3, FormsOf

LEMMA SubmitPage ==
  ASSUME PageInv, SubmitReview
  PROVE  PageInv'
<1>0. /\ TypeOK /\ QueueGood(requests, Len(feeds)) /\ requests \in Seq(Request)
      /\ current \in 0..Len(feeds) /\ faults \in 0..MaxFaults /\ Len(feeds) \in Nat
      /\ shown \in [run : Runs \cup {NoRun}, at : Nat, draft : BOOLEAN, sources : Runs \cup {NoRun}]
      /\ listed \in [run : Runs \cup {NoRun}, at : Nat]
      /\ attention \in BOOLEAN /\ behind \in [panels : BOOLEAN, events : BOOLEAN]
  BY DEF PageInv, TypeOK
<1>1. /\ requests' = Append(requests, Submitted) /\ UNCHANGED <<progress, page, faults>>
      /\ shown.at >= Steps /\ \A i \in DOMAIN requests : ~requests[i].form
  BY DEF SubmitReview
<1>2. feeds # << >> /\ Submitted \in Request /\ Submitted.call = 0
  BY <1>1, SubmittedIs
<1>3. requests' \in Seq(Request) /\ QueueGood(requests', Len(feeds))
  BY <1>0, <1>1, <1>2, AppendGood
<1> QED BY <1>0, <1>1, <1>2, <1>3, PageStays DEF page

\* The i-th request is answered, and what it was waited for opens a feed.
LEMMA ShowEventsPage ==
  ASSUME PageInv, NEW i \in DOMAIN requests, ShowEvents(i)
  PROVE  PageInv'
<1> DEFINE c == requests[i].call
<1>0. /\ TypeOK /\ QueueGood(requests, Len(feeds)) /\ requests \in Seq(Request)
      /\ current \in 0..Len(feeds) /\ faults \in 0..MaxFaults /\ feeds \in Seq(Feed)
      /\ shown \in [run : Runs \cup {NoRun}, at : Nat, draft : BOOLEAN, sources : Runs \cup {NoRun}]
      /\ Len(feeds) \in Nat /\ CursorInv
      /\ attention \in BOOLEAN /\ behind \in [panels : BOOLEAN, events : BOOLEAN]
  BY DEF PageInv, TypeOK
<1>1. feeds # << >> /\ c \in 0..Len(feeds)
  <2>1. requests # << >> /\ c \in Nat
    BY <1>0, ElementTypes
  <2>2. c <= Len(feeds)
    BY <1>0 DEF QueueGood
  <2> QED BY <1>0, <2>1, <2>2, SomethingSelected
<1>2. listed' \in [run : Runs \cup {NoRun}, at : Nat]
  <2>1. PICK at \in requests[i].from..progress[requests[i].run] :
          listed' = [run |-> requests[i].run, at |-> at]
    BY DEF ShowEvents
  <2>2. requests[i].run \in Runs /\ requests[i].from \in Nat /\ progress[requests[i].run] \in Nat
    BY <1>0, ElementTypes, BoundsAssumption DEF TypeOK
  <2> QED BY <2>1, <2>2
<1>3. behind' \in [panels : BOOLEAN, events : BOOLEAN]
  <2>1. requests[i].late \in BOOLEAN
    BY <1>0, ElementTypes DEF Request
  <2> QED BY <1>0, <2>1 DEF ShowEvents
<1>4. requests' = Answered(i) /\ UNCHANGED <<progress, selected, shown, attention, faults>>
  BY DEF ShowEvents
<1>5. requests' \in Seq(Request) /\ QueueGood(requests', Len(feeds))
  BY <1>0, <1>4, QueueSteps
<1>6. /\ feeds' \in Seq(Feed) /\ Len(feeds') = Len(feeds) /\ current' \in 0..Len(feeds)
      /\ \A n \in DOMAIN feeds : feeds'[n].run = feeds[n].run /\ feeds'[n].cursor = feeds[n].cursor
  <2>1. CASE c = 0
    BY <1>0, <2>1 DEF ShowEvents
  <2>2. CASE c # 0
    <3>1. /\ feeds' = [feeds EXCEPT ![c] = [feeds[c] EXCEPT !.open = TRUE]] /\ current' = c
      BY <2>2 DEF ShowEvents
    <3>2. c \in DOMAIN feeds /\ feeds[c] \in Feed
      BY <1>0, <1>1, <2>2
    <3>3. /\ [feeds[c] EXCEPT !.open = TRUE] \in Feed
          /\ [feeds[c] EXCEPT !.open = TRUE].run = feeds[c].run
          /\ [feeds[c] EXCEPT !.open = TRUE].cursor = feeds[c].cursor
      BY <3>2 DEF Feed
    <3> QED BY <1>0, <1>1, <3>1, <3>2, <3>3
  <2> QED BY <2>1, <2>2
<1>7. TypeOK'
  <2>1. \A k, j \in DOMAIN requests' : requests'[k].form /\ requests'[j].form => k = j
    BY <1>5 DEF QueueGood
  <2> QED BY <1>0, <1>2, <1>3, <1>4, <1>5, <1>6, <2>1 DEF TypeOK
<1>8. feeds' # << >> /\ DOMAIN feeds' = DOMAIN feeds /\ Len(feeds) \in DOMAIN feeds
  BY <1>0, <1>1, <1>6
<1>9. SelectionInv' /\ CursorInv'
  BY <1>0, <1>1, <1>4, <1>6, <1>8 DEF PageInv, SelectionInv, CursorInv
<1> QED BY <1>4, <1>5, <1>6, <1>7, <1>9 DEF PageInv

\* A feed that is opened, closed or has delivered is a feed.
LEMMA FeedOpens ==
  ASSUME NEW f \in Feed, NEW b \in BOOLEAN
  PROVE  /\ [f EXCEPT !.open = b] \in Feed /\ [f EXCEPT !.open = b].run = f.run
         /\ [f EXCEPT !.open = b].cursor = f.cursor
  BY DEF Feed

LEMMA FeedDelivers ==
  ASSUME NEW f \in Feed, NEW c \in Nat
  PROVE  /\ [f EXCEPT !.cursor = c] \in Feed /\ [f EXCEPT !.cursor = c].open = f.open
         /\ [f EXCEPT !.cursor = c].run = f.run /\ [f EXCEPT !.cursor = c].cursor = c
  BY DEF Feed

\* The event sources after n has delivered an event, and after one broke.
LEMMA DeliveredAre ==
  ASSUME TypeOK, NEW n \in DOMAIN feeds, Deliver(n)
  PROVE  /\ feeds' \in Seq(Feed) /\ Len(feeds') = Len(feeds)
         /\ feeds'[n].cursor = feeds[n].cursor + 1
         /\ \A m \in DOMAIN feeds : feeds'[m].run = feeds[m].run /\ feeds'[m].open = feeds[m].open
         /\ \A m \in DOMAIN feeds \ {n} : feeds'[m].cursor = feeds[m].cursor
<1>1. feeds \in Seq(Feed) /\ \A m \in DOMAIN feeds : feeds[m] \in Feed /\ feeds[m].cursor \in Nat
  BY ElementTypes DEF TypeOK
<1> DEFINE f == [feeds[n] EXCEPT !.cursor = feeds[n].cursor + 1]
<1>2. feeds' = [feeds EXCEPT ![n] = f]
  BY DEF Deliver
<1>3. /\ f \in Feed /\ f.open = feeds[n].open /\ f.run = feeds[n].run
      /\ f.cursor = feeds[n].cursor + 1
  <2>1. feeds[n].cursor + 1 \in Nat
    BY <1>1
  <2> QED BY <1>1, <2>1, FeedDelivers
<1> HIDE DEF f
<1> QED BY <1>1, <1>2, <1>3

LEMMA ClosedAre ==
  ASSUME TypeOK, CloseEventSource
  PROVE  /\ feeds' \in Seq(Feed) /\ Len(feeds') = Len(feeds)
         /\ \A m \in DOMAIN feeds : feeds'[m].run = feeds[m].run /\ feeds'[m].cursor = feeds[m].cursor
<1>1. /\ feeds \in Seq(Feed) /\ DOMAIN feeds = 1..Len(feeds) /\ Len(feeds) \in Nat
      /\ \A m \in DOMAIN feeds : feeds[m] \in Feed
  BY ElementTypes DEF TypeOK
<1>2. /\ DOMAIN feeds' = 1..Len(feeds) /\ feeds' = [m \in 1..Len(feeds) |-> feeds'[m]]
      /\ \A m \in DOMAIN feeds : feeds'[m] = [feeds[m] EXCEPT !.open = feeds[m].open /\ m # current]
  BY <1>1 DEF CloseEventSource
<1>3. ASSUME NEW m \in DOMAIN feeds
      PROVE  feeds'[m] \in Feed /\ feeds'[m].run = feeds[m].run /\ feeds'[m].cursor = feeds[m].cursor
  <2> DEFINE b == feeds[m].open /\ m # current
  <2>1. b \in BOOLEAN /\ feeds[m] \in Feed /\ feeds'[m] = [feeds[m] EXCEPT !.open = b]
    BY <1>1, <1>2
  <2> HIDE DEF b
  <2> QED BY <2>1, FeedOpens
<1>4. feeds' \in [1..Len(feeds) -> Feed]
  BY <1>1, <1>2, <1>3
<1>5. feeds' \in Seq(Feed) /\ Len(feeds') = Len(feeds)
  BY <1>1, <1>4
<1> QED BY <1>3, <1>5

LEMMA DeliverPage ==
  ASSUME PageInv, NEW n \in DOMAIN feeds, Deliver(n) \/ Break(n)
  PROVE  PageInv'
<1>0. /\ TypeOK /\ CursorInv /\ QueueGood(requests, Len(feeds))
      /\ requests \in Seq(Request) /\ current \in 0..Len(feeds) /\ 0 \in 0..Len(feeds)
      /\ attention \in BOOLEAN /\ faults \in 0..MaxFaults
  BY DEF PageInv, TypeOK
<1>1. feeds # << >> /\ selected \in Runs
  BY <1>0, ElementTypes, SomethingSelected
<1>2. \A m \in DOMAIN feeds : feeds[m].cursor <= progress[feeds[m].run]
  BY <1>0 DEF CursorInv
<1>3. CASE Deliver(n)
  <2>1. /\ requests' = Append(requests, Ask("panels", selected, 0))
        /\ UNCHANGED <<progress, selected, current, shown, listed, attention, behind, faults>>
    BY <1>3 DEF Deliver
  <2>2. requests' \in Seq(Request) /\ QueueGood(requests', Len(feeds))
    BY <1>0, <1>1, <2>1, QueueSteps
  <2>3. feeds[n].cursor + 1 <= progress[feeds[n].run]
    <3>1. feeds[n].cursor \in Nat /\ progress[feeds[n].run] \in Nat
      BY <1>0, ElementTypes, BoundsAssumption DEF TypeOK
    <3> QED BY <1>3, <3>1 DEF Deliver
  <2>4. /\ feeds' \in Seq(Feed) /\ Len(feeds') = Len(feeds)
        /\ \A m \in DOMAIN feeds : /\ feeds'[m].run = feeds[m].run
                                   /\ feeds'[m].cursor <= progress[feeds[m].run]
    BY <1>0, <1>2, <1>3, <2>3, DeliveredAre
  <2> QED BY <1>0, <1>1, <2>1, <2>2, <2>4, FeedStays
<1>4. CASE Break(n)
  <2>1. /\ CloseEventSource /\ current' = 0 /\ faults' \in 0..MaxFaults
        /\ UNCHANGED <<progress, selected, requests, shown, listed, attention, behind>>
    BY <1>0, <1>4, BoundsAssumption DEF Break, CloseEventSource
  <2>2. /\ feeds' \in Seq(Feed) /\ Len(feeds') = Len(feeds)
        /\ \A m \in DOMAIN feeds : /\ feeds'[m].run = feeds[m].run
                                   /\ feeds'[m].cursor <= progress[feeds[m].run]
    BY <1>0, <1>2, <2>1, ClosedAre
  <2> QED BY <1>0, <1>1, <2>1, <2>2, FeedStays
<1> QED BY <1>3, <1>4

LEMMA NextPage == PageInv /\ [Next]_vars => PageInv'
<1> SUFFICES ASSUME PageInv, [Next]_vars PROVE PageInv'
  OBVIOUS
<1>1. CASE UNCHANGED vars
  BY <1>1 DEF vars, PageInv, TypeOK, SelectionInv, CursorInv, QueueGood, Reviewing
<1>2. CASE \E r \in Runs : InspectRun(r) \/ Work(r)
  BY <1>2, InspectPage, WorkPage
<1>3. CASE RefreshClicked \/ SubmitReview
  BY <1>3, ScreenPage, SubmitPage
<1>4. CASE \E i \in DOMAIN requests : RecordReview(i) \/ Answer(i) \/ Fail(i)
  BY <1>4, RecordReviewPage, ScreenPage, ShowEventsPage DEF Answer
<1>5. CASE \E n \in DOMAIN feeds : Deliver(n) \/ Break(n)
  BY <1>5, DeliverPage
<1> QED BY <1>1, <1>2, <1>3, <1>4, <1>5 DEF Next

\* Every variable has its type: in particular the calls of inspectRun that wait
\* have an event source to open, and a form is not submitted again while its
\* decision is being saved (a form that a refresh has drawn meanwhile is: its
\* button is enabled).
THEOREM TypeCorrect == Spec => []TypeOK
<1>1. Spec => []PageInv
  BY InitPage, NextPage, PTL DEF Spec
<1>2. PageInv => TypeOK
  BY DEF PageInv
<1> QED BY <1>1, <1>2, PTL

(***************************************************************************)
(* The event source of the selected run                                    *)
(***************************************************************************)
\* The last call of inspectRun has connected, or waits to.
KeptInv ==
  feeds # << >> /\ faults = 0 =>
    feeds[Len(feeds)].open \/ \E i \in DOMAIN requests : requests[i].call = Len(feeds)

\* Where a request that is not answered is afterwards.
After(i, k) == IF k < i THEN k ELSE k - 1

LEMMA AnsweredKeeps ==
  ASSUME TypeOK, NEW i \in DOMAIN requests, NEW k \in DOMAIN requests \ {i}
  PROVE  /\ After(i, k) \in DOMAIN Answered(i) /\ Before(i, After(i, k)) = k
         /\ Alike(Answered(i)[After(i, k)], requests[k])
<1>1. /\ Answered(i) \in Seq(Request) /\ Len(Answered(i)) = Len(requests) - 1
      /\ \A j \in DOMAIN Answered(i) : Alike(Answered(i)[j], requests[Before(i, j)])
  BY AnsweredAre
<1>2. i \in 1..Len(requests) /\ k \in 1..Len(requests) /\ k # i /\ Len(requests) \in Nat
  BY DEF TypeOK
<1>3. After(i, k) \in 1..Len(requests) - 1 /\ Before(i, After(i, k)) = k
  BY <1>2 DEF After, Before
<1>4. DOMAIN Answered(i) = 1..Len(requests) - 1
  BY <1>1
<1> QED BY <1>1, <1>3, <1>4

LEMMA NextKept ==
  ASSUME PageInv, PageInv', KeptInv, [Next]_vars
  PROVE  KeptInv'
<1> DEFINE N == Len(feeds)
           waits(q) == \E k \in DOMAIN q : q[k].call = N
<1>0. /\ TypeOK /\ requests \in Seq(Request) /\ feeds \in Seq(Feed) /\ N \in Nat
      /\ QueueGood(requests, N)
      /\ feeds # << >> => N # 0 /\ N \in DOMAIN feeds
      /\ \A i \in DOMAIN requests : feeds # << >> /\ selected \in Runs
  <2>1. \A i \in DOMAIN requests : requests # << >>
    OBVIOUS
  <2> QED BY <2>1, SomethingSelected DEF PageInv, TypeOK
<1>1. SUFFICES ASSUME feeds' # << >>, faults' = 0
               PROVE  feeds'[Len(feeds')].open \/ \E i \in DOMAIN requests' : requests'[i].call = Len(feeds')
  BY DEF KeptInv
<1>2. ASSUME faults = 0, Len(feeds') = N, feeds[N].open => feeds'[N].open,
             waits(requests) => feeds'[N].open \/ waits(requests'), feeds # << >>
      PROVE  feeds'[Len(feeds')].open \/ \E i \in DOMAIN requests' : requests'[i].call = Len(feeds')
  BY <1>2 DEF KeptInv
<1>3. ASSUME NEW x \in Request PROVE waits(requests) => waits(Append(requests, x))
  BY <1>0, AppendIs
<1>4. ASSUME NEW i \in DOMAIN requests, NEW k \in DOMAIN requests \ {i}, requests[k].call = N
      PROVE  waits(Answered(i)) /\ \A x \in Request : waits(Append(Answered(i), x))
  <2>1. After(i, k) \in DOMAIN Answered(i) /\ Answered(i)[After(i, k)].call = N
    BY <1>0, <1>4, AnsweredKeeps DEF Alike
  <2>2. Answered(i) \in Seq(Request)
    BY <1>0, AnsweredAre
  <2> QED BY <2>1, <2>2, AppendIs
<1>5. CASE UNCHANGED <<feeds, requests, faults>>
  BY <1>1, <1>5 DEF KeptInv
<1>6. ASSUME NEW r \in Runs, InspectRun(r)
      PROVE  feeds'[Len(feeds')].open \/ \E i \in DOMAIN requests' : requests'[i].call = Len(feeds')
  <2> DEFINE x == Ask("panels", r, N + 1)
  <2>1. requests' = Append(requests, x) /\ Len(feeds') = N + 1
    BY <1>0, <1>6 DEF InspectRun
  <2>2. x \in Request /\ x.call = N + 1
    <3>1. N + 1 \in 0..MaxSelections
      BY <1>0, <1>6, BoundsAssumption DEF InspectRun
    <3> QED BY <1>0, <3>1, AskType
  <2> HIDE DEF x
  <2> QED BY <1>0, <2>1, <2>2, AppendIs
<1>7. ASSUME RefreshClicked \/ SubmitReview \/ \E n \in DOMAIN feeds : Deliver(n)
      PROVE  feeds'[Len(feeds')].open \/ \E i \in DOMAIN requests' : requests'[i].call = Len(feeds')
  <2>1. \E x : requests' = Append(requests, x)
    BY <1>7 DEF RefreshClicked, SubmitReview, Deliver
  <2>2. PICK x \in Request : requests' = Append(requests, x)
    <3>1. PICK x : requests' = Append(requests, x)
      BY <2>1
    <3>2. requests' \in Seq(Request) /\ Len(requests) \in Nat
      BY <1>0 DEF PageInv, TypeOK
    <3>3. x = Append(requests, x)[Len(requests) + 1] /\ Len(requests) + 1 \in DOMAIN Append(requests, x)
      BY <1>0
    <3> QED BY <3>1, <3>2, <3>3
  <2>3. faults = 0 /\ Len(feeds') = N /\ (feeds[N].open => feeds'[N].open) /\ feeds # << >>
    <3>1. CASE RefreshClicked \/ SubmitReview
      BY <1>1, <3>1 DEF RefreshClicked, SubmitReview, page
    <3>2. ASSUME NEW n \in DOMAIN feeds, Deliver(n)
          PROVE  faults = 0 /\ Len(feeds') = N /\ (feeds[N].open => feeds'[N].open) /\ feeds # << >>
      <4>1. /\ Len(feeds') = N /\ faults' = faults /\ feeds # << >>
            /\ \A m \in DOMAIN feeds : feeds'[m].open = feeds[m].open
        BY <1>0, <3>2, DeliveredAre, ElementTypes DEF Deliver
      <4> QED BY <1>0, <1>1, <4>1
    <3> QED BY <1>7, <3>1, <3>2
  <2> QED BY <1>2, <1>3, <2>2, <2>3
<1>8. ASSUME NEW i \in DOMAIN requests, RecordReview(i)
      PROVE  feeds'[Len(feeds')].open \/ \E k \in DOMAIN requests' : requests'[k].call = Len(feeds')
  <2>1. /\ requests' = Recorded(i) /\ UNCHANGED <<feeds, faults>>
    BY <1>8 DEF RecordReview, Recorded, page
  <2>2. waits(requests) => waits(requests')
    BY <1>0, <2>1, RecordedAre
  <2> QED BY <1>0, <1>1, <1>2, <2>1, <2>2
<1>9. ASSUME NEW i \in DOMAIN requests, ShowPanels(i)
      PROVE  feeds'[Len(feeds')].open \/ \E k \in DOMAIN requests' : requests'[k].call = Len(feeds')
  <2> DEFINE x == Ask("events", selected, requests[i].call)
  <2>1. requests' = Append(Redrawn(Answered(i)), x) /\ UNCHANGED <<feeds, faults>>
    BY <1>9 DEF ShowPanels
  <2>2. x \in Request /\ x.call = requests[i].call
    <3>1. requests[i].call \in 0..MaxSelections
      BY <1>0, ElementTypes DEF Request
    <3> QED BY <1>0, <3>1, AskType
  <2> HIDE DEF x
  <2> DEFINE q == Redrawn(Answered(i))
  <2>3. q \in Seq(Request) /\ (waits(Answered(i)) => waits(q))
    <3>1. Answered(i) \in Seq(Request)
      BY <1>0, AnsweredAre
    <3> QED BY <3>1, RedrawnAre DEF Alike
  <2> HIDE DEF q
  <2>4. requests' = Append(q, x)
    BY <2>1 DEF q
  <2>5. requests[i].call = N => waits(requests')
    <3>1. Len(q) + 1 \in DOMAIN requests' /\ requests'[Len(q) + 1] = x
      BY <2>2, <2>3, <2>4, AppendIs
    <3> QED BY <2>2, <3>1
  <2>6. waits(q) => waits(requests')
    BY <2>2, <2>3, <2>4, AppendIs
  <2>7. waits(requests) => waits(requests')
    BY <1>4, <2>3, <2>5, <2>6
  <2> QED BY <1>0, <1>1, <1>2, <2>1, <2>7
<1>10. ASSUME NEW i \in DOMAIN requests, ShowEvents(i)
       PROVE  feeds'[Len(feeds')].open \/ \E k \in DOMAIN requests' : requests'[k].call = Len(feeds')
  <2>1. requests' = Answered(i) /\ faults' = faults
    BY <1>10 DEF ShowEvents
  <2>2. Len(feeds') = N /\ (feeds[N].open => feeds'[N].open)
        /\ (requests[i].call = N => feeds'[N].open)
    <3>1. feeds # << >> /\ N \in DOMAIN feeds /\ N # 0 /\ feeds[N] \in Feed
      BY <1>0, ElementTypes
    <3>2. CASE requests[i].call = 0
      BY <1>10, <3>1, <3>2 DEF ShowEvents
    <3>3. CASE requests[i].call # 0
      <4>1. feeds' = [feeds EXCEPT ![requests[i].call] = [feeds[requests[i].call] EXCEPT !.open = TRUE]]
        BY <1>10, <3>3 DEF ShowEvents
      <4>2. [feeds[N] EXCEPT !.open = TRUE].open
        BY <3>1 DEF Feed
      <4> QED BY <1>0, <3>1, <4>1, <4>2
    <3> QED BY <3>2, <3>3
  <2>3. waits(requests) => feeds'[N].open \/ waits(requests')
    BY <1>4, <2>1, <2>2
  <2> QED BY <1>0, <1>1, <1>2, <2>1, <2>2, <2>3
<1>11. ASSUME NEW i \in DOMAIN requests, ReviewAnswered(i) \/ ReviewRefused(i)
       PROVE  feeds'[Len(feeds')].open \/ \E k \in DOMAIN requests' : requests'[k].call = Len(feeds')
  <2> DEFINE x == [Ask("panels", selected, 0) EXCEPT !.form = requests[i].form]
  <2>1. /\ UNCHANGED <<feeds, faults>> /\ Reviewing(requests[i])
        /\ requests' \in {Answered(i), Append(Answered(i), x)}
    BY <1>11 DEF ReviewAnswered, ReviewRefused, Reviewing, page
  <2>2. requests[i].call # N
    BY <1>0, <2>1 DEF QueueGood
  <2>3. x \in Request
    BY <1>0, AnswerSteps
  <2> HIDE DEF x
  <2>4. waits(requests) => waits(requests')
    BY <1>4, <2>1, <2>2, <2>3
  <2> QED BY <1>0, <1>1, <1>2, <2>1, <2>4
<1>12. ASSUME \/ \E i \in DOMAIN requests : Fail(i)
              \/ \E n \in DOMAIN feeds : Break(n)
       PROVE  FALSE
  <2>1. faults' = faults + 1 /\ faults \in Nat
    BY <1>12 DEF Fail, Break, PageInv, TypeOK
  <2> QED BY <1>1, <2>1
<1> QED BY <1>5, <1>6, <1>7, <1>8, <1>9, <1>10, <1>11, <1>12 DEF Next, Answer, Work, vars, page

\* However calls of inspectRun overlap, and in whatever order they connect: as
\* long as nothing has failed, the selected run has an event source or a call of
\* inspectRun that is about to open it.
THEOREM SelectionIsFed == Spec => []FeedKept
<1>1. Init => PageInv /\ KeptInv
  <2>1. Init => KeptInv
    BY DEF Init, KeptInv
  <2> QED BY <2>1, InitPage
<1>2. PageInv /\ KeptInv /\ [Next]_vars => (PageInv /\ KeptInv)'
  BY NextPage, NextKept
<1>3. PageInv /\ KeptInv => FeedKept
  <2> SUFFICES ASSUME PageInv, KeptInv, selected # NoRun, faults = 0, CutOff PROVE FALSE
    BY DEF FeedKept
  <2>1. feeds # << >> /\ Len(feeds) \in DOMAIN feeds /\ feeds[Len(feeds)].run = selected
    BY SomethingSelected
  <2>2. Len(feeds) # 0
    BY <2>1 DEF PageInv, TypeOK
  <2> QED BY <2>1, <2>2 DEF KeptInv, CutOff
<1> QED BY <1>1, <1>2, <1>3, PTL DEF Spec

(***************************************************************************)
(* What the panels show                                                    *)
(***************************************************************************)
\* The youngest refresh among q asks for run r as it was with c events or more.
Newest(q, r, c) ==
  \E k \in DOMAIN q :
    /\ q[k].kind = "panels" /\ q[k].run = r /\ q[k].from >= c /\ ~q[k].late
    /\ \A j \in DOMAIN q : j > k => q[j].kind # "panels"

AllLate(q) == \A k \in DOMAIN q : q[k].kind = "panels" => q[k].late

\* The refresh sent last is under way, or has been answered: then every refresh
\* still under way is late.  The last one sent is for the selected run.
Follows(c) ==
  \/ Newest(requests, selected, c)
  \/ AllLate(requests) /\ (behind.panels \/ (shown.run = selected /\ shown.at >= c))

ShowsInv ==
  ~attention =>
    \A n \in DOMAIN feeds : feeds[n].run = selected => Follows(feeds[n].cursor)

LEMMA AppendOther ==
  ASSUME NEW q \in Seq(Request), NEW x \in Request, x.kind # "panels"
  PROVE  /\ \A r, c : Newest(q, r, c) => Newest(Append(q, x), r, c)
         /\ AllLate(q) => AllLate(Append(q, x))
<1>1. ASSUME NEW k \in DOMAIN Append(q, x)
      PROVE  Append(q, x)[k] = x \/ (k \in DOMAIN q /\ Append(q, x)[k] = q[k])
  OBVIOUS
<1>2. \A k \in DOMAIN q : k \in DOMAIN Append(q, x) /\ Append(q, x)[k] = q[k]
  BY AppendIs
<1>3. AllLate(q) => AllLate(Append(q, x))
  BY <1>1 DEF AllLate
<1>4. ASSUME NEW r, NEW c, Newest(q, r, c) PROVE Newest(Append(q, x), r, c)
  BY <1>1, <1>2, <1>4 DEF Newest
<1> QED BY <1>3, <1>4

LEMMA AppendRefresh ==
  ASSUME NEW q \in Seq(Request), NEW x \in Request, x.kind = "panels", ~x.late,
         NEW c, x.from >= c
  PROVE  Newest(Append(q, x), x.run, c)
<1>1. /\ Len(q) + 1 \in DOMAIN Append(q, x) /\ Append(q, x)[Len(q) + 1] = x
      /\ \A j \in DOMAIN Append(q, x) : ~(j > Len(q) + 1)
  BY AppendIs
<1> QED BY <1>1 DEF Newest

\* An answer to the youngest refresh makes the others late; another answer
\* leaves it the youngest.
LEMMA AnsweredNewest ==
  ASSUME TypeOK, NEW i \in DOMAIN requests, NEW r, NEW c, Newest(requests, r, c)
  PROVE  \/ Newest(Answered(i), r, c)
         \/ /\ requests[i].kind = "panels" /\ requests[i].run = r /\ requests[i].from >= c
            /\ AllLate(Answered(i))
<1>1. PICK k \in DOMAIN requests :
        /\ requests[k].kind = "panels" /\ requests[k].run = r
        /\ requests[k].from >= c /\ ~requests[k].late
        /\ \A j \in DOMAIN requests : j > k => requests[j].kind # "panels"
  BY DEF Newest
<1>2. \A j \in DOMAIN Answered(i) :
        /\ j \in Nat /\ Before(i, j) \in DOMAIN requests \ {i}
        /\ Alike(Answered(i)[j], requests[Before(i, j)])
        /\ Answered(i)[j].late <=>
             \/ requests[Before(i, j)].late
             \/ j < i /\ requests[Before(i, j)].kind = requests[i].kind
  BY AnsweredAre
<1>3. i \in Nat /\ k \in Nat /\ \A j \in DOMAIN requests : j \in Nat
  BY DEF TypeOK
<1>4. CASE k = i
  <2>1. ASSUME NEW j \in DOMAIN Answered(i), Answered(i)[j].kind = "panels"
        PROVE  Answered(i)[j].late
    <3>1. requests[Before(i, j)].kind = "panels" /\ Before(i, j) # i
      BY <1>2, <2>1 DEF Alike
    <3>2. ~(Before(i, j) > i)
      BY <1>1, <1>2, <1>4, <3>1
    <3>3. j < i
      BY <1>2, <1>3, <3>1, <3>2 DEF Before
    <3> QED BY <1>1, <1>2, <1>4, <3>1, <3>3
  <2> QED BY <1>1, <1>4, <2>1 DEF AllLate
<1>5. CASE k # i
  <2> DEFINE a == After(i, k)
  <2>1. a \in DOMAIN Answered(i) /\ Before(i, a) = k /\ Alike(Answered(i)[a], requests[k])
    BY <1>5, AnsweredKeeps
  <2>2. requests[i].kind = "panels" => i < k
    BY <1>1, <1>3, <1>5
  <2>3. ~Answered(i)[a].late
    <3>1. a < i /\ requests[k].kind = requests[i].kind => FALSE
      BY <1>1, <1>3, <2>2 DEF After
    <3> QED BY <1>1, <1>2, <2>1, <3>1
  <2>4. ASSUME NEW j \in DOMAIN Answered(i), j > a PROVE Answered(i)[j].kind # "panels"
    <3>1. Before(i, j) > k
      BY <1>2, <1>3, <1>5, <2>1, <2>4 DEF Before, After
    <3> QED BY <1>1, <1>2, <3>1 DEF Alike
  <2> HIDE DEF a
  <2> QED BY <1>1, <2>1, <2>3, <2>4 DEF Newest, Alike
<1> QED BY <1>4, <1>5

LEMMA AnsweredLate ==
  ASSUME TypeOK, NEW i \in DOMAIN requests, AllLate(requests)
  PROVE  AllLate(Answered(i))
<1>1. \A j \in DOMAIN Answered(i) :
        /\ Before(i, j) \in DOMAIN requests
        /\ Alike(Answered(i)[j], requests[Before(i, j)])
        /\ requests[Before(i, j)].late => Answered(i)[j].late
  BY AnsweredAre
<1> QED BY <1>1 DEF AllLate, Alike

LEMMA RecordedShows ==
  ASSUME TypeOK, NEW i \in DOMAIN requests, requests[i].kind = "review"
  PROVE  /\ \A r, c : Newest(requests, r, c) => Newest(Recorded(i), r, c)
         /\ AllLate(requests) => AllLate(Recorded(i))
<1>1. /\ DOMAIN Recorded(i) = DOMAIN requests /\ Recorded(i)[i].kind = "recorded"
      /\ \A j \in DOMAIN requests \ {i} : Recorded(i)[j] = requests[j]
  BY RecordedAre
<1>2. ASSUME NEW r, NEW c, Newest(requests, r, c) PROVE Newest(Recorded(i), r, c)
  <2>1. PICK k \in DOMAIN requests :
          /\ requests[k].kind = "panels" /\ requests[k].run = r
          /\ requests[k].from >= c /\ ~requests[k].late
          /\ \A j \in DOMAIN requests : j > k => requests[j].kind # "panels"
    BY <1>2 DEF Newest
  <2>2. k # i
    BY <2>1
  <2> QED BY <1>1, <2>1, <2>2 DEF Newest
<1>3. AllLate(requests) => AllLate(Recorded(i))
  BY <1>1 DEF AllLate
<1> QED BY <1>2, <1>3

LEMMA RedrawnShows ==
  ASSUME NEW q \in Seq(Request)
  PROVE  /\ \A r, c : Newest(q, r, c) => Newest(Redrawn(q), r, c)
         /\ AllLate(q) => AllLate(Redrawn(q))
<1>1. /\ DOMAIN Redrawn(q) = DOMAIN q
      /\ \A k \in DOMAIN q : Alike(Redrawn(q)[k], q[k]) /\ Redrawn(q)[k].late = q[k].late
  BY RedrawnAre
<1>2. AllLate(q) => AllLate(Redrawn(q))
  BY <1>1 DEF AllLate, Alike
<1>3. ASSUME NEW r, NEW c, Newest(q, r, c) PROVE Newest(Redrawn(q), r, c)
  BY <1>1, <1>3 DEF Newest, Alike
<1> QED BY <1>2, <1>3

\* A refresh is sent, after all others.
LEMMA RefreshFollows ==
  ASSUME TypeOK, PageInv', progress' = progress, NEW q \in Seq(Request), NEW x \in Request,
         selected' \in Runs, NEW c \in 0..MaxSelections,
         Alike(x, Ask("panels", selected', c)), ~x.late, requests' = Append(q, x),
         NEW n, n \in DOMAIN feeds', feeds'[n].run = selected'
  PROVE  Follows(feeds[n].cursor)'
<1>1. x.kind = "panels" /\ x.run = selected' /\ x.from = progress[selected']
  BY AskType DEF Alike
<1>2. feeds'[n].cursor <= x.from
  <2>1. feeds'[n].cursor <= progress'[feeds'[n].run]
    BY DEF PageInv, CursorInv
  <2> QED BY <1>1, <2>1
<1>3. feeds'[n].cursor \in Nat /\ x.from \in Nat
  <2>1. feeds'[n] \in Feed
    BY DEF PageInv, TypeOK
  <2> QED BY <1>1, <2>1 DEF Request, Feed
<1>4. Newest(Append(q, x), x.run, feeds'[n].cursor)
  BY <1>1, <1>2, <1>3, AppendRefresh
<1>5. Newest(requests', selected', feeds'[n].cursor)
  BY <1>1, <1>4
<1> QED BY <1>5 DEF Follows

\* The refresh of the selected run by a click, an event or a selection.
LEMMA AskFollows ==
  ASSUME TypeOK, PageInv', progress' = progress, NEW q \in Seq(Request),
         selected' \in Runs, NEW c \in 0..MaxSelections,
         requests' = Append(q, Ask("panels", selected', c)),
         NEW n, n \in DOMAIN feeds', feeds'[n].run = selected'
  PROVE  Follows(feeds[n].cursor)'
<1> DEFINE x == Ask("panels", selected', c)
<1>1. x \in Request /\ ~x.late
  BY AskType
<1>2. Alike(x, Ask("panels", selected', c)) /\ requests' = Append(q, x)
  BY DEF Alike
<1> HIDE DEF x
<1> QED BY <1>1, <1>2, RefreshFollows

LEMMA ShowPanelsFollows ==
  ASSUME PageInv, NEW i \in DOMAIN requests, ShowPanels(i),
         NEW n \in DOMAIN feeds, feeds[n].run = selected, Follows(feeds[n].cursor)
  PROVE  Follows(feeds[n].cursor)'
<1> DEFINE c == feeds[n].cursor
           x == Ask("events", selected, requests[i].call)
<1>1. TypeOK /\ requests[i] \in Request /\ c \in Nat /\ requests[i].kind = "panels"
      /\ requests[i].from \in Nat /\ requests[i].run \in Runs /\ requests # << >>
  BY ElementTypes DEF PageInv, ShowPanels
<1>2. /\ requests' = Append(Redrawn(Answered(i)), x) /\ UNCHANGED <<selected, feeds>>
      /\ behind' = [behind EXCEPT !.panels = requests[i].late]
  BY DEF ShowPanels
<1>3. x \in Request /\ x.kind = "events"
  <2>1. requests[i].call \in 0..MaxSelections /\ selected \in Runs
    BY <1>1, SomethingSelected DEF Request
  <2> QED BY <1>1, <2>1, AskType
<1>4. /\ Answered(i) \in Seq(Request) /\ Redrawn(Answered(i)) \in Seq(Request)
      /\ Newest(Answered(i), selected, c) => Newest(Redrawn(Answered(i)), selected, c)
      /\ AllLate(Answered(i)) => AllLate(Redrawn(Answered(i)))
  BY <1>1, AnsweredAre, RedrawnAre, RedrawnShows
<1>5. shown'.run = requests[i].run /\ shown'.at >= requests[i].from /\ shown'.at \in Nat
  <2>1. PICK at \in requests[i].from..progress[requests[i].run],
             held \in requests[i].from..progress[requests[i].run] :
          shown' = Drawn(i, at, held)
    BY DEF ShowPanels
  <2>2. progress[requests[i].run] \in Nat
    BY <1>1, BoundsAssumption DEF TypeOK
  <2> QED BY <1>1, <2>1, <2>2 DEF Drawn
<1>6. behind'.panels = requests[i].late
  BY <1>1, <1>2 DEF TypeOK
<1> HIDE DEF x
<1>7. CASE Newest(Answered(i), selected, c)
  <2>1. Newest(requests', selected, c)
    BY <1>2, <1>3, <1>4, <1>7, AppendOther
  <2> QED BY <1>2, <2>1 DEF Follows
<1>8. ASSUME AllLate(Answered(i)), requests[i].late \/ (requests[i].run = selected /\ requests[i].from >= c)
      PROVE  Follows(feeds[n].cursor)'
  <2>1. AllLate(requests')
    BY <1>2, <1>3, <1>4, <1>8, AppendOther
  <2>2. behind'.panels \/ (shown'.run = selected' /\ shown'.at >= c)
    BY <1>1, <1>2, <1>5, <1>6, <1>8
  <2>3. feeds'[n].cursor = c
    BY <1>2
  <2> HIDE DEF c
  <2> QED BY <2>1, <2>2, <2>3 DEF Follows
<1>9. CASE Newest(requests, selected, c)
  BY <1>1, <1>7, <1>8, <1>9, AnsweredNewest
<1>10. CASE AllLate(requests)
  <2>1. requests[i].late
    BY <1>1, <1>10 DEF AllLate
  <2> QED BY <1>1, <1>8, <1>10, <2>1, AnsweredLate
<1> QED BY <1>9, <1>10 DEF Follows

LEMMA NextShows ==
  ASSUME PageInv, PageInv', ShowsInv, [Next]_vars
  PROVE  ShowsInv'
<1>0. /\ TypeOK /\ requests \in Seq(Request) /\ 0 \in 0..MaxSelections /\ feeds \in Seq(Feed)
      /\ \A i \in DOMAIN requests : selected \in Runs
      /\ \A n \in DOMAIN feeds : selected \in Runs
  <2>1. \A i \in DOMAIN requests : selected \in Runs
    BY ElementTypes, SomethingSelected DEF PageInv
  <2>2. \A n \in DOMAIN feeds : selected \in Runs
    BY ElementTypes, SomethingSelected DEF PageInv
  <2> QED BY <2>1, <2>2, BoundsAssumption DEF PageInv, TypeOK
<1>1. SUFFICES ASSUME ~attention', NEW n, n \in DOMAIN feeds', feeds'[n].run = selected'
               PROVE  Follows(feeds[n].cursor)'
  BY DEF ShowsInv
<1>2. ASSUME UNCHANGED <<selected, attention>>, DOMAIN feeds' = DOMAIN feeds,
             \A m \in DOMAIN feeds : feeds'[m].run = feeds[m].run /\ feeds'[m].cursor = feeds[m].cursor
      PROVE  /\ n \in DOMAIN feeds /\ feeds[n].run = selected /\ feeds'[n].cursor = feeds[n].cursor
             /\ Follows(feeds[n].cursor)
  BY <1>1, <1>2 DEF ShowsInv
<1>3. CASE UNCHANGED <<selected, feeds, requests, shown, behind, attention>>
  BY <1>1, <1>3 DEF ShowsInv, Follows
<1>4. ASSUME NEW r \in Runs, InspectRun(r) PROVE Follows(feeds[n].cursor)'
  <2>1. /\ requests' = Append(requests, Ask("panels", selected', Len(feeds) + 1))
        /\ selected' = r /\ progress' = progress
    BY <1>4 DEF InspectRun
  <2>2. Len(feeds) + 1 \in 0..MaxSelections
    BY <1>0, <1>4, BoundsAssumption DEF InspectRun
  <2> QED BY <1>0, <1>1, <2>1, <2>2, AskFollows
<1>5. ASSUME RefreshClicked \/ \E m \in DOMAIN feeds : Deliver(m) PROVE Follows(feeds[n].cursor)'
  <2>1. /\ requests' = Append(requests, Ask("panels", selected', 0))
        /\ selected' = selected /\ progress' = progress
    BY <1>5 DEF RefreshClicked, Deliver, page
  <2>2. selected \in Runs
    <3>1. CASE RefreshClicked
      BY <3>1, SomethingSelected DEF RefreshClicked
    <3> QED BY <1>0, <1>5, <3>1
  <2> QED BY <1>0, <1>1, <2>1, <2>2, AskFollows
<1>6. ASSUME NEW i \in DOMAIN requests, ReviewAnswered(i) PROVE Follows(feeds[n].cursor)'
  <2> DEFINE x == [Ask("panels", selected', 0) EXCEPT !.form = requests[i].form]
  <2>1. requests' = Append(Answered(i), x) /\ selected' = selected /\ progress' = progress
    BY <1>6 DEF ReviewAnswered, page
  <2>2. Answered(i) \in Seq(Request)
    BY <1>0, AnsweredAre
  <2>3. x \in Request /\ Alike(x, Ask("panels", selected', 0)) /\ ~x.late
    BY <1>0, <2>1, AnswerSteps
  <2> HIDE DEF x
  <2> QED BY <1>0, <1>1, <2>1, <2>2, <2>3, RefreshFollows
<1>7. CASE SubmitReview
  <2>1. requests' = Append(requests, Submitted) /\ shown.at >= Steps /\ UNCHANGED page
    BY <1>7 DEF SubmitReview
  <2>2. Submitted \in Request /\ Submitted.kind # "panels"
    BY <2>1, SubmittedIs
  <2>3. /\ n \in DOMAIN feeds /\ feeds'[n].cursor = feeds[n].cursor /\ Follows(feeds[n].cursor)
    BY <1>2, <2>1 DEF page
  <2> QED BY <1>0, <2>1, <2>2, <2>3, AppendOther DEF Follows, page
<1>8. ASSUME NEW i \in DOMAIN requests, RecordReview(i) PROVE Follows(feeds[n].cursor)'
  <2>1. requests' = Recorded(i) /\ requests[i].kind = "review" /\ UNCHANGED page
    BY <1>8 DEF RecordReview, Recorded
  <2>2. /\ n \in DOMAIN feeds /\ feeds'[n].cursor = feeds[n].cursor /\ Follows(feeds[n].cursor)
    BY <1>2, <2>1 DEF page
  <2> QED BY <1>0, <2>1, <2>2, RecordedShows DEF Follows, page
<1>9. ASSUME NEW i \in DOMAIN requests, ShowPanels(i) PROVE Follows(feeds[n].cursor)'
  <2>1. UNCHANGED <<selected, feeds, attention>>
    BY <1>9 DEF ShowPanels
  <2>2. n \in DOMAIN feeds /\ feeds[n].run = selected /\ Follows(feeds[n].cursor)
    BY <1>2, <2>1
  <2> QED BY <1>9, <2>2, ShowPanelsFollows
<1>10. ASSUME NEW i \in DOMAIN requests, ShowEvents(i) PROVE Follows(feeds[n].cursor)'
  <2>1. /\ requests' = Answered(i) /\ requests[i].kind = "events"
        /\ UNCHANGED <<selected, shown, attention>> /\ behind' = [behind EXCEPT !.events = requests[i].late]
    BY <1>10 DEF ShowEvents
  <2>2. behind'.panels = behind.panels
    BY <1>0, <2>1 DEF TypeOK
  <2>3. /\ DOMAIN feeds' = DOMAIN feeds
        /\ \A m \in DOMAIN feeds : feeds'[m].run = feeds[m].run /\ feeds'[m].cursor = feeds[m].cursor
    <3>1. CASE requests[i].call = 0
      BY <1>10, <3>1 DEF ShowEvents
    <3>2. CASE requests[i].call # 0
      <4> DEFINE c == requests[i].call
      <4>1. feeds' = [feeds EXCEPT ![c] = [feeds[c] EXCEPT !.open = TRUE]]
        BY <1>10, <3>2 DEF ShowEvents
      <4>2. \A m \in DOMAIN feeds :
              /\ [feeds[m] EXCEPT !.open = TRUE].run = feeds[m].run
              /\ [feeds[m] EXCEPT !.open = TRUE].cursor = feeds[m].cursor
        BY <1>0, ElementTypes DEF Feed
      <4> QED BY <1>0, <4>1, <4>2
    <3> QED BY <3>1, <3>2
  <2>4. n \in DOMAIN feeds /\ feeds'[n].cursor = feeds[n].cursor /\ Follows(feeds[n].cursor)
    BY <1>2, <2>1, <2>3
  <2>5. CASE Newest(requests, selected, feeds[n].cursor)
    <3>1. Newest(Answered(i), selected, feeds[n].cursor)
      BY <1>0, <2>1, <2>5, AnsweredNewest
    <3> QED BY <2>1, <2>4, <3>1 DEF Follows
  <2>6. CASE AllLate(requests) /\ (behind.panels \/ (shown.run = selected /\ shown.at >= feeds[n].cursor))
    <3>1. AllLate(Answered(i))
      BY <1>0, <2>6, AnsweredLate
    <3> QED BY <2>1, <2>2, <2>4, <2>6, <3>1 DEF Follows
  <2> QED BY <2>4, <2>5, <2>6 DEF Follows
<1>11. ASSUME NEW i \in DOMAIN requests, ReviewRefused(i) \/ Fail(i) PROVE FALSE
  BY <1>1, <1>11 DEF ReviewRefused, Fail
<1>12. ASSUME NEW m \in DOMAIN feeds, Break(m) PROVE Follows(feeds[n].cursor)'
  <2>1. CloseEventSource /\ UNCHANGED <<selected, requests, shown, attention, behind>>
    BY <1>12 DEF Break
  <2>2. /\ DOMAIN feeds' = DOMAIN feeds
        /\ \A k \in DOMAIN feeds : feeds'[k].run = feeds[k].run /\ feeds'[k].cursor = feeds[k].cursor
    BY <1>0, <2>1, ClosedAre
  <2>3. feeds'[n].cursor = feeds[n].cursor /\ Follows(feeds[n].cursor)
    BY <1>2, <2>1, <2>2
  <2> QED BY <2>1, <2>3 DEF Follows
<1> QED
  BY <1>3, <1>4, <1>5, <1>6, <1>7, <1>8, <1>9, <1>10, <1>11, <1>12
  DEF Next, Answer, Work, vars, page

\* Every event of the selected run that its event source has delivered is on the
\* screen, or in the answer to a refresh under way, unless an answer has been
\* overtaken or something failed: also when events of other runs, clicks and
\* reviews have sent refreshes of their own, answered in any order.
THEOREM DeliveredShows == Spec => []DeliveredIsShown
<1>1. Init => PageInv /\ ShowsInv
  <2>1. Init => ShowsInv
    BY DEF Init, ShowsInv
  <2> QED BY <2>1, InitPage
<1>2. PageInv /\ ShowsInv /\ [Next]_vars => (PageInv /\ ShowsInv)'
  BY NextPage, NextShows
<1>3. PageInv /\ ShowsInv => DeliveredIsShown
  <2> SUFFICES ASSUME PageInv, ShowsInv, NEW n \in DOMAIN feeds,
                      feeds[n].run = selected, ~attention, ~behind.panels
               PROVE  Covered(feeds[n].cursor)
    BY DEF DeliveredIsShown
  <2>1. Follows(feeds[n].cursor)
    BY DEF ShowsInv
  <2> QED BY <2>1 DEF Follows, Newest, Covered
<1> QED BY <1>1, <1>2, <1>3, PTL DEF Spec
=============================================================================
