------------------------ MODULE ActionReviews_proofs ------------------------
(***************************************************************************)
(* Proofs about ActionReviews, for any reviewers, actions and decisions.   *)
(***************************************************************************)
EXTENDS ActionReviews, FiniteSets, FiniteSetTheorems, TLAPS

\* The reviews of an action, and how many there are.
ReviewsOf(a) == {j \in DOMAIN reviews : reviews[j].action = a}

Stored(a) == Cardinality(ReviewsOf(a))

\* What a handler has read about the run stays so: the draft of a run that left
\* drafting does not change, nor does a run leave AWAITING_HUMAN_REVIEW.
HandlerInv ==
  /\ phase = "drafting" => draft = {}
  /\ \A r \in Reviewers :
       /\ pc[r] \in {"found", "checked", "versioned"} => form[r].action \in draft
       /\ pc[r] \in {"checked", "versioned"} => phase = "awaiting"

\* Versions have no gaps, and one that was chosen is at most the next one.
VersionInv ==
  /\ \A a \in Actions : Versions(a) = 1..Stored(a)
  /\ \A r \in Reviewers, a \in Actions :
       pc[r] = "versioned" /\ form[r].action = a => form[r].version \in 1..(Stored(a) + 1)

ReviewInv ==
  TypeOK /\ AnsweredReviewsStand /\ OnlyDraftsUnderReview /\ HandlerInv
    /\ VersionsFollowCommits /\ VersionInv

-----------------------------------------------------------------------------
\* The reviews of an action are finitely many.
LEMMA StoredFinite ==
  ASSUME TypeOK, NEW a
  PROVE  IsFiniteSet(ReviewsOf(a)) /\ Stored(a) \in Nat
<1>1. DOMAIN reviews = 1..Len(reviews) /\ Len(reviews) \in Nat
  BY DEF TypeOK
<1>2. IsFiniteSet(1..Len(reviews))
  BY <1>1, FS_Interval
<1>3. ReviewsOf(a) \in SUBSET (1..Len(reviews))
  BY <1>1 DEF ReviewsOf
<1> QED
  BY <1>2, <1>3, FS_Subset, FS_CardinalityType DEF Stored

\* max(version) of an action without gaps is the number of its reviews.
LEMMA NextIsStored ==
  ASSUME TypeOK, VersionInv, NEW a \in Actions
  PROVE  NextVersion(a) = Stored(a) + 1
<1> DEFINE n == Stored(a)
<1>1. n \in Nat
  BY StoredFinite
<1>2. Versions(a) \cup {0} = 0..n
  BY <1>1 DEF VersionInv
<1>3. Max(0..n) = n
  <2>1. n \in 0..n /\ \A y \in 0..n : n >= y
    BY <1>1
  <2> HIDE DEF n
  <2>2. \A x \in 0..n : (\A y \in 0..n : x >= y) => x = n
    BY <1>1, <2>1
  <2> QED
    BY <2>1, <2>2 DEF Max
<1> QED
  BY <1>2, <1>3 DEF NextVersion

\* One more review counts for its action and for no other.
LEMMA AppendCounts ==
  ASSUME TypeOK, NEW f \in Forms(Nat), reviews' = Append(reviews, f)
  PROVE  /\ Len(reviews') = Len(reviews) + 1
         /\ DOMAIN reviews' = 1..(Len(reviews) + 1)
         /\ \A i \in DOMAIN reviews : reviews'[i] = reviews[i]
         /\ reviews'[Len(reviews) + 1] = f
         /\ Stored(f.action)' = Stored(f.action) + 1
         /\ \A a \in Actions : a # f.action => Stored(a)' = Stored(a)
<1> DEFINE n == Len(reviews)
<1>1. /\ n \in Nat /\ DOMAIN reviews = 1..n
      /\ Len(reviews') = n + 1 /\ DOMAIN reviews' = 1..(n + 1)
      /\ \A i \in 1..n : reviews'[i] = reviews[i]
      /\ reviews'[n + 1] = f
  BY DEF TypeOK
<1> HIDE DEF n
<1>2. n + 1 \notin ReviewsOf(f.action)
  BY <1>1 DEF ReviewsOf
<1>3. ReviewsOf(f.action)' = ReviewsOf(f.action) \cup {n + 1}
  BY <1>1 DEF ReviewsOf
<1>4. Stored(f.action)' = Stored(f.action) + 1
  BY <1>2, <1>3, StoredFinite, FS_AddElement DEF Stored
<1>5. \A a \in Actions : a # f.action => ReviewsOf(a)' = ReviewsOf(a)
  BY <1>1 DEF ReviewsOf
<1> QED
  BY <1>1, <1>4, <1>5 DEF Stored, n

\* A review whose version is not taken has the next version of its action.
LEMMA RecordKeepsVersions ==
  ASSUME ReviewInv, NEW r \in Reviewers, NEW f \in Forms(Nat), f = form[r],
         pc[r] = "versioned", f.version \notin Versions(f.action),
         reviews' = Append(reviews, f), form' = form, Goto(r, "idle")
  PROVE  VersionsFollowCommits' /\ VersionInv'
<1> DEFINE n == Len(reviews)
<1> USE DEF ReviewInv
<1>1. f.action \in Actions /\ f.version \in Nat
  BY DEF Forms
<1>2. \A a \in Actions : Stored(a) \in Nat
  BY StoredFinite
<1>3. f.version = Stored(f.action) + 1
  BY <1>1, <1>2 DEF VersionInv
<1>4. /\ n \in Nat /\ DOMAIN reviews = 1..n /\ DOMAIN reviews' = 1..(n + 1)
      /\ \A i \in 1..n : reviews'[i] = reviews[i]
      /\ reviews'[n + 1] = f
      /\ Stored(f.action)' = Stored(f.action) + 1
      /\ \A a \in Actions : a # f.action => Stored(a)' = Stored(a)
  BY <1>1, AppendCounts DEF TypeOK
<1> HIDE DEF n
<1>5. VersionsFollowCommits'
  <2> SUFFICES ASSUME NEW i \in 1..(n + 1)
               PROVE  reviews'[i].version =
                        Cardinality({j \in 1..i : reviews'[j].action = reviews'[i].action})
    BY <1>4 DEF VersionsFollowCommits
  <2>1. CASE i \in 1..n
    <3>1. {j \in 1..i : reviews'[j].action = reviews'[i].action}
            = {j \in 1..i : reviews[j].action = reviews[i].action}
      BY <1>4, <2>1
    <3>2. reviews[i].version = Cardinality({j \in 1..i : reviews[j].action = reviews[i].action})
      BY <1>4, <2>1 DEF VersionsFollowCommits
    <3> QED
      BY <1>4, <2>1, <3>1, <3>2
  <2>2. CASE i = n + 1
    <3>1. {j \in 1..i : reviews'[j].action = reviews'[i].action} = ReviewsOf(f.action)'
      BY <1>4, <2>2 DEF ReviewsOf
    <3> QED
      BY <1>3, <1>4, <2>2, <3>1 DEF Stored
  <2>3. i \in 1..n \/ i = n + 1
    BY <1>4
  <2> QED
    BY <2>1, <2>2, <2>3
<1>6. \A a \in Actions : Versions(a)' = 1..Stored(a)'
  <2> SUFFICES ASSUME NEW a \in Actions PROVE Versions(a)' = 1..Stored(a)'
    OBVIOUS
  <2>1. CASE a = f.action
    <3>1. Versions(a)' = Versions(a) \cup {f.version}
      BY <1>4, <2>1 DEF Versions
    <3>2. Versions(a) = 1..Stored(a) /\ Stored(a) \in Nat
      BY <1>2 DEF VersionInv
    <3>3. f.version = Stored(a) + 1 /\ Stored(a)' = Stored(a) + 1
      BY <1>3, <1>4, <2>1
    <3>4. Versions(a)' = 1..(Stored(a) + 1)
      BY <3>1, <3>2, <3>3
    <3> QED
      BY <3>3, <3>4
  <2>2. CASE a # f.action
    <3>1. Versions(a)' = Versions(a)
      BY <1>4, <2>2 DEF Versions
    <3> QED
      BY <1>4, <2>2, <3>1 DEF VersionInv
  <2> QED
    BY <2>1, <2>2
<1>7. ASSUME NEW q \in Reviewers, NEW a \in Actions, pc'[q] = "versioned", form'[q].action = a
      PROVE  form'[q].version \in 1..(Stored(a)' + 1)
  <2>1. pc[q] = "versioned" /\ form[q].action = a /\ form'[q] = form[q]
    BY <1>7 DEF Goto, TypeOK
  <2>2. form[q].version \in 1..(Stored(a) + 1)
    BY <2>1 DEF VersionInv
  <2>3. Stored(a)' \in {Stored(a), Stored(a) + 1}
    BY <1>4
  <2> QED
    BY <1>2, <2>1, <2>2, <2>3
<1> QED
  BY <1>5, <1>6, <1>7 DEF VersionInv

\* Nothing but a record changes what is stored.
LEMMA OthersKeepVersions ==
  ASSUME ReviewInv, UNCHANGED reviews,
         \A r \in Reviewers : pc'[r] = "versioned" => pc[r] = "versioned" /\ form'[r] = form[r]
  PROVE  VersionsFollowCommits' /\ VersionInv'
<1>1. \A a : Versions(a)' = Versions(a) /\ Stored(a)' = Stored(a)
  BY DEF Versions, Stored, ReviewsOf
<1> QED
  BY <1>1 DEF ReviewInv, VersionsFollowCommits, VersionInv

LEMMA InvInit == Init => ReviewInv
<1> SUFFICES ASSUME Init PROVE ReviewInv
  OBVIOUS
<1> USE DEF Init
<1>1. TypeOK /\ HandlerInv /\ OnlyDraftsUnderReview /\ AnsweredReviewsStand /\ VersionsFollowCommits
  BY DEF TypeOK, Forms, HandlerInv, OnlyDraftsUnderReview, AnsweredReviewsStand, VersionsFollowCommits
<1>2. \A a \in Actions : Versions(a) = {} /\ ReviewsOf(a) = {}
  BY DEF Versions, ReviewsOf
<1>3. \A a \in Actions : Stored(a) = 0
  BY <1>2, FS_EmptySet DEF Stored
<1>4. \A a \in Actions : Versions(a) = 1..Stored(a)
  <2>1. 1..0 = {}
    OBVIOUS
  <2> QED
    BY <1>2, <1>3, <2>1
<1>5. VersionInv
  BY <1>4 DEF VersionInv
<1> QED
  BY <1>1, <1>5 DEF ReviewInv

\* Types, the reading of the run and the audit trail.
RestInv == TypeOK /\ AnsweredReviewsStand /\ OnlyDraftsUnderReview /\ HandlerInv

LEMMA RecordKeepsRest ==
  ASSUME ReviewInv, NEW r \in Reviewers, Record(r)
  PROVE  RestInv'
<1> USE DEF ReviewInv, Record, Goto
<1>1. form[r] \in Forms(Nat) /\ pc' = [pc EXCEPT ![r] = "idle"] /\ UNCHANGED <<phase, draft, form>>
  BY DEF TypeOK
<1>2. HandlerInv'
  BY <1>1 DEF HandlerInv, TypeOK
<1>3. CASE UNCHANGED <<reviews, audit, told>>
  BY <1>1, <1>2, <1>3 DEF RestInv, TypeOK, AnsweredReviewsStand, OnlyDraftsUnderReview
<1>4. CASE /\ reviews' = Append(reviews, form[r])
           /\ audit' = Append(audit, [action |-> form[r].action, decision |-> form[r].decision])
           /\ AnswerOk(form[r]) /\ pc[r] = "versioned"
  <2>1. form[r].version \in Nat \ {0} /\ form[r] \in Forms(Nat \ {0})
    BY <1>1, <1>4, StoredFinite DEF VersionInv, Forms
  <2>2. TypeOK'
    BY <1>1, <1>4, <2>1 DEF TypeOK, Forms, AnswerOk
  <2>3. OnlyDraftsUnderReview'
    BY <1>1, <1>4 DEF OnlyDraftsUnderReview, HandlerInv, TypeOK
  <2>4. Len(audit) = Len(reviews)
    BY DEF AnsweredReviewsStand, TypeOK
  <2>5. AnsweredReviewsStand'
    <3>1. /\ DOMAIN reviews = 1..Len(reviews) /\ DOMAIN reviews' = 1..(Len(reviews) + 1)
          /\ DOMAIN audit' = 1..(Len(reviews) + 1) /\ Len(reviews) \in Nat
          /\ \A i \in 1..Len(reviews) : reviews'[i] = reviews[i] /\ audit'[i] = audit[i]
          /\ reviews'[Len(reviews) + 1] = form[r]
          /\ audit'[Len(reviews) + 1] = [action |-> form[r].action, decision |-> form[r].decision]
      BY <1>4, <2>4 DEF TypeOK
    <3>2. \A review \in told' : \E i \in DOMAIN reviews' : reviews'[i] = review
      <4> SUFFICES ASSUME NEW review \in told'
                   PROVE  \E i \in DOMAIN reviews' : reviews'[i] = review
        OBVIOUS
      <4>1. review \in told \/ review = form[r]
        BY <1>4 DEF AnswerOk
      <4>2. CASE review \in told
        <5>1. PICK i \in DOMAIN reviews : reviews[i] = review
          BY <4>2 DEF AnsweredReviewsStand
        <5>2. i \in DOMAIN reviews' /\ reviews'[i] = review
          BY <3>1, <5>1
        <5> QED
          BY <5>2
      <4>3. CASE review = form[r]
        <5>1. Len(reviews) + 1 \in DOMAIN reviews'
          BY <3>1
        <5> QED
          BY <3>1, <4>3, <5>1
      <4> QED
        BY <4>1, <4>2, <4>3
    <3>3. \A i \in DOMAIN audit' :
            audit'[i] = [action |-> reviews'[i].action, decision |-> reviews'[i].decision]
      BY <2>4, <3>1 DEF AnsweredReviewsStand
    <3> QED
      BY <3>1, <3>2, <3>3 DEF AnsweredReviewsStand
  <2> QED
    BY <1>2, <2>2, <2>3, <2>5 DEF RestInv
<1> QED
  BY <1>3, <1>4

LEMMA InvNext == ReviewInv /\ [Next]_vars => ReviewInv'
<1> SUFFICES ASSUME ReviewInv, [Next]_vars PROVE ReviewInv'
  OBVIOUS
<1> USE DEF ReviewInv
<1>1. CASE UNCHANGED vars
  <2>1. RestInv'
    BY <1>1 DEF vars, RestInv, TypeOK, AnsweredReviewsStand, OnlyDraftsUnderReview, HandlerInv
  <2> QED
    BY <1>1, <2>1, OthersKeepVersions DEF vars, RestInv
<1>2. CASE PinDraft \/ LeaveDrafting
  <2>1. RestInv'
    BY <1>2 DEF PinDraft, LeaveDrafting, RestInv, TypeOK, AnsweredReviewsStand,
                OnlyDraftsUnderReview, HandlerInv
  <2> QED
    BY <1>2, <2>1, OthersKeepVersions DEF PinDraft, LeaveDrafting, RestInv
<1>3. ASSUME NEW r \in Reviewers, NEW a \in Actions, NEW d \in Decisions, Submit(r, a, d)
      PROVE  ReviewInv'
  <2>1. RestInv'
    BY <1>3 DEF Submit, Goto, RestInv, TypeOK, Forms, AnsweredReviewsStand,
                OnlyDraftsUnderReview, HandlerInv
  <2> QED
    BY <1>3, <2>1, OthersKeepVersions DEF Submit, Goto, RestInv, TypeOK
<1>4. ASSUME NEW r \in Reviewers, FindAction(r) \/ CheckRun(r) PROVE ReviewInv'
  <2>1. RestInv'
    BY <1>4 DEF FindAction, CheckRun, Goto, RestInv, TypeOK, Forms, AnsweredReviewsStand,
                OnlyDraftsUnderReview, HandlerInv
  <2> QED
    BY <1>4, <2>1, OthersKeepVersions DEF FindAction, CheckRun, Goto, RestInv, TypeOK
<1>5. ASSUME NEW r \in Reviewers, ChooseVersion(r) PROVE ReviewInv'
  <2>1. /\ form[r].action \in Actions /\ Stored(form[r].action) \in Nat
        /\ form' = [form EXCEPT ![r].version = Stored(form[r].action) + 1]
    BY <1>5, NextIsStored, StoredFinite DEF ChooseVersion, TypeOK, Forms
  <2>2. form'[r].version = Stored(form[r].action) + 1 /\ form'[r].action = form[r].action
    BY <2>1 DEF TypeOK, Forms
  <2>3. TypeOK'
    <3>1. [form[r] EXCEPT !.version = Stored(form[r].action) + 1] \in Forms(Nat)
      <4>1. /\ form[r].decision \in Decisions /\ form[r].action \in Actions
            /\ form[r] \in Forms(Nat) /\ Stored(form[r].action) + 1 \in Nat
        BY <2>1 DEF TypeOK, Forms
      <4> QED
        BY <4>1 DEF Forms
    <3>2. form' \in [Reviewers -> Forms(Nat)]
      BY <2>1, <3>1 DEF TypeOK
    <3> QED
      BY <1>5, <3>2 DEF ChooseVersion, Goto, TypeOK
  <2>4. HandlerInv' /\ AnsweredReviewsStand' /\ OnlyDraftsUnderReview'
    BY <1>5, <2>1 DEF ChooseVersion, Goto, TypeOK, Forms, AnsweredReviewsStand,
                      OnlyDraftsUnderReview, HandlerInv
  <2>5. \A a : Versions(a)' = Versions(a) /\ Stored(a)' = Stored(a)
    BY <1>5 DEF ChooseVersion, Versions, Stored, ReviewsOf
  <2>6. VersionsFollowCommits' /\ \A a \in Actions : Versions(a)' = 1..Stored(a)'
    BY <1>5, <2>5 DEF ChooseVersion, VersionsFollowCommits, VersionInv
  <2>7. ASSUME NEW q \in Reviewers, NEW b \in Actions, pc'[q] = "versioned", form'[q].action = b
        PROVE  form'[q].version \in 1..(Stored(b)' + 1)
    <3>1. CASE q = r
      BY <2>1, <2>2, <2>5, <2>7, <3>1
    <3>2. CASE q # r
      <4>1. pc[q] = "versioned" /\ form'[q] = form[q]
        BY <1>5, <2>1, <2>7, <3>2 DEF ChooseVersion, Goto, TypeOK
      <4> QED
        BY <2>5, <2>7, <4>1 DEF VersionInv
    <3> QED
      BY <3>1, <3>2
  <2>8. VersionInv'
    BY <2>6, <2>7 DEF VersionInv
  <2> QED
    BY <2>3, <2>4, <2>6, <2>8
<1>6. ASSUME NEW r \in Reviewers, Record(r) PROVE ReviewInv'
  <2>1. RestInv'
    BY <1>6, RecordKeepsRest
  <2>2. CASE UNCHANGED reviews
    BY <1>6, <2>1, <2>2, OthersKeepVersions DEF Record, Goto, RestInv, TypeOK
  <2>3. CASE form[r].version \notin Versions(form[r].action) /\ reviews' = Append(reviews, form[r])
    <3>1. PICK f \in Forms(Nat) : f = form[r]
      BY DEF TypeOK
    <3> QED
      BY <1>6, <2>1, <2>3, <3>1, RecordKeepsVersions DEF Record, RestInv
  <2> QED
    BY <1>6, <2>2, <2>3 DEF Record
<1>7. CASE Crash
  <2>1. RestInv'
    BY <1>7 DEF Crash, RestInv, TypeOK, AnsweredReviewsStand, OnlyDraftsUnderReview, HandlerInv
  <2> QED
    BY <1>7, <2>1, OthersKeepVersions DEF Crash, RestInv
<1> QED
  BY <1>1, <1>2, <1>3, <1>4, <1>5, <1>6, <1>7 DEF Next, Handle

-----------------------------------------------------------------------------
\* Every variable keeps its type.
THEOREM TypeCorrect == Spec => []TypeOK
<1>1. ReviewInv => TypeOK
  BY DEF ReviewInv
<1> QED
  BY <1>1, InvInit, InvNext, PTL DEF Spec

\* For any number of racing reviewers the versions of an action are 1, 2, 3, ...
\* in the order of the commits.
THEOREM Versioning == Spec => []VersionsFollowCommits
<1>1. ReviewInv => VersionsFollowCommits
  BY DEF ReviewInv
<1> QED
  BY <1>1, InvInit, InvNext, PTL DEF Spec

\* What a reviewer was told is recorded stays recorded and audited.
THEOREM ReviewsStand == Spec => []AnsweredReviewsStand
<1>1. ReviewInv => AnsweredReviewsStand
  BY DEF ReviewInv
<1> QED
  BY <1>1, InvInit, InvNext, PTL DEF Spec

\* Reviews are about actions of the draft under review only.
THEOREM DraftsOnly == Spec => []OnlyDraftsUnderReview
<1>1. ReviewInv => OnlyDraftsUnderReview
  BY DEF ReviewInv
<1> QED
  BY <1>1, InvInit, InvNext, PTL DEF Spec
=============================================================================
