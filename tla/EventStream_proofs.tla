------------------------- MODULE EventStream_proofs -------------------------
(***************************************************************************)
(* Proofs about EventStream, for any writers, clients and bounds.          *)
(***************************************************************************)
EXTENDS EventStream, TLAPS

\* A writer's number is the next one or was taken meanwhile.
WriterInv ==
  /\ rows # << >>
  /\ \A w \in Writers : chosen[w] <= Len(rows) + 1

\* What was received, what is on the wire and what is still to be sent follow
\* on each other without a gap and within the events there are.
Last(c) == From[c] + Len(received[c])

StreamInv(c) ==
  /\ \A i \in 1..Len(received[c]) : received[c][i] = From[c] + i
  /\ \A i \in 1..Len(wire[c]) : wire[c][i] = Last(c) + i
  /\ wire[c] # << >> => Last(c) + Len(wire[c]) <= Len(rows)
  /\ conn[c] \in {"new", "broken"} => wire[c] = << >>
  /\ conn[c] = "new" => received[c] = << >>
  /\ conn[c] \notin {"open", "last"} => batch[c] = {}
  /\ conn[c] \in {"open", "last"} =>
       /\ cursor[c] = Last(c) + Len(wire[c])
       /\ \E m \in Nat : m <= Len(rows) /\ batch[c] = (cursor[c] + 1)..m

FeedInv ==
  TypeOK /\ SequenceIsCommitOrder /\ WriterInv /\ \A c \in Clients : StreamInv(c)

-----------------------------------------------------------------------------
\* What is used of sequences.
LEMMA AboutSequence ==
  ASSUME NEW S, NEW s \in Seq(S)
  PROVE  /\ Len(s) \in Nat /\ DOMAIN s = 1..Len(s) /\ \A i \in 1..Len(s) : s[i] \in S
         /\ s # << >> => Len(s) # 0
OBVIOUS

LEMMA AboutAppend ==
  ASSUME NEW S, NEW s \in Seq(S), NEW x \in S
  PROVE  /\ Append(s, x) \in Seq(S) /\ Len(Append(s, x)) = Len(s) + 1 /\ Append(s, x) # << >>
         /\ \A i \in 1..Len(s) : Append(s, x)[i] = s[i]
         /\ Append(s, x)[Len(s) + 1] = x
OBVIOUS

LEMMA AboutTail ==
  ASSUME NEW S, NEW s \in Seq(S), s # << >>
  PROVE  /\ Head(s) = s[1] /\ Head(s) \in S
         /\ Tail(s) \in Seq(S) /\ Len(Tail(s)) = Len(s) - 1
         /\ \A i \in 1..(Len(s) - 1) : Tail(s)[i] = s[i + 1]
OBVIOUS

\* max(sequence) is the number of events.
LEMMA MaxIsLength ==
  ASSUME TypeOK, SequenceIsCommitOrder, WriterInv
  PROVE  /\ Len(rows) \in 1..MaxEvents /\ DOMAIN rows = 1..Len(rows)
         /\ Range(rows) = 1..Len(rows)
         /\ MaxSequence = Len(rows)
<1> DEFINE n == Len(rows)
<1>1. /\ n \in Nat \ {0} /\ DOMAIN rows = 1..n
      /\ \A i \in 1..n : rows[i] = i /\ rows[i] \in 1..MaxEvents
  <2>1. rows \in Seq(1..MaxEvents) /\ rows # << >> /\ \A i \in DOMAIN rows : rows[i] = i
    BY DEF TypeOK, WriterInv, SequenceIsCommitOrder
  <2>2. n \in Nat /\ DOMAIN rows = 1..n /\ \A i \in 1..n : rows[i] \in 1..MaxEvents
    BY <2>1, AboutSequence
  <2>3. n # 0
    BY <2>1, AboutSequence
  <2> QED
    BY <2>1, <2>2, <2>3
<1> HIDE DEF n
<1>2. n \in 1..MaxEvents
  BY <1>1
<1>3. Range(rows) = 1..n
  BY <1>1 DEF Range
<1>4. Max(1..n) = n
  <2>1. n \in 1..n /\ \A y \in 1..n : n >= y
    BY <1>1
  <2>2. \A x \in 1..n : (\A y \in 1..n : x >= y) => x = n
    BY <1>1, <2>1
  <2> QED
    BY <2>1, <2>2 DEF Max
<1> QED
  BY <1>1, <1>2, <1>3, <1>4 DEF MaxSequence, n

\* The least of an interval is its first element.
LEMMA MinOfInterval ==
  ASSUME NEW a \in Nat, NEW b \in Nat, a..b # {}
  PROVE  Min(a..b) = a /\ a <= b
<1>1. a \in a..b /\ \A y \in a..b : a <= y
  OBVIOUS
<1>2. \A x \in a..b : (\A y \in a..b : x <= y) => x = a
  BY <1>1
<1> QED
  BY <1>1, <1>2 DEF Min

\* The next number appended keeps the numbering.
LEMMA AppendNext ==
  ASSUME TypeOK, SequenceIsCommitOrder, WriterInv, Len(rows) < MaxEvents,
         rows' = Append(rows, Len(rows) + 1)
  PROVE  /\ rows' \in Seq(1..MaxEvents) /\ Len(rows') = Len(rows) + 1
         /\ SequenceIsCommitOrder' /\ rows' # << >>
<1>1. Len(rows) \in Nat /\ DOMAIN rows = 1..Len(rows) /\ Len(rows) + 1 \in 1..MaxEvents
  BY MaxIsLength, BoundAssumption
<1>2. /\ rows' \in Seq(1..MaxEvents) /\ Len(rows') = Len(rows) + 1
      /\ DOMAIN rows' = 1..(Len(rows) + 1)
      /\ \A i \in 1..Len(rows) : rows'[i] = rows[i]
      /\ rows'[Len(rows) + 1] = Len(rows) + 1
  BY <1>1 DEF TypeOK
<1> QED
  BY <1>1, <1>2 DEF SequenceIsCommitOrder

\* Streams do not mind that there are more events.
LEMMA MoreEvents ==
  ASSUME NEW c \in Clients, StreamInv(c), UNCHANGED streamVars,
         Len(rows) \in Nat, Len(rows') \in Nat, Len(rows) <= Len(rows'),
         Last(c) + Len(wire[c]) \in Nat
  PROVE  StreamInv(c)'
BY DEF StreamInv, streamVars, Last

LEMMA WritersKeepInv ==
  ASSUME FeedInv, AppendLocked \/ \E w \in Writers : ChooseSequence(w) \/ Insert(w)
  PROVE  FeedInv'
<1> USE DEF FeedInv
<1>1. /\ Len(rows) \in 1..MaxEvents /\ DOMAIN rows = 1..Len(rows) /\ Range(rows) = 1..Len(rows)
      /\ MaxSequence = Len(rows)
  BY MaxIsLength
<1>2. UNCHANGED streamVars
  BY DEF AppendLocked, ChooseSequence, Insert
<1>3. \/ UNCHANGED rows
      \/ Len(rows) < MaxEvents /\ rows' = Append(rows, Len(rows) + 1)
  <2>1. ASSUME NEW w \in Writers, Insert(w), chosen[w] \notin Range(rows)
        PROVE  chosen[w] = Len(rows) + 1 /\ Len(rows) < MaxEvents
    BY <1>1, <2>1, BoundAssumption DEF Insert, WriterInv, TypeOK
  <2> QED
    BY <1>1, <2>1 DEF AppendLocked, ChooseSequence, Insert
<1>4. chosen' \in [Writers -> 0..MaxEvents] /\ \A w \in Writers : chosen'[w] <= Len(rows) + 1
  <2>1. CASE AppendLocked
    BY <2>1 DEF AppendLocked, TypeOK, WriterInv
  <2>2. ASSUME NEW w \in Writers, ChooseSequence(w)
        PROVE  chosen' \in [Writers -> 0..MaxEvents] /\ \A q \in Writers : chosen'[q] <= Len(rows) + 1
    BY <1>1, <2>2, BoundAssumption DEF ChooseSequence, TypeOK, WriterInv
  <2>3. ASSUME NEW w \in Writers, Insert(w)
        PROVE  chosen' \in [Writers -> 0..MaxEvents] /\ \A q \in Writers : chosen'[q] <= Len(rows) + 1
    BY <1>1, <2>3, BoundAssumption DEF Insert, TypeOK, WriterInv
  <2> QED
    BY <2>1, <2>2, <2>3
<1>5. /\ rows' \in Seq(1..MaxEvents) /\ rows' # << >> /\ SequenceIsCommitOrder'
      /\ Len(rows') \in Nat /\ Len(rows) <= Len(rows')
  <2>1. CASE UNCHANGED rows
    BY <1>1, <2>1 DEF TypeOK, SequenceIsCommitOrder, WriterInv
  <2>2. CASE Len(rows) < MaxEvents /\ rows' = Append(rows, Len(rows) + 1)
    BY <1>1, <2>2, AppendNext
  <2> QED
    BY <1>3, <2>1, <2>2
<1>6. WriterInv'
  BY <1>1, <1>4, <1>5 DEF WriterInv
<1>7. TypeOK'
  BY <1>2, <1>4, <1>5 DEF TypeOK, streamVars
<1>8. \A c \in Clients : Last(c) + Len(wire[c]) \in Nat
  BY ClientAssumption DEF Last, TypeOK
<1> QED
  BY <1>1, <1>2, <1>5, <1>6, <1>7, <1>8, MoreEvents

-----------------------------------------------------------------------------
\* A step of one connection leaves the other clients alone.
Touches(c) ==
  \A d \in Clients \ {c} :
    /\ conn'[d] = conn[d] /\ cursor'[d] = cursor[d] /\ batch'[d] = batch[d]
    /\ wire'[d] = wire[d] /\ received'[d] = received[d]

LEMMA OneStream ==
  ASSUME FeedInv, NEW c \in Clients, Touches(c), UNCHANGED <<rows, chosen>>,
         TypeOK', StreamInv(c)'
  PROVE  FeedInv'
<1>1. \A d \in Clients \ {c} : StreamInv(d)'
  BY DEF FeedInv, Touches, StreamInv, Last
<1> QED
  BY <1>1 DEF FeedInv, SequenceIsCommitOrder, WriterInv

\* The type of a client's part.
ClientType(c) ==
  /\ cursor[c] \in Nat /\ batch[c] \in SUBSET (1..MaxEvents)
  /\ wire[c] \in Seq(1..MaxEvents) /\ received[c] \in Seq(1..MaxEvents)
  /\ From[c] \in Nat /\ Last(c) \in Nat

LEMMA ClientTyped ==
  ASSUME TypeOK, NEW c \in Clients
  PROVE  ClientType(c)
BY ClientAssumption DEF TypeOK, ClientType, Last

\* What a client that reconnects asks for is what follows on what it has.
LEMMA HeaderIsLast ==
  ASSUME FeedInv, NEW c \in Clients
  PROVE  Max({From[c], LastEventId(c)}) = Last(c)
<1>1. ClientType(c) /\ StreamInv(c)
  BY ClientTyped DEF FeedInv
<1>2. CASE received[c] = << >>
  <2>1. LastEventId(c) = 0 /\ Last(c) = From[c] /\ From[c] \in Nat
    BY <1>1, <1>2 DEF LastEventId, Last, ClientType
  <2> QED
    BY <2>1 DEF Max
<1>3. CASE received[c] # << >>
  <2>1. Len(received[c]) \in Nat \ {0} /\ From[c] \in Nat
    BY <1>1, <1>3 DEF ClientType
  <2>2. LastEventId(c) = Last(c) /\ Last(c) > From[c] /\ Last(c) \in Nat
    BY <1>1, <1>3, <2>1 DEF LastEventId, Last, StreamInv
  <2> QED
    BY <2>1, <2>2 DEF Max
<1> QED
  BY <1>2, <1>3

LEMMA ConnectKeepsInv ==
  ASSUME FeedInv, NEW c \in Clients, Connect(c) \/ Reconnect(c)
  PROVE  FeedInv'
<1>1. ClientType(c) /\ StreamInv(c) /\ Len(rows) \in Nat
  BY ClientTyped, MaxIsLength DEF FeedInv
<1>2. Begin(c, Last(c)) /\ conn[c] \in {"new", "broken"}
  <2>1. CASE Connect(c)
    <3>1. conn[c] = "new" /\ Begin(c, From[c]) /\ received[c] = << >>
      BY <1>1, <2>1 DEF Connect, StreamInv
    <3> QED
      BY <1>1, <3>1 DEF Last, ClientType
  <2>2. CASE Reconnect(c)
    BY <2>2, HeaderIsLast DEF Reconnect
  <2> QED
    BY <2>1, <2>2
<1>3. TypeOK' /\ Touches(c) /\ UNCHANGED <<rows, chosen>>
  BY <1>1, <1>2 DEF Begin, FeedInv, TypeOK, Touches, ClientType
<1>4. /\ conn'[c] = "open" /\ cursor'[c] = Last(c) /\ wire'[c] = << >> /\ batch'[c] = {}
      /\ received'[c] = received[c] /\ Last(c)' = Last(c)
  BY <1>1, <1>2 DEF Begin, FeedInv, TypeOK, StreamInv, Last
<1>5. 0 \in Nat /\ {} = (Last(c) + 1)..0
  BY <1>1 DEF ClientType
<1>6. StreamInv(c)'
  BY <1>1, <1>3, <1>4, <1>5 DEF StreamInv, ClientType
<1> QED
  BY <1>3, <1>6, OneStream

LEMMA ListKeepsInv ==
  ASSUME FeedInv, NEW c \in Clients, ListEvents(c)
  PROVE  FeedInv'
<1>1. ClientType(c) /\ StreamInv(c) /\ Len(rows) \in 1..MaxEvents /\ Range(rows) = 1..Len(rows)
  BY ClientTyped, MaxIsLength DEF FeedInv
<1>2. {n \in Range(rows) : n > cursor[c]} = (cursor[c] + 1)..Len(rows)
  BY <1>1 DEF ClientType
<1>3. /\ batch' = [batch EXCEPT ![c] = (cursor[c] + 1)..Len(rows)]
      /\ (cursor[c] + 1)..Len(rows) \in SUBSET (1..MaxEvents)
  <2>1. ListEvents(c) => batch' = [batch EXCEPT ![c] = (cursor[c] + 1)..Len(rows)]
    BY <1>2 DEF ListEvents
  <2>2. (cursor[c] + 1)..Len(rows) \in SUBSET (1..MaxEvents)
    BY <1>1, BoundAssumption DEF ClientType
  <2> QED
    BY <2>1, <2>2
<1>4. TypeOK' /\ Touches(c) /\ UNCHANGED <<rows, chosen>>
  BY <1>3 DEF ListEvents, FeedInv, TypeOK, Touches
<1>5. /\ conn'[c] \in {"open", "last"} /\ cursor'[c] = cursor[c] /\ wire'[c] = wire[c]
      /\ received'[c] = received[c] /\ Last(c)' = Last(c)
      /\ batch'[c] = (cursor[c] + 1)..Len(rows)
  BY <1>3 DEF ListEvents, FeedInv, TypeOK, Last
<1>6. StreamInv(c)'
  <2>1. conn[c] = "open" /\ rows' = rows
    BY DEF ListEvents
  <2>2. cursor'[c] = Last(c)' + Len(wire'[c])
    BY <1>1, <1>5, <2>1 DEF StreamInv
  <2>3. \E m \in Nat : m <= Len(rows') /\ batch'[c] = (cursor'[c] + 1)..m
    BY <1>1, <1>5, <2>1
  <2>4. /\ \A i \in 1..Len(received'[c]) : received'[c][i] = From[c] + i
        /\ \A i \in 1..Len(wire'[c]) : wire'[c][i] = Last(c)' + i
        /\ wire'[c] # << >> => Last(c)' + Len(wire'[c]) <= Len(rows')
    BY <1>1, <1>5, <2>1 DEF StreamInv
  <2> QED
    BY <1>5, <2>2, <2>3, <2>4 DEF StreamInv
<1> QED
  BY <1>4, <1>6, OneStream

LEMMA YieldKeepsInv ==
  ASSUME FeedInv, NEW c \in Clients, Yield(c)
  PROVE  FeedInv'
<1>1. ClientType(c) /\ StreamInv(c) /\ Len(rows) \in 1..MaxEvents
  BY ClientTyped, MaxIsLength DEF FeedInv
<1> DEFINE n == cursor[c] + 1
<1>2. PICK m \in Nat : m <= Len(rows) /\ batch[c] = n..m
  BY <1>1 DEF Yield, StreamInv
<1>3. n \in Nat /\ n <= m /\ Min(batch[c]) = n /\ n \in 1..MaxEvents /\ n \in 1..Len(rows)
  BY <1>1, <1>2, MinOfInterval, BoundAssumption DEF Yield, ClientType
<1>4. /\ batch' = [batch EXCEPT ![c] = batch[c] \ {n}]
      /\ cursor' = [cursor EXCEPT ![c] = n]
      /\ wire' = [wire EXCEPT ![c] = Append(wire[c], n)]
      /\ UNCHANGED <<rows, chosen, conn, received, breaks>>
  BY <1>3 DEF Yield
<1>5. TypeOK' /\ Touches(c)
  BY <1>1, <1>3, <1>4 DEF FeedInv, TypeOK, Touches, ClientType
<1>6. /\ cursor'[c] = n /\ wire'[c] = Append(wire[c], n) /\ batch'[c] = batch[c] \ {n}
      /\ Last(c)' = Last(c) /\ received'[c] = received[c] /\ conn'[c] \in {"open", "last"}
  BY <1>4 DEF FeedInv, TypeOK, Last, Yield
<1>7. batch'[c] = (n + 1)..m
  BY <1>2, <1>3, <1>6
<1>8. n = Last(c) + Len(wire[c]) + 1 /\ Len(wire[c]) \in Nat /\ Last(c) \in Nat
  BY <1>1 DEF StreamInv, ClientType, Yield
<1>9. /\ Len(wire'[c]) = Len(wire[c]) + 1
      /\ \A i \in 1..Len(wire'[c]) : wire'[c][i] = Last(c) + i
  <2>1. /\ Len(wire'[c]) = Len(wire[c]) + 1 /\ wire'[c][Len(wire[c]) + 1] = n
        /\ \A i \in 1..Len(wire[c]) : wire'[c][i] = wire[c][i]
    BY <1>1, <1>3, <1>6, AboutAppend DEF ClientType
  <2>2. \A i \in 1..Len(wire[c]) : wire[c][i] = Last(c) + i
    BY <1>1 DEF StreamInv
  <2>3. \A i \in 1..(Len(wire[c]) + 1) : i \in 1..Len(wire[c]) \/ i = Len(wire[c]) + 1
    BY <1>8
  <2>4. wire'[c][Len(wire[c]) + 1] = Last(c) + (Len(wire[c]) + 1)
    BY <1>8, <2>1
  <2> HIDE DEF n
  <2> QED
    BY <2>1, <2>2, <2>3, <2>4
<1>10. StreamInv(c)'
  <2>1. cursor'[c] = Last(c)' + Len(wire'[c]) /\ rows' = rows
    BY <1>4, <1>6, <1>8, <1>9
  <2>2. \E k \in Nat : k <= Len(rows') /\ batch'[c] = (cursor'[c] + 1)..k
    BY <1>2, <1>6, <1>7, <2>1
  <2>3. /\ \A i \in 1..Len(received'[c]) : received'[c][i] = From[c] + i
        /\ \A i \in 1..Len(wire'[c]) : wire'[c][i] = Last(c)' + i
    BY <1>1, <1>6, <1>9 DEF StreamInv
  <2>4. Last(c)' + Len(wire'[c]) <= Len(rows')
    BY <1>3, <1>6, <2>1
  <2> QED
    BY <1>6, <2>1, <2>2, <2>3, <2>4 DEF StreamInv
<1> QED
  BY <1>4, <1>5, <1>10, OneStream

LEMMA EndKeepsInv ==
  ASSUME FeedInv, NEW c \in Clients, EndStream(c)
  PROVE  FeedInv'
<1>1. StreamInv(c) /\ ClientType(c) /\ c \in OneShot
  BY ClientTyped DEF FeedInv, EndStream, TypeOK
<1>2. TypeOK' /\ Touches(c) /\ UNCHANGED <<rows, chosen>>
  BY <1>1 DEF EndStream, FeedInv, TypeOK, Touches
<1>3. StreamInv(c)'
  BY <1>1, <1>2 DEF EndStream, StreamInv, FeedInv, TypeOK, Last
<1> QED
  BY <1>2, <1>3, OneStream

LEMMA BreakKeepsInv ==
  ASSUME FeedInv, NEW c \in Clients, Break(c)
  PROVE  FeedInv'
<1>1. StreamInv(c) /\ ClientType(c)
  BY ClientTyped DEF FeedInv
<1> DEFINE status == IF c \in Reconnecting THEN "broken" ELSE "closed"
<1>2. /\ conn[c] # "new"
      /\ conn' = [conn EXCEPT ![c] = status] /\ batch' = [batch EXCEPT ![c] = {}]
      /\ wire' = [wire EXCEPT ![c] = << >>] /\ breaks' = [breaks EXCEPT ![c] = breaks[c] + 1]
      /\ breaks[c] + 1 \in 0..MaxBreaks
      /\ UNCHANGED <<rows, chosen, cursor, received>>
  BY <1>1, BoundAssumption DEF Break, Broken, FeedInv, TypeOK, StreamInv
<1>3. status \in {"broken", "closed"} /\ (status = "broken" => c \in Reconnecting)
      /\ (status = "closed" => c \in OneShot)
  BY DEF Clients
<1> HIDE DEF status
<1>4. TypeOK' /\ Touches(c)
  BY <1>2, <1>3 DEF FeedInv, TypeOK, Touches
<1>5. /\ conn'[c] = status /\ batch'[c] = {} /\ wire'[c] = << >> /\ received'[c] = received[c]
      /\ Last(c)' = Last(c)
  BY <1>2 DEF FeedInv, TypeOK, Last
<1>6. StreamInv(c)'
  BY <1>1, <1>3, <1>5 DEF StreamInv
<1> QED
  BY <1>2, <1>4, <1>6, OneStream

LEMMA ReceiveExtends ==
  ASSUME FeedInv, NEW c \in Clients, Receive(c)
  PROVE  /\ received' = [received EXCEPT ![c] = Append(received[c], Last(c) + 1)]
         /\ wire' = [wire EXCEPT ![c] = Tail(wire[c])]
         /\ Last(c) + 1 \in 1..MaxEvents /\ Last(c) + 1 <= Len(rows) /\ Len(wire[c]) \in Nat \ {0}
<1>1. StreamInv(c) /\ ClientType(c) /\ Len(rows) \in 1..MaxEvents /\ wire[c] # << >>
  BY ClientTyped, MaxIsLength DEF FeedInv, Receive
<1>2. Len(wire[c]) \in Nat \ {0} /\ Head(wire[c]) = wire[c][1]
  BY <1>1, AboutSequence, AboutTail DEF ClientType
<1>3. Head(wire[c]) = Last(c) + 1
  BY <1>1, <1>2 DEF StreamInv
<1>4. Last(c) + 1 <= Len(rows) /\ Last(c) + 1 \in 1..MaxEvents
  BY <1>1, <1>2, BoundAssumption DEF StreamInv, ClientType
<1> QED
  BY <1>2, <1>3, <1>4 DEF Receive

LEMMA ReceiveKeepsInv ==
  ASSUME FeedInv, NEW c \in Clients, Receive(c)
  PROVE  FeedInv'
<1> DEFINE x == Last(c) + 1
<1>1. StreamInv(c) /\ ClientType(c) /\ Len(rows) \in 1..MaxEvents /\ wire[c] # << >>
  BY ClientTyped, MaxIsLength DEF FeedInv, Receive
<1>2. /\ received' = [received EXCEPT ![c] = Append(received[c], x)]
      /\ wire' = [wire EXCEPT ![c] = Tail(wire[c])]
      /\ x \in 1..MaxEvents /\ x <= Len(rows) /\ Len(wire[c]) \in Nat \ {0}
      /\ UNCHANGED <<rows, chosen, conn, cursor, batch, breaks>>
  BY ReceiveExtends DEF Receive
<1>3. /\ Append(received[c], x) \in Seq(1..MaxEvents) /\ Len(Append(received[c], x)) = Len(received[c]) + 1
      /\ \A i \in 1..Len(received[c]) : Append(received[c], x)[i] = received[c][i]
      /\ Append(received[c], x)[Len(received[c]) + 1] = x /\ Len(received[c]) \in Nat
  BY <1>1, <1>2, AboutAppend, AboutSequence DEF ClientType
<1>4. /\ Tail(wire[c]) \in Seq(1..MaxEvents) /\ Len(Tail(wire[c])) = Len(wire[c]) - 1
      /\ \A i \in 1..(Len(wire[c]) - 1) : Tail(wire[c])[i] = wire[c][i + 1]
  BY <1>1, AboutTail DEF ClientType
<1> HIDE DEF x
<1>5. TypeOK' /\ Touches(c)
  BY <1>2, <1>3, <1>4 DEF FeedInv, TypeOK, Touches
<1>6. /\ received'[c] = Append(received[c], x) /\ wire'[c] = Tail(wire[c])
      /\ conn'[c] = conn[c] /\ cursor'[c] = cursor[c] /\ batch'[c] = batch[c] /\ rows' = rows
  BY <1>2 DEF FeedInv, TypeOK
<1>7. x = Last(c) + 1 /\ Last(c) \in Nat /\ From[c] \in Nat /\ Last(c) = From[c] + Len(received[c])
  BY <1>1 DEF x, ClientType, Last
<1>8. Last(c)' = Last(c) + 1
  BY <1>3, <1>6, <1>7 DEF Last
<1>9. StreamInv(c)'
  <2>1. \A i \in 1..Len(received'[c]) : received'[c][i] = From[c] + i
    <3>1. \A i \in 1..(Len(received[c]) + 1) : i \in 1..Len(received[c]) \/ i = Len(received[c]) + 1
      BY <1>3
    <3>2. \A i \in 1..Len(received[c]) : received[c][i] = From[c] + i
      BY <1>1 DEF StreamInv
    <3>3. x = From[c] + (Len(received[c]) + 1)
      BY <1>3, <1>7
    <3> QED
      BY <1>3, <1>6, <3>1, <3>2, <3>3
  <2>2. \A i \in 1..Len(wire'[c]) : wire'[c][i] = Last(c)' + i
    <3> SUFFICES ASSUME NEW i \in 1..(Len(wire[c]) - 1) PROVE Tail(wire[c])[i] = Last(c) + 1 + i
      BY <1>4, <1>6, <1>8
    <3>1. wire[c][i + 1] = Last(c) + (i + 1)
      BY <1>1, <1>2 DEF StreamInv
    <3> QED
      BY <1>4, <1>7, <3>1
  <2>3. Last(c)' + Len(wire'[c]) = Last(c) + Len(wire[c])
    <3>1. Len(wire'[c]) = Len(wire[c]) - 1
      BY <1>4, <1>6
    <3>2. Len(wire[c]) \in Nat /\ Last(c) \in Nat
      BY <1>2, <1>7
    <3>3. \A a, b \in Nat : (a + 1) + (b - 1) = a + b
      OBVIOUS
    <3>4. (Last(c) + 1) + (Len(wire[c]) - 1) = Last(c) + Len(wire[c])
      BY <3>2, <3>3
    <3> QED
      BY <1>8, <3>1, <3>4
  <2>4. conn[c] \notin {"new", "broken"}
    BY <1>1 DEF StreamInv
  <2> QED
    BY <1>1, <1>6, <2>1, <2>2, <2>3, <2>4 DEF StreamInv
<1> QED
  BY <1>2, <1>5, <1>9, OneStream

LEMMA InvInit == Init => FeedInv
<1> SUFFICES ASSUME Init PROVE FeedInv
  OBVIOUS
<1>1. rows \in Seq(1..MaxEvents) /\ Len(rows) = 1 /\ DOMAIN rows = 1..1 /\ rows[1] = 1 /\ rows # << >>
  BY BoundAssumption DEF Init
<1>2. TypeOK
  BY <1>1, BoundAssumption DEF Init, TypeOK
<1>3. SequenceIsCommitOrder /\ WriterInv
  BY <1>1 DEF Init, SequenceIsCommitOrder, WriterInv
<1>4. \A c \in Clients : StreamInv(c)
  BY DEF Init, StreamInv
<1> QED
  BY <1>2, <1>3, <1>4 DEF FeedInv

LEMMA InvNext == FeedInv /\ [Next]_vars => FeedInv'
<1> SUFFICES ASSUME FeedInv, [Next]_vars PROVE FeedInv'
  OBVIOUS
<1>1. CASE UNCHANGED vars
  BY <1>1 DEF vars, streamVars, FeedInv, TypeOK, SequenceIsCommitOrder, WriterInv, StreamInv, Last
<1>2. CASE Next
  BY <1>2, WritersKeepInv, ConnectKeepsInv, ListKeepsInv, YieldKeepsInv, EndKeepsInv,
     ReceiveKeepsInv, BreakKeepsInv DEF Next, Serve
<1> QED
  BY <1>1, <1>2

-----------------------------------------------------------------------------
\* Every variable keeps its type.
THEOREM TypeCorrect == Spec => []TypeOK
<1>1. FeedInv => TypeOK
  BY DEF FeedInv
<1> QED
  BY <1>1, InvInit, InvNext, PTL DEF Spec

\* Events are numbered in the order of their commits, whoever writes them.
THEOREM CommitOrder == Spec => []SequenceIsCommitOrder
<1>1. FeedInv => SequenceIsCommitOrder
  BY DEF FeedInv
<1> QED
  BY <1>1, InvInit, InvNext, PTL DEF Spec

\* A delivery extends the feed by the next event; nothing else touches it but
\* a new event.
LEMMA StepIsFeed == FeedInv /\ [Next]_vars => [Feed!Next]_(Feed!vars)
<1> SUFFICES ASSUME FeedInv, [Next]_vars PROVE [Feed!Next]_(Feed!vars)
  OBVIOUS
<1>1. CASE UNCHANGED received /\ UNCHANGED rows
  BY <1>1 DEF Feed!vars
<1>2. ASSUME AppendLocked \/ \E w \in Writers : ChooseSequence(w) \/ Insert(w)
      PROVE  [Feed!Next]_(Feed!vars)
  <2>1. UNCHANGED received /\ (UNCHANGED rows \/ \E n \in 1..MaxEvents : rows' = Append(rows, n))
    <3>1. Len(rows) \in 1..MaxEvents /\ MaxSequence = Len(rows)
      BY MaxIsLength DEF FeedInv
    <3> QED
      BY <1>2, <3>1, BoundAssumption DEF AppendLocked, ChooseSequence, Insert, streamVars, FeedInv, TypeOK
  <2>2. UNCHANGED rows \/ Len(rows') = Len(rows) + 1
    BY <2>1, AboutAppend DEF FeedInv, TypeOK
  <2> QED
    BY <2>1, <2>2 DEF Feed!vars, Feed!Next, Feed!Happen
<1>3. ASSUME NEW c \in Clients, Receive(c) PROVE [Feed!Next]_(Feed!vars)
  <2>1. Feed!Deliver(c)
    BY <1>3, ReceiveExtends DEF Feed!Deliver, Receive, Last
  <2> QED
    BY <2>1 DEF Feed!Next
<1> QED
  BY <1>1, <1>2, <1>3 DEF Next, Serve, vars, streamVars, Connect, Reconnect, Begin, ListEvents,
     Yield, EndStream, Break, Broken

\* However often connections break, each client is fed the events after its
\* starting point in order, none left out and none repeated.
THEOREM StreamIsFeed == Spec => ImplementsFeed
<1>1. Init => Feed!Init
  BY DEF Init, Feed!Init
<1> QED
  BY <1>1, StepIsFeed, InvInit, InvNext, PTL DEF Spec, ImplementsFeed, Feed!Spec
=============================================================================
