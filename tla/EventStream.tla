---------------------------- MODULE EventStream ----------------------------
(***************************************************************************)
(* The events of one run: the repository calls that append them, and the   *)
(* endpoint that streams them.  A writer either holds the write lock when  *)
(* it reads max(sequence), because its call has updated or inserted        *)
(* another row first, or reads it in autocommit and inserts afterwards     *)
(* (record_progress); then the unique constraint decides.                  *)
(*                                                                         *)
(* A stream reads the rows after its cursor, sends them one by one and     *)
(* reads again.  When a connection breaks, what is on the wire and the     *)
(* server's cursor are lost.  There are two kinds of client: one that      *)
(* reconnects with Last-Event-ID as server-sent events prescribe, and one  *)
(* that asks once with follow=false.                                       *)
(***************************************************************************)
EXTENDS Naturals, Sequences, FiniteSetsExt, Functions

CONSTANTS
  Writers,       \* callers of record_progress, at most one call at a time each
  Reconnecting, OneShot,   \* the clients, by kind
  From,          \* From[c]: after_sequence in the URL of client c
  MaxEvents,     \* bound: events of the run
  MaxBreaks      \* bound: broken connections of a client

Clients == Reconnecting \cup OneShot

ASSUME ClientAssumption ==
  /\ Reconnecting \cap OneShot = {}
  /\ From \in [Clients -> Nat]
ASSUME BoundAssumption == MaxEvents \in Nat \ {0} /\ MaxBreaks \in Nat

VARIABLES
  rows,          \* sequence of each run_events row, in the order of the commits
  chosen,        \* the sequence a writer has chosen and not yet inserted, or 0
  conn,          \* where each client's connection is
  cursor,        \* sequence, in the server's generator
  batch,         \* rows list_events returned that are still to be sent
  wire,          \* sent and not yet received
  received,      \* what the client was given so far
  breaks

streamVars == <<conn, cursor, batch, wire, received, breaks>>
vars == <<rows, chosen, streamVars>>

MaxSequence == Max(Range(rows))

\* create_run has written the first event; nobody is connected.
Init ==
  /\ rows = <<1>>
  /\ chosen = [w \in Writers |-> 0]
  /\ conn = [c \in Clients |-> "new"]
  /\ cursor = [c \in Clients |-> 0]
  /\ batch = [c \in Clients |-> {}]
  /\ wire = [c \in Clients |-> << >>]
  /\ received = [c \in Clients |-> << >>]
  /\ breaks = [c \in Clients |-> 0]

(***************************************************************************)
(* Writers                                                                 *)
(***************************************************************************)
AppendLocked ==
  /\ Len(rows) < MaxEvents
  /\ rows' = Append(rows, MaxSequence + 1)
  /\ UNCHANGED <<chosen, streamVars>>

ChooseSequence(w) ==
  /\ chosen[w] = 0
  /\ Len(rows) < MaxEvents
  /\ chosen' = [chosen EXCEPT ![w] = MaxSequence + 1]
  /\ UNCHANGED <<rows, streamVars>>

\* Faulty variant: no unique constraint on run and sequence.
InsertUnconstrained(w) ==
  /\ chosen[w] # 0
  /\ rows' = IF Len(rows) < MaxEvents THEN Append(rows, chosen[w]) ELSE rows
  /\ chosen' = [chosen EXCEPT ![w] = 0]
  /\ UNCHANGED streamVars

\* The unique constraint refuses a number that was taken meanwhile.
Insert(w) ==
  /\ chosen[w] # 0
  /\ rows' = IF chosen[w] \in Range(rows) THEN rows ELSE Append(rows, chosen[w])
  /\ chosen' = [chosen EXCEPT ![w] = 0]
  /\ UNCHANGED streamVars

(***************************************************************************)
(* Streams                                                                 *)
(***************************************************************************)
Begin(c, after) ==
  /\ conn' = [conn EXCEPT ![c] = "open"]
  /\ cursor' = [cursor EXCEPT ![c] = after]
  /\ UNCHANGED <<rows, chosen, batch, wire, received, breaks>>

Connect(c) == conn[c] = "new" /\ Begin(c, From[c])

\* The header of a reconnecting client: absent when it has received nothing.
LastEventId(c) == IF received[c] = << >> THEN 0 ELSE received[c][Len(received[c])]

\* Faulty variant: the header is ignored.
ReconnectFromUrl(c) == conn[c] = "broken" /\ Begin(c, From[c])

\* Faulty variant: the stream goes on where the run is now.
ReconnectAtEnd(c) == conn[c] = "broken" /\ Begin(c, MaxSequence)

Reconnect(c) == conn[c] = "broken" /\ Begin(c, Max({From[c], LastEventId(c)}))

\* A generator whose batch is sent lists again, unless the client does not follow.
ListEvents(c) ==
  /\ conn[c] = "open"
  /\ batch[c] = {}
  /\ batch' = [batch EXCEPT ![c] = {n \in Range(rows) : n > cursor[c]}]
  /\ conn' = [conn EXCEPT ![c] = IF c \in OneShot THEN "last" ELSE "open"]
  /\ UNCHANGED <<rows, chosen, cursor, wire, received, breaks>>

\* ORDER BY sequence: the smallest goes first.
Yield(c) ==
  /\ conn[c] \in {"open", "last"}
  /\ batch[c] # {}
  /\ LET n == Min(batch[c])
     IN  /\ batch' = [batch EXCEPT ![c] = @ \ {n}]
         /\ cursor' = [cursor EXCEPT ![c] = n]
         /\ wire' = [wire EXCEPT ![c] = Append(@, n)]
  /\ UNCHANGED <<rows, chosen, conn, received, breaks>>

\* Faulty variant: the answer ends after the first event.
EndStreamEarly(c) ==
  /\ conn[c] = "last"
  /\ conn' = [conn EXCEPT ![c] = "ended"]
  /\ UNCHANGED <<rows, chosen, cursor, batch, wire, received, breaks>>

EndStream(c) ==
  /\ conn[c] = "last"
  /\ batch[c] = {}
  /\ conn' = [conn EXCEPT ![c] = "ended"]
  /\ UNCHANGED <<rows, chosen, cursor, batch, wire, received, breaks>>

Receive(c) ==
  /\ wire[c] # << >>
  /\ received' = [received EXCEPT ![c] = Append(@, Head(wire[c]))]
  /\ wire' = [wire EXCEPT ![c] = Tail(@)]
  /\ UNCHANGED <<rows, chosen, conn, cursor, batch, breaks>>

Broken(c, status) ==
  /\ conn[c] \in {"open", "last"} \/ wire[c] # << >>
  /\ breaks[c] < MaxBreaks
  /\ conn' = [conn EXCEPT ![c] = status]
  /\ batch' = [batch EXCEPT ![c] = {}]
  /\ wire' = [wire EXCEPT ![c] = << >>]
  /\ breaks' = [breaks EXCEPT ![c] = @ + 1]
  /\ UNCHANGED <<rows, chosen, cursor, received>>

\* Faulty variant: every client is left waiting for another connection.
BreakForAll(c) == Broken(c, "broken")

\* A fetch that fails is not repeated.
Break(c) == Broken(c, IF c \in Reconnecting THEN "broken" ELSE "closed")

-----------------------------------------------------------------------------
Serve(c) == ListEvents(c) \/ Yield(c) \/ EndStream(c)

Next ==
  \/ AppendLocked
  \/ \E w \in Writers : ChooseSequence(w) \/ Insert(w)
  \/ \E c \in Clients : Connect(c) \/ Reconnect(c) \/ Serve(c) \/ Receive(c) \/ Break(c)

Spec == Init /\ [][Next]_vars

\* The generator runs on, the network delivers, an event source reconnects.
Fairness ==
  \A c \in Clients :
    /\ WF_vars(Serve(c))
    /\ WF_vars(Receive(c))
    /\ WF_vars(Reconnect(c))

FairSpec == Spec /\ Fairness

(***************************************************************************)
(* Properties                                                              *)
(***************************************************************************)
\* Every variable has its type; only a reconnecting client waits to be
\* reconnected and only a one-shot answer ends by itself.
TypeOK ==
  /\ rows \in Seq(1..MaxEvents)
  /\ chosen \in [Writers -> 0..MaxEvents]
  /\ conn \in [Clients -> {"new", "open", "broken", "closed", "last", "ended"}]
  /\ \A c \in Clients :
       /\ conn[c] = "broken" => c \in Reconnecting
       /\ conn[c] \in {"closed", "last", "ended"} => c \in OneShot
  /\ cursor \in [Clients -> Nat]
  /\ batch \in [Clients -> SUBSET (1..MaxEvents)]
  /\ wire \in [Clients -> Seq(1..MaxEvents)]
  /\ received \in [Clients -> Seq(1..MaxEvents)]
  /\ breaks \in [Clients -> 0..MaxBreaks]

\* However the writers race, the events are numbered 1, 2, 3, ... in the order
\* in which they are committed: no reader can have passed a number that is
\* still to come (_append_event and uq_run_events_sequence).
SequenceIsCommitOrder == \A i \in DOMAIN rows : rows[i] = i

\* The stream gives every client the events after its starting point in order,
\* each once and none skipped, through any number of lost connections
\* (stream_events, Last-Event-ID).
Feed == INSTANCE EventFeed WITH count <- Len(rows)
ImplementsFeed == Feed!Spec

\* A client that follows the stream and reconnects is in the end given every
\* event of the run after its starting point, however often it is cut off.
EventsArrive ==
  \A c \in Reconnecting, n \in 1..MaxEvents :
    conn[c] # "new" /\ From[c] < n /\ n <= Len(rows) ~> n \in Range(received[c])

\* follow=false: what the run had when the request was taken up is in the
\* answer, unless the connection breaks (renderEvents shows the whole list).
SnapshotArrives ==
  \A c \in OneShot, n \in 1..MaxEvents :
    conn[c] = "open" /\ From[c] < n /\ n <= Len(rows)
      ~> n \in Range(received[c]) \/ conn[c] = "closed"
=============================================================================
