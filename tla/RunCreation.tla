---------------------------- MODULE RunCreation ----------------------------
(***************************************************************************)
(* POST /v1/runs and its two siblings: clients that send a request under   *)
(* an idempotency key and send it again when no answer comes, and the API  *)
(* handlers that serve them concurrently.  The look-up by key is a SELECT  *)
(* in autocommit; the row and its run_created event are inserted later, in *)
(* one transaction, and the unique constraint on the key may refuse it.    *)
(* That is an IntegrityError, which no handler maps: the client sees 500.  *)
(* A handler goes on when its client has given up on it, and is lost when  *)
(* the API process dies.                                                   *)
(***************************************************************************)
EXTENDS Naturals, Sequences

CONSTANTS
  Clients,
  Requests,       \* what clients may ask for
  MaxAttempts     \* bound: how often a client sends its request

\* A malformed key (missing, or shorter than eight characters) is "short".
Keys == {q.key : q \in Requests}

ASSUME RequestAssumption ==
  Requests \subseteq [key        : STRING,
                      case       : {"pinned", "unknown"},
                      mode       : {"baseline", "agent"},
                      fixture    : BOOLEAN,
                      activation : BOOLEAN,    \* an activation code is given
                      model      : BOOLEAN]    \* a model is given
ASSUME AttemptAssumption == MaxAttempts \in Nat \ {0}

VARIABLES
  wish,           \* the request of each client
  rows,           \* the runs, in the order of their commits; a run is its position
  attempt,        \* how often each client has sent its request
  stage,          \* where the handler of each attempt is
  reply,          \* what it replied, once it has
  answer          \* what the client took for its answer

vars == <<wish, rows, attempt, stage, reply, answer>>

Handlers == Clients \X (1..MaxAttempts)

Reply(code, run) == [code |-> code, run |-> run]
NoReply == Reply("none", 0)

Init ==
  /\ wish \in [Clients -> Requests]
  /\ rows = << >>
  /\ attempt = [c \in Clients |-> 0]
  /\ stage = [h \in Handlers |-> "unsent"]
  /\ reply = [h \in Handlers |-> NoReply]
  /\ answer = [c \in Clients |-> NoReply]

(***************************************************************************)
(* The handler                                                             *)
(***************************************************************************)
\* 422 from the request model, 400 or 404 from _create_run.
Admissible(q) ==
  /\ q.key # "short"
  /\ q.mode = "agent" => q.model
  /\ IF q.fixture THEN q.case = "pinned" ELSE q.mode = "agent" /\ q.activation

\* case_id, mode and config_hash: config leaves fixture_mode out.
Compared(q) == <<q.case, q.mode, q.activation, q.model>>

RowsOf(key) == {i \in DOMAIN rows : rows[i].key = key}

Answer(h, r) ==
  /\ stage' = [stage EXCEPT ![h] = "replied"]
  /\ reply' = [reply EXCEPT ![h] = r]

\* Faulty variant: the handler does not look before it inserts.
SelectNothing(h) ==
  /\ stage[h] = "received"
  /\ IF Admissible(wish[h[1]])
     THEN stage' = [stage EXCEPT ![h] = "inserting"] /\ UNCHANGED reply
     ELSE Answer(h, Reply("invalid", 0))
  /\ UNCHANGED <<wish, rows, attempt, answer>>

\* Faulty variant: whatever is stored under the key is taken for the request's.
SelectUncompared(h) ==
  LET stored == RowsOf(wish[h[1]].key)
  IN  /\ stage[h] = "received"
      /\ Admissible(wish[h[1]])
      /\ IF stored = {}
         THEN stage' = [stage EXCEPT ![h] = "inserting"] /\ UNCHANGED reply
         ELSE \E i \in stored : Answer(h, Reply("accepted", i))
      /\ UNCHANGED <<wish, rows, attempt, answer>>

\* The checks of the request, the SELECT by key and the comparison.
Select(h) ==
  LET q == wish[h[1]]
  IN  /\ stage[h] = "received"
      /\ \/ ~Admissible(q) /\ Answer(h, Reply("invalid", 0))
         \/ /\ Admissible(q)
            /\ \E i \in RowsOf(q.key) :
                 Answer(h, IF Compared(rows[i]) = Compared(q)
                           THEN Reply("accepted", i)
                           ELSE Reply("conflict", 0))
         \/ /\ Admissible(q)
            /\ RowsOf(q.key) = {}
            /\ stage' = [stage EXCEPT ![h] = "inserting"]
            /\ UNCHANGED reply
      /\ UNCHANGED <<wish, rows, attempt, answer>>

\* Faulty variant: no unique constraint on the key.
InsertUnconstrained(h) ==
  /\ stage[h] = "inserting"
  /\ rows' = Append(rows, wish[h[1]])
  /\ Answer(h, Reply("accepted", Len(rows) + 1))
  /\ UNCHANGED <<wish, attempt, answer>>

Insert(h) ==
  /\ stage[h] = "inserting"
  /\ \/ /\ RowsOf(wish[h[1]].key) = {}
        /\ rows' = Append(rows, wish[h[1]])
        /\ Answer(h, Reply("accepted", Len(rows) + 1))
     \/ /\ RowsOf(wish[h[1]].key) # {}
        /\ Answer(h, Reply("error", 0))
        /\ UNCHANGED rows
  /\ UNCHANGED <<wish, attempt, answer>>

(***************************************************************************)
(* The client and the network                                              *)
(***************************************************************************)
\* The first time, after an error, after a lost answer, or because it took too long.
Send(c) ==
  /\ answer[c] = NoReply
  /\ attempt[c] < MaxAttempts
  /\ attempt' = [attempt EXCEPT ![c] = @ + 1]
  /\ stage' = [stage EXCEPT ![<<c, attempt[c] + 1>>] = "received"]
  /\ UNCHANGED <<wish, rows, reply, answer>>

\* Faulty variant: the client takes an error for its answer.
HearAnything(c) ==
  /\ answer[c] = NoReply
  /\ attempt[c] > 0
  /\ stage[<<c, attempt[c]>>] = "replied"
  /\ answer' = [answer EXCEPT ![c] = reply[<<c, attempt[c]>>]]
  /\ UNCHANGED <<wish, rows, attempt, stage, reply>>

\* Only the latest attempt is listened to, and an error is no answer.
Hear(c) ==
  /\ answer[c] = NoReply
  /\ attempt[c] > 0
  /\ LET h == <<c, attempt[c]>>
     IN  /\ stage[h] = "replied"
         /\ reply[h].code # "error"
         /\ answer' = [answer EXCEPT ![c] = reply[h]]
  /\ UNCHANGED <<wish, rows, attempt, stage, reply>>

\* The API process dies with the requests it was serving.
Crash ==
  /\ \E h \in Handlers : stage[h] \in {"received", "inserting"}
  /\ stage' = [h \in Handlers |->
                 IF stage[h] \in {"received", "inserting"} THEN "lost" ELSE stage[h]]
  /\ UNCHANGED <<wish, rows, attempt, reply, answer>>

LoseReply(h) ==
  /\ stage[h] = "replied"
  /\ stage' = [stage EXCEPT ![h] = "lost"]
  /\ UNCHANGED <<wish, rows, attempt, reply, answer>>

Next ==
  \/ \E h \in Handlers : Select(h) \/ Insert(h) \/ LoseReply(h)
  \/ \E c \in Clients : Send(c) \/ Hear(c)
  \/ Crash

Spec == Init /\ [][Next]_vars

(***************************************************************************)
(* Properties                                                              *)
(***************************************************************************)
Codes == {"none", "accepted", "conflict", "invalid", "error"}

\* Every variable has its type, and an answer of a run names a run.
TypeOK ==
  /\ wish \in [Clients -> Requests]
  /\ rows \in Seq(Requests)
  /\ attempt \in [Clients -> 0..MaxAttempts]
  /\ stage \in [Handlers -> {"unsent", "received", "inserting", "replied", "lost"}]
  /\ reply \in [Handlers -> [code : Codes, run : 0..Len(rows)]]
  /\ answer \in [Clients -> [code : Codes \ {"error"}, run : 0..Len(rows)]]

\* However many requests race under one key and however often they are repeated
\* after crashes and timeouts, one run exists for it (a run is a model call paid).
OneRunPerKey == \A i, j \in DOMAIN rows : rows[i].key = rows[j].key => i = j

\* Creation behaves as one write-once register per key: a client that is told
\* 202 has the run its case, mode and configuration were stored for, and one
\* that is told 409 really met another request (create_run, lines 118-123).
Registered(k) == IF RowsOf(k) = {} THEN <<"none">> ELSE Compared(rows[CHOOSE i \in RowsOf(k) : TRUE])

Register == INSTANCE RunRegister WITH
  register <- [k \in Keys |-> Registered(k)],
  code <- [c \in Clients |-> answer[c].code],
  Payload <- Compared,
  NoPayload <- <<"none">>
ImplementsRegister == Register!Spec

\* The race two requests lose with a 500 is lost once: what the client sends
\* after it has met the error finds the row and is answered for good.
ErrorsAreTransient ==
  \A c \in Clients, i, j \in 1..MaxAttempts :
    i < j => [](attempt[c] = i /\ reply[<<c, i>>].code = "error"
                  => [](reply[<<c, j>>].code # "error"))

\* All clients of a key that are told 202 are told the same run, and a client
\* is told the same by every attempt that is not an error.
AnswersAgree ==
  \A g, h \in Handlers :
    /\ reply[g].code = "accepted"
    /\ reply[h].code = "accepted"
    /\ wish[g[1]].key = wish[h[1]].key
    => reply[g].run = reply[h].run
=============================================================================
