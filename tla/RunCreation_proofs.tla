------------------------- MODULE RunCreation_proofs -------------------------
(***************************************************************************)
(* Proofs about RunCreation, for any clients, requests and number of       *)
(* attempts.                                                               *)
(***************************************************************************)
EXTENDS RunCreation, TLAPS

\* What a reply said still holds: rows are never changed or removed.
ReplyRight(h) ==
  LET q == wish[h[1]]
  IN  /\ stage[h] = "inserting" => Admissible(q)
      /\ stage[h] = "replied" => reply[h].code # "none"
      /\ reply[h].code = "invalid" => ~Admissible(q)
      /\ reply[h].code = "error" => RowsOf(q.key) # {}
      /\ reply[h].code = "accepted" =>
           reply[h].run \in RowsOf(q.key) /\ Compared(rows[reply[h].run]) = Compared(q)
      /\ reply[h].code = "conflict" =>
           \E i \in RowsOf(q.key) : Compared(rows[i]) # Compared(q)

ReplyInv == \A h \in Handlers : ReplyRight(h)

\* What was not sent yet was not served either.
UnsentInv ==
  \A h \in Handlers : h[2] > attempt[h[1]] => stage[h] = "unsent" /\ reply[h] = NoReply

CreationInv == TypeOK /\ OneRunPerKey /\ ReplyInv /\ UnsentInv

-----------------------------------------------------------------------------
\* A handler is an attempt of a client.
LEMMA HandlerIsPair ==
  ASSUME NEW h \in Handlers
  PROVE  h[1] \in Clients /\ h[2] \in 1..MaxAttempts /\ h = <<h[1], h[2]>>
BY DEF Handlers

LEMMA AttemptIsHandler ==
  ASSUME NEW c \in Clients, NEW i \in 1..MaxAttempts
  PROVE  <<c, i>> \in Handlers /\ <<c, i>>[1] = c /\ <<c, i>>[2] = i
BY DEF Handlers

\* A row that is added is the only one of its key, and changes no other key.
LEMMA AppendRow ==
  ASSUME TypeOK, OneRunPerKey, NEW q \in Requests, RowsOf(q.key) = {}, rows' = Append(rows, q)
  PROVE  /\ rows' \in Seq(Requests) /\ Len(rows') = Len(rows) + 1 /\ Len(rows) \in Nat
         /\ \A i \in DOMAIN rows : i \in DOMAIN rows' /\ rows'[i] = rows[i]
         /\ rows'[Len(rows) + 1] = q
         /\ RowsOf(q.key)' = {Len(rows) + 1}
         /\ \A k : k # q.key => RowsOf(k)' = RowsOf(k)
         /\ OneRunPerKey'
<1> DEFINE n == Len(rows)
<1>1. /\ n \in Nat /\ DOMAIN rows = 1..n
      /\ rows' \in Seq(Requests) /\ Len(rows') = n + 1 /\ DOMAIN rows' = 1..(n + 1)
      /\ \A i \in 1..n : rows'[i] = rows[i]
      /\ rows'[n + 1] = q
  BY DEF TypeOK
<1> HIDE DEF n
<1>2. \A i \in 1..n : rows[i].key # q.key
  BY <1>1 DEF RowsOf
<1>3. RowsOf(q.key)' = {n + 1}
  BY <1>1, <1>2 DEF RowsOf
<1>4. \A k : k # q.key => RowsOf(k)' = RowsOf(k)
  BY <1>1 DEF RowsOf
<1>5. OneRunPerKey'
  BY <1>1, <1>2 DEF OneRunPerKey
<1> QED
  BY <1>1, <1>3, <1>4, <1>5 DEF n

\* As long as the rows are kept or added to, an older reply stays right.
LEMMA ReplyStays ==
  ASSUME CreationInv, NEW h \in Handlers, wish' = wish, reply'[h] = reply[h],
         stage'[h] = "inserting" => stage[h] = "inserting",
         stage'[h] = "replied" => stage[h] = "replied",
         \A i \in DOMAIN rows : i \in DOMAIN rows' /\ rows'[i] = rows[i]
  PROVE  ReplyRight(h)'
<1> DEFINE q == wish[h[1]]
<1>1. q' = q
  OBVIOUS
<1>2. \A k : \A i \in RowsOf(k) : i \in RowsOf(k)' /\ rows'[i] = rows[i]
  BY DEF RowsOf
<1>3. (Admissible(q)' <=> Admissible(q)) /\ Compared(q)' = Compared(q)
  BY <1>1 DEF Admissible, Compared
<1> QED
  BY <1>1, <1>2, <1>3 DEF CreationInv, ReplyInv, ReplyRight, Compared

\* Only h changes; rows are kept.
LEMMA AnswerKeepsInv ==
  ASSUME CreationInv, NEW h \in Handlers, NEW r \in [code : Codes, run : 0..Len(rows)],
         stage[h] = "received" \/ stage[h] = "inserting",
         Answer(h, r), UNCHANGED <<wish, rows, attempt, answer>>,
         ReplyRight(h)'
  PROVE  CreationInv'
<1> USE DEF CreationInv, Answer
<1>1. TypeOK'
  BY DEF TypeOK
<1>2. OneRunPerKey'
  BY DEF OneRunPerKey
<1>3. ReplyInv'
  <2> SUFFICES ASSUME NEW g \in Handlers, g # h PROVE ReplyRight(g)'
    BY DEF ReplyInv
  <2>1. reply'[g] = reply[g] /\ stage'[g] = stage[g]
    BY DEF TypeOK
  <2> QED
    BY <2>1, ReplyStays
<1>4. UnsentInv'
  BY DEF UnsentInv, TypeOK
<1> QED
  BY <1>1, <1>2, <1>3, <1>4

LEMMA InvInit == Init => CreationInv
<1> SUFFICES ASSUME Init PROVE CreationInv
  OBVIOUS
<1>1. rows = << >> /\ Len(rows) = 0 /\ DOMAIN rows = {}
  BY DEF Init
<1>2. TypeOK
  BY <1>1, AttemptAssumption DEF Init, TypeOK, NoReply, Reply, Codes
<1> QED
  BY <1>1, <1>2 DEF Init, CreationInv, OneRunPerKey, ReplyInv, ReplyRight, UnsentInv, NoReply, Reply

LEMMA SelectKeepsInv ==
  ASSUME CreationInv, NEW h \in Handlers, Select(h)
  PROVE  CreationInv'
<1> DEFINE q == wish[h[1]]
<1>1. /\ stage[h] = "received" /\ UNCHANGED <<wish, rows, attempt, answer>>
      /\ h[1] \in Clients /\ q \in Requests
  BY HandlerIsPair DEF Select, CreationInv, TypeOK
<1>2. CASE ~Admissible(q) /\ Answer(h, Reply("invalid", 0))
  <2>1. Reply("invalid", 0) \in [code : Codes, run : 0..Len(rows)]
    BY DEF Reply, Codes, CreationInv, TypeOK
  <2>2. ReplyRight(h)'
    BY <1>1, <1>2 DEF ReplyRight, Answer, Reply, Admissible, CreationInv, TypeOK
  <2> QED
    BY <1>1, <1>2, <2>1, <2>2, AnswerKeepsInv
<1>3. CASE /\ Admissible(q)
           /\ \E i \in RowsOf(q.key) :
                Answer(h, IF Compared(rows[i]) = Compared(q)
                          THEN Reply("accepted", i) ELSE Reply("conflict", 0))
  <2>1. PICK i \in RowsOf(q.key) :
          Answer(h, IF Compared(rows[i]) = Compared(q)
                    THEN Reply("accepted", i) ELSE Reply("conflict", 0))
    BY <1>3
  <2>2. i \in 1..Len(rows) /\ Len(rows) \in Nat
    BY DEF RowsOf, CreationInv, TypeOK
  <2>3. CASE Compared(rows[i]) = Compared(q)
    <3>1. Reply("accepted", i) \in [code : Codes, run : 0..Len(rows)] /\ Answer(h, Reply("accepted", i))
      BY <2>1, <2>2, <2>3 DEF Reply, Codes
    <3>2. ReplyRight(h)'
      BY <1>1, <2>3, <3>1 DEF ReplyRight, Answer, Reply, CreationInv, TypeOK, RowsOf, Compared
    <3> QED
      BY <1>1, <3>1, <3>2, AnswerKeepsInv
  <2>4. CASE Compared(rows[i]) # Compared(q)
    <3>1. Reply("conflict", 0) \in [code : Codes, run : 0..Len(rows)] /\ Answer(h, Reply("conflict", 0))
      BY <2>1, <2>2, <2>4 DEF Reply, Codes
    <3>2. ReplyRight(h)'
      BY <1>1, <2>4, <3>1 DEF ReplyRight, Answer, Reply, CreationInv, TypeOK, RowsOf, Compared
    <3> QED
      BY <1>1, <3>1, <3>2, AnswerKeepsInv
  <2> QED
    BY <2>3, <2>4
<1>4. CASE /\ Admissible(q) /\ RowsOf(q.key) = {}
           /\ stage' = [stage EXCEPT ![h] = "inserting"] /\ UNCHANGED reply
  <2>1. TypeOK' /\ OneRunPerKey' /\ UnsentInv'
    BY <1>1, <1>4 DEF CreationInv, TypeOK, OneRunPerKey, UnsentInv
  <2>2. ReplyInv'
    <3> SUFFICES ASSUME NEW g \in Handlers PROVE ReplyRight(g)'
      BY DEF ReplyInv
    <3>1. CASE g # h
      BY <1>1, <1>4, <3>1, ReplyStays DEF CreationInv, TypeOK
    <3>2. CASE g = h
      BY <1>1, <1>4, <3>2 DEF CreationInv, TypeOK, ReplyInv, ReplyRight, Admissible, Compared, RowsOf
    <3> QED
      BY <3>1, <3>2
  <2> QED
    BY <2>1, <2>2 DEF CreationInv
<1> QED
  BY <1>2, <1>3, <1>4 DEF Select

LEMMA InsertKeepsInv ==
  ASSUME CreationInv, NEW h \in Handlers, Insert(h)
  PROVE  CreationInv'
<1> DEFINE q == wish[h[1]]
<1>1. /\ stage[h] = "inserting" /\ UNCHANGED <<wish, attempt, answer>>
      /\ h[1] \in Clients /\ q \in Requests
  BY HandlerIsPair DEF Insert, CreationInv, TypeOK
<1>2. CASE RowsOf(q.key) # {} /\ Answer(h, Reply("error", 0)) /\ UNCHANGED rows
  <2>1. Reply("error", 0) \in [code : Codes, run : 0..Len(rows)]
    BY DEF Reply, Codes, CreationInv, TypeOK
  <2>2. ReplyRight(h)'
    BY <1>1, <1>2 DEF ReplyRight, Answer, Reply, CreationInv, TypeOK, RowsOf
  <2> QED
    BY <1>1, <1>2, <2>1, <2>2, AnswerKeepsInv
<1>3. CASE /\ RowsOf(q.key) = {} /\ rows' = Append(rows, q)
           /\ Answer(h, Reply("accepted", Len(rows) + 1))
  <2>1. PICK w \in Requests : w = q
    BY <1>1
  <2>2. /\ rows' \in Seq(Requests) /\ Len(rows') = Len(rows) + 1 /\ Len(rows) \in Nat
        /\ \A i \in DOMAIN rows : i \in DOMAIN rows' /\ rows'[i] = rows[i]
        /\ rows'[Len(rows) + 1] = w
        /\ RowsOf(w.key)' = {Len(rows) + 1}
        /\ OneRunPerKey'
    BY <1>3, <2>1, AppendRow DEF CreationInv
  <2>3. /\ reply' = [reply EXCEPT ![h] = [code |-> "accepted", run |-> Len(rows) + 1]]
        /\ stage' = [stage EXCEPT ![h] = "replied"]
    BY <1>3 DEF Answer, Reply
  <2>4. TypeOK'
    <3>1. reply' \in [Handlers -> [code : Codes, run : 0..Len(rows')]]
      BY <2>2, <2>3 DEF CreationInv, TypeOK, Codes
    <3>2. answer' \in [Clients -> [code : Codes \ {"error"}, run : 0..Len(rows')]]
      BY <1>1, <2>2 DEF CreationInv, TypeOK
    <3> QED
      BY <1>1, <2>2, <2>3, <3>1, <3>2 DEF CreationInv, TypeOK
  <2>5. ReplyInv'
    <3> SUFFICES ASSUME NEW g \in Handlers PROVE ReplyRight(g)'
      BY DEF ReplyInv
    <3>1. CASE g # h
      <4>1. reply'[g] = reply[g] /\ stage'[g] = stage[g]
        BY <2>3, <3>1 DEF CreationInv, TypeOK
      <4> QED
        BY <1>1, <2>2, <4>1, ReplyStays
    <3>2. CASE g = h
      <4>1. /\ wish'[g[1]] = w /\ reply'[g] = [code |-> "accepted", run |-> Len(rows) + 1]
            /\ stage'[g] = "replied"
        BY <1>1, <2>1, <2>3, <3>2 DEF CreationInv, TypeOK
      <4>2. Len(rows) + 1 \in RowsOf(w.key)' /\ Compared(rows'[Len(rows) + 1]) = Compared(w)
        BY <2>2
      <4> QED
        BY <4>1, <4>2 DEF ReplyRight
    <3> QED
      BY <3>1, <3>2
  <2>6. UnsentInv'
    BY <1>1, <2>3 DEF CreationInv, UnsentInv, TypeOK
  <2> QED
    BY <2>2, <2>4, <2>5, <2>6 DEF CreationInv
<1> QED
  BY <1>1, <1>2, <1>3 DEF Insert

\* The client, the network and a dying API process change no run.
LEMMA OutsideKeepsInv ==
  ASSUME CreationInv,
         \/ \E c \in Clients : Send(c) \/ Hear(c)
         \/ \E h \in Handlers : LoseReply(h)
         \/ Crash
  PROVE  CreationInv'
<1> USE DEF CreationInv
<1>1. UNCHANGED <<wish, rows, reply>>
  BY DEF Send, Hear, LoseReply, Crash
<1>2. \A h \in Handlers : /\ stage'[h] = "inserting" => stage[h] = "inserting"
                          /\ stage'[h] = "replied" => stage[h] = "replied"
  BY DEF Send, Hear, LoseReply, Crash, TypeOK
<1>3. ReplyInv'
  BY <1>1, <1>2, ReplyStays DEF ReplyInv
<1>4. OneRunPerKey'
  BY <1>1 DEF OneRunPerKey
<1>5. ASSUME NEW c \in Clients, Send(c) PROVE TypeOK' /\ UnsentInv'
  <2>1. attempt[c] \in 0..MaxAttempts /\ attempt[c] + 1 \in 1..MaxAttempts
    BY <1>5, AttemptAssumption DEF Send, TypeOK
  <2>2. TypeOK'
    <3>1. attempt' \in [Clients -> 0..MaxAttempts]
      BY <1>5, <2>1, AttemptAssumption DEF Send, TypeOK
    <3>2. stage' \in [Handlers -> {"unsent", "received", "inserting", "replied", "lost"}]
      BY <1>5 DEF Send, TypeOK
    <3> QED
      BY <1>5, <3>1, <3>2 DEF Send, TypeOK
  <2>3. UnsentInv'
    <3> SUFFICES ASSUME NEW h \in Handlers, h[2] > attempt'[h[1]]
                 PROVE  stage'[h] = "unsent" /\ reply'[h] = NoReply
      BY DEF UnsentInv, NoReply
    <3>1. h[1] \in Clients /\ h[2] \in 1..MaxAttempts /\ h = <<h[1], h[2]>>
      BY HandlerIsPair
    <3>2. h[2] > attempt[h[1]] /\ h # <<c, attempt[c] + 1>>
      <4>1. attempt' = [attempt EXCEPT ![c] = attempt[c] + 1] /\ attempt \in [Clients -> 0..MaxAttempts]
        BY <1>5 DEF Send, TypeOK
      <4>2. CASE h[1] = c
        <5>1. attempt'[c] = attempt[c] + 1 /\ h[2] > attempt[c] + 1
          BY <4>1, <4>2
        <5> QED
          BY <2>1, <3>1, <4>2, <5>1
      <4>3. CASE h[1] # c
        BY <3>1, <4>1, <4>3
      <4> QED
        BY <4>2, <4>3
    <3> QED
      BY <1>1, <1>5, <3>2 DEF Send, UnsentInv, TypeOK
  <2> QED
    BY <2>2, <2>3
<1>6. ASSUME NEW c \in Clients, Hear(c) PROVE TypeOK' /\ UnsentInv'
  <2>1. attempt[c] \in 1..MaxAttempts
    BY <1>6, AttemptAssumption DEF Hear, TypeOK
  <2>2. reply[<<c, attempt[c]>>] \in [code : Codes \ {"error"}, run : 0..Len(rows)]
    BY <1>6, <2>1, AttemptIsHandler DEF Hear, TypeOK
  <2> QED
    BY <1>6, <2>2 DEF Hear, TypeOK, UnsentInv
<1>7. ASSUME NEW h \in Handlers, LoseReply(h) PROVE TypeOK' /\ UnsentInv'
  BY <1>7 DEF LoseReply, TypeOK, UnsentInv
<1>8. CASE Crash
  <2>1. stage' \in [Handlers -> {"unsent", "received", "inserting", "replied", "lost"}]
    BY <1>8 DEF Crash, TypeOK
  <2>2. TypeOK'
    BY <1>8, <2>1 DEF Crash, TypeOK
  <2>3. \A h \in Handlers : stage[h] = "unsent" => stage'[h] = "unsent"
    BY <1>8 DEF Crash
  <2>4. UnsentInv'
    BY <1>1, <1>8, <2>3 DEF Crash, UnsentInv, NoReply
  <2> QED
    BY <1>3, <1>4, <2>2, <2>4
<1> QED
  BY <1>3, <1>4, <1>5, <1>6, <1>7, <1>8

LEMMA InvNext == CreationInv /\ [Next]_vars => CreationInv'
<1> SUFFICES ASSUME CreationInv, [Next]_vars PROVE CreationInv'
  OBVIOUS
<1>1. CASE UNCHANGED vars
  BY <1>1 DEF vars, CreationInv, TypeOK, OneRunPerKey, ReplyInv, ReplyRight, UnsentInv,
              Admissible, Compared, RowsOf
<1>2. CASE Next
  BY <1>2, SelectKeepsInv, InsertKeepsInv, OutsideKeepsInv DEF Next
<1> QED
  BY <1>1, <1>2

-----------------------------------------------------------------------------
\* Every variable keeps its type.
THEOREM TypeCorrect == Spec => []TypeOK
<1>1. CreationInv => TypeOK
  BY DEF CreationInv
<1> QED
  BY <1>1, InvInit, InvNext, PTL DEF Spec

\* However many clients race and repeat themselves, a key has one run at most.
THEOREM KeysAreUnique == Spec => []OneRunPerKey
<1>1. CreationInv => OneRunPerKey
  BY DEF CreationInv
<1> QED
  BY <1>1, InvInit, InvNext, PTL DEF Spec

\* Whoever is accepted under a key is accepted for the same run.
THEOREM AcceptedForOneRun == Spec => []AnswersAgree
<1>1. CreationInv => AnswersAgree
  BY DEF CreationInv, AnswersAgree, ReplyInv, ReplyRight, OneRunPerKey, RowsOf
<1> QED
  BY <1>1, InvInit, InvNext, PTL DEF Spec

-----------------------------------------------------------------------------
\* What a key stands for depends on its rows only.
LEMMA RegisteredStays ==
  ASSUME NEW k, RowsOf(k)' = RowsOf(k), \A i \in RowsOf(k) : rows'[i] = rows[i]
  PROVE  Registered(k)' = Registered(k)
BY DEF Registered, Compared

\* With one run to a key, a key stands for what that run was asked for as.
LEMMA RegisteredIsRow ==
  ASSUME OneRunPerKey, NEW k, NEW i \in RowsOf(k)
  PROVE  Registered(k) = Compared(rows[i])
<1>1. \A j \in RowsOf(k) : j = i
  BY DEF OneRunPerKey, RowsOf
<1> QED
  BY <1>1 DEF Registered

\* An insert registers the request under a key that stood for nothing.
LEMMA InsertRegisters ==
  ASSUME CreationInv, NEW h \in Handlers, Insert(h)
  PROVE  [Register!Next]_(Register!vars)
<1> USE DEF CreationInv
<1>1. /\ UNCHANGED <<wish, attempt, answer>> /\ h[1] \in Clients
      /\ Admissible(wish[h[1]])
  BY HandlerIsPair DEF Insert, ReplyInv, ReplyRight
<1>2. PICK w \in Requests : w = wish[h[1]]
  BY <1>1 DEF TypeOK
<1>3. w.key \in Keys
  BY DEF Keys
<1>4. CASE RowsOf(w.key) # {} /\ UNCHANGED rows
  <2>1. \A k : Registered(k)' = Registered(k)
    BY <1>4 DEF Registered, RowsOf, Compared
  <2> QED
    BY <1>1, <2>1 DEF Register!vars
<1>5. CASE RowsOf(w.key) = {} /\ rows' = Append(rows, w)
  <2>1. /\ Len(rows) \in Nat /\ rows'[Len(rows) + 1] = w
        /\ RowsOf(w.key)' = {Len(rows) + 1}
        /\ \A k : k # w.key => RowsOf(k)' = RowsOf(k)
        /\ \A i \in DOMAIN rows : rows'[i] = rows[i]
    BY <1>5, AppendRow
  <2>2. Registered(w.key) = <<"none">> /\ Registered(w.key)' = Compared(w)
    BY <1>5, <2>1 DEF Registered, Compared
  <2>3. \A k : k # w.key => Registered(k)' = Registered(k)
    BY <2>1, RegisteredStays DEF RowsOf
  <2>4. [k \in Keys |-> Registered(k)]'
          = [[k \in Keys |-> Registered(k)] EXCEPT ![w.key] = Compared(w)]
    BY <2>2, <2>3
  <2>5. Register!Register(h[1])
    BY <1>1, <1>2, <1>3, <2>2, <2>4 DEF Register!Register
  <2> QED
    BY <1>1, <2>5 DEF Register!Next
<1> QED
  BY <1>2, <1>4, <1>5 DEF Insert

\* A client that takes a reply for its answer is told the truth.
LEMMA HearTells ==
  ASSUME CreationInv, NEW c \in Clients, Hear(c)
  PROVE  Register!Tell(c)
<1> USE DEF CreationInv
<1>1. PICK h \in Handlers :
        /\ h[1] = c /\ stage[h] = "replied" /\ reply[h].code # "error"
        /\ answer' = [answer EXCEPT ![c] = reply[h]]
  <2>1. attempt[c] \in 1..MaxAttempts
    BY AttemptAssumption DEF Hear, TypeOK
  <2> QED
    BY <2>1, AttemptIsHandler DEF Hear
<1>2. answer[c].code = "none" /\ UNCHANGED <<wish, rows>>
  BY DEF Hear, NoReply, Reply
<1>3. PICK w \in Requests : w = wish[c]
  BY DEF TypeOK
<1>4. w.key \in Keys
  BY DEF Keys
<1>5. reply[h].code \in {"invalid", "accepted", "conflict"} /\ ReplyRight(h)
  BY <1>1 DEF ReplyInv, ReplyRight, TypeOK, Codes
<1>6. [k \in Keys |-> Registered(k)]' = [k \in Keys |-> Registered(k)]
  BY <1>2 DEF Registered, RowsOf, Compared
<1>7. [d \in Clients |-> answer[d].code]'
        = [[d \in Clients |-> answer[d].code] EXCEPT ![c] = reply[h].code]
  BY <1>1 DEF TypeOK
<1>8. Register!Right(c, reply[h].code)
  <2>1. CASE reply[h].code = "invalid"
    BY <1>1, <1>5, <2>1 DEF Register!Right, ReplyRight
  <2>2. CASE reply[h].code = "accepted"
    BY <1>1, <1>3, <1>4, <1>5, <2>2, RegisteredIsRow DEF Register!Right, ReplyRight
  <2>3. CASE reply[h].code = "conflict"
    <3>1. PICK i \in RowsOf(w.key) : Compared(rows[i]) # Compared(w)
      BY <1>1, <1>3, <1>5, <2>3 DEF ReplyRight
    <3>2. Registered(w.key) = Compared(rows[i])
      BY RegisteredIsRow
    <3>3. Compared(rows[i]) # <<"none">>
      BY DEF Compared
    <3> QED
      BY <1>3, <1>4, <2>3, <3>1, <3>2, <3>3 DEF Register!Right
  <2> QED
    BY <1>5, <2>1, <2>2, <2>3
<1> QED
  BY <1>2, <1>5, <1>6, <1>7, <1>8 DEF Register!Tell

\* Run creation is a write-once register per idempotency key: every step is
\* a step of the register or leaves it alone.
THEOREM CreationIsRegister == Spec => ImplementsRegister
<1>1. Init => Register!Init
  BY DEF Init, Register!Init, Registered, RowsOf, NoReply, Reply
<1>2. CreationInv /\ [Next]_vars => [Register!Next]_(Register!vars)
  <2> SUFFICES ASSUME CreationInv, [Next]_vars PROVE [Register!Next]_(Register!vars)
    OBVIOUS
  <2>1. CASE UNCHANGED <<wish, rows, answer>>
    BY <2>1 DEF Register!vars, Registered, RowsOf, Compared
  <2>2. ASSUME NEW h \in Handlers, Insert(h) PROVE [Register!Next]_(Register!vars)
    BY <2>2, InsertRegisters
  <2>3. ASSUME NEW c \in Clients, Hear(c) PROVE [Register!Next]_(Register!vars)
    BY <2>3, HearTells DEF Register!Next
  <2> QED
    BY <2>1, <2>2, <2>3 DEF Next, vars, Select, LoseReply, Send, Crash
<1> QED
  BY <1>1, <1>2, InvInit, InvNext, PTL DEF Spec, ImplementsRegister, Register!Spec

\* A handler that has not begun to insert when its key has a row meets no error.
LEMMA NoErrorNext ==
  ASSUME CreationInv, [Next]_vars, NEW h \in Handlers, RowsOf(wish[h[1]].key) # {},
         stage[h] # "inserting", reply[h].code # "error"
  PROVE  stage'[h] # "inserting" /\ reply'[h].code # "error"
<1> USE DEF CreationInv
<1>1. ASSUME NEW q \in Handlers, q # h, Select(q) \/ Insert(q) \/ LoseReply(q)
      PROVE  stage'[h] = stage[h] /\ reply'[h] = reply[h]
  BY <1>1 DEF Select, Insert, LoseReply, Answer, TypeOK
<1>2. ASSUME Select(h)
      PROVE  stage'[h] # "inserting" /\ reply'[h].code # "error"
  <2>1. \/ Answer(h, Reply("invalid", 0))
        \/ Answer(h, Reply("conflict", 0))
        \/ \E i \in RowsOf(wish[h[1]].key) : Answer(h, Reply("accepted", i))
    BY <1>2, Zenon DEF Select
  <2>2. ASSUME NEW r, Answer(h, r), r.code # "error"
        PROVE  stage'[h] # "inserting" /\ reply'[h].code # "error"
    BY <2>2 DEF Answer, TypeOK
  <2>3. \A i : Reply("accepted", i).code # "error"
    BY DEF Reply
  <2>4. Reply("invalid", 0).code # "error" /\ Reply("conflict", 0).code # "error"
    BY DEF Reply
  <2> QED
    BY <2>1, <2>2, <2>3, <2>4
<1>3. ASSUME Insert(h) \/ LoseReply(h)
      PROVE  stage'[h] # "inserting" /\ reply'[h].code # "error"
  BY <1>3 DEF Insert, LoseReply, TypeOK
<1>4. ASSUME NEW d \in Clients, Send(d)
      PROVE  stage'[h] # "inserting" /\ reply'[h].code # "error"
  BY <1>4 DEF Send, TypeOK
<1>5. CASE UNCHANGED vars \/ Crash \/ \E d \in Clients : Hear(d)
  BY <1>5 DEF vars, Crash, Hear, TypeOK
<1> QED
  BY <1>1, <1>2, <1>3, <1>4, <1>5 DEF Next

\* Once a client's request met an error, the run it lost to is there, and no later
\* attempt inserts.
LEMMA ErrorOnce ==
  ASSUME NEW c \in Clients, NEW i \in 1..MaxAttempts, NEW j \in 1..MaxAttempts, i < j
  PROVE  Spec => [](attempt[c] = i /\ reply[<<c, i>>].code = "error"
                      => [](reply[<<c, j>>].code # "error"))
<1> DEFINE g == <<c, i>>
           h == <<c, j>>
           Met == attempt[c] = i /\ reply[g].code = "error"
           Past == /\ RowsOf(wish[c].key) # {} /\ stage[h] # "inserting"
                   /\ reply[h].code # "error"
<1>1. g \in Handlers /\ g[1] = c /\ h \in Handlers /\ h[1] = c /\ h[2] = j
  BY AttemptIsHandler
<1>2. CreationInv /\ Met => Past
  <2> SUFFICES ASSUME CreationInv, Met PROVE Past
    OBVIOUS
  <2>1. RowsOf(wish[c].key) # {}
    BY <1>1 DEF CreationInv, ReplyInv, ReplyRight
  <2>2. stage[h] = "unsent" /\ reply[h] = NoReply
    BY <1>1 DEF CreationInv, UnsentInv
  <2> QED
    BY <2>1, <2>2 DEF NoReply, Reply
<1>3. CreationInv /\ Past /\ [Next]_vars => Past'
  <2> SUFFICES ASSUME CreationInv, Past, [Next]_vars PROVE Past'
    OBVIOUS
  <2>1. wish' = wish /\ RowsOf(wish[c].key)' # {}
    <3>1. rows' = rows \/ \E q \in Requests : rows' = Append(rows, q)
      BY HandlerIsPair DEF Next, vars, Select, Insert, LoseReply, Send, Hear, Crash, CreationInv, TypeOK
    <3>2. \A k \in DOMAIN rows : k \in DOMAIN rows' /\ rows'[k] = rows[k]
      <4>1. CASE rows' = rows
        BY <4>1
      <4>2. ASSUME NEW q \in Requests, rows' = Append(rows, q)
            PROVE  \A k \in DOMAIN rows : k \in DOMAIN rows' /\ rows'[k] = rows[k]
        BY <4>2 DEF CreationInv, TypeOK
      <4> QED
        BY <3>1, <4>1, <4>2
    <3> QED
      BY <3>2 DEF Next, vars, Select, Insert, LoseReply, Send, Hear, Crash, RowsOf
  <2>2. stage'[h] # "inserting" /\ reply'[h].code # "error"
    BY <1>1, NoErrorNext
  <2> QED
    BY <2>1, <2>2
<1>4. Past => reply[h].code # "error"
  OBVIOUS
<1> HIDE DEF Met, Past
<1>5. Spec => [](Met => [](reply[h].code # "error"))
  BY <1>2, <1>3, <1>4, InvInit, InvNext, PTL DEF Spec
<1> QED
  BY <1>5 DEF Met

\* A race is lost once only: what a client sends after it met an error is not
\* answered by an error again.
THEOREM ErrorsEnd == Spec => ErrorsAreTransient
BY ErrorOnce DEF ErrorsAreTransient
=============================================================================
