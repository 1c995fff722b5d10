---------------------------- MODULE RunRegister ----------------------------
(***************************************************************************)
(* What an idempotency key promises: the first admissible request that     *)
(* takes effect under a key decides what the key stands for, for good, and *)
(* every client is told whether that is what it asked for.  RunCreation    *)
(* implements this module.                                                 *)
(***************************************************************************)
CONSTANTS
  Clients,
  Keys,
  Admissible(_),    \* requests the API lets through
  Payload(_),       \* what two requests are compared by
  NoPayload         \* nothing registered under that key

VARIABLES
  wish,             \* the request of each client
  register,         \* what each key stands for
  code              \* what each client was told, "none" before

vars == <<wish, register, code>>

Init ==
  /\ register = [k \in Keys |-> NoPayload]
  /\ code = [c \in Clients |-> "none"]

Register(c) ==
  /\ Admissible(wish[c])
  /\ register[wish[c].key] = NoPayload
  /\ register' = [register EXCEPT ![wish[c].key] = Payload(wish[c])]
  /\ UNCHANGED <<wish, code>>

Right(c, answer) ==
  LET registered == register[wish[c].key]
  IN  \/ answer = "invalid" /\ ~Admissible(wish[c])
      \/ answer = "accepted" /\ registered = Payload(wish[c])
      \/ answer = "conflict" /\ registered \notin {NoPayload, Payload(wish[c])}

Tell(c) ==
  /\ code[c] = "none"
  /\ \E answer \in {"invalid", "accepted", "conflict"} :
       Right(c, answer) /\ code' = [code EXCEPT ![c] = answer]
  /\ UNCHANGED <<wish, register>>

Next == \E c \in Clients : Register(c) \/ Tell(c)

Spec == Init /\ [][Next]_vars
=============================================================================
