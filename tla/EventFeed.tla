----------------------------- MODULE EventFeed -----------------------------
(***************************************************************************)
(* What the event endpoint promises a client: events 1, 2, ... of a run    *)
(* come into being in that order, and each client is given those after its *)
(* starting point one by one, none left out, none repeated, none early.    *)
(* EventStream implements this module.                                     *)
(***************************************************************************)
EXTENDS Naturals, Sequences

CONSTANTS
  Clients,
  From          \* From[c]: the sequence after which client c wants events

VARIABLES
  count,        \* how many events the run has
  received      \* what each client was given, in order

vars == <<count, received>>

Init == count \in Nat /\ received = [c \in Clients |-> << >>]

Happen == count' = count + 1 /\ UNCHANGED received

Deliver(c) ==
  LET n == From[c] + Len(received[c]) + 1
  IN  /\ n <= count
      /\ received' = [received EXCEPT ![c] = Append(@, n)]
      /\ UNCHANGED count

Next == Happen \/ \E c \in Clients : Deliver(c)

Spec == Init /\ [][Next]_vars
=============================================================================
