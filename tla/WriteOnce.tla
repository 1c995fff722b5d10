----------------------------- MODULE WriteOnce -----------------------------
(***************************************************************************)
(* What storing an artifact promises: the first content stored under a     *)
(* name of a run is the content of that name for good and can be read,     *)
(* and whoever is told that a content is stored is told the truth.         *)
(* ArtifactStore implements this module.                                   *)
(***************************************************************************)
CONSTANTS
  Slots,        \* a run together with a logical name
  Contents,
  NoContent

VARIABLES
  value,        \* what reading a slot gives
  told          \* <<s, c>>: somebody was told that s holds c

vars == <<value, told>>

Init == value = [s \in Slots |-> NoContent] /\ told = {}

Write(s, c) ==
  /\ value[s] \in {NoContent, c}
  /\ value' = [value EXCEPT ![s] = c]
  /\ told' \in {told, told \cup {<<s, c>>}}

Next == \E s \in Slots, c \in Contents : Write(s, c)

Spec == Init /\ [][Next]_vars
=============================================================================
