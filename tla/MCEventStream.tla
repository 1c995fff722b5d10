--------------------------- MODULE MCEventStream ---------------------------
(* Instance of EventStream for TLC. *)
EXTENDS EventStream, TLC

CONSTANTS c1, c2

\* One client resumes after the first event, the other begins at the beginning.
FromSecond == c1 :> 1 @@ c2 :> 0
=============================================================================
