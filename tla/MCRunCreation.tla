--------------------------- MODULE MCRunCreation ---------------------------
(* Instances of RunCreation for TLC. *)
EXTENDS RunCreation, TLC

Request(key, mode, fixture, activation) ==
  [key |-> key, case |-> "pinned", mode |-> mode, fixture |-> fixture,
   activation |-> activation, model |-> TRUE]

\* Three that compare as different under one key and a live one that compares as
\* the first of them, one under another key, and one for each way to be refused.
MixedRequests ==
  {Request("key1", "agent", TRUE, TRUE),
   Request("key1", "agent", FALSE, TRUE),
   Request("key1", "agent", TRUE, FALSE),
   Request("key1", "baseline", TRUE, FALSE),
   Request("key2", "agent", TRUE, TRUE),
   Request("short", "agent", TRUE, TRUE),
   Request("key1", "agent", FALSE, FALSE),
   Request("key1", "baseline", FALSE, TRUE),
   [Request("key1", "agent", TRUE, TRUE) EXCEPT !.case = "unknown"],
   [Request("key1", "agent", TRUE, TRUE) EXCEPT !.model = FALSE]}
=============================================================================
