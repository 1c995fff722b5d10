--------------------------- MODULE ArtifactStore ---------------------------
(***************************************************************************)
(* An artifact is stored in two places.  put_bytes writes a file named by  *)
(* the content's hash: it tests whether the file is there, and if not      *)
(* writes a temporary and renames it.  store_artifact then inserts the row *)
(* of the file and the row that pins it under a logical name.  The first   *)
(* of its SELECTs runs in autocommit; the second does too unless a new     *)
(* artifacts row was flushed before it, which opens the transaction.       *)
(* Writers are concurrent, and any of them may die or fail at any point.   *)
(***************************************************************************)
CONSTANTS
  Writers,
  Slots,        \* a run together with a logical name
  Contents,
  NoContent

ASSUME ContentAssumption == NoContent \notin Contents

VARIABLES
  file,         \* what is under the final name of each content
  rows,         \* artifacts: the contents that have a row
  mapping,      \* run_artifacts: the content pinned in each slot
  pc,           \* where each writer is
  job,          \* the slot and content it is storing
  told          \* history: <<s, c>> when store_artifact returned for them

vars == <<file, rows, mapping, pc, job, told>>

Init ==
  /\ file = [c \in Contents |-> "absent"]
  /\ rows = {}
  /\ mapping = [s \in Slots |-> NoContent]
  /\ pc = [w \in Writers |-> "idle"]
  /\ job \in [Writers -> [slot : Slots, content : Contents]]
  /\ told = {}

Goto(w, label) == pc' = [pc EXCEPT ![w] = label]

(***************************************************************************)
(* put_bytes                                                               *)
(***************************************************************************)
Put(w, s, c) ==
  /\ pc[w] = "idle"
  /\ job' = [job EXCEPT ![w] = [slot |-> s, content |-> c]]
  /\ Goto(w, "testing")
  /\ UNCHANGED <<file, rows, mapping, told>>

TestFile(w) ==
  /\ pc[w] = "testing"
  /\ Goto(w, IF file[job[w].content] = "absent" THEN "writing" ELSE "filed")
  /\ UNCHANGED <<file, rows, mapping, job, told>>

\* Faulty variant: the content is written under the final name.
WriteInPlace(w) ==
  /\ pc[w] = "writing"
  /\ file' = [file EXCEPT ![job[w].content] = "partial"]
  /\ Goto(w, "written")
  /\ UNCHANGED <<rows, mapping, job, told>>

\* Each temporary has a name of its own, and nobody looks for it.
WriteTemporary(w) ==
  /\ pc[w] = "writing"
  /\ Goto(w, "written")
  /\ UNCHANGED <<file, rows, mapping, job, told>>

Replace(w) ==
  /\ pc[w] = "written"
  /\ file' = [file EXCEPT ![job[w].content] = "complete"]
  /\ Goto(w, "filed")
  /\ UNCHANGED <<rows, mapping, job, told>>

(***************************************************************************)
(* store_artifact                                                          *)
(***************************************************************************)
SelectRow(w) ==
  /\ pc[w] = "filed"
  /\ Goto(w, IF job[w].content \in rows THEN "known" ELSE "new")
  /\ UNCHANGED <<file, rows, mapping, job, told>>

\* The call returns, and its caller lives to see it or not.
Done(w) ==
  /\ Goto(w, "idle")
  /\ told' \in {told, told \cup {<<job[w].slot, job[w].content>>}}

Pin(w) == mapping' = [mapping EXCEPT ![job[w].slot] = job[w].content]

\* One transaction; a row or another pin that came first makes it fail (Fail).
InsertRow(w) ==
  /\ pc[w] = "new"
  /\ job[w].content \notin rows
  /\ mapping[job[w].slot] \in {NoContent, job[w].content}
  /\ rows' = rows \cup {job[w].content}
  /\ Pin(w)
  /\ Done(w)
  /\ UNCHANGED <<file, job>>

SelectMapping(w) ==
  /\ pc[w] = "known"
  /\ \/ mapping[job[w].slot] = NoContent /\ Goto(w, "unpinned") /\ UNCHANGED told
     \/ mapping[job[w].slot] = job[w].content /\ Done(w)
  /\ UNCHANGED <<file, rows, mapping, job>>

\* Faulty variant: no unique constraint on run and logical name.
InsertMappingUnconstrained(w) ==
  /\ pc[w] = "unpinned"
  /\ Pin(w)
  /\ Done(w)
  /\ UNCHANGED <<file, rows, job>>

InsertMapping(w) ==
  /\ pc[w] = "unpinned"
  /\ mapping[job[w].slot] = NoContent
  /\ Pin(w)
  /\ Done(w)
  /\ UNCHANGED <<file, rows, job>>

\* The writer dies, the database is busy, a unique constraint refuses the
\* insert, or the name is pinned to another content: nothing is committed.
Fail(w) ==
  /\ pc[w] # "idle"
  /\ Goto(w, "idle")
  /\ UNCHANGED <<file, rows, mapping, job, told>>

-----------------------------------------------------------------------------
PutBytes(w) == TestFile(w) \/ WriteTemporary(w) \/ Replace(w)
StoreArtifact(w) == SelectRow(w) \/ InsertRow(w) \/ SelectMapping(w) \/ InsertMapping(w)

Next ==
  \E w \in Writers :
    \/ \E s \in Slots, c \in Contents : Put(w, s, c)
    \/ PutBytes(w)
    \/ StoreArtifact(w)
    \/ Fail(w)

Spec == Init /\ [][Next]_vars

(***************************************************************************)
(* Properties                                                              *)
(***************************************************************************)
\* Every variable has its type; no file is partial under its final name.
TypeOK ==
  /\ file \in [Contents -> {"absent", "complete"}]
  /\ rows \subseteq Contents
  /\ mapping \in [Slots -> Contents \cup {NoContent}]
  /\ pc \in [Writers -> {"idle", "testing", "writing", "written", "filed", "new", "known", "unpinned"}]
  /\ job \in [Writers -> [slot : Slots, content : Contents]]
  /\ told \subseteq Slots \X Contents

\* However writers of one content overlap and wherever they die, a row of the
\* artifacts table names a file that is there and complete: file first, row after
\* it, and never a file that another writer has not finished (put_bytes trusts
\* any file it finds).
RowsHaveFiles == \A c \in rows : file[c] = "complete"

\* Reading a slot as get_artifact and its callers do: pin, row, file.
Read(s) ==
  CASE mapping[s] = NoContent -> NoContent
    [] mapping[s] \in rows /\ file[mapping[s]] = "complete" -> mapping[s]
    [] OTHER -> "unreadable"

\* Storing is writing once: the first content pinned under a name stays and can
\* always be read back, and no store call returns unless its own content is the
\* one that is pinned.
Store == INSTANCE WriteOnce WITH value <- [s \in Slots |-> Read(s)]
ImplementsWriteOnce == Store!Spec
=============================================================================
