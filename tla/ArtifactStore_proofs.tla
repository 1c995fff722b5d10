------------------------ MODULE ArtifactStore_proofs ------------------------
(***************************************************************************)
(* Proofs about ArtifactStore, for any writers, slots and contents.        *)
(***************************************************************************)
EXTENDS ArtifactStore, TLAPS

\* A writer past put_bytes has a file to name, and one that skips the insert of
\* the artifacts row has the row.
WriterInv ==
  \A w \in Writers :
    /\ pc[w] \in {"filed", "new", "known", "unpinned"} => file[job[w].content] = "complete"
    /\ pc[w] \in {"known", "unpinned"} => job[w].content \in rows

\* Whatever is pinned has its row.
PinInv == \A s \in Slots : mapping[s] \in rows \cup {NoContent}

StoreInv == TypeOK /\ RowsHaveFiles /\ WriterInv /\ PinInv

\* put_bytes and store_artifact keep rows, files and pins consistent.
LEMMA InvInit == Init => StoreInv
  BY DEF Init, StoreInv, TypeOK, RowsHaveFiles, WriterInv, PinInv

LEMMA InvNext == StoreInv /\ [Next]_vars => StoreInv'
<1> SUFFICES ASSUME StoreInv, [Next]_vars PROVE StoreInv'
  OBVIOUS
<1> USE DEF StoreInv, TypeOK, RowsHaveFiles, WriterInv, PinInv, Goto
<1>1. CASE UNCHANGED vars
  BY <1>1 DEF vars
<1>2. ASSUME NEW w \in Writers, NEW s \in Slots, NEW c \in Contents, Put(w, s, c)
      PROVE  StoreInv'
  BY <1>2 DEF Put
<1>3. ASSUME NEW w \in Writers, PutBytes(w) PROVE StoreInv'
  <2>1. CASE TestFile(w)
    BY <2>1 DEF TestFile
  <2>2. CASE WriteTemporary(w)
    BY <2>2 DEF WriteTemporary
  <2>3. CASE Replace(w)
    BY <2>3 DEF Replace
  <2> QED
    BY <1>3, <2>1, <2>2, <2>3 DEF PutBytes
<1>4. ASSUME NEW w \in Writers, StoreArtifact(w) PROVE StoreInv'
  <2>1. CASE SelectRow(w)
    BY <2>1 DEF SelectRow
  <2>2. CASE InsertRow(w)
    BY <2>2 DEF InsertRow, Pin, Done
  <2>3. CASE SelectMapping(w)
    BY <2>3 DEF SelectMapping, Done
  <2>4. CASE InsertMapping(w)
    BY <2>4 DEF InsertMapping, Pin, Done
  <2> QED
    BY <1>4, <2>1, <2>2, <2>3, <2>4 DEF StoreArtifact
<1>5. ASSUME NEW w \in Writers, Fail(w) PROVE StoreInv'
  BY <1>5 DEF Fail
<1> QED
  BY <1>1, <1>2, <1>3, <1>4, <1>5 DEF Next

\* Every variable keeps its type.
THEOREM TypeCorrect == Spec => []TypeOK
<1>1. StoreInv => TypeOK
  BY DEF StoreInv
<1> QED
  BY <1>1, InvInit, InvNext, PTL DEF Spec

\* A row never names a file that is missing or incomplete, for any number of
\* writers of any contents.
THEOREM FilesBehindRows == Spec => []RowsHaveFiles
<1>1. StoreInv => RowsHaveFiles
  BY DEF StoreInv
<1> QED
  BY <1>1, InvInit, InvNext, PTL DEF Spec

-----------------------------------------------------------------------------
\* With rows and files in order, reading a slot gives what is pinned in it.
LEMMA ReadGivesPin == StoreInv => \A s \in Slots : Read(s) = mapping[s]
  BY ContentAssumption DEF StoreInv, TypeOK, RowsHaveFiles, PinInv, Read

\* A pin into a free slot, or none where the slot has the content already, is a
\* step of the write-once store.
LEMMA PinWrites ==
  ASSUME StoreInv, StoreInv', NEW w \in Writers,
         mapping[job[w].slot] \in {NoContent, job[w].content},
         Pin(w), Done(w)
  PROVE  Store!Next
<1> DEFINE s == job[w].slot
           c == job[w].content
<1>1. s \in Slots /\ c \in Contents
  BY DEF StoreInv, TypeOK
<1>2. Read(s) \in {NoContent, c}
  BY <1>1, ReadGivesPin
<1>3. \A t \in Slots : Read(t) = mapping[t] /\ Read(t)' = mapping'[t]
  <2>1. \A t \in Slots : Read(t)' = mapping'[t]
    BY ContentAssumption DEF StoreInv, TypeOK, RowsHaveFiles, PinInv, Read
  <2> QED
    BY <2>1, ReadGivesPin
<1>4. mapping' = [mapping EXCEPT ![s] = c] /\ mapping \in [Slots -> Contents \cup {NoContent}]
  BY DEF Pin, StoreInv, TypeOK
<1>5. [t \in Slots |-> Read(t)'] = [[t \in Slots |-> Read(t)] EXCEPT ![s] = c]
  BY <1>1, <1>3, <1>4
<1>6. Store!Write(s, c)
  BY <1>1, <1>2, <1>5 DEF Store!Write, Done
<1> QED
  BY <1>1, <1>6 DEF Store!Next

\* A step that leaves the pins and the history alone is a stutter.
LEMMA OtherStepsStutter ==
  ASSUME StoreInv, StoreInv', UNCHANGED <<mapping, told>>
  PROVE  UNCHANGED Store!vars
<1>1. \A t \in Slots : Read(t) = mapping[t] /\ Read(t)' = mapping'[t]
  <2>1. \A t \in Slots : Read(t)' = mapping'[t]
    BY ContentAssumption DEF StoreInv, TypeOK, RowsHaveFiles, PinInv, Read
  <2> QED
    BY <2>1, ReadGivesPin
<1> QED
  BY <1>1 DEF Store!vars

\* Storing an artifact implements a write-once store: whatever the writers do,
\* a slot that was read once is never read differently.
THEOREM Refinement == Spec => ImplementsWriteOnce
<1>1. Init => Store!Init
  BY DEF Init, Store!Init, Read
<1>2. StoreInv /\ StoreInv' /\ [Next]_vars => [Store!Next]_(Store!vars)
  <2> SUFFICES ASSUME StoreInv, StoreInv', [Next]_vars PROVE [Store!Next]_(Store!vars)
    OBVIOUS
  <2>1. CASE UNCHANGED vars
    BY <2>1, OtherStepsStutter DEF vars
  <2>2. ASSUME NEW w \in Writers, NEW s \in Slots, NEW c \in Contents, Put(w, s, c)
        PROVE  UNCHANGED Store!vars
    BY <2>2, OtherStepsStutter DEF Put
  <2>3. ASSUME NEW w \in Writers, PutBytes(w) \/ SelectRow(w) \/ Fail(w)
        PROVE  UNCHANGED Store!vars
    BY <2>3, OtherStepsStutter DEF PutBytes, TestFile, WriteTemporary, Replace, SelectRow, Fail
  <2>4. ASSUME NEW w \in Writers, InsertRow(w) PROVE Store!Next
    BY <2>4, PinWrites DEF InsertRow
  <2>5. ASSUME NEW w \in Writers, SelectMapping(w) PROVE [Store!Next]_(Store!vars)
    <3>1. CASE mapping[job[w].slot] = NoContent /\ UNCHANGED told
      BY <2>5, <3>1, OtherStepsStutter DEF SelectMapping
    <3>2. CASE mapping[job[w].slot] = job[w].content /\ Done(w)
      <4>1. Pin(w)
        BY <2>5, <3>2 DEF Pin, SelectMapping, StoreInv, TypeOK
      <4> QED
        BY <3>2, <4>1, PinWrites
    <3> QED
      BY <2>5, <3>1, <3>2 DEF SelectMapping
  <2>6. ASSUME NEW w \in Writers, InsertMapping(w) PROVE Store!Next
    BY <2>6, PinWrites DEF InsertMapping
  <2> QED
    BY <2>1, <2>2, <2>3, <2>4, <2>5, <2>6 DEF Next, StoreArtifact
<1> QED
  BY <1>1, <1>2, InvInit, InvNext, PTL DEF Spec, ImplementsWriteOnce, Store!Spec
=============================================================================
