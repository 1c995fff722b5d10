----------------------------- MODULE FrozenCase -----------------------------
(***************************************************************************)
(* Loading a frozen case: a directory with a manifest that has the hash of *)
(* each of its files.  A hash is the content it is of.  Every file is      *)
(* hashed, and then every file is read, so that an edit can come between.  *)
(***************************************************************************)
EXTENDS Sequences, Naturals

CONSTANTS
  Manifest,      \* of the frozen case
  EditedFiles    \* the contents that editing a case file can leave

VARIABLES
  files,         \* the case directory
  load           \* the load under way, and history: what was edited under it

\* The order in which the files are hashed, and read.
CaseOrder == <<"dossier", "scenario", "gold_actions">>

CaseFiles == {"dossier", "scenario", "gold_actions"}

ASSUME ManifestAssumption == Manifest.hashes = [name \in CaseFiles |-> Manifest.hashes[name]]

\* The frozen content of a file, or what an edit leaves in its place.
Contents(name) == {Manifest.hashes[name]} \cup EditedFiles[name]

\* slipped: the files that were edited between their hash and their reading.
NotLoaded == [hashed |-> 0, read |-> << >>, slipped |-> {}]

InitCase == files = Manifest.hashes /\ load = NotLoaded

Case == [dossier |-> load.read[1], scenario |-> load.read[2], gold |-> load.read[3].actions]

\* The ids of a case file are its own; a manifest lists each file once.
Consistent ==
  /\ \A i \in 1..3 : load.read[i].case = Manifest.case
  /\ load.read[1].hazard = Manifest.hazard

\* The sources and constraints that a gold action, or a claim, refers to.
KnownReferences ==
  /\ \A claim \in Case.dossier.claims : claim.sources \subseteq Case.dossier.sources
  /\ \A action \in Case.gold :
       /\ action.sources \subseteq Case.dossier.sources
       /\ action.constraints \subseteq Case.scenario.constraints

CaseLoaded == Len(load.read) = 3 /\ Consistent /\ KnownReferences

(***************************************************************************)
(* The steps of load_frozen_case                                           *)
(***************************************************************************)
\* Faulty variant: the hashes are not compared.
HashAnyFile ==
  /\ load.hashed < 3
  /\ load' = [load EXCEPT !.hashed = @ + 1]
  /\ UNCHANGED files

HashFile ==
  /\ load.hashed < 3
  /\ files[CaseOrder[load.hashed + 1]] = Manifest.hashes[CaseOrder[load.hashed + 1]]
  /\ load' = [load EXCEPT !.hashed = @ + 1]
  /\ UNCHANGED files

ReadFile ==
  /\ load.hashed = 3 /\ Len(load.read) < 3
  /\ load' = [load EXCEPT !.read = Append(@, files[CaseOrder[Len(@) + 1]])]
  /\ UNCHANGED files

\* FrozenCaseIntegrityError
Refuse ==
  /\ \/ /\ load.hashed < 3
        /\ files[CaseOrder[load.hashed + 1]] # Manifest.hashes[CaseOrder[load.hashed + 1]]
     \/ Len(load.read) = 3 /\ ~CaseLoaded
  /\ load' = NotLoaded
  /\ UNCHANGED files

\* Someone edits the n-th file of the case (bound: once).
Edit(n) ==
  /\ files = Manifest.hashes
  /\ \E content \in EditedFiles[CaseOrder[n]] : files' = [files EXCEPT ![CaseOrder[n]] = content]
  /\ load' = [load EXCEPT !.slipped =
                @ \cup (IF Len(load.read) < n /\ n <= load.hashed THEN {CaseOrder[n]} ELSE {})]
=============================================================================
