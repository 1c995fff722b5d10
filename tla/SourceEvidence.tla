--------------------------- MODULE SourceEvidence ---------------------------
(***************************************************************************)
(* What a run knows of the event: the evidence package, made from the      *)
(* answer of the CEMS activation API or from a frozen case.                *)
(*                                                                         *)
(* Left out: texts, urls, times other than a product's delivery, and       *)
(* whatever is copied without being read again.                            *)
(***************************************************************************)
EXTENDS Integers

CONSTANTS
  Areas,        \* names of areas of interest
  Sources,      \* source ids
  CemsSource,   \* the source id of the activation
  None          \* a value that is absent, or a computation that raised

Facts == {"population", "residential", "facility", "road", "bridge"}

\* stats: the sums of the numbers under each heading, or None where there are none.
Product == [status    : {"F", "W", "I", "N"},
            delivered : Nat,
            version   : Nat,
            stats     : [Facts -> Int \cup {None}] \cup {None},
            download  : BOOLEAN]

\* number: an integer from 1, digits in quotes, other text, or nothing to use.
Aoi == [name : Areas, number : {"integer", "digits", "word", "none"}, products : SUBSET Product]

\* What the API answers; aois is None where it is null.
Activation == [found  : {"activation", "no result", "no object"},
               flood  : BOOLEAN,
               closed : BOOLEAN,
               aois   : (SUBSET Aoi) \cup {None}]

(***************************************************************************)
(* The package of a live run                                               *)
(***************************************************************************)
\* _aoi_products: int() reads digits in quotes as a number, and raises on a word.
AoiProducts(activation) ==
  IF activation.aois = None THEN {}
  ELSE UNION {{[area |-> aoi.name, status |-> p.status, download |-> p.download] : p \in aoi.products} :
                aoi \in {a \in activation.aois : a.number \in {"integer", "digits"}}}

Unreadable(activation) ==
  \/ activation.found # "activation"
  \/ activation.aois # None /\ \E aoi \in activation.aois : aoi.number = "word"

Pending(products) == {p \in products : p.status \in {"W", "I"}}

CemsClaims(products) ==
  {[id |-> "cems-event-identity", status |-> "supported"]} \cup
  {[id     |-> "cems-aoi-product-status",
    status |-> IF Pending(products) = {} THEN "supported" ELSE "preliminary"] : p \in products}

CemsFindings(activation, products) ==
  {[id |-> "cems-source-reachable", severity |-> "info"]} \cup
  {f \in {[id |-> "cems-hazard-outside-mvp", severity |-> "blocker"]} : ~activation.flood} \cup
  {f \in {[id |-> "cems-activation-open", severity |-> "warning"]} : ~activation.closed} \cup
  {f \in {[id |-> "cems-products-pending", severity |-> "warning"]} : Pending(products) # {}}

ProductGaps(products) ==
  {[area |-> p.area, about |-> "pending"] : p \in Pending(products)} \cup
  {[area |-> p.area, about |-> "no download"] :
     p \in {q \in products : q.status = "F" /\ ~q.download}}

\* Faulty variant: waiting products do not count.
PackageStatusOfOpen(activation, products, findings) ==
  IF \E f \in findings : f.severity = "blocker" THEN "conflicting"
  ELSE IF ~activation.closed THEN "preliminary"
  ELSE "supported"

PackageStatus(activation, products, findings) ==
  IF \E f \in findings : f.severity = "blocker" THEN "conflicting"
  ELSE IF ~activation.closed \/ Pending(products) # {} THEN "preliminary"
  ELSE "supported"

\* CemsActivationAdapter.fetch, of which one answer is asked.
Fetch(activation) ==
  IF Unreadable(activation) THEN None
  ELSE LET products == AoiProducts(activation)
           findings == CemsFindings(activation, products)
       IN  [snapshots |-> {[source |-> CemsSource, raw |-> activation]},
            claims    |-> CemsClaims(products),
            findings  |-> findings,
            gaps      |-> ProductGaps(products),
            status    |-> PackageStatus(activation, products, findings)]

(***************************************************************************)
(* The package of a run on a frozen case                                   *)
(***************************************************************************)
\* build_fixture_evidence_package: no snapshot has raw content.
FixturePackage(bundle) ==
  [snapshots |-> {[source |-> s, raw |-> None] : s \in bundle.dossier.sources},
   claims    |-> bundle.dossier.claims,
   findings  |-> {[id |-> "fixture-integrity-verified", severity |-> "info"]} \cup
                 {[id |-> "fixture-preliminary-claims", severity |-> "warning"] :
                    c \in {d \in bundle.dossier.claims : d.status = "preliminary"}},
   gaps      |-> bundle.dossier.gaps,
   status    |-> "preliminary"]

SourcesOf(package) == {snapshot.source : snapshot \in package.snapshots}
=============================================================================
