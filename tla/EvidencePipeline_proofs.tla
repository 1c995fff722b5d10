---------------------- MODULE EvidencePipeline_proofs ----------------------
(***************************************************************************)
(* Proofs about EvidencePipeline: whatever the activation, the case and    *)
(* the model's answers are.                                                *)
(***************************************************************************)
EXTENDS EvidencePipeline, FiniteSetTheorems, TLAPS

\* What UncertaintyShown says of a package.
OpenIsShown(p) ==
  p.status = "supported" =>
    /\ \A f \in p.findings : f.severity = "info"
    /\ \A c \in p.claims : c.status = "supported"

PendingIsShown(p) ==
  LET pending == \E g \in p.gaps : g.about = "pending"
  IN  /\ pending <=> \E f \in p.findings : f.id = "cems-products-pending"
      /\ pending <=> \E c \in p.claims : c.status = "preliminary"

\* A draft has words of every gap's area in it.
Worded(area, response) ==
  \E u \in VisibleText(response) : \E form \in {"name", "place", "product"} :
    Occurs([area |-> area, form |-> form], u)

Names(response, gaps) ==
  \A gap \in gaps : [area |-> gap.area, form |-> "name"] \notin Vague => Worded(gap.area, response)

-----------------------------------------------------------------------------
\* The products of an activation that could be read.
LEMMA ProductsTyped ==
  ASSUME NEW a \in Activations, ~Unreadable(a)
  PROVE  AoiProducts(a) \subseteq [area : Areas, status : {"F", "W", "I", "N"}, download : BOOLEAN]
<1>1. CASE a.aois = None
  BY <1>1 DEF AoiProducts
<1>2. CASE a.aois # None
  <2>1. a.aois \subseteq Aoi
    BY <1>2, ActivationAssumption DEF Activation
  <2> SUFFICES ASSUME NEW aoi \in a.aois, NEW p \in aoi.products
               PROVE  [area |-> aoi.name, status |-> p.status, download |-> p.download]
                        \in [area : Areas, status : {"F", "W", "I", "N"}, download : BOOLEAN]
    BY <1>2 DEF AoiProducts
  <2>2. aoi.name \in Areas /\ p \in Product
    BY <2>1 DEF Aoi
  <2> QED
    BY <2>2 DEF Product
<1> QED
  BY <1>1, <1>2

\* The claims of a package, one by one: the second is there if anything is.
LEMMA ClaimsAre ==
  ASSUME NEW products
  PROVE  /\ CemsClaims(products) \in SUBSET [id : Texts, status : ClaimStatus]
         /\ Pending(products) = {} => \A c \in CemsClaims(products) : c.status = "supported"
         /\ Pending(products) # {} => \E c \in CemsClaims(products) : c.status = "preliminary"
<1> DEFINE status == IF Pending(products) = {} THEN "supported" ELSE "preliminary"
           identity == [id |-> "cems-event-identity", status |-> "supported"]
           about == [id |-> "cems-aoi-product-status", status |-> status]
<1>1. CemsClaims(products) = {identity} \cup {about : p \in products}
  BY DEF CemsClaims
<1>2. identity \in [id : Texts, status : ClaimStatus] /\ identity.status = "supported"
  BY TextsAssumption DEF ClaimStatus
<1>3. about \in [id : Texts, status : ClaimStatus] /\ about.status = status
  BY TextsAssumption DEF ClaimStatus
<1>4. Pending(products) = {} => status = "supported"
  OBVIOUS
<1>5. Pending(products) # {} => status = "preliminary" /\ products # {}
  BY DEF Pending
<1> HIDE DEF status, identity, about
<1> QED
  BY <1>1, <1>2, <1>3, <1>4, <1>5

\* The findings of a package, one by one.
LEMMA FindingsAre ==
  ASSUME NEW a, NEW products, a.closed \in BOOLEAN
  PROVE  /\ CemsFindings(a, products) \in SUBSET Findings
         /\ (\E f \in CemsFindings(a, products) : f.id = "cems-products-pending")
              <=> Pending(products) # {}
<1> DEFINE findings == CemsFindings(a, products)
           reached == [id |-> "cems-source-reachable", severity |-> "info"]
           outside == [id |-> "cems-hazard-outside-mvp", severity |-> "blocker"]
           open == [id |-> "cems-activation-open", severity |-> "warning"]
           pends == [id |-> "cems-products-pending", severity |-> "warning"]
<1>1. /\ \A f \in findings :
           f \in {reached, outside} \/ (f = open /\ ~a.closed) \/ (f = pends /\ Pending(products) # {})
      /\ Pending(products) # {} => pends \in findings
  BY DEF CemsFindings
<1>2. reached \in Findings /\ outside \in Findings /\ open \in Findings /\ pends \in Findings
  BY TextsAssumption DEF Findings
<1>3. reached.severity = "info" /\ outside.severity = "blocker"
  OBVIOUS
<1>4. reached.id # "cems-products-pending" /\ outside.id # "cems-products-pending"
  OBVIOUS
<1>5. open.id # "cems-products-pending" /\ pends.id = "cems-products-pending"
  OBVIOUS
<1> HIDE DEF findings, reached, outside, open, pends
<1>6. findings \in SUBSET Findings
  BY <1>1, <1>2
<1>7. (\E f \in findings : f.id = "cems-products-pending") <=> Pending(products) # {}
  BY <1>1, <1>4, <1>5
<1> QED
  BY <1>6, <1>7 DEF findings

\* Nothing is worse than an information once everything is closed and delivered,
\* but a hazard that is not a flood.
LEMMA SettledFindings ==
  ASSUME NEW a, NEW products, a.closed, Pending(products) = {},
         \A f \in CemsFindings(a, products) : f.severity # "blocker"
  PROVE  \A f \in CemsFindings(a, products) : f.severity = "info"
BY DEF CemsFindings

\* What is pending of a package is among its gaps.
LEMMA ProductGapsAre ==
  ASSUME NEW products,
         products \subseteq [area : Areas, status : {"F", "W", "I", "N"}, download : BOOLEAN]
  PROVE  /\ ProductGaps(products) \in SUBSET Gaps
         /\ (\E g \in ProductGaps(products) : g.about = "pending") <=> Pending(products) # {}
<1> DEFINE pends(p) == [area |-> p.area, about |-> "pending"]
           lacks(p) == [area |-> p.area, about |-> "no download"]
           bare == {q \in products : q.status = "F" /\ ~q.download}
<1>1. ProductGaps(products) = {pends(p) : p \in Pending(products)} \cup {lacks(p) : p \in bare}
  BY DEF ProductGaps
<1>2. Pending(products) \subseteq products /\ bare \subseteq products
  BY DEF Pending
<1>3. \A p \in products : pends(p) \in Gaps /\ pends(p).about = "pending"
  BY TextsAssumption DEF Gaps
<1>4. \A p \in products : lacks(p) \in Gaps /\ lacks(p).about # "pending"
  BY TextsAssumption DEF Gaps
<1> HIDE DEF pends, lacks, bare
<1> QED
  BY <1>1, <1>2, <1>3, <1>4

\* The package of an activation has its form, and shows what is open in it.
LEMMA FetchedPackage ==
  ASSUME NEW a \in Activations, Fetch(a) # None
  PROVE  /\ Fetch(a) \in Packages
         /\ Fetch(a).snapshots = {[source |-> CemsSource, raw |-> a]}
         /\ OpenIsShown(Fetch(a)) /\ PendingIsShown(Fetch(a))
<1> DEFINE products == AoiProducts(a)
           findings == CemsFindings(a, products)
<1>1. /\ ~Unreadable(a)
      /\ Fetch(a) = [snapshots |-> {[source |-> CemsSource, raw |-> a]},
                     claims    |-> CemsClaims(products),
                     findings  |-> findings,
                     gaps      |-> ProductGaps(products),
                     status    |-> PackageStatus(a, products, findings)]
  BY DEF Fetch
<1>2. products \subseteq [area : Areas, status : {"F", "W", "I", "N"}, download : BOOLEAN]
  BY <1>1, ProductsTyped
<1> HIDE DEF products
<1>0. a.closed \in BOOLEAN
  BY ActivationAssumption DEF Activation
<1>3. {[source |-> CemsSource, raw |-> a]} \in SUBSET [source : Sources, raw : Activation \cup {None}]
  BY ActivationAssumption
<1>4. CemsClaims(products) \in SUBSET [id : Texts, status : ClaimStatus]
  BY ClaimsAre
<1>5. findings \in SUBSET Findings
  BY <1>0, FindingsAre
<1>6. ProductGaps(products) \in SUBSET Gaps
  BY <1>2, ProductGapsAre
<1>7. PackageStatus(a, products, findings) \in {"supported", "preliminary", "conflicting"}
  BY DEF PackageStatus
<1>8. Fetch(a) \in Packages
  BY <1>1, <1>3, <1>4, <1>5, <1>6, <1>7 DEF Packages
<1>9. OpenIsShown(Fetch(a))
  <2> SUFFICES ASSUME PackageStatus(a, products, findings) = "supported"
               PROVE  /\ \A f \in findings : f.severity = "info"
                      /\ \A c \in CemsClaims(products) : c.status = "supported"
    BY <1>1 DEF OpenIsShown
  <2>1. a.closed /\ Pending(products) = {} /\ \A f \in findings : f.severity # "blocker"
    BY DEF PackageStatus
  <2>2. \A f \in findings : f.severity = "info"
    BY <2>1, SettledFindings
  <2> QED
    BY <2>1, <2>2, ClaimsAre
<1>10. PendingIsShown(Fetch(a))
  <2>1. (\E g \in ProductGaps(products) : g.about = "pending") <=> Pending(products) # {}
    BY <1>2, ProductGapsAre
  <2>2. (\E f \in findings : f.id = "cems-products-pending") <=> Pending(products) # {}
    BY <1>0, FindingsAre
  <2>3. (\E c \in CemsClaims(products) : c.status = "preliminary") <=> Pending(products) # {}
    BY ClaimsAre
  <2> QED
    BY <1>1, <2>1, <2>2, <2>3 DEF PendingIsShown
<1> QED
  BY <1>1, <1>8, <1>9, <1>10

-----------------------------------------------------------------------------
\* What has been read of the case is of the right file; it is the frozen content
\* unless the file was edited after it was hashed.  So is what is hashed, and not
\* read yet.
AnyContent == UNION {Contents(CaseOrder[n]) : n \in 1..3}

Hash(n) == Manifest.hashes[CaseOrder[n]]

Slipped(n) == CaseOrder[n] \in load.slipped

LoadTyped ==
  /\ files \in [CaseFiles -> AnyContent]
  /\ load \in [hashed : 0..3, read : Seq(AnyContent), slipped : SUBSET CaseFiles]
  /\ Len(load.read) > 0 => load.hashed = 3

FilesInv == \A n \in 1..3 : files[CaseOrder[n]] \in Contents(CaseOrder[n])

ReadInv ==
  \A n \in 1..Len(load.read) :
    n \in 1..3 /\ load.read[n] \in Contents(CaseOrder[n]) /\ (load.read[n] = Hash(n) \/ Slipped(n))

HashedInv ==
  \A n \in 1..3 :
    Len(load.read) < n /\ n <= load.hashed => files[CaseOrder[n]] = Hash(n) \/ Slipped(n)

LoadInv == LoadTyped /\ FilesInv /\ ReadInv /\ HashedInv

LEMMA CaseNames ==
  /\ \A n \in 1..3 : CaseOrder[n] \in CaseFiles /\ Hash(n) \in Contents(CaseOrder[n])
  /\ \A n \in 1..3 : Contents(CaseOrder[n]) \subseteq AnyContent
  /\ \A n, m \in 1..3 : CaseOrder[n] = CaseOrder[m] => n = m
  /\ \A name \in CaseFiles : \E n \in 1..3 : CaseOrder[n] = name
<1>1. CaseOrder[1] = "dossier" /\ CaseOrder[2] = "scenario" /\ CaseOrder[3] = "gold_actions"
  BY DEF CaseOrder
<1>2. \A n \in 1..3 : n = 1 \/ n = 2 \/ n = 3
  OBVIOUS
<1>3. \A n \in 1..3 : CaseOrder[n] \in CaseFiles /\ Hash(n) \in Contents(CaseOrder[n])
  BY <1>1, <1>2 DEF CaseFiles, Hash, Contents
<1>4. \A n \in 1..3 : Contents(CaseOrder[n]) \subseteq AnyContent
  BY DEF AnyContent
<1>5. \A n, m \in 1..3 : CaseOrder[n] = CaseOrder[m] => n = m
  BY <1>1, <1>2
<1>6. \A name \in CaseFiles : \E n \in 1..3 : CaseOrder[n] = name
  BY <1>1 DEF CaseFiles
<1> QED
  BY <1>3, <1>4, <1>5, <1>6

\* Nothing is loaded: when a load begins, is refused or has been used.
LEMMA NothingLoaded ==
  ASSUME files \in [CaseFiles -> AnyContent], FilesInv, UNCHANGED files, load' = NotLoaded
  PROVE  LoadInv'
<1>1. /\ NotLoaded \in [hashed : 0..3, read : Seq(AnyContent), slipped : SUBSET CaseFiles]
      /\ Len(NotLoaded.read) = 0 /\ NotLoaded.hashed = 0
  BY DEF NotLoaded
<1>2. LoadTyped'
  BY <1>1 DEF LoadTyped
<1>3. FilesInv' /\ ReadInv' /\ HashedInv'
  BY <1>1 DEF FilesInv, ReadInv, HashedInv
<1> QED
  BY <1>2, <1>3 DEF LoadInv

LEMMA InitLoad == Init => LoadInv
<1> SUFFICES ASSUME Init PROVE LoadInv
  OBVIOUS
<1>1. files = Manifest.hashes /\ load = NotLoaded
  BY DEF Init, InitCase
<1>2. /\ NotLoaded \in [hashed : 0..3, read : Seq(AnyContent), slipped : SUBSET CaseFiles]
      /\ Len(NotLoaded.read) = 0 /\ NotLoaded.hashed = 0
  BY DEF NotLoaded
<1>3. \A n \in 1..3 : files[CaseOrder[n]] \in Contents(CaseOrder[n])
  BY <1>1, CaseNames DEF Hash
<1>4. files \in [CaseFiles -> AnyContent]
  <2>1. \A name \in CaseFiles : files[name] \in AnyContent
    BY <1>3, CaseNames
  <2>2. files = [name \in CaseFiles |-> files[name]]
    BY <1>1, ManifestAssumption
  <2> QED
    BY <2>1, <2>2
<1> QED
  BY <1>1, <1>2, <1>3, <1>4 DEF LoadInv, LoadTyped, FilesInv, ReadInv, HashedInv

LEMMA HashFileLoad ==
  ASSUME LoadInv, HashFile
  PROVE  LoadInv'
<1> DEFINE h == load.hashed
<1>1. /\ h \in 0..2 /\ files[CaseOrder[h + 1]] = Hash(h + 1) /\ UNCHANGED files
      /\ load' = [load EXCEPT !.hashed = h + 1]
  BY DEF LoadInv, LoadTyped, HashFile, Hash
<1>2. Len(load.read) = 0
  BY <1>1 DEF LoadInv, LoadTyped
<1>3. /\ load' \in [hashed : 0..3, read : Seq(AnyContent), slipped : SUBSET CaseFiles]
      /\ load'.hashed = h + 1 /\ load'.read = load.read /\ load'.slipped = load.slipped
  BY <1>1 DEF LoadInv, LoadTyped
<1>4. LoadTyped' /\ FilesInv' /\ ReadInv'
  BY <1>1, <1>2, <1>3 DEF LoadInv, LoadTyped, FilesInv, ReadInv
<1>5. HashedInv'
  BY <1>1, <1>2, <1>3 DEF LoadInv, HashedInv, Slipped
<1> QED
  BY <1>4, <1>5 DEF LoadInv

LEMMA ReadFileLoad ==
  ASSUME LoadInv, ReadFile
  PROVE  LoadInv'
<1> DEFINE k == Len(load.read) + 1
           content == files[CaseOrder[k]]
<1>1. /\ k \in 1..3 /\ load.hashed = 3 /\ UNCHANGED files
      /\ load' = [load EXCEPT !.read = Append(load.read, content)] /\ load.read \in Seq(AnyContent)
  BY DEF LoadInv, LoadTyped, ReadFile
<1>2. content \in Contents(CaseOrder[k]) /\ content \in AnyContent /\ (content = Hash(k) \/ Slipped(k))
  BY <1>1, CaseNames DEF LoadInv, FilesInv, HashedInv
<1> HIDE DEF content
<1>3. /\ Append(load.read, content) \in Seq(AnyContent) /\ Len(Append(load.read, content)) = k
      /\ Append(load.read, content)[k] = content
      /\ \A n \in 1..k - 1 : Append(load.read, content)[n] = load.read[n]
  BY <1>1, <1>2
<1>4. /\ load' \in [hashed : 0..3, read : Seq(AnyContent), slipped : SUBSET CaseFiles]
      /\ load'.hashed = 3 /\ load'.slipped = load.slipped /\ load'.read = Append(load.read, content)
  BY <1>1, <1>3 DEF LoadInv, LoadTyped
<1>5. LoadTyped' /\ FilesInv'
  BY <1>1, <1>4 DEF LoadInv, LoadTyped, FilesInv
<1>6. ReadInv'
  <2> SUFFICES ASSUME NEW n \in 1..k
               PROVE  /\ n \in 1..3 /\ load'.read[n] \in Contents(CaseOrder[n])
                      /\ load'.read[n] = Hash(n) \/ CaseOrder[n] \in load'.slipped
    BY <1>3, <1>4 DEF ReadInv, Slipped
  <2>1. CASE n = k
    BY <1>1, <1>2, <1>3, <1>4, <2>1 DEF Slipped
  <2>2. CASE n # k
    <3>1. n \in 1..Len(load.read) /\ n \in 1..k - 1
      BY <1>1, <2>2
    <3> QED
      BY <1>3, <1>4, <3>1 DEF LoadInv, ReadInv, Slipped
  <2> QED
    BY <2>1, <2>2
<1>7. HashedInv'
  <2>1. \A n \in 1..3 : k < n => Len(load.read) < n /\ n <= load.hashed
    BY <1>1
  <2> QED
    BY <1>1, <1>3, <1>4, <2>1 DEF LoadInv, HashedInv, Slipped
<1> QED
  BY <1>5, <1>6, <1>7 DEF LoadInv

LEMMA EditLoad ==
  ASSUME LoadInv, NEW m \in 1..3, Edit(m)
  PROVE  LoadInv'
<1> DEFINE more == IF Len(load.read) < m /\ m <= load.hashed THEN {CaseOrder[m]} ELSE {}
<1>1. PICK content \in EditedFiles[CaseOrder[m]] : files' = [files EXCEPT ![CaseOrder[m]] = content]
  BY DEF Edit
<1>2. CaseOrder[m] \in CaseFiles /\ content \in Contents(CaseOrder[m]) /\ content \in AnyContent
  BY CaseNames DEF Contents
<1>3. files' \in [CaseFiles -> AnyContent] /\ files \in [CaseFiles -> AnyContent]
  BY <1>1, <1>2 DEF LoadInv, LoadTyped
<1>4. \A n \in 1..3 : files'[CaseOrder[n]] = IF n = m THEN content ELSE files[CaseOrder[n]]
  BY <1>1, <1>3, CaseNames
<1>5. load' = [load EXCEPT !.slipped = load.slipped \cup more]
  BY DEF Edit
<1>6. more \in SUBSET CaseFiles
  BY <1>2
<1>7. /\ load' \in [hashed : 0..3, read : Seq(AnyContent), slipped : SUBSET CaseFiles]
      /\ load'.hashed = load.hashed /\ load'.read = load.read
      /\ load'.slipped = load.slipped \cup more
  <2> HIDE DEF more
  <2> QED
    BY <1>5, <1>6 DEF LoadInv, LoadTyped
<1>8. LoadTyped'
  BY <1>3, <1>7 DEF LoadInv, LoadTyped
<1>9. FilesInv'
  BY <1>2, <1>4 DEF LoadInv, FilesInv
<1>10. ReadInv'
  <2> HIDE DEF more
  <2> QED
    BY <1>7 DEF LoadInv, ReadInv, Slipped
<1>11. HashedInv'
  <2> SUFFICES ASSUME NEW n \in 1..3, Len(load.read) < n, n <= load.hashed
               PROVE  files'[CaseOrder[n]] = Hash(n) \/ CaseOrder[n] \in load'.slipped
    BY <1>7 DEF HashedInv, Slipped
  <2>1. CASE n = m
    BY <1>7, <2>1
  <2>2. CASE n # m
    <3>1. files'[CaseOrder[n]] = files[CaseOrder[n]]
      BY <1>4, <2>2
    <3>2. files[CaseOrder[n]] = Hash(n) \/ CaseOrder[n] \in load.slipped
      BY DEF LoadInv, HashedInv, Slipped
    <3> HIDE DEF more
    <3> QED
      BY <1>7, <3>1, <3>2
  <2> QED
    BY <2>1, <2>2
<1> QED
  BY <1>8, <1>9, <1>10, <1>11 DEF LoadInv

LEMMA AlwaysLoaded == Spec => []LoadInv
<1>1. LoadInv /\ UNCHANGED case => LoadInv'
  BY DEF case, LoadInv, LoadTyped, FilesInv, ReadInv, HashedInv, Slipped
<1>2. LoadInv /\ (Refuse \/ UseCase) => LoadInv'
  BY NothingLoaded DEF LoadInv, LoadTyped, Refuse, UseCase
<1>3. [Next]_vars => \/ HashFile \/ ReadFile \/ Refuse \/ \E n \in 1..3 : Edit(n)
                     \/ UseCase \/ UNCHANGED case
  BY DEF Next, vars, LoadCase, VerifySources, AnalyzeImpacts, DraftAndVerify,
         EvaluateResponseSupervisor, ExecuteBaseline, WriteBaselineEvaluation, EvaluateStored
<1>4. LoadInv /\ [Next]_vars => LoadInv'
  BY <1>1, <1>2, <1>3, HashFileLoad, ReadFileLoad, EditLoad
<1> QED
  BY <1>4, InitLoad, PTL DEF Spec

\* A case that was loaded has a dossier of its schema, frozen or edited.
LEMMA FixturePackaged ==
  ASSUME LoadInv, CaseLoaded
  PROVE  FixturePackage(Case) \in Packages /\ OpenIsShown(FixturePackage(Case))
<1> DEFINE d == load.read[1]
<1>1. Case.dossier = d
  BY DEF Case
<1>2. d.sources \subseteq Sources /\ d.claims \subseteq Claims /\ d.gaps \subseteq Gaps
  <2>1. 1 \in 1..Len(load.read) /\ CaseOrder[1] = "dossier"
    BY DEF CaseLoaded, CaseOrder
  <2>2. d \in Contents("dossier")
    BY <2>1 DEF LoadInv, ReadInv
  <2> QED
    BY <2>2, DossierAssumption
<1> HIDE DEF d
<1>3. {[source |-> s, raw |-> None] : s \in d.sources}
        \in SUBSET [source : Sources, raw : Activation \cup {None}]
  BY <1>2
<1>4. /\ FixturePackage(Case).snapshots = {[source |-> s, raw |-> None] : s \in d.sources}
      /\ FixturePackage(Case).status = "preliminary"
  BY <1>1 DEF FixturePackage
<1>5. FixturePackage(Case) \in Packages
  <2> DEFINE checked == [id |-> "fixture-integrity-verified", severity |-> "info"]
             warned == [id |-> "fixture-preliminary-claims", severity |-> "warning"]
             findings == {checked} \cup {warned : c \in {e \in d.claims : e.status = "preliminary"}}
  <2>1. checked \in Findings
    BY TextsAssumption DEF Findings
  <2>2. warned \in Findings
    BY TextsAssumption DEF Findings
  <2>3. FixturePackage(Case) = [snapshots |-> {[source |-> s, raw |-> None] : s \in d.sources},
                                claims |-> d.claims, findings |-> findings, gaps |-> d.gaps,
                                status |-> "preliminary"]
    BY <1>1 DEF FixturePackage
  <2> HIDE DEF checked, warned
  <2>4. findings \in SUBSET Findings
    BY <2>1, <2>2
  <2> HIDE DEF findings
  <2> QED
    BY <1>2, <1>3, <2>3, <2>4 DEF Packages
<1> QED
  BY <1>4, <1>5 DEF OpenIsShown

\* The analysis of a live package has gaps of areas only, not of the activation.
LEMMA LiveGaps ==
  ASSUME NEW p, NEW a \in Activations, p.snapshots = {[source |-> CemsSource, raw |-> a]},
         Analyze(p) # None
  PROVE  \A gap \in Analyze(p).gaps : gap.about # "no activation"
<1>1. {snapshot.raw : snapshot \in p.snapshots} \ {None} = {a}
  BY ActivationAssumption
<1>2. (CHOOSE raw \in {a} : TRUE) = a /\ {a} # {}
  OBVIOUS
<1> DEFINE impacts_ == {AoiImpact(aoi) : aoi \in Measured(a)}
           gaps_ == {[area |-> aoi.name, about |-> "no finished product"] : aoi \in Unfinished(a)} \cup
                    {[area |-> aoi.name, about |-> "no statistics yet"] : aoi \in Unmeasured(a)}
<1>3. Analyze(p) = ImpactPackage(impacts_, gaps_)
  BY <1>1, <1>2 DEF Analyze
<1>4. \A gap \in gaps_ : gap.about # "no activation"
  <2>1. \A aoi : /\ [area |-> aoi.name, about |-> "no finished product"].about # "no activation"
                /\ [area |-> aoi.name, about |-> "no statistics yet"].about # "no activation"
    OBVIOUS
  <2>2. \A gap \in gaps_ : \E aoi : gap \in {[area |-> aoi.name, about |-> "no finished product"],
                                           [area |-> aoi.name, about |-> "no statistics yet"]}
    OBVIOUS
  <2> QED
    BY <2>1, <2>2
<1>5. Analyze(p).gaps = gaps_
  <2> HIDE DEF gaps_, impacts_
  <2> QED
    BY <1>3 DEF ImpactPackage
<1> QED
  BY <1>4, <1>5

-----------------------------------------------------------------------------
\* Putting snapshots for sources leaves a response one.
LEMMA CanonicalizedTyped ==
  ASSUME NEW response \in Response, NEW sources
  PROVE  Canonicalized(response, sources) \in Response
<1> DEFINE cites(i) == [j \in DOMAIN response.actions[i].cites |->
                          Canonical(response.actions[i].cites[j], sources)]
           actions == [i \in DOMAIN response.actions |-> [response.actions[i] EXCEPT !.cites = cites(i)]]
<1>1. response.actions \in Seq(Action)
  BY DEF Response
<1>0. PICK n \in Nat : response.actions \in [1..n -> Action]
  BY <1>1
<1>2. ASSUME NEW i \in DOMAIN response.actions
      PROVE  [response.actions[i] EXCEPT !.cites = cites(i)] \in Action
  <2>0. response.actions[i] \in Action
    BY <1>0, <1>2
  <2>1. response.actions[i] \in Action /\ response.actions[i].cites \in Seq(Citation)
    BY <2>0 DEF Action
  <2>2. \A c \in Citation : Canonical(c, sources) \in Citation
    BY DEF Canonical, Citation
  <2>3. cites(i) \in Seq(Citation)
    <3>1. PICK m \in Nat : response.actions[i].cites \in [1..m -> Citation]
      BY <2>1
    <3>2. cites(i) \in [1..m -> Citation]
      BY <2>2, <3>1
    <3> QED
      BY <3>2
  <2> HIDE DEF cites
  <2> QED
    BY <2>1, <2>3 DEF Action
<1> HIDE DEF cites
<1>3. actions \in Seq(Action)
  <2>1. actions \in [1..n -> Action]
    BY <1>2, <1>0
  <2> HIDE DEF actions
  <2> QED
    BY <2>1
<1>4. Canonicalized(response, sources) = [response EXCEPT !.actions = actions]
  BY DEF Canonicalized, cites
<1> HIDE DEF actions
<1> QED
  BY <1>3, <1>4 DEF Response

\* What is stored of an answer, whichever the answer is.
LEMMA NoDraftTyped ==
  ASSUME NEW answer
  PROVE  NoDraft(answer) \in Artifact /\ NoDraft(answer).status = "failed" /\ NoDraft(answer).failure # "none"
<1>1. NoDraft(answer) \in {Failed("provider_not_configured", 0, None),
                           Failed("provider_error", 1, None), Failed("model_schema", 1, None)}
  BY DEF NoDraft
<1> HIDE DEF NoDraft
<1> QED
  BY <1>1 DEF Failed, Artifact, FailureCodes

\* A run of the supervisor: the citations of a draft are snapshots of its package.
LEMMA SupervisorRuns ==
  ASSUME NEW answer \in Answers, NEW sources, NEW run, run = RunResponseSupervisor(answer, sources)
  PROVE  /\ run \in Artifact
         /\ run.status = "failed" <=> run.failure # "none"
         /\ run.status # "failed" => /\ run.response \in Response
                                     /\ Citations(run.response) \subseteq Snapshots(sources)
<1>1. CASE answer.kind # "json" \/ ~SupervisorSchema(answer.response)
  BY <1>1, NoDraftTyped DEF RunResponseSupervisor
<1>2. CASE answer.kind = "json" /\ SupervisorSchema(answer.response)
  <2> DEFINE response == Canonicalized(answer.response, sources)
  <2>1. answer.response \in Response
    BY <1>2, AnswerAssumption DEF Answer
  <2>2. response \in Response
    BY <2>1, CanonicalizedTyped
  <2>3. run = IF Allowed(response, sources) THEN Completed(response)
              ELSE Failed("output_policy", 1, response)
    BY <1>2 DEF RunResponseSupervisor
  <2> HIDE DEF response
  <2>4. Allowed(response, sources) => Citations(response) \subseteq Snapshots(sources)
    BY DEF Allowed
  <2> QED
    BY <2>2, <2>3, <2>4 DEF Completed, Failed, Artifact, FailureCodes
<1> QED
  BY <1>1, <1>2

\* A run of the baseline.
LEMMA BaselineRuns ==
  ASSUME NEW answer \in Answers, NEW sources, NEW run, run = RunBaseline(answer, sources)
  PROVE  /\ run \in Artifact
         /\ run.status = "failed" <=> run.failure # "none"
         /\ run.status # "failed" => run.response \in Response
<1>1. CASE answer.kind # "json" \/ ~BaselineSchema(answer.response)
  BY <1>1, NoDraftTyped DEF RunBaseline
<1>2. CASE answer.kind = "json" /\ BaselineSchema(answer.response)
  <2>1. answer.response \in Response
    BY <1>2, AnswerAssumption DEF Answer
  <2> QED
    BY <1>2, <2>1 DEF RunBaseline, Completed, Failed, Artifact, FailureCodes
<1> QED
  BY <1>1, <1>2

\* A review finds no unknown reference in a draft that cites snapshots only.
LEMMA NothingUnknown ==
  ASSUME NEW response, NEW sources, NEW gaps, Citations(response) \subseteq Snapshots(sources)
  PROVE  \A f \in ReviewFindings(response, sources, gaps) : f.code # "unknown_evidence_reference"
<1> DEFINE astray == {a \in Members(response.actions) : ~(Members(a.cites) \subseteq Snapshots(sources))}
           alarming == {a \in Members(response.actions) : "verifier" \in a.alarms}
           left == {g \in gaps : g.about # "no activation" /\ GapTerms(g) # {} /\ ~Addressed(g, response)}
           unknown(action) == [code |-> "unknown_evidence_reference", about |-> action.id]
           unsafe(action) == [code |-> "unsafe_autonomous_action", about |-> action.id]
           unaddressed(gap) == [code |-> "unaddressed_data_gap", about |-> gap.area]
<1>1. astray = {}
  BY DEF Citations
<1>2. ReviewFindings(response, sources, gaps) =
        {unknown(action) : action \in astray} \cup {unsafe(action) : action \in alarming}
          \cup {unaddressed(gap) : gap \in left}
  BY DEF ReviewFindings
<1>3. \A x : unsafe(x).code # "unknown_evidence_reference" /\ unaddressed(x).code # "unknown_evidence_reference"
  OBVIOUS
<1> HIDE DEF astray, alarming, left, unknown, unsafe, unaddressed
<1> QED
  BY <1>1, <1>2, <1>3

\* A draft that passes names every area with a gap.
LEMMA PassedNames ==
  ASSUME NEW response, NEW sources, NEW gaps, \A gap \in gaps : gap.about # "no activation",
         ReviewResponseDraft(response, sources, gaps).verdict = "pass"
  PROVE  Names(response, gaps)
<1>1. ReviewFindings(response, sources, gaps) = {}
  BY DEF ReviewResponseDraft, Verdict
<1>2. ASSUME NEW gap \in gaps, GapTerms(gap) # {}
      PROVE  Addressed(gap, response)
  <2> SUFFICES ASSUME ~Addressed(gap, response) PROVE FALSE
    OBVIOUS
  <2>1. [code |-> "unaddressed_data_gap", about |-> gap.area] \in ReviewFindings(response, sources, gaps)
    BY <1>2 DEF ReviewFindings
  <2> QED
    BY <1>1, <2>1
<1>3. ASSUME NEW gap \in gaps, [area |-> gap.area, form |-> "name"] \notin Vague
      PROVE  Worded(gap.area, response)
  <2> DEFINE form == IF gap.about = "no statistics yet" THEN "product" ELSE "name"
  <2>1. [area |-> gap.area, form |-> form] \notin Vague
    <3>1. [area |-> gap.area, form |-> "product"].form = "product"
      OBVIOUS
    <3>2. [area |-> gap.area, form |-> "product"] \notin Vague
      BY <3>1, VagueAssumption
    <3> QED
      BY <1>3, <3>2
  <2>2. GapTerms(gap) # {}
    BY <2>1 DEF GapTerms
  <2>3. PICK t \in GapTerms(gap), u \in VisibleText(response) : Occurs(t, u)
    BY <1>2, <2>2 DEF Addressed
  <2>4. \E f \in {"name", "place", "product"} : t = [area |-> gap.area, form |-> f]
    BY <2>3 DEF GapTerms
  <2> QED
    BY <2>3, <2>4 DEF Worded
<1> QED
  BY <1>3 DEF Names

\* The counts of a draft that cites snapshots only.
LEMMA NothingMissing ==
  ASSUME NEW response, NEW sources, Citations(response) \subseteq Snapshots(sources)
  PROVE  /\ AgentCounts(response, sources).missing = 0
         /\ AgentCounts(response, sources).valid = Cardinality(References(response))
<1> DEFINE known(ref) == response.actions[ref[1]].cites[ref[2]] \in Snapshots(sources)
<1>1. Citations(response) \ Snapshots(sources) = {}
  OBVIOUS
<1>2. \A ref \in References(response) : known(ref)
  <2> SUFFICES ASSUME NEW i \in DOMAIN response.actions, NEW j \in DOMAIN response.actions[i].cites
               PROVE  response.actions[i].cites[j] \in Snapshots(sources)
    BY DEF References
  <2>1. response.actions[i].cites[j] \in Citations(response)
    BY DEF Citations, Members
  <2> QED
    BY <2>1
<1>3. {ref \in References(response) : known(ref)} = References(response)
  BY <1>2
<1>4. /\ AgentCounts(response, sources).missing = Cardinality(Citations(response) \ Snapshots(sources))
      /\ AgentCounts(response, sources).valid = Cardinality({ref \in References(response) : known(ref)})
  BY DEF AgentCounts
<1> HIDE DEF known
<1> QED
  BY <1>1, <1>3, <1>4, FS_EmptySet

-----------------------------------------------------------------------------
\* What is there at each stage.
StagesInOrder ==
  /\ kind \in {"live", "fixture", "baseline"}
  /\ stage \in {"source_check", "impact_analysis"} =>
       kind # "baseline" /\ impacts = None /\ artifact = None /\ review = None
  /\ stage = "impact_analysis" => package # None /\ package.status # "conflicting"
  /\ kind # "baseline" /\ stage \in {"action_drafting", "evidence_verification"} => impacts # None
  /\ stage \in {"evidence_verification", "awaiting_human_review"} => artifact.status # "failed"
  /\ stage \notin {"awaiting_human_review", "blocked"} => report = None

\* What was let pass cites snapshots of the package only.
Cited ==
  kind # "baseline" /\ artifact # None /\ artifact.status # "failed" =>
    Citations(artifact.response) \subseteq Snapshots(SourcesOf(package))

\* What of a live run comes from its activation.
FromActivation ==
  kind = "live" =>
    /\ package # None =>
         \E a \in Activations : package.snapshots = {[source |-> CemsSource, raw |-> a]}
    /\ impacts # None => \A gap \in impacts.gaps : gap.about # "no activation"

PackageShows ==
  package # None => OpenIsShown(package) /\ (kind = "live" => PendingIsShown(package))

DraftNames ==
  stage \in {"evidence_verification", "awaiting_human_review"} /\ kind = "live" =>
    Names(artifact.response, impacts.gaps)

NothingUnknownFound ==
  review # None => \A f \in review.findings : f.code # "unknown_evidence_reference"

NoneMissing ==
  report # None /\ report.counts # None =>
    /\ report.counts.missing = 0
    /\ report.counts.valid = Cardinality(References(artifact.response))

PipelineInv ==
  /\ TypeOK /\ StagesInOrder /\ Cited /\ FromActivation
  /\ PackageShows /\ DraftNames /\ NothingUnknownFound /\ NoneMissing

-----------------------------------------------------------------------------
LEMMA InitInv == Init => PipelineInv
<1> SUFFICES ASSUME Init PROVE PipelineInv
  OBVIOUS
<1> USE DEF Init
<1>1. TypeOK
  BY DEF TypeOK, Stages
<1>2. StagesInOrder
  BY DEF StagesInOrder
<1>3. Cited /\ FromActivation
  BY DEF Cited, FromActivation
<1>4. PackageShows /\ DraftNames /\ NothingUnknownFound /\ NoneMissing
  BY DEF PackageShows, DraftNames, NothingUnknownFound, NoneMissing
<1> QED
  BY <1>1, <1>2, <1>3, <1>4 DEF PipelineInv

LEMMA LoadCaseInv ==
  ASSUME PipelineInv, LoadCase
  PROVE  PipelineInv'
<1>0. UNCHANGED <<kind, stage, attempt, package, impacts, artifact, review, report, judged>>
  BY DEF LoadCase
<1>1. TypeOK'
  BY <1>0 DEF PipelineInv, TypeOK
<1>2. StagesInOrder' /\ Cited' /\ FromActivation'
  BY <1>0 DEF PipelineInv, StagesInOrder, Cited, FromActivation
<1>3. PackageShows' /\ DraftNames' /\ NothingUnknownFound' /\ NoneMissing'
  BY <1>0 DEF PipelineInv, PackageShows, DraftNames, NothingUnknownFound, NoneMissing
<1> QED
  BY <1>1, <1>2, <1>3 DEF PipelineInv

\* Retrieving the package, from the activation or from the case.
LEMMA VerifySourcesInv ==
  ASSUME PipelineInv, LoadInv, VerifySources
  PROVE  PipelineInv'
<1>1. PICK p : TakePackage(p) /\ p \in Packages /\ OpenIsShown(p)
                 /\ (kind = "live" => /\ PendingIsShown(p)
                                      /\ \E a \in Activations : p.snapshots = {[source |-> CemsSource, raw |-> a]})
  <2>1. CASE kind = "live"
    <3>1. PICK a \in Activations : Fetch(a) # None /\ TakePackage(Fetch(a))
      BY <2>1 DEF VerifySources
    <3> QED
      BY <3>1, FetchedPackage
  <2>2. CASE kind = "fixture" /\ UseCase /\ TakePackage(FixturePackage(Case))
    <3> DEFINE p == FixturePackage(Case)
    <3>1. p \in Packages /\ OpenIsShown(p) /\ TakePackage(p) /\ kind # "live"
      BY <2>2, FixturePackaged DEF UseCase
    <3> HIDE DEF p
    <3> QED
      BY <3>1
  <2> QED
    BY <2>1, <2>2 DEF VerifySources
<1>2. stage = "source_check" /\ package' = p /\ p # None
  BY <1>1, NoneAssumption DEF VerifySources, TakePackage
<1>3. /\ stage' = IF p.status = "conflicting" THEN "blocked" ELSE "impact_analysis"
      /\ UNCHANGED <<kind, attempt, impacts, artifact, review, report, judged>>
  BY <1>1 DEF TakePackage
<1>4. kind # "baseline" /\ impacts = None /\ artifact = None /\ review = None /\ report = None
  BY <1>2 DEF PipelineInv, StagesInOrder
<1>5. TypeOK'
  BY <1>1, <1>2, <1>3, <1>4 DEF PipelineInv, TypeOK, Stages
<1>6. StagesInOrder'
  BY <1>2, <1>3, <1>4 DEF PipelineInv, StagesInOrder
<1>7. Cited' /\ FromActivation'
  BY <1>1, <1>2, <1>3, <1>4 DEF Cited, FromActivation
<1>8. PackageShows'
  BY <1>1, <1>2, <1>3 DEF PackageShows, OpenIsShown, PendingIsShown
<1>9. DraftNames' /\ NothingUnknownFound' /\ NoneMissing'
  BY <1>3, <1>4 DEF DraftNames, NothingUnknownFound, NoneMissing
<1> QED
  BY <1>5, <1>6, <1>7, <1>8, <1>9 DEF PipelineInv

LEMMA AnalyzeImpactsInv ==
  ASSUME PipelineInv, AnalyzeImpacts
  PROVE  PipelineInv'
<1> USE DEF AnalyzeImpacts
<1>1. /\ kind # "baseline" /\ artifact = None /\ review = None /\ report = None
      /\ package # None /\ package.status # "conflicting"
  BY DEF PipelineInv, StagesInOrder
<1>2. TypeOK'
  BY <1>1 DEF PipelineInv, TypeOK, Stages
<1>3. StagesInOrder'
  BY <1>1 DEF PipelineInv, StagesInOrder
<1>4. Cited'
  BY <1>1 DEF Cited
<1>5. FromActivation'
  <2> SUFFICES ASSUME kind = "live"
               PROVE  /\ \E a \in Activations : package.snapshots = {[source |-> CemsSource, raw |-> a]}
                      /\ \A gap \in Analyze(package).gaps : gap.about # "no activation"
    BY DEF FromActivation
  <2>1. PICK a \in Activations : package.snapshots = {[source |-> CemsSource, raw |-> a]}
    BY <1>1 DEF PipelineInv, FromActivation
  <2>2. Analyze(package) # None
    OBVIOUS
  <2> QED
    BY <2>1, <2>2, LiveGaps
<1>6. PackageShows' /\ DraftNames' /\ NothingUnknownFound' /\ NoneMissing'
  BY <1>1 DEF PipelineInv, PackageShows, DraftNames, NothingUnknownFound, NoneMissing
<1> QED
  BY <1>2, <1>3, <1>4, <1>5, <1>6 DEF PipelineInv

\* A draft and its review: the draft is blocked, sent back or let pass.
LEMMA DraftAndVerifyInv ==
  ASSUME PipelineInv, DraftAndVerify
  PROVE  PipelineInv'
<1>1. /\ stage = "action_drafting" /\ kind # "baseline"
      /\ UNCHANGED <<kind, package, impacts, report, judged>>
  BY DEF DraftAndVerify
<1>2. impacts # None /\ report = None
  BY <1>1 DEF PipelineInv, StagesInOrder
<1>3. PICK answer \in Answers : artifact' = RunResponseSupervisor(answer, SourcesOf(package))
  BY DEF DraftAndVerify
<1>4. /\ artifact' \in Artifact /\ artifact' # None
      /\ artifact'.status = "failed" <=> artifact'.failure # "none"
      /\ artifact'.status # "failed" =>
           Citations(artifact'.response) \subseteq Snapshots(SourcesOf(package))
  BY <1>3, SupervisorRuns, NoneAssumption
<1>5. \/ artifact'.status = "failed" /\ stage' = "blocked" /\ attempt' = attempt /\ review' = review
      \/ /\ artifact'.status # "failed"
         /\ review' = ReviewResponseDraft(artifact'.response, SourcesOf(package), impacts.gaps)
         /\ \/ review'.verdict = "pass" /\ stage' = "evidence_verification" /\ attempt' = attempt
            \/ stage' = "action_drafting" /\ attempt < 2 /\ attempt' = attempt + 1
            \/ stage' = "blocked" /\ attempt' = attempt
  BY <1>1 DEF DraftAndVerify
<1>6. TypeOK'
  <2>1. package \in Packages \cup {None} /\ package # None /\ package.status # "conflicting"
    BY <1>2 DEF PipelineInv, TypeOK
  <2>2. stage' \in Stages /\ attempt' \in 0..2
    BY <1>5 DEF PipelineInv, TypeOK, Stages
  <2>3. review' # None => review'.verdict \in {"pass", "revise", "reject"}
    BY <1>5 DEF PipelineInv, TypeOK, ReviewResponseDraft, Verdict
  <2> QED
    BY <1>1, <1>2, <1>4, <2>1, <2>2, <2>3 DEF TypeOK
<1>7. StagesInOrder'
  BY <1>1, <1>2, <1>5 DEF PipelineInv, StagesInOrder
<1>8. Cited'
  BY <1>1, <1>4 DEF Cited, SourcesOf
<1>9. FromActivation' /\ PackageShows'
  BY <1>1 DEF PipelineInv, FromActivation, PackageShows
<1>10. DraftNames'
  <2> SUFFICES ASSUME stage' = "evidence_verification", kind = "live"
               PROVE  Names(artifact'.response, impacts.gaps)
    BY <1>1, <1>5 DEF DraftNames
  <2>1. ReviewResponseDraft(artifact'.response, SourcesOf(package), impacts.gaps).verdict = "pass"
    BY <1>5
  <2>2. \A gap \in impacts.gaps : gap.about # "no activation"
    BY <1>2 DEF PipelineInv, FromActivation
  <2> QED
    BY <2>1, <2>2, PassedNames
<1>11. NothingUnknownFound'
  <2>1. CASE review' = review
    BY <2>1 DEF PipelineInv, NothingUnknownFound
  <2>2. CASE /\ artifact'.status # "failed"
             /\ review' = ReviewResponseDraft(artifact'.response, SourcesOf(package), impacts.gaps)
    <3>1. review'.findings = ReviewFindings(artifact'.response, SourcesOf(package), impacts.gaps)
      BY <2>2 DEF ReviewResponseDraft
    <3> QED
      BY <1>4, <2>2, <3>1, NothingUnknown DEF NothingUnknownFound
  <2> QED
    BY <1>5, <2>1, <2>2
<1>12. NoneMissing'
  BY <1>1, <1>2 DEF NoneMissing
<1> QED
  BY <1>6, <1>7, <1>8, <1>9, <1>10, <1>11, <1>12 DEF PipelineInv

\* An action that stores a report and changes neither the draft nor the package.
LEMMA ReportInv ==
  ASSUME PipelineInv, UNCHANGED <<kind, attempt, package, impacts, artifact, review>>,
         stage' \in {"awaiting_human_review", "blocked"},
         stage' # stage => stage = "evidence_verification", NoneMissing'
  PROVE  PipelineInv'
<1>1. TypeOK'
  BY DEF PipelineInv, TypeOK, Stages
<1>2. StagesInOrder'
  BY DEF PipelineInv, StagesInOrder
<1>3. Cited'
  BY DEF PipelineInv, Cited, SourcesOf
<1>4. FromActivation' /\ PackageShows'
  BY DEF PipelineInv, FromActivation, PackageShows
<1>5. DraftNames' /\ NothingUnknownFound'
  BY DEF PipelineInv, DraftNames, NothingUnknownFound
<1> QED
  BY <1>1, <1>2, <1>3, <1>4, <1>5 DEF PipelineInv

LEMMA EvaluateResponseSupervisorInv ==
  ASSUME PipelineInv, EvaluateResponseSupervisor
  PROVE  PipelineInv'
<1>1. artifact # None /\ artifact.status # "failed" /\ kind # "baseline"
  BY DEF EvaluateResponseSupervisor, PipelineInv, TypeOK, StagesInOrder
<1>2. report'.counts = AgentCounts(artifact.response, SourcesOf(package))
  BY DEF EvaluateResponseSupervisor, Unjudged, Report
<1>3. Citations(artifact.response) \subseteq Snapshots(SourcesOf(package))
  BY <1>1 DEF PipelineInv, Cited
<1>4. NoneMissing'
  BY <1>2, <1>3, NothingMissing DEF EvaluateResponseSupervisor, NoneMissing
<1> QED
  BY <1>4, ReportInv DEF EvaluateResponseSupervisor

LEMMA ExecuteBaselineInv ==
  ASSUME PipelineInv, ExecuteBaseline
  PROVE  PipelineInv'
<1>1. /\ stage = "action_drafting" /\ kind = "baseline"
      /\ UNCHANGED <<kind, attempt, package, impacts, review, judged>>
  BY DEF ExecuteBaseline
<1>2. report = None
  BY <1>1 DEF PipelineInv, StagesInOrder
<1>3. PICK answer \in Answers : artifact' = RunBaseline(answer, Case.dossier.sources)
  BY DEF ExecuteBaseline
<1>4. /\ artifact' \in Artifact /\ artifact' # None
      /\ artifact'.status = "failed" <=> artifact'.failure # "none"
  BY <1>3, BaselineRuns, NoneAssumption
<1>5. \/ artifact'.status = "failed" /\ stage' = "blocked" /\ report' = RunFailed
      \/ artifact'.status # "failed" /\ stage' = "evidence_verification" /\ report' = report
  BY DEF ExecuteBaseline
<1>6. TypeOK'
  BY <1>1, <1>4, <1>5 DEF PipelineInv, TypeOK, Stages
<1>7. StagesInOrder'
  BY <1>1, <1>2, <1>5 DEF PipelineInv, StagesInOrder
<1>8. Cited' /\ FromActivation' /\ DraftNames'
  BY <1>1 DEF Cited, FromActivation, DraftNames
<1>9. PackageShows' /\ NothingUnknownFound'
  BY <1>1 DEF PipelineInv, PackageShows, NothingUnknownFound
<1>10. NoneMissing'
  BY <1>2, <1>5 DEF NoneMissing, RunFailed, Report
<1> QED
  BY <1>6, <1>7, <1>8, <1>9, <1>10 DEF PipelineInv

LEMMA WriteBaselineEvaluationInv ==
  ASSUME PipelineInv, WriteBaselineEvaluation
  PROVE  PipelineInv'
<1>1. report'.counts = BaselineCounts(artifact.response)
  BY DEF WriteBaselineEvaluation, Unjudged, Report
<1>2. NoneMissing'
  BY <1>1 DEF WriteBaselineEvaluation, NoneMissing, BaselineCounts
<1> QED
  BY <1>2, ReportInv DEF WriteBaselineEvaluation

LEMMA EvaluateStoredInv ==
  ASSUME PipelineInv, EvaluateStored
  PROVE  PipelineInv'
<1>1. /\ artifact # None
      /\ stage \in {"awaiting_human_review", "blocked"}
      /\ UNCHANGED <<kind, stage, attempt, package, impacts, artifact, review>>
  BY DEF EvaluateStored
<1>2. report'.counts = None \/ (artifact.status = "completed" /\ report'.counts = Counts)
  BY DEF EvaluateStored, RunFailed, Unjudged, Judged, Report
<1>3. NoneMissing'
  <2>1. CASE report'.counts = None
    BY <2>1 DEF NoneMissing
  <2>2. CASE report'.counts = Counts /\ kind = "baseline"
    BY <1>1, <2>2 DEF NoneMissing, Counts, BaselineCounts
  <2>3. CASE artifact.status = "completed" /\ report'.counts = Counts /\ kind # "baseline"
    <3>1. Citations(artifact.response) \subseteq Snapshots(SourcesOf(package))
      BY <1>1, <2>3 DEF PipelineInv, Cited
    <3>2. report'.counts = AgentCounts(artifact.response, SourcesOf(package))
      BY <2>3 DEF Counts
    <3> QED
      BY <1>1, <3>1, <3>2, NothingMissing DEF NoneMissing
  <2> QED
    BY <1>2, <2>1, <2>2, <2>3
<1> QED
  BY <1>1, <1>3, ReportInv

LEMMA StutterInv ==
  ASSUME PipelineInv, UNCHANGED vars
  PROVE  PipelineInv'
<1> USE DEF vars
<1>1. TypeOK'
  BY DEF PipelineInv, TypeOK
<1>2. StagesInOrder' /\ Cited' /\ FromActivation'
  BY DEF PipelineInv, StagesInOrder, Cited, FromActivation
<1>3. PackageShows' /\ DraftNames' /\ NothingUnknownFound' /\ NoneMissing'
  BY DEF PipelineInv, PackageShows, DraftNames, NothingUnknownFound, NoneMissing
<1> QED
  BY <1>1, <1>2, <1>3 DEF PipelineInv

LEMMA Invariance == Spec => []PipelineInv
<1>1. Init => PipelineInv
  BY InitInv
<1>2. PipelineInv /\ LoadInv /\ [Next]_vars => PipelineInv'
  BY LoadCaseInv, VerifySourcesInv, AnalyzeImpactsInv, DraftAndVerifyInv,
     EvaluateResponseSupervisorInv, ExecuteBaselineInv, WriteBaselineEvaluationInv,
     EvaluateStoredInv, StutterInv DEF Next
<1> QED
  BY <1>1, <1>2, AlwaysLoaded, PTL DEF Spec

\* The artifacts have their declared form at every stage, for all activations,
\* case files and answers of the model.
THEOREM TypeCorrect == Spec => []TypeOK
<1>1. PipelineInv => TypeOK
  BY DEF PipelineInv
<1> QED
  BY <1>1, Invariance, PTL

\* A citation the output policy of run_response_supervisor let pass is known to
\* the safety review and to both evaluators.
THEOREM Citing == Spec => []CitationsHold
<1>1. PipelineInv => CitationsHold
  BY DEF PipelineInv, NothingUnknownFound, NoneMissing, CitationsHold
<1> QED
  BY <1>1, Invariance, PTL

\* Open questions about the event stay visible, in the package and in a draft
\* that passed the review.
THEOREM Uncertainty == Spec => []UncertaintyShown
<1>1. PipelineInv => UncertaintyShown
  BY DEF PipelineInv, PackageShows, DraftNames, OpenIsShown, PendingIsShown, Names, Worded,
         UncertaintyShown
<1> QED
  BY <1>1, Invariance, PTL

-----------------------------------------------------------------------------
\* A finished product that no other is newer than is there, because there are
\* finitely many: the one with the fewest above it.
LEMMA NewestIsThere ==
  ASSUME NEW aoi \in Aoi, IsFiniteSet(aoi.products), Finished(aoi) # {}
  PROVE  NewestFinished(aoi) \in aoi.products /\ Newest(NewestFinished(aoi), aoi)
<1> DEFINE S == Finished(aoi)
           above(p) == {q \in S : Older(p, q)}
           aboves == {above(p) : p \in S}
<1>1. IsFiniteSet(S)
  BY FS_Subset DEF Finished
<1>2. \A p \in S : p.delivered \in Nat /\ p.version \in Nat /\ p.status = "F" /\ p \in aoi.products
  BY DEF Finished, Aoi, Product
<1>3. IsWellFoundedOn(StrictSubsetOrdering(S), SUBSET S)
  BY <1>1, FS_StrictSubsetOrderingWellFounded, FS_FiniteSubsetsOfFinite
<1>4. PICK least \in aboves : \A t \in aboves : <<t, least>> \notin StrictSubsetOrdering(S)
  <2>1. aboves \subseteq SUBSET S /\ aboves # {}
    OBVIOUS
  <2> HIDE DEF aboves
  <2> QED
    BY <1>3, <2>1, WFMin
<1>5. PICK p \in S : least = above(p)
  BY <1>4
<1>6. ASSUME NEW q \in S, Older(p, q) PROVE FALSE
  <2>1. above(q) \subseteq above(p)
    BY <1>2, <1>6 DEF Older
  <2>2. q \in above(p) /\ q \notin above(q)
    BY <1>2, <1>6 DEF Older
  <2>3. <<above(q), above(p)>> \in StrictSubsetOrdering(S)
    BY <2>1, <2>2 DEF StrictSubsetOrdering
  <2> QED
    BY <1>4, <1>5, <2>3
<1>7. NewestFinished(aoi) \in S /\ \A q \in S : ~Older(NewestFinished(aoi), q)
  BY <1>6 DEF NewestFinished
<1>8. \A q \in aoi.products : q.status = "F" => q \in S
  BY DEF Finished
<1> HIDE DEF S
<1> QED
  BY <1>2, <1>7, <1>8 DEF Newest, Older

\* A set has no more elements than one that it is an image of.
LEMMA ImageCount ==
  ASSUME NEW S, IsFiniteSet(S), NEW f, NEW T, T = {f[x] : x \in S}, DOMAIN f = S, f = [x \in S |-> f[x]]
  PROVE  Cardinality(T) <= Cardinality(S) /\ Cardinality(T) \in Nat /\ Cardinality(S) \in Nat
<1>1. f \in Surjection(S, T)
  BY DEF Surjection
<1> QED
  BY <1>1, FS_Surjection, FS_CardinalityType

\* Nor do two such images of disjoint parts of a set, together.
LEMMA ImagesCount ==
  ASSUME NEW all, IsFiniteSet(all), NEW A, NEW B, A \cup B = all, A \cap B = {},
         NEW f, DOMAIN f = A, f = [x \in A |-> f[x]],
         NEW g, DOMAIN g = B, g = [x \in B |-> g[x]],
         NEW S, S = {f[x] : x \in A}, NEW T, T = {g[x] : x \in B}
  PROVE  Cardinality(S) + Cardinality(T) <= Cardinality(all)
<1>1. IsFiniteSet(A) /\ IsFiniteSet(B)
  <2>1. A \in SUBSET all /\ B \in SUBSET all
    OBVIOUS
  <2> QED
    BY <2>1, FS_Subset
<1>2. Cardinality(S) <= Cardinality(A) /\ Cardinality(S) \in Nat /\ Cardinality(A) \in Nat
  BY <1>1, ImageCount
<1>3. Cardinality(T) <= Cardinality(B) /\ Cardinality(T) \in Nat /\ Cardinality(B) \in Nat
  BY <1>1, ImageCount
<1>4. Cardinality(A \cup B) = Cardinality(A) + Cardinality(B) - Cardinality(A \cap B)
  BY <1>1, FS_Union
<1>5. Cardinality(A \cap B) = 0
  <2>1. Cardinality({}) = 0
    BY FS_EmptySet
  <2> QED
    BY <2>1
<1>6. Cardinality(A \cup B) = Cardinality(all)
  BY Zenon
<1>7. Cardinality(all) = Cardinality(A) + Cardinality(B)
  BY ONLY <1>2, <1>3, <1>4, <1>5, <1>6
<1> QED
  BY ONLY <1>2, <1>3, <1>7

\* The areas of an activation that can be analysed, one by one.
LEMMA ListedAre ==
  ASSUME NEW a \in Activations, a.aois # None
  PROVE  /\ Listed(a) \subseteq Aoi /\ IsFiniteSet(Listed(a))
         /\ \A aoi \in Listed(a) : IsFiniteSet(aoi.products)
         /\ Measured(a) \subseteq Listed(a)
         /\ \A aoi \in Measured(a) : Finished(aoi) # {} /\ NewestFinished(aoi).stats # None
<1>1. a.aois \subseteq Aoi
  BY ActivationAssumption DEF Activation
<1>2. Listed(a) \in SUBSET a.aois /\ IsFiniteSet(a.aois)
  BY ListsAssumption DEF Listed
<1>3. IsFiniteSet(Listed(a))
  BY <1>2, FS_Subset
<1>4. \A aoi \in Listed(a) : IsFiniteSet(aoi.products)
  BY <1>2, ListsAssumption
<1> QED
  BY <1>1, <1>2, <1>3, <1>4 DEF Measured, Unfinished, Unmeasured

\* The impacts and gaps of an activation are its account.
LEMMA AnalysisAccounts ==
  ASSUME NEW a \in Activations, a.aois # None, NEW entries,
         entries.impacts = {AoiImpact(aoi) : aoi \in Measured(a)},
         entries.gaps =
           {[area |-> aoi.name, about |-> "no finished product"] : aoi \in Unfinished(a)} \cup
           {[area |-> aoi.name, about |-> "no statistics yet"] : aoi \in Unmeasured(a)}
  PROVE  Account(a, entries)
<1> DEFINE listed == Listed(a)
           called(name) == {aoi \in listed : aoi.name = name}
           of(set, name) == {x \in set : x.area = name}
           reports(x, aoi) == \E p \in aoi.products :
             Newest(p, aoi) /\ p.stats # None /\ p.stats["population"] = x.population
           silent(aoi) == \A p \in aoi.products :
             p.status = "F" => \E q \in aoi.products : Newest(q, aoi) /\ q.stats = None
           gap(aoi) == [area |-> aoi.name, about |-> IF aoi \in Unfinished(a) THEN "no finished product"
                                                     ELSE "no statistics yet"]
           rest == listed \ Measured(a)
<1>1. ASSUME NEW aoi \in Measured(a)
      PROVE  /\ aoi \in called(AoiImpact(aoi).area) /\ AoiImpact(aoi).area = aoi.name
             /\ reports(AoiImpact(aoi), aoi)
  <2>1. aoi \in listed /\ aoi \in Aoi /\ IsFiniteSet(aoi.products)
    BY ListedAre
  <2>2. Finished(aoi) # {} /\ NewestFinished(aoi).stats # None
    BY ListedAre
  <2>3. NewestFinished(aoi) \in aoi.products /\ Newest(NewestFinished(aoi), aoi)
    BY <2>1, <2>2, NewestIsThere
  <2>4. /\ AoiImpact(aoi).area = aoi.name
        /\ AoiImpact(aoi).population = NewestFinished(aoi).stats["population"]
    BY DEF AoiImpact
  <2> QED
    BY <2>1, <2>2, <2>3, <2>4
<1>2. ASSUME NEW aoi \in rest
      PROVE  silent(aoi)
  <2>1. aoi \in Aoi /\ IsFiniteSet(aoi.products)
    BY ListedAre
  <2>2. CASE Finished(aoi) = {}
    BY <2>2 DEF Finished
  <2>3. CASE Finished(aoi) # {} /\ NewestFinished(aoi).stats = None
    BY <2>1, <2>3, NewestIsThere
  <2> QED
    BY <2>2, <2>3 DEF Measured, Unfinished, Unmeasured
<1>3. entries.gaps = {gap(aoi) : aoi \in rest} /\ \A aoi : gap(aoi).area = aoi.name
  <2>1. /\ Unfinished(a) \subseteq listed /\ Unmeasured(a) \subseteq listed
        /\ Unfinished(a) \cap Unmeasured(a) = {}
    BY DEF Unfinished, Unmeasured
  <2>2. rest = Unfinished(a) \cup Unmeasured(a)
    BY <2>1 DEF Measured
  <2> HIDE DEF rest, listed
  <2>3. /\ \A aoi \in Unfinished(a) : gap(aoi) = [area |-> aoi.name, about |-> "no finished product"]
        /\ \A aoi \in Unmeasured(a) : gap(aoi) = [area |-> aoi.name, about |-> "no statistics yet"]
    BY <2>1
  <2> QED
    BY <2>2, <2>3
<1> HIDE DEF reports, silent, gap
<1>4. \A x \in entries.impacts : \E aoi \in called(x.area) : reports(x, aoi)
  BY <1>1
<1>5. \A g \in entries.gaps : \E aoi \in called(g.area) : silent(aoi)
  BY <1>2, <1>3
<1>6. ASSUME NEW aoi \in listed
      PROVE  \/ \E x \in of(entries.impacts, aoi.name) : reports(x, aoi)
             \/ silent(aoi) /\ of(entries.gaps, aoi.name) # {}
  <2>1. CASE aoi \in Measured(a)
    BY <1>1, <2>1
  <2>2. CASE aoi \in rest
    BY <1>2, <1>3, <2>2
  <2> QED
    BY <2>1, <2>2
<1>7. ASSUME NEW name
      PROVE  Cardinality(of(entries.impacts, name)) + Cardinality(of(entries.gaps, name))
               <= Cardinality(called(name))
  <2> DEFINE all == called(name)
             with == all \cap Measured(a)
             without == all \cap rest
             found == of(entries.impacts, name)
             missing == of(entries.gaps, name)
             f == [aoi \in with |-> AoiImpact(aoi)]
             g == [aoi \in without |-> gap(aoi)]
  <2>1. IsFiniteSet(all)
    BY ListedAre, FS_Subset
  <2>2. with \cup without = all /\ with \cap without = {}
    BY ListedAre
  <2>3. found = {f[aoi] : aoi \in with} /\ DOMAIN f = with /\ f = [aoi \in with |-> f[aoi]]
    BY <1>1
  <2>4. missing = {g[aoi] : aoi \in without} /\ DOMAIN g = without /\ g = [aoi \in without |-> g[aoi]]
    BY <1>3
  <2> SUFFICES Cardinality(found) + Cardinality(missing) <= Cardinality(all)
    OBVIOUS
  <2> HIDE DEF all, with, without, found, missing, f, g
  <2>5. with \cup without = all
    BY <2>2
  <2>6. with \cap without = {}
    BY <2>2
  <2>7. found = {f[aoi] : aoi \in with}
    BY <2>3
  <2>8. DOMAIN f = with
    BY <2>3
  <2>9. f = [aoi \in with |-> f[aoi]]
    BY <2>3
  <2>10. missing = {g[aoi] : aoi \in without}
    BY <2>4
  <2>11. DOMAIN g = without
    BY <2>4
  <2>12. g = [aoi \in without |-> g[aoi]]
    BY <2>4
  <2> QED
    BY ONLY <2>1, <2>5, <2>6, <2>7, <2>8, <2>9, <2>10, <2>11, <2>12, ImagesCount
<1> QED
  BY <1>4, <1>5, <1>6, <1>7 DEF Account, Listed, reports, silent

-----------------------------------------------------------------------------
\* The impact package is made of the evidence package, once.
Analyzed == impacts # None => package # None /\ impacts = Analyze(package)

LEMMA AnalyzedStep ==
  ASSUME PipelineInv, Analyzed, [Next]_vars
  PROVE  Analyzed'
<1>1. CASE VerifySources
  <2>1. PICK p : TakePackage(p)
    BY <1>1 DEF VerifySources
  <2>2. impacts' = None
    BY <1>1, <2>1 DEF VerifySources, TakePackage, PipelineInv, StagesInOrder
  <2> QED
    BY <2>2 DEF Analyzed
<1>2. CASE AnalyzeImpacts
  BY <1>2 DEF AnalyzeImpacts, Analyzed, PipelineInv, StagesInOrder
<1>3. CASE UNCHANGED <<package, impacts>>
  BY <1>3 DEF Analyzed
<1>4. VerifySources \/ AnalyzeImpacts \/ UNCHANGED <<package, impacts>>
  BY DEF Next, vars, LoadCase, DraftAndVerify, EvaluateResponseSupervisor, ExecuteBaseline,
         WriteBaselineEvaluation, EvaluateStored
<1> QED
  BY <1>1, <1>2, <1>3, <1>4

LEMMA AlwaysAnalyzed == Spec => []Analyzed
<1>1. Init => Analyzed
  BY DEF Init, Analyzed
<1>2. PipelineInv /\ Analyzed /\ [Next]_vars => Analyzed'
  BY AnalyzedStep
<1> QED
  BY <1>1, <1>2, Invariance, PTL DEF Spec

\* The analysis of a package of one activation is of its areas.
LEMMA LiveAnalysis ==
  ASSUME NEW p, NEW a \in Activations, p.snapshots = {[source |-> CemsSource, raw |-> a]},
         Analyze(p) # None
  PROVE  /\ a.aois # None
         /\ Analyze(p).impacts = {AoiImpact(aoi) : aoi \in Measured(a)}
         /\ Analyze(p).gaps =
              {[area |-> aoi.name, about |-> "no finished product"] : aoi \in Unfinished(a)} \cup
              {[area |-> aoi.name, about |-> "no statistics yet"] : aoi \in Unmeasured(a)}
<1> DEFINE found(raw) == {AoiImpact(aoi) : aoi \in Measured(raw)}
           open(raw) == {[area |-> aoi.name, about |-> "no finished product"] : aoi \in Unfinished(raw)} \cup
                        {[area |-> aoi.name, about |-> "no statistics yet"] : aoi \in Unmeasured(raw)}
           saved == {snapshot.raw : snapshot \in p.snapshots} \ {None}
<1>1. a # None
  BY ActivationAssumption
<1>2. saved = {a}
  BY <1>1
<1>3. (CHOOSE raw \in saved : TRUE) = a /\ saved # {}
  BY <1>2
<1>4. Analyze(p) = IF saved = {} THEN ImpactPackage({}, {[area |-> None, about |-> "no activation"]})
                   ELSE IF (CHOOSE raw \in saved : TRUE).aois = None
                           \/ \E impact \in found(CHOOSE raw \in saved : TRUE) : Refused(impact) THEN None
                   ELSE ImpactPackage(found(CHOOSE raw \in saved : TRUE), open(CHOOSE raw \in saved : TRUE))
  BY DEF Analyze
<1> HIDE DEF found, open, saved
<1>5. Analyze(p) = IF a.aois = None \/ \E impact \in found(a) : Refused(impact) THEN None
                   ELSE ImpactPackage(found(a), open(a))
  BY <1>3, <1>4
<1>6. a.aois # None /\ Analyze(p) = ImpactPackage(found(a), open(a))
  BY <1>5
<1>7. Analyze(p).impacts = found(a) /\ Analyze(p).gaps = open(a)
  BY <1>6 DEF ImpactPackage
<1> QED
  BY <1>6, <1>7 DEF found, open

\* The analysis of a live run accounts for every area the saved activation
\* lists: by the newest finished product (build_cems_product_impact_package's
\* sort), or as a gap.
THEOREM Accounting == Spec => []AreasAccounted
<1>1. PipelineInv /\ Analyzed => AreasAccounted
  <2> SUFFICES ASSUME PipelineInv, Analyzed, impacts # None, kind = "live",
                      NEW snapshot \in package.snapshots
               PROVE  Account(snapshot.raw, impacts)
    BY DEF AreasAccounted
  <2>1. package # None /\ impacts = Analyze(package)
    BY DEF Analyzed
  <2>2. PICK a \in Activations : package.snapshots = {[source |-> CemsSource, raw |-> a]}
    BY <2>1 DEF PipelineInv, FromActivation
  <2>3. snapshot.raw = a
    BY <2>2
  <2>4. /\ a.aois # None
        /\ impacts.impacts = {AoiImpact(aoi) : aoi \in Measured(a)}
        /\ impacts.gaps =
             {[area |-> aoi.name, about |-> "no finished product"] : aoi \in Unfinished(a)} \cup
             {[area |-> aoi.name, about |-> "no statistics yet"] : aoi \in Unmeasured(a)}
    BY <2>1, <2>2, LiveAnalysis
  <2> QED
    BY <2>3, <2>4, AnalysisAccounts
<1> QED
  BY <1>1, Invariance, AlwaysAnalyzed, PTL

-----------------------------------------------------------------------------
\* Severity weights as the domain model declares them.
Weighted(actions) == IsFiniteSet(actions) /\ \A a \in actions : a.weight \in 1..5

\* A sum of weights, as the number of points.
Points(actions) == {p \in actions \X (1..5) : p[2] <= p[1].weight}

\* The function that MapThenSumSet computes with.
Weighed(S, f) ==
  f = [s \in SUBSET S |->
         IF s = {} THEN 0
         ELSE (CHOOSE a \in s : TRUE).weight + f[s \ {CHOOSE a \in s : TRUE}]]

LEMMA WeightIsFold ==
  ASSUME NEW S
  PROVE  Weight(S) = (CHOOSE f : Weighed(S, f))[S]
BY DEF Weight, MapThenSumSet, MapThenFoldSet, Weighed

LEMMA PointsAreFinite ==
  ASSUME NEW S, Weighted(S)
  PROVE  IsFiniteSet(Points(S)) /\ Cardinality(Points(S)) \in Nat
<1>0. \A n \in Nat : IsFiniteSet(1..n)
  BY FS_Interval
<1>1. IsFiniteSet(1..5)
  BY <1>0
<1>2. IsFiniteSet(S \X (1..5))
  BY <1>1, FS_Product DEF Weighted
<1>3. Points(S) \in SUBSET (S \X (1..5))
  BY DEF Points
<1> QED
  BY <1>2, <1>3, FS_Subset, FS_CardinalityType

\* Each action has its weight in points.
LEMMA PointsOfOne ==
  ASSUME NEW S, Weighted(S), NEW a \in S
  PROVE  Cardinality(Points(S)) = a.weight + Cardinality(Points(S \ {a}))
<1> DEFINE own == {a} \X (1..a.weight)
           rest == Points(S \ {a})
<1>1. a.weight \in 1..5
  BY DEF Weighted
<1>2. Points(S) = own \cup rest
  BY <1>1 DEF Points
<1>3. own \cap rest = {}
  BY DEF Points
<1>4. IsFiniteSet(own) /\ Cardinality(own) = a.weight
  <2>1. IsFiniteSet({a}) /\ Cardinality({a}) = 1
    BY FS_Singleton
  <2>2. IsFiniteSet(1..a.weight) /\ Cardinality(1..a.weight) = a.weight
    BY <1>1, FS_Interval
  <2>3. IsFiniteSet(own) /\ Cardinality(own) = 1 * a.weight
    BY <2>1, <2>2, FS_Product
  <2> QED
    BY <1>1, <2>3
<1>5. IsFiniteSet(S \ {a})
  BY FS_RemoveElement DEF Weighted
<1>6. IsFiniteSet(rest) /\ Cardinality(rest) \in Nat
  BY <1>5, PointsAreFinite DEF Weighted
<1> HIDE DEF own, rest
<1>7. Cardinality(own \cup rest) = Cardinality(own) + Cardinality(rest) - Cardinality({})
  BY <1>3, <1>4, <1>6, FS_Union
<1> QED
  BY <1>1, <1>2, <1>4, <1>6, <1>7, FS_EmptySet DEF rest

\* Hence the fold is well defined, and in whatever order it takes the actions it
\* counts their points.
LEMMA WeightIsPoints ==
  ASSUME NEW S, Weighted(S)
  PROVE  Weight(S) = Cardinality(Points(S))
<1> DEFINE g == [s \in SUBSET S |-> Cardinality(Points(s))]
           f == CHOOSE h : Weighed(S, h)
           first(s) == CHOOSE a \in s : TRUE
<1>1. \A s \in SUBSET S : Weighted(s)
  BY FS_Subset DEF Weighted
<1>2. ASSUME NEW s \in SUBSET S, s # {}
      PROVE  first(s) \in s /\ g[s] = first(s).weight + g[s \ {first(s)}]
  <2>1. first(s) \in s
    BY <1>2
  <2>2. Cardinality(Points(s)) = first(s).weight + Cardinality(Points(s \ {first(s)}))
    BY <1>1, <2>1, PointsOfOne
  <2> QED
    BY <2>1, <2>2
<1>3. g[{}] = 0
  BY FS_EmptySet DEF Points
<1>4. Weighed(S, g)
  BY <1>2, <1>3 DEF Weighed
<1>5. Weighed(S, f)
  BY <1>4
<1> HIDE DEF g, f
<1>6. \A s \in SUBSET S : f[s] = g[s]
  <2> DEFINE wrong == {s \in SUBSET S : f[s] # g[s]}
  <2> SUFFICES ASSUME wrong # {} PROVE FALSE
    OBVIOUS
  <2>1. IsWellFoundedOn(StrictSubsetOrdering(S), SUBSET S)
    BY FS_StrictSubsetOrderingWellFounded, FS_FiniteSubsetsOfFinite DEF Weighted
  <2>2. PICK s \in wrong : \A t \in wrong : <<t, s>> \notin StrictSubsetOrdering(S)
    BY <2>1, WFMin
  <2>3. \A t \in SUBSET s : t # s => f[t] = g[t]
    BY <2>2 DEF StrictSubsetOrdering
  <2>4. CASE s = {}
    BY <1>3, <1>5, <2>2, <2>4 DEF Weighed
  <2>5. CASE s # {}
    <3>1. f[s] = first(s).weight + f[s \ {first(s)}]
      BY <1>5, <2>2, <2>5 DEF Weighed
    <3>2. first(s) \in s /\ g[s] = first(s).weight + g[s \ {first(s)}]
      BY <1>2, <2>2, <2>5
    <3>3. f[s \ {first(s)}] = g[s \ {first(s)}]
      BY <2>3, <3>2
    <3> QED
      BY <2>2, <3>1, <3>2, <3>3
  <2> QED
    BY <2>4, <2>5
<1>7. Weight(S) = f[S]
  BY WeightIsFold DEF f
<1> QED
  BY <1>6, <1>7 DEF g

\* The score of some of the gold actions, against that of all.
LEMMA WeightOfSome ==
  ASSUME NEW gold, Weighted(gold), NEW some \in SUBSET gold
  PROVE  /\ Weight(some) \in 0..Weight(gold)
         /\ Weight(some) = Weight(gold) <=> some = gold
<1>1. Weighted(some)
  BY FS_Subset DEF Weighted
<1>2. /\ Weight(some) = Cardinality(Points(some)) /\ Weight(gold) = Cardinality(Points(gold))
      /\ Weight(some) \in Nat /\ Weight(gold) \in Nat
  BY <1>1, WeightIsPoints, PointsAreFinite
<1>3. Points(some) \in SUBSET Points(gold) /\ IsFiniteSet(Points(gold))
  BY PointsAreFinite DEF Points
<1>4. Weight(some) <= Weight(gold) /\ (Weight(some) = Weight(gold) => Points(some) = Points(gold))
  BY <1>2, <1>3, FS_Subset
<1>5. Points(some) = Points(gold) => some = gold
  <2>1. \A a \in gold : <<a, 1>> \in Points(gold)
    BY DEF Points, Weighted
  <2>2. \A a : <<a, 1>> \in Points(some) => a \in some
    BY DEF Points
  <2> QED
    BY <2>1, <2>2
<1> QED
  BY <1>2, <1>4, <1>5

-----------------------------------------------------------------------------
\* A draft that did not fail is a response.
Responded == artifact # None /\ artifact.status # "failed" => artifact.response \in Response

\* The gold actions of a case that was loaded.
GoodGold(gold, edited) ==
  Weighted(gold) /\ (gold = Manifest.hashes["gold_actions"].actions \/ edited)

\* A score is of decisions about a stored draft and of gold actions that were loaded.
Scored ==
  report # None /\ report.lsac # None =>
    /\ artifact # None /\ artifact.status # "failed"
    /\ GoodGold(judged.gold, judged.edited)
    /\ ValidDecisions(judged.decisions)
    /\ {d.gold : d \in judged.decisions} = {action.id : action \in judged.gold}
    /\ {d.proposal : d \in judged.decisions} \subseteq
         {action.id : action \in Members(artifact.response.actions)} \cup {None}
    /\ report.lsac = ScoreLsac(judged.gold, judged.decisions)

\* What a load gives is frozen, or was edited under it.
LEMMA LoadedGold ==
  ASSUME LoadInv, CaseLoaded
  PROVE  GoodGold(Case.gold, "gold_actions" \in load.slipped)
<1>1. 3 \in 1..Len(load.read) /\ CaseOrder[3] = "gold_actions"
  BY DEF CaseLoaded, CaseOrder
<1>2. /\ load.read[3] \in Contents("gold_actions")
      /\ load.read[3] = Manifest.hashes["gold_actions"] \/ "gold_actions" \in load.slipped
  BY <1>1 DEF LoadInv, ReadInv, Hash, Slipped
<1>3. Case.gold = load.read[3].actions
  BY DEF Case
<1>4. Weighted(Case.gold)
  BY <1>2, <1>3, GoldAssumption DEF Weighted
<1> QED
  BY <1>2, <1>3, <1>4 DEF GoodGold

LEMMA RespondedStep ==
  ASSUME Responded, [Next]_vars
  PROVE  Responded'
<1>1. CASE DraftAndVerify
  <2>1. PICK answer \in Answers : artifact' = RunResponseSupervisor(answer, SourcesOf(package))
    BY <1>1 DEF DraftAndVerify
  <2> QED
    BY <2>1, SupervisorRuns DEF Responded
<1>2. CASE ExecuteBaseline
  <2>1. PICK answer \in Answers : artifact' = RunBaseline(answer, Case.dossier.sources)
    BY <1>2 DEF ExecuteBaseline
  <2> QED
    BY <2>1, BaselineRuns DEF Responded
<1>3. CASE artifact' = artifact
  BY <1>3 DEF Responded
<1>4. DraftAndVerify \/ ExecuteBaseline \/ artifact' = artifact
  BY DEF Next, vars, LoadCase, VerifySources, TakePackage, AnalyzeImpacts, EvaluateResponseSupervisor,
         WriteBaselineEvaluation, EvaluateStored
<1> QED
  BY <1>1, <1>2, <1>3, <1>4

\* Only EvaluateStored gives a score, after which no draft is made.
LEMMA ScoredStep ==
  ASSUME PipelineInv, LoadInv, Scored, [Next]_vars
  PROVE  Scored'
<1>1. CASE EvaluateStored
  <2>1. artifact # None /\ UNCHANGED artifact /\ CaseLoaded
    BY <1>1 DEF EvaluateStored, UseCase
  <2>2. CASE report'.lsac = None
    BY <2>2 DEF Scored
  <2>3. CASE /\ artifact.status = "completed"
             /\ \E adjudication \in Adjudications :
                  /\ ValidDecisions(adjudication.decisions)
                  /\ Decides(adjudication, Case.gold, artifact.response)
                  /\ report' = Judged(Counts, Case.gold, adjudication)
                  /\ judged' = [decisions |-> adjudication.decisions, gold |-> Case.gold,
                                edited |-> "gold_actions" \in load.slipped]
    <3> DEFINE gold == Case.gold
               edited == "gold_actions" \in load.slipped
    <3>1. PICK adjudication \in Adjudications :
            /\ ValidDecisions(adjudication.decisions)
            /\ Decides(adjudication, gold, artifact.response)
            /\ report' = Judged(Counts, gold, adjudication)
            /\ judged' = [decisions |-> adjudication.decisions, gold |-> gold, edited |-> edited]
      BY <2>3
    <3>2. GoodGold(gold, edited)
      BY <2>1, LoadedGold
    <3> HIDE DEF gold, edited
    <3>3. judged'.gold = gold /\ judged'.decisions = adjudication.decisions /\ judged'.edited = edited
      BY <3>1
    <3>4. report'.lsac = ScoreLsac(judged'.gold, judged'.decisions)
      BY <3>1, <3>3 DEF Judged, Report
    <3>5. /\ {d.gold : d \in judged'.decisions} = {action.id : action \in judged'.gold}
          /\ {d.proposal : d \in judged'.decisions} \subseteq
               {action.id : action \in Members(artifact.response.actions)} \cup {None}
      BY <3>1, <3>3 DEF Decides
    <3>6. ValidDecisions(judged'.decisions) /\ GoodGold(judged'.gold, judged'.edited)
      BY <3>1, <3>2, <3>3
    <3> QED
      BY <2>1, <2>3, <3>4, <3>5, <3>6 DEF Scored
  <2>4. \/ report' = RunFailed \/ report' = Unjudged(Counts, Case.gold)
        \/ /\ artifact.status = "completed"
           /\ \E adjudication \in Adjudications :
                /\ ValidDecisions(adjudication.decisions)
                /\ Decides(adjudication, Case.gold, artifact.response)
                /\ report' = Judged(Counts, Case.gold, adjudication)
                /\ judged' = [decisions |-> adjudication.decisions, gold |-> Case.gold,
                              edited |-> "gold_actions" \in load.slipped]
    BY <1>1 DEF EvaluateStored
  <2>5. RunFailed.lsac = None /\ Unjudged(Counts, Case.gold).lsac = None
    BY DEF RunFailed, Unjudged, Report
  <2> QED
    BY <2>2, <2>3, <2>4, <2>5
<1>2. CASE EvaluateResponseSupervisor \/ WriteBaselineEvaluation
  BY <1>2 DEF EvaluateResponseSupervisor, WriteBaselineEvaluation, Unjudged, Report, Scored
<1>3. CASE ExecuteBaseline
  BY <1>3 DEF ExecuteBaseline, PipelineInv, StagesInOrder, RunFailed, Report, Scored
<1>4. CASE DraftAndVerify
  BY <1>4 DEF DraftAndVerify, PipelineInv, StagesInOrder, Scored
<1>5. CASE UNCHANGED <<artifact, report, judged>>
  BY <1>5 DEF Scored
<1>6. \/ EvaluateStored \/ EvaluateResponseSupervisor \/ WriteBaselineEvaluation
      \/ ExecuteBaseline \/ DraftAndVerify \/ UNCHANGED <<artifact, report, judged>>
  BY DEF Next, vars, LoadCase, VerifySources, TakePackage, AnalyzeImpacts
<1> QED
  BY <1>1, <1>2, <1>3, <1>4, <1>5, <1>6

LEMMA AlwaysScored == Spec => [](Responded /\ Scored)
<1>1. Init => Responded /\ Scored
  BY DEF Init, Responded, Scored
<1>2. PipelineInv /\ LoadInv /\ Responded /\ Scored /\ [Next]_vars => Responded' /\ Scored'
  BY RespondedStep, ScoredStep
<1> QED
  BY <1>1, <1>2, AlwaysLoaded, Invariance, PTL DEF Spec

\* The gold actions that count as covered are those that a decision gives an
\* action of the draft.
LEMMA CoveredAre ==
  ASSUME NEW response \in Response, NEW decisions, ValidDecisions(decisions),
         {d.proposal : d \in decisions} \subseteq
           {action.id : action \in Members(response.actions)} \cup {None},
         NEW gold
  PROVE  {action \in gold : action.id \in {d.gold : d \in {e \in decisions : e.covered}}} =
         {action \in gold : \E d \in decisions : \E i \in DOMAIN response.actions :
            d.gold = action.id /\ d.proposal = response.actions[i].id}
<1>1. \A i \in DOMAIN response.actions : response.actions[i].id # None
  <2>1. response.actions \in Seq(Action)
    BY DEF Response
  <2>2. \A i \in DOMAIN response.actions : response.actions[i] \in Action
    BY <2>1
  <2> QED
    BY <2>2, NoneAssumption DEF Action
<1>2. \A d \in decisions : d.covered <=> d.proposal # None
  BY DEF ValidDecisions
<1>3. \A d \in decisions : d.proposal # None =>
        \E i \in DOMAIN response.actions : d.proposal = response.actions[i].id
  BY DEF Members
<1> QED
  BY <1>1, <1>2, <1>3

\* A score is of the gold actions that were loaded, and the whole of their weight
\* only if each is covered.  They are the frozen ones, whatever became of the files
\* at any other time, unless gold_actions was edited between the two moments at
\* which that load hashed and read it.
THEOREM Scoring == Spec => []ScoreIsOfTheFrozenCase
<1>1. Responded /\ Scored => ScoreIsOfTheFrozenCase
  <2> SUFFICES ASSUME Responded, Scored, report # None, report.lsac # None
               PROVE  ScoreIsOfTheFrozenCase
    BY DEF ScoreIsOfTheFrozenCase
  <2> DEFINE gold == judged.gold
             decisions == judged.decisions
             covering == {action \in gold :
                            \E d \in decisions : \E i \in DOMAIN artifact.response.actions :
                              d.gold = action.id /\ d.proposal = artifact.response.actions[i].id}
  <2>1. /\ artifact.response \in Response /\ GoodGold(gold, judged.edited)
        /\ {d.gold : d \in decisions} = {action.id : action \in gold}
        /\ report.lsac = ScoreLsac(gold, decisions)
    BY DEF Responded, Scored
  <2>2. {action \in gold : action.id \in {d.gold : d \in {e \in decisions : e.covered}}} = covering
    <3>1. artifact.response \in Response
      BY <2>1
    <3>2. ValidDecisions(decisions)
      BY DEF Scored
    <3>3. {d.proposal : d \in decisions} \subseteq
            {action.id : action \in Members(artifact.response.actions)} \cup {None}
      BY DEF Scored
    <3> QED
      BY ONLY <3>1, <3>2, <3>3, CoveredAre
  <2>3. report.lsac = [covered |-> Weight(covering), of |-> Weight(gold)]
    BY <2>1, <2>2 DEF ScoreLsac
  <2>4. Weighted(gold) /\ (gold = Manifest.hashes["gold_actions"].actions \/ judged.edited)
    BY <2>1 DEF GoodGold
  <2>5. covering \in SUBSET gold
    OBVIOUS
  <2> HIDE DEF covering
  <2>6. /\ Weight(covering) \in 0..Weight(gold)
        /\ Weight(covering) = Weight(gold) <=> covering = gold
    BY <2>4, <2>5, WeightOfSome
  <2>7. \A action \in gold : \E d \in decisions : d.gold = action.id
    BY <2>1
  <2> QED
    BY <2>3, <2>4, <2>6, <2>7 DEF ScoreIsOfTheFrozenCase, covering
<1> QED
  BY <1>1, AlwaysScored, PTL
=============================================================================
