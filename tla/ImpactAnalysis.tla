--------------------------- MODULE ImpactAnalysis ---------------------------
(***************************************************************************)
(* The impact package: what the newest finished product of each area of    *)
(* the saved activation reports, and the areas of which nothing can be     *)
(* said.                                                                   *)
(***************************************************************************)
EXTENDS SourceEvidence

\* _as_int, unlike int(), reads no text.
Listed(activation) == {aoi \in activation.aois : aoi.number = "integer"}

Finished(aoi) == {p \in aoi.products : p.status = "F"}

\* Faulty variant: the version decides.
OlderByVersion(p, q) == p.version < q.version

\* Older(p, q): p has the smaller sort key, delivery before version.
Older(p, q) == p.delivered < q.delivered \/ (p.delivered = q.delivered /\ p.version < q.version)

NewestFinished(aoi) == CHOOSE p \in Finished(aoi) : \A q \in Finished(aoi) : ~Older(p, q)

Count(n) == IF n = None THEN 0 ELSE n

AoiImpact(aoi) ==
  LET stats == NewestFinished(aoi).stats
      road == Count(stats["road"])
      bridge == Count(stats["bridge"])
  IN  [area        |-> aoi.name,
       population  |-> stats["population"],
       residential |-> stats["residential"],
       assets      |-> {f \in {"residential", "facility"} : Count(stats[f]) > 0},
       road        |-> road,
       bridge      |-> bridge,
       access      |-> IF road > 0 \/ bridge > 0 THEN "needs_human_verification" ELSE "not_indicated"]

Unfinished(activation) == {aoi \in Listed(activation) : Finished(aoi) = {}}

Unmeasured(activation) ==
  {aoi \in Listed(activation) : Finished(aoi) # {} /\ NewestFinished(aoi).stats = None}

Measured(activation) == Listed(activation) \ (Unfinished(activation) \cup Unmeasured(activation))

\* The fields of AoiImpact are declared not to be negative.
Refused(impact) == \E f \in {"population", "residential", "road", "bridge"} : Count(impact[f]) < 0

ImpactPackage(impacts, gaps) ==
  [impacts |-> impacts, gaps |-> gaps, status |-> IF impacts = {} THEN "incomplete" ELSE "completed"]

\* build_cems_product_impact_package.  A null list of areas, which the intake
\* reads as an empty one, raises; so does a negative number.
Analyze(package) ==
  LET saved == {snapshot.raw : snapshot \in package.snapshots} \ {None}
      activation == CHOOSE raw \in saved : TRUE
      impacts == {AoiImpact(aoi) : aoi \in Measured(activation)}
      gaps == {[area |-> aoi.name, about |-> "no finished product"] : aoi \in Unfinished(activation)} \cup
              {[area |-> aoi.name, about |-> "no statistics yet"] : aoi \in Unmeasured(activation)}
  IN  IF saved = {} THEN ImpactPackage({}, {[area |-> None, about |-> "no activation"]})
      ELSE IF activation.aois = None \/ \E impact \in impacts : Refused(impact) THEN None
      ELSE ImpactPackage(impacts, gaps)
=============================================================================
