------------------------- MODULE MCEvidencePipeline -------------------------
EXTENDS EvidencePipeline

\* "Bidur", "South (Bidur)" and "Area".
Name == [a1 |-> <<"bidur">>, a2 |-> <<"south", "(", "bidur", ")">>, a3 |-> <<"area">>]
MCTerms == [area : {"a1", "a2"}, form : {"name", "product"}] \cup
           {[area |-> "a2", form |-> "place"], [area |-> "a3", form |-> "name"]}
Words(t) ==
  CASE t.form = "name"    -> Name[t.area]
    [] t.form = "product" -> Name[t.area] \o <<"finished", "cems", "product">>
    [] t.form = "place"   -> <<"bidur">>
MCInside ==
  {<<t, u>> \in MCTerms \X MCTerms :
     \E m, n \in 1..Len(Words(u)) : SubSeq(Words(u), m, n) = Words(t)}
MCVague == {[area |-> "a3", form |-> "name"]}
MCTexts ==
  {"cems-event-identity", "cems-aoi-product-status", "cems-source-reachable",
   "cems-hazard-outside-mvp", "cems-activation-open", "cems-products-pending",
   "fixture-integrity-verified", "fixture-preliminary-claims", "pending", "no download", "claim"}
MCPlaced == {"a2"}

NoFacts == [f \in Facts |-> None]
Some(people, roads) == [NoFacts EXCEPT !["population"] = people, !["residential"] = people, !["road"] = roads]
Made(status, delivered, version, stats) ==
  [status |-> status, delivered |-> delivered, version |-> version, stats |-> stats,
   download |-> delivered # 2]

Waiting == Made("W", 0, 0, None)
Early == Made("F", 1, 2, Some(1, 0))
Later == Made("F", 2, 1, Some(2, 3))
Again == Made("F", 2, 2, Some(3, None))
Bare == Made("F", 3, 1, None)
Impossible == Made("N", 1, 1, None)
Negative == Made("F", 1, 1, Some(-1, 0))

ProductSets ==
  {{}, {Impossible}, {Waiting}, {Early, Waiting}, {Early, Later}, {Early, Later, Again},
   {Later, Bare}, {Negative}}

AoisOf(name) ==
  [name : {name}, number : {"integer"}, products : ProductSets] \cup
  [name : {name}, number : {"digits", "none"}, products : {{Early}, {Waiting}}] \cup
  [name : {name}, number : {"word"}, products : {{}}]

\* Two areas of one name.
Twins == [name : {"a1"}, number : {"integer"}, products : {{}, {Early}, {Later}, {Later, Bare}}]

\* The area whose name has the other's in it.
Larger == [name : {"a2"}, number : {"integer"}, products : {{}, {Waiting}, {Early}, {Later, Bare}}]

\* The area of which nothing is asked.
Nameless == [name |-> "a3", number |-> "integer", products |-> {}]

Singles == {{aoi} : aoi \in AoisOf("a1")} \cup {{Nameless}}
Pairs == {{p, q} : p \in AoisOf("a1"), q \in Larger} \cup {{p, q} : p, q \in Twins}

MCActivations ==
  [found : {"activation"}, flood : {TRUE}, closed : BOOLEAN, aois : Singles \cup {{}, None}] \cup
  [found : {"activation"}, flood : {TRUE}, closed : {FALSE}, aois : Pairs] \cup
  [found : {"activation"}, flood : {FALSE}, closed : {TRUE}, aois : {{}}] \cup
  [found : {"no result", "no object"}, flood : {TRUE}, closed : {TRUE}, aois : {{}}]

\* The model's answers: one thing varied at a time.
Snap == [kind |-> "snapshot", of |-> "cems"]
Src == [kind |-> "source", of |-> "cems"]
Other == [kind |-> "source", of |-> "dossier"]
Unknown == [kind |-> "unknown", of |-> "cems"]

Act(id, cites, names, alarms) ==
  [id |-> id, cites |-> cites, names |-> names, alarms |-> alarms, draft |-> TRUE, estimate |-> "none"]
Plain == Act("x", <<Src>>, {}, {})
Of(actions, limitations) == [case |-> CaseId, actions |-> actions, limitations |-> limitations]

Responses ==
  {Of(<<Act("x", cites, {}, {})>>, {}) :
     cites \in {<<Src>>, <<Snap>>, <<Src, Snap>>, <<Unknown>>, <<Other>>, << >>}} \cup
  {Of(<<Act("x", <<Src>>, {}, alarms)>>, {}) : alarms \in SUBSET {"verifier", "evaluator"}} \cup
  {Of(<<Act("x", <<Src>>, {t}, {})>>, limits) :
     t \in Terms, limits \in {{}} \cup {{u} : u \in {v \in Terms : v.area = "a2"}}} \cup
  {Of(<<Plain, Act("y", <<Src>>, {}, {})>>, {}), Of(<<Plain, Plain>>, {}),
   Of(<<Plain, Act("y", <<Src>>, {}, {}), Act("z", <<Src>>, {}, {})>>, {}),
   Of(<<[Plain EXCEPT !.draft = FALSE]>>, {}),
   Of(<<[Plain EXCEPT !.estimate = "abstained"]>>, {}),
   Of(<<[Plain EXCEPT !.estimate = "numeric"]>>, {}),
   [Of(<<Plain>>, {}) EXCEPT !.case = OtherCase]}

MCAnswers ==
  [kind : {"json"}, response : Responses] \cup
  [kind : {"no gateway", "refused", "malformed"}, response : {None}]

\* The frozen case, and what its files are after an edit.
Claim == [id |-> "claim", status |-> "preliminary", sources |-> {"cems"}]
Gold(id, weight) == [id |-> id, weight |-> weight, sources |-> {"cems"}, constraints |-> {"bridge"}]
Dossier(sources) ==
  [case |-> CaseId, hazard |-> "flood", sources |-> sources, claims |-> {Claim},
   gaps |-> {[area |-> "a1", about |-> "pending"]}]
GoldSet(actions) == [case |-> CaseId, actions |-> actions]

MCManifest ==
  [case |-> CaseId, hazard |-> "flood",
   hashes |-> [dossier      |-> Dossier({"cems", "dossier"}),
               scenario     |-> [case |-> CaseId, constraints |-> {"bridge"}],
               gold_actions |-> GoldSet({Gold("g1", 5), Gold("g2", 2)})]]

MCEditedFiles ==
  [dossier      |-> {Dossier({"cems"})},
   scenario     |-> {[case |-> CaseId, constraints |-> {}]},
   gold_actions |-> {GoldSet({Gold("g1", 1), Gold("g2", 2)}), GoldSet({Gold("g1", 5)})}]

MCAdjudications ==
  [case : {CaseId, OtherCase}, run : {RunId, "another"},
   decisions :
     {{}} \cup {{[gold |-> "g1", covered |-> TRUE, proposal |-> "x"]} \cup
       {[gold |-> "g2", covered |-> p # None, proposal |-> p]} : p \in {"x", "y", None}} \cup
     {{[gold |-> "g1", covered |-> c, proposal |-> None]} \cup g2 :
        c \in BOOLEAN, g2 \in {{}, {[gold |-> "g2", covered |-> FALSE, proposal |-> None]}}}]
=============================================================================
