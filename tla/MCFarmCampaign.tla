--------------------------- MODULE MCFarmCampaign ---------------------------
(* Two investors, two milestones; the roster may name an arbitrator twice. *)
EXTENDS FarmCampaign, TLC

CONSTANTS a, b, m1, m2

MCRosters == {<<a, b>>, <<b, a>>, <<a, a>>, <<b, b>>}

\* Milestones and arbitrators are only compared; investors are ordered.
Interchangeable == Permutations({a, b}) \cup Permutations({m1, m2})

\* Histories are followed past the first breach, not past the second.
OneBreach == Cardinality(breaches) <= 1
=============================================================================
