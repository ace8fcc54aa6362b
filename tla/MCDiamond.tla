----------------------------- MODULE MCDiamond ------------------------------
(* Diamond for TLC: two facets and the diamond's own address. *)
EXTENDS Diamond

CONSTANTS Attestation, cut, own, batch

\* The second facet stands for the ownership facet and the attestation facet.
MCCode == [f \in Facets |->
    CASE f = CutFacet -> {cut}
      [] f = Attestation -> {own, batch}
      [] OTHER -> {}]

=============================================================================
