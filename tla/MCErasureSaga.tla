--------------------------- MODULE MCErasureSaga ---------------------------
(* Small instances of ErasureSaga. *)
EXTENDS ErasureSaga

CONSTANTS e1, e2, r1, r2, trace, vector

\* The two stores in the order of the manifest, and a deployment without vectors.
BothStores == <<trace, vector>>
OneManifest == {BothStores}
TwoManifests == {BothStores, <<trace>>}
=============================================================================
