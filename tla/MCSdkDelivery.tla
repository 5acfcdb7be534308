--------------------------- MODULE MCSdkDelivery ---------------------------
(* Instances of SdkDelivery for TLC. *)
EXTENDS SdkDelivery

CONSTANTS r1, r2, a, b, p, h1, bg

\* Traces of two runs, with feedback between them.
MCInputs == [run : {r1, r2}, kind : {"trace"}] \cup [run : {r1}, kind : {"feedback"}]
=============================================================================
