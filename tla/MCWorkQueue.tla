---------------------------- MODULE MCWorkQueue ----------------------------
(* An instance of WorkQueue for TLC. *)
EXTENDS WorkQueue

CONSTANTS w1, w2, p1, p2, traceEvent

\* Two projects, one before the other in claim order, and a row whose
\* envelope does not parse.
MCEntries ==
    {[project |-> p1, topic |-> traceEvent, priority |-> 0, wellFormed |-> TRUE],
     [project |-> p2, topic |-> traceEvent, priority |-> 1, wellFormed |-> TRUE],
     [project |-> p1, topic |-> traceEvent, priority |-> 1, wellFormed |-> FALSE]}
=============================================================================
