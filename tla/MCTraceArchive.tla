-------------------------- MODULE MCTraceArchive --------------------------
(* Instances of TraceArchive for TLC. *)
EXTENDS TraceArchive, TLC

CONSTANTS w1, w2, c1, c2, owner, other

Event(seq, type, status, content, author) ==
    [seq |-> seq, type |-> type, status |-> status, content |-> content, author |-> author]

Plain(seq, content) == Event(seq, "event", NONE, content, owner)
Start(seq, content) == Event(seq, "run_start", NONE, content, owner)
End(seq, status, content) == Event(seq, "run_end", status, content, owner)

\* A run of three events whose start is sent twice under different numbers; ends
\* that disagree in number and status; ends that disagree in content; an end
\* without a status, and an event of somebody else; an event above the end.
MCPosts ==
    {{Start(0, c1), Start(1, c2), End(2, "ok", c1)},
     {Plain(0, c1), End(0, "error", c1), End(1, "ok", c1)},
     {Plain(0, c1), End(1, "ok", c1), End(1, "ok", c2)},
     {Plain(0, c1), End(1, NONE, c1), Event(1, "event", NONE, c1, other)},
     {Plain(0, c1), End(1, "ok", c1), Plain(2, c1)}}

\* An end and an event that is not one under the same number.
MCShadow == {{Plain(0, c1), End(1, "ok", c1), Plain(1, c1)}}

WorkerSymmetry == Permutations({w1, w2})
=============================================================================
