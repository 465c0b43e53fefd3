----------------------------- MODULE MCService -----------------------------
(* Model-checking instance of Service: two service slots.                  *)
EXTENDS Service, TLC

CONSTANTS s1, s2, p1, p2, p3

MCSvc == {s1, s2}
\* one pid per slot plus one per allowed delete: a deleted service's child
\* keeps its pid until it exits, so fork never runs out of pids
MCPidsAmple == {p1, p2, p3}
\* with no deletes, one pid per slot is enough
MCPidsPair == {p1, p2}
\* fewer pids than live children can need: fork() fails with EAGAIN
MCPidsScarce == {p1}

\* services and pids are interchangeable (safety runs only)
MCSymmetry == Permutations(MCSvc) \cup Permutations(MCPidsAmple)
=============================================================================
