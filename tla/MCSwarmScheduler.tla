--------------------------- MODULE MCSwarmScheduler ---------------------------
(* Instances of SwarmScheduler for TLC. *)
EXTENDS SwarmScheduler

ThreeLanes == 0..2

\* buildLaneDependencyMap drops self-dependencies and indices out of range,
\* and nothing else.
AllGraphs == {g \in [Lane -> SUBSET Lane] : \A l \in Lane : l \notin g[l]}

NoLane == {}
First == {0}
Second == {1}
LastTwo == {1, 2}
=============================================================================
