----------------------------- MODULE MCDBProject -----------------------------
\* Two programs on one database: on the same project, or on a project each.
EXTENDS DBProject, TLC

CONSTANTS u1, u2, f, g

OneProject  == [u \in Users |-> f]
TwoProjects == u1 :> f @@ u2 :> g
Symmetry    == Permutations(Users)
=============================================================================
