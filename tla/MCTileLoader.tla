---------------------------- MODULE MCTileLoader ----------------------------
\* A view whose tiles turn out to be wider than declared, and one that is out of
\* the map's scales.
EXTENDS TileLoader

\* Tiles "a" and "b" at the declared width; "b" and "c" at twice that width.
Rescaled == [v \in Viewports |-> [s \in Sizes |->
               CASE v = 2 -> {} [] s = 256 -> {"a", "b"} [] OTHER -> {"b", "c"}]]
Wide     == [u \in Urls |-> 512]
=============================================================================
