----------------------------- MODULE MCDrawLayers ----------------------------
\* Two layers: what the canvas promises about all of them together.
EXTENDS DrawContext, TLC

Symmetry == Permutations(Contexts)
=============================================================================
