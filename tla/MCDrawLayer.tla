----------------------------- MODULE MCDrawLayer -----------------------------
\* One layer with long request sequences: the race of its thread and the canvas.
EXTENDS DrawContext

CONSTANT f1

\* Zooms are told apart only by being equal or not, and so are focuses: the
\* behaviours that start at another zoom or focus are these with names exchanged.
FirstInit == Init /\ posFocus = f1 /\ \A c \in Contexts : zoom[c] = 1

FirstSpec == FirstInit /\ [][Next]_vars /\ Fairness
=============================================================================
