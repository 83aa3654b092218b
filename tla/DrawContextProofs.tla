-------------------------- MODULE DrawContextProofs --------------------------
(***************************************************************************)
(* Proofs about the canvas and its drawing threads, for any set of layers, *)
(* views and geometries and any number of requests.                        *)
(***************************************************************************)
EXTENDS DrawContext, TLAPS

USE ConstantsAssumption, NoViewAssumption DEF ConstantsAssumption, NoViewAssumption

\* What TypeOK needs to be inductive: a layer's data changes at most once per
\* request, and a layer is named wherever the main thread works on one.
DataIsBounded == \A c \in Contexts : data[c] <= requests
CurIsLayer    == mpc \in {"lock", "start"} => cur \in Contexts
TypeInv       == TypeOK /\ DataIsBounded /\ CurIsLayer

\* Type facts about the helpers.
LEMMA BackInRange ==
  ASSUME TypeOK, NEW c \in Contexts
  PROVE  Back(c) \in {0, 1} /\ Back(c) # bufIndex[c]
BY DEF TypeOK, Back

LEMMA CurrentViewType ==
  ASSUME TypeOK, NEW c \in Contexts
  PROVE  CurrentView(c) \in View
BY DEF TypeOK, CurrentView, View

LEMMA BlankType == ASSUME NEW z \in Zooms PROVE Blank(z) \in Frame
BY DEF Blank, Frame

\* Rebuilding the buffers keeps every variable of the layers in its type.
LEMMA SetGeometryType ==
  ASSUME TypeOK, NEW s \in Sizes, NEW r \in Ratios, SetDrawContextGeometry(s, r)
  PROVE  /\ ctxSize' \in [Contexts -> Sizes] /\ ctxRatio' \in [Contexts -> Ratios]
         /\ buffer' \in [Contexts -> [{0, 1} -> Frame]]
         /\ UNCHANGED <<zoom, focus, ref, intNeedsRedraw, bufIndex, data>>
<1>1. ctxSize' \in [Contexts -> Sizes] /\ ctxRatio' \in [Contexts -> Ratios]
  BY DEF TypeOK, SetDrawContextGeometry
<1>2. \A c \in Contexts : [i \in {0, 1} |-> Blank(buffer[c][i].zoom)] \in [{0, 1} -> Frame]
  <2> SUFFICES ASSUME NEW c \in Contexts, NEW i \in {0, 1}
               PROVE  Blank(buffer[c][i].zoom) \in Frame
    OBVIOUS
  <2>1. buffer[c][i] \in Frame  BY DEF TypeOK
  <2>2. buffer[c][i].zoom \in Zooms  BY <2>1 DEF Frame
  <2> QED BY <2>2, BlankType
<1>3. \A c \in Contexts : buffer[c] \in [{0, 1} -> Frame]  BY DEF TypeOK
<1>4. buffer' \in [Contexts -> [{0, 1} -> Frame]]
  BY <1>2, <1>3 DEF SetDrawContextGeometry
<1> QED BY <1>1, <1>4 DEF SetDrawContextGeometry

LEMMA ViewportSlotType ==
  ASSUME TypeOK, NEW s \in Sizes, NEW r \in Ratios, NEW p \in BOOLEAN,
         SlotUpdateDrawContextViewport(s, r, p)
  PROVE  /\ ctxSize' \in [Contexts -> Sizes] /\ ctxRatio' \in [Contexts -> Ratios]
         /\ buffer' \in [Contexts -> [{0, 1} -> Frame]]
         /\ UNCHANGED <<zoom, focus, ref, intNeedsRedraw, bufIndex, data>>
         /\ timer' \in BOOLEAN /\ update' \in BOOLEAN /\ needsRedraw' \subseteq Contexts
<1>1. CASE DrawContextViewportIsCurrent(s, r)
  BY <1>1 DEF SlotUpdateDrawContextViewport, TypeOK, shared
<1>2. CASE ~DrawContextViewportIsCurrent(s, r)
  <2>1. SetDrawContextGeometry(s, r)  BY <1>2 DEF SlotUpdateDrawContextViewport
  <2>2. timer' \in BOOLEAN /\ update' \in BOOLEAN /\ needsRedraw' \subseteq Contexts
    BY <1>2 DEF SlotUpdateDrawContextViewport, TypeOK, RetryNeeded, GeometryAccepted
  <2> QED BY <2>1, <2>2, SetGeometryType
<1> QED BY <1>1, <1>2

-----------------------------------------------------------------------------
\* A request is counted, within the bound.
LEMMA RequestCounted ==
  ASSUME requests \in 0 .. MaxRequests, Request
  PROVE  requests' \in 0 .. MaxRequests /\ requests =< requests'
BY DEF Request

LEMMA TypeInit == Init => TypeInv
<1> SUFFICES ASSUME Init PROVE TypeInv
  OBVIOUS
<1>1. PICK z \in Zooms : /\ zoom = [c \in Contexts |-> z]
                         /\ buffer = [c \in Contexts |-> [i \in {0, 1} |-> Blank(z)]]
  BY DEF Init
<1>2. buffer \in [Contexts -> [{0, 1} -> Frame]]  BY <1>1, BlankType
<1>3. /\ zoom \in [Contexts -> Zooms]
      /\ data \in [Contexts -> 0 .. MaxRequests] /\ DataIsBounded
  BY <1>1 DEF Init, DataIsBounded
<1>4. /\ size \in Sizes /\ ratio \in Ratios /\ visible \in BOOLEAN /\ posFocus \in Focus
      /\ needsRedraw \subseteq Contexts /\ update \in BOOLEAN /\ timer \in BOOLEAN
  BY DEF Init
<1>8. requests \in 0 .. MaxRequests  BY DEF Init
<1>5. /\ mpc = "loop" /\ job \in Jobs /\ todo \subseteq Contexts
      /\ cur \in Contexts \cup {NoContext}
      /\ drawFocus \in Focus /\ redrawArg \subseteq Contexts /\ printSize \in Sizes
  BY DEF Init, Jobs
<1>6. /\ ctxSize \in [Contexts -> Sizes] /\ ctxRatio \in [Contexts -> Ratios]
      /\ focus \in [Contexts -> Focus] /\ ref \in [Contexts -> View \cup {NoView}]
  BY DEF Init
<1>7. /\ intNeedsRedraw \in [Contexts -> BOOLEAN] /\ bufIndex \in [Contexts -> {0, 1}]
      /\ pc \in [Contexts -> ThreadPc] /\ finished \in [Contexts -> Nat]
      /\ drew \in [Contexts -> BOOLEAN]
  BY DEF Init, ThreadPc
<1> QED BY <1>2, <1>3, <1>4, <1>5, <1>6, <1>7, <1>8 DEF TypeInv, TypeOK, CurIsLayer

LEMMA TypeNext == TypeInv /\ [Next]_vars => TypeInv'
<1> SUFFICES ASSUME TypeInv, [Next]_vars PROVE TypeInv'
  OBVIOUS
<1> USE DEF TypeInv, DataIsBounded, CurIsLayer
<1> USE DEF widget, events, control, shared, thread
<1>1. ASSUME NEW f \in Focus, Move(f) PROVE TypeInv'
  BY <1>1 DEF TypeOK, Move, Request, SlotTriggerCompleteUpdate
<1>2. ASSUME NEW z \in Zooms, ZoomTo(z) PROVE TypeInv'
  BY <1>2 DEF TypeOK, ZoomTo, Request, SlotTriggerCompleteUpdate
<1>3. ASSUME NEW c \in Contexts, LayerChanged(c) PROVE TypeInv'
  BY <1>3 DEF TypeOK, LayerChanged, Request, SlotTriggerCompleteUpdate
<1>4. ASSUME NEW s \in Sizes, ResizeEvent(s) PROVE TypeInv'
  <2>1. SlotUpdateDrawContextViewport(s, ratio, TRUE) /\ ratio \in Ratios
    BY <1>4 DEF TypeOK, ResizeEvent
  <2>2. requests' \in 0 .. MaxRequests /\ requests =< requests' /\ UNCHANGED data
    <3>1. Request  BY <1>4 DEF ResizeEvent
    <3>2. UNCHANGED data  BY <2>1, ViewportSlotType
    <3> QED BY <3>1, <3>2, RequestCounted DEF TypeOK
  <2>3. DataIsBounded'  BY <2>2 DEF TypeOK
  <2> QED BY <1>4, <2>1, <2>2, <2>3, ViewportSlotType DEF TypeOK, ResizeEvent
<1>5. ASSUME NEW r \in Ratios, RatioChange(r) PROVE TypeInv'
  <2>1. CASE visible
    <3>1. SlotUpdateDrawContextViewport(size, r, TRUE) /\ size \in Sizes
      BY <1>5, <2>1 DEF TypeOK, RatioChange
    <3>2. requests' \in 0 .. MaxRequests /\ requests =< requests' /\ UNCHANGED data
      <4>1. Request  BY <1>5 DEF RatioChange
      <4>2. UNCHANGED data  BY <3>1, ViewportSlotType
      <4> QED BY <4>1, <4>2, RequestCounted DEF TypeOK
    <3>3. DataIsBounded'  BY <3>2 DEF TypeOK
    <3> QED BY <1>5, <3>1, <3>2, <3>3, ViewportSlotType DEF TypeOK, RatioChange
  <2>2. CASE ~visible
    BY <1>5, <2>2 DEF TypeOK, RatioChange, Request
  <2> QED BY <2>1, <2>2
<1>6. ASSUME ShowHide PROVE TypeInv'
  BY <1>6 DEF TypeOK, ShowHide, Request
<1>7. ASSUME NEW s \in PrintSizes, NEW f \in Focus, PrintArea(s, f) PROVE TypeInv'
  BY <1>7 DEF TypeOK, PrintArea, Request, Jobs
<1>8. ASSUME TimerFires PROVE TypeInv'
  <2>1. SlotUpdateDrawContextViewport(size, ratio, FALSE) /\ size \in Sizes /\ ratio \in Ratios
    BY <1>8 DEF TypeOK, TimerFires
  <2> QED BY <1>8, <2>1, ViewportSlotType DEF TypeOK, TimerFires
<1>9. ASSUME ViewportSlot PROVE TypeInv'
  <2>1. SlotUpdateDrawContextViewport(size, ratio, FALSE) /\ size \in Sizes /\ ratio \in Ratios
    BY <1>9 DEF TypeOK, ViewportSlot
  <2> QED BY <1>9, <2>1, ViewportSlotType DEF TypeOK, ViewportSlot
<1>10. ASSUME PaintEvent PROVE TypeInv'
  BY <1>10 DEF TypeOK, PaintEvent, BeginDraw, Jobs
<1>11. ASSUME NEW c \in Contexts, DeliverFinished(c) PROVE TypeInv'
  <2>1. finished' \in [Contexts -> Nat]
    BY <1>11 DEF TypeOK, DeliverFinished, FinishedPosted
  <2> QED BY <1>11, <2>1 DEF TypeOK, DeliverFinished, ThreadPc
<1>12. ASSUME NEW c \in Contexts, DrawSetFocus(c) PROVE TypeInv'
  BY <1>12 DEF TypeOK, DrawSetFocus
<1>13. ASSUME DrawLocked PROVE TypeInv'
  <2>1. cur \in Contexts  BY <1>13 DEF DrawLocked
  <2>2. CurrentView(cur) \in View  BY <2>1, CurrentViewType
  <2>3. ref' \in [Contexts -> View \cup {NoView}]  BY <1>13, <2>2 DEF TypeOK, DrawLocked
  <2> QED BY <1>13, <2>1, <2>3 DEF TypeOK, DrawLocked, RedrawAsked
<1>14. ASSUME DrawStart PROVE TypeInv'
  BY <1>14 DEF TypeOK, DrawStart, ThreadPc, IsRunning
<1>15. ASSUME EndPaint PROVE TypeInv'
  BY <1>15 DEF TypeOK, EndPaint, EndJob, Jobs
<1>16. ASSUME PrintResize PROVE TypeInv'
  <2>1. PICK r \in Ratios : SetDrawContextGeometry(printSize, r)  BY <1>16 DEF PrintResize
  <2> QED BY <1>16, <2>1, SetGeometryType DEF TypeOK, PrintResize, BeginDraw, Jobs
<1>17. ASSUME PrintAgain PROVE TypeInv'
  BY <1>17 DEF TypeOK, PrintAgain, BeginDraw, Jobs
<1>18. ASSUME PrintRestore PROVE TypeInv'
  <2>1. SlotUpdateDrawContextViewport(size, ratio, FALSE) /\ size \in Sizes /\ ratio \in Ratios
    BY <1>18 DEF TypeOK, PrintRestore
  <2> QED BY <1>18, <2>1, ViewportSlotType DEF TypeOK, PrintRestore, EndJob, Jobs
<1>19. ASSUME EndPrintDraw PROVE TypeInv'
  BY <1>19 DEF TypeOK, EndPrintDraw
<1>20. ASSUME NEW c \in Contexts, RunCopy(c) PROVE TypeInv'
  <2>1. [ref |-> ref[c], zoom |-> zoom[c], image |-> NoView] \in Frame
    BY DEF TypeOK, Frame
  <2>2. buffer' \in [Contexts -> [{0, 1} -> Frame]]
    BY <1>20, <2>1 DEF TypeOK, RunCopy
  <2> QED BY <1>20, <2>2 DEF TypeOK, RunCopy, ThreadPc
<1>21. ASSUME NEW c \in Contexts, RunDraw(c) PROVE TypeInv'
  <2>1. [focus |-> focus[c], zoom |-> zoom[c], data |-> data[c]] \in Live
    BY DEF TypeOK, Live
  <2>2. buffer[c][Back(c)] \in Frame  BY BackInRange DEF TypeOK
  <2>3. [buffer[c][Back(c)] EXCEPT !.image =
            [focus |-> focus[c], zoom |-> zoom[c], data |-> data[c]]] \in Frame
    BY <2>1, <2>2 DEF Frame
  <2>4. buffer' \in [Contexts -> [{0, 1} -> Frame]]
    BY <1>21, <2>3 DEF TypeOK, RunDraw
  <2> QED BY <1>21, <2>4 DEF TypeOK, RunDraw, ThreadPc
<1>22. ASSUME NEW c \in Contexts, RunSwap(c) PROVE TypeInv'
  BY <1>22, BackInRange DEF TypeOK, RunSwap, ThreadPc
<1>23. ASSUME NEW c \in Contexts, ThreadFinishes(c) PROVE TypeInv'
  BY <1>23 DEF TypeOK, ThreadFinishes, ThreadPc
<1>24. ASSUME NEW c \in Contexts, ThreadEnds(c) PROVE TypeInv'
  BY <1>24 DEF TypeOK, ThreadEnds, ThreadPc
<1>25. CASE UNCHANGED vars
  BY <1>25 DEF TypeOK, vars
<1> QED
  BY <1>1, <1>2, <1>3, <1>4, <1>5, <1>6, <1>7, <1>8, <1>9, <1>10, <1>11, <1>12, <1>13, <1>14,
     <1>15, <1>16, <1>17, <1>18, <1>19, <1>20, <1>21, <1>22, <1>23, <1>24, <1>25
  DEF Next, Environment, EventLoop, Drawing, Thread

\* Every reachable state of the canvas and its threads is well typed.
THEOREM TypeCorrect == Spec => []TypeOK
<1>1. TypeInv => TypeOK  BY DEF TypeInv
<1> QED BY <1>1, TypeInit, TypeNext, PTL DEF Spec

-----------------------------------------------------------------------------
(***************************************************************************)
(* The layers agree about the viewport.                                    *)
(***************************************************************************)
\* A rebuild applies to all layers or to none of them.
LEMMA RebuildAllOrNone ==
  ASSUME LayersAgree, NEW s \in Sizes, NEW r \in Ratios, SetDrawContextGeometry(s, r)
  PROVE  LayersAgree'
<1>1. ASSUME NEW c \in Contexts, NEW d \in Contexts PROVE ctxRatio'[c] = ctxRatio'[d]
  <2>1. CASE \A e \in Contexts : CanSetPixelRatio(e, r)
    <3>1. ASSUME NEW e \in Contexts PROVE ctxRatio'[e] = r
      BY <2>1 DEF SetDrawContextGeometry, CanSetPixelRatio
    <3> QED BY <3>1
  <2>2. CASE ~\A e \in Contexts : CanSetPixelRatio(e, r)
    BY <2>2 DEF SetDrawContextGeometry, LayersAgree
  <2> QED BY <2>1, <2>2
<1>2. ASSUME NEW c \in Contexts, NEW d \in Contexts PROVE ctxSize'[c] = ctxSize'[d]
  <2> DEFINE ok == /\ \A e \in Contexts : CanSetPixelRatio(e, r)
                   /\ \A e \in Contexts : CanResize(e, s)
  <2>1. CASE ok
    <3>1. ASSUME NEW e \in Contexts PROVE ctxSize'[e] = s
      BY <2>1 DEF SetDrawContextGeometry, CanResize
    <3> QED BY <3>1
  <2>2. CASE ~ok
    BY <2>2 DEF SetDrawContextGeometry, LayersAgree
  <2> QED BY <2>1, <2>2
<1> QED BY <1>1, <1>2 DEF LayersAgree

LEMMA ViewportSlotAgrees ==
  ASSUME LayersAgree, NEW s \in Sizes, NEW r \in Ratios, NEW p \in BOOLEAN,
         SlotUpdateDrawContextViewport(s, r, p)
  PROVE  LayersAgree'
<1>1. CASE DrawContextViewportIsCurrent(s, r)
  BY <1>1 DEF SlotUpdateDrawContextViewport, LayersAgree, shared
<1>2. CASE ~DrawContextViewportIsCurrent(s, r)
  BY <1>2, RebuildAllOrNone DEF SlotUpdateDrawContextViewport
<1> QED BY <1>1, <1>2

\* Which steps rebuild the buffers, and what all others leave alone.
RebuildStep ==
  \/ \E s \in Sizes, r \in Ratios, p \in BOOLEAN :
        SlotUpdateDrawContextViewport(s, r, p) /\ UNCHANGED <<pc, finished, drew>>
  \/ \E s \in Sizes, r \in Ratios : SetDrawContextGeometry(s, r) /\ UNCHANGED <<pc, finished, drew>>

LEMMA RebuildOrKeep ==
  ASSUME TypeOK, [Next]_vars
  PROVE  RebuildStep \/ UNCHANGED <<ctxSize, ctxRatio>>
<1> USE DEF widget, events, control, shared, thread
<1>1. ASSUME NEW s \in Sizes, ResizeEvent(s) PROVE RebuildStep
  BY <1>1 DEF ResizeEvent, RebuildStep, TypeOK
<1>2. ASSUME NEW r \in Ratios, RatioChange(r) PROVE RebuildStep \/ UNCHANGED <<ctxSize, ctxRatio>>
  BY <1>2 DEF RatioChange, RebuildStep, TypeOK
<1>3. ASSUME TimerFires PROVE RebuildStep
  BY <1>3 DEF TimerFires, RebuildStep, TypeOK
<1>4. ASSUME ViewportSlot PROVE RebuildStep
  BY <1>4 DEF ViewportSlot, RebuildStep, TypeOK
<1>5. ASSUME PrintRestore PROVE RebuildStep
  BY <1>5 DEF PrintRestore, RebuildStep, TypeOK
<1>6. ASSUME PrintResize PROVE RebuildStep
  BY <1>6 DEF PrintResize, RebuildStep, TypeOK
<1>7. ASSUME Next, ~\E s \in Sizes : ResizeEvent(s), ~\E r \in Ratios : RatioChange(r),
             ~TimerFires, ~ViewportSlot, ~PrintRestore, ~PrintResize
      PROVE  UNCHANGED <<ctxSize, ctxRatio>>
  BY <1>7 DEF Next, Environment, EventLoop, Drawing, Thread, Move, ZoomTo, LayerChanged, ShowHide,
     PrintArea, PaintEvent, DeliverFinished, DrawSetFocus, DrawLocked, DrawStart, EndPaint,
     PrintAgain, EndPrintDraw, RunCopy, RunDraw, RunSwap, ThreadFinishes, ThreadEnds
<1>8. CASE UNCHANGED vars
  BY <1>8 DEF vars
<1> QED BY <1>1, <1>2, <1>3, <1>4, <1>5, <1>6, <1>7, <1>8

LEMMA LayersInit == Init => LayersAgree
BY DEF Init, LayersAgree

LEMMA LayersNext == TypeInv /\ LayersAgree /\ [Next]_vars => LayersAgree'
<1> SUFFICES ASSUME TypeInv, LayersAgree, [Next]_vars PROVE LayersAgree'
  OBVIOUS
<1>1. CASE RebuildStep
  BY <1>1, RebuildAllOrNone, ViewportSlotAgrees DEF RebuildStep
<1>2. CASE UNCHANGED <<ctxSize, ctxRatio>>
  BY <1>2 DEF LayersAgree
<1> QED BY <1>1, <1>2, RebuildOrKeep DEF TypeInv

\* Whatever the threads do, no resize, ratio change or print leaves two layers
\* with buffers for different viewports.
THEOREM LayersAlwaysAgree == Spec => []LayersAgree
BY TypeInit, TypeNext, LayersInit, LayersNext, PTL DEF Spec

-----------------------------------------------------------------------------
(***************************************************************************)
(* Twin buffers.                                                           *)
(***************************************************************************)
\* A half-drawn image exists only while the layer's thread draws, and it is
\* the image the main thread does not paint.
HalfDrawn(c, i) == buffer[c][i].ref # NoView /\ buffer[c][i].image = NoView
HalfDrawnIsBack ==
  \A c \in Contexts, i \in {0, 1} : HalfDrawn(c, i) => pc[c] = "drawing" /\ i = Back(c)

\* A rebuild keeps the images of a running layer and leaves the other layers'
\* images as they are or blank.
LEMMA RebuildSparesRunning ==
  ASSUME NEW s \in Sizes, NEW r \in Ratios, SetDrawContextGeometry(s, r), NEW c \in Contexts
  PROVE  /\ IsRunning(c) => buffer'[c] = buffer[c]
         /\ \/ buffer'[c] = buffer[c]
            \/ \A i \in {0, 1} : buffer'[c][i].ref = NoView
         /\ bufIndex' = bufIndex
BY DEF SetDrawContextGeometry, Blank

LEMMA ViewportSlotSparesRunning ==
  ASSUME TypeOK, NEW s \in Sizes, NEW r \in Ratios, NEW p \in BOOLEAN,
         SlotUpdateDrawContextViewport(s, r, p), NEW c \in Contexts
  PROVE  /\ IsRunning(c) => buffer'[c] = buffer[c]
         /\ \/ buffer'[c] = buffer[c]
            \/ \A i \in {0, 1} : buffer'[c][i].ref = NoView
         /\ bufIndex' = bufIndex
<1>1. CASE DrawContextViewportIsCurrent(s, r)
  BY <1>1 DEF SlotUpdateDrawContextViewport, shared
<1>2. CASE ~DrawContextViewportIsCurrent(s, r)
  BY <1>2, RebuildSparesRunning DEF SlotUpdateDrawContextViewport
<1> QED BY <1>1, <1>2

\* Every step either rebuilds the buffers, or is a step of one layer's thread,
\* or leaves all images alone and stops no thread.
LEMMA BufferSteps ==
  ASSUME TypeInv, [Next]_vars
  PROVE  \/ RebuildStep
         \/ \E c \in Contexts : Thread(c)
         \/ /\ UNCHANGED <<buffer, bufIndex>>
            /\ \A c \in Contexts : pc[c] # "idle" => pc'[c] = pc[c]
<1> USE DEF widget, events, control, shared, thread
<1>1. ASSUME NEW s \in Sizes, ResizeEvent(s) PROVE RebuildStep
  BY <1>1 DEF ResizeEvent, RebuildStep, TypeOK, TypeInv
<1>2. ASSUME NEW r \in Ratios, RatioChange(r), visible PROVE RebuildStep
  BY <1>2 DEF RatioChange, RebuildStep, TypeOK, TypeInv
<1>3. ASSUME TimerFires \/ ViewportSlot \/ PrintRestore PROVE RebuildStep
  BY <1>3 DEF TimerFires, ViewportSlot, PrintRestore, RebuildStep, TypeOK, TypeInv
<1>4. ASSUME PrintResize PROVE RebuildStep
  BY <1>4 DEF PrintResize, RebuildStep, TypeOK, TypeInv
<1>5. ASSUME NEW c \in Contexts, DeliverFinished(c)
      PROVE  /\ UNCHANGED <<buffer, bufIndex>>
             /\ \A d \in Contexts : pc[d] # "idle" => pc'[d] = pc[d]
  BY <1>5 DEF DeliverFinished, TypeOK, TypeInv
<1>6. ASSUME DrawStart
      PROVE  /\ UNCHANGED <<buffer, bufIndex>>
             /\ \A d \in Contexts : pc[d] # "idle" => pc'[d] = pc[d]
  BY <1>6 DEF DrawStart, IsRunning, TypeOK, TypeInv
<1>7. ASSUME Next, ~\E s \in Sizes : ResizeEvent(s), ~(visible /\ \E r \in Ratios : RatioChange(r)),
             ~(TimerFires \/ ViewportSlot \/ PrintRestore), ~PrintResize,
             ~\E c \in Contexts : DeliverFinished(c), ~DrawStart, ~\E c \in Contexts : Thread(c)
      PROVE  UNCHANGED <<buffer, bufIndex, pc>>
  BY <1>7 DEF Next, Environment, EventLoop, Drawing, Move, ZoomTo, LayerChanged, ShowHide,
     RatioChange, PrintArea, PaintEvent, DrawSetFocus, DrawLocked, EndPaint, PrintAgain, EndPrintDraw
<1>8. CASE UNCHANGED vars
  BY <1>8 DEF vars
<1> QED BY <1>1, <1>2, <1>3, <1>4, <1>5, <1>6, <1>7, <1>8

LEMMA HalfDrawnInit == Init => HalfDrawnIsBack
BY DEF Init, HalfDrawnIsBack, HalfDrawn, Blank

LEMMA HalfDrawnNext == TypeInv /\ HalfDrawnIsBack /\ [Next]_vars => HalfDrawnIsBack'
<1> SUFFICES ASSUME TypeInv, HalfDrawnIsBack, [Next]_vars,
                    NEW d \in Contexts, NEW i \in {0, 1}, HalfDrawn(d, i)'
             PROVE  (pc[d] = "drawing" /\ i = Back(d))'
  BY DEF HalfDrawnIsBack
<1> USE DEF widget, events, control, shared, thread
<1>1. CASE RebuildStep
  <2>1. buffer'[d] = buffer[d] /\ bufIndex' = bufIndex /\ pc' = pc
    BY <1>1, RebuildSparesRunning, ViewportSlotSparesRunning DEF RebuildStep, HalfDrawn, TypeInv
  <2> QED BY <2>1 DEF HalfDrawnIsBack, HalfDrawn, Back
<1>2. ASSUME NEW c \in Contexts, RunCopy(c) PROVE (pc[d] = "drawing" /\ i = Back(d))'
  BY <1>2, BackInRange DEF RunCopy, HalfDrawnIsBack, HalfDrawn, Back, TypeOK, TypeInv
<1>3. ASSUME NEW c \in Contexts, RunDraw(c) PROVE (pc[d] = "drawing" /\ i = Back(d))'
  <2>1. [focus |-> focus[c], zoom |-> zoom[c], data |-> data[c]] \in Live
    BY DEF TypeOK, TypeInv, Live
  <2>2. buffer[c][Back(c)] \in Frame  BY BackInRange DEF TypeOK, TypeInv
  <2>3. buffer'[c][Back(c)].image # NoView
    BY <1>3, <2>1, <2>2, BackInRange DEF RunDraw, TypeOK, TypeInv, Frame
  <2>4. CASE d = c
    <3>1. i # Back(c)  BY <2>3, <2>4 DEF HalfDrawn
    <3>2. buffer'[c][i] = buffer[c][i]  BY <1>3, <3>1 DEF RunDraw, TypeOK, TypeInv
    <3> QED BY <2>4, <3>1, <3>2 DEF HalfDrawnIsBack, HalfDrawn
  <2>5. CASE d # c
    BY <1>3, <2>5 DEF RunDraw, HalfDrawnIsBack, HalfDrawn, Back, TypeOK, TypeInv
  <2> QED BY <2>4, <2>5
<1>4. ASSUME NEW c \in Contexts, RunSwap(c) \/ ThreadFinishes(c) \/ ThreadEnds(c)
      PROVE  (pc[d] = "drawing" /\ i = Back(d))'
  BY <1>4 DEF RunSwap, ThreadFinishes, ThreadEnds, HalfDrawnIsBack, HalfDrawn, Back, TypeOK, TypeInv
<1>5. CASE /\ UNCHANGED <<buffer, bufIndex>>
           /\ \A c \in Contexts : pc[c] # "idle" => pc'[c] = pc[c]
  BY <1>5 DEF HalfDrawnIsBack, HalfDrawn, Back
<1> QED BY <1>1, <1>2, <1>3, <1>4, <1>5, BufferSteps DEF Thread

\* The main thread never paints a half-drawn image.
THEOREM FrontIsAlwaysWhole == Spec => []FrontIsWhole
<1>1. TypeInv /\ HalfDrawnIsBack => FrontIsWhole
  BY BackInRange DEF HalfDrawnIsBack, HalfDrawn, FrontIsWhole, Front, Back, TypeInv, TypeOK
<1> QED BY <1>1, TypeInit, TypeNext, HalfDrawnInit, HalfDrawnNext, PTL DEF Spec

\* Nobody reallocates, repaints or swaps an image a thread draws into.
THEOREM ImageInUseIsAlwaysKept == Spec => ImageInUseIsKept
<1> USE DEF widget, events, control, shared, thread
<1>1. ASSUME TypeInv, [Next]_vars, NEW c \in Contexts, pc[c] = "drawing", pc'[c] = "drawing"
      PROVE  buffer'[c] = buffer[c] /\ bufIndex'[c] = bufIndex[c]
  <2>1. CASE RebuildStep
    BY <1>1, <2>1, RebuildSparesRunning, ViewportSlotSparesRunning
    DEF RebuildStep, IsRunning, TypeInv
  <2>2. ASSUME NEW d \in Contexts, Thread(d)
        PROVE  buffer'[c] = buffer[c] /\ bufIndex'[c] = bufIndex[c]
    BY <1>1, <2>2 DEF Thread, RunCopy, RunDraw, RunSwap, ThreadFinishes, ThreadEnds, TypeInv, TypeOK
  <2>3. CASE UNCHANGED <<buffer, bufIndex>>
    BY <2>3
  <2> QED BY <1>1, <2>1, <2>2, <2>3, BufferSteps
<1>2. TypeInv /\ [Next]_vars =>
        [\A c \in Contexts : pc[c] = "drawing" /\ pc'[c] = "drawing" =>
            buffer'[c] = buffer[c] /\ bufIndex'[c] = bufIndex[c]]_vars
  BY <1>1
<1> QED BY <1>2, TypeInit, TypeNext, PTL DEF Spec, ImageInUseIsKept

-----------------------------------------------------------------------------
(***************************************************************************)
(* No redraw request is left without an owner.                             *)
(***************************************************************************)
\* While a paint event is served no other one is posted, and every layer is
\* drawn with the flags the canvas held when it began.
PaintPhase ==
  job = "paint" =>
    mpc \in {"next", "lock", "start"} /\ ~update /\ redrawArg = needsRedraw

\* Someone who will start, or already runs, the thread of layer c.
Starter(c) ==
  pc[c] # "idle" \/ finished[c] > 0 \/ (mpc = "start" /\ cur = c)

\* The canvas still has to ask layer c: a paint event is posted, or it is being
\* served and has not reached the mutex section of c.
StillToAsk(c) ==
  /\ c \in needsRedraw
  /\ update \/ (job = "paint" /\ (c \in todo \/ (mpc = "lock" /\ cur = c)))

OwnerInv ==
  /\ PaintPhase
  /\ \A c \in Contexts : intNeedsRedraw[c] => Starter(c) \/ StillToAsk(c)

\* The viewport slot only adds to the requests of the canvas.
LEMMA ViewportSlotAsksMore ==
  ASSUME NEW s, NEW r, NEW p \in BOOLEAN, TypeOK, SlotUpdateDrawContextViewport(s, r, p)
  PROVE  /\ UNCHANGED intNeedsRedraw
         /\ update => update'
         /\ needsRedraw \subseteq needsRedraw'
<1>1. CASE DrawContextViewportIsCurrent(s, r)
  BY <1>1 DEF SlotUpdateDrawContextViewport, shared, TypeOK
<1>2. CASE ~DrawContextViewportIsCurrent(s, r)
  BY <1>2 DEF SlotUpdateDrawContextViewport, SetDrawContextGeometry, TypeOK
<1> QED BY <1>1, <1>2

LEMMA OwnerInit == Init => OwnerInv
BY DEF Init, OwnerInv, PaintPhase, Starter, StillToAsk

LEMMA OwnerNext == TypeInv /\ OwnerInv /\ [Next]_vars => OwnerInv'
<1> SUFFICES ASSUME TypeInv, OwnerInv, [Next]_vars PROVE OwnerInv'
  OBVIOUS
<1> USE DEF widget, events, control, shared, thread, TypeInv
<1> USE DEF OwnerInv, PaintPhase, Starter, StillToAsk
<1>1. ASSUME NEW f \in Focus, Move(f) PROVE OwnerInv'
  BY <1>1 DEF Move, Request, SlotTriggerCompleteUpdate
<1>2. ASSUME NEW z \in Zooms, ZoomTo(z) PROVE OwnerInv'
  BY <1>2 DEF ZoomTo, Request, SlotTriggerCompleteUpdate
<1>3. ASSUME NEW c \in Contexts, LayerChanged(c) PROVE OwnerInv'
  BY <1>3 DEF LayerChanged, Request, SlotTriggerCompleteUpdate
<1>4. ASSUME NEW s \in Sizes, ResizeEvent(s) PROVE OwnerInv'
  <2>1. SlotUpdateDrawContextViewport(s, ratio, TRUE)  BY <1>4 DEF ResizeEvent
  <2> QED BY <1>4, <2>1, ViewportSlotAsksMore DEF ResizeEvent, Request
<1>5. ASSUME NEW r \in Ratios, RatioChange(r) PROVE OwnerInv'
  <2>1. CASE visible
    <3>1. SlotUpdateDrawContextViewport(size, r, TRUE)  BY <1>5, <2>1 DEF RatioChange
    <3> QED BY <1>5, <3>1, ViewportSlotAsksMore DEF RatioChange, Request
  <2>2. CASE ~visible
    BY <1>5, <2>2 DEF RatioChange, Request
  <2> QED BY <2>1, <2>2
<1>6. ASSUME ShowHide PROVE OwnerInv'
  BY <1>6 DEF ShowHide, Request
<1>7. ASSUME NEW s \in PrintSizes, NEW f \in Focus, PrintArea(s, f) PROVE OwnerInv'
  BY <1>7 DEF PrintArea, Request
<1>8. ASSUME TimerFires PROVE OwnerInv'
  <2>1. SlotUpdateDrawContextViewport(size, ratio, FALSE)  BY <1>8 DEF TimerFires
  <2> QED BY <1>8, <2>1, ViewportSlotAsksMore DEF TimerFires
<1>9. ASSUME ViewportSlot PROVE OwnerInv'
  <2>1. SlotUpdateDrawContextViewport(size, ratio, FALSE)  BY <1>9 DEF ViewportSlot
  <2> QED BY <1>9, <2>1, ViewportSlotAsksMore DEF ViewportSlot
<1>10. ASSUME PaintEvent PROVE OwnerInv'
  BY <1>10 DEF PaintEvent, BeginDraw
<1>11. ASSUME NEW c \in Contexts, DeliverFinished(c) PROVE OwnerInv'
  <2>1. PaintPhase'  BY <1>11 DEF DeliverFinished
  <2>2. ASSUME NEW d \in Contexts, intNeedsRedraw'[d] PROVE Starter(d)' \/ StillToAsk(d)'
    <3>1. CASE d = c
      <4>1. CASE RestartNeeded(c)
        BY <1>11, <2>2, <3>1, <4>1 DEF DeliverFinished, TypeOK
      <4>2. CASE ~RestartNeeded(c)
        BY <1>11, <2>2, <3>1, <4>2 DEF DeliverFinished, RestartNeeded, IsRunning, TypeOK
      <4> QED BY <4>1, <4>2
    <3>2. CASE d # c
      BY <1>11, <2>2, <3>2 DEF DeliverFinished, TypeOK
    <3> QED BY <3>1, <3>2
  <2> QED BY <2>1, <2>2
<1>12. ASSUME NEW c \in Contexts, DrawSetFocus(c) PROVE OwnerInv'
  BY <1>12 DEF DrawSetFocus
<1>13. ASSUME DrawLocked PROVE OwnerInv'
  <2>1. PaintPhase'  BY <1>13 DEF DrawLocked
  <2>2. ASSUME NEW d \in Contexts, intNeedsRedraw'[d] PROVE Starter(d)' \/ StillToAsk(d)'
    BY <1>13, <2>2 DEF DrawLocked, RedrawAsked, TypeOK
  <2> QED BY <2>1, <2>2
<1>14. ASSUME DrawStart PROVE OwnerInv'
  BY <1>14 DEF DrawStart, IsRunning, TypeOK
<1>15. ASSUME EndPaint PROVE OwnerInv'
  BY <1>15 DEF EndPaint, EndJob
<1>16. ASSUME PrintResize PROVE OwnerInv'
  BY <1>16 DEF PrintResize, BeginDraw, Waited, SetDrawContextGeometry
<1>17. ASSUME PrintAgain PROVE OwnerInv'
  BY <1>17 DEF PrintAgain, BeginDraw, Waited
<1>18. ASSUME PrintRestore PROVE OwnerInv'
  <2>1. SlotUpdateDrawContextViewport(size, ratio, FALSE)  BY <1>18 DEF PrintRestore
  <2> QED BY <1>18, <2>1, ViewportSlotAsksMore DEF PrintRestore, EndJob, Waited
<1>19. ASSUME EndPrintDraw PROVE OwnerInv'
  BY <1>19 DEF EndPrintDraw
<1>20. ASSUME NEW c \in Contexts, RunCopy(c) PROVE OwnerInv'
  BY <1>20 DEF RunCopy, TypeOK
<1>21. ASSUME NEW c \in Contexts, RunDraw(c) \/ RunSwap(c) \/ ThreadFinishes(c) PROVE OwnerInv'
  BY <1>21 DEF RunDraw, RunSwap, ThreadFinishes, TypeOK
<1>22. ASSUME NEW c \in Contexts, ThreadEnds(c) PROVE OwnerInv'
  BY <1>22 DEF ThreadEnds, TypeOK
<1>23. CASE UNCHANGED vars
  BY <1>23 DEF vars
<1> QED
  BY <1>1, <1>2, <1>3, <1>4, <1>5, <1>6, <1>7, <1>8, <1>9, <1>10, <1>11, <1>12, <1>13, <1>14,
     <1>15, <1>16, <1>17, <1>18, <1>19, <1>20, <1>21, <1>22, <1>23
  DEF Next, Environment, EventLoop, Drawing, Thread

\* A raised redraw flag always has somebody who will start or already runs the
\* layer's thread.
THEOREM RequestAlwaysHasOwner == Spec => []RequestHasOwner
<1>1. OwnerInv => RequestHasOwner
  BY DEF OwnerInv, RequestHasOwner, Starter, StillToAsk
<1> QED BY <1>1, TypeInit, TypeNext, OwnerInit, OwnerNext, PTL DEF Spec

-----------------------------------------------------------------------------
(***************************************************************************)
(* A refused resize is retried.                                            *)
(***************************************************************************)
RetryInv ==
  visible /\ ~DrawContextViewportIsCurrent(size, ratio) =>
    /\ mpc = "loop" => timer \/ update
    /\ job = "paint" => timer

\* After the slot the layers have the widget's geometry or the timer runs.
LEMMA SlotAppliesOrRetries ==
  ASSUME TypeOK, NEW s \in Sizes, NEW r \in Ratios, NEW p \in BOOLEAN,
         SlotUpdateDrawContextViewport(s, r, p)
  PROVE  timer' \/ \A c \in Contexts : ctxSize'[c] = s /\ ctxRatio'[c] = r
<1>1. CASE DrawContextViewportIsCurrent(s, r)
  BY <1>1 DEF SlotUpdateDrawContextViewport, DrawContextViewportIsCurrent, shared
<1>2. CASE ~DrawContextViewportIsCurrent(s, r) /\ GeometryAccepted(s, r)
  <2>1. SetDrawContextGeometry(s, r)  BY <1>2 DEF SlotUpdateDrawContextViewport
  <2>2. ASSUME NEW c \in Contexts PROVE ctxSize'[c] = s /\ ctxRatio'[c] = r
    BY <1>2, <2>1 DEF SetDrawContextGeometry, GeometryAccepted, CanResize, CanSetPixelRatio
  <2> QED BY <2>2
<1>3. CASE ~DrawContextViewportIsCurrent(s, r) /\ ~GeometryAccepted(s, r)
  BY <1>3 DEF SlotUpdateDrawContextViewport, RetryNeeded
<1> QED BY <1>1, <1>2, <1>3

LEMMA RetryNext == TypeInv /\ OwnerInv /\ RetryInv /\ [Next]_vars => RetryInv'
<1> SUFFICES ASSUME TypeInv, OwnerInv, RetryInv, [Next]_vars PROVE RetryInv'
  OBVIOUS
<1> USE DEF widget, events, control, shared, thread, TypeInv, RetryInv
<1> USE DEF DrawContextViewportIsCurrent
<1>1. ASSUME NEW s \in Sizes, ResizeEvent(s) PROVE RetryInv'
  <2>1. SlotUpdateDrawContextViewport(s, ratio, TRUE) /\ ratio \in Ratios
    BY <1>1 DEF ResizeEvent, TypeOK
  <2>2. timer' \/ \A c \in Contexts : ctxSize'[c] = s /\ ctxRatio'[c] = ratio
    BY <2>1, SlotAppliesOrRetries
  <2> QED BY <1>1, <2>2 DEF ResizeEvent
<1>2. ASSUME NEW r \in Ratios, RatioChange(r) PROVE RetryInv'
  <2>1. CASE visible
    <3>1. SlotUpdateDrawContextViewport(size, r, TRUE) /\ size \in Sizes
      BY <1>2, <2>1 DEF RatioChange, TypeOK
    <3>2. timer' \/ \A c \in Contexts : ctxSize'[c] = size /\ ctxRatio'[c] = r
      BY <3>1, SlotAppliesOrRetries
    <3> QED BY <1>2, <3>2 DEF RatioChange
  <2>2. CASE ~visible
    BY <1>2, <2>2 DEF RatioChange
  <2> QED BY <2>1, <2>2
<1>3. ASSUME TimerFires \/ ViewportSlot \/ PrintRestore PROVE RetryInv'
  <2>1. SlotUpdateDrawContextViewport(size, ratio, FALSE) /\ size \in Sizes /\ ratio \in Ratios
    BY <1>3 DEF TimerFires, ViewportSlot, PrintRestore, TypeOK
  <2>2. timer' \/ \A c \in Contexts : ctxSize'[c] = size /\ ctxRatio'[c] = ratio
    BY <2>1, SlotAppliesOrRetries
  <2>3. UNCHANGED <<size, ratio>>
    BY <1>3 DEF TimerFires, ViewportSlot, PrintRestore
  <2> QED BY <2>2, <2>3
<1>4. ASSUME \/ \E f \in Focus : Move(f)
             \/ \E z \in Zooms : ZoomTo(z)
             \/ \E c \in Contexts : LayerChanged(c)
             \/ ShowHide
      PROVE  RetryInv'
  BY <1>4 DEF Move, ZoomTo, LayerChanged, ShowHide, Request, SlotTriggerCompleteUpdate, OwnerInv,
     PaintPhase
<1>5. ASSUME NEW s \in PrintSizes, NEW f \in Focus, PrintArea(s, f) PROVE RetryInv'
  BY <1>5 DEF PrintArea
<1>6. ASSUME PaintEvent PROVE RetryInv'
  BY <1>6 DEF PaintEvent, BeginDraw
<1>7. ASSUME NEW c \in Contexts, DeliverFinished(c) PROVE RetryInv'
  BY <1>7 DEF DeliverFinished, OwnerInv, PaintPhase
<1>8. ASSUME EndPaint PROVE RetryInv'
  BY <1>8 DEF EndPaint, EndJob
<1>9. ASSUME PrintResize \/ PrintAgain \/ EndPrintDraw PROVE RetryInv'
  BY <1>9 DEF PrintResize, PrintAgain, EndPrintDraw, BeginDraw
<1>10. ASSUME \/ \E c \in Contexts : DrawSetFocus(c)
              \/ DrawLocked \/ DrawStart
       PROVE  RetryInv'
  BY <1>10 DEF DrawSetFocus, DrawLocked, DrawStart
<1>11. ASSUME NEW c \in Contexts, Thread(c) PROVE RetryInv'
  BY <1>11 DEF Thread, RunCopy, RunDraw, RunSwap, ThreadFinishes, ThreadEnds
<1>12. CASE UNCHANGED vars
  BY <1>12 DEF vars
<1> QED
  BY <1>1, <1>2, <1>3, <1>4, <1>5, <1>6, <1>7, <1>8, <1>9, <1>10, <1>11, <1>12
  DEF Next, Environment, EventLoop, Drawing

\* A visible canvas never rests with layers built for another geometry: the
\* retry timer runs or a paint event that arms it is posted.
THEOREM RetryIsAlwaysArmed == Spec => []RetryIsArmed
<1>1. Init => RetryInv
  BY DEF Init, RetryInv, DrawContextViewportIsCurrent
<1>2. RetryInv => RetryIsArmed
  BY DEF RetryInv, RetryIsArmed, DrawContextViewportIsCurrent
<1> QED BY <1>1, <1>2, TypeInit, TypeNext, OwnerInit, OwnerNext, RetryNext, PTL DEF Spec

=============================================================================
