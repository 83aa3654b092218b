----------------------- MODULE DrawContextLatestProofs -----------------------
(***************************************************************************)
(* Proofs about what the canvas shows when it reports that drawing is      *)
(* complete, and what print() puts on the page.                            *)
(***************************************************************************)
EXTENDS DrawContextProofs

USE ConstantsAssumption, NoViewAssumption DEF ConstantsAssumption, NoViewAssumption

-----------------------------------------------------------------------------
(***************************************************************************)
(* The inductive invariant.                                                *)
(***************************************************************************)
PrintJobs == {"print0", "print1", "print2"}

\* Where the main thread is for each job, and what its locals hold.
PhaseInv ==
  /\ mpc \in {"loop", "viewport"} <=> job = "none"
  /\ mpc = "wait" => job \in PrintJobs /\ todo = {}
  /\ job = "print0" => mpc = "wait"
  /\ job = "none" => todo = {}
  /\ job = "paint" => drawFocus = posFocus /\ redrawArg = needsRedraw
  /\ job \in {"print1", "print2"} => redrawArg = Contexts
  /\ job \in PrintJobs => printSize \in PrintSizes
  /\ mpc \in {"lock", "start"} => cur \in Contexts /\ cur \notin todo /\ focus[cur] = drawFocus

\* A thread that has just been started has drawn nothing yet.
StartedIsNew == \A c \in Contexts : pc[c] = "started" => ~drew[c]

\* The view of layer c centred on x.
ViewAt(c, x) == [focus |-> x, zoom |-> zoom[c], size |-> ctxSize[c], ratio |-> ctxRatio[c]]

\* Frame f was copied for that view, and shows it with the layer's latest data.
Begun(c, f, x) == f.ref = ViewAt(c, x) /\ f.zoom = zoom[c]
Shows(c, f, x) ==
  Begun(c, f, x) /\ f.image = [focus |-> x, zoom |-> zoom[c], data |-> data[c]]

\* How far the thread of c has come with its drawing of that view.
LastRun(c, x) ==
  /\ pc[c] = "drawing" => Begun(c, buffer[c][Back(c)], x) /\ focus[c] = x
  /\ pc[c] = "drawn"   => Shows(c, buffer[c][Back(c)], x)
  /\ pc[c] \in {"exiting", "finishing", "idle"} => Shows(c, Front(c), x)

\* The references the thread will copy are those of the view.
Asked(c, x) == ref[c] = ViewAt(c, x) /\ focus[c] = x

\* A layer shows the page of the canvas' own size that was printed from it.
ShowsPage(c) ==
  pc[c] = "idle" /\ ctxSize[c] \in PrintSizes /\ \E x \in Focus : Shows(c, Front(c), x)

\* The canvas has still to ask layer c for a redraw.
ToAsk(c) ==
  c \in needsRedraw /\ (job = "paint" => c \in todo \/ (mpc = "lock" /\ cur = c))

\* Layer c has been asked for the canvas' view, or its last run drew that view.
ScreenOf(c) ==
  \/ intNeedsRedraw[c] /\ Asked(c, posFocus)
  \/ ~intNeedsRedraw[c] /\ (drew[c] => LastRun(c, posFocus) \/ ShowsPage(c))

ScreenInv ==
  job \notin {"print1", "print2"} => \A c \in Contexts : ToAsk(c) \/ ScreenOf(c)

\* print() has still to draw layer c.
ToPrint(c) == c \in todo \/ (mpc = "lock" /\ cur = c)

\* Layer c on its way to the page: its thread rests until draw() asks it, then
\* draws the page once; before the second draw() the page is in front.
PageOf(c) ==
  \/ /\ ToPrint(c) /\ pc[c] = "idle"
     /\ job = "print2" => ~intNeedsRedraw[c] /\ Shows(c, Front(c), drawFocus)
  \/ /\ ~ToPrint(c) /\ intNeedsRedraw[c] /\ Asked(c, drawFocus)
     /\ pc[c] = IF mpc = "start" /\ cur = c THEN "idle" ELSE "started"
  \/ /\ ~ToPrint(c) /\ ~intNeedsRedraw[c] /\ pc[c] # "started"
     /\ ~(mpc = "start" /\ cur = c) /\ LastRun(c, drawFocus)

PrintInv ==
  job \in {"print1", "print2"} => \A c \in Contexts : ctxSize[c] = printSize /\ PageOf(c)

LatestInv == PhaseInv /\ StartedIsNew /\ ScreenInv /\ PrintInv

-----------------------------------------------------------------------------
(***************************************************************************)
(* What a step leaves alone.                                               *)
(***************************************************************************)
\* Nothing of layer c and its thread changes.
Kept(c) ==
  /\ ctxSize'[c] = ctxSize[c] /\ ctxRatio'[c] = ctxRatio[c]
  /\ zoom'[c] = zoom[c] /\ focus'[c] = focus[c] /\ ref'[c] = ref[c]
  /\ intNeedsRedraw'[c] = intNeedsRedraw[c] /\ bufIndex'[c] = bufIndex[c]
  /\ buffer'[c] = buffer[c] /\ data'[c] = data[c] /\ pc'[c] = pc[c] /\ drew'[c] = drew[c]

LEMMA ScreenOfKept ==
  ASSUME NEW c \in Contexts, Kept(c), posFocus' = posFocus, ScreenOf(c)
  PROVE  ScreenOf(c)'
BY DEF Kept, ScreenOf, Asked, LastRun, ShowsPage, Shows, Begun, ViewAt, Front, Back

\* draw() of a layer nobody asked moves its focus and references to the view of
\* the canvas, which is what they are read for.
LEMMA ScreenOfReferred ==
  ASSUME NEW c \in Contexts, ScreenOf(c), posFocus' = posFocus, focus'[c] = posFocus,
         ref'[c] = ref[c] \/ ref'[c] = ViewAt(c, posFocus),
         UNCHANGED <<ctxSize, ctxRatio, zoom, intNeedsRedraw, bufIndex, buffer, data, pc, drew>>
  PROVE  ScreenOf(c)'
<1>1. ViewAt(c, posFocus)' = ViewAt(c, posFocus)  BY DEF ViewAt
<1>2. CASE intNeedsRedraw[c] /\ Asked(c, posFocus)
  BY <1>1, <1>2 DEF ScreenOf, Asked
<1>3. CASE ~intNeedsRedraw[c] /\ ~drew[c]
  BY <1>3 DEF ScreenOf
<1>4. CASE ~intNeedsRedraw[c] /\ LastRun(c, posFocus)
  <2>1. LastRun(c, posFocus)'
    BY <1>4 DEF LastRun, Shows, Begun, ViewAt, Front, Back
  <2> QED BY <1>4, <2>1 DEF ScreenOf
<1>5. CASE ~intNeedsRedraw[c] /\ ShowsPage(c)
  <2>1. ShowsPage(c)'
    BY <1>5 DEF ShowsPage, Shows, Begun, ViewAt, Front
  <2> QED BY <1>5, <2>1 DEF ScreenOf
<1> QED BY <1>2, <1>3, <1>4, <1>5 DEF ScreenOf

LEMMA PageOfKept ==
  ASSUME NEW c \in Contexts, Kept(c), job' = job, drawFocus' = drawFocus, PageOf(c),
         ToPrint(c)' <=> ToPrint(c), (mpc' = "start" /\ cur' = c) <=> (mpc = "start" /\ cur = c)
  PROVE  PageOf(c)'
BY DEF Kept, PageOf, Asked, LastRun, Shows, Begun, ViewAt, Front, Back

\* When the layers agree, a rebuild is accepted by all of them or changes none.
LEMMA RebuiltOrRefused ==
  ASSUME TypeOK, LayersAgree, NEW s \in Sizes, NEW r \in Ratios, SetDrawContextGeometry(s, r)
  PROVE  \/ GeometryAccepted(s, r) /\ \A c \in Contexts : ctxSize'[c] = s /\ ctxRatio'[c] = r
         \/ ~GeometryAccepted(s, r) /\ UNCHANGED <<ctxSize, ctxRatio, buffer>>
<1>1. CASE GeometryAccepted(s, r)
  <2>1. ASSUME NEW c \in Contexts PROVE ctxSize'[c] = s /\ ctxRatio'[c] = r
    BY <1>1 DEF SetDrawContextGeometry, GeometryAccepted, CanResize, CanSetPixelRatio
  <2> QED BY <1>1, <2>1
<1>2. CASE ~GeometryAccepted(s, r)
  <2>1. PICK e \in Contexts : IsRunning(e) /\ (ctxRatio[e] # r \/ ctxSize[e] # s)
    BY <1>2 DEF GeometryAccepted, CanResize, CanSetPixelRatio
  <2>2. ~(/\ \A c \in Contexts : CanSetPixelRatio(c, r)
          /\ \A c \in Contexts : CanResize(c, s))
    BY <1>2 DEF GeometryAccepted
  <2>3. CASE ctxRatio[e] = r
    <3>1. ASSUME NEW c \in Contexts PROVE ctxRatio[c] = r
      BY <2>3 DEF LayersAgree
    <3>2. ASSUME NEW c \in Contexts
          PROVE  ctxRatio'[c] = ctxRatio[c] /\ ctxSize'[c] = ctxSize[c] /\ buffer'[c] = buffer[c]
      BY <2>2, <3>1 DEF SetDrawContextGeometry
    <3> QED BY <1>2, <3>2, SetGeometryType DEF TypeOK
  <2>4. CASE ctxRatio[e] # r
    <3>1. ~CanSetPixelRatio(e, r)  BY <2>1, <2>4 DEF CanSetPixelRatio
    <3>2. ASSUME NEW c \in Contexts
          PROVE  ctxRatio'[c] = ctxRatio[c] /\ ctxSize'[c] = ctxSize[c] /\ buffer'[c] = buffer[c]
      BY <3>1 DEF SetDrawContextGeometry
    <3> QED BY <1>2, <3>2, SetGeometryType DEF TypeOK
  <2> QED BY <2>3, <2>4
<1> QED BY <1>1, <1>2

\* The viewport slot asks every layer for a redraw or leaves the layers alone.
LEMMA SlotAsksAllOrKeeps ==
  ASSUME TypeOK, LayersAgree, NEW s \in Sizes, NEW r \in Ratios, NEW p \in BOOLEAN,
         SlotUpdateDrawContextViewport(s, r, p)
  PROVE  \/ needsRedraw' = Contexts
         \/ needsRedraw' = needsRedraw /\ UNCHANGED shared
<1>1. CASE DrawContextViewportIsCurrent(s, r)
  BY <1>1 DEF SlotUpdateDrawContextViewport
<1>2. CASE ~DrawContextViewportIsCurrent(s, r)
  BY <1>2, RebuiltOrRefused, SetGeometryType DEF SlotUpdateDrawContextViewport, shared
<1> QED BY <1>1, <1>2

-----------------------------------------------------------------------------
(***************************************************************************)
(* The layer's thread.                                                     *)
(***************************************************************************)
LEMMA ThreadKeepsOthers ==
  ASSUME TypeOK, NEW c \in Contexts, NEW d \in Contexts, d # c, Thread(c)
  PROVE  Kept(d)
BY DEF Thread, RunCopy, RunDraw, RunSwap, ThreadFinishes, ThreadEnds, Kept, control, events, shared,
   thread, TypeOK

\* A thread that copies what it was asked for is drawing that view ...
LEMMA CopyBegins ==
  ASSUME TypeOK, NEW c \in Contexts, RunCopy(c), NEW x, Asked(c, x)
  PROVE  pc'[c] = "drawing" /\ ~intNeedsRedraw'[c] /\ (Begun(c, buffer[c][Back(c)], x) /\ focus[c] = x)'
<1>1. Back(c) \in {0, 1}  BY BackInRange
<1>2. buffer'[c][Back(c)] = [ref |-> ref[c], zoom |-> zoom[c], image |-> NoView]
  BY <1>1 DEF RunCopy, TypeOK
<1> QED BY <1>2 DEF RunCopy, Asked, Begun, ViewAt, Back, TypeOK

\* ... and shows it when it ends.
LEMMA RunGoesOn ==
  ASSUME TypeOK, NEW c \in Contexts, NEW x, LastRun(c, x), pc[c] # "started", ~intNeedsRedraw[c],
         Thread(c)
  PROVE  LastRun(c, x)' /\ pc'[c] # "started" /\ ~intNeedsRedraw'[c]
<1>1. CASE RunCopy(c)
  BY <1>1 DEF RunCopy
<1>2. CASE RunDraw(c)
  <2>1. Back(c) \in {0, 1} /\ buffer[c] \in [{0, 1} -> Frame]  BY BackInRange DEF TypeOK
  <2>2. buffer[c][Back(c)] \in Frame  BY <2>1
  <2>3. buffer'[c][Back(c)] = [buffer[c][Back(c)] EXCEPT !.image =
           [focus |-> focus[c], zoom |-> zoom[c], data |-> data[c]]]
    BY <1>2, <2>1 DEF RunDraw, TypeOK
  <2>4. /\ buffer'[c][Back(c)].ref = buffer[c][Back(c)].ref
        /\ buffer'[c][Back(c)].zoom = buffer[c][Back(c)].zoom
        /\ buffer'[c][Back(c)].image = [focus |-> focus[c], zoom |-> zoom[c], data |-> data[c]]
    BY <2>2, <2>3 DEF Frame
  <2>5. /\ pc[c] = "drawing" /\ pc'[c] = "drawn" /\ ~intNeedsRedraw'[c]
        /\ UNCHANGED <<ctxSize, ctxRatio, zoom, data, bufIndex>>
    BY <1>2 DEF RunDraw, TypeOK
  <2>6. Begun(c, buffer[c][Back(c)], x) /\ focus[c] = x  BY <2>5 DEF LastRun
  <2> QED BY <2>4, <2>5, <2>6 DEF LastRun, Shows, Begun, ViewAt, Back
<1>3. CASE RunSwap(c)
  <2>1. /\ pc[c] = "drawn" /\ pc'[c] = "exiting" /\ ~intNeedsRedraw'[c]
        /\ bufIndex'[c] = Back(c) /\ UNCHANGED <<ctxSize, ctxRatio, zoom, data, buffer>>
    BY <1>3 DEF RunSwap, TypeOK
  <2> QED BY <2>1 DEF LastRun, Shows, Begun, ViewAt, Front
<1>4. CASE ThreadFinishes(c)
  BY <1>4 DEF ThreadFinishes, LastRun, Shows, Begun, ViewAt, Front, Back, shared, TypeOK
<1>5. CASE ThreadEnds(c)
  BY <1>5 DEF ThreadEnds, LastRun, Shows, Begun, ViewAt, Front, Back, shared, TypeOK
<1> QED BY <1>1, <1>2, <1>3, <1>4, <1>5 DEF Thread

LEMMA ThreadKeepsScreen ==
  ASSUME TypeOK, StartedIsNew, NEW c \in Contexts, ScreenOf(c), Thread(c), posFocus' = posFocus
  PROVE  ScreenOf(c)'
<1>1. CASE intNeedsRedraw[c] /\ Asked(c, posFocus)
  <2>1. CASE RunCopy(c)
    BY <1>1, <2>1, CopyBegins DEF ScreenOf, LastRun
  <2>2. CASE ~RunCopy(c)
    BY <1>1, <2>2 DEF Thread, RunDraw, RunSwap, ThreadFinishes, ThreadEnds, ScreenOf, Asked, ViewAt,
       shared, TypeOK
  <2> QED BY <2>1, <2>2
<1>2. CASE ~intNeedsRedraw[c] /\ ~drew[c]
  BY <1>2 DEF Thread, RunCopy, RunDraw, RunSwap, ThreadFinishes, ThreadEnds, ScreenOf, shared, TypeOK
<1>3. CASE ~intNeedsRedraw[c] /\ drew[c] /\ LastRun(c, posFocus)
  <2>1. pc[c] # "started"  BY <1>3 DEF StartedIsNew
  <2> QED BY <1>3, <2>1, RunGoesOn DEF ScreenOf
<1>4. CASE ~intNeedsRedraw[c] /\ ShowsPage(c)
  BY <1>4 DEF ShowsPage, Thread, RunCopy, RunDraw, RunSwap, ThreadFinishes, ThreadEnds
<1> QED BY <1>1, <1>2, <1>3, <1>4 DEF ScreenOf

LEMMA ThreadKeepsPage ==
  ASSUME TypeOK, NEW c \in Contexts, PageOf(c), Thread(c), UNCHANGED control
  PROVE  PageOf(c)'
<1>1. pc[c] # "idle"
  BY DEF Thread, RunCopy, RunDraw, RunSwap, ThreadFinishes, ThreadEnds
<1>2. (ToPrint(c)' <=> ToPrint(c)) /\ drawFocus' = drawFocus /\ mpc' = mpc /\ cur' = cur
  BY DEF ToPrint, control
<1>3. CASE /\ ~ToPrint(c) /\ intNeedsRedraw[c] /\ Asked(c, drawFocus)
           /\ pc[c] = IF mpc = "start" /\ cur = c THEN "idle" ELSE "started"
  <2>1. pc[c] = "started" /\ ~(mpc = "start" /\ cur = c)  BY <1>1, <1>3
  <2>2. RunCopy(c)
    BY <1>3, <2>1 DEF Thread, RunDraw, RunSwap, ThreadFinishes, ThreadEnds
  <2> QED BY <1>2, <1>3, <2>1, <2>2, CopyBegins DEF PageOf, LastRun
<1>4. CASE /\ ~ToPrint(c) /\ ~intNeedsRedraw[c] /\ pc[c] # "started"
           /\ ~(mpc = "start" /\ cur = c) /\ LastRun(c, drawFocus)
  BY <1>2, <1>4, RunGoesOn DEF PageOf
<1> QED BY <1>1, <1>3, <1>4 DEF PageOf

-----------------------------------------------------------------------------
(***************************************************************************)
(* The inductive steps.                                                    *)
(***************************************************************************)
LEMMA LatestInit == Init => LatestInv
BY DEF Init, LatestInv, PhaseInv, PrintJobs, StartedIsNew, ScreenInv, ToAsk, PrintInv

LEMMA PhaseNext == TypeInv /\ PhaseInv /\ [Next]_vars => PhaseInv'
<1> SUFFICES ASSUME TypeInv, PhaseInv, [Next]_vars PROVE PhaseInv'
  OBVIOUS
<1> USE DEF PhaseInv, PrintJobs, TypeInv
<1> USE DEF widget, events, control, shared, thread
<1>1. ASSUME mpc = "loop" \/ mpc = "viewport", UNCHANGED <<job, todo, printSize>>,
             mpc' = "loop" \/ mpc' = "viewport"
      PROVE  PhaseInv'
  BY <1>1
<1>2. ASSUME \/ \E f \in Focus : Move(f)
             \/ \E z \in Zooms : ZoomTo(z)
             \/ \E c \in Contexts : LayerChanged(c)
             \/ \E s \in Sizes : ResizeEvent(s)
             \/ \E r \in Ratios : RatioChange(r)
             \/ ShowHide \/ TimerFires \/ ViewportSlot
             \/ \E c \in Contexts : DeliverFinished(c)
      PROVE  PhaseInv'
  BY <1>1, <1>2 DEF Move, ZoomTo, LayerChanged, ResizeEvent, RatioChange, ShowHide, TimerFires,
     ViewportSlot, DeliverFinished, Request
<1>3. ASSUME NEW s \in PrintSizes, NEW f \in Focus, PrintArea(s, f) PROVE PhaseInv'
  BY <1>3 DEF PrintArea, Request
<1>4. ASSUME PaintEvent PROVE PhaseInv'
  BY <1>4 DEF PaintEvent, BeginDraw
<1>5. ASSUME NEW c \in Contexts, DrawSetFocus(c) PROVE PhaseInv'
  BY <1>5 DEF DrawSetFocus, TypeOK
<1>6. ASSUME DrawLocked PROVE PhaseInv'
  BY <1>6 DEF DrawLocked
<1>7. ASSUME DrawStart PROVE PhaseInv'
  BY <1>7 DEF DrawStart
<1>8. ASSUME EndPaint \/ PrintRestore PROVE PhaseInv'
  BY <1>8 DEF EndPaint, PrintRestore, EndJob
<1>9. ASSUME PrintResize \/ PrintAgain PROVE PhaseInv'
  BY <1>9 DEF PrintResize, PrintAgain, BeginDraw, Waited
<1>10. ASSUME EndPrintDraw PROVE PhaseInv'
  BY <1>10 DEF EndPrintDraw
<1>11. ASSUME NEW c \in Contexts, Thread(c) PROVE PhaseInv'
  BY <1>11 DEF Thread, RunCopy, RunDraw, RunSwap, ThreadFinishes, ThreadEnds
<1>12. CASE UNCHANGED vars
  BY <1>12 DEF vars
<1> QED BY <1>2, <1>3, <1>4, <1>5, <1>6, <1>7, <1>8, <1>9, <1>10, <1>11, <1>12
        DEF Next, Environment, EventLoop, Drawing

LEMMA StartedNext == TypeInv /\ StartedIsNew /\ [Next]_vars => StartedIsNew'
<1> SUFFICES ASSUME TypeInv, StartedIsNew, [Next]_vars PROVE StartedIsNew'
  OBVIOUS
<1> USE DEF StartedIsNew, TypeInv
<1> USE DEF widget, events, control, shared, thread
<1>1. ASSUME NEW c \in Contexts, DeliverFinished(c) PROVE StartedIsNew'
  BY <1>1 DEF DeliverFinished, TypeOK
<1>2. ASSUME DrawStart PROVE StartedIsNew'
  BY <1>2 DEF DrawStart, IsRunning, TypeOK
<1>3. ASSUME NEW c \in Contexts, Thread(c) PROVE StartedIsNew'
  BY <1>3 DEF Thread, RunCopy, RunDraw, RunSwap, ThreadFinishes, ThreadEnds, TypeOK
<1>4. ASSUME Next, ~\E c \in Contexts : DeliverFinished(c), ~DrawStart, ~\E c \in Contexts : Thread(c)
      PROVE  UNCHANGED <<pc, drew>>
  BY <1>4 DEF Next, Environment, EventLoop, Drawing, Move, ZoomTo, LayerChanged, ResizeEvent,
     RatioChange, ShowHide, PrintArea, TimerFires, ViewportSlot, PaintEvent, DrawSetFocus,
     DrawLocked, EndPaint, PrintResize, PrintAgain, PrintRestore, EndPrintDraw
<1>5. CASE UNCHANGED vars
  BY <1>5 DEF vars
<1> QED BY <1>1, <1>2, <1>3, <1>4, <1>5

LEMMA ScreenNext ==
  TypeInv /\ LayersAgree /\ LatestInv /\ [Next]_vars => ScreenInv'
<1> SUFFICES ASSUME TypeInv, LayersAgree, LatestInv, [Next]_vars PROVE ScreenInv'
  OBVIOUS
<1> USE DEF TypeInv, LatestInv, widget, events, control, shared, thread
\* A step of the event loop that leaves the layers alone or asks them all.
<1>1. ASSUME job = "none", job' = "none" \/ job' = "print0",
             needsRedraw' = Contexts \/ (needsRedraw' = needsRedraw /\ UNCHANGED shared),
             UNCHANGED <<pc, drew, posFocus>>
      PROVE  ScreenInv'
  <2>1. CASE needsRedraw' = Contexts
    BY <1>1, <2>1 DEF ScreenInv, ToAsk
  <2>2. CASE needsRedraw' = needsRedraw /\ UNCHANGED shared
    BY <1>1, <2>2, ScreenOfKept DEF ScreenInv, ToAsk, Kept
  <2> QED BY <1>1, <2>1, <2>2
<1>2. ASSUME NEW f \in Focus, Move(f) PROVE ScreenInv'
  BY <1>2 DEF Move, Request, SlotTriggerCompleteUpdate, PhaseInv, ScreenInv, ToAsk
<1>3. ASSUME NEW z \in Zooms, ZoomTo(z) PROVE ScreenInv'
  BY <1>3 DEF ZoomTo, Request, SlotTriggerCompleteUpdate, PhaseInv, ScreenInv, ToAsk
<1>4. ASSUME NEW c \in Contexts, LayerChanged(c) PROVE ScreenInv'
  <2>1. job = "none" /\ job' = "none" /\ needsRedraw' = needsRedraw \cup {c}
    BY <1>4 DEF LayerChanged, Request, SlotTriggerCompleteUpdate, PhaseInv
  <2>2. ASSUME NEW d \in Contexts PROVE (ToAsk(d) \/ ScreenOf(d))'
    <3>1. CASE d = c
      BY <2>1, <3>1 DEF ToAsk
    <3>2. CASE d # c
      <4>1. Kept(d) /\ posFocus' = posFocus  BY <1>4, <3>2 DEF LayerChanged, Kept, TypeOK
      <4> QED BY <2>1, <4>1, ScreenOfKept DEF ScreenInv, ToAsk
    <3> QED BY <3>1, <3>2
  <2> QED BY <2>2 DEF ScreenInv
<1>5. ASSUME NEW s \in Sizes, ResizeEvent(s) PROVE ScreenInv'
  <2>1. /\ SlotUpdateDrawContextViewport(s, ratio, TRUE) /\ ratio \in Ratios
        /\ job = "none" /\ UNCHANGED <<job, pc, drew, posFocus>>
    BY <1>5 DEF ResizeEvent, Request, PhaseInv, TypeOK
  <2> QED BY <1>1, <2>1, SlotAsksAllOrKeeps
<1>6. ASSUME NEW r \in Ratios, RatioChange(r) PROVE ScreenInv'
  <2>1. job = "none" /\ UNCHANGED <<job, pc, drew, posFocus>>
    BY <1>6 DEF RatioChange, Request, PhaseInv
  <2>2. CASE visible
    <3>1. SlotUpdateDrawContextViewport(size, r, TRUE) /\ size \in Sizes
      BY <1>6, <2>2 DEF RatioChange, TypeOK
    <3> QED BY <1>1, <2>1, <3>1, SlotAsksAllOrKeeps
  <2>3. CASE ~visible
    BY <1>1, <1>6, <2>1, <2>3 DEF RatioChange
  <2> QED BY <2>2, <2>3
<1>7. ASSUME ShowHide PROVE ScreenInv'
  BY <1>1, <1>7 DEF ShowHide, Request, PhaseInv
<1>8. ASSUME NEW s \in PrintSizes, NEW f \in Focus, PrintArea(s, f) PROVE ScreenInv'
  BY <1>1, <1>8 DEF PrintArea, Request, PhaseInv
<1>9. ASSUME TimerFires \/ ViewportSlot PROVE ScreenInv'
  <2>1. /\ SlotUpdateDrawContextViewport(size, ratio, FALSE) /\ size \in Sizes /\ ratio \in Ratios
        /\ job = "none" /\ UNCHANGED <<job, pc, drew, posFocus>>
    BY <1>9 DEF TimerFires, ViewportSlot, PhaseInv, TypeOK
  <2> QED BY <1>1, <2>1, SlotAsksAllOrKeeps
<1>10. ASSUME PaintEvent PROVE ScreenInv'
  <2>1. job = "none" /\ job' = "paint" /\ todo' = Contexts /\ UNCHANGED needsRedraw
    BY <1>10 DEF PaintEvent, BeginDraw, PhaseInv
  <2>2. ASSUME NEW d \in Contexts PROVE Kept(d) /\ posFocus' = posFocus
    BY <1>10 DEF PaintEvent, Kept
  <2> QED BY <2>1, <2>2, ScreenOfKept DEF ScreenInv, ToAsk
<1>11. ASSUME NEW c \in Contexts, DeliverFinished(c) PROVE ScreenInv'
  <2>1. /\ job = "none" /\ job' = "none" /\ UNCHANGED <<needsRedraw, posFocus, intNeedsRedraw>>
        /\ UNCHANGED <<ref, focus, zoom, ctxSize, ctxRatio>>
    BY <1>11 DEF DeliverFinished, PhaseInv
  <2>2. ASSUME NEW d \in Contexts, ScreenOf(d) PROVE ScreenOf(d)'
    <3>1. CASE d = c /\ RestartNeeded(c)
      BY <2>1, <2>2, <3>1 DEF ScreenOf, RestartNeeded, Asked, ViewAt
    <3>2. CASE ~(d = c /\ RestartNeeded(c))
      <4>1. Kept(d)  BY <1>11, <3>2 DEF DeliverFinished, Kept, TypeOK
      <4> QED BY <2>1, <2>2, <4>1, ScreenOfKept
    <3> QED BY <3>1, <3>2
  <2> QED BY <2>1, <2>2 DEF ScreenInv, ToAsk
<1>12. ASSUME NEW c \in Contexts, DrawSetFocus(c) PROVE ScreenInv'
  <2> SUFFICES ASSUME job = "paint", NEW d \in Contexts, ~ToAsk(d)' PROVE ScreenOf(d)'
    BY <1>12 DEF DrawSetFocus, PhaseInv, PrintJobs, ScreenInv, TypeOK, Jobs
  <2>1. /\ drawFocus = posFocus /\ UNCHANGED <<posFocus, needsRedraw, job>>
        /\ focus' = [focus EXCEPT ![c] = posFocus]
        /\ mpc' = "lock" /\ cur' = c /\ todo' = todo \ {c}
    BY <1>12 DEF DrawSetFocus, PhaseInv
  <2>2. ScreenOf(d)
    BY <1>12, <2>1 DEF DrawSetFocus, ScreenInv, ToAsk
  <2>3. CASE d = c
    BY <1>12, <2>1, <2>2, <2>3, ScreenOfReferred DEF DrawSetFocus, TypeOK
  <2>4. CASE d # c
    <3>1. Kept(d)  BY <1>12, <2>4 DEF DrawSetFocus, Kept, TypeOK
    <3> QED BY <2>1, <2>2, <3>1, ScreenOfKept
  <2> QED BY <2>3, <2>4
<1>13. ASSUME DrawLocked PROVE ScreenInv'
  <2> SUFFICES ASSUME job = "paint", NEW d \in Contexts, ~ToAsk(d)' PROVE ScreenOf(d)'
    BY <1>13 DEF DrawLocked, PhaseInv, PrintJobs, ScreenInv, TypeOK, Jobs
  <2>1. /\ cur \in Contexts /\ focus[cur] = posFocus /\ redrawArg = needsRedraw
        /\ UNCHANGED <<posFocus, needsRedraw, job, todo, focus, zoom, ctxSize, ctxRatio>>
    BY <1>13 DEF DrawLocked, PhaseInv
  <2>2. CASE d = cur /\ RedrawAsked(cur)
    BY <1>13, <2>1, <2>2 DEF DrawLocked, ScreenOf, Asked, ViewAt, CurrentView, TypeOK
  <2>3. CASE d = cur /\ ~RedrawAsked(cur)
    <3>1. ScreenOf(d)  BY <2>1, <2>3 DEF ScreenInv, ToAsk, RedrawAsked
    <3>2. ref'[d] = ViewAt(d, posFocus)
      BY <1>13, <2>1, <2>3 DEF DrawLocked, ViewAt, CurrentView, TypeOK
    <3>3. UNCHANGED <<ctxSize, ctxRatio, zoom, intNeedsRedraw, bufIndex, buffer, data, pc, drew>>
      BY <1>13, <2>1, <2>3 DEF DrawLocked, TypeOK
    <3> QED BY <2>1, <2>3, <3>1, <3>2, <3>3, ScreenOfReferred
  <2>4. CASE d # cur
    <3>1. Kept(d)  BY <1>13, <2>4 DEF DrawLocked, Kept, TypeOK
    <3>2. ScreenOf(d)  BY <1>13, <2>1, <2>4 DEF DrawLocked, ScreenInv, ToAsk
    <3> QED BY <2>1, <3>1, <3>2, ScreenOfKept
  <2> QED BY <2>2, <2>3, <2>4
<1>14. ASSUME DrawStart PROVE ScreenInv'
  <2> SUFFICES ASSUME job = "paint", NEW d \in Contexts, ~ToAsk(d)' PROVE ScreenOf(d)'
    BY <1>14 DEF DrawStart, PhaseInv, PrintJobs, ScreenInv, TypeOK, Jobs
  <2>1. /\ cur \in Contexts /\ mpc = "start" /\ mpc' = "next"
        /\ UNCHANGED <<posFocus, needsRedraw, job, todo>>
    BY <1>14 DEF DrawStart, PhaseInv
  <2>2. ScreenOf(d)  BY <2>1 DEF ScreenInv, ToAsk
  <2>3. CASE d = cur /\ ~IsRunning(cur)
    <3>1. drew'[d] = FALSE /\ UNCHANGED <<intNeedsRedraw, ref, focus, zoom, ctxSize, ctxRatio>>
      BY <1>14, <2>3 DEF DrawStart, TypeOK
    <3> QED BY <2>1, <2>2, <3>1 DEF ScreenOf, Asked, ViewAt, TypeOK
  <2>4. CASE ~(d = cur /\ ~IsRunning(cur))
    <3>1. Kept(d)  BY <1>14, <2>4 DEF DrawStart, Kept, TypeOK
    <3> QED BY <2>1, <2>2, <3>1, ScreenOfKept
  <2> QED BY <2>3, <2>4
<1>15. ASSUME EndPaint PROVE ScreenInv'
  <2>1. ASSUME NEW d \in Contexts PROVE ScreenOf(d)'
    <3>1. ScreenOf(d)  BY <1>15 DEF EndPaint, ScreenInv, ToAsk
    <3>2. Kept(d) /\ posFocus' = posFocus  BY <1>15 DEF EndPaint, Kept
    <3> QED BY <3>1, <3>2, ScreenOfKept
  <2> QED BY <2>1 DEF ScreenInv
<1>16. ASSUME PrintResize \/ PrintAgain \/ EndPrintDraw PROVE ScreenInv'
  BY <1>16 DEF PrintResize, PrintAgain, EndPrintDraw, BeginDraw, ScreenInv
<1>17. ASSUME PrintRestore PROVE ScreenInv'
  <2>1. /\ SlotUpdateDrawContextViewport(size, ratio, FALSE) /\ size \in Sizes /\ ratio \in Ratios
        /\ job = "print2" /\ mpc = "wait" /\ job' = "none" /\ UNCHANGED <<pc, drew>>
        /\ todo = {} /\ printSize \in PrintSizes /\ drawFocus \in Focus
    BY <1>17 DEF PrintRestore, Waited, EndJob, PhaseInv, PrintJobs, TypeOK
  <2>2. CASE needsRedraw' = Contexts
    BY <2>1, <2>2 DEF ScreenInv, ToAsk
  <2>3. CASE UNCHANGED shared
    <3>1. ASSUME NEW d \in Contexts PROVE ~intNeedsRedraw[d] /\ ShowsPage(d)
      <4>1. pc[d] = "idle" /\ ctxSize[d] \in PrintSizes /\ PageOf(d)
        BY <1>17, <2>1 DEF PrintRestore, Waited, PrintInv
      <4> QED BY <2>1, <4>1 DEF PageOf, ToPrint, LastRun, ShowsPage
    <3>2. ASSUME NEW d \in Contexts PROVE ScreenOf(d)'
      BY <2>1, <2>3, <3>1 DEF ScreenOf, ShowsPage, Shows, Begun, ViewAt, Front
    <3> QED BY <3>2 DEF ScreenInv
  <2> QED BY <2>1, <2>2, <2>3, SlotAsksAllOrKeeps
<1>18. ASSUME NEW c \in Contexts, Thread(c) PROVE ScreenInv'
  <2>1. UNCHANGED <<control, events, widget>>
    BY <1>18 DEF Thread, RunCopy, RunDraw, RunSwap, ThreadFinishes, ThreadEnds
  <2>2. ASSUME NEW d \in Contexts, ScreenOf(d) PROVE ScreenOf(d)'
    BY <1>18, <2>1, <2>2, ThreadKeepsScreen, ThreadKeepsOthers, ScreenOfKept
  <2> QED BY <2>1, <2>2 DEF ScreenInv, ToAsk
<1>19. CASE UNCHANGED vars
  BY <1>19, ScreenOfKept DEF vars, ScreenInv, ToAsk, Kept
<1> QED
  BY <1>2, <1>3, <1>4, <1>5, <1>6, <1>7, <1>8, <1>9, <1>10, <1>11, <1>12, <1>13, <1>14, <1>15,
     <1>16, <1>17, <1>18, <1>19
  DEF Next, Environment, EventLoop, Drawing

LEMMA PrintNext ==
  TypeInv /\ LayersAgree /\ LatestInv /\ [Next]_vars => PrintInv'
<1> SUFFICES ASSUME TypeInv, LayersAgree, LatestInv, [Next]_vars,
                    (job \in {"print1", "print2"})', NEW d \in Contexts
             PROVE  (ctxSize[d] = printSize /\ PageOf(d))'
  BY DEF PrintInv
<1> USE DEF TypeInv, LatestInv, widget, events, control, shared, thread
<1>1. ASSUME PrintResize PROVE (ctxSize[d] = printSize /\ PageOf(d))'
  <2>1. PICK r \in Ratios : /\ \A c \in Contexts : ctxRatio[c] = r
                            /\ SetDrawContextGeometry(printSize, r)
    BY <1>1 DEF PrintResize
  <2>2. printSize \in Sizes /\ \A c \in Contexts : pc[c] = "idle"
    BY <1>1 DEF PrintResize, Waited, TypeOK
  <2>3. GeometryAccepted(printSize, r)
    BY <2>2 DEF GeometryAccepted, CanResize, CanSetPixelRatio, IsRunning
  <2>4. ctxSize'[d] = printSize  BY <2>1, <2>2, <2>3, RebuiltOrRefused
  <2> QED BY <1>1, <2>2, <2>4 DEF PrintResize, BeginDraw, PageOf, ToPrint
<1>2. ASSUME PrintAgain PROVE (ctxSize[d] = printSize /\ PageOf(d))'
  <2>1. pc[d] = "idle" /\ PageOf(d) /\ ctxSize[d] = printSize /\ mpc = "wait" /\ todo = {}
    BY <1>2 DEF PrintAgain, Waited, PrintInv, PhaseInv
  <2>2. ~intNeedsRedraw[d] /\ Shows(d, Front(d), drawFocus)
    BY <2>1 DEF PageOf, ToPrint, LastRun
  <2>3. UNCHANGED <<shared, pc, drawFocus, printSize>> /\ d \in todo'
    BY <1>2 DEF PrintAgain, BeginDraw
  <2> QED BY <2>1, <2>2, <2>3 DEF PageOf, ToPrint, Shows, Begun, ViewAt, Front
<1>3. ASSUME NEW c \in Contexts, DrawSetFocus(c) PROVE (ctxSize[d] = printSize /\ PageOf(d))'
  <2>1. /\ job' = job /\ drawFocus' = drawFocus /\ printSize' = printSize /\ ctxSize' = ctxSize
        /\ mpc = "next" /\ mpc' = "lock" /\ cur' = c /\ c \in todo /\ todo' = todo \ {c}
    BY <1>3 DEF DrawSetFocus
  <2>2. ctxSize[d] = printSize /\ PageOf(d)  BY <2>1 DEF PrintInv
  <2>3. CASE d = c
    BY <1>3, <2>1, <2>2, <2>3 DEF DrawSetFocus, PageOf, ToPrint, Shows, Begun, ViewAt, Front
  <2>4. CASE d # c
    <3>1. Kept(d)  BY <1>3, <2>4 DEF DrawSetFocus, Kept, TypeOK
    <3> QED BY <2>1, <2>2, <2>4, <3>1, PageOfKept DEF ToPrint
  <2> QED BY <2>3, <2>4
<1>4. ASSUME DrawLocked PROVE (ctxSize[d] = printSize /\ PageOf(d))'
  <2>1. /\ job' = job /\ drawFocus' = drawFocus /\ printSize' = printSize /\ ctxSize' = ctxSize
        /\ todo' = todo /\ mpc = "lock" /\ cur \in Contexts /\ cur \notin todo
        /\ focus[cur] = drawFocus /\ redrawArg = Contexts
    BY <1>4 DEF DrawLocked, PhaseInv
  <2>2. ctxSize[d] = printSize /\ PageOf(d)  BY <2>1 DEF PrintInv
  <2>3. mpc' = "start" /\ cur' = cur  BY <1>4, <2>1 DEF DrawLocked, RedrawAsked
  <2>4. CASE d = cur
    <3>1. intNeedsRedraw'[d] /\ ref'[d] = CurrentView(d)
      BY <1>4, <2>1, <2>4 DEF DrawLocked, RedrawAsked, TypeOK
    <3>2. UNCHANGED <<focus, zoom, ctxSize, ctxRatio, pc>>  BY <1>4 DEF DrawLocked
    <3>3. Asked(d, drawFocus)'  BY <2>1, <2>4, <3>1, <3>2 DEF Asked, ViewAt, CurrentView
    <3> QED BY <2>1, <2>2, <2>3, <2>4, <3>1, <3>2, <3>3 DEF PageOf, ToPrint
  <2>5. CASE d # cur
    <3>1. Kept(d)  BY <1>4, <2>5 DEF DrawLocked, Kept, TypeOK
    <3> QED BY <2>1, <2>2, <2>3, <2>5, <3>1, PageOfKept DEF ToPrint
  <2> QED BY <2>4, <2>5
<1>5. ASSUME DrawStart PROVE (ctxSize[d] = printSize /\ PageOf(d))'
  <2>1. /\ job' = job /\ drawFocus' = drawFocus /\ printSize' = printSize /\ UNCHANGED shared
        /\ todo' = todo /\ mpc = "start" /\ mpc' = "next" /\ cur \in Contexts /\ cur \notin todo
    BY <1>5 DEF DrawStart, PhaseInv
  <2>2. ctxSize[d] = printSize /\ PageOf(d)  BY <2>1 DEF PrintInv
  <2>3. CASE d = cur
    <3>1. intNeedsRedraw[d] /\ Asked(d, drawFocus) /\ pc[d] = "idle"
      BY <2>1, <2>2, <2>3 DEF PageOf, ToPrint
    <3>2. pc'[d] = "started"  BY <1>5, <2>3, <3>1 DEF DrawStart, IsRunning, TypeOK
    <3> QED BY <2>1, <2>2, <2>3, <3>1, <3>2 DEF PageOf, ToPrint, Asked, ViewAt
  <2>4. CASE d # cur
    <3>1. Kept(d)  BY <1>5, <2>4 DEF DrawStart, Kept, TypeOK
    <3> QED BY <2>1, <2>2, <2>4, <3>1, PageOfKept DEF ToPrint
  <2> QED BY <2>3, <2>4
<1>6. ASSUME EndPrintDraw PROVE (ctxSize[d] = printSize /\ PageOf(d))'
  BY <1>6, PageOfKept DEF EndPrintDraw, PrintInv, Kept, ToPrint
<1>7. ASSUME NEW c \in Contexts, Thread(c) PROVE (ctxSize[d] = printSize /\ PageOf(d))'
  <2>1. UNCHANGED control /\ UNCHANGED ctxSize
    BY <1>7 DEF Thread, RunCopy, RunDraw, RunSwap, ThreadFinishes, ThreadEnds
  <2>2. ctxSize[d] = printSize /\ PageOf(d)  BY <2>1 DEF PrintInv
  <2>3. PageOf(d)'
    BY <1>7, <2>1, <2>2, ThreadKeepsPage, ThreadKeepsOthers, PageOfKept DEF ToPrint
  <2> QED BY <2>1, <2>2, <2>3
<1>8. CASE UNCHANGED vars
  BY <1>8, PageOfKept DEF vars, PrintInv, Kept, ToPrint
<1>9. ASSUME \/ Environment \/ EventLoop \/ EndPaint \/ PrintRestore PROVE FALSE
  BY <1>9 DEF Environment, EventLoop, Move, ZoomTo, LayerChanged, ResizeEvent, RatioChange, ShowHide,
     PrintArea, TimerFires, ViewportSlot, PaintEvent, DeliverFinished, EndPaint, PrintRestore,
     EndJob, BeginDraw, Request, PhaseInv
<1> QED
  BY <1>1, <1>2, <1>3, <1>4, <1>5, <1>6, <1>7, <1>8, <1>9 DEF Next, Drawing

LEMMA LatestNext ==
  TypeInv /\ LayersAgree /\ LatestInv /\ [Next]_vars => LatestInv'
BY PhaseNext, StartedNext, ScreenNext, PrintNext DEF LatestInv

-----------------------------------------------------------------------------
\* When the canvas reports that drawing is complete, every layer whose last run
\* drew something shows it: latest data, current zoom, geometry and focus.
THEOREM CompleteAlwaysShowsLatest == Spec => []CompleteShowsLatest
<1>1. TypeInv /\ LatestInv => CompleteShowsLatest
  <2> SUFFICES ASSUME TypeInv, LatestInv, IsDrawComplete, NEW c \in Contexts, drew[c]
               PROVE  LET f == Front(c)
                      IN  /\ f.ref.size = size /\ f.ref.ratio = ratio /\ f.ref.zoom = zoom[c]
                          /\ Coherent(f) /\ f.image.data = data[c]
                          /\ size \notin PrintSizes => f.image.focus = posFocus
    BY DEF CompleteShowsLatest
  <2>1. /\ ScreenOf(c) /\ ~intNeedsRedraw[c] /\ pc[c] \in {"finishing", "idle"}
        /\ ctxSize[c] = size /\ ctxRatio[c] = ratio
    BY DEF LatestInv, PhaseInv, ScreenInv, ToAsk, IsDrawComplete, IsRunning,
       DrawContextViewportIsCurrent
  <2>2. CASE Shows(c, Front(c), posFocus)
    BY <2>1, <2>2 DEF Shows, Begun, ViewAt, Coherent
  <2>3. CASE ShowsPage(c)
    <3>1. PICK x \in Focus : Shows(c, Front(c), x)  BY <2>3 DEF ShowsPage
    <3> QED BY <2>1, <2>3, <3>1 DEF ShowsPage, Shows, Begun, ViewAt, Coherent
  <2> QED BY <2>1, <2>2, <2>3 DEF ScreenOf, LastRun
<1> QED BY <1>1, TypeInit, TypeNext, LayersInit, LayersNext, LatestInit, LatestNext, PTL DEF Spec

\* print() puts on the page the area it was asked for, drawn with the latest
\* data, however busy the threads were when it began.
THEOREM PrintAlwaysShowsArea == Spec => []PrintShowsArea
<1>1. TypeInv /\ LatestInv => PrintShowsArea
  <2> SUFFICES ASSUME TypeInv, LatestInv, job = "print2", mpc = "lock"
               PROVE  LET f == Front(cur)
                      IN  /\ f.ref = [focus |-> drawFocus, zoom |-> zoom[cur], size |-> printSize,
                                      ratio |-> ctxRatio[cur]]
                          /\ Coherent(f) /\ f.image.data = data[cur]
    BY DEF PrintShowsArea
  <2>1. cur \in Contexts /\ ctxSize[cur] = printSize /\ PageOf(cur)
    BY DEF LatestInv, PhaseInv, PrintInv
  <2>2. Shows(cur, Front(cur), drawFocus)
    BY <2>1 DEF PageOf, ToPrint
  <2> QED BY <2>1, <2>2 DEF Shows, Begun, ViewAt, Coherent
<1> QED BY <1>1, TypeInit, TypeNext, LayersInit, LayersNext, LatestInit, LatestNext, PTL DEF Spec

=============================================================================
