----------------------------- MODULE DrawContext -----------------------------
(***************************************************************************)
(* The canvas (CCanvas, main thread) and its layers (IDrawContext, one     *)
(* QThread each).  Every layer owns two image buffers: the main thread     *)
(* paints buffer[bufIndex], the layer's thread draws into the other one    *)
(* with the mutex released and swaps them when it leaves run().            *)
(*                                                                         *)
(* A step is one mutex section of the code or one stretch of main-thread   *)
(* code between two points another thread can observe.  The mutex is never *)
(* held across steps, so it needs no variable.  The main thread serves one *)
(* event at a time: `mpc` is "loop" between events.                        *)
(***************************************************************************)
EXTENDS Integers, FiniteSets

CONSTANTS
  Contexts,      \* the layers: map, poi, dem, gis, rt
  Focus,         \* points the view can be centred on
  Zooms,         \* indices of the scales table
  Sizes,         \* widget sizes
  PrintSizes,    \* sizes of the areas printed from this canvas
  Ratios,        \* device pixel ratios
  MaxRequests,   \* bound: events raised by the user, the window system or data
  NoView,        \* the content of an image that holds no drawing
  NoContext      \* no layer is being drawn

ASSUME ConstantsAssumption ==
  /\ Contexts # {} /\ Focus # {} /\ Zooms # {} /\ Sizes # {} /\ Ratios # {}
  /\ PrintSizes \subseteq Sizes /\ MaxRequests \in Nat

\* What draw() derives ref1..ref4 from.
View == [focus : Focus, zoom : Zooms, size : Sizes, ratio : Ratios]

\* What drawt() reads from the layer while it draws: focus and zoom through
\* convertRad2Px(), and the version of the layer's data.
Live == [focus : Focus, zoom : Zooms, data : 0 .. MaxRequests]

\* buffer_t: the copied references and zoom factor, and what the image shows.
Frame == [ref : View \cup {NoView}, zoom : Zooms, image : Live \cup {NoView}]

ASSUME NoViewAssumption == NoView \notin View /\ NoView \notin Live /\ NoContext \notin Contexts

VARIABLES
  \* the widget
  size, ratio, visible, posFocus,
  needsRedraw,   \* redraw_e flags: the layers asked to redraw by the next paint
  update,        \* a paint event is posted
  timer,         \* timerViewport is active
  requests,      \* environment events so far
  \* the main thread's program counter: what it does, for which job and layer
  mpc, job, todo, cur, drawFocus, redrawArg, printSize,
  \* per layer: fields shared with its thread
  ctxSize, ctxRatio, zoom, focus, ref, intNeedsRedraw, bufIndex, buffer, data,
  pc,            \* where the layer's thread is; "idle" when it does not run
  finished,      \* finished() signals not yet delivered to the main thread
  drew           \* history: the last run() drew at least one frame

widget  == <<size, ratio, visible, posFocus>>
events  == <<needsRedraw, update, timer, requests>>
control == <<mpc, job, todo, cur, drawFocus, redrawArg, printSize>>
shared  == <<ctxSize, ctxRatio, zoom, focus, ref, intNeedsRedraw, bufIndex, buffer, data>>
thread  == <<pc, finished, drew>>
vars    == <<widget, events, control, shared, thread>>

ThreadPc == {"idle", "started", "drawing", "drawn", "exiting", "finishing"}
Jobs     == {"none", "paint", "print0", "print1", "print2"}

TypeOK ==
  /\ size \in Sizes /\ ratio \in Ratios /\ visible \in BOOLEAN /\ posFocus \in Focus
  /\ needsRedraw \subseteq Contexts /\ update \in BOOLEAN /\ timer \in BOOLEAN
  /\ requests \in 0 .. MaxRequests
  /\ mpc \in {"loop", "next", "lock", "start", "wait", "viewport"}
  /\ job \in Jobs /\ todo \subseteq Contexts /\ cur \in Contexts \cup {NoContext}
  /\ drawFocus \in Focus /\ redrawArg \subseteq Contexts /\ printSize \in Sizes
  /\ ctxSize \in [Contexts -> Sizes] /\ ctxRatio \in [Contexts -> Ratios]
  /\ zoom \in [Contexts -> Zooms] /\ focus \in [Contexts -> Focus]
  /\ ref \in [Contexts -> View \cup {NoView}]
  /\ intNeedsRedraw \in [Contexts -> BOOLEAN]
  /\ bufIndex \in [Contexts -> {0, 1}]
  /\ buffer \in [Contexts -> [{0, 1} -> Frame]]
  /\ data \in [Contexts -> 0 .. MaxRequests]
  /\ pc \in [Contexts -> ThreadPc]
  /\ finished \in [Contexts -> Nat]
  /\ drew \in [Contexts -> BOOLEAN]

-----------------------------------------------------------------------------
(***************************************************************************)
(* Helpers                                                                 *)
(***************************************************************************)

\* Mutated form: a thread that has released the mutex to draw is not counted.
IsRunningLocked(c) == pc[c] \in {"started", "drawn", "exiting"}

\* QThread::isRunning(): false as soon as the thread enters its finish phase.
IsRunning(c) == pc[c] \notin {"idle", "finishing"}

Front(c) == buffer[c][bufIndex[c]]

\* Mutated form: one buffer instead of two.
SameBuffer(c) == bufIndex[c]
Back(c) == 1 - bufIndex[c]

Blank(z) == [ref |-> NoView, zoom |-> z, image |-> NoView]

CurrentView(c) ==
  [focus |-> focus[c], zoom |-> zoom[c], size |-> ctxSize[c], ratio |-> ctxRatio[c]]

\* Mutated form: resize without asking.
AlwaysResize(c, s) == TRUE
CanResize(c, s)        == ctxSize[c] = s \/ ~IsRunning(c)
CanSetPixelRatio(c, r) == ctxRatio[c] = r \/ ~IsRunning(c)

\* Mutated form: the size is forgotten.
RatioIsCurrent(s, r) == \A c \in Contexts : ctxRatio[c] = r

\* Every layer's buffers are built for size s and pixel ratio r.
DrawContextViewportIsCurrent(s, r) == \A c \in Contexts : ctxSize[c] = s /\ ctxRatio[c] = r

\* setDrawContextPixelRatio(r), then setDrawContextSize(s): each applies to all
\* layers or to none.  resize() itself refuses a running layer and reallocates
\* both images of any other one whose value changes.
SetDrawContextGeometry(s, r) ==
  LET ratioOk     == \A c \in Contexts : CanSetPixelRatio(c, r)
      sizeOk      == ratioOk /\ \A c \in Contexts : CanResize(c, s)
      newRatio(c) == IF ratioOk /\ ~IsRunning(c) THEN r ELSE ctxRatio[c]
      newSize(c)  == IF sizeOk /\ ~IsRunning(c) THEN s ELSE ctxSize[c]
      same(c)     == newRatio(c) = ctxRatio[c] /\ newSize(c) = ctxSize[c]
  IN  /\ ctxRatio' = [c \in Contexts |-> newRatio(c)]
      /\ ctxSize'  = [c \in Contexts |-> newSize(c)]
      /\ buffer'   = [c \in Contexts |->
                        IF same(c) THEN buffer[c] ELSE [i \in {0, 1} |-> Blank(buffer[c][i].zoom)]]
      /\ UNCHANGED <<zoom, focus, ref, intNeedsRedraw, bufIndex, data>>

GeometryAccepted(s, r) ==
  \A c \in Contexts : CanSetPixelRatio(c, r) /\ CanResize(c, s)

\* Mutated form: a refused resize is not retried.
NoRetry(s, r) == FALSE
RetryNeeded(s, r) == ~GeometryAccepted(s, r)

\* slotUpdateDrawContextViewport() for a widget of size s and pixel ratio r;
\* `paint`: the event that runs it posts a paint event of its own.
SlotUpdateDrawContextViewport(s, r, paint) ==
  IF DrawContextViewportIsCurrent(s, r)
    THEN timer' = FALSE /\ update' = (update \/ paint) /\ UNCHANGED <<needsRedraw, shared>>
    ELSE /\ SetDrawContextGeometry(s, r)
         /\ timer' = RetryNeeded(s, r)
         /\ needsRedraw' = IF GeometryAccepted(s, r) THEN Contexts ELSE needsRedraw
         /\ update' = (update \/ paint \/ GeometryAccepted(s, r))

\* slotTriggerCompleteUpdate(flags)
SlotTriggerCompleteUpdate(flags) ==
  needsRedraw' = needsRedraw \cup flags /\ update' = TRUE

-----------------------------------------------------------------------------
(***************************************************************************)
(* Initial state: the constructors give every layer the widget's geometry  *)
(* and, through zoom(5), one pending redraw.                               *)
(***************************************************************************)
Init ==
  /\ size \in Sizes /\ ratio \in Ratios /\ visible = TRUE /\ posFocus \in Focus
  /\ needsRedraw = Contexts /\ update = TRUE /\ timer = FALSE /\ requests = 0
  /\ mpc = "loop" /\ job = "none" /\ todo = {} /\ cur = NoContext
  /\ drawFocus = posFocus /\ redrawArg = {} /\ printSize = size
  /\ ctxSize = [c \in Contexts |-> size] /\ ctxRatio = [c \in Contexts |-> ratio]
  /\ \E z \in Zooms : /\ zoom = [c \in Contexts |-> z]
                      /\ buffer = [c \in Contexts |-> [i \in {0, 1} |-> Blank(z)]]
  /\ focus = [c \in Contexts |-> posFocus] /\ ref = [c \in Contexts |-> NoView]
  /\ intNeedsRedraw = [c \in Contexts |-> TRUE]
  /\ bufIndex = [c \in Contexts |-> 0] /\ data = [c \in Contexts |-> 0]
  /\ pc = [c \in Contexts |-> "idle"] /\ finished = [c \in Contexts |-> 0]
  /\ drew = [c \in Contexts |-> FALSE]

-----------------------------------------------------------------------------
(***************************************************************************)
(* Events of the user, the window system and the layers' data, served by   *)
(* the main thread's event loop.                                           *)
(***************************************************************************)
Request == mpc = "loop" /\ requests < MaxRequests /\ requests' = requests + 1

\* moveTo(), moveMap(), followPosition()
Move(f) ==
  /\ Request /\ f # posFocus
  /\ posFocus' = f
  /\ SlotTriggerCompleteUpdate(Contexts)
  /\ UNCHANGED <<size, ratio, visible, timer, control, shared, thread>>

\* zoom(index) of the canvas: map first, then every other layer
ZoomTo(z) ==
  /\ Request /\ \E c \in Contexts : zoom[c] # z
  /\ zoom' = [c \in Contexts |-> z]
  /\ intNeedsRedraw' = [c \in Contexts |-> intNeedsRedraw[c] \/ zoom[c] # z]
  /\ SlotTriggerCompleteUpdate(Contexts)
  /\ UNCHANGED <<widget, timer, control, ctxSize, ctxRatio, focus, ref, bufIndex,
                 buffer, data, thread>>

\* A layer's data changes and the layer emits sigCanvasUpdate(maskRedraw).
LayerChanged(c) ==
  /\ Request
  /\ data' = [data EXCEPT ![c] = @ + 1]
  /\ SlotTriggerCompleteUpdate({c})
  /\ UNCHANGED <<widget, timer, control, ctxSize, ctxRatio, zoom, focus, ref,
                 intNeedsRedraw, bufIndex, buffer, thread>>

\* resizeEvent(); the window system also posts a paint event.
ResizeEvent(s) ==
  /\ Request /\ visible /\ s # size
  /\ size' = s
  /\ SlotUpdateDrawContextViewport(s, ratio, TRUE)
  /\ UNCHANGED <<ratio, visible, posFocus, control, thread>>

\* QEvent::DevicePixelRatioChange; a hidden widget gets no event.
RatioChange(r) ==
  /\ Request /\ r # ratio
  /\ ratio' = r
  /\ IF visible THEN SlotUpdateDrawContextViewport(size, r, TRUE)
                ELSE UNCHANGED <<needsRedraw, update, timer, shared>>
  /\ UNCHANGED <<size, visible, posFocus, control, thread>>

ShowHide ==
  /\ Request
  /\ visible' = ~visible
  /\ update' = TRUE
  /\ UNCHANGED <<size, ratio, posFocus, needsRedraw, timer, control, shared, thread>>

-----------------------------------------------------------------------------
(***************************************************************************)
(* The event loop's own events.                                            *)
(***************************************************************************)
TimerFires ==
  /\ mpc = "loop" /\ timer
  /\ SlotUpdateDrawContextViewport(size, ratio, FALSE)
  /\ UNCHANGED <<widget, requests, control, thread>>

\* Mutated forms: a slot that runs unasked, a restart that is left out.
AlwaysPosted(c) == TRUE
NeverRestart(c) == FALSE

FinishedPosted(c) == finished[c] > 0
RestartNeeded(c)  == intNeedsRedraw[c] /\ ~IsRunning(c)

\* finished() is queued to update() and slotRestartIfNeeded() of the layer,
\* then to slotUpdateDrawContextViewport() of the canvas.  start() blocks while
\* the old thread is still in its finish phase.
DeliverFinished(c) ==
  /\ mpc = "loop" /\ FinishedPosted(c)
  /\ finished' = [finished EXCEPT ![c] = @ - 1]
  /\ update' = TRUE
  /\ IF RestartNeeded(c)
       THEN /\ pc[c] = "idle"
            /\ pc' = [pc EXCEPT ![c] = "started"]
            /\ drew' = [drew EXCEPT ![c] = FALSE]
       ELSE UNCHANGED <<pc, drew>>
  /\ mpc' = "viewport"
  /\ UNCHANGED <<widget, needsRedraw, timer, requests, job, todo, cur, drawFocus, redrawArg,
                 printSize, shared>>

ViewportSlot ==
  /\ mpc = "viewport"
  /\ SlotUpdateDrawContextViewport(size, ratio, FALSE)
  /\ mpc' = "loop"
  /\ UNCHANGED <<widget, requests, job, todo, cur, drawFocus, redrawArg, printSize, thread>>

-----------------------------------------------------------------------------
(***************************************************************************)
(* Painting: paintEvent() calls draw() of every layer.  draw() writes the  *)
(* focus without the mutex, then works under the mutex, then starts the    *)
(* thread after it has released the mutex: three steps per layer.          *)
(***************************************************************************)
BeginDraw(j, f, flags) ==
  /\ job' = j /\ todo' = Contexts /\ drawFocus' = f /\ redrawArg' = flags /\ mpc' = "next"
  /\ cur' = NoContext

\* The job is done and its local variables are gone.
EndJob ==
  /\ mpc' = "loop" /\ job' = "none" /\ todo' = {} /\ cur' = NoContext
  /\ drawFocus' = posFocus /\ redrawArg' = {} /\ printSize' = size

PaintEvent ==
  /\ mpc = "loop" /\ update /\ visible
  /\ update' = FALSE
  /\ timer' = (timer \/ ~DrawContextViewportIsCurrent(size, ratio))
  /\ BeginDraw("paint", posFocus, needsRedraw)
  /\ UNCHANGED <<widget, needsRedraw, requests, printSize, shared, thread>>

DrawSetFocus(c) ==
  /\ mpc = "next" /\ c \in todo
  /\ focus' = [focus EXCEPT ![c] = drawFocus]
  /\ todo' = todo \ {c} /\ cur' = c /\ mpc' = "lock"
  /\ UNCHANGED <<widget, events, job, drawFocus, redrawArg, printSize, ctxSize, ctxRatio, zoom,
                 ref, intNeedsRedraw, bufIndex, buffer, data, thread>>

\* Mutated form: a busy layer is not asked again.
AskedWhenIdle(c) == c \in redrawArg /\ ~IsRunning(c)

\* needsRedraw & maskRedraw
RedrawAsked(c) == c \in redrawArg

\* Under the mutex: derive the references, paint buffer[bufIndex], raise the flag.
DrawLocked ==
  /\ mpc = "lock"
  /\ ref' = [ref EXCEPT ![cur] = CurrentView(cur)]
  /\ intNeedsRedraw' = [intNeedsRedraw EXCEPT ![cur] = @ \/ RedrawAsked(cur)]
  /\ IF RedrawAsked(cur) THEN mpc' = "start" /\ UNCHANGED cur
                      ELSE mpc' = "next" /\ cur' = NoContext
  /\ UNCHANGED <<widget, events, job, todo, drawFocus, redrawArg, printSize, ctxSize,
                 ctxRatio, zoom, focus, bufIndex, buffer, data, thread>>

\* if (!isRunning()) start(), with the mutex released
DrawStart ==
  /\ mpc = "start" /\ pc[cur] # "finishing"
  /\ pc' = [pc EXCEPT ![cur] = IF IsRunning(cur) THEN @ ELSE "started"]
  /\ drew' = [drew EXCEPT ![cur] = IF IsRunning(cur) THEN @ ELSE FALSE]
  /\ mpc' = "next" /\ cur' = NoContext
  /\ UNCHANGED <<widget, events, job, todo, drawFocus, redrawArg, printSize, shared, finished>>

EndPaint ==
  /\ mpc = "next" /\ todo = {} /\ job = "paint"
  /\ needsRedraw' = {}
  /\ EndJob
  /\ UNCHANGED <<widget, update, timer, requests, shared, thread>>

-----------------------------------------------------------------------------
(***************************************************************************)
(* print(): wait, resize to the page, draw once to start the threads, wait,*)
(* draw again to get the result, wait, restore the canvas' own geometry.   *)
(* The event loop does not run meanwhile.                                  *)
(***************************************************************************)
PrintArea(s, f) ==
  /\ Request /\ visible
  /\ job' = "print0" /\ mpc' = "wait" /\ printSize' = s /\ drawFocus' = f
  /\ UNCHANGED <<widget, needsRedraw, update, timer, todo, cur, redrawArg, shared, thread>>

\* Mutated form: do not wait.
NotWaited(j) == mpc = "wait" /\ job = j

\* waitForDrawContexts()
Waited(j) == mpc = "wait" /\ job = j /\ \A c \in Contexts : pc[c] = "idle"

PrintResize ==
  /\ Waited("print0")
  /\ \E r \in Ratios : /\ \A c \in Contexts : ctxRatio[c] = r
                      /\ SetDrawContextGeometry(printSize, r)
  /\ BeginDraw("print1", drawFocus, Contexts)
  /\ UNCHANGED <<widget, events, printSize, thread>>

PrintAgain ==
  /\ Waited("print1")
  /\ BeginDraw("print2", drawFocus, Contexts)
  /\ UNCHANGED <<widget, events, printSize, shared, thread>>

PrintRestore ==
  /\ Waited("print2")
  /\ SlotUpdateDrawContextViewport(size, ratio, FALSE)
  /\ EndJob
  /\ UNCHANGED <<widget, requests, thread>>

EndPrintDraw ==
  /\ mpc = "next" /\ todo = {} /\ job \in {"print1", "print2"}
  /\ mpc' = "wait"
  /\ UNCHANGED <<widget, events, job, todo, cur, drawFocus, redrawArg, printSize, shared, thread>>

-----------------------------------------------------------------------------
(***************************************************************************)
(* The layer's thread: run().                                              *)
(***************************************************************************)
\* Under the mutex: copy what the drawing needs and clear the flag.
RunCopy(c) ==
  /\ pc[c] \in {"started", "drawn"} /\ intNeedsRedraw[c]
  /\ buffer' = [buffer EXCEPT ![c][Back(c)] =
                  [ref |-> ref[c], zoom |-> zoom[c], image |-> NoView]]
  /\ intNeedsRedraw' = [intNeedsRedraw EXCEPT ![c] = FALSE]
  /\ pc' = [pc EXCEPT ![c] = "drawing"]
  /\ drew' = [drew EXCEPT ![c] = TRUE]
  /\ UNCHANGED <<widget, events, control, ctxSize, ctxRatio, zoom, focus, ref, bufIndex, data,
                 finished>>

\* With the mutex released: clear the image and drawt().
RunDraw(c) ==
  /\ pc[c] = "drawing"
  /\ buffer' = [buffer EXCEPT ![c][Back(c)].image =
                  [focus |-> focus[c], zoom |-> zoom[c], data |-> data[c]]]
  /\ pc' = [pc EXCEPT ![c] = "drawn"]
  /\ UNCHANGED <<widget, events, control, ctxSize, ctxRatio, zoom, focus, ref, intNeedsRedraw,
                 bufIndex, data, finished, drew>>

\* Under the mutex: no redraw is wanted, switch the buffers and leave run().
RunSwap(c) ==
  /\ pc[c] \in {"started", "drawn"} /\ ~intNeedsRedraw[c]
  /\ bufIndex' = [bufIndex EXCEPT ![c] = Back(c)]
  /\ pc' = [pc EXCEPT ![c] = "exiting"]
  /\ UNCHANGED <<widget, events, control, ctxSize, ctxRatio, zoom, focus, ref, intNeedsRedraw,
                 buffer, data, finished, drew>>

\* The thread enters its finish phase: isRunning() turns false ...
ThreadFinishes(c) ==
  /\ pc[c] = "exiting"
  /\ pc' = [pc EXCEPT ![c] = "finishing"]
  /\ UNCHANGED <<widget, events, control, shared, finished, drew>>

\* ... it emits finished() and ends.
ThreadEnds(c) ==
  /\ pc[c] = "finishing"
  /\ pc' = [pc EXCEPT ![c] = "idle"]
  /\ finished' = [finished EXCEPT ![c] = @ + 1]
  /\ UNCHANGED <<widget, events, control, shared, drew>>

-----------------------------------------------------------------------------
Environment ==
  \/ \E f \in Focus : Move(f)
  \/ \E z \in Zooms : ZoomTo(z)
  \/ \E c \in Contexts : LayerChanged(c)
  \/ \E s \in Sizes : ResizeEvent(s)
  \/ \E r \in Ratios : RatioChange(r)
  \/ ShowHide
  \/ \E s \in PrintSizes, f \in Focus : PrintArea(s, f)

EventLoop ==
  \/ TimerFires \/ ViewportSlot \/ PaintEvent
  \/ \E c \in Contexts : DeliverFinished(c)

Drawing ==
  \/ \E c \in Contexts : DrawSetFocus(c)
  \/ DrawLocked \/ DrawStart \/ EndPaint
  \/ PrintResize \/ PrintAgain \/ PrintRestore \/ EndPrintDraw

Thread(c) == RunCopy(c) \/ RunDraw(c) \/ RunSwap(c) \/ ThreadFinishes(c) \/ ThreadEnds(c)

Next == Environment \/ EventLoop \/ Drawing \/ \E c \in Contexts : Thread(c)

\* The scheduler runs every thread, the event loop serves every posted event
\* and a running single-shot timer fires; nothing is assumed of the user.
Fairness ==
  /\ WF_vars(TimerFires) /\ WF_vars(ViewportSlot) /\ WF_vars(PaintEvent)
  /\ WF_vars(Drawing)
  /\ \A c \in Contexts : WF_vars(DeliverFinished(c)) /\ WF_vars(Thread(c))

Spec     == Init /\ [][Next]_vars
FairSpec == Spec /\ Fairness

-----------------------------------------------------------------------------
(***************************************************************************)
(* Properties.                                                             *)
(***************************************************************************)
Coherent(f) == f.image.focus = f.ref.focus /\ f.image.zoom = f.ref.zoom /\ f.zoom = f.ref.zoom

\* isDrawComplete(), asked from the event loop; tiles are CMapDraw's part.
IsDrawComplete ==
  /\ mpc = "loop" /\ needsRedraw = {} /\ DrawContextViewportIsCurrent(size, ratio)
  /\ \A c \in Contexts : ~IsRunning(c) /\ ~intNeedsRedraw[c]

\* The layers never disagree about the viewport, whatever threads run when a
\* resize, a ratio change or a print tries to rebuild the buffers
\* (setDrawContextSize() applies to all layers or to none).
LayersAgree ==
  \A c, d \in Contexts : ctxSize[c] = ctxSize[d] /\ ctxRatio[c] = ctxRatio[d]

\* An image is not reallocated or painted over by anyone while the layer's
\* thread draws into it with the mutex released (resize() refuses).
ImageInUseIsKept ==
  [][\A c \in Contexts : pc[c] = "drawing" /\ pc'[c] = "drawing" =>
        buffer'[c] = buffer[c] /\ bufIndex'[c] = bufIndex[c]]_vars

\* The main thread never paints a half-drawn image: the buffer it uses is
\* blank or holds a finished drawing (twin buffers, swapped under the mutex).
FrontIsWhole ==
  \A c \in Contexts : Front(c).ref # NoView => Front(c).image # NoView

\* A raised redraw flag always has somebody who will start or already runs the
\* thread: draw() about to start it, an undelivered finished(), or a posted
\* paint event (zoom() only raises the flag; slotRestartIfNeeded() picks up a
\* request that came while run() was leaving).
RequestHasOwner ==
  \A c \in Contexts : intNeedsRedraw[c] =>
    \/ pc[c] # "idle" \/ finished[c] > 0
    \/ mpc = "start" /\ cur = c
    \/ c \in needsRedraw /\ (update \/ job = "paint")

\* A visible canvas whose layers are built for another geometry has a retry
\* pending: the timer, or a paint event that arms it.
RetryIsArmed ==
  mpc = "loop" /\ visible /\ (\E c \in Contexts : ctxSize[c] # size \/ ctxRatio[c] # ratio)
    => timer \/ update

\* What print() paints the second time is the page it was asked for, drawn with
\* the layer's latest data, however busy the threads were before.
PrintShowsArea ==
  job = "print2" /\ mpc = "lock" =>
    LET f == Front(cur)
    IN  /\ f.ref = [focus |-> drawFocus, zoom |-> zoom[cur], size |-> printSize,
                    ratio |-> ctxRatio[cur]]
        /\ Coherent(f) /\ f.image.data = data[cur]

\* Once the canvas reports that drawing is complete, every layer whose last run
\* drew something shows that drawing: latest data, current zoom and geometry,
\* references and content of the same view; and the current focus, unless a
\* page of the canvas' own size has just been printed from it.
CompleteShowsLatest ==
  IsDrawComplete => \A c \in Contexts : drew[c] =>
    LET f == Front(c)
    IN  /\ f.ref.size = size /\ f.ref.ratio = ratio /\ f.ref.zoom = zoom[c]
        /\ Coherent(f) /\ f.image.data = data[c]
        /\ size \notin PrintSizes => f.image.focus = posFocus

\* What IDrawContext.cpp:67 and CCanvas.h:189 promise: no redraw request is
\* lost, so a complete canvas shows every layer as it was last asked for.
CompleteIsCurrent ==
  IsDrawComplete => \A c \in Contexts :
    Front(c).image = [focus |-> posFocus, zoom |-> zoom[c], data |-> data[c]]

\* A raised redraw flag of a visible canvas is served.
RequestServed ==
  \A c \in Contexts : intNeedsRedraw[c] /\ visible ~> ~intNeedsRedraw[c] \/ ~visible

\* A visible canvas gets all its layers to its own geometry, also after a print
\* or when a resize was refused.
ViewportRestored ==
  visible /\ (\E c \in Contexts : ctxSize[c] # size \/ ctxRatio[c] # ratio)
    ~> ~visible \/ (\A c \in Contexts : ctxSize[c] = size /\ ctxRatio[c] = ratio)

=============================================================================
