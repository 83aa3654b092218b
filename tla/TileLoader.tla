----------------------------- MODULE TileLoader -----------------------------
(***************************************************************************)
(* One streaming map of a canvas (IMapOnline with CMapTMS or CMapWMTS) and *)
(* its disk cache (CDiskCache).  The canvas' drawing thread paints the     *)
(* tiles the cache holds and queues the urls of the others; the main       *)
(* thread requests queued urls, stores the replies and asks for a redraw   *)
(* when the last one is in.                                                *)
(*                                                                         *)
(* draw() holds the map's mutex from LockDraw to EndDraw.  The cleanup of  *)
(* the cache takes the cache's own mutex only, so it can come between any  *)
(* two tiles, and between contains() and restore() of one tile.  The cache *)
(* directory is shared with every other view and program using this map.   *)
(***************************************************************************)
EXTENDS Integers, FiniteSets

CONSTANTS
  Urls,         \* tiles of the map
  Viewports,    \* places the canvas can show
  Sizes,        \* tile widths in pixel
  Tiles,        \* [Viewports -> [Sizes -> tiles drawn there for that tile width]]
  Width,        \* [Urls -> the width the server's picture really has]
  Rewritten,    \* urls that QUrl::toString() does not return as they were written
  MaxPending,   \* requests in flight (6)
  MaxEvents,    \* bound: events of the user, the clock and other programs
  NoTile        \* the drawing thread looks at no tile

ASSUME ConstantsAssumption ==
  /\ Tiles \in [Viewports -> [Sizes -> SUBSET Urls]] /\ Width \in [Urls -> Sizes]
  /\ Rewritten \subseteq Urls /\ IsFiniteSet(Urls)
  /\ MaxPending \in Nat \ {0} /\ MaxEvents \in Nat /\ NoTile \notin Urls

VARIABLES
  \* the canvas and its drawing thread
  viewport,     \* what the canvas is to show
  asked,        \* a redraw of the map layer is requested
  posted,       \* sigCanvasUpdate of the drawing thread, not yet delivered
  pc,           \* the drawing thread
  frame, todo, tile, painted,   \* its local state: place, tiles to do, tile, pictures drawn
  shown,        \* the buffer on screen
  tileSizePx,   \* the tile width the map has learned
  tilesFailed,  \* the tiles counted as holes by the last draw
  \* the download queue
  urlQueue, urlPending, lastRequest,
  signal,       \* sigQueueChanged not yet delivered
  net,          \* requests the network has not answered
  \* the cache
  disk,         \* files of the cache directory
  table, cache, failed,
  events        \* events so far

canvas == <<viewport, asked, posted>>
draw   == <<pc, frame, todo, tile, painted, shown, tileSizePx, tilesFailed>>
queue  == <<urlQueue, urlPending, lastRequest, signal, net>>
store  == <<disk, table, cache, failed>>
vars   == <<canvas, draw, queue, store, events>>

Images == {"none", "tile", "dummy"}

TypeOK ==
  /\ viewport \in Viewports /\ asked \in BOOLEAN /\ posted \in BOOLEAN
  /\ pc \in {"idle", "lock", "next", "restore"}
  /\ frame \in Viewports /\ todo \subseteq Urls /\ tile \in Urls \cup {NoTile}
  /\ painted \subseteq Urls /\ shown \in [view : Viewports, tiles : SUBSET Urls]
  /\ tileSizePx \in Sizes /\ tilesFailed \subseteq Urls
  /\ urlQueue \subseteq Urls /\ urlPending \subseteq Urls /\ lastRequest \in BOOLEAN
  /\ signal \in Nat /\ net \subseteq Urls
  /\ disk \subseteq Urls /\ table \subseteq Urls /\ cache \in [Urls -> Images]
  /\ failed \subseteq Urls /\ events \in 0 .. MaxEvents

-----------------------------------------------------------------------------
(***************************************************************************)
(* The disk cache.                                                         *)
(***************************************************************************)
Contains(u) == u \in table \/ cache[u] # "none"

\* store(): a reply without a picture is kept as the dummy; a file may not get
\* written (img.save() is not tested).
Store(u, ok) ==
  /\ cache' = [cache EXCEPT ![u] = IF ok THEN "tile" ELSE "dummy"]
  /\ failed' = IF ok THEN failed \ {u} ELSE failed \cup {u}
  /\ table' = IF ok THEN table \cup {u} ELSE table
  /\ \E saved \in BOOLEAN : disk' = IF ok /\ saved THEN disk \cup {u} ELSE disk

\* restore(): the picture in memory, else the file, which may not load.
Restore(u, img, isTile) ==
  \/ /\ cache[u] # "none" /\ img = cache[u] /\ isTile = (u \notin failed)
     /\ UNCHANGED store
  \/ /\ cache[u] = "none" /\ u \in table
     /\ img = "tile" => u \in disk
     /\ failed' = IF img = "tile" THEN failed ELSE failed \cup {u}
     /\ isTile = (u \notin failed')
     /\ img # "none" /\ cache' = [cache EXCEPT ![u] = img]
     /\ UNCHANGED <<disk, table>>
  \/ /\ ~Contains(u) /\ img = "none" /\ ~isTile
     /\ UNCHANGED store

\* removeCacheFile() for every file of S
RemoveCacheFiles(S) ==
  /\ disk' = disk \ S /\ table' = table \ S /\ failed' = failed \ S
  /\ cache' = [u \in Urls |-> IF u \in S THEN "none" ELSE cache[u]]

-----------------------------------------------------------------------------
(***************************************************************************)
(* The download queue.  slotQueueChanged() takes urls from the queue while *)
(* the number taken so far is below 6 minus the number pending, which it   *)
(* reads again in every pass.                                              *)
(***************************************************************************)
Load(T, pending) == Cardinality(T) + Cardinality(T \cup pending)

\* T is what one call takes from the queue: nothing is left or the loop's
\* condition fails, and it held before the last url was taken.
Dequeued(T, pending) ==
  /\ T # {} /\ T \subseteq urlQueue
  /\ T = urlQueue \/ Load(T, pending) >= MaxPending
  /\ \E u \in T : Load(T \ {u}, pending) < MaxPending

\* Mutated form: the redraw is left out.
NeverServed(pending) == FALSE
AllReceived(pending) == lastRequest /\ pending = {}

\* slotQueueChanged() with the given pending urls and unanswered requests;
\* when the last draw began over 2 s ago it asks for a redraw in any case.
SlotQueueChanged(pending, unanswered) ==
  \E late \in BOOLEAN :
    /\ late => events < MaxEvents
    /\ events' = IF late THEN events + 1 ELSE events
    /\ IF urlQueue # {} /\ Cardinality(pending) < MaxPending
         THEN /\ \E T \in SUBSET urlQueue :
                   /\ Dequeued(T, pending)
                   /\ urlQueue' = urlQueue \ T
                   /\ urlPending' = pending \cup T
                   /\ net' = unanswered \cup (T \ pending)
                   /\ lastRequest' = (T = urlQueue)
              /\ asked' = (asked \/ late)
         ELSE /\ lastRequest' = (lastRequest /\ ~AllReceived(pending))
              /\ asked' = (asked \/ AllReceived(pending) \/ late)
              /\ urlPending' = pending /\ net' = unanswered
              /\ UNCHANGED urlQueue

MutexFree == pc \in {"idle", "lock"}

\* Mutated form: the slot runs unasked.
QueueUnasked ==
  /\ MutexFree
  /\ signal' = signal - 1
  /\ SlotQueueChanged(urlPending, net)
  /\ UNCHANGED <<viewport, posted, draw, store>>

QueueChanged ==
  /\ signal > 0 /\ MutexFree
  /\ signal' = signal - 1
  /\ SlotQueueChanged(urlPending, net)
  /\ UNCHANGED <<viewport, posted, draw, store>>

\* Mutated form: a failed request stays pending.
Forgotten(u, ok) == ok

\* The url of the reply's request is the one that was queued.
Recognised(u, ok) == u \in urlPending /\ u \notin Rewritten

\* slotRequestFinished(): `ok` when the reply holds a picture
SlotRequestFinished(u, ok) ==
  /\ u \in net /\ MutexFree
  /\ IF Recognised(u, ok)
       THEN Store(u, ok) /\ SlotQueueChanged(urlPending \ {u}, net \ {u})
       ELSE UNCHANGED store /\ SlotQueueChanged(urlPending, net \ {u})
  /\ UNCHANGED <<viewport, posted, signal, draw>>

-----------------------------------------------------------------------------
(***************************************************************************)
(* Drawing.                                                                *)
(***************************************************************************)
\* The thread takes up the request and copies the view.
StartDraw ==
  /\ pc = "idle" /\ asked
  /\ asked' = FALSE /\ frame' = viewport /\ pc' = "lock"
  /\ UNCHANGED <<viewport, posted, todo, tile, painted, shown, tileSizePx, tilesFailed, queue,
                 store, events>>

\* draw() gets the mutex.  It gives up if a redraw has already been asked of the
\* layer (a request may still be on its way through the canvas), and has nothing
\* to draw or to announce where the map is out of scale.
LockDraw ==
  /\ pc = "lock"
  /\ urlQueue' = {} /\ tilesFailed' = {} /\ painted' = {}
  /\ \/ asked /\ pc' = "idle" /\ UNCHANGED <<todo, shown>>
     \/ /\ Tiles[frame][tileSizePx] = {}
        /\ shown' = [view |-> frame, tiles |-> {}] /\ pc' = "idle" /\ UNCHANGED todo
     \/ /\ Tiles[frame][tileSizePx] # {}
        /\ todo' = Tiles[frame][tileSizePx] /\ pc' = "next" /\ UNCHANGED shown
  /\ UNCHANGED <<canvas, frame, tile, tileSizePx, urlPending, lastRequest, signal, net,
                 store, events>>

DrawTile ==
  /\ pc = "next"
  /\ \E u \in todo :
       /\ todo' = todo \ {u}
       /\ IF Contains(u) THEN pc' = "restore" /\ tile' = u /\ UNCHANGED urlQueue
                         ELSE urlQueue' = urlQueue \cup {u} /\ UNCHANGED <<pc, tile>>
  /\ UNCHANGED <<canvas, frame, painted, shown, tileSizePx, tilesFailed, urlPending,
                 lastRequest, signal, net, store, events>>


\* A tile of another width than expected is remembered and drawn again.
RestoreTile ==
  /\ pc = "restore"
  /\ \E img \in Images, isTile \in BOOLEAN :
       /\ Restore(tile, img, isTile)
       /\ painted' = IF img = "tile" THEN painted \cup {tile} ELSE painted
       /\ tilesFailed' = IF ~isTile THEN tilesFailed \cup {tile} ELSE tilesFailed
       /\ IF isTile /\ Width[tile] # tileSizePx
            THEN tileSizePx' = Width[tile] /\ posted' = TRUE
            ELSE UNCHANGED <<tileSizePx, posted>>
  /\ pc' = "next" /\ tile' = NoTile
  /\ UNCHANGED <<viewport, asked, frame, todo, shown, queue, events>>

\* Mutated form: the queue is filled and nobody is told.
Untold == UNCHANGED signal
EmitSigQueueChanged == signal' = signal + 1

EndDraw ==
  /\ pc = "next" /\ todo = {}
  /\ EmitSigQueueChanged
  /\ shown' = [view |-> frame, tiles |-> painted]
  /\ pc' = "idle" /\ painted' = {}
  /\ UNCHANGED <<canvas, frame, todo, tile, tileSizePx, tilesFailed, urlQueue, urlPending,
                 lastRequest, net, store, events>>

\* sigCanvasUpdate of the drawing thread reaches the canvas.
DeliverUpdate ==
  /\ posted /\ posted' = FALSE /\ asked' = TRUE
  /\ UNCHANGED <<viewport, draw, queue, store, events>>

-----------------------------------------------------------------------------
(***************************************************************************)
(* The user, the cache's timer and the other users of the directory.       *)
(***************************************************************************)
Event == events < MaxEvents /\ events' = events + 1

\* The canvas moves, or asks for the same view again.
Move(v) ==
  /\ Event
  /\ viewport' = v /\ asked' = TRUE
  /\ UNCHANGED <<posted, draw, queue, store>>

\* Expired files, and the oldest ones when the directory is too large.
SlotCleanup ==
  /\ Event
  /\ \E S \in SUBSET disk \ {{}} : RemoveCacheFiles(S)
  /\ UNCHANGED <<canvas, draw, queue>>

\* A new cache object reads the directory.
ConfigureCache ==
  /\ Event /\ MutexFree
  /\ table' = disk /\ cache' = [u \in Urls |-> "none"] /\ failed' = {}
  /\ UNCHANGED <<canvas, draw, queue, disk>>

\* Another view or program stores a tile or cleans up.
OtherUser ==
  /\ Event
  /\ \E S \in SUBSET Urls : disk' = S /\ S # disk
  /\ UNCHANGED <<canvas, draw, queue, table, cache, failed>>

-----------------------------------------------------------------------------
Init ==
  /\ viewport \in Viewports /\ asked = TRUE /\ posted = FALSE
  /\ pc = "idle" /\ frame = viewport /\ todo = {} /\ tile = NoTile /\ painted = {}
  /\ shown = [view |-> viewport, tiles |-> {}] /\ tileSizePx \in Sizes /\ tilesFailed = {}
  /\ urlQueue = {} /\ urlPending = {} /\ lastRequest = FALSE /\ signal = 0 /\ net = {}
  /\ disk \in SUBSET Urls /\ table = disk /\ cache = [u \in Urls |-> "none"] /\ failed = {}
  /\ events = 0

DrawStep  == StartDraw \/ LockDraw \/ DrawTile \/ RestoreTile \/ EndDraw
Answer(u) == \E ok \in BOOLEAN : SlotRequestFinished(u, ok)
Environment ==
  (\E v \in Viewports : Move(v)) \/ SlotCleanup \/ ConfigureCache \/ OtherUser

Next ==
  \/ DrawStep \/ QueueChanged \/ DeliverUpdate
  \/ \E u \in Urls : Answer(u)
  \/ Environment

\* The drawing thread runs, the event loop delivers its signals, and every
\* request ends in a picture or an error; nothing is assumed of the user.
Fairness ==
  /\ WF_vars(DrawStep) /\ WF_vars(QueueChanged) /\ WF_vars(DeliverUpdate)
  /\ \A u \in Urls : WF_vars(Answer(u))

Spec     == Init /\ [][Next]_vars
FairSpec == Spec /\ Fairness

-----------------------------------------------------------------------------
(***************************************************************************)
(* Properties.                                                             *)
(***************************************************************************)
\* isDrawComplete(), as far as this map is concerned
IsDrawComplete == ~asked /\ pc = "idle" /\ urlQueue = {} /\ urlPending = {}

Finished == \A u \in Tiles[viewport][tileSizePx] : u \in shown.tiles \cup tilesFailed

\* Once the map reports no outstanding work and none is being posted, the
\* screen shows the current view, and every tile of it is there or was counted
\* as a hole: no reply is stored without somebody drawing it, however draws,
\* replies, cleanups and moves interleave.
CompletePicture ==
  IsDrawComplete /\ ~posted => shown.view = viewport /\ Finished

\* Queued urls are never stranded: the draw that queued them is still to
\* announce them, or a request is out whose reply takes the next ones.
QueueIsServed == urlQueue # {} => ~MutexFree \/ signal > 0 \/ net # {}

\* What counts as pending is what the network still owes an answer for, and
\* never more than the limit.
PendingIsInFlight == urlPending = net /\ Cardinality(net) <= MaxPending

\* While the user leaves the view alone and the directory is not touched, the
\* picture gets complete and stays so.
PictureCompletes == <>[](IsDrawComplete /\ Finished)
=============================================================================
