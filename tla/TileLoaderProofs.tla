-------------------------- MODULE TileLoaderProofs --------------------------
(***************************************************************************)
(* Proofs about TileLoader, for any set of tiles, views and tile widths,   *)
(* any limit of pending requests and any number of events.                 *)
(***************************************************************************)
EXTENDS TileLoader, TLAPS, FiniteSetTheorems

USE ConstantsAssumption DEF ConstantsAssumption

-----------------------------------------------------------------------------
(***************************************************************************)
(* The inductive invariant.                                                *)
(***************************************************************************)
\* The tile of the drawing thread.
TileInv == pc = "restore" => tile \in Urls

\* A draw nobody has asked to repeat draws the current view.
FrameInv == pc # "idle" /\ ~asked => frame = viewport

\* A tile of the running draw is still to do, drawn, a hole or queued.
Handled(u) ==
  \/ u \in todo
  \/ pc = "restore" /\ u = tile
  \/ u \in painted \/ u \in tilesFailed \/ u \in urlQueue

DrawInv ==
  pc \in {"next", "restore"} /\ ~asked /\ ~posted => \A u \in Tiles[frame][tileSizePx] : Handled(u)

\* Requests are outstanding, and the last of them will ask for a redraw.
Outstanding == urlQueue \cup urlPending # {} /\ (urlQueue = {} => lastRequest)

\* What is on screen when no draw runs and none is asked for.
ShownInv ==
  pc = "idle" /\ ~asked /\ ~posted => shown.view = viewport /\ (Finished \/ Outstanding)

\* failed and cache agree about which tiles are holes, also after a cleanup
\* that comes while a draw is between two tiles.
HolesAreDummies == \A u \in Urls : u \in failed <=> cache[u] = "dummy"

PictureInv == HolesAreDummies /\ TileInv /\ FrameInv /\ DrawInv /\ ShownInv

\* The queue, for urls that come back as they were written.
NetInv == Rewritten = {} => PendingIsInFlight /\ QueueIsServed

-----------------------------------------------------------------------------
(***************************************************************************)
(* One call of slotQueueChanged().                                         *)
(***************************************************************************)
LEMMA QueueStepType ==
  ASSUME TypeOK, NEW p \in SUBSET Urls, NEW n \in SUBSET Urls, SlotQueueChanged(p, n)
  PROVE  /\ asked' \in BOOLEAN /\ urlQueue' \subseteq Urls /\ urlPending' \subseteq Urls
         /\ net' \subseteq Urls /\ lastRequest' \in BOOLEAN /\ events' \in 0 .. MaxEvents
<1>1. events' \in 0 .. MaxEvents
  BY DEF TypeOK, SlotQueueChanged
<1>2. CASE urlQueue # {} /\ Cardinality(p) < MaxPending
  BY <1>1, <1>2 DEF TypeOK, SlotQueueChanged, Dequeued
<1>3. CASE ~(urlQueue # {} /\ Cardinality(p) < MaxPending)
  BY <1>1, <1>3 DEF TypeOK, SlotQueueChanged, AllReceived
<1> QED
  BY <1>2, <1>3

\* A batch taken from the queue keeps to the limit.
LEMMA DequeuedFits ==
  ASSUME NEW p \in SUBSET Urls, NEW T \in SUBSET Urls, Dequeued(T, p)
  PROVE  Cardinality(p \cup T) <= MaxPending
<1>1. PICK u \in T : Load(T \ {u}, p) < MaxPending
  BY DEF Dequeued
<1> DEFINE R == T \ {u}
           V == R \cup p
<1>2. IsFiniteSet(R) /\ IsFiniteSet(V)
  BY FS_Subset
<1>3. Cardinality(R) \in Nat /\ Cardinality(V) \in Nat
  BY <1>2, FS_CardinalityType
<1>4. Cardinality(R) + Cardinality(V) < MaxPending
  BY <1>1 DEF Load
<1>5. p \cup T = V \cup {u}
  OBVIOUS
<1> HIDE DEF R, V
<1>6. Cardinality(V \cup {u}) = IF u \in V THEN Cardinality(V) ELSE Cardinality(V) + 1
  BY <1>2, FS_AddElement
<1>7. Cardinality(V \cup {u}) <= Cardinality(V) + 1
  BY <1>3, <1>6
<1>8. Cardinality(V) + 1 <= MaxPending
  BY <1>3, <1>4
<1>9. Cardinality(V \cup {u}) \in Int
  BY <1>3, <1>6
<1>10. Cardinality(V \cup {u}) <= MaxPending
  BY <1>3, <1>7, <1>8, <1>9
<1> QED
  BY <1>5, <1>10

\* A full set of pending urls is not empty.
LEMMA FullIsSome ==
  ASSUME NEW p, ~(Cardinality(p) < MaxPending)
  PROVE  p # {}
<1> SUFFICES ASSUME p = {} PROVE FALSE
  OBVIOUS
<1>1. Cardinality({}) = 0
  BY FS_EmptySet
<1> QED
  BY <1>1

LEMMA QueueStepServes ==
  ASSUME NEW p \in SUBSET Urls, Cardinality(p) <= MaxPending, TypeOK, SlotQueueChanged(p, p)
  PROVE  PendingIsInFlight' /\ (urlQueue' # {} => net' # {})
<1>1. CASE urlQueue # {} /\ Cardinality(p) < MaxPending
  <2>1. PICK T \in SUBSET urlQueue :
          /\ Dequeued(T, p) /\ urlPending' = p \cup T /\ net' = p \cup (T \ p)
    BY <1>1 DEF SlotQueueChanged
  <2>2. T \in SUBSET Urls /\ T # {} /\ net' = p \cup T
    BY <2>1 DEF TypeOK, Dequeued
  <2> QED
    BY <2>1, <2>2, DequeuedFits DEF PendingIsInFlight
<1>2. CASE ~(urlQueue # {} /\ Cardinality(p) < MaxPending)
  <2>1. urlPending' = p /\ net' = p /\ urlQueue' = urlQueue
    BY <1>2 DEF SlotQueueChanged
  <2>2. urlQueue # {} => p # {}
    BY <1>2, FullIsSome
  <2> QED
    BY <2>1, <2>2 DEF PendingIsInFlight
<1> QED
  BY <1>1, <1>2

\* If the queue was to ask for a redraw, it still will, or has asked.
LEMMA QueueStepRedraws ==
  ASSUME NEW p, NEW n, SlotQueueChanged(p, n), ~asked', urlQueue = {} => lastRequest
  PROVE  Outstanding' /\ ~asked
<1>1. CASE urlQueue # {} /\ Cardinality(p) < MaxPending
  <2>1. PICK T \in SUBSET urlQueue :
          /\ Dequeued(T, p) /\ urlQueue' = urlQueue \ T /\ urlPending' = p \cup T
          /\ lastRequest' = (T = urlQueue)
    BY <1>1 DEF SlotQueueChanged
  <2>2. T # {}
    BY <2>1 DEF Dequeued
  <2>3. ~asked
    BY <1>1 DEF SlotQueueChanged
  <2> QED
    BY <2>1, <2>2, <2>3 DEF Outstanding
<1>2. CASE ~(urlQueue # {} /\ Cardinality(p) < MaxPending)
  <2>1. /\ lastRequest' = (lastRequest /\ ~AllReceived(p)) /\ ~asked /\ ~AllReceived(p)
        /\ urlPending' = p /\ urlQueue' = urlQueue
    BY <1>2 DEF SlotQueueChanged
  <2>2. urlQueue # {} => p # {}
    BY <1>2, FullIsSome
  <2> QED
    BY <2>1, <2>2 DEF Outstanding, AllReceived
<1> QED
  BY <1>1, <1>2

-----------------------------------------------------------------------------
(***************************************************************************)
(* Type correctness.                                                       *)
(***************************************************************************)
LEMMA StoreType ==
  ASSUME TypeOK, NEW u \in Urls, NEW ok \in BOOLEAN, Store(u, ok)
  PROVE  /\ disk' \subseteq Urls /\ table' \subseteq Urls /\ cache' \in [Urls -> Images]
         /\ failed' \subseteq Urls
BY DEF TypeOK, Store, Images

LEMMA RestoreType ==
  ASSUME TypeOK, NEW u \in Urls, NEW img \in Images, NEW isTile \in BOOLEAN,
         Restore(u, img, isTile)
  PROVE  /\ disk' \subseteq Urls /\ table' \subseteq Urls /\ cache' \in [Urls -> Images]
         /\ failed' \subseteq Urls
<1>1. CASE UNCHANGED store
  BY <1>1 DEF TypeOK, store
<1>2. CASE ~UNCHANGED store
  BY <1>2 DEF TypeOK, Restore, Images, store
<1> QED
  BY <1>1, <1>2

LEMMA TypeStep ==
  ASSUME TypeOK, TileInv, [Next]_vars
  PROVE  TypeOK'
<1> USE DEF canvas, draw, queue, store
<1>1. CASE StartDraw
  BY <1>1 DEF TypeOK, StartDraw
<1>2. CASE LockDraw
  <2>1. Tiles[frame][tileSizePx] \subseteq Urls
    BY DEF TypeOK
  <2> QED
    BY <1>2, <2>1 DEF TypeOK, LockDraw
<1>3. CASE DrawTile
  BY <1>3 DEF TypeOK, DrawTile
<1>4. CASE RestoreTile
  <2>1. PICK img \in Images, isTile \in BOOLEAN :
          /\ Restore(tile, img, isTile)
          /\ painted' = IF img = "tile" THEN painted \cup {tile} ELSE painted
          /\ tilesFailed' = IF ~isTile THEN tilesFailed \cup {tile} ELSE tilesFailed
          /\ IF isTile /\ Width[tile] # tileSizePx
               THEN tileSizePx' = Width[tile] /\ posted' = TRUE
               ELSE UNCHANGED <<tileSizePx, posted>>
    BY <1>4 DEF RestoreTile
  <2>2. tile \in Urls
    BY <1>4 DEF RestoreTile, TileInv
  <2>3. /\ disk' \subseteq Urls /\ table' \subseteq Urls /\ cache' \in [Urls -> Images]
        /\ failed' \subseteq Urls
    BY <2>1, <2>2, RestoreType
  <2>4. painted' \subseteq Urls /\ tilesFailed' \subseteq Urls
    BY <2>1, <2>2 DEF TypeOK
  <2>5. Width[tile] \in Sizes /\ tileSizePx \in Sizes /\ posted \in BOOLEAN
    BY <2>2 DEF TypeOK
  <2>6. tileSizePx' \in Sizes /\ posted' \in BOOLEAN
    <3>1. CASE isTile /\ Width[tile] # tileSizePx
      BY <2>1, <2>5, <3>1
    <3>2. CASE ~(isTile /\ Width[tile] # tileSizePx)
      BY <2>1, <2>5, <3>2
    <3> QED
      BY <3>1, <3>2
  <2> QED
    BY <1>4, <2>3, <2>4, <2>6 DEF TypeOK, RestoreTile
<1>5. CASE EndDraw
  BY <1>5 DEF TypeOK, EndDraw, EmitSigQueueChanged
<1>6. CASE QueueChanged
  <2>1. SlotQueueChanged(urlPending, net) /\ signal' \in Nat
    BY <1>6 DEF QueueChanged, TypeOK
  <2> QED
    BY <1>6, <2>1, QueueStepType DEF TypeOK, QueueChanged
<1>7. CASE DeliverUpdate
  BY <1>7 DEF TypeOK, DeliverUpdate
<1>8. ASSUME NEW u \in Urls, NEW ok \in BOOLEAN, SlotRequestFinished(u, ok) PROVE TypeOK'
  <2>1. CASE Recognised(u, ok)
    <3>1. Store(u, ok) /\ SlotQueueChanged(urlPending \ {u}, net \ {u})
      BY <1>8, <2>1 DEF SlotRequestFinished
    <3> QED
      BY <1>8, <3>1, QueueStepType, StoreType DEF TypeOK, SlotRequestFinished
  <2>2. CASE ~Recognised(u, ok)
    <3>1. UNCHANGED store /\ SlotQueueChanged(urlPending, net \ {u})
      BY <1>8, <2>2 DEF SlotRequestFinished
    <3> QED
      BY <1>8, <3>1, QueueStepType DEF TypeOK, SlotRequestFinished
  <2> QED
    BY <2>1, <2>2
<1>9. CASE \E v \in Viewports : Move(v)
  BY <1>9 DEF TypeOK, Move, Event
<1>10. CASE SlotCleanup
  BY <1>10 DEF TypeOK, SlotCleanup, RemoveCacheFiles, Event, Images
<1>11. CASE ConfigureCache
  BY <1>11 DEF TypeOK, ConfigureCache, Event, Images
<1>12. CASE OtherUser
  BY <1>12 DEF TypeOK, OtherUser, Event
<1>13. CASE UNCHANGED vars
  BY <1>13 DEF TypeOK, vars
<1> QED
  BY <1>1, <1>2, <1>3, <1>4, <1>5, <1>6, <1>7, <1>8, <1>9, <1>10, <1>11, <1>12, <1>13
     DEF Next, DrawStep, Answer, Environment

-----------------------------------------------------------------------------
(***************************************************************************)
(* Tiles, pictures and holes.                                              *)
(***************************************************************************)
\* What restore() says about the tile it returns.
LEMMA RestoreTells ==
  ASSUME TypeOK, HolesAreDummies, NEW u \in Urls, NEW img \in Images, NEW isTile \in BOOLEAN,
         Restore(u, img, isTile)
  PROVE  HolesAreDummies' /\ (img = "tile" \/ ~isTile)
<1>1. CASE UNCHANGED store /\ cache[u] # "none" /\ img = cache[u] /\ isTile = (u \notin failed)
  BY <1>1 DEF HolesAreDummies, TypeOK, Images, store
<1>2. CASE /\ cache[u] = "none" /\ isTile = (u \notin failed') /\ img # "none"
           /\ failed' = (IF img = "tile" THEN failed ELSE failed \cup {u})
           /\ cache' = [cache EXCEPT ![u] = img]
  <2>1. u \notin failed
    BY <1>2 DEF HolesAreDummies
  <2>2. CASE img = "tile"
    BY <1>2, <2>1, <2>2 DEF HolesAreDummies, TypeOK, Images
  <2>3. CASE img = "dummy"
    BY <1>2, <2>1, <2>3 DEF HolesAreDummies, TypeOK, Images
  <2> QED
    BY <1>2, <2>2, <2>3 DEF Images
<1>3. CASE img = "none" /\ ~isTile /\ UNCHANGED store
  BY <1>3 DEF HolesAreDummies, store
<1> QED
  BY <1>1, <1>2, <1>3 DEF Restore

LEMMA HolesStep ==
  ASSUME TypeOK, TileInv, HolesAreDummies, [Next]_vars
  PROVE  HolesAreDummies'
<1>1. ASSUME NEW u \in Urls, NEW ok \in BOOLEAN, SlotRequestFinished(u, ok)
      PROVE  HolesAreDummies'
  <2>1. CASE Store(u, ok)
    BY <2>1 DEF Store, HolesAreDummies, TypeOK, Images
  <2>2. CASE UNCHANGED store
    BY <2>2 DEF HolesAreDummies, store
  <2> QED
    BY <1>1, <2>1, <2>2 DEF SlotRequestFinished
<1>2. CASE RestoreTile
  <2>1. PICK img \in Images, isTile \in BOOLEAN : Restore(tile, img, isTile)
    BY <1>2 DEF RestoreTile
  <2> QED
    BY <1>2, <2>1, RestoreTells DEF RestoreTile, TileInv
<1>3. CASE SlotCleanup
  BY <1>3 DEF SlotCleanup, RemoveCacheFiles, HolesAreDummies, TypeOK
<1>4. CASE ConfigureCache
  BY <1>4 DEF ConfigureCache, HolesAreDummies
<1>5. CASE UNCHANGED <<cache, failed>>
  BY <1>5 DEF HolesAreDummies
<1> QED
  BY <1>1, <1>2, <1>3, <1>4, <1>5
     DEF Next, DrawStep, Answer, Environment, StartDraw, LockDraw, DrawTile, EndDraw,
         QueueChanged, DeliverUpdate, Move, OtherUser, store, vars

-----------------------------------------------------------------------------
(***************************************************************************)
(* The picture.                                                            *)
(***************************************************************************)
\* A call of slotQueueChanged() while no draw holds the mutex.
LEMMA QueueStepPicture ==
  ASSUME PictureInv, NEW p, NEW n, SlotQueueChanged(p, n), MutexFree,
         UNCHANGED <<viewport, posted, draw>>
  PROVE  TileInv' /\ FrameInv' /\ DrawInv' /\ ShownInv'
<1> USE DEF draw
<1>1. asked => asked'
  BY DEF SlotQueueChanged
<1>2. TileInv' /\ FrameInv'
  BY <1>1 DEF PictureInv, TileInv, FrameInv
<1>3. DrawInv'
  BY DEF DrawInv, MutexFree
<1>4. ASSUME pc = "idle", ~asked', ~posted PROVE shown.view = viewport /\ (Finished \/ Outstanding')
  <2>1. shown.view = viewport /\ (Finished \/ Outstanding)
    BY <1>1, <1>4 DEF PictureInv, ShownInv
  <2>2. CASE Outstanding
    BY <1>4, <2>1, <2>2, QueueStepRedraws DEF Outstanding
  <2> QED
    BY <2>1, <2>2
<1>5. ShownInv'
  BY <1>4 DEF ShownInv, Finished
<1> QED
  BY <1>2, <1>3, <1>5

LEMMA PictureStep ==
  ASSUME TypeOK, PictureInv, [Next]_vars
  PROVE  TileInv' /\ FrameInv' /\ DrawInv' /\ ShownInv'
<1>0. HolesAreDummies /\ TileInv /\ FrameInv /\ DrawInv /\ ShownInv
  BY DEF PictureInv
<1> USE DEF canvas, draw, queue, store
<1>1. CASE StartDraw
  BY <1>1 DEF StartDraw, TileInv, FrameInv, DrawInv, ShownInv
<1>2. CASE LockDraw
  <2>1. CASE asked /\ pc' = "idle"
    BY <1>2, <2>1 DEF LockDraw, TileInv, FrameInv, DrawInv, ShownInv
  <2>2. CASE /\ Tiles[frame][tileSizePx] = {} /\ pc' = "idle"
             /\ shown' = [view |-> frame, tiles |-> {}]
    <3>1. ~asked' => shown'.view = viewport'
      BY <1>0, <1>2, <2>2 DEF LockDraw, FrameInv
    <3>2. ~asked' => Finished'
      BY <1>0, <1>2, <2>2 DEF LockDraw, FrameInv, Finished
    <3> QED
      BY <2>2, <3>1, <3>2 DEF TileInv, FrameInv, DrawInv, ShownInv
  <2>3. CASE pc' = "next" /\ todo' = Tiles[frame][tileSizePx]
    <3>1. DrawInv'
      <4>1. frame' = frame /\ tileSizePx' = tileSizePx
        BY <1>2 DEF LockDraw
      <4> QED
        BY <2>3, <4>1 DEF DrawInv, Handled
    <3>2. FrameInv'
      BY <1>0, <1>2, <2>3 DEF LockDraw, FrameInv
    <3> QED
      BY <2>3, <3>1, <3>2 DEF TileInv, ShownInv
  <2> QED
    BY <1>2, <2>1, <2>2, <2>3 DEF LockDraw
<1>3. CASE DrawTile
  <2>1. PICK u \in todo :
          /\ todo' = todo \ {u}
          /\ IF Contains(u) THEN pc' = "restore" /\ tile' = u /\ UNCHANGED urlQueue
                            ELSE urlQueue' = urlQueue \cup {u} /\ UNCHANGED <<pc, tile>>
    BY <1>3 DEF DrawTile
  <2>2. u \in Urls
    BY <2>1 DEF TypeOK
  <2>3. DrawInv'
    <3>1. SUFFICES ASSUME ~asked', ~posted', NEW x \in Tiles[frame'][tileSizePx']
                   PROVE  Handled(x)'
      BY DEF DrawInv
    <3>2. /\ pc = "next" /\ frame' = frame /\ tileSizePx' = tileSizePx /\ asked' = asked
          /\ posted' = posted /\ painted' = painted /\ tilesFailed' = tilesFailed
      BY <1>3 DEF DrawTile
    <3>3. x \in todo \/ x \in painted \/ x \in tilesFailed \/ x \in urlQueue
      BY <1>0, <3>1, <3>2 DEF DrawInv, Handled
    <3>4. CASE x = u
      BY <2>1, <3>4 DEF Handled
    <3>5. CASE x # u
      BY <2>1, <3>2, <3>3, <3>5 DEF Handled
    <3> QED
      BY <3>4, <3>5
  <2>4. TileInv' /\ FrameInv' /\ ShownInv'
    BY <1>0, <1>3, <2>1, <2>2 DEF DrawTile, TileInv, FrameInv, ShownInv
  <2> QED
    BY <2>3, <2>4
<1>4. CASE RestoreTile
  <2>1. PICK img \in Images, isTile \in BOOLEAN :
          /\ Restore(tile, img, isTile)
          /\ painted' = IF img = "tile" THEN painted \cup {tile} ELSE painted
          /\ tilesFailed' = IF ~isTile THEN tilesFailed \cup {tile} ELSE tilesFailed
          /\ IF isTile /\ Width[tile] # tileSizePx
               THEN tileSizePx' = Width[tile] /\ posted' = TRUE
               ELSE UNCHANGED <<tileSizePx, posted>>
    BY <1>4 DEF RestoreTile
  <2>2. img = "tile" \/ ~isTile
    BY <1>0, <1>4, <2>1, RestoreTells DEF RestoreTile, TileInv
  <2>3. tile \in painted' \/ tile \in tilesFailed'
    BY <2>1, <2>2
  <2>4. painted \subseteq painted' /\ tilesFailed \subseteq tilesFailed'
    BY <2>1
  <2>5. ~posted' => ~posted /\ tileSizePx' = tileSizePx
    BY <2>1
  <2>6. DrawInv'
    BY <1>0, <1>4, <2>3, <2>4, <2>5 DEF RestoreTile, DrawInv, Handled
  <2> QED
    BY <1>0, <1>4, <2>6 DEF RestoreTile, TileInv, FrameInv, ShownInv
<1>5. CASE EndDraw
  <2>1. ASSUME ~asked', ~posted' PROVE shown'.view = viewport' /\ (Finished' \/ Outstanding')
    <3>1. frame = viewport /\ \A u \in Tiles[frame][tileSizePx] :
            u \in painted \/ u \in tilesFailed \/ u \in urlQueue
      BY <1>0, <1>5, <2>1 DEF EndDraw, FrameInv, DrawInv, Handled
    <3>2. shown' = [view |-> frame, tiles |-> painted]
      BY <1>5 DEF EndDraw
    <3>3. urlQueue' = urlQueue /\ urlPending' = urlPending /\ tilesFailed' = tilesFailed
          /\ viewport' = viewport /\ tileSizePx' = tileSizePx
      BY <1>5 DEF EndDraw
    <3>4. CASE urlQueue = {}
      BY <3>1, <3>2, <3>3, <3>4 DEF Finished
    <3>5. CASE urlQueue # {}
      BY <3>1, <3>2, <3>3, <3>5 DEF Outstanding
    <3> QED
      BY <3>4, <3>5
  <2> QED
    BY <1>5, <2>1 DEF EndDraw, TileInv, FrameInv, DrawInv, ShownInv
<1>6. CASE QueueChanged
  BY <1>6, QueueStepPicture DEF QueueChanged
<1>7. CASE DeliverUpdate
  BY <1>0, <1>7 DEF DeliverUpdate, TileInv, FrameInv, DrawInv, ShownInv
<1>8. ASSUME NEW u \in Urls, NEW ok \in BOOLEAN, SlotRequestFinished(u, ok)
      PROVE  TileInv' /\ FrameInv' /\ DrawInv' /\ ShownInv'
  BY <1>8, QueueStepPicture DEF SlotRequestFinished
<1>9. CASE \E v \in Viewports : Move(v)
  BY <1>0, <1>9 DEF Move, TileInv, FrameInv, DrawInv, Handled, ShownInv
<1>10. CASE UNCHANGED <<canvas, draw, queue>>
  BY <1>0, <1>10 DEF TileInv, FrameInv, DrawInv, Handled, ShownInv, Finished, Outstanding
<1> QED
  BY <1>1, <1>2, <1>3, <1>4, <1>5, <1>6, <1>7, <1>8, <1>9, <1>10
     DEF Next, DrawStep, Answer, Environment, SlotCleanup, ConfigureCache, OtherUser, vars

-----------------------------------------------------------------------------
(***************************************************************************)
(* The network.                                                            *)
(***************************************************************************)
LEMMA NetStep ==
  ASSUME TypeOK, NetInv, [Next]_vars
  PROVE  NetInv'
<1> SUFFICES ASSUME Rewritten = {} PROVE PendingIsInFlight' /\ QueueIsServed'
  BY DEF NetInv
<1>0. PendingIsInFlight /\ QueueIsServed
  BY DEF NetInv
<1> USE DEF canvas, draw, queue, store
<1>1. CASE StartDraw
  BY <1>0, <1>1 DEF StartDraw, PendingIsInFlight, QueueIsServed, MutexFree
<1>2. CASE LockDraw
  BY <1>0, <1>2 DEF LockDraw, PendingIsInFlight, QueueIsServed
<1>3. CASE DrawTile
  BY <1>0, <1>3 DEF DrawTile, PendingIsInFlight, QueueIsServed, MutexFree
<1>4. CASE RestoreTile
  BY <1>0, <1>4 DEF RestoreTile, PendingIsInFlight, QueueIsServed, MutexFree
<1>5. CASE EndDraw
  BY <1>0, <1>5 DEF EndDraw, EmitSigQueueChanged, PendingIsInFlight, QueueIsServed, TypeOK
<1>6. CASE QueueChanged
  <2>1. /\ SlotQueueChanged(urlPending, urlPending) /\ urlPending \in SUBSET Urls
        /\ Cardinality(urlPending) <= MaxPending
    BY <1>0, <1>6 DEF QueueChanged, PendingIsInFlight, TypeOK
  <2>2. PendingIsInFlight' /\ (urlQueue' # {} => net' # {})
    BY <2>1, QueueStepServes
  <2> QED
    BY <2>2 DEF QueueIsServed
<1>7. ASSUME NEW u \in Urls, NEW ok \in BOOLEAN, SlotRequestFinished(u, ok)
      PROVE  PendingIsInFlight' /\ QueueIsServed'
  <2> DEFINE p == urlPending \ {u}
  <2>1. SlotQueueChanged(p, p)
    BY <1>0, <1>7 DEF SlotRequestFinished, Recognised, PendingIsInFlight
  <2>2. p \in SUBSET Urls /\ Cardinality(p) <= MaxPending
    <3>1. urlPending \in SUBSET Urls /\ IsFiniteSet(urlPending)
      BY FS_Subset DEF TypeOK
    <3>2. Cardinality(p) <= Cardinality(urlPending) /\ Cardinality(p) \in Nat
      BY <3>1, FS_Subset, FS_CardinalityType
    <3>3. Cardinality(urlPending) \in Nat /\ Cardinality(urlPending) <= MaxPending
      BY <1>0, <3>1, FS_CardinalityType DEF PendingIsInFlight
    <3> QED
      BY <3>1, <3>2, <3>3
  <2>3. PendingIsInFlight' /\ (urlQueue' # {} => net' # {})
    BY <2>1, <2>2, QueueStepServes
  <2> QED
    BY <2>3 DEF QueueIsServed
<1>8. CASE UNCHANGED <<pc, queue>>
  BY <1>0, <1>8 DEF PendingIsInFlight, QueueIsServed, MutexFree
<1> QED
  BY <1>1, <1>2, <1>3, <1>4, <1>5, <1>6, <1>7, <1>8
     DEF Next, DrawStep, Answer, Environment, DeliverUpdate, Move, SlotCleanup, ConfigureCache,
         OtherUser, vars

-----------------------------------------------------------------------------
(***************************************************************************)
(* The theorems.                                                           *)
(***************************************************************************)
IInv == TypeOK /\ PictureInv /\ NetInv

LEMMA InitIInv == Init => IInv
<1> SUFFICES ASSUME Init PROVE IInv
  OBVIOUS
<1>1. TypeOK
  <2>1. shown \in [view : Viewports, tiles : SUBSET Urls]
    BY DEF Init
  <2>2. cache \in [Urls -> Images] /\ disk \subseteq Urls /\ table \subseteq Urls
    BY DEF Init, Images
  <2>3. events \in 0 .. MaxEvents /\ signal \in Nat
    BY DEF Init
  <2> QED
    BY <2>1, <2>2, <2>3 DEF Init, TypeOK
<1>2. PictureInv
  BY DEF Init, PictureInv, HolesAreDummies, TileInv, FrameInv, DrawInv, ShownInv
<1>3. NetInv
  BY FS_EmptySet DEF Init, NetInv, PendingIsInFlight, QueueIsServed
<1> QED
  BY <1>1, <1>2, <1>3 DEF IInv

LEMMA StepIInv == IInv /\ [Next]_vars => IInv'
<1> SUFFICES ASSUME IInv, [Next]_vars PROVE IInv'
  OBVIOUS
<1>1. TypeOK /\ PictureInv /\ NetInv /\ TileInv /\ HolesAreDummies
  BY DEF IInv, PictureInv
<1>2. TypeOK'
  BY <1>1, TypeStep
<1>3. PictureInv'
  BY <1>1, HolesStep, PictureStep DEF PictureInv
<1>4. NetInv'
  BY <1>1, NetStep
<1> QED
  BY <1>2, <1>3, <1>4 DEF IInv

LEMMA Invariance == Spec => []IInv
BY InitIInv, StepIInv, PTL DEF Spec

\* Every variable keeps its type.
THEOREM TypeCorrect == Spec => []TypeOK
<1>1. IInv => TypeOK
  BY DEF IInv
<1> QED
  BY <1>1, Invariance, PTL

\* A map without outstanding or posted work shows the current view, each tile
\* drawn or counted as a hole.
THEOREM PictureIsComplete == Spec => []CompletePicture
<1>1. IInv => CompletePicture
  BY DEF IInv, PictureInv, ShownInv, CompletePicture, IsDrawComplete, Outstanding
<1> QED
  BY <1>1, Invariance, PTL

\* The map waits exactly for what the network owes it, within the limit.
THEOREM PendingAlwaysInFlight == Spec => [](Rewritten = {} => PendingIsInFlight)
<1>1. IInv => (Rewritten = {} => PendingIsInFlight)
  BY DEF IInv, NetInv
<1> QED
  BY <1>1, Invariance, PTL

\* Queued tiles always have somebody who will request them.
THEOREM QueueAlwaysServed == Spec => [](Rewritten = {} => QueueIsServed)
<1>1. IInv => (Rewritten = {} => QueueIsServed)
  BY DEF IInv, NetInv
<1> QED
  BY <1>1, Invariance, PTL
=============================================================================
