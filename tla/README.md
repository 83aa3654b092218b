# A verification of QMapShack's core

QMapShack (`src/src/qmapshack`) is a Qt program for planning tours on maps. This
directory holds TLA+ modules that model its concurrent and shared-state core,
TLC configurations that check them on small instances, and TLAPS proofs of the
properties that matter most. `PROJECT.json` lists the runs, the source lines
each definition stands for, the mutants that show each property can fail, the
findings and the hazards. Paths below are relative to `src/src/qmapshack`
unless they start with `src/`.

## 1. The system

### 1.1 Components

| Component | State it keeps | Operations | Correct when |
|---|---|---|---|
| Canvas and draw contexts (`canvas/CCanvas`, `canvas/IDrawContext`) | per layer: two buffers, `bufIndex`, `intNeedsRedraw`, geometry, zoom, focus, a thread; per canvas: `needsRedraw`, focus, timer | move, zoom, resize, pixel ratio, paint, print, `run()`, restart on `finished()` | no redraw is lost, nothing half drawn is shown, layers agree about the viewport, "complete" means what it says |
| Projects in a database (`gis/db/CDBProject`) | items with hash and changed mark; shared tables `items`, `folder2item` | load, edit, undo, save, update, unlink, clear Lost & Found, dialogs | no edit is lost silently, no foreign version is overwritten blindly, save ends |
| Streaming maps (`map/IMapOnline`, `CMapTMS`, `CMapWMTS`, `map/cache/CDiskCache`) | url queue, pending requests, tiles in memory and on disk, list of holes | draw, queue, request, reply, store, restore, cleanup | every tile is shown or counted as a hole; requests stay within the limit |
| Map list (`map/CMapDraw`, `CMapItem`, `CMapList`) | list of maps, active flags, settings | activate, deactivate, delayed save, reload on projection change | settings agree with the list; no change is undone |
| Offline maps (`map/CMapIMG`, `MAP`, `JNX`, `RMAP`, `VRT`, `GEMF`) | file structures | read, draw | decoding |
| Elevation (`dem/`) | list of DEMs | draw shading, read elevation | numeric |
| POI layer (`poi/`) | POI files, a background query | draw, query | the latest query wins |
| Workspace and GIS items (`gis/CGisListWks`, `CGisWorkspace`, `CGisDraw`, `prj/`) | projects, items, event queue to the database view | load, edit, move, close | views agree with each other |
| Item history (`gis/IGisItem`, `widgets/CHistoryListWidget`) | list of events with hashes, current index | change, undo, cut, squash | undo shows what was there |
| Database folders (`gis/db/IDBFolder*`, `CGisListDB`) | folder tree, links | create, copy, move, remove | no item vanishes with a folder |
| Database export/import (`gis/db/CExportDatabase*`, `tool/`, `qlgt/`) | worker thread, abort flag | run, abort | abort takes effect |
| Tracks, waypoints, areas, routes (`gis/trk`, `wpt`, `ovl`, `rte`) | points and derived data | edit, filter | numeric, single-threaded |
| Routers (`gis/rte/router`) | Routino data, local BRouter server, requests | route, start, stop, progress | requests do not block each other |
| File formats (`gis/gpx`, `qms`, `fit2`, `tcx`, `slf`) | none | read, write | parsing |
| Search (`gis/search`) | filter expressions, web requests | match, query | parsing |
| Mouse and line editing (`mouse/`) | undo stack of line operations, running routing | add, move, delete, undo | undo shows what was there |
| Devices (`device/`) | items in the workspace, a loading thread and an Archive per device, calls into devices, the watcher's tables of plugged and opened devices | plug, unplug, load, expand, collapse, operate, remove, quit | no item goes while somebody works for it, every item of a device that is gone goes, nothing plugged in is forgotten |
| Real-time (`realtime/`), plots (`plot/`), print dialogs (`print/`), documentation shots (`shoot/`) | sources, plots, pages | record, paint, print | mostly input and output |
| Worker threads (`helpers/CThread`, `CVrtCombiner`) | worker, cancel flag | run, cancel | a cancelled worker touches nothing any more |
| Main window, setup, units, grid (`CMainWindow` ...) | wiring | dialogs | formatting |
| Command line tools (`src/src/qmaptool`, `src/src/qms_surfacedb`, ...) | none | convert | batch work |

### 1.2 How they interact

* A `CCanvas` owns five layers (`CMapDraw`, `CDemDraw`, `CPoiDraw`, `CGisDraw`,
  `CRtDraw`), each an `IDrawContext`, a `QThread` with two image buffers.
  `paintEvent()` calls `draw()` of each layer, which paints the front buffer and
  starts the thread if a redraw is wanted. The thread draws into the back buffer
  with the mutex released and reports by the queued signals `finished()` and
  `sigCanvasUpdate`.
* The thread of the map layer calls `draw()` of each active map. A streaming map
  restores tiles from its `CDiskCache` and queues missing ones; the main thread
  requests them, stores replies and asks the layer for a redraw. The cache
  directory is shared by all views and all running programs.
* A `CDBProject` reads and writes the tables with statements of its own, each
  its own transaction; other programs on the same SQLite file or MySQL server do
  the same. Database view and workspace exchange events over a queue.
* A device watcher adds a device item to the workspace (`CGisListWks`) and asks it
  to remove items by their key. A thread of the item reads the device's files and
  makes each project by a blocking call into the main thread; calls into a device
  wait for it in local event loops, in which everything else is delivered. The
  workspace stops the threads (`IDevice::stopLoading()`, `CThread::cancel()`) before
  it deletes an item, and tries again a second later if they cannot be stopped.
* `CMapDraw` keeps the list of maps of a view. Maps found on disk are matched with
  groups in the settings by their key; every change is written there a second later.

### 1.3 Hard behaviours

Layer threads against the event loop (mutex sections, queued signals, timers,
a thread that has left its loop but not ended); resizes and prints while threads
draw; optimistic locking by hash with dialogs and restarts in the middle of
`save()`; tile replies, cleanups and redraws in any order; settings saved with a
delay and files that come and go; devices unplugged while a thread waits for the
main thread, while calls into them are nested on the main thread's stack, and while
an earlier removal waits for its retry. The list `hazards` in `PROJECT.json` gives each with its line.

## 2. Order of the work

1. `DrawContext`: every layer depends on it and its races are the hardest.
2. `DBProject`: the only place where the program can lose a user's work.
3. `TileLoader`: composes a thread, the event loop, the network and a shared
   directory.
4. `DeviceLoad` with its abstract specification `DeviceLife`, `MassStorage` and
   `UsbWatch`: threads, nested event loops, timers and removals around devices that
   may vanish at any step.
5. `MapList`: a delayed save, a delayed activation, reloads and crashes.

What would come next: the item history with its hashes (`gis/IGisItem.cpp:304-458`) as
a refinement of `DBProject`'s version numbers; folders and the event protocol between
database view and workspace; the BRouter server and line editing while routing.

## 3. Modules and the code

Each model keeps every state change, guard, early return and the order they come
in, and abstracts data to what the properties tell apart. A step is what runs
without another actor being able to look in between: a mutex section, one SQL
statement with the local code around it, one handler of the event loop.

### 3.1 DrawContext: layers of a canvas

*State.* The main thread handles one event at a time: `mpc` is where it is
(`loop`, the steps of drawing one layer, waiting in `print()`), `job` what it
does (a paint, or the phases `print0`, `print1`, `print2` of a print), `todo` and
`cur` the layers still to draw. Each layer has `ctxSize`, `ctxRatio`, `zoom`,
`focus`, `ref` (the reference points of the last `draw()`), `intNeedsRedraw`,
`buffer` and `bufIndex`, and a thread with `pc`: `idle`, `started`, `drawing`,
`drawn`, `exiting`, `finishing`. `finished` counts undelivered signals. A buffer is
what `draw()` and `run()` recorded of it (`ref`, `zoom`) and what its image shows
(focus, zoom and version of the layer's data); an image is a view, not pixels.

*Actions.* `DrawSetFocus`, `DrawLocked` and `DrawStart` are `IDrawContext::draw()`
cut at its mutex and at the test for a running thread after it; `RunCopy`,
`RunDraw` and `RunSwap` are `run()` cut where it takes and releases the mutex;
`DeliverFinished` and `ViewportSlot` are the two slots of `finished()`, in the
order they are connected; `TimerFires` is the single-shot retry. A thread whose
`run()` has returned is still running until Qt's finish phase, where
`isRunning()` turns false *before* `finished()` is emitted: the two are steps of
their own. `PrintArea` to `PrintRestore` are `CCanvas::print()`, which shares the
layers with the screen. `Environment` is the user: moves, zooms, resizes, other
pixel ratios, changed data, hiding, prints.

*Left out.* Change of the projection, mouse overlays, and what is painted
besides the layers. A print at exactly the canvas' own size leaves the screen's
buffers with the printed focus; `CompleteShowsLatest` does not speak about the
focus there.

### 3.2 DBProject: projects in a shared database

*State.* `rows` is the table `items`, `links` is `folder2item`, `nextId` the
AUTOINCREMENT value. Each user has one `project` of items
`[ver, base, changed]`: `ver` stands for data and history and, as the MD5 of
that, for the hash; `base` is `lastDatabaseHash`. `pc` and `job` are where `save()`
is and its locals for the current item. Four history variables record `stored`
versions, `waived` marks (with the reason), what each user has `seen`, and `out`: the
items that somebody took out of the folder or the database, or that their user
declined to save, since they were loaded or edited. Nothing reads them.

*Actions.* One per statement of `save()`: `CheckLink` (the SELECT of
`checkForAction1()`), `Insert`, `UpdateItem` (the conditional UPDATE), `CheckConflict`
(the SELECT after it hit no row), `ForceUpdate`, `InsertClone`, `Reload`, `LinkItem`,
`SaveEnd`; the dialogs `SelectSaveAction` and `ResolveConflict`, which let others
run while they are open; `Stop` for a failing query or a cancelled progress dialog
at any of them. The users also open, close, update, edit, undo, import, unlink
and clear Lost & Found. No query of the code spans a transaction over two
statements, so everything interleaves between them.

*Left out.* Removal of folders, the project's own changed mark, two links to the
same item in one folder, the repairing save inside `showItems()`; the two SELECTs of
`updateFromDB()` are one step; the order of the items in `save()` is any.
A dialog's "for all items" is the same choice made again.

### 3.3 TileLoader: a streaming map

*State.* The drawing thread (`pc`, `frame`, `todo`, `tile`, `painted`), the picture
on screen (`shown`), the tile width learned so far; `urlQueue`, `urlPending`, the
network's unanswered requests `net`, posted signals; the cache's files (`disk`),
its `table` of known files, its pictures in memory and its list of holes `failed`.

*Actions.* `StartDraw` to `EndDraw` are the map's `draw()` tile by tile: `DrawTile` asks
`contains()`, `RestoreTile` calls `restore()`, two calls with the cache's mutex
free in between. `QueueChanged` and `Answer` are the two slots of `IMapOnline`.
`draw()` holds the map's mutex, so main-thread handlers that take it need
`MutexFree`; `SlotCleanup` takes the cache's mutex only and needs nothing. `OtherUser`
is any other view or program writing or cleaning the shared directory. One call
of `slotQueueChanged()` takes a batch of queued urls; how many is `Load`, the
closed form of its loop, which reads the size of `urlPending` again in each pass.
A file may not get written, and one that exists may not load.

*Left out.* Several layers of one map, reading the map's definition, removal of
caches of maps that are gone. The order in the queue is abstracted: it is a set,
as every property treats all urls alike. `CMapWMTS` has the same control as
`CMapTMS`.

### 3.4 DeviceLoad and DeviceLife: loading an MTP device

*State.* A loader is the pair of a device item and a part of it, its `main` storage
or its `archive`; each has a thread (`pc`, `left` files to go, `interrupted`). The main
thread is a `stack` of calls into devices, each in a local event loop: `load` is a
blocking call of a loading thread, `edit` an operation of the user, which holds
`IGisItem::mutexItems`. `stop` is the `stopLoading()` or destructor at the top, which
waits without an event loop; it has a reason, a device, the part it stops and the
answer so far. `removals` counts calls of `removeDevice()` to come, signals and retry
timers alike. The Archive item has `expanded`, `name`, `kids` and `collapsePending`.

*Actions.* `Check`, `Post`, `Final` are the thread between its calls; `RunCall` and
`FinishCall` a blocking call on the main thread. `StopRefused`, `StopWaits`, `StopDone`
and `StopTimeout` are `CThread::cancel()`: a call into the device further up the stack
refuses the stop; otherwise the thread is interrupted, its queued call is dropped and
it is waited for, 100 ms for `stopLoading()` and without limit in a destructor.
`RemoveDevice` and `Remove` are the two halves of `CGisListWks::removeDevice()`; `Collapse`,
`CollapseAgain` and `Clear` those of `slotCollapsed()`, `Expand` is `slotExpanded()`; `Plug`,
`Unplug`, `Quit`, `Destroy`, `Destroyed` are the port and the end of the program.
`CDeviceGenericMtp` has the same control without an Archive.

`Plug` builds the item in one step. In the code the constructor called from
`device/CDeviceWatcherLinux.cpp:318` puts it into the tree and then reads the device in
`CDeviceGarminMtp::setup()`, in local event loops no `CRunningCall` counts; a removal
delivered there deletes the item under its constructor. `GoneIsIdle`, `Implements` and
their theorems therefore speak of an item from the moment its thread starts. The
watcher of `UsbWatch`, which guards that phase, has it as steps of its own.

*Abstract specification.* `DeviceLife` knows the device at each port, the items shown,
the items in use and whether the program runs. An item appears with its device or
later, is used and freed, and is removed when it is stale or the program ends, and
never in use. `DeviceLoad` implements it for its one port, with `inUse` mapped to the
items that have a thread at work or a call on the stack; `UsbWatch` implements it for
all its addresses.

*Left out.* Two devices at different ports (they share the mutex only), the
transfers, and the content of the files.

### 3.5 MassStorage: loading a Garmin mass storage

The thread of `CDeviceGarmin` takes `mutexItems` to mount and unmount and makes projects
by blocking calls; the class has no `stopLoading()`, and its destructor waits for 5 s.
`Destroyed` passes when the thread has ended or cannot go on. The Archive is left out.
The module exists for one disagreement, see section 4.

### 3.6 UsbWatch: the USB watcher of macOS

*State.* `events` are hotplug signals queued by a USB thread; `serial`, `settled`,
`failures`, `done` the table `pluggedMtpDevices`, `opened` the table `openedMtpDevices`,
both per address; `step`, `toClose`, `attempt`, `due` where the pass of
`slotUpdateMtp()` is, `again` and `timer` its flags; `stack` the main thread with calls into
devices (`device` inside the device, `dialog` while a message box is open) and the
pass itself; `items` and `removals` the workspace as this class meets it.

*Actions.* `Close`, `Open`, `EndPass`, `Discard`, `Fail`, `Empty`, `Success` and `Built` are
`updateMtpOnce()` cut where it runs local event loops; `Deliver` is
`slotUsbDeviceAdded()` or `slotUsbDeviceRemoved()`; `TimerFires`, `RetryFires` and `Expire`
are time. `removeDevice()` is abstracted to its answer: refused while a call into the
item runs. The code also refuses when the item's thread does not end within 100 ms
(`device/IDevice.cpp:66-76`); here that looks like a call that is still on the stack, and
`DeviceLoad` has the threads.

*Abstract specification.* `WatchImplements` maps the serials of `pluggedMtpDevices` to the
devices of `DeviceLife`, and to `inUse` the items with a call on the stack and the one
that `step = "build"` says is still reading its device: its constructor runs local
event loops and no `CRunningCall` guards it yet, so that only the guard against nested
passes and the order in which `removeDevice()` searches keep it from being deleted. So
both modules keep the same promise, the watcher with an abstract answer to
`removeDevice()` and `DeviceLoad` with the threads behind it.

*Left out.* Several storages of one device, and mass storages, which the same
watcher takes from another signal.

### 3.7 MapList: the maps of a view

*State.* `mapList`, a sequence without duplicates, with the `status` of each item, its `shadowConfig` (has it settings of a
map, and its key `isActive`) and `pending`, the 100 ms single shot of `loadConfig()`; `saving`,
the 1 s timer; the settings `cfgPaths`, `keysKnownMaps` and a group `cfg` per map; `present`,
the files that can be read.

*Actions.* `Click`, `SingleShot`, `Move`, `SlotRemove`, `DelayedSave`, `SetProjection` (reloads
from the settings), `SetupMapPath` (saves and reloads), `Drive` (files come and go),
`Exit`, `Crash`, `Start`. Nothing is bounded. `Known` and `New` are the two loops of
`loadMapList()`: the keys that are found in their order, and what was found besides.
Every save writes the groups of the maps that are listed into those it finds
(`SaveInto`), so a map that is not listed keeps its group; only `Exit` erases the groups
of all views first (`CMainWindow.cpp:618-621`), and those of other maps are gone.

*Left out.* What a map saves besides its activation, duplicates of one map in two
directories, and files that change their content and so their key.

## 4. Runs

The passing runs take seconds to two minutes each:

| Run | Instance | Shows |
|---|---|---|
| `draw_layer` | 1 layer, 2 focuses, 2 zooms, 2 sizes, 3 requests, fair | `FrontIsWhole`, `RequestHasOwner`, `CompleteShowsLatest`, `ImageInUseIsKept`, `RequestServed`, `ViewportRestored` |
| `draw_layers` | 2 layers, 2 sizes, 2 ratios, 2 requests | `LayersAgree`, `RetryIsArmed`, `PrintShowsArea` |
| `db_folders` | 2 users in 2 folders, 2 items (1 a clone), 1 edit, 3 requests | `EditsAccountedFor`, `UnmarkedIsInFolder` |
| `db_save_ends` | 2 users, 1 item, 1 edit, 1 deleted row, 2 requests, fair | `UnmarkedWasStored`, `NoBlindOverwrite`, `SaveEnds` |
| `tile_views` | 3 tiles of twice the declared width, limit 2, 2 views (one out of scale), 2 events, fair | `CompletePicture`, `QueueIsServed`, `PendingIsInFlight`, `PictureCompletes` |
| `device_load` | 2 plugs, 1 file in each part, 3 clicks | `GoneIsIdle`, `RemovalsMatchItems`, `PluggedIsShown`, `CollapsedIsEmpty`, `Implements` |
| `device_ends` | 1 plug, 2 files, 4 clicks, fair | `StaleIsRemoved`, `QuitEnds`, `ArchiveSettles` |
| `usb_watch` | 2 addresses, 2 plugs, 2 attempts, 1 call, fair | `NothingForgotten`, `OpenedIsShown`, `RetriesMatchItems`, `WatchImplements`, `DevicesServed`, `GoneIsRemoved` |
| `map_list` | 2 maps, fair save | `SettingsAgree`, `ReloadRestores`, `ChangesAreSaved` |

### Bounds

* `MaxRequests` (canvas) counts what the user asks. Three requests are a draw
  under way, a second that overlaps it, and a third that meets the thread while it
  leaves; two layers are enough for "one was resized, the other not"; two sizes
  and ratios for old and new. `draw_layer` starts at one zoom and focus (`FirstInit`): the
  code only asks whether zooms or focuses are equal, so other starts give the same
  behaviours with names exchanged.
* `MaxEdits`, `MaxPurges`, `MaxRequests` (database): a conflict takes one edit by
  each user; a rival's undo makes an old hash come back; one purge between two
  statements is the deleted row; three requests let both users load the item and
  one of them unlink it, close, undo or update; where rows are deleted, two let
  one user load the item and the other unlink it. Calls of `save()` are not counted
  and repeat without bound. Two users are a saver and a rival.
* `MaxPending` is 2 instead of 6, so that three tiles exceed it. `MaxEvents`
  counts moves, cleanups, reconfigurations, interferences of others and draws of
  more than 2 s; draws, requests and replies are not bounded. With the wider tiles
  the first draw learns the width and the second one's tiles overlap the first's.
* `MaxPlugs` 2 (devices): an item whose removal is refused and the item of the device
  plugged in again are there together, as are their two retries. Three clicks are
  expand, collapse, expand again, or an operation between two of them; four with one
  plug give a collapse its second try. One file makes a thread with two calls in the
  device and one in the Archive. Removals, retries and passes are not counted.
* `MaxFailures` 2 instead of 6: one attempt that is repeated and one that is the last.
  Two plugs cover two addresses and two devices at one address.
* `MapList` has no bounds: list, groups and timers of two maps are finite.

The modules with bounded requests come to rest, so deadlock is not checked in their
runs: it would only say that the user is done. The runs of `DBProject` and `map_list`
check it, as users can always open and close projects and drives come and go.

### Fairness

* Canvas: weakly fair are the event loop's deliveries, the retry timer, the main
  thread inside a handler, and each layer's thread. The scheduler and the event
  loop give this; the user is never fair.
* Database: weakly fair is `SaveStep` of each user, the part of `save()` that needs
  nobody's answer. Dialogs, failures and rivals are not fair, so `SaveEnds` ends at
  a dialog too.
* Tiles: weakly fair are the drawing thread, the event loop, and the answer to each
  request, as `QNetworkAccessManager` reports every request as finished, with a
  picture or an error.
* Devices: weakly fair are the loading threads and the main thread inside a stop or a
  destructor; strongly fair are the calls into devices and the timers, as each of
  them needs the event loop, which stops and destructors leave and reach again. A
  call ends because device transfers have time limits and the user answers a
  message box. In `UsbWatch` the pass, hotplug signals and deadlines are weakly fair,
  and ends of calls, the timer and retries strongly fair for the same reason. Nobody
  has to plug, unplug, click or quit.
* Map list: weakly fair is the delayed save. Clicks may restart the timer, but each of
  them changes the list only when the user acts.

Each property has a mutant in `PROJECT.json`: a plausible bug in one definition
that makes TLC find the property violated.

### Disagreements with comments and documented behaviour

Three runs expect a violation; each quotes its line in `findings`.

| Run | What happens |
|---|---|
| `draw_stale_buffer` | `draw()` raises the flag under the mutex and asks `isRunning()` after it. A thread that serves the request and ends in between is started once more with nothing to do and swaps the older image to the front, for good. |
| `db_returning_hash` | Between UPDATE and SELECT a rival saves and undoes; the hash is the old one, so the edit is taken for no difference and loses its mark. |
| `device_mass` | A Garmin mass storage is unplugged while its thread waits for the mutex `removeDevice()` holds, or for a call nobody delivers: the inherited `stopLoading()` answers true, the destructor gives up after 5 s and the device is deleted with its thread running. |

Further disagreements are steps of the models without a run of their own; the
hazards give their lines.

* *Database.* After "Ignore" or "Do not replace item" the item keeps its edit without
  its mark when the row still has the last known hash (`gis/IGisItem.cpp:258`).
  `EditsAccountedFor` counts that as given up. Lost & Found cleared between the
  insertion of an item and of its link leaves a link to no row.
* *Tiles.* A url that `QUrl::toString()` writes differently is never found in `urlPending`
  (`map/IMapOnline.cpp:118`); its reply is dropped and it stays pending. The models take
  such urls in `Rewritten`, empty in the runs. A cleanup between `contains()` and `restore()`
  makes a hole of a tile the server may have. The draw that learns another tile
  width may end before its request for the next draw is delivered, and
  `isDrawComplete()` is true meanwhile.
* *Map list.* `setProjection()` reloads from the settings (`map/CMapDraw.cpp:78`): a change
  of the last second is lost. A map switched on or off by a click within the 100 ms
  after a reload is put back (`map/CMapItem.cpp:127`). A map whose path is removed and
  registered again comes back unused, as the path is reloaded after the list is saved
  without it, and becomes active again with a reload after the next save, as its
  group in the settings is kept until the program ends normally, which erases it. `ReloadRestores` speaks of maps that stay registered, and of
  `setProjection()` when nothing waits to be saved.
* *KMtp devices.* `slotKMTPDeviceChanged()` (`device/CDeviceWatcherLinux.cpp:262`) has none of the
  guards `UsbWatch` shows to be needed: a nested call finds the table of devices half
  filled. This is a reading, not a run.

## 5. Proofs

The theorems hold for every value of the constants. Assumptions are those the
modules name (`ConstantsAssumption`: sizes and bounds are natural numbers and sets of
the right kind; `NoViewAssumption` and `NoValues`: the "none" values are no values;
`MapsAssumption`: there are finitely many map files).
TLC evaluates them in every run.

| Module | Theorems |
|---|---|
| `DrawContextProofs` | `TypeCorrect`, `LayersAlwaysAgree`, `FrontIsAlwaysWhole`, `ImageInUseIsAlwaysKept`, `RequestAlwaysHasOwner`, `RetryIsAlwaysArmed` |
| `DrawContextLatestProofs` | `CompleteAlwaysShowsLatest`, `PrintAlwaysShowsArea` |
| `DBProjectProofs` | `TypeCorrect`, `EditsAlwaysAccountedFor`, `UnmarkedWasAlwaysStored`, `UnmarkedIsAlwaysInFolder`, `NeverOverwritesBlindly` |
| `TileLoaderProofs` | `TypeCorrect`, `PictureIsComplete`, `PendingAlwaysInFlight`, `QueueAlwaysServed` |
| `DeviceLoadProofs` | `TypeCorrect`, `GoneAlwaysIdle`, `RemovalsAlwaysMatch`, `PluggedAlwaysShown`, `CollapsedAlwaysEmpty`, `ImplementsDeviceLife` |
| `UsbWatchProofs` | `TypeCorrect`, `NothingIsForgotten`, `OpenedAlwaysShown`, `RetriesAlwaysMatch`, `DoneAlwaysOpened` |
| `UsbWatchLifeProofs` | `WatcherImplementsDeviceLife` |
| `MapListProofs` | `MapListTypeCorrect`, `SettingsAlwaysAgree`, `ReloadAlwaysRestores` |

*DrawContext.* The theorems share `TypeOK`. `LayersAgree` is inductive with it:
geometry changes for all layers or none. `FrontIsWhole` needs that a buffer with a
reference but no image is the back buffer of a drawing thread. `RequestHasOwner` is
strengthened to `OwnerInv`: at each phase of a paint it says for which layers the
paint will still ask (a paint event takes all flags at once and hands them to its
layers one by one), and a raised flag has a starter or is still to be asked.
`RetryIsArmed` is strengthened to `RetryInv` with the phases of a print, where the
layers may differ from the canvas without a timer because `PrintRestore` is to come.

`CompleteShowsLatest` speaks of the moment when nobody draws, `PrintShowsArea` of the
second round of a print. `LatestInv`, their inductive invariant, follows a request to
the screen. `ScreenInv` says of each layer that the canvas has still to ask it
(`ToAsk`), that it was asked for the canvas' view and no thread has taken the request
yet (`Asked`), or that the last run is at a definite stage of drawing that view
(`LastRun`: copied, drawn, or in front). `PrintInv` says the same of the page while the
layers belong to `print()`, where it also needs the threads to rest until they are
asked (`PageOf`). `PhaseInv` ties the main thread's place to its locals: a paint hands
the layers the focus and the flags it read at its start. The steps of a thread
(`ThreadKeepsScreen`, `ThreadKeepsPage`) and a change of geometry (`RebuiltOrRefused`:
a layer is rebuilt and asked to redraw, or nothing changes) are lemmas for both. Two
things weaken what a complete canvas shows, and both are seen in the invariant: a layer
whose last run drew nothing (`drew`), which is the disagreement `CompleteIsCurrent` of
section 4, and a page of the canvas' own size (`ShowsPage`).

*DBProject.* `IInv` is `TypeOK`, what holds of each phase of `save()`'s locals
(`LocalInv`, `JobInv`: the row id and hash a phase carries were read from a row and
seen by the user), every row's version is stored (`RowInv`), and
`EditsAccountedFor` itself. `UnmarkedWasStored` follows from the same parts, and
`NoBlindOverwrite` from `JobInv`: a version an UPDATE names was seen. The history
variables only grow, which keeps what was shown of other users (`out` loses an item
with its next edit or load).

`UnmarkedIsInFolder` needs to follow an item through `save()`, where its mark goes with
the statement that links its row. `FolderInv` says that an unmarked item of a project
is linked in its folder (`Joined`) or in `out`, and that between the statement that
finds or makes an item's row and the one that links it the row's id is among the ids
to be linked (`Ids`); this takes that ids are unique among the rows and that the key a
clone gets is nobody else's (`RowsUnique`, `CloneOK`). The steps of a user leave the
other users' part alone (`SaveApart`, `UserApart`).

*TileLoader.* `CompletePicture` is far from inductive, as it only speaks of quiet
moments. `PictureInv` says what holds meanwhile: during a draw every tile of it is
still to do, drawn, a hole, or queued (`DrawInv`), unless a redraw is already asked
for; between draws the picture is finished, or requests are out whose last one
will ask (`ShownInv`). `NetInv` holds when no url is rewritten; `PendingIsInFlight` and
`QueueIsServed` follow, and the theorems carry `Rewritten = {}` as their hypothesis:
the reply to a rewritten url is not recognised, so the url stays pending though the
network owes nothing.

*DeviceLoad.* `GoneIsIdle` needs to know what a stop has achieved when the item is
deleted: `PassedInv` says that every part the stop has passed, and not given up, is
idle, and `StopInv` that the stop works on an item that is there, for a reason that
holds. `StackInv` ties the calls to the threads: a blocking call is on the stack once
and its thread waits for it. `LoadInv` bounds an Archive's projects. The counting
properties compare the number of stale items with `removals` at each step that takes
or gives one. For `ImplementsDeviceLife` at most one loader begins or ends per step
(`WhoStarts`, `WhoGoes`), so the items in use change by one item, as `DeviceLife` lets
them; the removal of an item is `Remove` of `DeviceLife` by `PassedInv`.
`PortItems` carries each change of these sets over to the items of the one port.

*UsbWatch.* Serials grow, so of two items at one address the newer has the larger one
(`SerialInv`), the first item `removeDevice()` finds is the oldest (it exists as the
smaller-than relation is well-founded), and it is not the open one. `OpenInv` keeps
that while a device is opened and others come and go at its address. `NothingForgotten`
rests on `PassInv`: in a pass that was not asked again, every open device is current,
still to be closed, or the next pass is due. `DoneIsOpened`, which no run lists, is part of
the invariant.

`WatcherImplementsDeviceLife` adds `BuildInv`: while an item reads its device, it is the one
of the open device, so the retry, which never takes the open one (`OpenedIsShown`), leaves
it alone, and the pass closes nothing in that phase. What a removal takes is stale
(`OtherIsStale`): an item with the serial of the device plugged in was opened by its own
attempt (`SerialInv`, `DoneIsOpened`), so it is the open one and current. `PushCall` and
`PopCall` follow the calls on the stack, which begin and end the use of one item each.

*MapList.* The list is a sequence, so the proof rests on lemmas about what the
operations do to one: `KnownKeepsOrder` (the known maps are the keys found, each once
and in their order), `SetIsListed` (the new ones are a set in some order),
`OneAfterTheOther`, `RemovedAt`, `InsertedAt`, `MovedList` (a move is a permutation).
`SelectSeq` is recursive, and what it returns would take an induction over sequences;
`Known` says the same by ranks, and the lemma follows from cardinalities of
intervals. `SettingsAgree` only speaks of fired timers. `MapInv` says what the settings
and an item know of each other meanwhile (`Recorded`): what the settings say of an
active or switched-off map is right unless a save is due, and an item that is to be
activated by its single shot is still recorded as active. `OrderSaved` says that
without a save due the settings know the maps in use in their order, which is what
the reload of a new projection depends on; it is what `ReloadRestores` needs for
`SetProjection`, while `SetupMapPath` saves first (`SetupRestores`,
`ProjectionRestores`). A save writes into whatever groups it finds, and the lemmas about
it are for any, so that they serve `Exit`, which starts from erased ones (`OldGroups`,
`ExitLeaves`). The attempt showed that the status of a known map with settings
whose file is away was chosen by overlapping cases in an earlier form of
`LoadMapList`; it is "missing", as `CMapItem::loadConfig()` returns at the file that is
not there.

Every invariant and every action property of the passing runs is proved. Only
model-checked are

* the liveness properties (`RequestServed`, `ViewportRestored`, `SaveEnds`,
  `PictureCompletes`, `StaleIsRemoved`, `QuitEnds`, `ArchiveSettles`, `DevicesServed`,
  `GoneIsRemoved`, `ChangesAreSaved`), which are beyond the prover;
* the violations, which are counterexamples.

## 6. Not modelled

* Decoding, parsing, painting, dialogs and formatting (offline maps, elevation, file
  formats, plots, units, tools) are data or output without shared state. Tracks,
  waypoints and areas are edited by one thread and belong to tests.
* *Devices.* The watchers of Linux and Windows hand devices over as `UsbWatch` does;
  the KMtp watcher is not guarded against nested calls (see section 4) and is left as
  a hazard. So are the Archive of a mass storage and, under the other watchers,
  the construction of an MTP item, which runs event loops before any call is counted
  (for macOS see `WatchImplements`). The transfers are external.
* *History of items* beyond change and undo: cutting and squashing rewrite the list
  of events of one item, locally to its thread. `DBProject` needs the hash only.
* *Folders and database views.* Copy, move and removal of folders and the event queue
  between view and workspace. They change which links exist; `DBProject` lets links and
  rows vanish at any step, which covers what `save()` can meet of them.
* *BRouter and line editing.* A local server process and an undo stack with routing in
  between. Each has state worth a module and comes next.
* *Crashes* are steps of `MapList` (settings) and of `DBProject` in so far as `save()`
  may stop at every statement. Files of projects outside the database are written
  in one go.
