----------------------------- MODULE DeviceLoad -----------------------------
(***************************************************************************)
(* Loading an MTP device while it is unplugged (CDeviceGarminMtp with its  *)
(* Archive, CDeviceGenericMtp, IDevice::stopLoading(), CThread::cancel(),  *)
(* CGisListWks::removeDevice()).                                           *)
(*                                                                         *)
(* A thread reads the folders and makes every project by a blocking call   *)
(* into the device item on the GUI thread.  Such a call, and a user's      *)
(* operation on the device, wait in local event loops, where the unplug,   *)
(* the timers and the calls of other threads are delivered.  The GUI       *)
(* thread is a stack of calls; `stop` is the stopLoading() or the          *)
(* destructor at its top, which waits for threads without an event loop.   *)
(***************************************************************************)
EXTENDS Integers, Sequences, FiniteSets

CONSTANTS
  MaxPlugs,    \* bound: how often a device is plugged in
  Files,       \* project files in the device's folders, and in its Archive
  MaxClicks    \* bound: expansions, collapses and operations of the user

ASSUME ConstantsAssumption == MaxPlugs \in Nat /\ Files \in Nat /\ MaxClicks \in Nat

VARIABLES
  plugged,     \* a device is at the port
  plugs,       \* items made so far
  items,       \* device items in the workspace, oldest first
  archives,    \* items with an Archive sub-device
  removals,    \* removeDevice() calls to come: signals and retry timers
  pc, left, interrupted,    \* the loading threads
  stack,       \* calls into devices on the GUI thread, each in a local event loop
  stop,        \* the stopLoading() or destructor running on the GUI thread
  expanded, name, kids,     \* the Archive items
  collapsePending,
  quitting,    \* the workspace is being destroyed
  clicks

port    == <<plugged, plugs>>
list    == <<items, archives, removals>>
threads == <<pc, left, interrupted>>
gui     == <<stack, stop, quitting>>
folder  == <<expanded, name, kids, collapsePending>>
vars    == <<port, list, threads, gui, folder, clicks>>

Devices == 1 .. MaxPlugs
Parts   == {"main", "archive"}
Loaders == Devices \X Parts
Frames  == {"load", "edit"} \X Loaders
Reasons == {"none", "remove", "collapse", "quit"}
NoStop  == [why |-> "none", dev |-> 0, part |-> "done", ok |-> TRUE]

TypeOK ==
  /\ plugged \in BOOLEAN /\ plugs \in 0 .. MaxPlugs
  /\ items \subseteq 1 .. plugs /\ archives \subseteq items /\ removals \in Nat
  /\ pc \in [Loaders -> {"idle", "check", "post", "queued", "running", "final"}]
  /\ left \in [Loaders -> 0 .. Files] /\ interrupted \in [Loaders -> BOOLEAN]
  /\ stack \in Seq(Frames)
  /\ stop \in [why : Reasons, dev : 0 .. MaxPlugs, part : Parts \cup {"done"}, ok : BOOLEAN]
  /\ stop.why = "none" <=> stop.dev = 0
  /\ quitting \in BOOLEAN /\ clicks \in 0 .. MaxClicks
  /\ expanded \in [Devices -> BOOLEAN] /\ kids \in [Devices -> 0 .. Files]
  /\ name \in [Devices -> {"expand", "loading", "loaded"}]
  /\ collapsePending \in [Devices -> BOOLEAN]

-----------------------------------------------------------------------------
\* A call into the device of loader l is on the stack.
CallRuns(l) == \E i \in DOMAIN stack : stack[i][2] = l

\* Mutated form: nobody counts the calls (no CRunningCall).
CallsUncounted(l) == FALSE

\* callsRunning # 0
CallsRunning(l) == CallRuns(l)

\* Operations of the user hold IGisItem::mutexItems to their end.
MutexItemsFree == \A i \in DOMAIN stack : stack[i][1] # "edit"

\* The GUI thread is in an event loop, the main one or a local one.
AtLoop == stop = NoStop /\ ~quitting

Exists(l) == l[1] \in items /\ (l[2] = "archive" => l[1] \in archives)
Top       == stack[Len(stack)]
Pop       == stack' = SubSeq(stack, 1, Len(stack) - 1)

Start(l) ==
  /\ pc' = [pc EXCEPT ![l] = "check"]
  /\ left' = [left EXCEPT ![l] = Files]
  /\ interrupted' = [interrupted EXCEPT ![l] = FALSE]

-----------------------------------------------------------------------------
(* The loading threads. *)

\* isInterruptionRequested(), before every file and before the Archive is made.
\* The Archive's thread ends in a step under the mutex instead.
Check(l) ==
  /\ pc[l] = "check"
  /\ pc' = [pc EXCEPT ![l] = CASE interrupted[l] /\ (l[2] = "main" \/ left[l] > 0) -> "idle"
                               [] left[l] = 0 /\ l[2] = "archive" -> "final"
                               [] OTHER -> "post"]
  /\ UNCHANGED <<port, list, left, interrupted, gui, folder, clicks>>

\* invokeMethod() with Qt::BlockingQueuedConnection
Post(l) ==
  /\ pc[l] = "post" /\ pc' = [pc EXCEPT ![l] = "queued"]
  /\ UNCHANGED <<port, list, left, interrupted, gui, folder, clicks>>

\* The thread's last step; the Archive's takes the mutex for it.
Final(l) ==
  /\ pc[l] = "final" /\ (l[2] = "archive" => MutexItemsFree)
  /\ pc' = [pc EXCEPT ![l] = "idle"]
  /\ name' = IF l[2] = "archive" THEN [name EXCEPT ![l[1]] = "loaded"] ELSE name
  /\ UNCHANGED <<port, list, left, interrupted, gui, expanded, kids, collapsePending, clicks>>

ThreadStep(l) == Check(l) \/ Post(l) \/ Final(l)

-----------------------------------------------------------------------------
(* Calls into the devices on the GUI thread. *)

RunCall(l) ==
  /\ AtLoop /\ pc[l] = "queued"
  /\ pc' = [pc EXCEPT ![l] = "running"]
  /\ stack' = Append(stack, <<"load", l>>)
  /\ UNCHANGED <<port, list, left, interrupted, stop, quitting, folder, clicks>>

\* The file is read and its project made, or it is no valid project; the last
\* call of a device's thread looks for an Archive.
FinishCall ==
  /\ AtLoop /\ stack # <<>> /\ Top[1] = "load"
  /\ LET l == Top[2] IN
     \/ /\ left[l] > 0
        /\ left' = [left EXCEPT ![l] = @ - 1] /\ pc' = [pc EXCEPT ![l] = "check"]
        /\ \/ UNCHANGED kids
           \/ l[2] = "archive" /\ kids' = [kids EXCEPT ![l[1]] = @ + 1]
        /\ UNCHANGED archives
     \/ /\ left[l] = 0
        /\ archives' \in {archives, archives \cup {l[1]}}
        /\ pc' = [pc EXCEPT ![l] = "final"]
        /\ UNCHANGED <<left, kids>>
  /\ Pop
  /\ UNCHANGED <<port, items, removals, interrupted, stop, quitting, expanded, name,
                 collapsePending, clicks>>

\* An operation of the user: projects are copied to the device or deleted there.
StartEdit(l) ==
  /\ AtLoop /\ MutexItemsFree /\ Exists(l) /\ clicks < MaxClicks
  /\ clicks' = clicks + 1
  /\ stack' = Append(stack, <<"edit", l>>)
  /\ UNCHANGED <<port, list, threads, stop, quitting, folder>>

EndEdit ==
  /\ AtLoop /\ stack # <<>> /\ Top[1] = "edit"
  /\ Pop
  /\ \/ UNCHANGED kids
     \/ LET l == Top[2] IN
        /\ l[2] = "archive" /\ kids[l[1]] > 0
        /\ kids' = [kids EXCEPT ![l[1]] = @ - 1]
  /\ UNCHANGED <<port, list, threads, stop, quitting, expanded, name, collapsePending, clicks>>

-----------------------------------------------------------------------------
(***************************************************************************)
(* stopLoading(): the Archive's thread, then the device's; a destructor    *)
(* waits for the device's first.                                           *)
(***************************************************************************)
First(why) == IF why = "quit" THEN "main" ELSE "archive"
After(why, part) ==
  CASE part = "archive" /\ why = "remove" -> "main"
    [] part = "main" /\ why = "quit"      -> "archive"
    [] OTHER                              -> "done"

BeginStop(why, d) == stop' = [why |-> why, dev |-> d, part |-> First(why), ok |-> TRUE]
NextPart(ok)      == stop' = [stop EXCEPT !.part = After(stop.why, stop.part), !.ok = @ /\ ok]

Target    == <<stop.dev, stop.part>>
Stopping  == stop # NoStop /\ stop.part # "done"
Interrupt == interrupted' = [interrupted EXCEPT ![Target] = TRUE]

\* Mutated form: the queued call stays, and the thread waits for it.
NotDropped == pc

\* The receiver's queued call is removed, which lets the thread go on.
Dropped == IF pc[Target] = "queued" THEN [pc EXCEPT ![Target] = "check"] ELSE pc

\* A call into the device further up the stack: the thread is only asked to end.
StopRefused ==
  /\ Stopping /\ CallsRunning(Target)
  /\ Interrupt /\ NextPart(FALSE)
  /\ UNCHANGED <<port, list, pc, left, stack, quitting, folder, clicks>>

\* cancel(): interruption, then wait(5) and removePostedEvents() in a loop.
StopWaits ==
  /\ Stopping /\ ~CallsRunning(Target) /\ pc[Target] # "idle"
  /\ Interrupt /\ pc' = Dropped
  /\ <<interrupted', pc'>> # <<interrupted, pc>>
  /\ UNCHANGED <<port, list, left, stack, stop, quitting, folder, clicks>>

StopDone ==
  /\ Stopping /\ ~CallsRunning(Target) /\ pc[Target] = "idle"
  /\ NextPart(TRUE)
  /\ UNCHANGED <<port, list, threads, stack, quitting, folder, clicks>>

\* The 100 ms are over; a destructor waits without limit.
StopTimeout ==
  /\ Stopping /\ stop.why # "quit"
  /\ ~CallsRunning(Target) /\ pc[Target] # "idle"
  /\ Interrupt /\ pc' = Dropped
  /\ NextPart(FALSE)
  /\ UNCHANGED <<port, list, left, stack, quitting, folder, clicks>>

StopStep == StopRefused \/ StopWaits \/ StopDone \/ StopTimeout

Stopped(why) == stop.why = why /\ stop.part = "done"

-----------------------------------------------------------------------------
(* removeDevice(): the first item with the key, again after a second if it is in use. *)

\* Mutated form: the list is searched from its end.
Newest(d) == \A e \in items : e <= d
Oldest(d) == \A e \in items : d <= e

RemoveDevice ==
  /\ AtLoop /\ removals > 0
  /\ removals' = removals - 1
  /\ IF items = {} THEN UNCHANGED stop
     ELSE \E d \in items : Oldest(d) /\ BeginStop("remove", d)
  /\ UNCHANGED <<port, items, archives, threads, stack, quitting, folder, clicks>>

\* Mutated form: the answer of stopLoading() is not looked at.
AlwaysStopped == TRUE
AllStopped    == stop.ok

\* Mutated form: an item in use is left where it is.
NoRetry == UNCHANGED removals
Retry   == removals' = removals + 1

Remove ==
  /\ Stopped("remove")
  /\ stop' = NoStop
  /\ IF AllStopped
       THEN /\ items' = items \ {stop.dev} /\ archives' = archives \ {stop.dev}
            /\ UNCHANGED removals
       ELSE Retry /\ UNCHANGED <<items, archives>>
  /\ UNCHANGED <<port, threads, stack, quitting, folder, clicks>>

-----------------------------------------------------------------------------
(* The Archive item. *)

\* slotExpanded()
Load(d) ==
  IF kids[d] = 0 /\ pc[<<d, "archive">>] = "idle"
    THEN Start(<<d, "archive">>) /\ name' = [name EXCEPT ![d] = "loading"]
    ELSE UNCHANGED <<threads, name>>

Expand(d) ==
  /\ AtLoop /\ d \in archives /\ ~expanded[d] /\ clicks < MaxClicks
  /\ clicks' = clicks + 1
  /\ expanded' = [expanded EXCEPT ![d] = TRUE]
  /\ Load(d)
  /\ UNCHANGED <<port, list, gui, kids, collapsePending>>

\* slotCollapsed()
Collapse(d) ==
  /\ AtLoop /\ d \in archives /\ expanded[d] /\ clicks < MaxClicks
  /\ clicks' = clicks + 1
  /\ expanded' = [expanded EXCEPT ![d] = FALSE]
  /\ BeginStop("collapse", d)
  /\ UNCHANGED <<port, list, threads, stack, quitting, name, kids, collapsePending>>

CollapseAgain(d) ==
  /\ AtLoop /\ d \in archives /\ collapsePending[d]
  /\ collapsePending' = [collapsePending EXCEPT ![d] = FALSE]
  /\ BeginStop("collapse", d)
  /\ UNCHANGED <<port, list, threads, stack, quitting, expanded, name, kids, clicks>>

\* Mutated form: an Archive expanded while it was being stopped stays empty.
NeverAgain(d) == FALSE
ExpandedAgain(d) == expanded[d]

\* The rest of slotCollapsed(): the projects go, and an Archive that was expanded
\* again meanwhile is loaded anew; or another try in 100 ms.
Clear ==
  /\ Stopped("collapse") /\ stop' = NoStop
  /\ IF AllStopped
       THEN /\ kids' = [kids EXCEPT ![stop.dev] = 0]
            /\ IF ExpandedAgain(stop.dev)
                 THEN /\ Start(<<stop.dev, "archive">>)
                      /\ name' = [name EXCEPT ![stop.dev] = "loading"]
                 ELSE name' = [name EXCEPT ![stop.dev] = "expand"] /\ UNCHANGED threads
            /\ UNCHANGED collapsePending
       ELSE /\ collapsePending' = [collapsePending EXCEPT ![stop.dev] = TRUE]
            /\ UNCHANGED <<threads, name, kids>>
  /\ UNCHANGED <<port, list, stack, quitting, expanded, clicks>>

-----------------------------------------------------------------------------
(* The port, and the end of the program. *)
\* The device's item is there and its thread runs. The local event loops in which its
\* constructor reads the device, before any call is counted, are left out: what is
\* said of an item holds from here on. UsbWatch has its constructor as steps.
Plug ==
  /\ AtLoop /\ ~plugged /\ plugs < MaxPlugs
  /\ plugged' = TRUE /\ plugs' = plugs + 1
  /\ items' = items \cup {plugs + 1}
  /\ Start(<<plugs + 1, "main">>)
  /\ UNCHANGED <<archives, removals, gui, folder, clicks>>

Unplug ==
  /\ plugged /\ ~quitting
  /\ plugged' = FALSE /\ removals' = removals + 1
  /\ UNCHANGED <<plugs, items, archives, threads, gui, folder, clicks>>

\* The tree is destroyed from the main loop; destructors wait for their threads.
Quit ==
  /\ AtLoop /\ stack = <<>> /\ quitting' = TRUE
  /\ UNCHANGED <<port, list, threads, stack, stop, folder, clicks>>

Destroy(d) ==
  /\ quitting /\ stop = NoStop /\ d \in items
  /\ BeginStop("quit", d)
  /\ UNCHANGED <<port, list, threads, stack, quitting, folder, clicks>>

Destroyed ==
  /\ Stopped("quit") /\ stop' = NoStop
  /\ items' = items \ {stop.dev} /\ archives' = archives \ {stop.dev}
  /\ UNCHANGED <<port, removals, threads, stack, quitting, folder, clicks>>

-----------------------------------------------------------------------------
Init ==
  /\ plugged = FALSE /\ plugs = 0 /\ items = {} /\ archives = {} /\ removals = 0
  /\ pc = [l \in Loaders |-> "idle"] /\ left = [l \in Loaders |-> 0]
  /\ interrupted = [l \in Loaders |-> FALSE]
  /\ stack = <<>> /\ stop = NoStop /\ quitting = FALSE /\ clicks = 0
  /\ expanded = [d \in Devices |-> FALSE] /\ kids = [d \in Devices |-> 0]
  /\ name = [d \in Devices |-> "expand"] /\ collapsePending = [d \in Devices |-> FALSE]

Next ==
  \/ Plug \/ Unplug \/ Quit \/ RemoveDevice \/ Remove \/ Clear \/ StopStep \/ Destroyed
  \/ FinishCall \/ EndEdit
  \/ \E l \in Loaders : ThreadStep(l) \/ RunCall(l) \/ StartEdit(l)
  \/ \E d \in Devices : Expand(d) \/ Collapse(d) \/ CollapseAgain(d) \/ Destroy(d)

Spec == Init /\ [][Next]_vars

\* Some thread that can run does; device I/O and the user's dialogs end; and an
\* event loop that is reached again and again delivers what is due.  Nobody has
\* to plug, click or quit.
ThreadsRun == \E l \in Loaders : ThreadStep(l)
CallsRun   == (\E l \in Loaders : RunCall(l)) \/ FinishCall \/ EndEdit
TimersFire == RemoveDevice \/ \E d \in Devices : CollapseAgain(d)
GuiGoesOn  == StopStep \/ Remove \/ Clear \/ Destroyed \/ \E d \in Devices : Destroy(d)

Fairness == /\ WF_vars(ThreadsRun) /\ WF_vars(GuiGoesOn)
            /\ SF_vars(CallsRun) /\ SF_vars(TimersFire)

FairSpec == Spec /\ Fairness

-----------------------------------------------------------------------------
(* Properties. *)

\* The item of a device that has been unplugged.
Stale(d) == d # plugs \/ ~plugged

\* The one port as DeviceLife sees it; an item is in use while a thread or a
\* running call works for it.
InUse       == {d \in Devices : \E p \in Parts : pc[<<d, p>>] # "idle" \/ CallRuns(<<d, p>>)}
ItemsOf(ds) == {<<"usb", d>> : d \in ds}
Life        == INSTANCE DeviceLife WITH
                 Ports <- {"usb"}, device <- [p \in {"usb"} |-> IF plugged THEN plugs ELSE 0],
                 last <- plugs, shown <- ItemsOf(items), inUse <- ItemsOf(InUse),
                 running <- ~quitting

\* Nobody works for an item that is gone: neither a thread nor a call further up
\* the GUI thread's stack.  (IDevice.h:77-80, stopLoading())
GoneIsIdle ==
  \A l \in Loaders : ~Exists(l) => pc[l] = "idle" /\ ~CallRuns(l)

\* Every item whose device is gone has one removal to come, and no other item
\* has: no retry is lost, and none is left over to hit the device plugged in next.
RemovalsMatchItems ==
  ~quitting => Cardinality({d \in items : Stale(d)})
                 = removals + (IF stop.why = "remove" THEN 1 ELSE 0)

\* A retry never removes the item of the device that is plugged in.
PluggedIsShown == plugged /\ ~quitting => plugs \in items

\* A collapsed Archive is empty and stays so: no thread is still filling it.
CollapsedIsEmpty ==
  \A d \in Devices : name[d] = "expand" => kids[d] = 0 /\ pc[<<d, "archive">>] = "idle"

\* What DeviceLife promises.
Implements == Life!Spec

\* The item of an unplugged device goes.
StaleIsRemoved ==
  \A d \in Devices : d \in items /\ Stale(d) ~> d \notin items

\* The program can end while devices are being loaded.
QuitEnds == quitting ~> items = {}

\* When the user leaves the Archive alone it gets loaded or empty, as it is shown.
ArchiveSettles ==
  <>[](quitting \/ \A d \in archives :
         Stale(d) \/ (IF expanded[d] THEN name[d] = "loaded" ELSE name[d] = "expand"))
=============================================================================
