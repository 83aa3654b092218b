----------------------------- MODULE MassStorage -----------------------------
(***************************************************************************)
(* Loading a Garmin device that is a mass storage (CDeviceGarmin) while it *)
(* is unplugged.  Its thread makes projects by blocking calls into the GUI *)
(* thread like the one of DeviceLoad, but the class has no stopLoading()   *)
(* of its own: the inherited one asks for running calls only, and the      *)
(* destructor waits for the thread for 5 s, holding the items' mutex and   *)
(* without dropping the call the thread may be waiting for.  The loading   *)
(* of the Archive is left out.                                             *)
(***************************************************************************)
EXTENDS Integers

CONSTANTS
  Files,      \* project files on the device
  MaxEdits    \* bound: operations of the user on the device

VARIABLES
  plugged, removals,   \* the device is there; removeDevice() calls to come
  item,                \* "none", "shown", "dying" in the destructor, "gone"
  pc, left,            \* the thread: where it is, blocking calls left
  interrupted,
  editing, edits       \* an operation of the user holds the mutex and counts as a call

vars == <<plugged, removals, item, pc, left, interrupted, editing, edits>>

TypeOK ==
  /\ plugged \in BOOLEAN /\ removals \in Nat /\ item \in {"none", "shown", "dying", "gone"}
  /\ pc \in {"idle", "mount", "check", "post", "queued", "umount"} /\ left \in 0 .. Files + 1
  /\ interrupted \in BOOLEAN /\ editing \in BOOLEAN /\ edits \in 0 .. MaxEdits

\* IGisItem::mutexItems is held by the user's operations and by removeDevice().
MutexItemsFree == ~editing /\ item # "dying"

\* The GUI thread delivers events; an operation waits in a dialog's loop.
AtLoop == item # "dying"

-----------------------------------------------------------------------------
\* The thread.  mount() and umount() take the mutex (CDeviceMountLock).
Mount ==
  /\ pc = "mount" /\ MutexItemsFree /\ pc' = "check"
  /\ UNCHANGED <<plugged, removals, item, left, interrupted, editing, edits>>

\* An interruption skips the files, not the call that looks for the Archive.
Check ==
  /\ pc = "check"
  /\ pc' = IF left = 0 THEN "umount" ELSE "post"
  /\ left' = IF interrupted /\ left > 0 THEN 1 ELSE left
  /\ UNCHANGED <<plugged, removals, item, interrupted, editing, edits>>

Post ==
  /\ pc = "post" /\ pc' = "queued"
  /\ UNCHANGED <<plugged, removals, item, left, interrupted, editing, edits>>

Umount ==
  /\ pc = "umount" /\ MutexItemsFree /\ pc' = "idle"
  /\ UNCHANGED <<plugged, removals, item, left, interrupted, editing, edits>>

-----------------------------------------------------------------------------
\* The queued call makes a project or the Archive; it runs no event loop.
RunCall ==
  /\ AtLoop /\ pc = "queued"
  /\ pc' = "check" /\ left' = left - 1
  /\ UNCHANGED <<plugged, removals, item, interrupted, editing, edits>>

Plug ==
  /\ item = "none"
  /\ plugged' = TRUE /\ item' = "shown"
  /\ pc' = "mount" /\ left' = Files + 1 /\ interrupted' = FALSE
  /\ UNCHANGED <<removals, editing, edits>>

Unplug ==
  /\ plugged /\ plugged' = FALSE /\ removals' = removals + 1
  /\ UNCHANGED <<item, pc, left, interrupted, editing, edits>>

StartEdit ==
  /\ item = "shown" /\ ~editing /\ edits < MaxEdits
  /\ editing' = TRUE /\ edits' = edits + 1
  /\ UNCHANGED <<plugged, removals, item, pc, left, interrupted>>

EndEdit ==
  /\ AtLoop /\ editing /\ editing' = FALSE
  /\ UNCHANGED <<plugged, removals, item, pc, left, interrupted, edits>>

\* removeDevice(): IDevice::stopLoading() is true unless a call is running.
RemoveDevice ==
  /\ AtLoop /\ removals > 0 /\ item = "shown"
  /\ IF editing THEN UNCHANGED <<removals, item, interrupted>>
     ELSE /\ removals' = removals - 1 /\ item' = "dying"
          /\ interrupted' = (pc # "idle")
  /\ UNCHANGED <<plugged, pc, left, editing, edits>>

\* ~CDeviceGarmin(): wait(5000) ends with the thread or with the time.  A thread
\* that can go on is taken to do so within the 5 s.
Destroyed ==
  /\ item = "dying" /\ pc \notin {"check", "post"}
  /\ item' = "gone"
  /\ UNCHANGED <<plugged, removals, pc, left, interrupted, editing, edits>>

-----------------------------------------------------------------------------
Init ==
  /\ plugged = FALSE /\ removals = 0 /\ item = "none"
  /\ pc = "idle" /\ left = 0 /\ interrupted = FALSE /\ editing = FALSE /\ edits = 0

Next ==
  \/ Mount \/ Check \/ Post \/ Umount \/ RunCall
  \/ Plug \/ Unplug \/ StartEdit \/ EndEdit \/ RemoveDevice \/ Destroyed

Spec == Init /\ [][Next]_vars

\* IDevice.h:78-82: stopLoading() stops the threads, and the device is not
\* deleted before it has.  Violated: the inherited stopLoading() stops nothing,
\* and the 5 s of the destructor run out while the thread waits for the GUI.
DeletedWhenStopped == item = "gone" => pc = "idle"
=============================================================================
