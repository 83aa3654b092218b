----------------------------- MODULE DeviceLife -----------------------------
(***************************************************************************)
(* What the program promises about the items of devices that are plugged   *)
(* in and out: an item appears for a device that is plugged in, is used by *)
(* a thread or a call for a while, and is removed when its device is gone  *)
(* or the program ends - never while it is in use, and never in place of   *)
(* the item of the device that is plugged in.                              *)
(***************************************************************************)
EXTENDS Integers

CONSTANT Ports    \* where a device can be

VARIABLES
  device,    \* the number of the device at each port, or 0 for none
  last,      \* devices are numbered as they are plugged in
  shown,     \* items in the workspace, <<port, number>>
  inUse,     \* items a loading thread or a running call works for
  running    \* the program has not begun to end

vars == <<device, last, shown, inUse, running>>

\* The item of a device that has been unplugged.
Stale(i) == device[i[1]] # i[2]

Init ==
  /\ device = [p \in Ports |-> 0] /\ last = 0
  /\ shown = {} /\ inUse = {} /\ running = TRUE

\* The item comes and begins to load.
Show(i) == shown' = shown \cup {i} /\ inUse' = inUse \cup {i}

\* A device is plugged in, and its item comes with it or later.
Plug(p) ==
  /\ running /\ device[p] = 0
  /\ last' = last + 1 /\ device' = [device EXCEPT ![p] = last + 1]
  /\ Show(<<p, last + 1>>) \/ UNCHANGED <<shown, inUse>>
  /\ UNCHANGED running

Appear(p) ==
  /\ running /\ device[p] # 0 /\ <<p, device[p]>> \notin shown
  /\ Show(<<p, device[p]>>)
  /\ UNCHANGED <<device, last, running>>

Unplug(p) ==
  /\ running /\ device[p] # 0
  /\ device' = [device EXCEPT ![p] = 0]
  /\ UNCHANGED <<last, shown, inUse, running>>

Use(i)  == i \in shown /\ inUse' = inUse \cup {i} /\ UNCHANGED <<device, last, shown, running>>
Free(i) == i \in inUse /\ inUse' = inUse \ {i} /\ UNCHANGED <<device, last, shown, running>>
Quit    == running /\ running' = FALSE /\ UNCHANGED <<device, last, shown, inUse>>

Remove(i) ==
  /\ i \in shown \ inUse
  /\ running => Stale(i)
  /\ shown' = shown \ {i}
  /\ UNCHANGED <<device, last, inUse, running>>

Next ==
  \/ Quit
  \/ \E p \in Ports : Plug(p) \/ Appear(p) \/ Unplug(p)
  \/ \E i \in shown : Use(i) \/ Remove(i)
  \/ \E i \in inUse : Free(i)

Spec == Init /\ [][Next]_vars
=============================================================================
