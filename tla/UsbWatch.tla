------------------------------ MODULE UsbWatch ------------------------------
(***************************************************************************)
(* The MTP half of CDeviceWatcherMac: hotplug events of a USB thread, one  *)
(* single-shot timer, and a pass that brings the workspace in line with    *)
(* the devices plugged in.  A pass closes what is gone and opens at most   *)
(* one device; both run local event loops (CDeviceWatcherMac.cpp:114), in  *)
(* which further events, timers and calls into the devices are delivered,  *)
(* so the GUI thread is a stack of calls.  Times are left out: a deadline  *)
(* may pass, and an armed timer fire, at any moment.  A device has one     *)
(* storage, and its item is removed unless a call into it runs; DeviceLoad *)
(* models the threads behind that answer.                                  *)
(***************************************************************************)
EXTENDS Integers, Sequences, FiniteSets

CONSTANTS
  Keys,          \* bus, address and product of a USB device
  MaxFailures,   \* failed attempts before a device is given up (6 in the code)
  MaxPlugs,      \* bound: devices plugged in
  MaxCalls       \* bound: calls into devices

ASSUME ConstantsAssumption ==
  MaxFailures \in Nat \ {0} /\ MaxPlugs \in Nat /\ MaxCalls \in Nat

VARIABLES
  inPort, plugs, events,             \* the bus, and the signals queued to the GUI thread
  serial, settled, failures, done,   \* pluggedMtpDevices; serial 0 for no entry
  opened, mtpSerial,                 \* openedMtpDevices, with the serial or 0
  stack,                             \* GUI thread: calls into devices and slotUpdateMtp()
  step, toClose, attempt, due,       \* where the running pass is; due for next >= 0
  again, timer,                      \* updateMtpAgain, mtpTimer.isActive()
  items, removals,                   \* devices in the workspace; removeDevice() retries
  calls

bus     == <<inPort, plugs, events>>
plugged == <<serial, settled, failures, done>>
pass    == <<stack, step, toClose, attempt, due, again>>
list    == <<items, removals>>
vars    == <<bus, plugged, opened, mtpSerial, pass, timer, list, calls>>

Serials == 1 .. MaxPlugs
Items   == Keys \X Serials
Update  == <<"update">>
Frames  == ({"device", "dialog"} \X Items) \cup {Update}
NoAttempt == <<>>

-----------------------------------------------------------------------------
Top      == stack[Len(stack)]
Pop      == SubSeq(stack, 1, Len(stack) - 1)
Updating == step # "none"                         \* updatingMtp
InUpdate == Updating /\ stack # <<>> /\ Top = Update

InCall(i) == \E n \in DOMAIN stack : stack[n] \in {<<"device", i>>, <<"dialog", i>>}
Busy(i)   == \E n \in DOMAIN stack : stack[n] = <<"device", i>>

\* Mutated form: a device at the same address is taken for the earlier one.
SameKey(k) == serial[k] # 0
Current(k) == serial[k] = opened[k]

Waiting == {k \in Keys : serial[k] # 0 /\ done[k] = "no" /\ opened[k] = 0}

-----------------------------------------------------------------------------
(* CGisListWks::removeDevice(): the first item with the key, or again in 1 s. *)

\* Mutated form: the list is searched from its end.
Newest(i) == \A j \in items : j[1] = i[1] => j[2] <= i[2]
Oldest(i) == \A j \in items : j[1] = i[1] => i[2] <= j[2]

Matches(k) == {i \in items : i[1] = k /\ Oldest(i)}

\* Mutated form: a refused removal is not tried again.
NoRetry(k, left) == left
Retry(k, left) == [left EXCEPT ![k] = @ + 1]

\* left: the retries to come without the one that calls.
RemoveDevice(k, left) ==
  IF \E i \in Matches(k) : InCall(i)
    THEN removals' = Retry(k, left) /\ UNCHANGED items
    ELSE removals' = left /\ items' = items \ Matches(k)

-----------------------------------------------------------------------------
(* slotUpdateMtp() *)

NewPass ==
  /\ step' = "close" /\ toClose' = {k \in Keys : opened[k] # 0}
  /\ attempt' = NoAttempt /\ due' = FALSE /\ again' = FALSE

\* Mutated form: a call during a pass is dropped.
Forgotten == UNCHANGED again
Again     == again' = TRUE

SlotUpdateMtp ==
  IF Updating
    THEN Again /\ UNCHANGED <<stack, step, toClose, attempt, due>>
    ELSE NewPass /\ stack' = Append(stack, Update)

\* A device that is gone or was replaced is closed, unless a call into it runs.
Close(k) ==
  /\ InUpdate /\ step = "close" /\ k \in toClose
  /\ toClose' = toClose \ {k}
  /\ CASE Current(k) -> UNCHANGED <<opened, due, list>>
       [] ~Current(k) /\ Busy(<<k, opened[k]>>) -> due' = TRUE /\ UNCHANGED <<opened, list>>
       [] OTHER -> /\ opened' = [opened EXCEPT ![k] = 0]
                   /\ RemoveDevice(k, removals) /\ UNCHANGED due
  /\ UNCHANGED <<bus, plugged, mtpSerial, stack, step, attempt, again, timer, calls>>

\* openDevice() begins, for one device whose time has come.
Open(k) ==
  /\ InUpdate /\ step = "close" /\ toClose = {} /\ k \in Waiting /\ settled[k]
  /\ step' = "open" /\ attempt' = <<k, serial[k]>>
  /\ UNCHANGED <<bus, plugged, opened, mtpSerial, stack, toClose, due, again, timer, list, calls>>

\* Mutated form: only a busy device makes the pass due again.
OnlyBusy  == due
NextIsDue == due \/ Waiting # {}

EndPass ==
  /\ InUpdate /\ step = "close" /\ toClose = {} /\ \A k \in Waiting : ~settled[k]
  /\ IF again
       THEN NewPass /\ UNCHANGED <<stack, timer>>
       ELSE /\ stack' = Pop /\ step' = "none" /\ timer' = NextIsDue
            /\ UNCHANGED <<toClose, attempt, due, again>>
  /\ UNCHANGED <<bus, plugged, opened, mtpSerial, list, calls>>

-----------------------------------------------------------------------------
(* openDevice() has returned. *)
Answered == InUpdate /\ step = "open"

\* Mutated form: only a device that is gone makes the answer useless.
StillThere == serial[attempt[1]] # 0
SameDevice == serial[attempt[1]] = attempt[2]

Discard ==
  /\ Answered /\ ~SameDevice
  /\ NewPass
  /\ UNCHANGED <<bus, plugged, opened, mtpSerial, stack, timer, list, calls>>

TriesLeft(n) == n < MaxFailures

Fail ==
  /\ Answered /\ SameDevice
  /\ LET k == attempt[1] IN
     /\ failures' = [failures EXCEPT ![k] = @ + 1]
     /\ IF TriesLeft(failures[k] + 1)
          THEN settled' = [settled EXCEPT ![k] = FALSE] /\ UNCHANGED done
          ELSE done' = [done EXCEPT ![k] = "failed"] /\ UNCHANGED settled
  /\ NewPass
  /\ UNCHANGED <<bus, serial, opened, mtpSerial, stack, timer, list, calls>>

\* A device without a GarminDevice.xml.
Empty ==
  /\ Answered /\ SameDevice
  /\ done' = [done EXCEPT ![attempt[1]] = "empty"]
  /\ NewPass
  /\ UNCHANGED <<bus, serial, settled, failures, opened, mtpSerial, stack, timer, list, calls>>

Success ==
  /\ Answered /\ SameDevice
  /\ done' = [done EXCEPT ![attempt[1]] = "opened"]
  /\ opened' = [opened EXCEPT ![attempt[1]] = attempt[2]]
  /\ items' = items \cup {attempt}
  /\ step' = "build"
  /\ UNCHANGED <<bus, serial, settled, failures, mtpSerial, stack, toClose, attempt, due,
                 again, timer, removals, calls>>

\* The item has read its device.
Built ==
  /\ InUpdate /\ step = "build"
  /\ NewPass
  /\ UNCHANGED <<bus, plugged, opened, mtpSerial, stack, timer, list, calls>>

-----------------------------------------------------------------------------
(* Events on the GUI thread: every step above has a local event loop. *)

\* slotUsbDeviceAdded(); the enumeration and a hotplug event may report a device both.
Added(k) ==
  IF serial[k] # 0 THEN UNCHANGED <<plugged, mtpSerial, pass>>
  ELSE /\ mtpSerial' = mtpSerial + 1
       /\ serial' = [serial EXCEPT ![k] = mtpSerial + 1]
       /\ settled' = [settled EXCEPT ![k] = FALSE]
       /\ failures' = [failures EXCEPT ![k] = 0]
       /\ done' = [done EXCEPT ![k] = "no"]
       /\ SlotUpdateMtp

\* slotUsbDeviceRemoved()
Removed(k) ==
  /\ serial' = [serial EXCEPT ![k] = 0]
  /\ done' = [done EXCEPT ![k] = "no"]
  /\ UNCHANGED <<settled, failures, mtpSerial>>
  /\ SlotUpdateMtp

Deliver ==
  /\ events # <<>> /\ events' = Tail(events)
  /\ IF Head(events)[1] = "added" THEN Added(Head(events)[2]) ELSE Removed(Head(events)[2])
  /\ UNCHANGED <<inPort, plugs, opened, timer, list, calls>>

TimerFires ==
  /\ timer /\ timer' = FALSE
  /\ SlotUpdateMtp
  /\ UNCHANGED <<bus, plugged, opened, mtpSerial, list, calls>>

RetryFires(k) ==
  /\ removals[k] > 0
  /\ RemoveDevice(k, [removals EXCEPT ![k] = @ - 1])
  /\ UNCHANGED <<bus, plugged, opened, mtpSerial, pass, timer, calls>>

\* A call into a device, which waits for it or for the answer to a message box.
StartCall(kind, i) ==
  /\ i \in items /\ ~(step = "build" /\ attempt = i) /\ calls < MaxCalls
  /\ stack' = Append(stack, <<kind, i>>) /\ calls' = calls + 1
  /\ UNCHANGED <<bus, plugged, opened, mtpSerial, step, toClose, attempt, due, again, timer, list>>

EndCall ==
  /\ stack # <<>> /\ Top # Update
  /\ stack' = Pop
  /\ UNCHANGED <<bus, plugged, opened, mtpSerial, step, toClose, attempt, due, again, timer,
                 list, calls>>

-----------------------------------------------------------------------------
(* The bus, and time. *)
Plug(k) ==
  /\ k \notin inPort /\ plugs < MaxPlugs
  /\ inPort' = inPort \cup {k} /\ plugs' = plugs + 1
  /\ \E reports \in {<<<<"added", k>>>>, <<<<"added", k>>, <<"added", k>>>>} :
       events' = events \o reports
  /\ UNCHANGED <<plugged, opened, mtpSerial, pass, timer, list, calls>>

Unplug(k) ==
  /\ k \in inPort
  /\ inPort' = inPort \ {k} /\ events' = Append(events, <<"removed", k>>)
  /\ UNCHANGED <<plugs, plugged, opened, mtpSerial, pass, timer, list, calls>>

Expire(k) ==
  /\ serial[k] # 0 /\ ~settled[k]
  /\ settled' = [settled EXCEPT ![k] = TRUE]
  /\ UNCHANGED <<bus, serial, failures, done, opened, mtpSerial, pass, timer, list, calls>>

-----------------------------------------------------------------------------
Init ==
  /\ inPort = {} /\ plugs = 0 /\ events = <<>>
  /\ serial = [k \in Keys |-> 0] /\ settled = [k \in Keys |-> FALSE]
  /\ failures = [k \in Keys |-> 0] /\ done = [k \in Keys |-> "no"]
  /\ opened = [k \in Keys |-> 0] /\ mtpSerial = 0
  /\ stack = <<>> /\ step = "none" /\ toClose = {} /\ attempt = NoAttempt /\ due = FALSE
  /\ again = FALSE /\ timer = FALSE
  /\ items = {} /\ removals = [k \in Keys |-> 0] /\ calls = 0

PassStep == (\E k \in Keys : Close(k) \/ Open(k)) \/ EndPass

Answer == Discard \/ Fail \/ Empty \/ Success

Next ==
  \/ PassStep \/ Answer \/ Built \/ Deliver \/ TimerFires \/ EndCall
  \/ \E k \in Keys : Plug(k) \/ Unplug(k) \/ Expire(k) \/ RetryFires(k)
  \/ \E kind \in {"device", "dialog"}, i \in Items : StartCall(kind, i)

Spec == Init /\ [][Next]_vars

\* A pass goes on, calls into devices end, deadlines pass, and an event loop that
\* is reached again and again delivers events and timers.  Nobody has to plug.
UpdateGoesOn == PassStep \/ Answer \/ Built
Expires      == \E k \in Keys : Expire(k)
Retries      == \E k \in Keys : RetryFires(k)

Fairness ==
  /\ WF_vars(UpdateGoesOn) /\ WF_vars(Deliver) /\ WF_vars(Expires)
  /\ SF_vars(EndCall) /\ SF_vars(TimerFires) /\ SF_vars(Retries)

FairSpec == Spec /\ Fairness

-----------------------------------------------------------------------------
(* Properties. *)

\* When no pass runs and none is due, nothing is left to do: every device
\* plugged in is open or given up, and every open one is plugged in.
\* (updateMtpAgain, the busy device's 1000 ms and the deadlines together)
NothingForgotten ==
  ~Updating /\ ~timer => Waiting = {} /\ \A k \in Keys : opened[k] # 0 => Current(k)

\* An open device has its item: no retry meant for an earlier device at the
\* same address takes it.
OpenedIsShown == \A k \in Keys : opened[k] # 0 => <<k, opened[k]>> \in items

\* Every other item has one removal to come, so none stays and none is left over.
RetriesMatchItems ==
  \A k \in Keys : Cardinality({i \in items : i[1] = k /\ i[2] # opened[k]}) = removals[k]

\* A device counts as opened only by its own attempt, never by the one of the
\* device that was at the address when the attempt began.
DoneIsOpened == \A k \in Keys : done[k] = "opened" => opened[k] = serial[k]

\* An item is in use while a call into it runs, and while it reads its device.
Called == {stack[n][2] : n \in {m \in DOMAIN stack : stack[m] # Update}}
InUse  == Called \cup (IF step = "build" THEN {attempt} ELSE {})
Life   == INSTANCE DeviceLife WITH
            Ports <- Keys, device <- serial, last <- mtpSerial, shown <- items, inUse <- InUse,
            running <- TRUE

\* What DeviceLife promises: the pass, the retries and the calls remove the items
\* of devices that are gone or were replaced, and never one that is in use or
\* still reads its device.
WatchImplements == Life!Spec

\* A device that stays plugged in is opened or given up.
DevicesServed ==
  \A k \in Keys, s \in Serials :
    serial[k] = s ~> serial[k] # s \/ opened[k] = s \/ done[k] \in {"empty", "failed"}

\* The item of a device that is gone, or was replaced at its address, goes.
GoneIsRemoved ==
  \A i \in Items : i \in items /\ serial[i[1]] # i[2] ~> i \notin items
=============================================================================
