------------------------- MODULE UsbWatchLifeProofs -------------------------
(***************************************************************************)
(* The watcher implements DeviceLife, for any addresses, plugs, failures   *)
(* and calls.                                                              *)
(***************************************************************************)
EXTENDS UsbWatchProofs

-----------------------------------------------------------------------------
(***************************************************************************)
(* The inductive invariant.                                                *)
(***************************************************************************)
StackType == stack \in Seq(Frames)

\* The item that reads its device is the one of an open device.
BuildInv == step = "build" => opened[attempt[1]] = attempt[2]

LifeInv == IInv /\ StackType /\ BuildInv

LEMMA BuiltIsShown ==
  ASSUME LifeInv, step = "build"
  PROVE  attempt \in items
<1>1. attempt[1] \in Keys /\ attempt[2] # 0 /\ attempt = <<attempt[1], attempt[2]>>
  BY DEF LifeInv, IInv, Types, Positive
<1> QED
  BY <1>1 DEF LifeInv, IInv, BuildInv, OpenedIsShown

-----------------------------------------------------------------------------
(***************************************************************************)
(* The calls on the stack.                                                 *)
(***************************************************************************)
LEMMA FrameParts ==
  ASSUME NEW f \in Frames, f # Update
  PROVE  f \in {<<"device", f[2]>>, <<"dialog", f[2]>>} /\ f[2] \in Items
BY DEF Frames

LEMMA PushCall ==
  ASSUME StackType, NEW f, stack' = Append(stack, f)
  PROVE  Called' = IF f = Update THEN Called ELSE Called \cup {f[2]}
<1>1. Len(stack) \in Nat /\ DOMAIN stack = 1 .. Len(stack)
  BY LenProperties DEF StackType
<1>2. DOMAIN stack' = 1 .. Len(stack) + 1
  BY <1>1 DEF StackType
<1>3. stack'[Len(stack) + 1] = f /\ \A n \in DOMAIN stack : stack'[n] = stack[n]
  BY <1>1 DEF StackType
<1>4. \A n \in DOMAIN stack' : n \in DOMAIN stack \/ n = Len(stack) + 1
  BY <1>1, <1>2
<1>5. DOMAIN stack \subseteq DOMAIN stack' /\ Len(stack) + 1 \in DOMAIN stack'
  BY <1>1, <1>2
<1> QED
  BY <1>3, <1>4, <1>5 DEF Called

LEMMA PopCall ==
  ASSUME StackType, stack # <<>>, stack' = Pop
  PROVE  /\ stack' \in Seq(Frames) /\ Top \in Frames
         /\ Called = IF Top = Update THEN Called' ELSE Called' \cup {Top[2]}
<1>1. /\ Len(stack) \in Nat /\ DOMAIN stack = 1 .. Len(stack) /\ Len(stack) >= 1
      /\ \A n \in DOMAIN stack : stack[n] \in Frames
  BY LenProperties, EmptySeq, ElementOfSeq DEF StackType
<1>2. stack' = [n \in 1 .. Len(stack) - 1 |-> stack[n]]
  BY <1>1 DEF Pop
<1>3. stack' \in Seq(Frames) /\ DOMAIN stack' = 1 .. Len(stack) - 1
  <2>1. stack' \in [1 .. Len(stack) - 1 -> Frames] /\ Len(stack) - 1 \in Nat
    BY <1>1, <1>2
  <2> QED
    BY <2>1
<1>4. \A n \in DOMAIN stack' : n \in DOMAIN stack /\ stack'[n] = stack[n]
  BY <1>1, <1>2, <1>3
<1>5. Len(stack) \in DOMAIN stack /\ \A n \in DOMAIN stack : n \in DOMAIN stack' \/ n = Len(stack)
  BY <1>1, <1>3
<1>6. Called = IF Top = Update THEN Called' ELSE Called' \cup {Top[2]}
  BY <1>4, <1>5 DEF Called, Top
<1> QED
  BY <1>1, <1>3, <1>5, <1>6 DEF Top

\* An item on the stack is in a call.
LEMMA CalledIsInCall ==
  ASSUME StackType, NEW i \in Called
  PROVE  InCall(i) /\ i \in Items
<1>1. PICK n \in DOMAIN stack : stack[n] # Update /\ i = stack[n][2]
  BY DEF Called
<1>2. stack[n] \in Frames
  BY <1>1, ElementOfSeq, LenProperties DEF StackType
<1> QED
  BY <1>1, <1>2, FrameParts DEF InCall

LEMMA SameUse ==
  ASSUME Called' = Called, step' = step \/ {step, step'} \cap {"build"} = {},
         step = "build" => attempt' = attempt
  PROVE  InUse' = InUse
BY DEF InUse

\* slotUpdateMtp() calls into no device.
LEMMA SlotUses ==
  ASSUME StackType, SlotUpdateMtp
  PROVE  StackType' /\ InUse' = InUse /\ (step' = "build" => step = "build" /\ attempt' = attempt)
<1>1. CASE Updating
  <2>1. UNCHANGED <<stack, step, attempt>>
    BY <1>1 DEF SlotUpdateMtp
  <2> QED
    BY <2>1 DEF StackType, InUse, Called
<1>2. CASE ~Updating
  <2>1. step = "none" /\ step' = "close" /\ stack' = Append(stack, Update)
    BY <1>2 DEF SlotUpdateMtp, NewPass, Updating
  <2>2. Called' = Called
    BY <2>1, PushCall
  <2>3. StackType'
    BY <2>1, AppendProperties DEF StackType, Frames
  <2> QED
    BY <2>1, <2>2, <2>3, SameUse
<1> QED
  BY <1>1, <1>2

-----------------------------------------------------------------------------
(***************************************************************************)
(* Who is removed: the oldest item of an address whose device is gone.     *)
(***************************************************************************)
LEMMA RemovedItem ==
  ASSUME LifeInv, NEW k \in Keys, NEW left, RemoveDevice(k, left)
  PROVE  \/ items' = items
         \/ \E i \in items : i[1] = k /\ ~InCall(i) /\ items' = items \ {i}
<1>1. Types
  BY DEF LifeInv, IInv
<1>2. CASE OfKey(k) = {}
  <2>1. Matches(k) = {}
    BY <1>2 DEF Matches, OfKey
  <2> QED
    BY <2>1 DEF RemoveDevice
<1>3. CASE OfKey(k) # {}
  <2>1. PICK i \in OfKey(k) : Matches(k) = {i}
    BY <1>1, <1>3, OneMatches
  <2> QED
    BY <2>1 DEF RemoveDevice, OfKey
<1> QED
  BY <1>2, <1>3

\* An item that is not the open one is no item of a device plugged in.
LEMMA OtherIsStale ==
  ASSUME LifeInv, NEW i \in items, i[2] # opened[i[1]] \/ ~Current(i[1])
  PROVE  Life!Stale(i)
<1>1. i[1] \in Keys /\ i[2] # 0
  BY ItemParts DEF LifeInv, IInv
<1> QED
  BY <1>1 DEF LifeInv, IInv, SerialInv, DoneIsOpened, Current, Life!Stale

LEMMA RemoveLife ==
  ASSUME LifeInv, NEW i \in items, items' = items \ {i}, ~InCall(i), i \notin InUse \ Called,
         i[2] # opened[i[1]] \/ ~Current(i[1]),
         InUse' = InUse, UNCHANGED <<serial, mtpSerial>>
  PROVE  Life!Next
<1>1. i \notin InUse
  BY CalledIsInCall DEF LifeInv
<1>2. Life!Remove(i)
  BY <1>1, OtherIsStale DEF Life!Remove
<1> QED
  BY <1>2 DEF Life!Next

LEMMA CloseLife ==
  ASSUME LifeInv, NEW k \in Keys, Close(k)
  PROVE  StackType' /\ BuildInv' /\ [Life!Next]_(Life!vars)
<1>1. step = "close" /\ UNCHANGED <<stack, step, attempt, serial, mtpSerial>>
  BY DEF Close, plugged
<1>2. StackType' /\ BuildInv' /\ InUse' = InUse /\ InUse \ Called = {}
  BY <1>1 DEF LifeInv, StackType, BuildInv, InUse, Called
<1>3. CASE UNCHANGED items
  BY <1>1, <1>2, <1>3 DEF Life!vars
<1>4. CASE ~Current(k) /\ RemoveDevice(k, removals)
  <2>1. ASSUME NEW i \in items, i[1] = k, ~InCall(i), items' = items \ {i}
        PROVE  Life!Next
    BY <1>1, <1>2, <1>4, <2>1, RemoveLife
  <2> QED
    BY <1>2, <1>3, <1>4, <2>1, RemovedItem
<1> QED
  BY <1>2, <1>3, <1>4 DEF Close, list

LEMMA RetryLife ==
  ASSUME LifeInv, OpenedIsShown', NEW k \in Keys, RetryFires(k)
  PROVE  StackType' /\ BuildInv' /\ [Life!Next]_(Life!vars)
<1>1. UNCHANGED <<stack, step, attempt, serial, mtpSerial, opened>>
  BY DEF RetryFires, plugged, pass
<1>2. StackType' /\ BuildInv' /\ InUse' = InUse
  BY <1>1 DEF LifeInv, StackType, BuildInv, InUse, Called
<1>3. CASE UNCHANGED items
  BY <1>1, <1>2, <1>3 DEF Life!vars
<1>4. ASSUME NEW i \in items, i[1] = k, ~InCall(i), items' = items \ {i}
      PROVE  Life!Next
  <2>1. i = <<k, i[2]>> /\ i[2] # 0
    BY <1>4, ItemParts DEF LifeInv, IInv
  <2>2. i[2] # opened[k]
    BY <1>1, <1>4, <2>1 DEF OpenedIsShown
  <2>3. step = "build" => i # attempt
    BY <1>4, <2>2 DEF LifeInv, BuildInv
  <2> QED
    BY <1>1, <1>2, <1>4, <2>2, <2>3, RemoveLife DEF InUse
<1>5. RemoveDevice(k, [removals EXCEPT ![k] = @ - 1])
  BY DEF RetryFires
<1> QED
  BY <1>2, <1>3, <1>4, <1>5, RemovedItem

-----------------------------------------------------------------------------
(***************************************************************************)
(* The other steps.                                                        *)
(***************************************************************************)
LEMMA DeliverLife ==
  ASSUME LifeInv, Deliver
  PROVE  StackType' /\ BuildInv' /\ [Life!Next]_(Life!vars)
<1> DEFINE k == Head(events)[2]
<1>1. Types /\ StackType /\ BuildInv
  BY DEF LifeInv, IInv
<1>2. k \in Keys
  BY <1>1, HeadTailProperties DEF Deliver, Types
<1>3. UNCHANGED <<opened, items>> /\ (Added(k) \/ Removed(k))
  BY DEF Deliver, list
<1> HIDE DEF k
<1>4. CASE SlotUpdateMtp
  <2>1. StackType' /\ InUse' = InUse /\ BuildInv'
    BY <1>1, <1>3, <1>4, SlotUses DEF BuildInv
  <2>2. CASE Added(k) /\ serial[k] = 0
    <3>1. Life!Plug(k)
      BY <1>3, <2>1, <2>2 DEF Added, Life!Plug
    <3> QED
      BY <1>2, <2>1, <3>1 DEF Life!Next
  <2>3. CASE Removed(k) /\ serial[k] # 0
    <3>1. Life!Unplug(k)
      BY <1>3, <2>1, <2>3 DEF Removed, Life!Unplug
    <3> QED
      BY <1>2, <2>1, <3>1 DEF Life!Next
  <2>4. CASE Removed(k) /\ serial[k] = 0
    <3>1. UNCHANGED <<serial, mtpSerial>>
      BY <1>1, <2>4 DEF Removed, Types
    <3> QED
      BY <1>3, <2>1, <3>1 DEF Life!vars
  <2>5. CASE Added(k) /\ serial[k] # 0
    BY <1>3, <2>1, <2>5 DEF Added, plugged, Life!vars
  <2> QED
    BY <1>3, <2>2, <2>3, <2>4, <2>5
<1>5. CASE ~SlotUpdateMtp
  <2>1. UNCHANGED <<plugged, mtpSerial, pass>>
    BY <1>3, <1>5 DEF Added, Removed
  <2> QED
    BY <1>1, <1>3, <2>1 DEF plugged, pass, StackType, BuildInv, InUse, Called, Life!vars
<1> QED
  BY <1>4, <1>5

LEMMA CallLife ==
  ASSUME LifeInv, EndCall \/ \E kind \in {"device", "dialog"}, i \in Items : StartCall(kind, i)
  PROVE  StackType' /\ BuildInv' /\ [Life!Next]_(Life!vars)
<1>1. StackType /\ BuildInv
  BY DEF LifeInv
<1>2. UNCHANGED <<serial, mtpSerial, items, opened, step, attempt>>
  BY DEF EndCall, StartCall, plugged, list
<1>3. BuildInv'
  BY <1>1, <1>2 DEF BuildInv
<1>4. CASE EndCall
  <2>1. stack # <<>> /\ Top # Update /\ stack' = Pop
    BY <1>4 DEF EndCall
  <2>2. StackType' /\ Called = Called' \cup {Top[2]}
    BY <1>1, <2>1, PopCall DEF StackType
  <2>3. InUse = InUse' \cup {Top[2]}
    BY <1>2, <2>2 DEF InUse
  <2>4. CASE Top[2] \in InUse'
    BY <1>2, <1>3, <2>2, <2>3, <2>4 DEF Life!vars
  <2>5. CASE Top[2] \notin InUse'
    <3>1. Top[2] \in InUse /\ InUse' = InUse \ {Top[2]}
      BY <2>3, <2>5
    <3>2. Life!Free(Top[2])
      BY <1>2, <3>1 DEF Life!Free
    <3> QED
      BY <1>3, <2>2, <3>1, <3>2 DEF Life!Next
  <2> QED
    BY <2>4, <2>5
<1>5. ASSUME NEW kind \in {"device", "dialog"}, NEW i \in Items, StartCall(kind, i)
      PROVE  StackType' /\ BuildInv' /\ [Life!Next]_(Life!vars)
  <2>1. i \in items /\ stack' = Append(stack, <<kind, i>>) /\ <<kind, i>> \in Frames
    BY <1>5 DEF StartCall, Frames
  <2>2. StackType'
    BY <1>1, <2>1, AppendProperties DEF StackType
  <2>3. Called' = Called \/ Called' = Called \cup {i}
    BY <1>1, <2>1, PushCall
  <2>4. InUse' = InUse \/ InUse' = InUse \cup {i}
    BY <1>2, <2>3 DEF InUse
  <2>5. CASE InUse' = InUse
    BY <1>2, <1>3, <2>2, <2>5 DEF Life!vars
  <2>6. CASE InUse' = InUse \cup {i}
    <3>1. Life!Use(i)
      BY <1>2, <2>1, <2>6 DEF Life!Use
    <3> QED
      BY <1>3, <2>1, <2>2, <3>1 DEF Life!Next
  <2> QED
    BY <2>4, <2>5, <2>6
<1> QED
  BY <1>4, <1>5

\* The steps of the pass that begin or end the work of an attempt.
LEMMA SuccessLife ==
  ASSUME LifeInv, Success
  PROVE  StackType' /\ BuildInv' /\ [Life!Next]_(Life!vars)
<1>1. Types /\ StackType /\ OpenInv
  BY DEF LifeInv, IInv
<1>2. /\ step = "open" /\ step' = "build" /\ serial[attempt[1]] = attempt[2]
      /\ opened' = [opened EXCEPT ![attempt[1]] = attempt[2]] /\ items' = items \cup {attempt}
      /\ UNCHANGED <<serial, mtpSerial, stack, attempt>>
  BY DEF Success, Answered, SameDevice
<1>3. attempt[1] \in Keys /\ attempt[2] \in Nat /\ attempt[2] # 0
      /\ attempt = <<attempt[1], attempt[2]>>
  BY <1>1, <1>2 DEF Types, Positive
<1>4. attempt \notin items
  BY <1>1, <1>2, <1>3 DEF OpenInv
<1>5. StackType' /\ Called' = Called /\ InUse' = InUse \cup {attempt}
  BY <1>1, <1>2 DEF StackType, Called, InUse
<1>6. BuildInv'
  BY <1>1, <1>2, <1>3 DEF BuildInv, Types
<1>7. Life!Appear(attempt[1])
  BY <1>2, <1>3, <1>4, <1>5 DEF Life!Appear, Life!Show
<1> QED
  BY <1>3, <1>5, <1>6, <1>7 DEF Life!Next

LEMMA PassLife ==
  ASSUME LifeInv, EndPass \/ Discard \/ Fail \/ Empty \/ Built \/ TimerFires \/ \E k \in Keys : Open(k)
  PROVE  StackType' /\ BuildInv' /\ [Life!Next]_(Life!vars)
<1>1. StackType
  BY DEF LifeInv
<1>2. UNCHANGED <<serial, mtpSerial, items, opened>>
  BY DEF EndPass, Discard, Fail, Empty, Built, TimerFires, Open, plugged, list
<1>3. CASE Built
  <2>1. step = "build" /\ step' = "close" /\ UNCHANGED stack
    BY <1>3 DEF Built, NewPass
  <2>2. StackType' /\ BuildInv' /\ Called' = Called /\ InUse' = Called /\ InUse = Called \cup {attempt}
    BY <1>1, <2>1 DEF StackType, BuildInv, Called, InUse
  <2>3. CASE attempt \in Called
    BY <1>2, <2>2, <2>3 DEF Life!vars
  <2>4. CASE attempt \notin Called
    <3>1. attempt \in InUse /\ Life!Free(attempt)
      BY <1>2, <2>2, <2>4 DEF Life!Free
    <3> QED
      BY <2>2, <3>1 DEF Life!Next
  <2> QED
    BY <2>3, <2>4
<1>4. CASE TimerFires
  <2>1. StackType' /\ InUse' = InUse /\ (step' = "build" => step = "build" /\ attempt' = attempt)
    BY <1>1, <1>4, SlotUses DEF TimerFires
  <2> QED
    BY <1>2, <2>1 DEF LifeInv, BuildInv, Life!vars
<1>5. CASE EndPass \/ Discard \/ Fail \/ Empty \/ \E k \in Keys : Open(k)
  <2>1. step # "build" /\ step' # "build"
    BY <1>5 DEF EndPass, Discard, Fail, Empty, Open, Answered, NewPass
  <2>2. StackType' /\ Called' = Called
    <3>1. CASE UNCHANGED stack
      BY <1>1, <3>1 DEF StackType, Called
    <3>2. CASE EndPass /\ stack' = Pop
      <4>1. stack # <<>> /\ Top = Update
        BY <3>2 DEF EndPass, InUpdate
      <4> QED
        BY <1>1, <3>2, <4>1, PopCall DEF StackType
    <3> QED
      BY <1>5, <3>1, <3>2 DEF EndPass, Discard, Fail, Empty, Open
  <2>3. InUse' = InUse /\ BuildInv'
    BY <2>1, <2>2, SameUse DEF BuildInv
  <2> QED
    BY <1>2, <2>2, <2>3 DEF Life!vars
<1> QED
  BY <1>3, <1>4, <1>5

LEMMA QuietLife ==
  ASSUME LifeInv, UNCHANGED vars \/ \E k \in Keys : Plug(k) \/ Unplug(k) \/ Expire(k)
  PROVE  StackType' /\ BuildInv' /\ [Life!Next]_(Life!vars)
<1>1. UNCHANGED <<serial, mtpSerial, items, opened, stack, step, attempt>>
  BY DEF Plug, Unplug, Expire, vars, plugged, list, pass
<1> QED
  BY <1>1 DEF LifeInv, StackType, BuildInv, InUse, Called, Life!vars

LEMMA LifeStep ==
  ASSUME LifeInv, [Next]_vars
  PROVE  LifeInv' /\ [Life!Next]_(Life!vars)
<1>1. IInv'
  BY StepInv DEF LifeInv
<1>2. OpenedIsShown'
  BY <1>1 DEF IInv
<1> QED
  BY <1>1, <1>2, CloseLife, RetryLife, DeliverLife, CallLife, SuccessLife, PassLife, QuietLife
     DEF Next, PassStep, Answer, LifeInv

-----------------------------------------------------------------------------
\* Passes, retries and calls of the watcher do what DeviceLife promises: an item
\* is removed only when its device is gone or was replaced, and never while a call
\* into it runs or while it still reads its device.
THEOREM WatcherImplementsDeviceLife == Spec => WatchImplements
<1>1. Init => LifeInv /\ Life!Init
  <2> SUFFICES ASSUME Init PROVE LifeInv /\ Life!Init
    OBVIOUS
  <2>1. LifeInv
    BY InitInv, EmptySeq DEF Init, LifeInv, StackType, BuildInv
  <2>2. InUse = {}
    BY DEF Init, InUse, Called
  <2> QED
    BY <2>1, <2>2 DEF Init, Life!Init
<1>2. LifeInv /\ [Next]_vars => LifeInv' /\ [Life!Next]_(Life!vars)
  BY LifeStep
<1> QED
  BY <1>1, <1>2, PTL DEF Spec, WatchImplements, Life!Spec
=============================================================================
