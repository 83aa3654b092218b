--------------------------- MODULE UsbWatchProofs ---------------------------
(***************************************************************************)
(* Proofs about UsbWatch, for any addresses, plugs, failures and calls.    *)
(***************************************************************************)
EXTENDS UsbWatch, TLAPS, FiniteSetTheorems, SequenceTheorems, WellFoundedInduction

-----------------------------------------------------------------------------
(***************************************************************************)
(* The inductive invariant.                                                *)
(***************************************************************************)
Positive == Nat \ {0}

Types ==
  /\ events \in Seq({"added", "removed"} \X Keys) /\ mtpSerial \in Nat
  /\ serial \in [Keys -> Nat] /\ opened \in [Keys -> Nat]
  /\ done \in [Keys -> {"no", "opened", "empty", "failed"}]
  /\ step \in {"none", "close", "open", "build"} /\ toClose \subseteq Keys
  /\ step \in {"open", "build"} => attempt \in Keys \X Positive
  /\ due \in BOOLEAN /\ again \in BOOLEAN /\ timer \in BOOLEAN
  /\ items \subseteq Keys \X Positive /\ removals \in [Keys -> Nat]

\* Serials grow, so the item of an address that came last is the newest one, and
\* a device that waits has no item yet.
SerialInv ==
  /\ \A k \in Keys : serial[k] <= mtpSerial
  /\ \A i \in items :
       /\ i[2] <= mtpSerial
       /\ serial[i[1]] # 0 => i[2] <= serial[i[1]]
       /\ i[2] = serial[i[1]] => done[i[1]] = "opened"
       /\ opened[i[1]] # 0 => i[2] <= opened[i[1]]

\* A pass that ends without being asked again has looked at every open device.
PassInv ==
  /\ \A k \in toClose : opened[k] # 0
  /\ step = "close" /\ ~again =>
       \A k \in Keys : opened[k] # 0 /\ k \notin toClose => Current(k) \/ due

\* While a device is being opened its address has older items only, none of them open.
OpenInv ==
  step = "open" =>
    /\ toClose = {} /\ opened[attempt[1]] = 0 /\ attempt[2] <= mtpSerial
    /\ \A i \in items : i[1] = attempt[1] => i[2] < attempt[2]

IInv ==
  /\ Types /\ SerialInv /\ PassInv /\ OpenInv
  /\ NothingForgotten /\ OpenedIsShown /\ RetriesMatchItems /\ DoneIsOpened

-----------------------------------------------------------------------------
(***************************************************************************)
(* The oldest item of an address.                                          *)
(***************************************************************************)
LEMMA SmallestOf ==
  ASSUME NEW S \in SUBSET Nat, S # {}
  PROVE  \E n \in S : \A m \in S : n <= m
<1> DEFINE R == OpToRel(<, Nat)
<1>1. IsWellFoundedOn(R, Nat)
  BY NatLessThanWellFounded
<1>2. \A m, n \in Nat : ~(<<m, n>> \in R) => n <= m
  BY SMT DEF OpToRel
<1>3. PICK n \in S : \A m \in S : ~(<<m, n>> \in R)
  <2> HIDE DEF R
  <2> QED
    BY <1>1, WFMin
<1> HIDE DEF R
<1> QED
  BY <1>2, <1>3

OfKey(k)  == {i \in items : i[1] = k}
Others(k) == {i \in items : i[1] = k /\ i[2] # opened[k]}

LEMMA ItemParts ==
  ASSUME Types, NEW i \in items
  PROVE  i[1] \in Keys /\ i[2] \in Nat /\ i[2] # 0 /\ i = <<i[1], i[2]>>
BY DEF Types, Positive

\* removeDevice() finds exactly one item, if the address has any.
LEMMA OneMatches ==
  ASSUME Types, NEW k \in Keys, OfKey(k) # {}
  PROVE  \E i \in OfKey(k) : Matches(k) = {i}
<1> DEFINE S == {n \in Nat : <<k, n>> \in items}
<1>1. S \in SUBSET Nat /\ \A i \in OfKey(k) : i[2] \in S /\ i = <<k, i[2]>>
  BY ItemParts DEF OfKey
<1>2. S # {}
  BY <1>1
<1>3. PICK n \in S : \A m \in S : n <= m
  <2> HIDE DEF S
  <2> QED
    BY <1>1, <1>2, SmallestOf
<1>4. <<k, n>> \in items /\ n \in Nat /\ <<k, n>> \in OfKey(k)
  BY <1>3 DEF OfKey
<1>5. Oldest(<<k, n>>)
  BY <1>1, <1>3 DEF Oldest, OfKey
<1>6. ASSUME NEW i \in Matches(k)
      PROVE  i = <<k, n>>
  <2>1. i \in OfKey(k) /\ Oldest(i)
    BY <1>6 DEF Matches, OfKey
  <2>2. i[2] <= n /\ n <= i[2] /\ i[2] \in Nat /\ i = <<k, i[2]>>
    BY <1>1, <1>3, <1>4, <2>1 DEF Oldest, OfKey
  <2> QED
    BY <1>4, <2>2
<1>7. <<k, n>> \in Matches(k)
  BY <1>4, <1>5 DEF Matches
<1> QED
  BY <1>4, <1>6, <1>7

LEMMA OfKeyIsFinite ==
  ASSUME Types, SerialInv, NEW k \in Keys
  PROVE  /\ IsFiniteSet(OfKey(k)) /\ Cardinality(OfKey(k)) \in Nat
         /\ IsFiniteSet(Others(k)) /\ Cardinality(Others(k)) \in Nat
<1> DEFINE All == {k} \X (1 .. mtpSerial)
<1>1. IsFiniteSet(All)
  <2>1. IsFiniteSet(1 .. mtpSerial)
    BY FS_Interval DEF Types
  <2>2. IsFiniteSet({k})
    BY FS_Singleton
  <2> QED
    BY <2>1, <2>2, FS_Product
<1>2. OfKey(k) \subseteq All
  <2> SUFFICES ASSUME NEW i \in items, i[1] = k PROVE i \in All
    BY DEF OfKey
  <2>1. i = <<k, i[2]>> /\ i[2] \in 1 .. mtpSerial
    BY ItemParts DEF SerialInv, Types
  <2> QED
    BY <2>1
<1>3. Others(k) \subseteq OfKey(k)
  BY DEF OfKey, Others
<1> HIDE DEF All
<1>4. IsFiniteSet(OfKey(k))
  BY <1>1, <1>2, FS_Subset
<1>5. IsFiniteSet(Others(k))
  BY <1>3, <1>4, FS_Subset
<1> QED
  BY <1>4, <1>5, FS_CardinalityType

LEMMA CountOthers ==
  /\ RetriesMatchItems <=> \A k \in Keys : Cardinality(Others(k)) = removals[k]
  /\ RetriesMatchItems' <=> \A k \in Keys : Cardinality(Others(k)') = removals'[k]
BY DEF RetriesMatchItems, Others

\* A call of removeDevice() for one item too many takes one, or is counted.
LEMMA RemoveDeviceCounts ==
  ASSUME Types, SerialInv, NEW k \in Keys, NEW left \in [Keys -> Nat], RemoveDevice(k, left),
         Cardinality(OfKey(k)) \in Nat, OfKey(k) # {}
  PROVE  /\ items' \subseteq items /\ \A i \in items : i[1] # k => i \in items'
         /\ removals' \in [Keys -> Nat] /\ \A j \in Keys : j # k => removals'[j] = left[j]
         /\ \/ items' = items /\ removals'[k] = left[k] + 1
            \/ \E i \in OfKey(k) : /\ Oldest(i) /\ items' = items \ {i}
                                   /\ OfKey(k)' = OfKey(k) \ {i} /\ removals'[k] = left[k]
<1>1. PICK i \in OfKey(k) : Matches(k) = {i}
  BY OneMatches
<1>2. i \in items /\ i[1] = k /\ Oldest(i)
  BY <1>1 DEF OfKey, Matches
<1>3. CASE \E j \in Matches(k) : InCall(j)
  <2>1. removals' = [left EXCEPT ![k] = @ + 1] /\ items' = items
    BY <1>3 DEF RemoveDevice, Retry
  <2> QED
    BY <2>1
<1>4. CASE ~(\E j \in Matches(k) : InCall(j))
  <2>1. removals' = left /\ items' = items \ {i}
    BY <1>1, <1>4 DEF RemoveDevice
  <2>2. OfKey(k)' = OfKey(k) \ {i}
    BY <2>1 DEF OfKey
  <2> QED
    BY <1>1, <1>2, <2>1, <2>2
<1> QED
  BY <1>3, <1>4

-----------------------------------------------------------------------------
(***************************************************************************)
(* Steps that leave the devices, or the pass, as they are.                 *)
(***************************************************************************)
Calm     == UNCHANGED <<serial, opened, done, mtpSerial, items, removals>>
SamePass == UNCHANGED <<step, toClose, attempt, due, again, timer>>

DeviceInv == SerialInv /\ OpenedIsShown /\ RetriesMatchItems /\ DoneIsOpened
WatchInv  == PassInv /\ OpenInv /\ NothingForgotten

LEMMA CalmSteps ==
  ASSUME \/ \E k \in Keys : Open(k) \/ Plug(k) \/ Unplug(k) \/ Expire(k)
         \/ EndPass \/ Discard \/ Built \/ TimerFires \/ EndCall
         \/ \E kind \in {"device", "dialog"}, i \in Items : StartCall(kind, i)
         \/ UNCHANGED vars
  PROVE  Calm
BY DEF Open, Plug, Unplug, Expire, EndPass, Discard, Built, TimerFires, EndCall, StartCall, Calm,
       vars, bus, plugged, list

LEMMA SamePassSteps ==
  ASSUME \/ \E k \in Keys : Plug(k) \/ Unplug(k) \/ Expire(k) \/ RetryFires(k)
         \/ EndCall
         \/ \E kind \in {"device", "dialog"}, i \in Items : StartCall(kind, i)
         \/ UNCHANGED vars
  PROVE  SamePass
BY DEF Plug, Unplug, Expire, RetryFires, EndCall, StartCall, SamePass, vars, pass

LEMMA CalmKeeps ==
  ASSUME DeviceInv, Calm
  PROVE  DeviceInv'
<1>1. SerialInv' /\ OpenedIsShown' /\ DoneIsOpened'
  BY DEF DeviceInv, Calm, SerialInv, OpenedIsShown, DoneIsOpened
<1>2. RetriesMatchItems'
  BY DEF DeviceInv, Calm, RetriesMatchItems
<1> QED
  BY <1>1, <1>2 DEF DeviceInv

LEMMA SamePassKeeps ==
  ASSUME WatchInv, SamePass, UNCHANGED <<serial, opened, done, mtpSerial>>, items' \subseteq items
  PROVE  WatchInv'
BY DEF WatchInv, SamePass, PassInv, OpenInv, NothingForgotten, Updating, Waiting, Current

\* A new pass will look at every open device.
LEMMA NewPassInv ==
  ASSUME NewPass, UNCHANGED opened
  PROVE  WatchInv'
BY DEF NewPass, WatchInv, PassInv, OpenInv, NothingForgotten, Updating

\* slotUpdateMtp() begins a pass or has the one that runs begin again.
LEMMA SlotInv ==
  ASSUME WatchInv, SlotUpdateMtp, UNCHANGED <<opened, items>>, mtpSerial \in Nat,
         mtpSerial' \in {mtpSerial, mtpSerial + 1}, Types
  PROVE  WatchInv'
<1>1. CASE ~Updating
  BY <1>1, NewPassInv DEF SlotUpdateMtp
<1>2. CASE Updating
  <2>1. step # "none" /\ again' /\ UNCHANGED <<step, toClose, attempt>>
    BY <1>2 DEF SlotUpdateMtp, Updating, Again
  <2>2. PassInv' /\ NothingForgotten'
    BY <2>1 DEF WatchInv, PassInv, NothingForgotten, Updating
  <2>3. step = "open" => attempt[2] \in Nat
    BY DEF Types, Positive
  <2>4. OpenInv'
    BY <2>1, <2>3 DEF WatchInv, OpenInv
  <2> QED
    BY <2>2, <2>4 DEF WatchInv
<1> QED
  BY <1>1, <1>2

-----------------------------------------------------------------------------
(***************************************************************************)
(* The pass: nothing is forgotten.                                         *)
(***************************************************************************)
LEMMA WatchStep ==
  ASSUME IInv, [Next]_vars
  PROVE  WatchInv'
<1>1. Types /\ SerialInv /\ WatchInv
  BY DEF IInv, WatchInv
<1> USE <1>1
<1>2. ASSUME NEW k \in Keys, Close(k)
      PROVE  WatchInv'
  <2>1. /\ step = "close" /\ step' = "close" /\ toClose' = toClose \ {k} /\ k \in toClose
        /\ UNCHANGED <<serial, again>>
    BY <1>2 DEF Close, plugged
  <2>2. \A j \in Keys : j # k => opened'[j] = opened[j]
    BY <1>2 DEF Close, Types
  <2>3. due => due'
    BY <1>2 DEF Close
  <2>4. Current(k)' \/ due' \/ opened'[k] = 0
    <3>1. CASE Current(k)
      <4>1. UNCHANGED opened
        BY <1>2, <3>1 DEF Close
      <4> QED
        BY <2>1, <3>1, <4>1 DEF Current
    <3>2. CASE ~Current(k) /\ Busy(<<k, opened[k]>>)
      BY <1>2, <3>2 DEF Close
    <3>3. CASE ~Current(k) /\ ~Busy(<<k, opened[k]>>)
      BY <1>2, <3>3 DEF Close, Types
    <3> QED
      BY <3>1, <3>2, <3>3
  <2>5. \A j \in toClose' : opened'[j] # 0
    BY <2>1, <2>2 DEF WatchInv, PassInv, Types
  <2>6. ~again' => \A j \in Keys : opened'[j] # 0 /\ j \notin toClose' => Current(j)' \/ due'
    <3> SUFFICES ASSUME ~again', NEW j \in Keys, opened'[j] # 0, j \notin toClose'
                 PROVE  Current(j)' \/ due'
      OBVIOUS
    <3>1. CASE j = k
      BY <2>4, <3>1
    <3>2. CASE j # k
      <4>1. Current(j) \/ due
        BY <2>1, <2>2, <3>2 DEF WatchInv, PassInv
      <4> QED
        BY <2>1, <2>2, <2>3, <3>2, <4>1 DEF Current
    <3> QED
      BY <3>1, <3>2
  <2> QED
    BY <2>1, <2>5, <2>6 DEF WatchInv, PassInv, OpenInv, NothingForgotten, Updating
<1>3. ASSUME NEW k \in Keys, Open(k)
      PROVE  WatchInv'
  <2>1. /\ toClose = {} /\ step' = "open" /\ attempt' = <<k, serial[k]>>
        /\ UNCHANGED <<opened, serial, mtpSerial, items, toClose>>
    BY <1>3 DEF Open, plugged, list
  <2>2. serial[k] # 0 /\ done[k] = "no" /\ opened[k] = 0
    BY <1>3 DEF Open, Waiting
  <2>3. attempt'[1] = k /\ attempt'[2] = serial[k]
    BY <2>1
  <2>4. \A i \in items : i[1] = k => i[2] < serial[k]
    <3> SUFFICES ASSUME NEW i \in items, i[1] = k PROVE i[2] < serial[k]
      OBVIOUS
    <3>1. i[2] \in Nat /\ serial[k] \in Nat
      BY ItemParts DEF Types
    <3>2. i[2] <= serial[k] /\ i[2] # serial[k]
      BY <2>2 DEF SerialInv
    <3> QED
      BY <3>1, <3>2
  <2>5. OpenInv'
    BY <2>1, <2>2, <2>3, <2>4 DEF OpenInv, SerialInv
  <2>6. PassInv' /\ NothingForgotten'
    BY <2>1 DEF PassInv, NothingForgotten, Updating
  <2> QED
    BY <2>5, <2>6 DEF WatchInv
<1>4. CASE EndPass
  <2>1. UNCHANGED <<opened, serial, done>> /\ toClose = {} /\ step = "close"
    BY <1>4 DEF EndPass, plugged
  <2>2. CASE again
    BY <1>4, <2>1, <2>2, NewPassInv DEF EndPass
  <2>3. CASE ~again
    <3>1. step' = "none" /\ toClose' = {} /\ timer' = (due \/ Waiting # {})
      BY <1>4, <2>1, <2>3 DEF EndPass, NextIsDue
    <3>2. NothingForgotten'
      <4> SUFFICES ASSUME ~timer'
                   PROVE  Waiting' = {} /\ \A k \in Keys : opened'[k] # 0 => Current(k)'
        BY DEF NothingForgotten
      <4>1. ~due /\ Waiting = {}
        BY <3>1
      <4>2. Waiting' = Waiting
        BY <2>1 DEF Waiting
      <4>3. \A k \in Keys : opened[k] # 0 => Current(k)
        BY <2>1, <2>3, <4>1 DEF WatchInv, PassInv
      <4> QED
        BY <2>1, <4>1, <4>2, <4>3 DEF Current
    <3> QED
      BY <3>1, <3>2 DEF WatchInv, PassInv, OpenInv
  <2> QED
    BY <2>2, <2>3
<1>5. CASE Discard \/ Fail \/ Empty \/ Built
  BY <1>5, NewPassInv DEF Discard, Fail, Empty, Built
<1>6. CASE Success
  <2>1. step = "open" /\ step' = "build" /\ UNCHANGED toClose
    BY <1>6 DEF Success, Answered
  <2> QED
    BY <2>1 DEF WatchInv, PassInv, OpenInv, NothingForgotten, Updating
<1>7. CASE TimerFires
  BY <1>7, SlotInv DEF TimerFires, list, Types
<1>8. CASE Deliver
  <2>1. UNCHANGED <<opened, items, timer>> /\ mtpSerial \in Nat
    BY <1>8 DEF Deliver, list, Types
  <2>2. CASE Added(Head(events)[2]) /\ serial[Head(events)[2]] # 0
    <3>1. UNCHANGED <<serial, done, mtpSerial, step, toClose, attempt, due, again>>
      BY <2>2 DEF Added, plugged, pass
    <3> QED
      BY <2>1, <3>1, SamePassKeeps DEF SamePass
  <2>3. CASE Added(Head(events)[2]) /\ serial[Head(events)[2]] = 0
    BY <2>1, <2>3, SlotInv DEF Added
  <2>4. CASE Removed(Head(events)[2])
    BY <2>1, <2>4, SlotInv DEF Removed
  <2> QED
    BY <1>8, <2>2, <2>3, <2>4 DEF Deliver
<1>9. ASSUME NEW k \in Keys, RetryFires(k)
      PROVE  WatchInv'
  <2>1. UNCHANGED <<serial, opened, done, mtpSerial>> /\ SamePass
    BY <1>9, SamePassSteps DEF RetryFires, plugged
  <2>2. items' \subseteq items
    BY <1>9 DEF RetryFires, RemoveDevice
  <2> QED
    BY <2>1, <2>2, SamePassKeeps
<1>10. CASE \/ \E k \in Keys : Plug(k) \/ Unplug(k) \/ Expire(k)
            \/ EndCall
            \/ \E kind \in {"device", "dialog"}, i \in Items : StartCall(kind, i)
            \/ UNCHANGED vars
  <2>1. Calm /\ SamePass
    BY <1>10, CalmSteps, SamePassSteps
  <2> QED
    BY <2>1, SamePassKeeps DEF Calm
<1> QED
  BY <1>2, <1>3, <1>4, <1>5, <1>6, <1>7, <1>8, <1>9, <1>10 DEF Next, PassStep, Answer

-----------------------------------------------------------------------------
(***************************************************************************)
(* The items and the removals to come.                                     *)
(***************************************************************************)
\* What a step has to keep of the address k.
LEMMA OthersOf ==
  ASSUME NEW k \in Keys, UNCHANGED items, opened'[k] = opened[k]
  PROVE  Others(k)' = Others(k)
BY DEF Others

LEMMA CloseDevices ==
  ASSUME IInv, NEW k \in Keys, Close(k)
  PROVE  DeviceInv'
<1>1. Types /\ SerialInv /\ DeviceInv /\ PassInv
  BY DEF IInv, DeviceInv
<1> USE <1>1
<1>2. CASE Current(k) \/ Busy(<<k, opened[k]>>)
  <2>1. UNCHANGED <<opened, list>>
    BY <1>2 DEF Close
  <2>2. Calm
    BY <1>2, <2>1 DEF Close, Calm, plugged, list
  <2> QED
    BY <2>2, CalmKeeps
<1>3. CASE ~(Current(k) \/ Busy(<<k, opened[k]>>))
  <2>1. opened' = [opened EXCEPT ![k] = 0] /\ RemoveDevice(k, removals)
    BY <1>3 DEF Close
  <2>2. UNCHANGED <<serial, done, mtpSerial>>
    BY <1>3 DEF Close, plugged
  <2>3. opened[k] # 0 /\ serial[k] # opened[k]
    BY <1>3 DEF Close, PassInv, Current
  <2>4. /\ opened'[k] = 0 /\ \A j \in Keys : j # k => opened'[j] = opened[j]
        /\ opened[k] \in Nat /\ opened' \in [Keys -> Nat]
    BY <2>1 DEF Types
  <2>5. <<k, opened[k]>> \in OfKey(k)
    BY <2>3 DEF DeviceInv, OpenedIsShown, OfKey
  <2>6. /\ items' \subseteq items /\ \A i \in items : i[1] # k => i \in items'
        /\ \A j \in Keys : j # k => removals'[j] = removals[j]
        /\ \/ items' = items /\ removals'[k] = removals[k] + 1
           \/ \E i \in OfKey(k) : OfKey(k)' = OfKey(k) \ {i} /\ removals'[k] = removals[k]
    <3>1. removals \in [Keys -> Nat]
      BY DEF Types
    <3>2. Cardinality(OfKey(k)) \in Nat /\ OfKey(k) # {}
      BY <2>5, OfKeyIsFinite
    <3> QED
      BY <2>1, <3>1, <3>2, RemoveDeviceCounts
  <2>7. SerialInv'
    <3>1. \A i \in items' : opened'[i[1]] # 0 => opened[i[1]] # 0 /\ opened'[i[1]] = opened[i[1]]
      BY <2>4, <2>6, ItemParts
    <3> QED
      BY <2>2, <2>6, <3>1 DEF SerialInv
  <2>8. OpenedIsShown'
    BY <2>4, <2>6 DEF DeviceInv, OpenedIsShown
  <2>9. DoneIsOpened'
    BY <2>2, <2>3, <2>4 DEF DeviceInv, DoneIsOpened
  <2>10. ASSUME NEW j \in Keys
         PROVE  Cardinality(Others(j)') = removals'[j]
    <3>1. CASE j # k
      <4>1. Others(j)' = Others(j)
        BY <2>4, <2>6, <3>1 DEF Others
      <4> QED
        BY <2>6, <3>1, <4>1, CountOthers DEF DeviceInv
    <3>2. CASE j = k
      <4>1. Others(k)' = OfKey(k)'
        BY <2>4, <2>6, ItemParts DEF Others, OfKey
      <4>2. OfKey(k) = Others(k) \cup {<<k, opened[k]>>} /\ <<k, opened[k]>> \notin Others(k)
        <5>1. \A i \in OfKey(k) : i \in Others(k) \/ i = <<k, opened[k]>>
          BY ItemParts DEF OfKey, Others
        <5> QED
          BY <2>5, <5>1 DEF OfKey, Others
      <4>3. Cardinality(OfKey(k)) = removals[k] + 1 /\ removals[k] \in Nat
        <5>1. Cardinality(Others(k)) = removals[k] /\ removals[k] \in Nat
          BY CountOthers DEF DeviceInv, Types
        <5>2. IsFiniteSet(Others(k))
          BY OfKeyIsFinite
        <5> QED
          BY <4>2, <5>1, <5>2, FS_AddElement
      <4>4. CASE items' = items /\ removals'[k] = removals[k] + 1
        <5>1. OfKey(k)' = OfKey(k)
          BY <4>4 DEF OfKey
        <5> QED
          BY <3>2, <4>1, <4>3, <4>4, <5>1
      <4>5. ASSUME NEW i \in OfKey(k), OfKey(k)' = OfKey(k) \ {i}, removals'[k] = removals[k]
            PROVE  Cardinality(Others(j)') = removals'[j]
        <5>1. Cardinality(OfKey(k)') = Cardinality(OfKey(k)) - 1
          BY <4>5, OfKeyIsFinite, FS_RemoveElement
        <5> QED
          BY <3>2, <4>1, <4>3, <4>5, <5>1
      <4> QED
        BY <2>6, <4>4, <4>5
    <3> QED
      BY <3>1, <3>2
  <2> QED
    BY <2>7, <2>8, <2>9, <2>10, CountOthers DEF DeviceInv
<1> QED
  BY <1>2, <1>3

LEMMA RetryDevices ==
  ASSUME IInv, NEW k \in Keys, RetryFires(k)
  PROVE  DeviceInv'
<1>1. Types /\ SerialInv /\ DeviceInv
  BY DEF IInv, DeviceInv
<1> USE <1>1
<1> DEFINE left == [removals EXCEPT ![k] = @ - 1]
<1>2. removals[k] > 0 /\ RemoveDevice(k, left) /\ UNCHANGED <<serial, done, mtpSerial, opened>>
  BY DEF RetryFires, plugged
<1>3. /\ left \in [Keys -> Nat] /\ left[k] = removals[k] - 1
      /\ removals[k] \in Nat /\ \A j \in Keys : j # k => left[j] = removals[j]
  BY <1>2 DEF Types
<1>4. Cardinality(Others(k)) = removals[k]
  BY CountOthers DEF DeviceInv
<1>5. PICK o \in Others(k) : TRUE
  <2> SUFFICES ASSUME Others(k) = {} PROVE FALSE
    OBVIOUS
  <2> QED
    BY <1>2, <1>3, <1>4, FS_EmptySet
<1>6. o \in OfKey(k) /\ o \in items /\ o[1] = k /\ o[2] # opened[k]
  BY <1>5 DEF Others, OfKey
<1> HIDE DEF left
<1>7. /\ items' \subseteq items /\ \A i \in items : i[1] # k => i \in items'
      /\ \A j \in Keys : j # k => removals'[j] = removals[j]
      /\ \/ items' = items /\ removals'[k] = removals[k]
         \/ \E i \in OfKey(k) : /\ Oldest(i) /\ items' = items \ {i}
                                /\ removals'[k] = removals[k] - 1
  <2>1. /\ items' \subseteq items /\ \A i \in items : i[1] # k => i \in items'
        /\ removals' \in [Keys -> Nat] /\ \A j \in Keys : j # k => removals'[j] = left[j]
        /\ \/ items' = items /\ removals'[k] = left[k] + 1
           \/ \E i \in OfKey(k) : /\ Oldest(i) /\ items' = items \ {i}
                                  /\ OfKey(k)' = OfKey(k) \ {i} /\ removals'[k] = left[k]
    BY <1>2, <1>3, <1>6, OfKeyIsFinite, RemoveDeviceCounts
  <2> QED
    BY <1>3, <2>1
<1>8. CASE items' = items /\ removals'[k] = removals[k]
  <2>1. SerialInv' /\ OpenedIsShown' /\ DoneIsOpened'
    BY <1>2, <1>8 DEF DeviceInv, SerialInv, OpenedIsShown, DoneIsOpened
  <2>2. \A j \in Keys : Others(j)' = Others(j) /\ removals'[j] = removals[j]
    BY <1>2, <1>7, <1>8, OthersOf
  <2> QED
    BY <2>1, <2>2, CountOthers DEF DeviceInv
<1>9. ASSUME NEW i \in OfKey(k), Oldest(i), items' = items \ {i}, removals'[k] = removals[k] - 1
      PROVE  DeviceInv'
  <2>1. i \in items /\ i[1] = k /\ i[2] \in Nat /\ o[2] \in Nat /\ opened[k] \in Nat
    BY <1>6, ItemParts DEF OfKey, Types
  <2>2. i[2] <= o[2]
    BY <1>6, <1>9, <2>1 DEF Oldest
  <2>3. opened[k] # 0 => o[2] <= opened[k]
    BY <1>6 DEF SerialInv
  <2>4. i[2] # opened[k]
    BY <1>6, <2>1, <2>2, <2>3, ItemParts
  <2>5. i # <<k, opened[k]>>
    BY <2>4
  <2>6. SerialInv' /\ DoneIsOpened'
    BY <1>2, <1>9 DEF DeviceInv, SerialInv, DoneIsOpened
  <2>7. OpenedIsShown'
    <3>1. \A j \in Keys : <<j, opened[j]>> # i
      BY <2>1, <2>5
    <3> QED
      BY <1>2, <1>9, <3>1 DEF DeviceInv, OpenedIsShown
  <2>8. ASSUME NEW j \in Keys
        PROVE  Cardinality(Others(j)') = removals'[j]
    <3>1. CASE j # k
      <4>1. Others(j)' = Others(j)
        BY <1>2, <1>9, <2>1, <3>1 DEF Others
      <4> QED
        BY <1>7, <3>1, <4>1, CountOthers DEF DeviceInv
    <3>2. CASE j = k
      <4>1. Others(k)' = Others(k) \ {i} /\ i \in Others(k)
        BY <1>2, <1>9, <2>1, <2>4 DEF Others
      <4>2. Cardinality(Others(k)') = Cardinality(Others(k)) - 1
        BY <4>1, OfKeyIsFinite, FS_RemoveElement
      <4> QED
        BY <1>4, <1>9, <3>2, <4>2
    <3> QED
      BY <3>1, <3>2
  <2> QED
    BY <2>6, <2>7, <2>8, CountOthers DEF DeviceInv
<1> QED
  BY <1>7, <1>8, <1>9

LEMMA SuccessDevices ==
  ASSUME IInv, Success
  PROVE  DeviceInv'
<1>1. Types /\ SerialInv /\ DeviceInv /\ OpenInv
  BY DEF IInv, DeviceInv
<1> USE <1>1
<1> DEFINE k == attempt[1]
           s == attempt[2]
<1>2. step = "open" /\ serial[k] = s
  BY DEF Success, Answered, SameDevice
<1>3. k \in Keys /\ s \in Nat /\ s # 0 /\ attempt = <<k, s>>
  BY <1>2 DEF Types, Positive
<1>4. opened[k] = 0 /\ s <= mtpSerial /\ \A i \in items : i[1] = k => i[2] < s
  BY <1>2 DEF OpenInv
<1> HIDE DEF k, s
<1>5. /\ done' = [done EXCEPT ![k] = "opened"] /\ opened' = [opened EXCEPT ![k] = s]
      /\ items' = items \cup {<<k, s>>} /\ UNCHANGED <<serial, mtpSerial, removals>>
  BY <1>3 DEF Success, k, s
<1>6. /\ done'[k] = "opened" /\ opened'[k] = s
      /\ \A j \in Keys : j # k => done'[j] = done[j] /\ opened'[j] = opened[j]
  BY <1>3, <1>5 DEF Types
<1>7. SerialInv'
  <2>1. \A j \in Keys : serial'[j] <= mtpSerial'
    BY <1>5 DEF SerialInv
  <2>2. ASSUME NEW i \in items'
        PROVE  /\ i[2] <= mtpSerial'
               /\ serial'[i[1]] # 0 => i[2] <= serial'[i[1]]
               /\ i[2] = serial'[i[1]] => done'[i[1]] = "opened"
               /\ opened'[i[1]] # 0 => i[2] <= opened'[i[1]]
    <3>1. CASE i = <<k, s>>
      BY <1>2, <1>3, <1>4, <1>5, <1>6, <3>1 DEF k, s
    <3>2. CASE i \in items /\ i[1] = k
      <4>1. i[2] < s /\ i[2] \in Nat
        BY <1>4, <3>2, ItemParts
      <4> QED
        BY <1>2, <1>3, <1>5, <1>6, <3>2, <4>1 DEF SerialInv, k, s
    <3>3. CASE i \in items /\ i[1] # k
      <4>1. i[1] \in Keys
        BY <3>3, ItemParts
      <4> QED
        BY <1>5, <1>6, <3>3, <4>1 DEF SerialInv
    <3> QED
      BY <1>5, <3>1, <3>2, <3>3
  <2> QED
    BY <2>1, <2>2 DEF SerialInv
<1>8. OpenedIsShown'
  BY <1>5, <1>6 DEF DeviceInv, OpenedIsShown
<1>9. DoneIsOpened'
  BY <1>2, <1>5, <1>6 DEF DeviceInv, DoneIsOpened, k, s
<1>10. \A j \in Keys : Others(j)' = Others(j)
  <2> TAKE j \in Keys
  <2>1. CASE j # k
    BY <1>5, <1>6, <2>1 DEF Others
  <2>2. CASE j = k
    <3>1. \A i \in items : i[1] = k => i[2] # s /\ i[2] # opened[k]
      <4> SUFFICES ASSUME NEW i \in items, i[1] = k PROVE i[2] # s /\ i[2] # opened[k]
        OBVIOUS
      <4>1. i[2] < s /\ i[2] \in Nat /\ i[2] # 0
        BY <1>4, ItemParts
      <4> QED
        BY <1>3, <1>4, <4>1
    <3> QED
      BY <1>5, <1>6, <2>2, <3>1 DEF Others
  <2> QED
    BY <2>1, <2>2
<1>11. RetriesMatchItems'
  BY <1>5, <1>10, CountOthers DEF DeviceInv
<1> QED
  BY <1>7, <1>8, <1>9, <1>11 DEF DeviceInv

LEMMA GivenUpDevices ==
  ASSUME IInv, Fail \/ Empty
  PROVE  DeviceInv'
<1>1. Types /\ SerialInv /\ DeviceInv /\ OpenInv
  BY DEF IInv, DeviceInv
<1> USE <1>1
<1> DEFINE k == attempt[1]
<1>2. step = "open" /\ serial[k] = attempt[2]
  BY DEF Fail, Empty, Answered, SameDevice
<1>3. k \in Keys /\ attempt[2] \in Nat /\ attempt[2] # 0
  BY <1>2 DEF Types, Positive
<1>4. \A i \in items : i[1] = k => i[2] # serial[k]
  <2> SUFFICES ASSUME NEW i \in items, i[1] = k PROVE i[2] # serial[k]
    OBVIOUS
  <2>1. i[2] < attempt[2] /\ i[2] \in Nat
    BY <1>2, ItemParts DEF OpenInv
  <2> QED
    BY <1>2, <1>3, <2>1
<1> HIDE DEF k
<1>5. UNCHANGED <<serial, opened, mtpSerial, items, removals>>
  BY DEF Fail, Empty, list
<1>6. (\A j \in Keys : j # k => done'[j] = done[j]) /\ (done'[k] = done[k] \/ done'[k] # "opened")
  BY <1>3 DEF Fail, Empty, Types, k
<1>7. SerialInv'
  BY <1>4, <1>5, <1>6, ItemParts DEF SerialInv
<1>8. OpenedIsShown' /\ RetriesMatchItems'
  BY <1>5 DEF DeviceInv, OpenedIsShown, RetriesMatchItems
<1>9. DoneIsOpened'
  BY <1>5, <1>6 DEF DeviceInv, DoneIsOpened
<1> QED
  BY <1>7, <1>8, <1>9 DEF DeviceInv

LEMMA DeliverDevices ==
  ASSUME IInv, Deliver
  PROVE  DeviceInv'
<1>1. Types /\ SerialInv /\ DeviceInv
  BY DEF IInv, DeviceInv
<1> USE <1>1
<1> DEFINE k == Head(events)[2]
<1>2. k \in Keys
  BY HeadTailProperties DEF Deliver, Types
<1>3. UNCHANGED <<opened, items, removals>> /\ (Added(k) \/ Removed(k))
  BY DEF Deliver, list
<1> HIDE DEF k
<1>4. mtpSerial \in Nat /\ \A i \in items : i[1] \in Keys /\ i[2] \in Nat /\ i[2] # 0
  BY ItemParts DEF Types
<1>5. CASE Added(k) /\ serial[k] # 0
  <2>1. Calm
    BY <1>3, <1>5 DEF Added, Calm, plugged
  <2> QED
    BY <2>1, CalmKeeps
<1>6. CASE \/ Added(k) /\ serial[k] = 0
           \/ Removed(k)
  <2>1. /\ done'[k] = "no" /\ \A j \in Keys : j # k => done'[j] = done[j] /\ serial'[j] = serial[j]
        /\ \/ mtpSerial' = mtpSerial + 1 /\ serial'[k] = mtpSerial + 1
           \/ mtpSerial' = mtpSerial /\ serial'[k] = 0
    <3>1. CASE Added(k) /\ serial[k] = 0
      BY <1>2, <3>1 DEF Added, Types
    <3>2. CASE Removed(k)
      BY <1>2, <3>2 DEF Removed, Types
    <3> QED
      BY <1>6, <3>1, <3>2
  <2>2. ASSUME NEW j \in Keys
        PROVE  serial'[j] <= mtpSerial'
    <3>1. serial[j] <= mtpSerial /\ serial[j] \in Nat
      BY DEF SerialInv, Types
    <3> QED
      BY <1>4, <2>1, <3>1
  <2>3. ASSUME NEW i \in items
        PROVE  /\ i[2] <= mtpSerial'
               /\ serial'[i[1]] # 0 => i[2] <= serial'[i[1]]
               /\ i[2] = serial'[i[1]] => done'[i[1]] = "opened"
    <3>1. i[2] <= mtpSerial /\ i[2] \in Nat /\ i[2] # 0 /\ i[1] \in Keys
      BY <1>4 DEF SerialInv
    <3>2. CASE i[1] = k
      BY <1>4, <2>1, <3>1, <3>2
    <3>3. CASE i[1] # k
      <4>1. serial'[i[1]] = serial[i[1]] /\ done'[i[1]] = done[i[1]]
        BY <2>1, <3>1, <3>3
      <4> QED
        BY <1>4, <2>1, <3>1, <4>1 DEF SerialInv
    <3> QED
      BY <3>2, <3>3
  <2>4. SerialInv'
    BY <1>3, <2>2, <2>3 DEF SerialInv
  <2>5. OpenedIsShown' /\ RetriesMatchItems'
    BY <1>3 DEF DeviceInv, OpenedIsShown, RetriesMatchItems
  <2>6. DoneIsOpened'
    BY <1>3, <2>1 DEF DeviceInv, DoneIsOpened
  <2> QED
    BY <2>4, <2>5, <2>6 DEF DeviceInv
<1> QED
  BY <1>3, <1>5, <1>6

LEMMA DeviceStep ==
  ASSUME IInv, [Next]_vars
  PROVE  DeviceInv'
<1>1. DeviceInv
  BY DEF IInv, DeviceInv
<1>2. CASE \/ \E k \in Keys : Open(k) \/ Plug(k) \/ Unplug(k) \/ Expire(k)
           \/ EndPass \/ Discard \/ Built \/ TimerFires \/ EndCall
           \/ \E kind \in {"device", "dialog"}, i \in Items : StartCall(kind, i)
           \/ UNCHANGED vars
  BY <1>1, <1>2, CalmSteps, CalmKeeps
<1> QED
  BY <1>2, CloseDevices, RetryDevices, SuccessDevices, GivenUpDevices, DeliverDevices
     DEF Next, PassStep, Answer

-----------------------------------------------------------------------------
(***************************************************************************)
(* Types.                                                                  *)
(***************************************************************************)
PassTypes ==
  /\ step \in {"none", "close", "open", "build"} /\ toClose \subseteq Keys
  /\ step \in {"open", "build"} => attempt \in Keys \X Positive
  /\ due \in BOOLEAN /\ again \in BOOLEAN /\ timer \in BOOLEAN

DeviceTypes ==
  /\ mtpSerial \in Nat /\ serial \in [Keys -> Nat] /\ opened \in [Keys -> Nat]
  /\ done \in [Keys -> {"no", "opened", "empty", "failed"}]
  /\ items \subseteq Keys \X Positive /\ removals \in [Keys -> Nat]

EventTypes == events \in Seq({"added", "removed"} \X Keys)

LEMMA TypesParts ==
  /\ Types <=> PassTypes /\ DeviceTypes /\ EventTypes
  /\ Types' <=> PassTypes' /\ DeviceTypes' /\ EventTypes'
BY DEF Types, PassTypes, DeviceTypes, EventTypes

LEMMA NewPassTypes ==
  ASSUME PassTypes, NewPass, UNCHANGED timer
  PROVE  PassTypes'
BY DEF PassTypes, NewPass

LEMMA SlotTypes ==
  ASSUME PassTypes, SlotUpdateMtp, timer' \in BOOLEAN
  PROVE  PassTypes'
<1>1. CASE Updating
  BY <1>1 DEF SlotUpdateMtp, Again, PassTypes
<1>2. CASE ~Updating
  BY <1>2 DEF SlotUpdateMtp, NewPass, PassTypes
<1> QED
  BY <1>1, <1>2

LEMMA RemoveDeviceTypes ==
  ASSUME DeviceTypes, NEW k \in Keys, NEW left \in [Keys -> Nat], RemoveDevice(k, left)
  PROVE  items' \subseteq Keys \X Positive /\ removals' \in [Keys -> Nat]
BY DEF RemoveDevice, Retry, DeviceTypes

LEMMA PassTypesStep ==
  ASSUME Types, [Next]_vars
  PROVE  PassTypes'
<1>1. PassTypes /\ DeviceTypes
  BY TypesParts
<1> USE <1>1
<1>2. CASE SamePass
  BY <1>2 DEF SamePass, PassTypes
<1>3. ASSUME NEW k \in Keys, Close(k)
      PROVE  PassTypes'
  <2>1. /\ step' = step /\ step = "close" /\ toClose' = toClose \ {k}
        /\ UNCHANGED <<attempt, again, timer>>
    BY <1>3 DEF Close
  <2>2. due' \in BOOLEAN
    BY <1>3 DEF Close, PassTypes
  <2> QED
    BY <2>1, <2>2 DEF PassTypes
<1>4. ASSUME NEW k \in Keys, Open(k)
      PROVE  PassTypes'
  <2>1. <<k, serial[k]>> \in Keys \X Positive
    BY <1>4 DEF Open, Waiting, DeviceTypes, Positive
  <2> QED
    BY <1>4, <2>1 DEF Open, PassTypes
<1>5. CASE EndPass
  <2>1. CASE again
    BY <1>5, <2>1, NewPassTypes DEF EndPass
  <2>2. CASE ~again
    <3>1. NextIsDue \in BOOLEAN
      BY DEF NextIsDue, PassTypes
    <3> QED
      BY <1>5, <2>2, <3>1 DEF EndPass, PassTypes
  <2> QED
    BY <2>1, <2>2
<1>6. CASE Discard \/ Fail \/ Empty \/ Built
  BY <1>6, NewPassTypes DEF Discard, Fail, Empty, Built
<1>7. CASE Success
  BY <1>7 DEF Success, Answered, PassTypes
<1>8. CASE TimerFires
  BY <1>8, SlotTypes DEF TimerFires
<1>9. CASE Deliver
  <2>1. timer' \in BOOLEAN /\ UNCHANGED timer
    BY <1>9 DEF Deliver, PassTypes
  <2>2. CASE Added(Head(events)[2]) /\ serial[Head(events)[2]] # 0
    BY <1>2, <2>1, <2>2 DEF Added, SamePass, pass
  <2>3. CASE Added(Head(events)[2]) /\ serial[Head(events)[2]] = 0
    BY <2>1, <2>3, SlotTypes DEF Added
  <2>4. CASE Removed(Head(events)[2])
    BY <2>1, <2>4, SlotTypes DEF Removed
  <2> QED
    BY <1>9, <2>2, <2>3, <2>4 DEF Deliver
<1> QED
  BY <1>2, <1>3, <1>4, <1>5, <1>6, <1>7, <1>8, <1>9, SamePassSteps DEF Next, PassStep, Answer

LEMMA DeviceTypesStep ==
  ASSUME Types, [Next]_vars
  PROVE  DeviceTypes'
<1>1. PassTypes /\ DeviceTypes /\ EventTypes
  BY TypesParts
<1> USE <1>1
<1>2. CASE Calm
  BY <1>2 DEF Calm, DeviceTypes
<1>3. ASSUME NEW k \in Keys, Close(k)
      PROVE  DeviceTypes'
  <2>1. UNCHANGED <<serial, done, mtpSerial>>
    BY <1>3 DEF Close, plugged
  <2>2. CASE UNCHANGED <<opened, list>>
    BY <2>1, <2>2 DEF list, DeviceTypes
  <2>3. CASE opened' = [opened EXCEPT ![k] = 0] /\ RemoveDevice(k, removals)
    <3>1. removals \in [Keys -> Nat] /\ opened' \in [Keys -> Nat]
      BY <2>3 DEF DeviceTypes
    <3> QED
      BY <2>1, <2>3, <3>1, RemoveDeviceTypes DEF DeviceTypes
  <2> QED
    BY <1>3, <2>2, <2>3 DEF Close
<1>4. CASE Fail \/ Empty
  <2>1. attempt[1] \in Keys
    BY <1>4 DEF Fail, Empty, Answered, PassTypes
  <2>2. done' \in [Keys -> {"no", "opened", "empty", "failed"}]
    BY <1>4, <2>1 DEF Fail, Empty, DeviceTypes
  <2> QED
    BY <1>4, <2>2 DEF Fail, Empty, list, DeviceTypes
<1>5. CASE Success
  <2>1. attempt \in Keys \X Positive /\ attempt[1] \in Keys /\ attempt[2] \in Nat
    BY <1>5 DEF Success, Answered, PassTypes, Positive
  <2> QED
    BY <1>5, <2>1 DEF Success, DeviceTypes
<1>6. CASE Deliver
  <2> DEFINE k == Head(events)[2]
  <2>1. k \in Keys
    BY <1>6, HeadTailProperties DEF Deliver, EventTypes
  <2>2. UNCHANGED <<opened, items, removals>> /\ (Added(k) \/ Removed(k))
    BY <1>6 DEF Deliver, list
  <2> HIDE DEF k
  <2>3. mtpSerial + 1 \in Nat
    BY DEF DeviceTypes
  <2>4. CASE Added(k)
    BY <2>1, <2>2, <2>3, <2>4 DEF Added, DeviceTypes, plugged
  <2>5. CASE Removed(k)
    BY <2>1, <2>2, <2>5 DEF Removed, DeviceTypes
  <2> QED
    BY <2>2, <2>4, <2>5
<1>7. ASSUME NEW k \in Keys, RetryFires(k)
      PROVE  DeviceTypes'
  <2>1. UNCHANGED <<serial, opened, done, mtpSerial>>
    BY <1>7 DEF RetryFires, plugged
  <2>2. [removals EXCEPT ![k] = @ - 1] \in [Keys -> Nat]
    BY <1>7 DEF RetryFires, DeviceTypes
  <2> QED
    BY <1>7, <2>1, <2>2, RemoveDeviceTypes DEF RetryFires, DeviceTypes
<1> QED
  BY <1>2, <1>3, <1>4, <1>5, <1>6, <1>7, CalmSteps DEF Next, PassStep, Answer

LEMMA EventTypesStep ==
  ASSUME Types, [Next]_vars
  PROVE  EventTypes'
<1>1. EventTypes
  BY TypesParts
<1>2. CASE Deliver
  BY <1>1, <1>2, HeadTailProperties DEF Deliver, EventTypes
<1>3. ASSUME NEW k \in Keys, Plug(k) \/ Unplug(k)
      PROVE  EventTypes'
  <2>1. <<"added", k>> \in {"added", "removed"} \X Keys /\ <<"removed", k>> \in {"added", "removed"} \X Keys
    OBVIOUS
  <2>2. CASE Plug(k)
    <3>1. PICK reports \in {<<<<"added", k>>>>, <<<<"added", k>>, <<"added", k>>>>} :
            events' = events \o reports
      BY <2>2 DEF Plug
    <3>2. reports \in Seq({"added", "removed"} \X Keys)
      BY <2>1, <3>1
    <3> QED
      BY <1>1, <3>1, <3>2, ConcatProperties DEF EventTypes
  <2>3. CASE Unplug(k)
    BY <1>1, <2>1, <2>3, AppendProperties DEF Unplug, EventTypes
  <2> QED
    BY <1>3, <2>2, <2>3
<1>4. CASE UNCHANGED events
  BY <1>1, <1>4 DEF EventTypes
<1>5. CASE \/ \E k \in Keys : Close(k) \/ Open(k) \/ Expire(k) \/ RetryFires(k)
           \/ EndPass \/ Answer \/ Built \/ TimerFires \/ EndCall
           \/ \E kind \in {"device", "dialog"}, i \in Items : StartCall(kind, i)
           \/ UNCHANGED vars
  <2>1. UNCHANGED events
    BY <1>5 DEF Close, Open, Expire, RetryFires, EndPass, Answer, Discard, Fail, Empty, Success,
                Built, TimerFires, EndCall, StartCall, vars, bus
  <2> QED
    BY <1>4, <2>1
<1> QED
  BY <1>2, <1>3, <1>5 DEF Next, PassStep

-----------------------------------------------------------------------------
(***************************************************************************)
(* The theorems.                                                           *)
(***************************************************************************)
LEMMA InitInv ==
  ASSUME Init
  PROVE  IInv
<1>1. Types
  <2>1. events \in Seq({"added", "removed"} \X Keys)
    BY EmptySeq DEF Init
  <2> QED
    BY <2>1 DEF Init, Types
<1>2. SerialInv /\ PassInv /\ OpenInv /\ OpenedIsShown /\ DoneIsOpened
  BY DEF Init, SerialInv, PassInv, OpenInv, OpenedIsShown, DoneIsOpened
<1>3. NothingForgotten
  BY DEF Init, NothingForgotten, Waiting, Current
<1>4. RetriesMatchItems
  <2>1. \A k \in Keys : Others(k) = {} /\ removals[k] = 0
    BY DEF Init, Others
  <2> QED
    BY <2>1, CountOthers, FS_EmptySet
<1> QED
  BY <1>1, <1>2, <1>3, <1>4 DEF IInv

LEMMA StepInv ==
  ASSUME IInv, [Next]_vars
  PROVE  IInv'
<1>1. Types'
  BY PassTypesStep, DeviceTypesStep, EventTypesStep, TypesParts DEF IInv
<1> QED
  BY <1>1, WatchStep, DeviceStep DEF IInv, WatchInv, DeviceInv

THEOREM Invariance == Spec => []IInv
<1>1. Init => IInv
  BY InitInv
<1>2. IInv /\ [Next]_vars => IInv'
  BY StepInv
<1> QED
  BY <1>1, <1>2, PTL DEF Spec

\* Types of the two tables, the pass, its flags, the workspace and the queued events.
THEOREM TypeCorrect == Spec => []Types
<1>1. IInv => Types
  BY DEF IInv
<1> QED
  BY <1>1, Invariance, PTL

\* When slotUpdateMtp() does not run and its timer is not armed, every device
\* plugged in has been served, and every open one is still plugged in.
THEOREM NothingIsForgotten == Spec => []NothingForgotten
<1>1. IInv => NothingForgotten
  BY DEF IInv
<1> QED
  BY <1>1, Invariance, PTL

\* removeDevice() and its retries never take the item of a device that is open.
THEOREM OpenedAlwaysShown == Spec => []OpenedIsShown
<1>1. IInv => OpenedIsShown
  BY DEF IInv
<1> QED
  BY <1>1, Invariance, PTL

\* For each address there are as many retries of removeDevice() as items to go.
THEOREM RetriesAlwaysMatch == Spec => []RetriesMatchItems
<1>1. IInv => RetriesMatchItems
  BY DEF IInv
<1> QED
  BY <1>1, Invariance, PTL

\* What openDevice() answers is noted only for the device it was called for.
THEOREM DoneAlwaysOpened == Spec => []DoneIsOpened
<1>1. IInv => DoneIsOpened
  BY DEF IInv
<1> QED
  BY <1>1, Invariance, PTL

=============================================================================
