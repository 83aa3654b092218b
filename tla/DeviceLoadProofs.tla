-------------------------- MODULE DeviceLoadProofs --------------------------
(***************************************************************************)
(* Proofs about DeviceLoad, for any number of plugs, files and clicks, and *)
(* that it implements DeviceLife.                                          *)
(***************************************************************************)
EXTENDS DeviceLoad, TLAPS, FiniteSetTheorems, SequenceTheorems

USE ConstantsAssumption DEF ConstantsAssumption

-----------------------------------------------------------------------------
(***************************************************************************)
(* The inductive invariant.                                                *)
(***************************************************************************)
Idle(l) == pc[l] = "idle" /\ ~CallRuns(l)

\* A blocking call is on the stack once, and its thread waits for it.
StackInv ==
  /\ \A i \in DOMAIN stack : stack[i][1] = "load" => pc[stack[i][2]] = "running"
  /\ \A i, j \in DOMAIN stack : stack[i][1] = "load" /\ stack[i] = stack[j] => i = j

\* The stop under way works on an item that is there and for a reason that holds.
StopInv ==
  /\ stop.why = "none" => stop = NoStop
  /\ stop.why # "none" => stop.dev \in items
  /\ stop.why = "collapse" => stop.dev \in archives /\ stop.part # "main"
  /\ stop.why = "remove" => Stale(stop.dev)
  /\ stop.why = "quit" => quitting
  /\ quitting => stack = <<>> /\ stop.why \in {"none", "quit"}

\* What a stop has passed, and does not give up, is idle.
PassedInv ==
  stop.why # "none" /\ (stop.ok \/ stop.why = "quit") =>
    /\ stop.part = "done" \/ (stop.why = "remove" /\ stop.part = "main")
         => Idle(<<stop.dev, "archive">>)
    /\ (stop.why = "remove" /\ stop.part = "done") \/ (stop.why = "quit" /\ stop.part # "main")
         => Idle(<<stop.dev, "main">>)

\* The projects of an Archive and the files still to be loaded are no more than its files.
LoadInv ==
  \A d \in Devices : pc[<<d, "archive">>] # "idle" => kids[d] + left[<<d, "archive">>] <= Files

CountInv == RemovalsMatchItems /\ PluggedIsShown

IInv ==
  /\ TypeOK /\ StackInv /\ StopInv /\ PassedInv /\ LoadInv
  /\ CollapsedIsEmpty /\ GoneIsIdle /\ CountInv
-----------------------------------------------------------------------------
(***************************************************************************)
(* The stack of calls.                                                     *)
(***************************************************************************)
LEMMA PushCall ==
  ASSUME TypeOK, NEW f \in Frames, stack' = Append(stack, f)
  PROVE  /\ stack' \in Seq(Frames) /\ stack' # <<>>
         /\ DOMAIN stack = 1 .. Len(stack) /\ DOMAIN stack' = 1 .. Len(stack) + 1
         /\ Len(stack) \in Nat
         /\ stack'[Len(stack) + 1] = f
         /\ \A i \in DOMAIN stack : stack'[i] = stack[i]
<1>1. stack \in Seq(Frames)
  BY DEF TypeOK
<1>2. Len(stack) \in Nat /\ DOMAIN stack = 1 .. Len(stack)
  BY <1>1, LenProperties
<1>3. /\ stack' \in Seq(Frames) /\ stack' # <<>> /\ Len(stack') = Len(stack) + 1
      /\ \A i \in 1 .. Len(stack) : stack'[i] = stack[i]
      /\ stack'[Len(stack) + 1] = f
  BY <1>1, AppendProperties
<1>4. DOMAIN stack' = 1 .. Len(stack')
  BY <1>3, LenProperties
<1> QED
  BY <1>2, <1>3, <1>4

LEMMA PopCall ==
  ASSUME TypeOK, stack # <<>>, Pop
  PROVE  /\ stack' \in Seq(Frames)
         /\ Len(stack) \in Nat \ {0}
         /\ DOMAIN stack = 1 .. Len(stack) /\ DOMAIN stack' = 1 .. Len(stack) - 1
         /\ Top \in Frames /\ Top = stack[Len(stack)]
         /\ \A i \in DOMAIN stack' : stack'[i] = stack[i]
<1>1. stack \in Seq(Frames) /\ stack' = SubSeq(stack, 1, Len(stack) - 1)
  BY DEF TypeOK, Pop
<1>2. Len(stack) \in Nat \ {0} /\ DOMAIN stack = 1 .. Len(stack)
  BY <1>1, LenProperties, EmptySeq
<1>3. \A i \in 1 .. Len(stack) : stack[i] \in Frames
  BY <1>1, ElementOfSeq
<1> DEFINE n == Len(stack) - 1
<1>4. n \in Nat
  BY <1>2
<1>5. \A i \in 1 .. n : stack[i] \in Frames
  BY <1>2, <1>3
<1>6. /\ SubSeq(stack, 1, n) \in Seq(Frames)
      /\ Len(SubSeq(stack, 1, n)) = IF 1 <= n THEN n - 1 + 1 ELSE 0
      /\ \A i \in 1 .. n - 1 + 1 : SubSeq(stack, 1, n)[i] = stack[1 + i - 1]
  <2> HIDE DEF n
  <2> QED
    BY <1>4, <1>5, SubSeqProperties
<1>7. stack' \in Seq(Frames) /\ Len(stack') = n /\ \A i \in 1 .. n : stack'[i] = stack[i]
  <2> HIDE DEF n
  <2>1. (IF 1 <= n THEN n - 1 + 1 ELSE 0) = n /\ n - 1 + 1 = n /\ \A i \in 1 .. n : 1 + i - 1 = i
    BY <1>4
  <2>2. stack' = SubSeq(stack, 1, n)
    BY <1>1 DEF n
  <2> QED
    BY <1>6, <2>1, <2>2
<1>8. DOMAIN stack' = 1 .. n
  BY <1>7, LenProperties
<1> QED
  BY <1>2, <1>3, <1>7, <1>8 DEF Top

\* Pushing a frame makes a call run for its loader; popping may end it for that one.
LEMMA PushRuns ==
  ASSUME TypeOK, NEW f \in Frames, stack' = Append(stack, f), NEW l
  PROVE  CallRuns(l)' <=> CallRuns(l) \/ f[2] = l
<1> USE PushCall
<1>1. CallRuns(l) => CallRuns(l)'
  BY DEF CallRuns
<1>2. f[2] = l => CallRuns(l)'
  BY DEF CallRuns
<1>3. CallRuns(l)' => CallRuns(l) \/ f[2] = l
  BY DEF CallRuns
<1> QED
  BY <1>1, <1>2, <1>3

LEMMA PopRuns ==
  ASSUME TypeOK, stack # <<>>, Pop, NEW l
  PROVE  /\ CallRuns(Top[2])
         /\ CallRuns(l)' => CallRuns(l)
         /\ CallRuns(l) /\ l # Top[2] => CallRuns(l)'
<1> USE PopCall
<1>1. CallRuns(Top[2])
  BY DEF CallRuns
<1>2. CallRuns(l)' => CallRuns(l)
  BY DEF CallRuns
<1>3. CallRuns(l) /\ l # Top[2] => CallRuns(l)'
  BY DEF CallRuns
<1> QED
  BY <1>1, <1>2, <1>3

\* The steps of the GUI thread that run in an event loop find no stop under way.
LEMMA NoStopIsNone == NoStop.why = "none" /\ NoStop.dev = 0 /\ NoStop.ok
BY DEF NoStop

\* BeginStop() and NextPart() keep the type of a stop.
LEMMA BeginType ==
  ASSUME TypeOK, NEW why \in Reasons \ {"none"}, NEW d \in Devices, BeginStop(why, d)
  PROVE  /\ stop' \in [why : Reasons, dev : 0 .. MaxPlugs, part : Parts \cup {"done"}, ok : BOOLEAN]
         /\ stop'.why = why /\ stop'.dev = d /\ stop'.part = First(why) /\ stop'.ok
         /\ stop'.why = "none" <=> stop'.dev = 0
BY DEF TypeOK, BeginStop, First, Parts, Devices, Reasons

LEMMA NextPartType ==
  ASSUME TypeOK, NEW ok \in BOOLEAN, NextPart(ok)
  PROVE  /\ stop' \in [why : Reasons, dev : 0 .. MaxPlugs, part : Parts \cup {"done"}, ok : BOOLEAN]
         /\ stop'.why = stop.why /\ stop'.dev = stop.dev
         /\ stop'.part = After(stop.why, stop.part) /\ stop'.ok = (stop.ok /\ ok)
         /\ stop'.why = "none" <=> stop'.dev = 0
BY DEF TypeOK, NextPart, After, Parts

LEMMA TargetIsLoader ==
  ASSUME TypeOK, StopInv, Stopping
  PROVE  /\ Target \in Loaders /\ Target[1] = stop.dev /\ Target[2] = stop.part
         /\ stop.why # "none"
<1>1. stop.why # "none"
  BY DEF StopInv, Stopping
<1>2. stop.dev \in Devices
  BY <1>1 DEF TypeOK, Devices
<1>3. stop.part \in Parts
  BY DEF TypeOK, Stopping
<1> QED
  BY <1>1, <1>2, <1>3 DEF Target, Loaders

-----------------------------------------------------------------------------
(***************************************************************************)
(* Type correctness.                                                       *)
(***************************************************************************)
States == {"idle", "check", "post", "queued", "running", "final"}

LEMMA LoaderParts ==
  ASSUME NEW l \in Loaders
  PROVE  l[1] \in Devices /\ l[2] \in Parts /\ l = <<l[1], l[2]>>
BY DEF Loaders

LEMMA StartType ==
  ASSUME TypeOK, NEW l \in Loaders, Start(l)
  PROVE  /\ pc' \in [Loaders -> States] /\ left' \in [Loaders -> 0 .. Files]
         /\ interrupted' \in [Loaders -> BOOLEAN]
         /\ pc'[l] = "check" /\ left'[l] = Files
         /\ \A k \in Loaders : k # l => pc'[k] = pc[k] /\ left'[k] = left[k]
BY DEF TypeOK, Start, States

\* Dropping a queued call lets the thread go on; it does not end it.
LEMMA DroppedType ==
  ASSUME TypeOK, StopInv, Stopping
  PROVE  /\ Dropped \in [Loaders -> States]
         /\ \A k \in Loaders : Dropped[k] = "idle" <=> pc[k] = "idle"
         /\ \A k \in Loaders : pc[k] = "running" <=> Dropped[k] = "running"
<1>1. Target \in Loaders
  BY TargetIsLoader
<1> QED
  BY <1>1 DEF TypeOK, Dropped, States

LEMMA StopStepType ==
  ASSUME TypeOK, StopInv, StopStep
  PROVE  TypeOK'
<1>1. Target \in Loaders
  BY TargetIsLoader DEF StopStep, StopRefused, StopWaits, StopDone, StopTimeout
<1> USE DEF port, list, threads, gui, folder
<1>2. CASE StopRefused
  BY <1>1, <1>2, NextPartType DEF StopRefused, Interrupt, TypeOK
<1>3. CASE StopWaits
  BY <1>1, <1>3, DroppedType DEF StopWaits, Interrupt, TypeOK, States
<1>4. CASE StopDone
  BY <1>4, NextPartType DEF StopDone, TypeOK
<1>5. CASE StopTimeout
  BY <1>1, <1>5, DroppedType, NextPartType DEF StopTimeout, Interrupt, TypeOK, States
<1> QED
  BY <1>2, <1>3, <1>4, <1>5 DEF StopStep

\* The call at the top is the one its thread waits for.
LEMMA TopLoads ==
  ASSUME TypeOK, StackInv, stack # <<>>, Pop, Top[1] = "load"
  PROVE  Top[2] \in Loaders /\ pc[Top[2]] = "running"
<1>1. Top \in Frames /\ Len(stack) \in DOMAIN stack /\ Top = stack[Len(stack)]
  BY PopCall
<1>2. Top[2] \in Loaders
  BY <1>1 DEF Frames
<1> QED
  BY <1>1, <1>2 DEF StackInv

LEMMA TopInFrames ==
  ASSUME TypeOK, stack # <<>>, Pop
  PROVE  Top[2] \in Loaders /\ Top[1] \in {"load", "edit"}
BY PopCall DEF Frames

LEMMA FinishCallType ==
  ASSUME IInv, FinishCall
  PROVE  TypeOK'
<1>1. TypeOK /\ StackInv /\ LoadInv /\ GoneIsIdle
  BY DEF IInv
<1>2. stack # <<>> /\ Pop /\ Top[1] = "load"
  BY DEF FinishCall
<1>3. stack' \in Seq(Frames)
  BY <1>1, <1>2, PopCall
<1> DEFINE l == Top[2]
<1>4. l \in Loaders /\ pc[l] = "running" /\ CallRuns(l)
  BY <1>1, <1>2, TopLoads, PopRuns
<1>5. l[1] \in Devices /\ l = <<l[1], l[2]>>
  BY <1>4, LoaderParts
<1>6. l[1] \in items
  BY <1>1, <1>4 DEF GoneIsIdle, Exists
<1>7. l[2] = "archive" => kids[l[1]] + left[l] <= Files
  BY <1>1, <1>4, <1>5 DEF LoadInv
<1>8. /\ left' \in [Loaders -> 0 .. Files] /\ pc' \in [Loaders -> States]
      /\ kids' \in [Devices -> 0 .. Files] /\ archives' \subseteq items
  <2> HIDE DEF l
  <2>1. CASE left[l] > 0
    <3>1. /\ left' = [left EXCEPT ![l] = @ - 1] /\ pc' = [pc EXCEPT ![l] = "check"]
          /\ archives' = archives
          /\ \/ kids' = kids
             \/ l[2] = "archive" /\ kids' = [kids EXCEPT ![l[1]] = @ + 1]
      BY <2>1 DEF FinishCall, l
    <3>2. left[l] \in 0 .. Files /\ kids[l[1]] \in 0 .. Files
      BY <1>1, <1>4, <1>5 DEF TypeOK
    <3>3. left[l] - 1 \in 0 .. Files
      BY <2>1, <3>2
    <3>4. l[2] = "archive" => kids[l[1]] + 1 \in 0 .. Files
      BY <2>1, <3>2, <1>7
    <3>5. left' \in [Loaders -> 0 .. Files] /\ pc' \in [Loaders -> States]
      BY <1>1, <1>4, <3>1, <3>3 DEF TypeOK, States
    <3>6. kids' \in [Devices -> 0 .. Files]
      BY <1>1, <1>5, <3>1, <3>4 DEF TypeOK
    <3> QED
      BY <1>1, <3>1, <3>5, <3>6 DEF TypeOK
  <2>2. CASE ~(left[l] > 0)
    <3>1. /\ archives' \in {archives, archives \cup {l[1]}}
          /\ pc' = [pc EXCEPT ![l] = "final"] /\ left' = left /\ kids' = kids
      BY <2>2 DEF FinishCall, l
    <3> QED
      BY <1>1, <1>4, <1>6, <3>1 DEF TypeOK, States
  <2> QED
    BY <2>1, <2>2
<1>9. UNCHANGED <<plugged, plugs, items, removals, interrupted, stop, quitting, expanded, name,
                  collapsePending, clicks>>
  BY DEF FinishCall, port
<1> QED
  BY <1>1, <1>3, <1>8, <1>9 DEF TypeOK, States

LEMMA EndEditType ==
  ASSUME TypeOK, EndEdit
  PROVE  TypeOK'
<1>1. stack' \in Seq(Frames) /\ Top[2] \in Loaders
  BY PopCall, TopInFrames DEF EndEdit
<1>2. Top[2][1] \in Devices
  BY <1>1, LoaderParts
<1>3. kids' \in [Devices -> 0 .. Files]
  <2>1. CASE kids' = kids
    BY <2>1 DEF TypeOK
  <2>2. CASE /\ Top[2][2] = "archive" /\ kids[Top[2][1]] > 0
             /\ kids' = [kids EXCEPT ![Top[2][1]] = @ - 1]
    <3>1. kids[Top[2][1]] - 1 \in 0 .. Files
      BY <1>2, <2>2 DEF TypeOK
    <3> QED
      BY <1>2, <2>2, <3>1 DEF TypeOK
  <2> QED
    BY <2>1, <2>2 DEF EndEdit
<1> QED
  BY <1>1, <1>3 DEF TypeOK, EndEdit, port, list, threads

LEMMA LoadType ==
  ASSUME TypeOK, NEW d \in Devices, Load(d)
  PROVE  /\ pc' \in [Loaders -> States] /\ left' \in [Loaders -> 0 .. Files]
         /\ interrupted' \in [Loaders -> BOOLEAN]
         /\ name' \in [Devices -> {"expand", "loading", "loaded"}]
<1>1. <<d, "archive">> \in Loaders
  BY DEF Loaders, Parts
<1>2. CASE kids[d] = 0 /\ pc[<<d, "archive">>] = "idle"
  BY <1>1, <1>2, StartType DEF Load, TypeOK
<1>3. CASE ~(kids[d] = 0 /\ pc[<<d, "archive">>] = "idle")
  BY <1>3 DEF Load, TypeOK, threads, States
<1> QED
  BY <1>2, <1>3

LEMMA ItemsAreDevices ==
  ASSUME TypeOK
  PROVE  items \subseteq Devices /\ archives \subseteq Devices
BY DEF TypeOK, Devices

LEMMA TypeStep ==
  ASSUME IInv, [Next]_vars
  PROVE  TypeOK'
<1>1. TypeOK /\ StopInv
  BY DEF IInv
<1> USE <1>1
<1>2. CASE Plug
  <2>1. <<plugs + 1, "main">> \in Loaders
    BY <1>2 DEF Plug, TypeOK, Loaders, Devices, Parts
  <2>2. /\ pc' \in [Loaders -> States] /\ left' \in [Loaders -> 0 .. Files]
        /\ interrupted' \in [Loaders -> BOOLEAN]
    BY <1>2, <2>1, StartType DEF Plug
  <2> QED
    BY <1>2, <2>2 DEF Plug, TypeOK, States, gui, folder
<1>3. CASE Unplug \/ Quit
  <2>1. CASE Unplug
    <3>1. removals + 1 \in Nat
      BY DEF TypeOK
    <3>2. removals' \in Nat /\ plugged' \in BOOLEAN
      BY <2>1, <3>1 DEF Unplug
    <3>3. UNCHANGED <<plugs, items, archives, pc, left, interrupted, stack, stop, quitting,
                      expanded, name, kids, collapsePending, clicks>>
      BY <2>1 DEF Unplug, threads, gui, folder
    <3> QED
      BY <3>2, <3>3 DEF TypeOK
  <2>2. CASE Quit
    BY <2>2 DEF Quit, TypeOK, threads, folder, port, list
  <2> QED
    BY <1>3, <2>1, <2>2
<1>4. CASE RemoveDevice
  <2>1. /\ stop' \in [why : Reasons, dev : 0 .. MaxPlugs, part : Parts \cup {"done"}, ok : BOOLEAN]
        /\ stop'.why = "none" <=> stop'.dev = 0
    <3>1. CASE items = {}
      BY <1>4, <3>1 DEF RemoveDevice, TypeOK
    <3>2. CASE items # {}
      BY <1>4, <3>2, BeginType, ItemsAreDevices DEF RemoveDevice, Reasons
    <3> QED
      BY <3>1, <3>2
  <2> QED
    BY <1>4, <2>1 DEF RemoveDevice, TypeOK, threads, folder, port
<1>5. CASE Remove
  <2>1. NoStop \in [why : Reasons, dev : 0 .. MaxPlugs, part : Parts \cup {"done"}, ok : BOOLEAN]
    BY DEF NoStop, Reasons
  <2>2. items' \subseteq items /\ archives' \subseteq items' /\ removals' \in Nat
    <3>1. CASE AllStopped
      BY <1>5, <3>1 DEF Remove, TypeOK
    <3>2. CASE ~AllStopped
      <4>1. removals + 1 \in Nat
        BY DEF TypeOK
      <4> QED
        BY <1>5, <3>2, <4>1 DEF Remove, Retry, TypeOK, AllStopped
    <3> QED
      BY <3>1, <3>2
  <2> QED
    BY <1>5, <2>1, <2>2, NoStopIsNone DEF Remove, TypeOK, port, threads, folder
<1>6. CASE Clear
  <2>1. NoStop \in [why : Reasons, dev : 0 .. MaxPlugs, part : Parts \cup {"done"}, ok : BOOLEAN]
    BY DEF NoStop, Reasons
  <2>2. stop.dev \in Devices /\ <<stop.dev, "archive">> \in Loaders
    BY <1>6 DEF Clear, Stopped, TypeOK, Devices, Loaders, Parts
  <2>3. /\ kids' \in [Devices -> 0 .. Files] /\ collapsePending' \in [Devices -> BOOLEAN]
        /\ name' \in [Devices -> {"expand", "loading", "loaded"}]
    <3>1. CASE AllStopped
      <4>1. /\ kids' = [kids EXCEPT ![stop.dev] = 0] /\ collapsePending' = collapsePending
            /\ \/ name' = [name EXCEPT ![stop.dev] = "loading"]
               \/ name' = [name EXCEPT ![stop.dev] = "expand"]
        BY <1>6, <3>1 DEF Clear
      <4>2. kids' \in [Devices -> 0 .. Files] /\ collapsePending' \in [Devices -> BOOLEAN]
        BY <2>2, <4>1 DEF TypeOK
      <4>3. name' \in [Devices -> {"expand", "loading", "loaded"}]
        BY <2>2, <4>1 DEF TypeOK
      <4> QED
        BY <4>2, <4>3
    <3>2. CASE ~AllStopped
      BY <1>6, <2>2, <3>2 DEF Clear, TypeOK
    <3> QED
      BY <3>1, <3>2
  <2>4. /\ pc' \in [Loaders -> States] /\ left' \in [Loaders -> 0 .. Files]
        /\ interrupted' \in [Loaders -> BOOLEAN]
    <3>1. CASE Start(<<stop.dev, "archive">>)
      BY <2>2, <3>1, StartType
    <3>2. CASE UNCHANGED threads
      BY <3>2 DEF threads, TypeOK, States
    <3> QED
      BY <1>6, <3>1, <3>2 DEF Clear
  <2> QED
    BY <1>6, <2>1, <2>3, <2>4, NoStopIsNone DEF Clear, TypeOK, port, list, States
<1>7. CASE StopStep
  BY <1>7, StopStepType
<1>8. CASE Destroyed
  <2>1. NoStop \in [why : Reasons, dev : 0 .. MaxPlugs, part : Parts \cup {"done"}, ok : BOOLEAN]
    BY DEF NoStop, Reasons
  <2> QED
    BY <1>8, <2>1, NoStopIsNone DEF Destroyed, TypeOK, port, threads, folder
<1>9. CASE FinishCall
  BY <1>9, FinishCallType
<1>10. CASE EndEdit
  BY <1>10, EndEditType
<1>11. ASSUME NEW l \in Loaders, ThreadStep(l) \/ RunCall(l) \/ StartEdit(l)
       PROVE  TypeOK'
  <2>1. CASE Check(l) \/ Post(l)
    BY <2>1 DEF Check, Post, TypeOK, port, list, gui, folder
  <2>2. CASE Final(l)
    BY <2>2, LoaderParts DEF Final, TypeOK, port, list, gui
  <2>3. CASE RunCall(l)
    <3>1. <<"load", l>> \in Frames
      BY DEF Frames
    <3> QED
      BY <2>3, <3>1, PushCall DEF RunCall, TypeOK, port, list, folder
  <2>4. CASE StartEdit(l)
    <3>1. <<"edit", l>> \in Frames
      BY DEF Frames
    <3> QED
      BY <2>4, <3>1, PushCall DEF StartEdit, TypeOK, port, list, threads, folder
  <2> QED
    BY <1>11, <2>1, <2>2, <2>3, <2>4 DEF ThreadStep
<1>12. ASSUME NEW d \in Devices, Expand(d) \/ Collapse(d) \/ CollapseAgain(d) \/ Destroy(d)
       PROVE  TypeOK'
  <2>1. CASE Expand(d)
    <3>1. Load(d) /\ UNCHANGED <<port, list, gui, kids, collapsePending>>
      BY <2>1 DEF Expand
    <3>2. expanded' \in [Devices -> BOOLEAN] /\ clicks' \in 0 .. MaxClicks
      BY <2>1 DEF Expand, TypeOK
    <3> QED
      BY <3>1, <3>2, LoadType DEF TypeOK, port, list, gui, States
  <2>2. CASE Collapse(d)
    <3>1. expanded' \in [Devices -> BOOLEAN] /\ clicks' \in 0 .. MaxClicks
      BY <2>2 DEF Collapse, TypeOK
    <3> QED
      BY <2>2, <3>1, BeginType DEF Collapse, TypeOK, port, list, threads, Reasons
  <2>3. CASE CollapseAgain(d)
    BY <2>3, BeginType DEF CollapseAgain, TypeOK, port, list, threads, Reasons
  <2>4. CASE Destroy(d)
    BY <2>4, BeginType DEF Destroy, TypeOK, port, list, threads, folder, Reasons
  <2> QED
    BY <1>12, <2>1, <2>2, <2>3, <2>4
<1>13. CASE UNCHANGED vars
  BY <1>13 DEF vars, port, list, threads, gui, folder, TypeOK
<1> QED
  BY <1>2, <1>3, <1>4, <1>5, <1>6, <1>7, <1>8, <1>9, <1>10, <1>11, <1>12, <1>13 DEF Next

-----------------------------------------------------------------------------
(***************************************************************************)
(* Who begins to work for an item, and who makes an item go.               *)
(***************************************************************************)
\* Steps that leave threads and calls as they are.
Quiet == UNCHANGED <<pc, left, stack, kids, name>>

LEMMA QuietSteps ==
  ASSUME \/ Unplug \/ Quit \/ RemoveDevice \/ Remove \/ Destroyed \/ UNCHANGED vars
         \/ StopRefused \/ StopDone
         \/ \E d \in Devices : Collapse(d) \/ CollapseAgain(d) \/ Destroy(d)
  PROVE  Quiet
BY DEF Unplug, Quit, RemoveDevice, Remove, Destroyed, StopRefused, StopDone, Collapse,
       CollapseAgain, Destroy, Quiet, vars, port, list, threads, gui, folder

LEMMA QuietKeeps ==
  ASSUME Quiet, NEW l
  PROVE  Idle(l)' <=> Idle(l)
BY DEF Quiet, Idle, CallRuns

LEMMA StackKept ==
  ASSUME UNCHANGED stack, NEW l
  PROVE  CallRuns(l)' <=> CallRuns(l)
BY DEF CallRuns

LEMMA DropSteps ==
  ASSUME TypeOK, StopInv, StopWaits \/ StopTimeout
  PROVE  /\ UNCHANGED <<left, stack, kids, name, items, archives, plugged, plugs, quitting, removals>>
         /\ \A k \in Loaders : pc'[k] = "idle" <=> pc[k] = "idle"
         /\ \A k \in Loaders : pc'[k] = "running" <=> pc[k] = "running"
<1>1. Stopping /\ pc' = Dropped
  BY DEF StopWaits, StopTimeout
<1>2. UNCHANGED <<left, stack, kids, name, items, archives, plugged, plugs, quitting, removals>>
  BY DEF StopWaits, StopTimeout, port, list, folder
<1> QED
  BY <1>1, <1>2, DroppedType

\* Whoever begins to work, works for an item that is there, and not while a stop
\* is under way.
LEMMA WhoStarts ==
  ASSUME IInv, [Next]_vars, NEW l \in Loaders, Idle(l), ~Idle(l)'
  PROVE  Exists(l)' /\ (stop = NoStop \/ stop' = NoStop)
<1>1. TypeOK /\ StackInv /\ StopInv /\ GoneIsIdle /\ PassedInv
  BY DEF IInv
<1>2. pc[l] = "idle" /\ ~CallRuns(l)
  BY DEF Idle
<1>3. pc'[l] # "idle" \/ CallRuns(l)'
  BY DEF Idle
<1> USE <1>1
<1>4. ~Quiet
  BY QuietKeeps
<1>5. CASE Plug
  <2>1. <<plugs + 1, "main">> \in Loaders
    BY <1>5 DEF Plug, TypeOK, Loaders, Devices, Parts
  <2>2. ~CallRuns(l)'
    BY <1>2, <1>5, StackKept DEF Plug, gui
  <2>3. l = <<plugs + 1, "main">>
    BY <1>2, <1>3, <1>5, <2>1, <2>2, StartType DEF Plug
  <2> QED
    BY <1>5, <2>3 DEF Plug, Exists, AtLoop
<1>6. CASE Clear
  <2>1. stop.dev \in Devices /\ stop.dev \in archives /\ <<stop.dev, "archive">> \in Loaders
    BY <1>6, ItemsAreDevices DEF Clear, Stopped, StopInv, Loaders, Parts
  <2>2. ~CallRuns(l)' /\ stop' = NoStop /\ items' = items /\ archives' = archives
    BY <1>2, <1>6, StackKept DEF Clear, list
  <2>3. CASE Start(<<stop.dev, "archive">>)
    <3>1. l = <<stop.dev, "archive">>
      BY <1>2, <1>3, <2>1, <2>2, <2>3, StartType
    <3> QED
      BY <2>1, <2>2, <3>1 DEF Exists, TypeOK
  <2>4. CASE UNCHANGED threads
    BY <1>2, <1>3, <2>2, <2>4 DEF threads
  <2> QED
    BY <1>6, <2>3, <2>4 DEF Clear
<1>7. CASE StopStep
  <2>1. CASE StopWaits \/ StopTimeout
    BY <1>2, <1>3, <2>1, DropSteps, StackKept
  <2> QED
    BY <1>4, <1>7, <2>1, QuietSteps DEF StopStep
<1>8. CASE FinishCall
  <2>1. stack # <<>> /\ Pop /\ Top[1] = "load"
    BY <1>8 DEF FinishCall
  <2>2. Top[2] \in Loaders /\ pc[Top[2]] = "running"
    BY <2>1, TopLoads
  <2>3. pc'[l] = pc[l]
    BY <1>2, <1>8, <2>2 DEF FinishCall, TypeOK
  <2> QED
    BY <1>2, <1>3, <2>1, <2>3, PopRuns
<1>9. CASE EndEdit
  BY <1>2, <1>3, <1>9, PopRuns DEF EndEdit, threads
<1>10. ASSUME NEW k \in Loaders, ThreadStep(k) \/ RunCall(k) \/ StartEdit(k)
       PROVE  Exists(l)' /\ (stop = NoStop \/ stop' = NoStop)
  <2>1. CASE Check(k) \/ Post(k) \/ Final(k)
    <3>1. pc'[l] = pc[l] /\ UNCHANGED stack
      BY <1>2, <2>1 DEF Check, Post, Final, TypeOK, gui
    <3> QED
      BY <1>2, <1>3, <3>1, StackKept
  <2>2. CASE RunCall(k)
    <3>1. <<"load", k>> \in Frames /\ <<"load", k>>[2] = k /\ k # l
      BY <1>2, <2>2 DEF Frames, RunCall
    <3>2. pc'[l] = pc[l] /\ stack' = Append(stack, <<"load", k>>)
      BY <2>2, <3>1 DEF RunCall, TypeOK
    <3> QED
      BY <1>2, <1>3, <3>1, <3>2, PushRuns
  <2>3. CASE StartEdit(k)
    <3>1. <<"edit", k>> \in Frames /\ <<"edit", k>>[2] = k
      BY DEF Frames
    <3>2. pc' = pc /\ stack' = Append(stack, <<"edit", k>>) /\ Exists(k)' /\ stop = NoStop
      BY <2>3 DEF StartEdit, threads, list, Exists, AtLoop
    <3> QED
      BY <1>2, <1>3, <3>1, <3>2, PushRuns
  <2> QED
    BY <1>10, <2>1, <2>2, <2>3 DEF ThreadStep
<1>11. ASSUME NEW d \in Devices, Expand(d)
       PROVE  Exists(l)' /\ (stop = NoStop \/ stop' = NoStop)
  <2>1. <<d, "archive">> \in Loaders /\ d \in archives' /\ d \in items' /\ stop = NoStop
    BY <1>11 DEF Expand, Loaders, Parts, list, AtLoop, TypeOK
  <2>2. ~CallRuns(l)'
    BY <1>2, <1>11, StackKept DEF Expand, gui
  <2>3. CASE Start(<<d, "archive">>)
    <3>1. l = <<d, "archive">>
      BY <1>2, <1>3, <2>1, <2>2, <2>3, StartType
    <3> QED
      BY <2>1, <3>1 DEF Exists
  <2>4. CASE UNCHANGED threads
    BY <1>2, <1>3, <2>2, <2>4 DEF threads
  <2> QED
    BY <1>11, <2>3, <2>4 DEF Expand, Load
<1> QED
  BY <1>4, <1>5, <1>6, <1>7, <1>8, <1>9, <1>10, <1>11, QuietSteps DEF Next

\* An item that is there goes only when the stop for it has ended.
LEMMA WhoGoes ==
  ASSUME IInv, [Next]_vars, NEW l \in Loaders, Exists(l), ~Exists(l)'
  PROVE  /\ (Remove /\ AllStopped) \/ Destroyed
         /\ l[1] = stop.dev /\ stop.why # "none" /\ stop.part = "done"
         /\ Quiet
<1>1. CASE (Remove /\ AllStopped) \/ Destroyed
  <2>1. Quiet /\ stop.why # "none" /\ stop.part = "done"
    BY <1>1, QuietSteps DEF Remove, Destroyed, Stopped
  <2>2. items' = items \ {stop.dev} /\ archives' = archives \ {stop.dev}
    BY <1>1 DEF Remove, Destroyed
  <2> QED
    BY <1>1, <2>1, <2>2 DEF Exists
<1>2. CASE ~((Remove /\ AllStopped) \/ Destroyed)
  <2>1. items \subseteq items' /\ archives \subseteq archives'
    <3>1. CASE Plug \/ FinishCall
      BY <3>1 DEF Plug, FinishCall
    <3>2. CASE Unplug \/ Quit \/ RemoveDevice \/ Clear \/ EndEdit
      BY <3>2 DEF Unplug, Quit, RemoveDevice, Clear, EndEdit, list
    <3>3. CASE Remove
      BY <1>2, <3>3 DEF Remove
    <3>4. CASE StopStep
      BY <3>4 DEF StopStep, StopRefused, StopWaits, StopDone, StopTimeout, list
    <3>5. ASSUME NEW k \in Loaders, ThreadStep(k) \/ RunCall(k) \/ StartEdit(k)
          PROVE  items \subseteq items' /\ archives \subseteq archives'
      BY <3>5 DEF ThreadStep, Check, Post, Final, RunCall, StartEdit, list
    <3>6. ASSUME NEW d \in Devices, Expand(d) \/ Collapse(d) \/ CollapseAgain(d) \/ Destroy(d)
          PROVE  items \subseteq items' /\ archives \subseteq archives'
      BY <3>6 DEF Expand, Collapse, CollapseAgain, Destroy, list
    <3> QED
      BY <1>2, <3>1, <3>2, <3>3, <3>4, <3>5, <3>6 DEF Next, vars, list
  <2> QED
    BY <2>1 DEF Exists
<1> QED
  BY <1>1, <1>2

\* The parts of an item that is about to go are idle.
LEMMA RemovedIsIdle ==
  ASSUME IInv, (Remove /\ AllStopped) \/ Destroyed
  PROVE  /\ stop.dev \in Devices /\ stop.dev \in items
         /\ \A p \in Parts : Idle(<<stop.dev, p>>)
<1>1. stop.why # "none" /\ stop.part = "done" /\ (stop.ok \/ stop.why = "quit")
  BY DEF Remove, Destroyed, Stopped, AllStopped
<1>2. stop.why \in {"remove", "quit"}
  BY DEF Remove, Destroyed, Stopped
<1>3. Idle(<<stop.dev, "archive">>) /\ Idle(<<stop.dev, "main">>)
  BY <1>1, <1>2 DEF IInv, PassedInv
<1>4. stop.dev \in items
  BY <1>1 DEF IInv, StopInv
<1> QED
  BY <1>3, <1>4, ItemsAreDevices DEF IInv, Parts

-----------------------------------------------------------------------------
(***************************************************************************)
(* Nobody works for an item that is gone.                                  *)
(***************************************************************************)
LEMMA GoneStep ==
  ASSUME IInv, [Next]_vars
  PROVE  GoneIsIdle'
<1> SUFFICES ASSUME NEW l \in Loaders, ~Exists(l)'
             PROVE  Idle(l)'
  BY DEF GoneIsIdle, Idle
<1>1. CASE Exists(l)
  <2>1. /\ (Remove /\ AllStopped) \/ Destroyed
        /\ l[1] = stop.dev /\ Quiet
    BY <1>1, WhoGoes
  <2>2. Idle(l)
    BY <2>1, RemovedIsIdle, LoaderParts
  <2> QED
    BY <2>1, <2>2, QuietKeeps
<1>2. CASE ~Exists(l)
  <2>1. Idle(l)
    BY <1>2 DEF IInv, GoneIsIdle, Idle
  <2> QED
    BY <2>1, WhoStarts
<1> QED
  BY <1>1, <1>2

-----------------------------------------------------------------------------
(***************************************************************************)
(* The stop under way.                                                     *)
(***************************************************************************)
LEMMA PassedStep ==
  ASSUME IInv, [Next]_vars
  PROVE  PassedInv'
<1>1. TypeOK /\ StopInv /\ PassedInv
  BY DEF IInv
<1> USE <1>1
<1>2. CASE stop' = NoStop
  BY <1>2, NoStopIsNone DEF PassedInv
<1>3. CASE stop' = stop /\ stop' # NoStop
  <2> SUFFICES ASSUME stop.why # "none" PROVE PassedInv'
    BY <1>3 DEF PassedInv
  <2>1. stop.dev \in Devices
    BY ItemsAreDevices DEF StopInv
  <2>2. <<stop.dev, "archive">> \in Loaders /\ <<stop.dev, "main">> \in Loaders
    BY <2>1 DEF Loaders, Parts
  <2>3. \A l \in Loaders : Idle(l) => Idle(l)'
    BY <1>3, WhoStarts
  <2> QED
    BY <1>3, <2>2, <2>3 DEF PassedInv
<1>4. ASSUME NEW why \in Reasons \ {"none"}, NEW d \in Devices, BeginStop(why, d)
      PROVE  PassedInv'
  BY <1>4, BeginType DEF PassedInv, First
<1>5. CASE StopDone
  <2>1. Target \in Loaders /\ Target = <<stop.dev, stop.part>> /\ stop.why # "none"
    BY <1>5, TargetIsLoader DEF StopDone, Target
  <2>2. Idle(Target)
    BY <1>5 DEF StopDone, Idle, CallsRunning
  <2>3. /\ stop'.why = stop.why /\ stop'.dev = stop.dev /\ stop'.ok = stop.ok
        /\ stop'.part = After(stop.why, stop.part) /\ stop.part \in Parts
    BY <1>5, NextPartType DEF StopDone, Stopping, TypeOK
  <2>4. \A l : Idle(l) => Idle(l)'
    BY <1>5, QuietSteps, QuietKeeps
  <2>5. stop.why = "collapse" => stop.part = "archive"
    BY <2>3 DEF StopInv, Parts
  <2>6. stop.why \in {"remove", "collapse", "quit"}
    BY <2>1 DEF TypeOK, Reasons
  <2>7. CASE stop.why = "remove"
    BY <2>1, <2>2, <2>3, <2>4, <2>7 DEF PassedInv, After, Parts
  <2>8. CASE stop.why = "collapse"
    BY <2>1, <2>2, <2>3, <2>4, <2>5, <2>8 DEF PassedInv, After, Parts
  <2>9. CASE stop.why = "quit"
    BY <2>1, <2>2, <2>3, <2>4, <2>9 DEF PassedInv, After, Parts
  <2> QED
    BY <2>6, <2>7, <2>8, <2>9
<1>6. CASE StopRefused \/ StopTimeout
  <2>1. stop'.why = stop.why /\ ~stop'.ok
    BY <1>6, NextPartType DEF StopRefused, StopTimeout
  <2>2. stop.why # "quit"
    <3>1. CASE StopTimeout
      BY <3>1 DEF StopTimeout
    <3>2. CASE StopRefused
      <4>1. stack # <<>>
        BY <3>2 DEF StopRefused, CallsRunning, CallRuns
      <4> QED
        BY <4>1 DEF StopInv
    <3> QED
      BY <1>6, <3>1, <3>2
  <2> QED
    BY <2>1, <2>2 DEF PassedInv
<1>7. CASE UNCHANGED stop
  BY <1>2, <1>3, <1>7
<1>8. CASE RemoveDevice
  <2>1. \/ UNCHANGED stop
        \/ \E d \in items : BeginStop("remove", d)
    BY <1>8 DEF RemoveDevice, AtLoop
  <2> QED
    BY <1>4, <1>7, <2>1, ItemsAreDevices DEF Reasons
<1>9. ASSUME NEW d \in Devices, Collapse(d) \/ CollapseAgain(d) \/ Destroy(d)
      PROVE  PassedInv'
  BY <1>4, <1>9 DEF Collapse, CollapseAgain, Destroy, Reasons
<1>10. CASE Remove \/ Clear \/ Destroyed
  BY <1>2, <1>10 DEF Remove, Clear, Destroyed
<1>11. CASE Plug \/ Unplug \/ Quit \/ FinishCall \/ EndEdit \/ UNCHANGED vars
  BY <1>7, <1>11 DEF Plug, Unplug, Quit, FinishCall, EndEdit, vars, gui
<1>12. ASSUME NEW k \in Loaders, ThreadStep(k) \/ RunCall(k) \/ StartEdit(k)
       PROVE  PassedInv'
  BY <1>7, <1>12 DEF ThreadStep, Check, Post, Final, RunCall, StartEdit, gui
<1>13. ASSUME NEW d \in Devices, Expand(d)
       PROVE  PassedInv'
  BY <1>7, <1>13 DEF Expand, gui
<1>14. CASE StopWaits
  BY <1>7, <1>14 DEF StopWaits
<1> QED
  BY <1>5, <1>6, <1>8, <1>9, <1>10, <1>11, <1>12, <1>13, <1>14 DEF Next, StopStep

-----------------------------------------------------------------------------
(***************************************************************************)
(* A blocking call is on the stack once.                                   *)
(***************************************************************************)
LEMMA FramesOfStack ==
  ASSUME TypeOK, NEW i \in DOMAIN stack
  PROVE  /\ stack[i] \in Frames /\ stack[i] = <<stack[i][1], stack[i][2]>>
         /\ stack[i][2] \in Loaders /\ CallRuns(stack[i][2])
<1>1. stack[i] \in Frames
  BY ElementOfSeq, LenProperties DEF TypeOK
<1> QED
  BY <1>1 DEF Frames, CallRuns

LEMMA StackSame ==
  ASSUME TypeOK, StackInv, UNCHANGED stack,
         \A l \in Loaders : pc[l] = "running" /\ CallRuns(l) => pc'[l] = "running"
  PROVE  StackInv'
<1>1. \A i \in DOMAIN stack : stack[i][1] = "load" => pc'[stack[i][2]] = "running"
  BY FramesOfStack DEF StackInv
<1> QED
  BY <1>1 DEF StackInv

LEMMA StackStep ==
  ASSUME IInv, [Next]_vars
  PROVE  StackInv'
<1>1. TypeOK /\ StackInv /\ StopInv /\ GoneIsIdle /\ PassedInv
  BY DEF IInv
<1> USE <1>1
<1>2. CASE Quiet
  BY <1>2, StackSame DEF Quiet
<1>3. ASSUME NEW k \in Loaders, Start(k), ~CallRuns(k), UNCHANGED stack
      PROVE  StackInv'
  <2>1. \A l \in Loaders : l # k => pc'[l] = pc[l]
    BY <1>3, StartType
  <2> QED
    BY <1>3, <2>1, StackSame
<1>4. CASE Plug
  <2>1. <<plugs + 1, "main">> \in Loaders /\ plugs + 1 \notin items
    BY <1>4 DEF Plug, TypeOK, Loaders, Devices, Parts
  <2>2. ~CallRuns(<<plugs + 1, "main">>)
    BY <2>1 DEF GoneIsIdle, Exists
  <2> QED
    BY <1>3, <1>4, <2>1, <2>2 DEF Plug, gui
<1>5. CASE Clear
  <2>1. stop.dev \in Devices /\ <<stop.dev, "archive">> \in Loaders
    BY <1>5, ItemsAreDevices DEF Clear, Stopped, StopInv, Loaders, Parts
  <2>2. UNCHANGED stack
    BY <1>5 DEF Clear
  <2>3. CASE Start(<<stop.dev, "archive">>) /\ AllStopped
    <3>1. ~CallRuns(<<stop.dev, "archive">>)
      BY <1>5, <2>3 DEF Clear, Stopped, AllStopped, PassedInv, Idle
    <3> QED
      BY <1>3, <2>1, <2>2, <2>3, <3>1
  <2>4. CASE UNCHANGED threads
    BY <2>2, <2>4, StackSame DEF threads
  <2> QED
    BY <1>5, <2>3, <2>4 DEF Clear
<1>6. CASE StopWaits \/ StopTimeout
  BY <1>6, DropSteps, StackSame
<1>7. CASE FinishCall
  <2>1. stack # <<>> /\ Pop /\ Top[1] = "load"
    BY <1>7 DEF FinishCall
  <2>2. Top[2] \in Loaders /\ \A l \in Loaders : l # Top[2] => pc'[l] = pc[l]
    BY <1>7, <2>1, TopLoads DEF FinishCall, TypeOK
  <2>3. /\ DOMAIN stack' \subseteq DOMAIN stack /\ Len(stack) \in DOMAIN stack \ DOMAIN stack'
        /\ Top = stack[Len(stack)]
        /\ \A i \in DOMAIN stack' : stack'[i] = stack[i]
    BY <2>1, PopCall
  <2>4. \A i \in DOMAIN stack' : stack[i][1] = "load" => stack[i][2] # Top[2]
    <3> SUFFICES ASSUME NEW i \in DOMAIN stack', stack[i][1] = "load", stack[i][2] = Top[2]
                 PROVE  FALSE
      OBVIOUS
    <3>1. i \in DOMAIN stack /\ i # Len(stack)
      BY <2>3
    <3>2. stack[i] = <<"load", Top[2]>> /\ Top = <<"load", Top[2]>>
      BY <2>1, <2>3, <3>1, FramesOfStack
    <3> QED
      BY <2>3, <3>1, <3>2 DEF StackInv
  <2>5. \A i \in DOMAIN stack' : stack'[i][1] = "load" => pc'[stack'[i][2]] = "running"
    BY <2>2, <2>3, <2>4, FramesOfStack DEF StackInv
  <2> QED
    BY <2>3, <2>5 DEF StackInv
<1>8. CASE EndEdit
  <2>1. stack # <<>> /\ Pop /\ UNCHANGED pc
    BY <1>8 DEF EndEdit, threads
  <2> QED
    BY <2>1, PopCall DEF StackInv
<1>9. ASSUME NEW k \in Loaders, ThreadStep(k)
      PROVE  StackInv'
  <2>1. pc[k] # "running" /\ UNCHANGED stack /\ \A l \in Loaders : l # k => pc'[l] = pc[l]
    BY <1>9 DEF ThreadStep, Check, Post, Final, gui, TypeOK
  <2> QED
    BY <2>1, StackSame
<1>10. ASSUME NEW k \in Loaders, RunCall(k)
       PROVE  StackInv'
  <2>1. /\ <<"load", k>> \in Frames /\ <<"load", k>>[1] = "load" /\ <<"load", k>>[2] = k
        /\ stack' = Append(stack, <<"load", k>>) /\ pc[k] = "queued"
        /\ pc' = [pc EXCEPT ![k] = "running"]
    BY <1>10 DEF RunCall, Frames
  <2>2. /\ DOMAIN stack = 1 .. Len(stack) /\ DOMAIN stack' = 1 .. Len(stack) + 1
        /\ Len(stack) \in Nat /\ stack'[Len(stack) + 1] = <<"load", k>>
        /\ \A i \in DOMAIN stack : stack'[i] = stack[i]
    BY <2>1, PushCall
  <2>3. \A i \in DOMAIN stack : stack[i][1] = "load" =>
          stack[i][2] \in Loaders /\ pc[stack[i][2]] = "running" /\ stack[i][2] # k
    BY <2>1, FramesOfStack DEF StackInv
  <2>4. \A i \in DOMAIN stack' : i \in DOMAIN stack \/ i = Len(stack) + 1
    BY <2>2
  <2>5. pc'[k] = "running" /\ \A l \in Loaders : l # k => pc'[l] = pc[l]
    BY <2>1 DEF TypeOK
  <2>6. \A i \in DOMAIN stack' : stack'[i][1] = "load" => pc'[stack'[i][2]] = "running"
    BY <2>1, <2>2, <2>3, <2>4, <2>5
  <2>7. \A i, j \in DOMAIN stack' : stack'[i][1] = "load" /\ stack'[i] = stack'[j] => i = j
    BY <2>1, <2>2, <2>3, <2>4 DEF StackInv
  <2> QED
    BY <2>6, <2>7 DEF StackInv
<1>11. ASSUME NEW k \in Loaders, StartEdit(k)
       PROVE  StackInv'
  <2>1. /\ <<"edit", k>> \in Frames /\ <<"edit", k>>[1] = "edit"
        /\ stack' = Append(stack, <<"edit", k>>) /\ UNCHANGED pc
    BY <1>11 DEF StartEdit, Frames, threads
  <2>2. /\ DOMAIN stack = 1 .. Len(stack) /\ DOMAIN stack' = 1 .. Len(stack) + 1
        /\ Len(stack) \in Nat /\ stack'[Len(stack) + 1] = <<"edit", k>>
        /\ \A i \in DOMAIN stack : stack'[i] = stack[i]
    BY <2>1, PushCall
  <2>3. \A i \in DOMAIN stack' : i \in DOMAIN stack \/ i = Len(stack) + 1
    BY <2>2
  <2> QED
    BY <2>1, <2>2, <2>3 DEF StackInv
<1>12. ASSUME NEW d \in Devices, Expand(d)
       PROVE  StackInv'
  <2>1. <<d, "archive">> \in Loaders /\ UNCHANGED stack
    BY <1>12 DEF Expand, Loaders, Parts, gui
  <2>2. CASE Start(<<d, "archive">>) /\ pc[<<d, "archive">>] = "idle"
    <3>1. \A l \in Loaders : pc[l] = "running" => pc'[l] = "running"
      BY <2>1, <2>2, StartType
    <3> QED
      BY <2>1, <3>1, StackSame
  <2>3. CASE UNCHANGED threads
    BY <2>1, <2>3, StackSame DEF threads
  <2> QED
    BY <1>12, <2>2, <2>3 DEF Expand, Load
<1> QED
  BY <1>2, <1>4, <1>5, <1>6, <1>7, <1>8, <1>9, <1>10, <1>11, <1>12, QuietSteps DEF Next, StopStep

-----------------------------------------------------------------------------
(***************************************************************************)
(* The stop under way works on an item that is there.                      *)
(***************************************************************************)
LEMMA NoStopKept ==
  ASSUME stop' = NoStop, quitting' => stack' = <<>>
  PROVE  StopInv'
BY NoStopIsNone DEF StopInv, NoStop

LEMMA StopBegun ==
  ASSUME TypeOK, NEW why \in Reasons \ {"none"}, NEW d \in Devices, BeginStop(why, d),
         d \in items', quitting' => stack' = <<>> /\ why = "quit", why = "quit" => quitting',
         why = "collapse" => d \in archives', why = "remove" => Stale(d)'
  PROVE  StopInv'
BY BeginType DEF StopInv, First, Reasons

\* While calls are pending, the oldest item is of a device that is gone.
LEMMA OldestIsStale ==
  ASSUME IInv, AtLoop, removals > 0, NEW d \in items, Oldest(d)
  PROVE  Stale(d)
<1>1. Cardinality({e \in items : Stale(e)}) = removals
  BY NoStopIsNone DEF IInv, CountInv, RemovalsMatchItems, AtLoop, TypeOK
<1>2. PICK e \in items : Stale(e)
  <2> SUFFICES ASSUME {e \in items : Stale(e)} = {} PROVE FALSE
    OBVIOUS
  <2>1. Cardinality({e \in items : Stale(e)}) = 0
    BY FS_EmptySet
  <2> QED
    BY <1>1, <2>1
<1>3. d <= e /\ d \in Nat /\ e \in Nat /\ e <= plugs /\ plugs \in Nat
  BY DEF Oldest, IInv, TypeOK
<1> QED
  BY <1>2, <1>3 DEF Stale

LEMMA StopInvStep ==
  ASSUME IInv, [Next]_vars
  PROVE  StopInv'
<1>1. TypeOK /\ StopInv
  BY DEF IInv
<1> USE <1>1
<1>2. CASE Plug \/ FinishCall \/ EndEdit
  BY <1>2, NoStopKept DEF Plug, FinishCall, EndEdit, AtLoop, gui
<1>3. CASE Quit
  BY <1>3, NoStopKept DEF Quit, AtLoop
<1>4. CASE Unplug
  <2>1. UNCHANGED <<stop, items, archives, quitting, stack, plugs>> /\ ~plugged'
    BY <1>4 DEF Unplug, gui
  <2>2. \A d : Stale(d)'
    BY <2>1 DEF Stale
  <2> QED
    BY <2>1, <2>2 DEF StopInv
<1>5. CASE RemoveDevice
  <2>1. CASE items = {}
    BY <1>5, <2>1, NoStopKept DEF RemoveDevice, AtLoop
  <2>2. CASE items # {}
    <3>1. PICK d \in items : Oldest(d) /\ BeginStop("remove", d)
      BY <1>5, <2>2 DEF RemoveDevice
    <3>2. UNCHANGED <<items, plugged, plugs, quitting>> /\ ~quitting
      BY <1>5 DEF RemoveDevice, port, AtLoop
    <3>3. Stale(d)
      BY <1>5, <3>1, OldestIsStale DEF RemoveDevice
    <3>4. Stale(d)'
      BY <3>2, <3>3 DEF Stale
    <3> QED
      BY <3>1, <3>2, <3>4, StopBegun, ItemsAreDevices DEF Reasons
  <2> QED
    BY <2>1, <2>2
<1>6. CASE Remove \/ Clear \/ Destroyed
  BY <1>6, NoStopKept DEF Remove, Clear, Destroyed, StopInv
<1>7. CASE StopStep
  <2>1. UNCHANGED <<items, archives, plugged, plugs, quitting, stack>>
    BY <1>7 DEF StopStep, StopRefused, StopWaits, StopDone, StopTimeout, port, list
  <2>2. \A d : Stale(d) => Stale(d)'
    BY <2>1 DEF Stale
  <2>3. CASE StopWaits
    BY <2>1, <2>2, <2>3 DEF StopWaits, StopInv
  <2>4. ASSUME NEW ok \in BOOLEAN, NextPart(ok), Stopping
        PROVE  StopInv'
    <3>1. stop.why # "none"
      BY <2>4, TargetIsLoader
    <3>2. stop'.why = stop.why /\ stop'.dev = stop.dev /\ stop'.part = After(stop.why, stop.part)
      BY <2>4, NextPartType
    <3>3. stop.why = "collapse" => stop'.part = "done"
      BY <3>2 DEF After
    <3> QED
      BY <2>1, <2>2, <3>1, <3>2, <3>3 DEF StopInv
  <2> QED
    BY <1>7, <2>3, <2>4 DEF StopStep, StopRefused, StopDone, StopTimeout
<1>8. ASSUME NEW k \in Loaders, ThreadStep(k)
      PROVE  StopInv'
  <2>1. UNCHANGED <<items, archives, plugged, plugs, quitting, stack, stop>>
    BY <1>8 DEF ThreadStep, Check, Post, Final, port, list, gui
  <2> QED
    BY <2>1 DEF StopInv, Stale
<1>9. ASSUME NEW k \in Loaders, RunCall(k) \/ StartEdit(k)
      PROVE  StopInv'
  BY <1>9, NoStopKept DEF RunCall, StartEdit, AtLoop
<1>10. ASSUME NEW d \in Devices, Expand(d)
       PROVE  StopInv'
  BY <1>10, NoStopKept DEF Expand, AtLoop, gui
<1>11. ASSUME NEW d \in Devices, Collapse(d) \/ CollapseAgain(d)
       PROVE  StopInv'
  <2>1. /\ BeginStop("collapse", d) /\ d \in archives /\ ~quitting
        /\ UNCHANGED <<list, quitting>>
    BY <1>11 DEF Collapse, CollapseAgain, AtLoop
  <2>2. d \in archives' /\ d \in items' /\ ~quitting'
    BY <2>1 DEF list, TypeOK
  <2> QED
    BY <2>1, <2>2, StopBegun DEF Reasons
<1>12. ASSUME NEW d \in Devices, Destroy(d)
       PROVE  StopInv'
  BY <1>12, StopBegun DEF Destroy, list, Reasons, StopInv
<1>13. CASE UNCHANGED vars
  BY <1>13 DEF vars, port, list, gui, StopInv, Stale
<1> QED
  BY <1>2, <1>3, <1>4, <1>5, <1>6, <1>7, <1>8, <1>9, <1>10, <1>11, <1>12, <1>13 DEF Next

-----------------------------------------------------------------------------
(***************************************************************************)
(* The Archive: what it shows and what is still to be loaded.              *)
(***************************************************************************)
Archive(d) == <<d, "archive">>

FolderInv == LoadInv /\ CollapsedIsEmpty

LEMMA ArchiveIsLoader ==
  ASSUME NEW d \in Devices
  PROVE  Archive(d) \in Loaders /\ Archive(d)[1] = d /\ Archive(d)[2] = "archive"
BY DEF Archive, Loaders, Parts

\* Nothing changes for the Archive of d, or its thread just goes on or ends.
SameFolder(d) ==
  /\ kids'[d] = kids[d] /\ name'[d] = name[d] /\ left'[Archive(d)] = left[Archive(d)]
  /\ pc[Archive(d)] = "idle" => pc'[Archive(d)] = "idle"

FolderOf(d) ==
  /\ pc[Archive(d)] # "idle" => kids[d] + left[Archive(d)] <= Files
  /\ name[d] = "expand" => kids[d] = 0 /\ pc[Archive(d)] = "idle"

LEMMA FolderOfAll ==
  /\ FolderInv <=> \A d \in Devices : FolderOf(d)
  /\ FolderInv' <=> \A d \in Devices : FolderOf(d)'
BY DEF FolderInv, FolderOf, LoadInv, CollapsedIsEmpty, Archive

LEMMA FolderSame ==
  ASSUME NEW d \in Devices, FolderOf(d), SameFolder(d)
  PROVE  FolderOf(d)'
BY DEF FolderOf, SameFolder, Archive

\* An empty Archive begins to load.
LEMMA FolderStart ==
  ASSUME TypeOK, FolderInv, NEW d \in Devices, Start(Archive(d)),
         kids' = [kids EXCEPT ![d] = 0], name' = [name EXCEPT ![d] = "loading"]
  PROVE  FolderInv'
<1> SUFFICES ASSUME NEW e \in Devices PROVE FolderOf(e)'
  BY FolderOfAll
<1>1. Archive(d) \in Loaders /\ Archive(e) \in Loaders
  BY ArchiveIsLoader
<1>2. left'[Archive(d)] = Files
  BY <1>1, StartType
<1>3. kids'[d] = 0 /\ name'[d] = "loading"
  BY DEF TypeOK
<1>4. CASE e = d
  BY <1>2, <1>3, <1>4 DEF FolderOf, Archive
<1>5. CASE e # d
  <2>1. Archive(e) # Archive(d)
    BY <1>5 DEF Archive
  <2>2. pc'[Archive(e)] = pc[Archive(e)] /\ left'[Archive(e)] = left[Archive(e)]
    BY <1>1, <2>1, StartType
  <2>3. kids'[e] = kids[e] /\ name'[e] = name[e]
    BY <1>5 DEF TypeOK
  <2>4. SameFolder(e)
    BY <2>2, <2>3 DEF SameFolder
  <2> QED
    BY <2>4, FolderSame, FolderOfAll
<1> QED
  BY <1>4, <1>5

LEMMA FolderStep ==
  ASSUME IInv, [Next]_vars
  PROVE  FolderInv'
<1>1. TypeOK /\ StackInv /\ StopInv /\ PassedInv /\ FolderInv
  BY DEF IInv, FolderInv
<1>2. \A d \in Devices : FolderOf(d)
  BY <1>1, FolderOfAll
<1> USE <1>1
<1>3. ASSUME \A d \in Devices : SameFolder(d)
      PROVE  FolderInv'
  BY <1>2, <1>3, FolderSame, FolderOfAll
<1>4. CASE Quiet
  BY <1>3, <1>4 DEF Quiet, SameFolder
<1>5. CASE StopWaits \/ StopTimeout
  <2>1. \A d \in Devices : SameFolder(d)
    BY <1>5, DropSteps, ArchiveIsLoader DEF SameFolder
  <2> QED
    BY <1>3, <2>1
<1>6. CASE Plug
  <2>1. <<plugs + 1, "main">> \in Loaders /\ UNCHANGED <<kids, name>>
    BY <1>6 DEF Plug, TypeOK, Loaders, Devices, Parts, folder
  <2>2. \A d \in Devices : Archive(d) # <<plugs + 1, "main">>
    BY DEF Archive
  <2>3. \A d \in Devices : SameFolder(d)
    BY <1>6, <2>1, <2>2, StartType, ArchiveIsLoader DEF Plug, SameFolder
  <2> QED
    BY <1>3, <2>3
<1>7. CASE Clear
  <2>1. stop.dev \in Devices /\ stop.why = "collapse" /\ stop.part = "done"
    BY <1>7, ItemsAreDevices DEF Clear, Stopped, StopInv
  <2>2. CASE AllStopped
    <3>1. pc[Archive(stop.dev)] = "idle"
      BY <2>1, <2>2 DEF AllStopped, PassedInv, Idle, Archive
    <3>2. kids' = [kids EXCEPT ![stop.dev] = 0]
      BY <1>7, <2>2 DEF Clear
    <3>3. CASE /\ Start(<<stop.dev, "archive">>)
               /\ name' = [name EXCEPT ![stop.dev] = "loading"]
      BY <2>1, <3>2, <3>3, FolderStart DEF Archive
    <3>4. CASE name' = [name EXCEPT ![stop.dev] = "expand"] /\ UNCHANGED threads
      <4>1. UNCHANGED <<pc, left>>
        BY <3>4 DEF threads
      <4>2. ASSUME NEW d \in Devices
            PROVE  FolderOf(d)'
        <5>1. CASE d = stop.dev
          <6>1. kids'[d] = 0 /\ pc'[Archive(d)] = "idle"
            BY <3>1, <3>2, <4>1, <5>1 DEF TypeOK, Archive
          <6> QED
            BY <6>1 DEF FolderOf, Archive
        <5>2. CASE d # stop.dev
          <6>1. SameFolder(d)
            BY <3>2, <3>4, <4>1, <5>2 DEF SameFolder, TypeOK
          <6> QED
            BY <1>2, <6>1, FolderSame
        <5> QED
          BY <5>1, <5>2
      <4> QED
        BY <4>2, FolderOfAll
    <3> QED
      BY <1>7, <2>2, <3>3, <3>4 DEF Clear
  <2>3. CASE ~AllStopped
    <3>1. UNCHANGED <<pc, left, kids, name>>
      BY <1>7, <2>3 DEF Clear, AllStopped, threads
    <3> QED
      BY <1>3, <3>1 DEF SameFolder
  <2> QED
    BY <2>2, <2>3
<1>8. CASE FinishCall
  <2>1. stack # <<>> /\ Pop /\ Top[1] = "load"
    BY <1>8 DEF FinishCall
  <2> DEFINE l == Top[2]
  <2>2. l \in Loaders /\ pc[l] = "running"
    BY <2>1, TopLoads
  <2>3. l[1] \in Devices /\ l = <<l[1], l[2]>>
    BY <2>2, LoaderParts
  <2>4. UNCHANGED name /\ (left[l] > 0 \/ UNCHANGED <<left, kids>>)
    BY <1>8 DEF FinishCall
  <2>5. \A k \in Loaders : k # l => pc'[k] = pc[k] /\ left'[k] = left[k]
    BY <1>8, <2>2 DEF FinishCall, TypeOK
  <2>6. \A d \in Devices : ~(l[2] = "archive" /\ d = l[1]) => kids'[d] = kids[d]
    BY <1>8, <2>3 DEF FinishCall, TypeOK
  <2>7. l[2] = "archive" /\ left[l] > 0 =>
          left'[l] = left[l] - 1 /\ kids'[l[1]] \in {kids[l[1]], kids[l[1]] + 1}
    BY <1>8, <2>2, <2>3 DEF FinishCall, TypeOK
  <2>8. left[l] \in Nat /\ kids[l[1]] \in Nat
    BY <2>2, <2>3 DEF TypeOK
  <2> HIDE DEF l
  <2>9. ASSUME NEW d \in Devices
        PROVE  FolderOf(d)'
    <3>1. CASE Archive(d) = l
      <4>1. d = l[1] /\ l[2] = "archive"
        BY <3>1, ArchiveIsLoader
      <4>2. kids[d] + left[l] <= Files /\ name[d] # "expand"
        BY <1>2, <2>2, <3>1 DEF FolderOf
      <4>3. kids'[d] + left'[l] <= Files
        BY <2>4, <2>7, <2>8, <4>1, <4>2
      <4> QED
        BY <2>4, <3>1, <4>2, <4>3 DEF FolderOf, Archive
    <3>2. CASE Archive(d) # l
      <4>1. ~(l[2] = "archive" /\ d = l[1])
        BY <2>3, <3>2 DEF Archive
      <4>2. SameFolder(d)
        BY <2>4, <2>5, <2>6, <3>2, <4>1, ArchiveIsLoader DEF SameFolder
      <4> QED
        BY <1>2, <4>2, FolderSame
    <3> QED
      BY <3>1, <3>2
  <2> QED
    BY <2>9, FolderOfAll
<1>9. CASE EndEdit
  <2>1. UNCHANGED <<pc, left, name>>
    BY <1>9 DEF EndEdit, threads
  <2>2. CASE UNCHANGED kids
    BY <1>3, <2>1, <2>2 DEF SameFolder
  <2>3. CASE /\ kids[Top[2][1]] > 0
             /\ kids' = [kids EXCEPT ![Top[2][1]] = @ - 1]
    <3>1. Top[2][1] \in Devices
      BY <1>9, TopInFrames, LoaderParts DEF EndEdit
    <3>2. ASSUME NEW d \in Devices
          PROVE  FolderOf(d)'
      <4>1. /\ kids[d] \in Nat /\ kids'[d] \in {kids[d], kids[d] - 1}
            /\ kids'[d] # kids[d] => kids[d] # 0
        BY <2>3, <3>1 DEF TypeOK
      <4>2. left[Archive(d)] \in Nat
        BY ArchiveIsLoader DEF TypeOK
      <4>3. pc'[Archive(d)] = pc[Archive(d)] /\ left'[Archive(d)] = left[Archive(d)]
            /\ name'[d] = name[d]
        BY <2>1
      <4>4. pc'[Archive(d)] # "idle" => kids'[d] + left'[Archive(d)] <= Files
        BY <1>2, <4>1, <4>2, <4>3 DEF FolderOf
      <4>5. name'[d] = "expand" => kids'[d] = 0 /\ pc'[Archive(d)] = "idle"
        BY <1>2, <4>1, <4>3 DEF FolderOf
      <4> QED
        BY <4>4, <4>5 DEF FolderOf, Archive
    <3> QED
      BY <3>2, FolderOfAll
  <2> QED
    BY <1>9, <2>2, <2>3 DEF EndEdit
<1>10. ASSUME NEW k \in Loaders, Final(k)
       PROVE  FolderInv'
  <2>1. UNCHANGED <<kids, left>>
    BY <1>10 DEF Final
  <2>2. pc'[k] = "idle" /\ \A l \in Loaders : l # k => pc'[l] = pc[l]
    BY <1>10 DEF Final, TypeOK
  <2>3. \A d \in Devices : name'[d] = name[d] \/ name'[d] = "loaded"
    BY <1>10 DEF Final, TypeOK
  <2>4. ASSUME NEW d \in Devices
        PROVE  FolderOf(d)'
    <3>1. pc'[Archive(d)] \in {"idle", pc[Archive(d)]}
      BY <2>2, ArchiveIsLoader
    <3> QED
      BY <1>2, <2>1, <2>3, <3>1 DEF FolderOf, Archive
  <2> QED
    BY <2>4, FolderOfAll
<1>11. ASSUME NEW k \in Loaders, Check(k) \/ Post(k) \/ RunCall(k) \/ StartEdit(k)
       PROVE  FolderInv'
  <2>1. UNCHANGED <<kids, left, name>>
    BY <1>11 DEF Check, Post, RunCall, StartEdit, folder, threads
  <2>2. \A l \in Loaders : pc[l] = "idle" => pc'[l] = "idle"
    BY <1>11 DEF Check, Post, RunCall, StartEdit, TypeOK, threads
  <2>3. \A d \in Devices : SameFolder(d)
    BY <2>1, <2>2, ArchiveIsLoader DEF SameFolder
  <2> QED
    BY <1>3, <2>3
<1>12. ASSUME NEW d \in Devices, Expand(d)
       PROVE  FolderInv'
  <2>1. UNCHANGED kids
    BY <1>12 DEF Expand
  <2>2. CASE /\ kids[d] = 0 /\ Start(<<d, "archive">>)
             /\ name' = [name EXCEPT ![d] = "loading"]
    <3>1. kids' = [kids EXCEPT ![d] = 0]
      BY <2>1, <2>2 DEF TypeOK
    <3> QED
      BY <2>2, <3>1, FolderStart DEF Archive
  <2>3. CASE UNCHANGED <<threads, name>>
    BY <1>3, <2>1, <2>3 DEF threads, SameFolder
  <2> QED
    BY <1>12, <2>2, <2>3 DEF Expand, Load
<1> QED
  BY <1>4, <1>5, <1>6, <1>7, <1>8, <1>9, <1>10, <1>11, <1>12, QuietSteps
     DEF Next, StopStep, ThreadStep

-----------------------------------------------------------------------------
(***************************************************************************)
(* Removals and the items they are for.                                    *)
(***************************************************************************)
StaleItems == {d \in items : Stale(d)}

Removing == IF stop.why = "remove" THEN 1 ELSE 0

LEMMA StaleIsFinite ==
  ASSUME TypeOK
  PROVE  IsFiniteSet(StaleItems) /\ Cardinality(StaleItems) \in Nat
<1>1. IsFiniteSet(1 .. plugs)
  BY FS_Interval DEF TypeOK
<1>2. StaleItems \subseteq 1 .. plugs
  BY DEF StaleItems, TypeOK
<1> QED
  BY <1>1, <1>2, FS_Subset, FS_CardinalityType

LEMMA CountParts ==
  /\ RemovalsMatchItems <=> (~quitting => Cardinality(StaleItems) = removals + Removing)
  /\ RemovalsMatchItems' <=> (~quitting' => Cardinality(StaleItems') = removals' + Removing')
BY DEF RemovalsMatchItems, StaleItems, Removing

LEMMA CountSame ==
  ASSUME CountInv, UNCHANGED <<items, plugged, plugs, removals, quitting>>,
         stop'.why = "remove" <=> stop.why = "remove"
  PROVE  CountInv'
<1>1. StaleItems' = StaleItems
  BY DEF StaleItems, Stale
<1>2. Removing' = Removing
  BY DEF Removing
<1> QED
  BY <1>1, <1>2, CountParts DEF CountInv, PluggedIsShown

LEMMA CountStep ==
  ASSUME IInv, [Next]_vars
  PROVE  CountInv'
<1>1. TypeOK /\ StopInv /\ CountInv
  BY DEF IInv
<1> USE <1>1
<1>2. removals \in Nat /\ plugs \in Nat /\ items \subseteq 1 .. plugs
  BY DEF TypeOK
<1>3. CASE quitting'
  BY <1>3, CountParts DEF CountInv, PluggedIsShown
<1>4. CASE Plug
  <2>1. /\ ~plugged /\ plugged' /\ plugs' = plugs + 1 /\ items' = items \cup {plugs + 1}
        /\ UNCHANGED <<removals, stop, quitting>> /\ ~quitting
    BY <1>4 DEF Plug, gui, AtLoop
  <2>2. StaleItems = items
    BY <2>1 DEF StaleItems, Stale
  <2>3. StaleItems' = {d \in items' : d # plugs + 1}
    BY <2>1 DEF StaleItems, Stale
  <2>4. {d \in items \cup {plugs + 1} : d # plugs + 1} = items
    BY <1>2
  <2>5. StaleItems' = StaleItems
    BY <2>1, <2>2, <2>3, <2>4
  <2>6. Removing' = Removing
    BY <2>1 DEF Removing
  <2> QED
    BY <2>1, <2>5, <2>6, CountParts DEF CountInv, PluggedIsShown
<1>5. CASE Unplug
  <2>1. /\ plugged /\ ~plugged' /\ ~quitting /\ removals' = removals + 1
        /\ UNCHANGED <<plugs, items, stop, quitting>>
    BY <1>5 DEF Unplug, gui
  <2>2. plugs \in items
    BY <2>1 DEF CountInv, PluggedIsShown
  <2>3. StaleItems' = items /\ StaleItems = {d \in items : d # plugs}
    BY <2>1 DEF StaleItems, Stale
  <2>4. StaleItems' = StaleItems \cup {plugs} /\ plugs \notin StaleItems
    BY <2>2, <2>3
  <2>5. Cardinality(StaleItems') = Cardinality(StaleItems) + 1
    BY <2>4, StaleIsFinite, FS_AddElement
  <2>6. Removing' = Removing /\ Removing \in Nat
    BY <2>1 DEF Removing
  <2>7. Cardinality(StaleItems) = removals + Removing
    BY <2>1, CountParts DEF CountInv
  <2>8. Cardinality(StaleItems') = removals' + Removing'
    BY <1>2, <2>1, <2>5, <2>6, <2>7
  <2> QED
    BY <2>1, <2>8, CountParts DEF CountInv, PluggedIsShown
<1>6. CASE RemoveDevice
  <2>1. /\ removals > 0 /\ removals' = removals - 1 /\ ~quitting
        /\ UNCHANGED <<items, plugged, plugs, quitting>>
    BY <1>6 DEF RemoveDevice, AtLoop, port
  <2>2. Removing = 0
    BY <1>6, NoStopIsNone DEF Removing, RemoveDevice, AtLoop
  <2>3. Cardinality(StaleItems) = removals
    BY <1>2, <2>1, <2>2, CountParts DEF CountInv
  <2>4. items # {}
    <3> SUFFICES ASSUME items = {} PROVE FALSE
      OBVIOUS
    <3>1. StaleItems = {}
      BY DEF StaleItems
    <3> QED
      BY <2>1, <2>3, <3>1, FS_EmptySet
  <2>5. stop'.why = "remove"
    BY <1>6, <2>4 DEF RemoveDevice, BeginStop
  <2>6. StaleItems' = StaleItems /\ Removing' = 1
    BY <2>1, <2>5 DEF StaleItems, Stale, Removing
  <2>7. Cardinality(StaleItems') = removals' + Removing'
    BY <1>2, <2>1, <2>3, <2>6
  <2> QED
    BY <2>1, <2>7, CountParts DEF CountInv, PluggedIsShown
<1>7. CASE Remove
  <2>1. /\ stop.why = "remove" /\ stop' = NoStop
        /\ UNCHANGED <<plugged, plugs, quitting>>
    BY <1>7 DEF Remove, Stopped, port
  <2>2. stop.dev \in StaleItems /\ ~quitting
    BY <2>1 DEF StopInv, StaleItems
  <2>3. Cardinality(StaleItems) = removals + 1 /\ Removing' = 0
    BY <2>1, <2>2, NoStopIsNone, CountParts DEF CountInv, Removing
  <2>4. CASE AllStopped
    <3>1. items' = items \ {stop.dev} /\ UNCHANGED removals
      BY <1>7, <2>4 DEF Remove
    <3>2. StaleItems' = StaleItems \ {stop.dev}
      BY <2>1, <3>1 DEF StaleItems, Stale
    <3>3. Cardinality(StaleItems') = Cardinality(StaleItems) - 1
      BY <2>2, <3>2, StaleIsFinite, FS_RemoveElement
    <3>4. Cardinality(StaleItems') = removals' + Removing'
      BY <1>2, <2>3, <3>1, <3>3
    <3>5. plugged => stop.dev # plugs
      BY <2>2 DEF StaleItems, Stale
    <3> QED
      BY <2>1, <2>2, <3>1, <3>4, <3>5, CountParts DEF CountInv, PluggedIsShown
  <2>5. CASE ~AllStopped
    <3>1. UNCHANGED items /\ removals' = removals + 1
      BY <1>7, <2>5 DEF Remove, Retry, AllStopped
    <3>2. StaleItems' = StaleItems
      BY <2>1, <3>1 DEF StaleItems, Stale
    <3>3. Cardinality(StaleItems') = removals' + Removing'
      BY <1>2, <2>3, <3>1, <3>2
    <3> QED
      BY <2>1, <2>2, <3>1, <3>3, CountParts DEF CountInv, PluggedIsShown
  <2> QED
    BY <2>4, <2>5
<1>8. CASE Clear
  <2>1. stop.why = "collapse" /\ stop'.why = "none"
    BY <1>8, NoStopIsNone DEF Clear, Stopped
  <2>2. UNCHANGED <<items, plugged, plugs, removals, quitting>>
    BY <1>8 DEF Clear, port, list
  <2> QED
    BY <2>1, <2>2, CountSame
<1>9. CASE StopStep
  <2>1. stop'.why = stop.why
    BY <1>9, NextPartType DEF StopStep, StopRefused, StopWaits, StopDone, StopTimeout
  <2>2. UNCHANGED <<items, plugged, plugs, removals, quitting>>
    BY <1>9 DEF StopStep, StopRefused, StopWaits, StopDone, StopTimeout, port, list
  <2> QED
    BY <2>1, <2>2, CountSame
<1>10. CASE Destroyed \/ Quit
  <2>1. quitting'
    BY <1>10 DEF Destroyed, Quit, Stopped, StopInv
  <2> QED
    BY <1>3, <2>1
<1>11. CASE FinishCall \/ EndEdit
  BY <1>11, CountSame DEF FinishCall, EndEdit, port, list
<1>12. ASSUME NEW k \in Loaders, ThreadStep(k) \/ RunCall(k) \/ StartEdit(k)
       PROVE  CountInv'
  BY <1>12, CountSame DEF ThreadStep, Check, Post, Final, RunCall, StartEdit, port, list, gui
<1>13. ASSUME NEW d \in Devices, Expand(d)
       PROVE  CountInv'
  BY <1>13, CountSame DEF Expand, port, list, gui
<1>14. ASSUME NEW d \in Devices, Collapse(d) \/ CollapseAgain(d)
       PROVE  CountInv'
  <2>1. stop.why = "none" /\ stop'.why = "collapse"
    BY <1>14, NoStopIsNone DEF Collapse, CollapseAgain, AtLoop, BeginStop
  <2>2. UNCHANGED <<items, plugged, plugs, removals, quitting>>
    BY <1>14 DEF Collapse, CollapseAgain, port, list
  <2> QED
    BY <2>1, <2>2, CountSame
<1>15. ASSUME NEW d \in Devices, Destroy(d)
       PROVE  CountInv'
  BY <1>3, <1>15 DEF Destroy
<1>16. CASE UNCHANGED vars
  BY <1>16, CountSame DEF vars, port, list, gui
<1> QED
  BY <1>4, <1>5, <1>6, <1>7, <1>8, <1>9, <1>10, <1>11, <1>12, <1>13, <1>14, <1>15, <1>16 DEF Next

-----------------------------------------------------------------------------
(***************************************************************************)
(* DeviceLoad implements DeviceLife.                                       *)
(***************************************************************************)
LEMMA UsedItems ==
  /\ \A d : d \in InUse <=> d \in Devices /\ \E p \in Parts : ~Idle(<<d, p>>)
  /\ \A d : d \in InUse' <=> d \in Devices /\ \E p \in Parts : ~Idle(<<d, p>>)'
BY DEF InUse, Idle

\* The items of the one port change as their numbers do.
LEMMA PortItems ==
  ASSUME NEW d
  PROVE  /\ <<"usb", d>> \in ItemsOf(items) <=> d \in items
         /\ <<"usb", d>> \in ItemsOf(InUse) <=> d \in InUse
         /\ items' = items \cup {d} => ItemsOf(items)' = ItemsOf(items) \cup {<<"usb", d>>}
         /\ items' = items \ {d} => ItemsOf(items)' = ItemsOf(items) \ {<<"usb", d>>}
         /\ InUse' = InUse \cup {d} => ItemsOf(InUse)' = ItemsOf(InUse) \cup {<<"usb", d>>}
         /\ InUse' = InUse \ {d} => ItemsOf(InUse)' = ItemsOf(InUse) \ {<<"usb", d>>}
BY DEF ItemsOf

LEMMA SameItems ==
  /\ items' = items => ItemsOf(items)' = ItemsOf(items)
  /\ InUse' = InUse => ItemsOf(InUse)' = ItemsOf(InUse)
BY DEF ItemsOf

\* When at most one loader begins or ends, so does at most the use of its item.
LEMMA OneLoaderUse ==
  ASSUME NEW k \in Loaders, \A l \in Loaders : l # k => (Idle(l)' <=> Idle(l))
  PROVE  \/ InUse' = InUse
         \/ Idle(k) /\ ~Idle(k)' /\ InUse' = InUse \cup {k[1]}
         \/ k[1] \in InUse /\ InUse' = InUse \ {k[1]}
<1>1. k[1] \in Devices /\ k[2] \in Parts /\ k = <<k[1], k[2]>>
  BY LoaderParts
<1>2. \A d \in Devices, p \in Parts : <<d, p>> \in Loaders /\ (d # k[1] => <<d, p>> # k)
  BY <1>1 DEF Loaders
<1>3. \A d : d # k[1] => (d \in InUse' <=> d \in InUse)
  BY <1>2, UsedItems
<1>4. CASE k[1] \in InUse' <=> k[1] \in InUse
  BY <1>3, <1>4
<1>5. CASE k[1] \in InUse' /\ k[1] \notin InUse
  <2>1. \A p \in Parts : Idle(<<k[1], p>>)
    BY <1>1, <1>5, UsedItems
  <2>2. PICK p \in Parts : ~Idle(<<k[1], p>>)'
    BY <1>5, UsedItems
  <2>3. <<k[1], p>> = k
    BY <1>1, <1>2, <2>1, <2>2
  <2>4. Idle(k) /\ ~Idle(k)'
    BY <2>1, <2>2, <2>3
  <2>5. InUse' = InUse \cup {k[1]}
    BY <1>3, <1>5
  <2> QED
    BY <2>4, <2>5
<1>6. CASE k[1] \notin InUse' /\ k[1] \in InUse
  BY <1>3, <1>6
<1> QED
  BY <1>4, <1>5, <1>6

\* The item stays, and one loader begins or ends.
LEMMA OneLoaderLife ==
  ASSUME IInv, [Next]_vars, UNCHANGED <<plugged, plugs, items, quitting>>,
         NEW k \in Loaders, \A l \in Loaders : l # k => (Idle(l)' <=> Idle(l))
  PROVE  [Life!Next]_(Life!vars)
<1>1. ItemsOf(items)' = ItemsOf(items)
  BY SameItems
<1>2. CASE InUse' = InUse
  BY <1>1, <1>2, SameItems DEF Life!vars
<1>3. CASE Idle(k) /\ ~Idle(k)' /\ InUse' = InUse \cup {k[1]}
  <2>1. k[1] \in items
    BY <1>3, WhoStarts DEF Exists
  <2>2. <<"usb", k[1]>> \in ItemsOf(items)
    BY <2>1, PortItems
  <2>3. ItemsOf(InUse)' = ItemsOf(InUse) \cup {<<"usb", k[1]>>}
    BY <1>3, PortItems, SameItems
  <2>4. Life!Use(<<"usb", k[1]>>)
    BY <1>1, <2>2, <2>3 DEF Life!Use
  <2> QED
    BY <2>2, <2>4 DEF Life!Next
<1>4. CASE k[1] \in InUse /\ InUse' = InUse \ {k[1]}
  <2>1. <<"usb", k[1]>> \in ItemsOf(InUse)
    BY <1>4, PortItems
  <2>2. ItemsOf(InUse)' = ItemsOf(InUse) \ {<<"usb", k[1]>>}
    BY <1>4, PortItems, SameItems
  <2>3. Life!Free(<<"usb", k[1]>>)
    BY <1>1, <2>1, <2>2 DEF Life!Free
  <2> QED
    BY <2>1, <2>3 DEF Life!Next
<1> QED
  BY <1>2, <1>3, <1>4, OneLoaderUse

LEMMA SameUse ==
  ASSUME \A l \in Loaders : Idle(l)' <=> Idle(l)
  PROVE  InUse' = InUse
<1>1. \A d \in Devices, p \in Parts : <<d, p>> \in Loaders
  BY DEF Loaders
<1>2. \A d : d \in InUse' <=> d \in InUse
  BY <1>1, UsedItems
<1> QED
  BY <1>2

LEMMA LifeStep ==
  ASSUME IInv, [Next]_vars
  PROVE  [Life!Next]_(Life!vars)
<1>1. TypeOK /\ StackInv /\ StopInv /\ GoneIsIdle
  BY DEF IInv
<1> USE <1>1
<1>2. ASSUME \A l \in Loaders : Idle(l)' <=> Idle(l),
             UNCHANGED <<plugged, plugs, items, quitting>>
      PROVE  [Life!Next]_(Life!vars)
  <2>1. InUse' = InUse
    BY <1>2, SameUse
  <2> QED
    BY <1>2, <2>1, SameItems DEF Life!vars
<1>3. Quiet => \A l \in Loaders : Idle(l)' <=> Idle(l)
  BY QuietKeeps
<1>4. CASE Plug
  <2>1. PICK k \in Loaders : k[1] = plugs + 1 /\ k[2] = "main" /\ Start(k)
    <3>1. <<plugs + 1, "main">> \in Loaders
      BY <1>4 DEF Plug, TypeOK, Loaders, Devices, Parts
    <3>2. Start(<<plugs + 1, "main">>)
      BY <1>4 DEF Plug
    <3> QED
      BY <3>1, <3>2
  <2>2. \A l \in Loaders : CallRuns(l)' <=> CallRuns(l)
    BY <1>4, StackKept DEF Plug, gui
  <2>3. pc'[k] = "check" /\ \A l \in Loaders : l # k => pc'[l] = pc[l]
    BY <2>1, StartType
  <2>4. ~Idle(k)'
    BY <2>3 DEF Idle
  <2>5. \A l \in Loaders : l # k => (Idle(l)' <=> Idle(l))
    BY <2>2, <2>3 DEF Idle
  <2>6. InUse' = InUse \cup {plugs + 1}
    <3>1. k[1] \in Devices /\ k[2] \in Parts /\ ~Idle(<<k[1], k[2]>>)'
      BY <2>4, LoaderParts
    <3>2. k[1] \in InUse'
      BY <3>1, UsedItems
    <3> QED
      BY <2>1, <2>5, <3>2, OneLoaderUse
  <2>7. /\ ~plugged /\ plugged' /\ plugs' = plugs + 1 /\ ~quitting /\ ~quitting'
        /\ items' = items \cup {plugs + 1} /\ plugs \in Nat
    BY <1>4 DEF Plug, AtLoop, gui, TypeOK
  <2>8. /\ ItemsOf(items)' = ItemsOf(items) \cup {<<"usb", plugs + 1>>}
        /\ ItemsOf(InUse)' = ItemsOf(InUse) \cup {<<"usb", plugs + 1>>}
    BY <2>6, <2>7, PortItems, SameItems
  <2>9. Life!Plug("usb")
    BY <2>7, <2>8 DEF Life!Plug, Life!Show
  <2> QED
    BY <2>9 DEF Life!Next
<1>5. CASE Unplug
  <2>1. InUse' = InUse
    BY <1>3, <1>5, QuietSteps, SameUse
  <2>2. /\ ~quitting /\ plugged /\ ~plugged' /\ plugs # 0
        /\ UNCHANGED <<plugs, items, quitting>>
    BY <1>5 DEF Unplug, AtLoop, gui, list, IInv, CountInv, PluggedIsShown, TypeOK
  <2>3. Life!Unplug("usb")
    BY <2>1, <2>2, SameItems DEF Life!Unplug
  <2> QED
    BY <2>3 DEF Life!Next
<1>6. CASE Quit
  <2>1. InUse' = InUse
    BY <1>3, <1>6, QuietSteps, SameUse
  <2>2. Life!Quit
    BY <1>6, <2>1, SameItems DEF Quit, AtLoop, port, list, Life!Quit
  <2> QED
    BY <2>2 DEF Life!Next
<1>7. CASE (Remove /\ AllStopped) \/ Destroyed
  <2>1. stop.dev \in Devices /\ stop.dev \in items /\ \A p \in Parts : Idle(<<stop.dev, p>>)
    BY <1>7, RemovedIsIdle
  <2>2. stop.dev \notin InUse
    BY <2>1, UsedItems
  <2>3. InUse' = InUse
    BY <1>3, <1>7, QuietSteps, SameUse
  <2>4. items' = items \ {stop.dev} /\ UNCHANGED <<plugged, plugs, quitting>>
    BY <1>7 DEF Remove, Destroyed, port
  <2>5. ~quitting => Stale(stop.dev)
    BY <1>7 DEF Remove, Destroyed, Stopped, StopInv
  <2>6. ~quitting => Life!Stale(<<"usb", stop.dev>>)
    BY <2>1, <2>5 DEF Stale, Life!Stale, Devices
  <2>7. <<"usb", stop.dev>> \in ItemsOf(items) /\ <<"usb", stop.dev>> \notin ItemsOf(InUse)
    BY <2>1, <2>2, PortItems
  <2>8. /\ ItemsOf(items)' = ItemsOf(items) \ {<<"usb", stop.dev>>}
        /\ ItemsOf(InUse)' = ItemsOf(InUse)
    BY <2>3, <2>4, PortItems, SameItems
  <2>9. Life!Remove(<<"usb", stop.dev>>)
    BY <2>4, <2>6, <2>7, <2>8 DEF Life!Remove
  <2> QED
    BY <2>7, <2>9 DEF Life!Next
<1>8. CASE Remove /\ ~AllStopped
  BY <1>2, <1>3, <1>8, QuietSteps DEF Remove, AllStopped, port
<1>9. CASE RemoveDevice \/ UNCHANGED vars
  BY <1>2, <1>3, <1>9, QuietSteps DEF RemoveDevice, vars, port, list, gui
<1>10. CASE StopStep
  <2>1. UNCHANGED <<plugged, plugs, items, quitting>>
    BY <1>10 DEF StopStep, StopRefused, StopWaits, StopDone, StopTimeout, port, list
  <2>2. CASE StopWaits \/ StopTimeout
    <3>1. \A l \in Loaders : Idle(l)' <=> Idle(l)
      BY <2>2, DropSteps, StackKept DEF Idle
    <3> QED
      BY <1>2, <2>1, <3>1
  <2>3. CASE StopRefused \/ StopDone
    BY <1>2, <1>3, <2>1, <2>3, QuietSteps
  <2> QED
    BY <1>10, <2>2, <2>3 DEF StopStep
<1>11. CASE Clear
  <2>1. stop.dev \in Devices /\ <<stop.dev, "archive">> \in Loaders
    BY <1>11, ItemsAreDevices DEF Clear, Stopped, StopInv, Loaders, Parts
  <2>2. UNCHANGED <<plugged, plugs, items, quitting, stack>>
    BY <1>11 DEF Clear, port, list
  <2>3. \A l \in Loaders : l # <<stop.dev, "archive">> => pc'[l] = pc[l]
    <3>1. CASE Start(<<stop.dev, "archive">>)
      BY <2>1, <3>1, StartType
    <3>2. CASE UNCHANGED threads
      BY <3>2 DEF threads
    <3> QED
      BY <1>11, <3>1, <3>2 DEF Clear
  <2>4. \A l \in Loaders : l # <<stop.dev, "archive">> => (Idle(l)' <=> Idle(l))
    BY <2>2, <2>3, StackKept DEF Idle
  <2> QED
    BY <2>1, <2>2, <2>4, OneLoaderLife
<1>12. CASE FinishCall \/ EndEdit
  <2>1. stack # <<>> /\ Pop /\ Top[2] \in Loaders
    BY <1>12, TopInFrames DEF FinishCall, EndEdit
  <2>2. \A l \in Loaders : l # Top[2] => pc'[l] = pc[l]
    BY <1>12, <2>1 DEF FinishCall, EndEdit, TypeOK, threads
  <2>3. \A l \in Loaders : l # Top[2] => (Idle(l)' <=> Idle(l))
    BY <2>1, <2>2, PopRuns DEF Idle
  <2>4. UNCHANGED <<plugged, plugs, items, quitting>>
    BY <1>12 DEF FinishCall, EndEdit, port, list
  <2> QED
    BY <2>1, <2>3, <2>4, OneLoaderLife
<1>13. ASSUME NEW k \in Loaders, ThreadStep(k) \/ RunCall(k) \/ StartEdit(k)
       PROVE  [Life!Next]_(Life!vars)
  <2>1. UNCHANGED <<plugged, plugs, items, quitting>>
    BY <1>13 DEF ThreadStep, Check, Post, Final, RunCall, StartEdit, port, list, gui
  <2>2. \A l \in Loaders : l # k => pc'[l] = pc[l]
    BY <1>13 DEF ThreadStep, Check, Post, Final, RunCall, StartEdit, TypeOK, threads
  <2>3. \A l \in Loaders : l # k => (CallRuns(l)' <=> CallRuns(l))
    <3>1. CASE ThreadStep(k)
      BY <3>1, StackKept DEF ThreadStep, Check, Post, Final, gui
    <3>2. CASE RunCall(k) \/ StartEdit(k)
      <4>1. PICK f \in Frames : f[2] = k /\ stack' = Append(stack, f)
        BY <3>2 DEF RunCall, StartEdit, Frames
      <4> QED
        BY <4>1, PushRuns
    <3> QED
      BY <1>13, <3>1, <3>2
  <2> QED
    BY <2>1, <2>2, <2>3, OneLoaderLife DEF Idle
<1>14. ASSUME NEW d \in Devices, Expand(d)
       PROVE  [Life!Next]_(Life!vars)
  <2>1. <<d, "archive">> \in Loaders
    BY DEF Loaders, Parts
  <2>2. UNCHANGED <<plugged, plugs, items, quitting, stack>>
    BY <1>14 DEF Expand, port, list, gui
  <2>3. \A l \in Loaders : l # <<d, "archive">> => pc'[l] = pc[l]
    <3>1. CASE Start(<<d, "archive">>)
      BY <2>1, <3>1, StartType
    <3>2. CASE UNCHANGED threads
      BY <3>2 DEF threads
    <3> QED
      BY <1>14, <3>1, <3>2 DEF Expand, Load
  <2>4. \A l \in Loaders : l # <<d, "archive">> => (Idle(l)' <=> Idle(l))
    BY <2>2, <2>3, StackKept DEF Idle
  <2> QED
    BY <2>1, <2>2, <2>4, OneLoaderLife
<1>15. ASSUME NEW d \in Devices, Collapse(d) \/ CollapseAgain(d) \/ Destroy(d)
       PROVE  [Life!Next]_(Life!vars)
  <2>1. UNCHANGED <<plugged, plugs, items, quitting>>
    BY <1>15 DEF Collapse, CollapseAgain, Destroy, port, list
  <2> QED
    BY <1>2, <1>3, <1>15, <2>1, QuietSteps
<1> QED
  BY <1>4, <1>5, <1>6, <1>7, <1>8, <1>9, <1>10, <1>11, <1>12, <1>13, <1>14, <1>15 DEF Next

-----------------------------------------------------------------------------
(***************************************************************************)
(* The theorems.                                                           *)
(***************************************************************************)
LEMMA InitInv ==
  ASSUME Init
  PROVE  IInv
<1>1. TypeOK
  <2>1. <<>> \in Seq(Frames)
    BY EmptySeq
  <2>2. NoStop \in [why : Reasons, dev : 0 .. MaxPlugs, part : Parts \cup {"done"}, ok : BOOLEAN]
    BY DEF NoStop, Reasons
  <2>3. stop.why = "none" <=> stop.dev = 0
    BY NoStopIsNone DEF Init
  <2>4. /\ pc \in [Loaders -> States] /\ left \in [Loaders -> 0 .. Files]
        /\ interrupted \in [Loaders -> BOOLEAN]
    BY DEF Init, States
  <2>5. /\ expanded \in [Devices -> BOOLEAN] /\ kids \in [Devices -> 0 .. Files]
        /\ name \in [Devices -> {"expand", "loading", "loaded"}]
        /\ collapsePending \in [Devices -> BOOLEAN]
    BY DEF Init
  <2>6. /\ plugged \in BOOLEAN /\ items \subseteq 1 .. plugs
        /\ archives \subseteq items /\ quitting \in BOOLEAN
        /\ stack = <<>> /\ stop = NoStop
    BY DEF Init
  <2>7. plugs \in 0 .. MaxPlugs /\ removals \in Nat /\ clicks \in 0 .. MaxClicks
    BY DEF Init
  <2> QED
    BY <2>1, <2>2, <2>3, <2>4, <2>5, <2>6, <2>7 DEF TypeOK, States
<1>2. StackInv /\ GoneIsIdle
  <2>1. DOMAIN stack = {}
    BY EmptySeq DEF Init
  <2> QED
    BY <2>1 DEF Init, StackInv, GoneIsIdle, CallRuns
<1>3. StopInv /\ PassedInv
  BY NoStopIsNone DEF Init, StopInv, PassedInv
<1>4. LoadInv /\ CollapsedIsEmpty
  <2>1. \A d \in Devices : Archive(d) \in Loaders
    BY ArchiveIsLoader
  <2> QED
    BY <2>1 DEF Init, LoadInv, CollapsedIsEmpty, Archive
<1>5. CountInv
  <2>1. StaleItems = {} /\ Removing = 0 /\ removals = 0 /\ ~plugged
    BY NoStopIsNone DEF Init, StaleItems, Removing
  <2> QED
    BY <2>1, FS_EmptySet, CountParts DEF CountInv, PluggedIsShown
<1> QED
  BY <1>1, <1>2, <1>3, <1>4, <1>5 DEF IInv

LEMMA StepInv ==
  ASSUME IInv, [Next]_vars
  PROVE  IInv'
<1>1. FolderInv'
  BY FolderStep
<1> QED
  BY <1>1, TypeStep, StackStep, StopInvStep, PassedStep, GoneStep, CountStep DEF IInv, FolderInv

THEOREM Invariance == Spec => []IInv
<1>1. Init => IInv
  BY InitInv
<1>2. IInv /\ [Next]_vars => IInv'
  BY StepInv
<1> QED
  BY <1>1, <1>2, PTL DEF Spec

\* All state of the devices stays of its type; an Archive never shows more
\* projects than it has files.
THEOREM TypeCorrect == Spec => []TypeOK
<1>1. IInv => TypeOK
  BY DEF IInv
<1> QED
  BY <1>1, Invariance, PTL

\* No thread and no call on the GUI thread's stack works for an item that
\* removeDevice() or the end of the program has deleted.
THEOREM GoneAlwaysIdle == Spec => []GoneIsIdle
<1>1. IInv => GoneIsIdle
  BY DEF IInv
<1> QED
  BY <1>1, Invariance, PTL

\* removeDevice() is due exactly as often as there are items of unplugged devices.
THEOREM RemovalsAlwaysMatch == Spec => []RemovalsMatchItems
<1>1. IInv => RemovalsMatchItems
  BY DEF IInv, CountInv
<1> QED
  BY <1>1, Invariance, PTL

\* The device that is plugged in is in the workspace until the program ends.
THEOREM PluggedAlwaysShown == Spec => []PluggedIsShown
<1>1. IInv => PluggedIsShown
  BY DEF IInv, CountInv
<1> QED
  BY <1>1, Invariance, PTL

\* An Archive that slotCollapsed() has cleared stays empty until it is expanded.
THEOREM CollapsedAlwaysEmpty == Spec => []CollapsedIsEmpty
<1>1. IInv => CollapsedIsEmpty
  BY DEF IInv
<1> QED
  BY <1>1, Invariance, PTL

\* The threads, calls, retries and timers of devices do what DeviceLife promises:
\* an item goes only when it is stale or the program ends, and never in use.
THEOREM ImplementsDeviceLife == Spec => Implements
<1>1. Init => Life!Init
  <2> SUFFICES ASSUME Init PROVE Life!Init
    OBVIOUS
  <2>1. DOMAIN stack = {}
    BY EmptySeq DEF Init
  <2>2. \A d \in Devices, p \in Parts : <<d, p>> \in Loaders
    BY DEF Loaders
  <2>3. InUse = {}
    BY <2>1, <2>2 DEF Init, InUse, CallRuns
  <2>4. ItemsOf(items) = {} /\ ItemsOf(InUse) = {}
    BY <2>3 DEF Init, ItemsOf
  <2> QED
    BY <2>4 DEF Init, Life!Init
<1>2. IInv /\ [Next]_vars => [Life!Next]_(Life!vars)
  BY LifeStep
<1> QED
  BY <1>1, <1>2, Invariance, PTL DEF Spec, Implements, Life!Spec

=============================================================================
