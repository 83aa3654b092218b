------------------------------ MODULE MapList ------------------------------
(***************************************************************************)
(* The list of maps of one view and what the settings remember of it       *)
(* (CMapDraw, CMapItem, CMapList).  The list is built anew whenever the    *)
(* map paths or the projection change; a map that was active is activated  *)
(* again 100 ms after its item was made, and a change is saved 1 s after   *)
(* it.  Files come and go with their drives.  Times are left out: a timer  *)
(* that runs may fire at any moment.  Every map lies in a directory of its *)
(* own and keeps its content, and so its key.                              *)
(***************************************************************************)
EXTENDS Sequences, SequencesExt

CONSTANT Maps    \* map files

ASSUME MapsAssumption == IsFiniteSet(Maps)

VARIABLES
  present,       \* files that can be read
  mapPaths,      \* maps whose directory is registered
  running,
  mapList,       \* the items in the order they are drawn
  status,        \* IMapItem::eStatus
  shadowConfig,  \* per item: has it settings of a map, and its key isActive
  pending,       \* the item's single shot of loadConfig() and the value it holds
  saving,        \* timerDelayedSave runs
  cfgPaths, keysKnownMaps, cfg    \* the settings, with a group per map

disk     == <<present, running>>
item     == <<mapList, status, shadowConfig, pending>>
settings == <<cfgPaths, keysKnownMaps, cfg>>
vars     == <<disk, mapPaths, item, saving, settings>>

Groups  == [conf : BOOLEAN, isActive : {"none", "on", "off"}]
NoGroup == [conf |-> FALSE, isActive |-> "none"]

Listed == Range(mapList)

TypeOK ==
  /\ present \subseteq Maps /\ mapPaths \subseteq Maps /\ cfgPaths \subseteq Maps
  /\ running \in BOOLEAN /\ saving \in BOOLEAN
  /\ mapList \in Seq(Maps) /\ IsInjective(mapList)
  /\ keysKnownMaps \in Seq(Maps) /\ IsInjective(keysKnownMaps)
  /\ status \in [Maps -> {"missing", "unused", "inactive", "active"}]
  /\ pending \in [Maps -> {"none", "on", "off"}]
  /\ shadowConfig \in [Maps -> Groups] /\ cfg \in [Maps -> Groups]

-----------------------------------------------------------------------------
(* Saving.  The settings keep the keys of a group that are not written. *)

Merged(old, new) ==
  [conf |-> old.conf \/ new.conf,
   isActive |-> IF new.isActive = "none" THEN old.isActive ELSE new.isActive]

\* CMapItem::saveConfig() into settings with the groups `old`
SaveConfig(old, m) ==
  IF status[m] = "active" THEN [conf |-> TRUE, isActive |-> "on"]
  ELSE Merged(old[m], shadowConfig[m])

SavedGroups(old) == [m \in Maps |-> IF m \in Listed THEN SaveConfig(old, m) ELSE old[m]]

SaveInto(old) == keysKnownMaps' = mapList /\ cfg' = SavedGroups(old)

SaveMapList == SaveInto(cfg)

-----------------------------------------------------------------------------
(***************************************************************************)
(* Loading from the order and groups of the settings.  Known maps come     *)
(* first, then the ones found that are new.  The old items go and their    *)
(* single shots with them.                                                 *)
(***************************************************************************)

\* The keys whose map is found, in the order of the keys: SelectSeq() without
\* recursion, the n-th element is the one with n found keys up to it.
Known(keys, paths) ==
  LET found   == {i \in DOMAIN keys : keys[i] \in paths}
      Rank(i) == Cardinality({j \in found : j <= i})
  IN  [n \in 1 .. Cardinality(found) |-> keys[CHOOSE i \in found : Rank(i) = n]]

\* Mutated form: a known map is read from the maps found, not taken from them.
AllFound(keys, paths) == SetToSeq(paths \cap present)
New(keys, paths)      == SetToSeq((paths \cap present) \ Range(keys))

LoadMapList(keys, groups, paths) ==
  LET known == Range(Known(keys, paths)) IN
  /\ mapList' = Known(keys, paths) \o New(keys, paths)
  /\ shadowConfig' = [m \in Maps |-> IF m \in known THEN groups[m] ELSE NoGroup]
  /\ status' = [m \in Maps |-> IF m \in known \ present                 THEN "missing"
                              ELSE IF m \in known /\ groups[m].conf      THEN "inactive"
                              ELSE "unused"]
  /\ pending' = [m \in Maps |->
       IF m \in known \cap present /\ groups[m].conf
         THEN IF groups[m].isActive = "on" THEN "on" ELSE "off"
         ELSE "none"]

-----------------------------------------------------------------------------
(* activate(bool), from a click or from the single shot. *)

\* slotChanged()
\* Mutated form: a change is only drawn.
NotSaved == UNCHANGED saving
Changed  == saving' = TRUE

Activated(m) ==
  \/ /\ m \in present
     /\ status' = [status EXCEPT ![m] = "active"]
     /\ shadowConfig' = [shadowConfig EXCEPT ![m].conf = TRUE]
  \/ /\ status' = [status EXCEPT ![m] = "inactive"]
     /\ shadowConfig' = [shadowConfig EXCEPT ![m].isActive = "off"]

\* Mutated form: the shadow configuration is what the map saves, without isActive.
AsSaved(m) == [conf |-> TRUE, isActive |-> "none"]
SetOff(m)  == [conf |-> TRUE, isActive |-> "off"]

Deactivated(m) ==
  IF status[m] = "active"
    THEN /\ status' = [status EXCEPT ![m] = "inactive"]
         /\ shadowConfig' = [shadowConfig EXCEPT ![m] = SetOff(m)]
    ELSE UNCHANGED <<status, shadowConfig>>

Click(m) ==
  /\ running /\ m \in Listed /\ status[m] # "missing"
  /\ IF status[m] = "active" THEN Deactivated(m) ELSE Activated(m)
  /\ Changed
  /\ UNCHANGED <<disk, mapPaths, mapList, pending, settings>>

SingleShot(m) ==
  /\ running /\ pending[m] # "none"
  /\ pending' = [pending EXCEPT ![m] = "none"]
  /\ IF pending[m] = "on" THEN Activated(m) ELSE Deactivated(m)
  /\ Changed
  /\ UNCHANGED <<disk, mapPaths, mapList, settings>>

-----------------------------------------------------------------------------
(* The other operations on the list. *)

\* moveMapItem()
Move(from, to) ==
  /\ running /\ {from, to} \subseteq DOMAIN mapList /\ from # to
  /\ mapList' = InsertAt(RemoveAt(mapList, from), to, mapList[from])
  /\ Changed
  /\ UNCHANGED <<disk, mapPaths, status, shadowConfig, pending, settings>>

\* slotRemove(), for a missing map only; nothing is saved.
SlotRemove(m) ==
  /\ running /\ status[m] = "missing"
  /\ \E i \in DOMAIN mapList : mapList[i] = m /\ mapList' = RemoveAt(mapList, i)
  /\ UNCHANGED <<disk, mapPaths, status, shadowConfig, pending, saving, settings>>

DelayedSave ==
  /\ running /\ saving /\ saving' = FALSE
  /\ SaveMapList
  /\ UNCHANGED <<disk, mapPaths, item, cfgPaths>>

SetProjection ==
  /\ running /\ mapList # <<>>
  /\ LoadMapList(keysKnownMaps, cfg, mapPaths)
  /\ UNCHANGED <<disk, mapPaths, saving, settings>>

\* Mutated form: the list is loaded before it is saved.
LoadFirst(paths) == LoadMapList(keysKnownMaps, cfg, paths) /\ SaveMapList

SaveAndLoad(paths) == SaveMapList /\ LoadMapList(mapList, SavedGroups(cfg), paths)

SetupMapPath(paths) ==
  /\ running /\ mapPaths' = paths
  /\ SaveAndLoad(paths)
  /\ UNCHANGED <<disk, saving, cfgPaths>>

-----------------------------------------------------------------------------
(* Drives, and the program's end and start. *)

Drive(m) ==
  /\ present' = IF m \in present THEN present \ {m} ELSE present \cup {m}
  /\ UNCHANGED <<running, mapPaths, item, saving, settings>>

Gone ==
  /\ running' = FALSE /\ mapPaths' = {} /\ saving' = FALSE
  /\ mapList' = <<>> /\ status' = [m \in Maps |-> "unused"]
  /\ shadowConfig' = [m \in Maps |-> NoGroup] /\ pending' = [m \in Maps |-> "none"]

\* ~CMainWindow() saves the views and the paths.  It erases the groups of all
\* views first, so that only what is listed is left.  A crash saves nothing.
Erased == [m \in Maps |-> NoGroup]

Exit ==
  /\ running /\ Gone
  /\ SaveInto(Erased) /\ cfgPaths' = mapPaths
  /\ UNCHANGED present

Crash == running /\ Gone /\ UNCHANGED <<present, settings>>

Start ==
  /\ ~running /\ running' = TRUE
  /\ mapPaths' = cfgPaths
  /\ LoadMapList(keysKnownMaps, cfg, cfgPaths)
  /\ UNCHANGED <<present, saving, settings>>

-----------------------------------------------------------------------------
Init ==
  /\ present \in SUBSET Maps /\ mapPaths = {} /\ running = TRUE
  /\ mapList = <<>> /\ status = [m \in Maps |-> "unused"]
  /\ shadowConfig = [m \in Maps |-> NoGroup] /\ pending = [m \in Maps |-> "none"]
  /\ saving = FALSE
  /\ cfgPaths = {} /\ keysKnownMaps = <<>> /\ cfg = [m \in Maps |-> NoGroup]

Next ==
  \/ \E m \in Maps : Click(m) \/ SingleShot(m) \/ SlotRemove(m) \/ Drive(m)
  \/ \E from, to \in DOMAIN mapList : Move(from, to)
  \/ \E paths \in SUBSET Maps : SetupMapPath(paths)
  \/ DelayedSave \/ SetProjection \/ Exit \/ Crash \/ Start

\* The timers fire while the program runs.
Spec == Init /\ [][Next]_vars /\ WF_vars(DelayedSave)

-----------------------------------------------------------------------------
(* Properties. *)

\* Once the timers have fired, the settings say of every map that can be used
\* whether it is active, and of a map on a drive that is away they say all along
\* what its item remembers of it.  (CMapItem.cpp:184, the recorded deactivation,
\* and 88, the settings of a map that cannot be read)
SettingsAgree ==
  \A m \in Listed : running =>
    /\ status[m] = "missing" => cfg[m] = shadowConfig[m]
    /\ ~saving /\ status[m] \in {"active", "inactive"} /\ pending[m] = "none" =>
         (cfg[m].isActive = "on" <=> status[m] = "active")

\* A map is to be active: it is, or was when it was last saved and nobody has
\* switched it off since.
Wanted(m) == status[m] = "active" \/ (status[m] # "unused" /\ shadowConfig[m].isActive = "on")

Precedes(s, x, y) == \E i, j \in DOMAIN s : i < j /\ s[i] = x /\ s[j] = y

Kept(paths) == {m \in Listed : m \in paths /\ status[m] \notin {"unused", "missing"}}

\* A list that is built anew is the same list: the maps in use are wanted as
\* before, and the order in which they are drawn stays.  The new projection
\* reads the settings, and so restores what is saved (CMapDraw.cpp:75-77).  The
\* end of the program leaves as much for the next start, though it erases the
\* settings before it writes them (CMainWindow.cpp:619).
ReloadRestores ==
  [][/\ (\E paths \in SUBSET Maps : SetupMapPath(paths)) \/ (SetProjection /\ ~saving) =>
          /\ Kept(mapPaths') \subseteq Range(mapList')
          /\ \A m \in Kept(mapPaths') : Wanted(m) <=> Wanted(m)'
          /\ \A x, y \in Kept(mapPaths') : Precedes(mapList, x, y) => Precedes(mapList', x, y)
     /\ Exit =>
          /\ keysKnownMaps' = mapList
          /\ \A m \in Listed : status[m] # "unused" =>
               /\ Wanted(m) <=> cfg'[m].isActive = "on"
               /\ status[m] = "missing" => cfg'[m] = shadowConfig[m]]_vars

\* A map that stays active is saved as active, and one that stays switched off is
\* not, whatever is reloaded or comes and goes meanwhile.
ChangesAreSaved ==
  \A m \in Maps :
    /\ running /\ status[m] = "active" ~>
         cfg[m].isActive = "on" \/ status[m] # "active" \/ ~running
    /\ running /\ status[m] = "inactive" /\ pending[m] = "none" ~>
         cfg[m].isActive # "on" \/ status[m] # "inactive" \/ pending[m] # "none" \/ ~running
=============================================================================
