--------------------------- MODULE DBProjectProofs ---------------------------
(***************************************************************************)
(* Proofs about DBProject, for any number of users, folders and items.     *)
(***************************************************************************)
EXTENDS DBProject, TLAPS, FiniteSetTheorems

USE ConstantsAssumption, NoValues DEF ConstantsAssumption, NoValues, Vers

Items == [Keys -> Item \cup {NoItem}]

TablesOK   == /\ rows \in [Keys -> Row \cup {NoRow}] /\ links \subseteq Folders \X Nat
              /\ nextId \in Nat /\ purged \in Nat
ProjectsOK == project \in [Users -> Items] /\ full \in [Users -> BOOLEAN]
LoopOK     == pc \in [Users -> SavePc \cup {"idle"}] /\ job \in [Users -> Job]
FreshOK    == nextVer \in Nat /\ spent \subseteq Keys /\ requests \in Nat
GhostsOK   == /\ stored \subseteq Nat /\ waived \subseteq Nat \X {"choice", "same"}
              /\ seen \in [Users -> SUBSET Nat]
OutOK      == out \subseteq Users \X Keys
CurrentOK  == \A u \in Users : pc[u] \notin {"idle", "next", "end"} => project[u][job[u].key] # NoItem

LEMMA TypeParts ==
  TypeOK <=> TablesOK /\ ProjectsOK /\ LoopOK /\ FreshOK /\ GhostsOK /\ OutOK /\ CurrentOK
BY DEF TypeOK, TablesOK, ProjectsOK, LoopOK, FreshOK, GhostsOK, OutOK, CurrentOK, Items

\* What the helpers return.
LEMMA DroppedType == ASSUME NEW old \in Items, NEW new PROVE Dropped(old, new) \subseteq Nat
BY DEF Items, Item, Dropped

LEMMA WaiveType ==
  ASSUME GhostsOK, NEW vers \in SUBSET Nat, NEW why \in {"choice", "same"}, Waive(vers, why)
  PROVE  waived' \subseteq Nat \X {"choice", "same"}
BY DEF GhostsOK, Waive

LEMMA FromRowType == ASSUME NEW r \in Row PROVE FromRow(r) \in Item
BY DEF Row, Item, FromRow

LEMMA UpdateFromDBType ==
  ASSUME NEW item \in Item, NEW id, NEW r \in Row \cup {NoRow}
  PROVE  UpdateFromDB(item, id, r) \in Item
<1>1. CASE UpdateFromDB(item, id, r) = item
  BY <1>1
<1>2. CASE UpdateFromDB(item, id, r) # item
  <2>1. r \in Row /\ UpdateFromDB(item, id, r) = [FromRow(r) EXCEPT !.changed = item.changed]
    BY <1>2 DEF UpdateFromDB
  <2> QED
    BY <2>1, FromRowType DEF Item
<1> QED
  BY <1>1, <1>2

LEMMA StoredItemsType ==
  ASSUME TypeOK, NEW u \in Users, Current(u) # NoItem
  PROVE  /\ StoredItems(u) \in Items /\ StoredItems(u)[Key(u)] # NoItem
         /\ Current(u) \in Item /\ Key(u) \in Keys
<1>1. Key(u) \in Keys /\ project[u] \in Items
  BY TypeParts DEF ProjectsOK, LoopOK, Key, Job
<1>2. Current(u) \in Item
  BY <1>1 DEF Current, Items
<1>3. [Current(u) EXCEPT !.base = Current(u).ver] \in Item
  BY <1>2 DEF Item
<1>4. StoredItems(u) = [project[u] EXCEPT ![Key(u)] = [Current(u) EXCEPT !.base = Current(u).ver]]
  BY <1>1 DEF StoredItems, Current, Items
<1> QED
  BY <1>1, <1>2, <1>3, <1>4 DEF Items

\* A user who is not saving gets a new set of items.
LEMMA UserItemsType ==
  ASSUME TypeOK, NEW u \in Users, Idle(u), NEW items \in Items,
         project' = [project EXCEPT ![u] = items], UNCHANGED <<pc, job>>
  PROVE  /\ project' \in [Users -> Items] /\ LoopOK' /\ CurrentOK'
         /\ Dropped(project[u], project'[u]) \subseteq Nat
<1>1. project \in [Users -> Items] /\ LoopOK /\ CurrentOK
  BY TypeParts DEF ProjectsOK
<1>2. project' \in [Users -> Items] /\ LoopOK'
  BY <1>1 DEF LoopOK
<1>3. CurrentOK'
  BY <1>1 DEF CurrentOK, Idle
<1>4. Dropped(project[u], project'[u]) \subseteq Nat
  BY <1>1, DroppedType
<1> QED
  BY <1>2, <1>3, <1>4

LEMMA FinishType ==
  ASSUME TypeOK, NEW u \in Users, NEW items \in Items, NEW k \in Keys, items[k] # NoItem,
         NEW ids \in SUBSET Nat, Finish(u, items, k, ids)
  PROVE  /\ project' \in [Users -> Items] /\ job' \in [Users -> Job]
         /\ pc' \in [Users -> SavePc \cup {"idle"}]
         /\ project'[u][job'[u].key] # NoItem /\ job'[u].key = k
         /\ \A w \in Users \ {u} : /\ project'[w] = project[w] /\ job'[w] = job[w] /\ pc'[w] = pc[w]
<1> DEFINE new == [items EXCEPT ![k].changed = ids # {}]
<1>1. items[k] \in Item
  BY DEF Items
<1>2. new \in Items /\ new[k] # NoItem
  BY <1>1 DEF Items, Item
<1>3. project' \in [Users -> Items] /\ project'[u] = new
  BY <1>2 DEF Finish, TypeOK, Items
<1>4. job' \in [Users -> Job] /\ job'[u].key = k
  <2>1. job \in [Users -> Job]
    BY DEF TypeOK
  <2>2. job' = [job EXCEPT ![u] = [@ EXCEPT !.key = k, !.links = ids]]
    BY <2>1 DEF Finish, Job
  <2>3. [job[u] EXCEPT !.key = k, !.links = ids] \in Job
    BY <2>1 DEF Job
  <2> QED
    BY <2>1, <2>2, <2>3
<1>5. pc' \in [Users -> SavePc \cup {"idle"}]
  BY DEF Finish, TypeOK, Goto, SavePc
<1>6. \A w \in Users \ {u} : project'[w] = project[w] /\ job'[w] = job[w] /\ pc'[w] = pc[w]
  BY DEF Finish, TypeOK, Goto
<1> QED
  BY <1>2, <1>3, <1>4, <1>5, <1>6

\* A row that matches an update is in the table.
LEMMA StoreRowType ==
  ASSUME TypeOK, NEW u \in Users, Current(u) # NoItem, DbRow(u) # NoRow, StoreRow(u)
  PROVE  /\ rows' \in [Keys -> Row \cup {NoRow}] /\ stored' \subseteq Nat
         /\ project' \in [Users -> Items] /\ LoopOK' /\ CurrentOK'
<1>1. Finish(u, StoredItems(u), Key(u), job[u].links)
  BY DEF StoreRow
<1>2. job[u].links \in SUBSET Nat /\ TablesOK /\ GhostsOK /\ CurrentOK
  BY TypeParts DEF LoopOK, Job
<1>3. LoopOK' /\ CurrentOK' /\ project' \in [Users -> Items]
  BY <1>1, <1>2, FinishType, StoredItemsType DEF LoopOK, CurrentOK
<1>4. Current(u).ver \in Nat /\ Key(u) \in Keys
  BY StoredItemsType DEF Item
<1>5. rows' \in [Keys -> Row \cup {NoRow}]
  BY <1>2, <1>4 DEF TablesOK, StoreRow, DbRow, Row
<1>6. stored' \subseteq Nat
  BY <1>2, <1>4 DEF GhostsOK, StoreRow
<1> QED
  BY <1>3, <1>5, <1>6

\* The steps a user's items are settled or taken out of the folder by.
LEMMA OutType ==
  ASSUME TypeOK, NEW u \in Users, SaveStep(u) \/ UserStep(u)
  PROVE  OutOK'
<1>1. OutOK
  BY TypeParts
<1> USE DEF db, local, fresh, ghosts, OutOK
<1>2. ASSUME NEW keys, Settle(u, keys) PROVE OutOK'
  BY <1>1, <1>2 DEF Settle
<1>3. CASE SaveStep(u)
  BY <1>1, <1>3 DEF SaveStep, SaveNext, CheckLink, Insert, UpdateItem, CheckConflict, ForceUpdate,
                    InsertClone, Reload, LinkItem, SaveEnd
<1>4. CASE Open(u) \/ Update(u)
  BY <1>1, <1>2, <1>4 DEF Open, Update, ShowAll
<1>5. CASE Close(u) \/ Save(u) \/ Stop(u)
  BY <1>1, <1>5 DEF Close, Save, Stop
<1>6. CASE Purge(u)
  <2>1. PICK gone \in {Unlinked} \cup {{k} : k \in Unlinked} : out' = out \cup (Users \X gone)
    BY <1>6 DEF Purge
  <2>2. gone \subseteq Keys
    BY DEF Unlinked
  <2> QED
    BY <1>1, <2>1, <2>2
<1>7. CASE SelectSaveAction(u) \/ ResolveConflict(u)
  <2>1. Key(u) \in Keys
    BY DEF TypeOK, Job, Key
  <2>2. out' = out \/ out' = out \cup {<<u, Key(u)>>}
    BY <1>7 DEF SelectSaveAction, ResolveConflict, Clone, Decline
  <2> QED
    BY <1>1, <2>1, <2>2
<1>8. ASSUME NEW k \in Keys, ShowItem(u, k) \/ Import(u, k) \/ Edit(u, k) \/ Undo(u, k) \/ Unlink(u, k)
      PROVE  OutOK'
  <2>1. CASE Unlink(u, k)
    BY <1>1, <2>1 DEF Unlink
  <2> QED
    BY <1>2, <1>8, <2>1 DEF ShowItem, Import, Edit, Undo
<1> QED
  BY <1>3, <1>4, <1>5, <1>6, <1>7, <1>8 DEF UserStep

\* The types a step of the user keeps.
LEMMA UserStepType ==
  ASSUME TypeOK, NEW u \in Users, UserStep(u)
  PROVE  TypeOK'
<1>0. TablesOK /\ ProjectsOK /\ LoopOK /\ FreshOK /\ GhostsOK /\ CurrentOK
  BY TypeParts
<1> USE DEF db, local, fresh, ghosts
<1> DEFINE TypesKept == TablesOK' /\ ProjectsOK' /\ LoopOK' /\ FreshOK' /\ GhostsOK' /\ CurrentOK'
<1>q. SUFFICES TypesKept
  BY OutType DEF TypeOK, TablesOK, ProjectsOK, LoopOK, FreshOK, GhostsOK, OutOK, CurrentOK, Items
<1>a. ASSUME ShowAll(u), Idle(u), UNCHANGED <<pc, job, stored>>
      PROVE  ProjectsOK' /\ LoopOK' /\ GhostsOK' /\ CurrentOK'
  <2> DEFINE items == [k \in Keys |-> IF k \in Linked(FolderOf[u]) THEN FromRow(rows[k]) ELSE NoItem]
  <2>1. items \in Items
    BY <1>0, FromRowType DEF Items, Linked, TablesOK
  <2>2. project' = [project EXCEPT ![u] = items]
    BY <1>a DEF ShowAll
  <2>3. /\ project' \in [Users -> Items] /\ LoopOK' /\ CurrentOK'
        /\ Dropped(project[u], project'[u]) \subseteq Nat
    BY <1>a, <2>1, <2>2, UserItemsType
  <2>4. full' \in [Users -> BOOLEAN]
    BY <1>0, <1>a DEF ShowAll, ProjectsOK, CheckState
  <2>5. {rows[k].ver : k \in Linked(FolderOf[u])} \subseteq Nat
    BY <1>0 DEF TablesOK, Linked, Row
  <2>6. GhostsOK'
    BY <1>0, <1>a, <2>3, <2>5, WaiveType DEF ShowAll, GhostsOK
  <2> QED
    BY <2>3, <2>4, <2>6 DEF ProjectsOK
<1>1. CASE Open(u)
  BY <1>0, <1>1, <1>a DEF Open, Request, Idle, TablesOK, FreshOK
<1>2. CASE Close(u)
  <2>1. [k \in Keys |-> NoItem] \in Items
    BY DEF Items
  <2>2. /\ project' \in [Users -> Items] /\ LoopOK' /\ CurrentOK'
        /\ Dropped(project[u], project'[u]) \subseteq Nat
    BY <1>2, <2>1, UserItemsType DEF Close, Request
  <2>3. GhostsOK'
    BY <1>0, <1>2, <2>2, WaiveType DEF Close, GhostsOK
  <2> QED
    BY <1>0, <1>2, <2>2, <2>3 DEF Close, Request, TablesOK, FreshOK, ProjectsOK
<1>3. CASE Update(u)
  <2>1. TablesOK' /\ FreshOK' /\ Idle(u) /\ UNCHANGED <<pc, job, stored>>
    BY <1>0, <1>3 DEF Update, Request, TablesOK, FreshOK
  <2>2. CASE ShowAll(u)
    BY <1>a, <2>1, <2>2
  <2>3. CASE ~ShowAll(u)
    <3> DEFINE items == [k \in Keys |-> IF k \in Loaded(u) THEN Refreshed(u, k) ELSE NoItem]
    <3>1. ASSUME NEW k \in Loaded(u) PROVE Refreshed(u, k) \in Item
      <4>1. project[u][k] \in Item /\ rows[k] \in Row \cup {NoRow}
        BY <1>0 DEF ProjectsOK, TablesOK, Loaded, Items
      <4>2. UpdateFromDB(project[u][k], IF rows[k] = NoRow THEN 0 ELSE rows[k].id, rows[k]) \in Item
        BY <4>1, UpdateFromDBType
      <4> QED
        BY <4>1, <4>2 DEF Refreshed, Item
    <3>2. items \in Items
      BY <3>1 DEF Items
    <3>3. project' = [project EXCEPT ![u] = items]
      BY <1>3, <2>3 DEF Update
    <3>4. /\ project' \in [Users -> Items] /\ LoopOK' /\ CurrentOK'
          /\ Dropped(project[u], project'[u]) \subseteq Nat
      BY <2>1, <3>2, <3>3, UserItemsType
    <3>5. full' \in [Users -> BOOLEAN]
      BY <1>0, <1>3, <2>3 DEF Update, ProjectsOK, CheckState
    <3>6. {project'[u][k].ver : k \in Loaded(u)} \subseteq Nat
      BY <1>0, <3>1, <3>3 DEF Loaded, Item, ProjectsOK
    <3>7. GhostsOK'
      BY <1>0, <1>3, <2>3, <3>4, <3>6, WaiveType DEF Update, GhostsOK
    <3> QED
      BY <2>1, <3>4, <3>5, <3>7 DEF ProjectsOK
  <2> QED
    BY <2>2, <2>3
<1>4. CASE Purge(u)
  <2>1. PICK gone \in {Unlinked} \cup {{k} : k \in Unlinked} :
          /\ rows' = [k \in Keys |-> IF k \in gone THEN NoRow ELSE rows[k]]
          /\ purged' = purged + Cardinality(gone)
    BY <1>4 DEF Purge
  <2>2. Cardinality(gone) \in Nat
    BY FS_Subset, FS_CardinalityType DEF Unlinked
  <2>3. TablesOK'
    BY <1>0, <1>4, <2>1, <2>2 DEF Purge, TablesOK
  <2> QED
    BY <1>0, <1>4, <2>3 DEF Purge, ProjectsOK, LoopOK, FreshOK, GhostsOK, CurrentOK
<1>5. CASE Save(u)
  BY <1>0, <1>5 DEF Save, Goto, SavePc, TablesOK, ProjectsOK, LoopOK, FreshOK, GhostsOK, CurrentOK
<1>6. CASE Stop(u)
  BY <1>0, <1>6 DEF Stop, Goto, SavePc, TablesOK, ProjectsOK, LoopOK, FreshOK, GhostsOK, CurrentOK
<1> DEFINE DialogOK == project' \in [Users -> Items] /\ LoopOK' /\ CurrentOK' /\ FreshOK' /\ GhostsOK'
<1>b. ASSUME pc[u] \in {"ask1", "ask2"}
      PROVE  Current(u) \in Item /\ Current(u) # NoItem /\ Key(u) \in Keys
             /\ project[u] \in Items /\ job[u] \in Job
  BY <1>0, <1>b DEF CurrentOK, ProjectsOK, LoopOK, Current, Key, Job, Items
<1>c. ASSUME pc[u] \in {"ask1", "ask2"}, NEW ids \in SUBSET Nat, Clone(u, ids), UNCHANGED <<nextVer, requests, stored, seen>>
      PROVE  DialogOK
  <2>1. PICK c \in Keys : /\ spent' = spent \cup {c}
                           /\ job' = [job EXCEPT ![u].clone = c, ![u].links = ids]
                           /\ Goto(u, "clone") /\ UNCHANGED <<project, waived>>
    BY <1>c DEF Clone
  <2>2. job' = [job EXCEPT ![u] = [@ EXCEPT !.clone = c, !.links = ids]]
    BY <1>0, <2>1 DEF LoopOK, Job
  <2>3. [job[u] EXCEPT !.clone = c, !.links = ids] \in Job
    BY <1>b, <1>c DEF Job
  <2>4. job' \in [Users -> Job] /\ \A w \in Users : job'[w].key = job[w].key
    BY <1>0, <2>2, <2>3 DEF LoopOK, Job
  <2>5. LoopOK'
    BY <1>0, <2>1, <2>4 DEF LoopOK, Goto, SavePc
  <2>6. CurrentOK'
    BY <1>0, <1>c, <2>1, <2>4 DEF CurrentOK, Goto, LoopOK
  <2> QED
    BY <1>0, <1>c, <2>1, <2>5, <2>6 DEF ProjectsOK, FreshOK, GhostsOK
<1>d. ASSUME pc[u] \in {"ask1", "ask2"}, Decline(u), UNCHANGED <<nextVer, requests, stored, seen>>
      PROVE  DialogOK
  <2>1. job[u].links \in SUBSET Nat /\ Current(u).ver \in Nat /\ project[u][Key(u)] # NoItem
    BY <1>b, <1>d DEF Job, Item, Current
  <2>2. Finish(u, project[u], Key(u), job[u].links)
    BY <1>d DEF Decline, Skip
  <2>3. project' \in [Users -> Items] /\ LoopOK' /\ CurrentOK'
    BY <1>0, <1>b, <1>d, <2>1, <2>2, FinishType DEF LoopOK, CurrentOK
  <2>4. Waive({Current(u).ver}, "choice")
    BY <1>d DEF Decline
  <2>5. GhostsOK'
    BY <1>0, <1>d, <2>1, <2>4, WaiveType DEF GhostsOK
  <2> QED
    BY <1>0, <1>d, <2>3, <2>5 DEF FreshOK, Decline
<1>7. CASE SelectSaveAction(u)
  <2>1. pc[u] \in {"ask1", "ask2"} /\ UNCHANGED <<nextVer, requests, stored, seen, full>> /\ TablesOK'
    BY <1>0, <1>7 DEF SelectSaveAction, At, TablesOK
  <2>2. CASE Clone(u, {})
    BY <1>0, <1>c, <2>1, <2>2 DEF ProjectsOK
  <2>3. CASE Decline(u)
    BY <1>0, <1>d, <2>1, <2>3 DEF ProjectsOK
  <2>4. CASE /\ Goto(u, "update") \/ Goto(u, "reload")
             /\ job' = [job EXCEPT ![u].links = {job[u].id}]
             /\ UNCHANGED <<project, waived, spent>>
    <3>1. job' = [job EXCEPT ![u] = [@ EXCEPT !.links = {job[u].id}]]
      BY <2>4
    <3>2. [job[u] EXCEPT !.links = {job[u].id}] \in Job
      BY <1>b, <2>1 DEF Job
    <3>3. job' \in [Users -> Job] /\ \A w \in Users : job'[w].key = job[w].key
      BY <1>0, <3>1, <3>2 DEF LoopOK, Job
    <3>4. LoopOK'
      BY <1>0, <2>4, <3>3 DEF LoopOK, Goto, SavePc
    <3>5. CurrentOK'
      BY <1>0, <2>1, <2>4, <3>3 DEF CurrentOK, Goto, LoopOK
    <3> QED
      BY <1>0, <2>1, <2>4, <3>4, <3>5 DEF ProjectsOK, FreshOK, GhostsOK
  <2> QED
    BY <1>7, <2>2, <2>3, <2>4 DEF SelectSaveAction
<1>8. CASE ResolveConflict(u)
  <2>1. pc[u] \in {"ask1", "ask2"} /\ UNCHANGED <<nextVer, requests, stored, seen, full>> /\ TablesOK'
    BY <1>0, <1>8 DEF ResolveConflict, At, TablesOK
  <2>2. CASE Clone(u, job[u].links)
    BY <1>0, <1>b, <1>c, <2>1, <2>2 DEF ProjectsOK, Job
  <2>3. CASE Decline(u)
    BY <1>0, <1>d, <2>1, <2>3 DEF ProjectsOK
  <2>4. CASE /\ Goto(u, "force") \/ Goto(u, "reload")
             /\ UNCHANGED <<project, job, waived, spent>>
    BY <1>0, <2>1, <2>4 DEF LoopOK, CurrentOK, Goto, SavePc, ProjectsOK, FreshOK, GhostsOK
  <2> QED
    BY <1>8, <2>2, <2>3, <2>4 DEF ResolveConflict
<1>9. ASSUME NEW k \in Keys, ShowItem(u, k) PROVE TypesKept
  <2>1. rows[k] \in Row
    BY <1>0, <1>9 DEF ShowItem, Linked, TablesOK
  <2>2. [project[u] EXCEPT ![k] = FromRow(rows[k])] \in Items /\ rows[k].ver \in Nat
    BY <1>0, <2>1, FromRowType DEF ProjectsOK, Items, Row
  <2>3. project' = [project EXCEPT ![u] = [@ EXCEPT ![k] = FromRow(rows[k])]]
    BY <1>9 DEF ShowItem
  <2>4. project' \in [Users -> Items] /\ LoopOK' /\ CurrentOK'
    BY <1>9, <2>2, <2>3, UserItemsType DEF ShowItem, Request
  <2>5. full' \in [Users -> BOOLEAN] /\ GhostsOK'
    BY <1>0, <1>9, <2>2 DEF ShowItem, CheckState, GhostsOK, ProjectsOK
  <2> QED
    BY <1>0, <1>9, <2>4, <2>5 DEF ShowItem, Request, TablesOK, FreshOK, ProjectsOK
<1>10. ASSUME NEW k \in Keys, Import(u, k) PROVE TypesKept
  <2>1. PICK v \in {0} \cup {r.ver : r \in {rows[k]} \ {NoRow}} :
          /\ project' = [project EXCEPT ![u][k] = [ver |-> v, base |-> NoHash, changed |-> TRUE]]
          /\ seen' = [seen EXCEPT ![u] = @ \cup {v}]
    BY <1>10 DEF Import
  <2>2. v \in Nat
    BY <1>0 DEF TablesOK, Row
  <2>3. [project[u] EXCEPT ![k] = [ver |-> v, base |-> NoHash, changed |-> TRUE]] \in Items
    BY <1>0, <2>2 DEF ProjectsOK, Items, Item
  <2>4. project' \in [Users -> Items] /\ LoopOK' /\ CurrentOK'
    BY <1>10, <2>1, <2>3, UserItemsType DEF Import, Request
  <2> QED
    BY <1>0, <1>10, <2>1, <2>2, <2>4 DEF Import, Request, TablesOK, FreshOK, ProjectsOK, GhostsOK
<1>e. ASSUME NEW k \in Loaded(u), NEW v \in Nat
      PROVE  /\ [project[u] EXCEPT ![k] = Changed(project[u][k], v)] \in Items
             /\ [project EXCEPT ![u][k] = Changed(@, v)] =
                [project EXCEPT ![u] = [project[u] EXCEPT ![k] = Changed(project[u][k], v)]]
  <2>1. project[u] \in Items /\ project[u][k] \in Item /\ k \in Keys
    BY <1>0 DEF ProjectsOK, Items, Loaded
  <2>2. Changed(project[u][k], v) \in Item
    BY <2>1 DEF Item, Changed
  <2>3. [project[u] EXCEPT ![k] = Changed(project[u][k], v)] \in Items
    BY <2>1, <2>2 DEF Items
  <2>4. [project EXCEPT ![u][k] = Changed(@, v)] =
        [project EXCEPT ![u] = [project[u] EXCEPT ![k] = Changed(project[u][k], v)]]
    OBVIOUS
  <2> QED
    BY <2>3, <2>4
<1>11. ASSUME NEW k \in Keys, Edit(u, k) PROVE TypesKept
  <2>1. nextVer \in Nat /\ k \in Loaded(u)
    BY <1>0, <1>11 DEF Edit, FreshOK
  <2>2. /\ project' \in [Users -> Items] /\ LoopOK' /\ CurrentOK'
        /\ Dropped(project[u], project'[u]) \subseteq Nat
    BY <1>11, <1>e, <2>1, UserItemsType DEF Edit
  <2>3. GhostsOK'
    BY <1>0, <1>11, <2>1, <2>2, WaiveType DEF Edit, GhostsOK
  <2> QED
    BY <1>0, <1>11, <2>2, <2>3 DEF Edit, TablesOK, FreshOK, ProjectsOK
<1>12. ASSUME NEW k \in Keys, Undo(u, k) PROVE TypesKept
  <2>1. k \in Loaded(u) /\ project[u][k] \in Item
    BY <1>0, <1>12 DEF Undo, Loaded, ProjectsOK, Items
  <2>2. PICK v \in Nat :
          /\ project' = [project EXCEPT ![u][k] = Changed(@, v)]
          /\ seen' = [seen EXCEPT ![u] = @ \cup {v}]
    BY <1>12, <2>1 DEF Undo, Item
  <2>3. /\ project' \in [Users -> Items] /\ LoopOK' /\ CurrentOK'
        /\ Dropped(project[u], project'[u]) \subseteq Nat
    BY <1>12, <1>e, <2>1, <2>2, UserItemsType DEF Undo, Request
  <2>4. GhostsOK'
    BY <1>0, <1>12, <2>2, <2>3, WaiveType DEF Undo, GhostsOK
  <2> QED
    BY <1>0, <1>12, <2>3, <2>4 DEF Undo, Request, TablesOK, FreshOK, ProjectsOK
<1>13. ASSUME NEW k \in Keys, Unlink(u, k) PROVE TypesKept
  <2>1. [project[u] EXCEPT ![k] = NoItem] \in Items
    BY <1>0 DEF ProjectsOK, Items
  <2>2. project' = [project EXCEPT ![u] = [@ EXCEPT ![k] = NoItem]]
    BY <1>13 DEF Unlink
  <2>3. /\ project' \in [Users -> Items] /\ LoopOK' /\ CurrentOK'
        /\ Dropped(project[u], project'[u]) \subseteq Nat
    BY <1>13, <2>1, <2>2, UserItemsType DEF Unlink, Request
  <2>4. full' \in [Users -> BOOLEAN]
    BY <1>0, <1>13 DEF Unlink, CheckState, ProjectsOK
  <2>5. GhostsOK'
    BY <1>0, <1>13, <2>3, WaiveType DEF Unlink, GhostsOK
  <2> QED
    BY <1>0, <1>13, <2>3, <2>4, <2>5 DEF Unlink, Request, TablesOK, FreshOK, ProjectsOK
<1> QED
  BY <1>1, <1>2, <1>3, <1>4, <1>5, <1>6, <1>7, <1>8, <1>9, <1>10, <1>11, <1>12, <1>13 DEF UserStep

\* The types a step of save() keeps.
LEMMA SaveStepType ==
  ASSUME TypeOK, NEW u \in Users, SaveStep(u)
  PROVE  TypeOK'
<1>0. TablesOK /\ ProjectsOK /\ LoopOK /\ FreshOK /\ GhostsOK /\ CurrentOK
  BY TypeParts
<1> USE DEF db, local, fresh, ghosts
<1> DEFINE TypesKept == TablesOK' /\ ProjectsOK' /\ LoopOK' /\ FreshOK' /\ GhostsOK' /\ CurrentOK'
<1>q. SUFFICES TypesKept
  BY OutType DEF TypeOK, TablesOK, ProjectsOK, LoopOK, FreshOK, GhostsOK, OutOK, CurrentOK, Items
<1>a. ASSUME pc[u] \notin {"idle", "next", "end"}
      PROVE  /\ Current(u) \in Item /\ Current(u) # NoItem /\ Key(u) \in Keys
             /\ project[u] \in Items /\ job[u] \in Job /\ Current(u).ver \in Nat
             /\ job[u].links \in SUBSET Nat /\ project[u][Key(u)] # NoItem
             /\ DbRow(u) \in Row \cup {NoRow}
  BY <1>0, <1>a DEF CurrentOK, ProjectsOK, LoopOK, TablesOK, Current, Key, Job, Items, Item, DbRow
<1>b. ASSUME NEW items \in Items, NEW k \in Keys, items[k] # NoItem, NEW ids \in SUBSET Nat,
             Finish(u, items, k, ids)
      PROVE  project' \in [Users -> Items] /\ LoopOK' /\ CurrentOK'
  BY <1>0, <1>b, FinishType DEF LoopOK, CurrentOK
<1>1. CASE SaveNext(u)
  <2>1. PICK k \in Marked(u) :
          IF rows[k] = NoRow
          THEN job' = [job EXCEPT ![u] = NoJob(k)] /\ Goto(u, "insert")
          ELSE job' = [job EXCEPT ![u] = [NoJob(k) EXCEPT !.id = rows[k].id]] /\ Goto(u, "linked")
    BY <1>1 DEF SaveNext
  <2>2. k \in Keys /\ project[u][k] # NoItem
    BY DEF Marked, Loaded
  <2>3. PICK j \in Job : j.key = k /\ job' = [job EXCEPT ![u] = j]
    <3>1. NoJob(k) \in Job /\ NoJob(k).key = k
      BY <2>2 DEF NoJob, Job
    <3>2. rows[k] # NoRow => rows[k].id \in Nat
      BY <1>0, <2>2 DEF TablesOK, Row
    <3>3. rows[k] # NoRow => /\ [NoJob(k) EXCEPT !.id = rows[k].id] \in Job
                             /\ [NoJob(k) EXCEPT !.id = rows[k].id].key = k
      BY <3>1, <3>2 DEF Job
    <3> QED
      BY <2>1, <3>1, <3>3
  <2>4. LoopOK'
    BY <1>0, <2>1, <2>3 DEF LoopOK, Goto, SavePc
  <2>5. CurrentOK'
    BY <1>0, <1>1, <2>2, <2>3, <2>1 DEF CurrentOK, LoopOK, Goto, SaveNext
  <2> QED
    BY <1>0, <1>1, <2>4, <2>5 DEF SaveNext, TablesOK, ProjectsOK, FreshOK, GhostsOK
<1>2. CASE CheckLink(u)
  BY <1>0, <1>2 DEF CheckLink, At, Goto, SavePc, TablesOK, ProjectsOK, LoopOK, FreshOK, GhostsOK, CurrentOK
<1>3. CASE Insert(u)
  <2>1. pc[u] = "insert"
    BY <1>3 DEF Insert, At
  <2>2. CASE DbRow(u) # NoRow
    BY <1>0, <1>3, <2>2 DEF Insert, Goto, SavePc, TablesOK, ProjectsOK, LoopOK, FreshOK, GhostsOK, CurrentOK
  <2>3. CASE DbRow(u) = NoRow
    <3>1. /\ rows' = [rows EXCEPT ![Key(u)] = [id |-> nextId, ver |-> Current(u).ver]]
          /\ nextId' = nextId + 1 /\ stored' = stored \cup {Current(u).ver}
          /\ Finish(u, StoredItems(u), Key(u), {nextId})
      BY <1>3, <2>3 DEF Insert
    <3>2. {nextId} \in SUBSET Nat
      BY <1>0 DEF TablesOK
    <3>3. project' \in [Users -> Items] /\ LoopOK' /\ CurrentOK'
      BY <1>a, <1>b, <2>1, <3>1, <3>2, StoredItemsType
    <3>4. UNCHANGED <<links, purged, full, fresh, waived, seen>>
      BY <1>3 DEF Insert
    <3>5. [id |-> nextId, ver |-> Current(u).ver] \in Row
      BY <1>0, <1>a, <2>1 DEF TablesOK, Row
    <3>6. TablesOK'
      <4>1. rows' \in [Keys -> Row \cup {NoRow}]
        BY <1>0, <3>1, <3>5 DEF TablesOK
      <4>2. nextId' \in Nat
        BY <1>0, <3>1 DEF TablesOK
      <4> QED
        BY <1>0, <3>4, <4>1, <4>2 DEF TablesOK
    <3>7. GhostsOK' /\ FreshOK' /\ full' = full
      BY <1>0, <1>a, <2>1, <3>1, <3>4 DEF GhostsOK, FreshOK
    <3> QED
      BY <1>0, <3>3, <3>6, <3>7 DEF ProjectsOK
  <2> QED
    BY <2>2, <2>3
<1>c. ASSUME pc[u] \in {"update", "force"}, DbRow(u) # NoRow, StoreRow(u),
             UNCHANGED <<links, nextId, purged, full, fresh, waived, seen>>
      PROVE  TypesKept
  BY <1>0, <1>a, <1>c, StoreRowType DEF TablesOK, ProjectsOK, FreshOK, GhostsOK
<1>4. CASE UpdateItem(u)
  <2> DEFINE hash == LastDatabaseHash(Current(u))
  <2>1. /\ pc[u] = "update"
        /\ UNCHANGED <<links, nextId, purged, full, fresh, waived, seen>>
    BY <1>4 DEF UpdateItem, At
  <2>2. CASE Matches(DbRow(u), job[u].id, hash)
    BY <1>4, <1>c, <2>1, <2>2 DEF UpdateItem, Matches
  <2>3. CASE ~Matches(DbRow(u), job[u].id, hash)
    <3>1. /\ project' = [project EXCEPT ![u][Key(u)].base = hash]
          /\ Goto(u, "check2") /\ UNCHANGED <<rows, stored, job>>
      BY <1>4, <2>3 DEF UpdateItem
    <3>2. hash \in Nat
      BY <1>a, <2>1 DEF LastDatabaseHash, Item
    <3>3. [Current(u) EXCEPT !.base = hash] \in Item
      BY <1>a, <2>1, <3>2 DEF Item
    <3>4. [project[u] EXCEPT ![Key(u)] = [Current(u) EXCEPT !.base = hash]] \in Items
      BY <1>a, <2>1, <3>3 DEF Items
    <3>5. project' = [project EXCEPT ![u] = [project[u] EXCEPT ![Key(u)] = [Current(u) EXCEPT !.base = hash]]]
      BY <3>1 DEF Current
    <3>6. project' \in [Users -> Items]
      BY <1>0, <3>4, <3>5 DEF ProjectsOK
    <3>7. CurrentOK'
      <4>1. project'[u][Key(u)] # NoItem
        BY <1>0, <1>a, <2>1, <3>3, <3>5 DEF ProjectsOK, Items
      <4>2. \A w \in Users : w # u => project'[w] = project[w] /\ pc'[w] = pc[w]
        BY <1>0, <3>1, <3>5 DEF ProjectsOK, LoopOK, Goto
      <4> QED
        BY <1>0, <3>1, <4>1, <4>2 DEF CurrentOK, Key
    <3> QED
      BY <1>0, <2>1, <3>1, <3>6, <3>7 DEF TablesOK, ProjectsOK, LoopOK, FreshOK, GhostsOK, Goto, SavePc
  <2> QED
    BY <2>2, <2>3
<1>5. CASE CheckConflict(u)
  <2>1. /\ pc[u] = "check2" /\ UNCHANGED <<db, full, fresh, stored>>
    BY <1>5 DEF CheckConflict, At
  <2>2. CASE Restart(u) /\ UNCHANGED <<project, job, waived, seen>>
    BY <1>0, <2>1, <2>2 DEF Restart, Goto, SavePc, TablesOK, ProjectsOK, LoopOK, FreshOK, GhostsOK, CurrentOK
  <2>3. CASE Skip(u) /\ Waive({Current(u).ver}, "same") /\ UNCHANGED seen
    <3>1. project' \in [Users -> Items] /\ LoopOK' /\ CurrentOK'
      BY <1>a, <1>b, <2>1, <2>3 DEF Skip
    <3>2. GhostsOK'
      BY <1>0, <1>a, <2>1, <2>3, WaiveType DEF GhostsOK
    <3> QED
      BY <1>0, <2>1, <3>1, <3>2 DEF TablesOK, ProjectsOK, FreshOK
  <2>4. CASE /\ DbRow(u) # NoRow
             /\ job' = [job EXCEPT ![u].hash = DbRow(u).ver] /\ Goto(u, "ask2")
             /\ seen' = [seen EXCEPT ![u] = @ \cup {DbRow(u).ver}]
             /\ UNCHANGED <<project, waived>>
    <3>1. DbRow(u).ver \in Nat
      BY <1>a, <2>1, <2>4 DEF Row
    <3>2. [job[u] EXCEPT !.hash = DbRow(u).ver] \in Job /\ [job[u] EXCEPT !.hash = DbRow(u).ver].key = job[u].key
      BY <1>a, <2>1, <3>1 DEF Job
    <3>3. LoopOK'
      BY <1>0, <2>4, <3>2 DEF LoopOK, Goto, SavePc
    <3>4. CurrentOK'
      BY <1>0, <1>a, <2>1, <2>4, <3>2 DEF CurrentOK, Goto, LoopOK, Key
    <3>5. GhostsOK'
      BY <1>0, <2>1, <2>4, <3>1 DEF GhostsOK
    <3> QED
      BY <1>0, <2>1, <2>4, <3>3, <3>4, <3>5 DEF TablesOK, ProjectsOK, FreshOK
  <2> QED
    BY <1>5, <2>2, <2>3, <2>4 DEF CheckConflict
<1>6. CASE ForceUpdate(u)
  <2>1. /\ pc[u] = "force"
        /\ UNCHANGED <<links, nextId, purged, full, fresh, waived, seen>>
    BY <1>6 DEF ForceUpdate, At
  <2>2. CASE Matches(DbRow(u), job[u].id, job[u].hash)
    BY <1>6, <1>c, <2>1, <2>2 DEF ForceUpdate, Matches
  <2>3. CASE ~Matches(DbRow(u), job[u].id, job[u].hash)
    BY <1>0, <1>6, <2>1, <2>3 DEF ForceUpdate, Restart, Goto, SavePc, TablesOK, ProjectsOK, LoopOK, FreshOK, GhostsOK, CurrentOK
  <2> QED
    BY <2>2, <2>3
<1>7. CASE InsertClone(u)
  <2> DEFINE c == job[u].clone
             items == StoredItems(u)
             new == [items EXCEPT ![Key(u)] = NoItem, ![c] = items[Key(u)]]
  <2>1. /\ pc[u] = "clone"
        /\ rows' = [rows EXCEPT ![c] = [id |-> nextId, ver |-> Current(u).ver]]
        /\ nextId' = nextId + 1 /\ stored' = stored \cup {Current(u).ver}
        /\ Finish(u, new, c, job[u].links \cup {nextId})
        /\ UNCHANGED <<links, purged, full, fresh, waived, seen>>
    BY <1>7 DEF InsertClone, At
  <2>2. c \in Keys
    BY <1>a, <2>1 DEF Job
  <2>3. new \in Items /\ new[c] # NoItem
    BY <1>a, <2>1, <2>2, StoredItemsType DEF Items
  <2>4. job[u].links \cup {nextId} \in SUBSET Nat
    BY <1>0, <1>a, <2>1 DEF TablesOK
  <2>5. project' \in [Users -> Items] /\ LoopOK' /\ CurrentOK'
    BY <1>b, <2>1, <2>2, <2>3, <2>4
  <2>6. TablesOK' /\ GhostsOK' /\ FreshOK' /\ full' = full
    BY <1>0, <1>a, <2>1, <2>2 DEF TablesOK, GhostsOK, FreshOK, Row
  <2> QED
    BY <1>0, <2>5, <2>6 DEF ProjectsOK
<1>8. CASE Reload(u)
  <2>1. pc[u] = "reload" /\ UNCHANGED <<db, full, fresh, stored>>
    BY <1>8 DEF Reload, At
  <2>2. PICK new \in {Current(u), UpdateFromDB(Current(u), job[u].id, DbRow(u))} :
          /\ Finish(u, [project[u] EXCEPT ![Key(u)] = new], Key(u), job[u].links)
          /\ seen' = [seen EXCEPT ![u] = @ \cup {new.ver}]
          /\ Waive({Current(u).ver}, "choice")
    BY <1>8 DEF Reload
  <2>3. new \in Item
    BY <1>a, <2>1, UpdateFromDBType
  <2>4. [project[u] EXCEPT ![Key(u)] = new] \in Items /\ [project[u] EXCEPT ![Key(u)] = new][Key(u)] # NoItem
    BY <1>a, <2>1, <2>3 DEF Items
  <2>5. project' \in [Users -> Items] /\ LoopOK' /\ CurrentOK'
    BY <1>a, <1>b, <2>1, <2>2, <2>4
  <2>6. new.ver \in Nat
    BY <2>3 DEF Item
  <2>7. GhostsOK'
    BY <1>0, <1>a, <2>1, <2>2, <2>6, WaiveType DEF GhostsOK
  <2> QED
    BY <1>0, <2>1, <2>5, <2>7 DEF TablesOK, ProjectsOK, FreshOK
<1>9. CASE LinkItem(u)
  <2>1. pc[u] = "link" /\ UNCHANGED <<rows, nextId, purged, full, fresh, ghosts>>
    BY <1>9 DEF LinkItem, At
  <2>2. PICK id \in job[u].links :
          /\ links' = links \cup {<<FolderOf[u], id>>}
          /\ Finish(u, project[u], Key(u), job[u].links \ {id})
    BY <1>9 DEF LinkItem
  <2>3. job[u].links \ {id} \in SUBSET Nat /\ id \in Nat
    BY <1>a, <2>1
  <2>4. project' \in [Users -> Items] /\ LoopOK' /\ CurrentOK'
    BY <1>a, <1>b, <2>1, <2>2, <2>3
  <2>5. TablesOK' /\ FreshOK' /\ GhostsOK'
    BY <1>0, <2>1, <2>2, <2>3 DEF TablesOK, FreshOK, GhostsOK
  <2> QED
    BY <1>0, <2>1, <2>4, <2>5 DEF ProjectsOK
<1>10. CASE SaveEnd(u)
  <2>1. full' \in [Users -> BOOLEAN]
    BY <1>0, <1>10 DEF SaveEnd, CheckState, ProjectsOK
  <2>2. NoJob(FirstKey) \in Job
    BY <1>0 DEF FirstKey, NoJob, Job, LoopOK
  <2>3. LoopOK'
    BY <1>0, <1>10, <2>2 DEF SaveEnd, LoopOK, Goto
  <2>4. CurrentOK'
    BY <1>0, <1>10 DEF SaveEnd, CurrentOK, Goto, LoopOK
  <2> QED
    BY <1>0, <1>10, <2>1, <2>3, <2>4 DEF SaveEnd, TablesOK, ProjectsOK, FreshOK, GhostsOK
<1> QED
  BY <1>1, <1>2, <1>3, <1>4, <1>5, <1>6, <1>7, <1>8, <1>9, <1>10 DEF SaveStep

LEMMA InitType == Init => TypeOK
<1> SUFFICES ASSUME Init PROVE TypeOK
  OBVIOUS
<1>1. TablesOK /\ ProjectsOK /\ FreshOK /\ GhostsOK /\ OutOK
  BY DEF Init, TablesOK, ProjectsOK, FreshOK, GhostsOK, OutOK, Row, Items
<1>2. NoJob(FirstKey) \in Job
  BY DEF FirstKey, NoJob, Job
<1>3. LoopOK /\ CurrentOK
  BY <1>2 DEF Init, LoopOK, CurrentOK
<1> QED
  BY <1>1, <1>3, TypeParts

\* save() never works on an item that is no longer in the project, and every
\* variable keeps its type.  (the pointer `item` of save()'s loop)
THEOREM TypeCorrect == Spec => []TypeOK
<1>1. TypeOK /\ [Next]_vars => TypeOK'
  <2>1. ASSUME TypeOK, UNCHANGED vars PROVE TypeOK'
    BY <2>1 DEF TypeOK, vars, db, local, fresh, ghosts
  <2> QED
    BY <2>1, UserStepType, SaveStepType DEF Next
<1> QED
  BY <1>1, InitType, PTL DEF Spec

-----------------------------------------------------------------------------
(* The inductive invariant.  Kept are the versions that are stored or given *)
(* up; an item needs its mark only until its version is one of them.        *)

Kept == stored \cup Given

ItemOK(item, s, kept) ==
  /\ item.ver \in s /\ item.base \in s \cup {NoHash}
  /\ item.changed \/ item.ver \in kept

\* A user has seen what an item holds and what it was loaded from.
LocalInv ==
  \A u \in Users : \A k \in Keys : project[u][k] # NoItem =>
    ItemOK(project[u][k], seen[u], Kept) /\ k \in Originals \cup spent

\* Row ids are never used again, and a row's version is in the history `stored`.
RowInv ==
  \A k \in Keys : rows[k] # NoRow =>
    rows[k].id < nextId /\ rows[k].ver \in stored /\ k \in Originals \cup spent

\* What save() knows between two steps.
JobInv ==
  \A u \in Users :
    /\ pc[u] \in {"ask2", "force"} => job[u].hash \in seen[u]
    /\ pc[u] = "link" => Current(u).ver \in Kept
    /\ pc[u] = "clone" => job[u].clone \in spent /\ project[u][job[u].clone] = NoItem

IInv == TypeOK /\ LocalInv /\ RowInv /\ JobInv /\ EditsAccountedFor

\* The history variables only grow.
Grows == /\ stored \subseteq stored' /\ waived \subseteq waived' /\ spent \subseteq spent'
         /\ \A u \in Users : seen[u] \subseteq seen'[u]

LEMMA KeptGrows == ASSUME Grows PROVE Kept \subseteq Kept'
BY DEF Grows, Kept, Given

LEMMA WaiveKept ==
  ASSUME NEW vers, NEW why, Waive(vers, why)
  PROVE  vers \subseteq Given' /\ waived \subseteq waived'
<1>1. waived' = waived \cup (vers \X {why})
  BY DEF Waive
<1>2. ASSUME NEW v \in vers PROVE v \in Given'
  <2>1. <<v, why>> \in waived'
    BY <1>1
  <2> QED
    BY <2>1 DEF Given
<1> QED
  BY <1>1, <1>2

\* The step makes no new version, or one that p holds with its mark.
EditsHeld(p) ==
  \/ nextVer' = nextVer
  \/ /\ nextVer' = nextVer + 1
     /\ \E k \in Keys : p[k] # NoItem /\ p[k].changed /\ p[k].ver = nextVer

\* A user's project changes: what the new items have to satisfy.
LEMMA NewItems ==
  ASSUME TypeOK, LocalInv, EditsAccountedFor, Grows,
         NEW u \in Users, NEW p \in Items, project' = [project EXCEPT ![u] = p],
         EditsHeld(p), Dropped(project[u], p) \subseteq Kept',
         \A k \in Keys : p[k] # NoItem => ItemOK(p[k], seen'[u], Kept') /\ k \in Originals \cup spent'
  PROVE  LocalInv' /\ EditsAccountedFor'
<1>1. project \in [Users -> Items]
  BY TypeParts DEF ProjectsOK
<1>2. project'[u] = p /\ \A w \in Users \ {u} : project'[w] = project[w]
  BY <1>1
<1>3. Kept \subseteq Kept'
  BY KeptGrows
<1>4. LocalInv'
  <2> SUFFICES ASSUME NEW w \in Users, NEW k \in Keys, project'[w][k] # NoItem
               PROVE  ItemOK(project'[w][k], seen'[w], Kept') /\ k \in Originals \cup spent'
    BY DEF LocalInv
  <2>1. CASE w = u
    BY <1>2, <2>1
  <2>2. CASE w # u
    BY <1>2, <1>3, <2>2 DEF LocalInv, ItemOK, Grows
  <2> QED
    BY <2>1, <2>2
<1>5. EditsAccountedFor'
  <2> SUFFICES ASSUME NEW v \in 1 .. nextVer' - 1, v \notin Kept'
               PROVE  \E w \in Users : \E k \in (Marked(w))' : project'[w][k].ver = v
    BY DEF EditsAccountedFor, Kept
  <2>1. CASE v \notin 1 .. nextVer - 1
    <3>1. nextVer \in Nat /\ nextVer' = nextVer + 1 /\ v = nextVer
      BY <2>1, TypeParts DEF FreshOK, EditsHeld
    <3>2. PICK k \in Keys : p[k] # NoItem /\ p[k].changed /\ p[k].ver = v
      BY <3>1 DEF EditsHeld
    <3> QED
      BY <1>2, <3>2 DEF Marked, Loaded
  <2>2. CASE v \in 1 .. nextVer - 1
    <3>1. PICK w \in Users, k \in Keys : k \in Marked(w) /\ project[w][k].ver = v
      BY <1>3, <2>2 DEF EditsAccountedFor, Kept, Marked, Loaded
    <3>2. project[w][k] # NoItem /\ project[w][k].changed
      BY <3>1 DEF Marked, Loaded
    <3>3. CASE w # u
      BY <1>2, <3>1, <3>2, <3>3 DEF Marked, Loaded
    <3>4. CASE w = u
      <4>1. v \notin Dropped(project[u], p)
        OBVIOUS
      <4>2. p[k] # NoItem /\ p[k].ver = v /\ p[k].changed
        BY <3>1, <3>2, <3>4, <4>1 DEF Dropped
      <4> QED
        BY <1>2, <3>4, <4>2 DEF Marked, Loaded
    <3> QED
      BY <3>3, <3>4
  <2> QED
    BY <2>1, <2>2
<1> QED
  BY <1>4, <1>5

\* The other users' part of save() does not depend on this user's step.
LEMMA OthersJob ==
  ASSUME TypeOK, JobInv, Grows, NEW u \in Users, NEW w \in Users \ {u},
         project'[w] = project[w], pc'[w] = pc[w], job'[w] = job[w]
  PROVE  /\ pc'[w] \in {"ask2", "force"} => job'[w].hash \in seen'[w]
         /\ pc'[w] = "link" => (Current(w)').ver \in Kept'
         /\ pc'[w] = "clone" => job'[w].clone \in spent' /\ project'[w][job'[w].clone] = NoItem
<1>1. Kept \subseteq Kept' /\ Current(w)' = Current(w)
  BY KeptGrows DEF Current, Key
<1> QED
  BY <1>1 DEF JobInv, Grows

JobOK(u) ==
  /\ pc[u] \in {"ask2", "force"} => job[u].hash \in seen[u]
  /\ pc[u] = "link" => Current(u).ver \in Kept
  /\ pc[u] = "clone" => job[u].clone \in spent /\ project[u][job[u].clone] = NoItem

LEMMA ActorJob ==
  ASSUME TypeOK, JobInv, Grows, NEW u \in Users,
         \A w \in Users \ {u} : project'[w] = project[w] /\ pc'[w] = pc[w] /\ job'[w] = job[w],
         JobOK(u)'
  PROVE  JobInv'
<1>1. ASSUME NEW w \in Users PROVE JobOK(w)'
  <2>1. CASE w = u
    BY <2>1
  <2>2. CASE w # u
    BY <2>2, OthersJob DEF JobOK
  <2> QED
    BY <2>1, <2>2
<1> QED
  BY <1>1 DEF JobInv, JobOK

LEMMA UserJob ==
  ASSUME TypeOK, JobInv, Grows, NEW u \in Users, Idle(u), UNCHANGED <<pc, job>>,
         NEW p, project' = [project EXCEPT ![u] = p]
  PROVE  JobInv'
<1>1. \A w \in Users \ {u} : project'[w] = project[w] /\ pc'[w] = pc[w] /\ job'[w] = job[w]
  BY TypeParts DEF ProjectsOK
<1>2. JobOK(u)'
  BY DEF JobOK, Idle
<1> QED
  BY <1>1, <1>2, ActorJob

LEMMA SameRows ==
  ASSUME RowInv, Grows, UNCHANGED <<rows, nextId>>
  PROVE  RowInv'
BY DEF RowInv, Grows

LEMMA SameItems ==
  ASSUME LocalInv, EditsAccountedFor, Grows, UNCHANGED <<project, nextVer>>
  PROVE  LocalInv' /\ EditsAccountedFor'
<1>1. Kept \subseteq Kept'
  BY KeptGrows
<1>2. LocalInv'
  BY <1>1 DEF LocalInv, ItemOK, Grows
<1>3. EditsAccountedFor'
  BY <1>1 DEF EditsAccountedFor, Kept, Marked, Loaded
<1> QED
  BY <1>2, <1>3

LEMMA ItemStaysOK ==
  ASSUME LocalInv, Grows, NEW u \in Users, NEW k \in Keys, project[u][k] # NoItem
  PROVE  ItemOK(project[u][k], seen'[u], Kept') /\ k \in Originals \cup spent'
BY KeptGrows DEF LocalInv, ItemOK, Grows

\* The end of the loop's body, when the item's version is stored or given up.
LEMMA FinishInv ==
  ASSUME TypeOK, LocalInv, JobInv, EditsAccountedFor, Grows, nextVer' = nextVer,
         NEW u \in Users, NEW items \in Items, NEW k \in Keys, items[k] # NoItem,
         NEW ids \in SUBSET Nat, Finish(u, items, k, ids),
         items[k].ver \in Kept', Dropped(project[u], items) \subseteq Kept',
         \A q \in Keys : items[q] # NoItem => ItemOK(items[q], seen'[u], Kept') /\ q \in Originals \cup spent'
  PROVE  LocalInv' /\ JobInv' /\ EditsAccountedFor'
<1> DEFINE p == [items EXCEPT ![k].changed = ids # {}]
<1>1. project \in [Users -> Items] /\ LoopOK
  BY TypeParts DEF ProjectsOK
<1>2. items[k] \in Item /\ p[k] = [items[k] EXCEPT !.changed = ids # {}]
  BY DEF Items
<1>3. p[k] \in Item /\ p[k].ver = items[k].ver /\ p[k].base = items[k].base
  BY <1>2 DEF Item
<1>4. p \in Items /\ \A q \in Keys \ {k} : p[q] = items[q]
  BY <1>2, <1>3 DEF Items
<1>5. project' = [project EXCEPT ![u] = p]
  BY DEF Finish
<1>6. Dropped(project[u], p) \subseteq Kept'
  <2> SUFFICES ASSUME NEW q \in Keys, project[u][q] # NoItem, project[u][q].changed,
                      p[q] = NoItem \/ p[q].ver # project[u][q].ver \/ ~p[q].changed
               PROVE  project[u][q].ver \in Kept'
    BY DEF Dropped
  <2>1. CASE q # k
    <3>1. project[u][q].ver \in Dropped(project[u], items)
      BY <1>4, <2>1 DEF Dropped
    <3> QED
      BY <3>1
  <2>2. CASE q = k /\ items[k].ver # project[u][k].ver
    <3>1. project[u][q].ver \in Dropped(project[u], items)
      BY <2>2 DEF Dropped
    <3> QED
      BY <3>1
  <2>3. CASE q = k /\ items[k].ver = project[u][k].ver
    BY <2>3
  <2> QED
    BY <2>1, <2>2, <2>3
<1>7. \A q \in Keys : p[q] # NoItem => ItemOK(p[q], seen'[u], Kept') /\ q \in Originals \cup spent'
  <2>1. ItemOK(p[k], seen'[u], Kept') /\ k \in Originals \cup spent'
    BY <1>3 DEF ItemOK
  <2> QED
    BY <1>4, <2>1
<1>8. LocalInv' /\ EditsAccountedFor'
  BY <1>4, <1>5, <1>6, <1>7, NewItems DEF EditsHeld
<1>9. /\ pc'[u] \in {"next", "link"} /\ job'[u].key = k
      /\ \A w \in Users \ {u} : project'[w] = project[w] /\ pc'[w] = pc[w] /\ job'[w] = job[w]
  <2>1. pc'[u] \in {"next", "link"}
    BY <1>1 DEF Finish, Goto, LoopOK
  <2> QED
    BY <2>1, FinishType
<1>10. Current(u)' = p[k]
  BY <1>1, <1>5, <1>9 DEF Current, Key
<1>11. JobOK(u)'
  BY <1>3, <1>9, <1>10 DEF JobOK
<1>12. JobInv'
  BY <1>9, <1>11, ActorJob
<1> QED
  BY <1>8, <1>12

\* The item leaves the loop's body as it is.
LEMMA SkipInv ==
  ASSUME IInv, Grows, UNCHANGED <<rows, nextId, nextVer>>, NEW u \in Users,
         pc[u] \notin {"idle", "next", "end"}, NEW ids \in SUBSET Nat,
         Finish(u, project[u], Key(u), ids), Current(u).ver \in Kept'
  PROVE  LocalInv' /\ EditsAccountedFor' /\ RowInv' /\ JobInv'
<1>1. TypeOK /\ LocalInv /\ JobInv /\ RowInv /\ EditsAccountedFor
  BY DEF IInv
<1>2. project[u] \in Items /\ Key(u) \in Keys /\ project[u][Key(u)] # NoItem
  BY <1>1, TypeParts DEF ProjectsOK, LoopOK, CurrentOK, Key, Job
<1>3. project[u][Key(u)].ver \in Kept' /\ Dropped(project[u], project[u]) \subseteq Kept'
  BY DEF Dropped, Current
<1>4. \A q \in Keys : project[u][q] # NoItem => ItemOK(project[u][q], seen'[u], Kept') /\ q \in Originals \cup spent'
  BY <1>1, ItemStaysOK
<1>5. LocalInv' /\ JobInv' /\ EditsAccountedFor'
  BY <1>1, <1>2, <1>3, <1>4, FinishInv
<1> QED
  BY <1>1, <1>5, SameRows

\* A step of the user that only changes the user's own items.
LEMMA UserInv ==
  ASSUME IInv, NEW u \in Users, Idle(u), Grows, UNCHANGED <<pc, job, rows, nextId>>,
         NEW p \in Items, project' = [project EXCEPT ![u] = p], EditsHeld(p),
         Waive(Dropped(project[u], project'[u]), "choice") \/ Dropped(project[u], p) = {},
         \A k \in Keys : p[k] # NoItem => ItemOK(p[k], seen'[u], Kept') /\ k \in Originals \cup spent'
  PROVE  LocalInv' /\ EditsAccountedFor' /\ RowInv' /\ JobInv'
<1>1. project'[u] = p
  BY TypeParts DEF IInv, ProjectsOK
<1>2. Dropped(project[u], p) \subseteq Kept'
  BY <1>1, WaiveKept DEF Kept
<1>3. LocalInv' /\ EditsAccountedFor'
  BY <1>2, NewItems DEF IInv
<1>4. RowInv' /\ JobInv'
  BY SameRows, UserJob DEF IInv
<1> QED
  BY <1>3, <1>4

LEMMA UserStepInv ==
  ASSUME IInv, NEW u \in Users, UserStep(u)
  PROVE  LocalInv' /\ EditsAccountedFor' /\ RowInv' /\ JobInv'
<1>0. /\ TypeOK /\ LocalInv /\ RowInv /\ JobInv /\ EditsAccountedFor
      /\ TablesOK /\ ProjectsOK /\ LoopOK /\ FreshOK /\ GhostsOK /\ CurrentOK
  BY TypeParts DEF IInv
<1> USE DEF db, local, fresh, ghosts
<1> DEFINE Goal == LocalInv' /\ EditsAccountedFor' /\ RowInv' /\ JobInv'
<1>a. ASSUME ShowAll(u), Idle(u), UNCHANGED <<db, pc, job, nextVer, spent, stored>>
      PROVE  Goal
  <2> DEFINE items == [k \in Keys |-> IF k \in Linked(FolderOf[u]) THEN FromRow(rows[k]) ELSE NoItem]
  <2>1. items \in Items
    BY <1>0, FromRowType DEF Items, Linked, TablesOK
  <2>2. project' = [project EXCEPT ![u] = items] /\ Waive(Dropped(project[u], project'[u]), "choice")
    BY <1>a DEF ShowAll
  <2>3. Grows
    BY <1>0, <1>a, <2>2, WaiveKept DEF Grows, ShowAll, GhostsOK
  <2>4. ASSUME NEW k \in Keys, items[k] # NoItem
        PROVE  ItemOK(items[k], seen'[u], Kept') /\ k \in Originals \cup spent'
    <3>1. k \in Linked(FolderOf[u]) /\ rows[k] # NoRow /\ items[k] = FromRow(rows[k])
      BY <2>4 DEF Linked
    <3>2. rows[k].ver \in seen'[u]
      BY <1>0, <1>a, <3>1 DEF ShowAll, GhostsOK
    <3>3. rows[k].ver \in Kept' /\ k \in Originals \cup spent'
      BY <1>0, <2>3, <3>1, KeptGrows DEF RowInv, Kept, Grows
    <3> QED
      BY <3>1, <3>2, <3>3 DEF FromRow, ItemOK
  <2> QED
    BY <1>a, <2>1, <2>2, <2>3, <2>4, UserInv DEF EditsHeld
<1>1. CASE Open(u)
  BY <1>1, <1>a DEF Open, Request
<1>2. CASE Close(u)
  <2> DEFINE items == [k \in Keys |-> NoItem]
  <2>1. items \in Items
    BY DEF Items
  <2>2. Grows
    BY <1>2, WaiveKept DEF Close, Grows
  <2> QED
    BY <1>2, <2>1, <2>2, UserInv DEF EditsHeld, Close, Request
<1>3. CASE Update(u)
  <2>1. Idle(u) /\ UNCHANGED <<db, pc, job, nextVer, spent, stored>>
    BY <1>3 DEF Update, Request
  <2>2. CASE ShowAll(u)
    BY <1>a, <2>1, <2>2
  <2>3. CASE ~ShowAll(u)
    <3> DEFINE items == [k \in Keys |-> IF k \in Loaded(u) THEN Refreshed(u, k) ELSE NoItem]
    <3>1. /\ project' = [project EXCEPT ![u] = items]
          /\ seen' = [seen EXCEPT ![u] = @ \cup {project'[u][k].ver : k \in Loaded(u)}]
          /\ Waive(Dropped(project[u], project'[u]), "choice")
      BY <1>3, <2>3 DEF Update
    <3>2. project'[u] = items
      BY <1>0, <3>1 DEF ProjectsOK
    <3>3. Grows
      BY <1>0, <2>1, <3>1, WaiveKept DEF Grows, GhostsOK
    <3>4. ASSUME NEW k \in Keys, k \in Loaded(u)
          PROVE  Refreshed(u, k) \in Item /\ ItemOK(Refreshed(u, k), seen'[u], Kept')
      <4> DEFINE item == project[u][k]
                 new == UpdateFromDB(item, IF rows[k] = NoRow THEN 0 ELSE rows[k].id, rows[k])
      <4>1. item \in Item /\ rows[k] \in Row \cup {NoRow} /\ item # NoItem
        BY <1>0, <3>4 DEF ProjectsOK, TablesOK, Loaded, Items
      <4>2. ItemOK(item, seen'[u], Kept')
        BY <1>0, <3>3, <4>1, ItemStaysOK
      <4>3. CASE rows[k] = NoRow
        <5>1. Refreshed(u, k) = [item EXCEPT !.changed = TRUE]
          BY <4>3 DEF Refreshed
        <5> QED
          BY <4>1, <4>2, <5>1 DEF Item, ItemOK
      <4>4. CASE rows[k] # NoRow
        <5>1. new \in Item
          BY <4>1, UpdateFromDBType
        <5>2. Refreshed(u, k) = [new EXCEPT !.changed = k \notin Linked(FolderOf[u])]
          BY <4>4 DEF Refreshed
        <5>3. Refreshed(u, k) \in Item /\ Refreshed(u, k).ver = new.ver /\ Refreshed(u, k).base = new.base
          BY <5>1, <5>2 DEF Item
        <5>4. items[k] = Refreshed(u, k)
          BY <3>4
        <5>5. new.ver \in seen'[u]
          BY <1>0, <3>1, <3>2, <3>4, <5>3, <5>4 DEF GhostsOK
        <5>6. CASE new = item
          <6>1. CASE ~item.changed \/ Refreshed(u, k).changed
            BY <4>2, <5>3, <5>5, <5>6, <6>1 DEF ItemOK
          <6>2. CASE item.changed /\ ~Refreshed(u, k).changed
            <7>1. item.ver \in Dropped(project[u], project'[u])
              BY <3>2, <4>1, <5>4, <6>2 DEF Dropped
            <7>2. item.ver \in Kept'
              BY <3>1, <7>1, WaiveKept DEF Kept
            <7> QED
              BY <4>2, <5>3, <5>5, <5>6, <7>2 DEF ItemOK
          <6> QED
            BY <6>1, <6>2
        <5>7. CASE new # item
          <6>1. new = [FromRow(rows[k]) EXCEPT !.changed = item.changed]
            BY <5>7, <4>4 DEF UpdateFromDB
          <6>2. new.ver = rows[k].ver /\ new.base = rows[k].ver
            BY <6>1 DEF FromRow
          <6>3. rows[k].ver \in Kept'
            BY <1>0, <3>3, <4>4, KeptGrows DEF RowInv, Kept
          <6> QED
            BY <5>3, <5>5, <6>2, <6>3 DEF ItemOK
        <5> QED
          BY <5>6, <5>7
      <4> QED
        BY <4>3, <4>4
    <3>5. items \in Items
      BY <3>4 DEF Items, Loaded
    <3>6. \A k \in Keys : items[k] # NoItem => ItemOK(items[k], seen'[u], Kept') /\ k \in Originals \cup spent'
      BY <1>0, <3>3, <3>4, ItemStaysOK DEF Loaded
    <3> QED
      BY <2>1, <3>1, <3>3, <3>5, <3>6, UserInv DEF EditsHeld
  <2> QED
    BY <2>2, <2>3
<1>b. ASSUME UNCHANGED <<project, nextVer>>, Grows, UNCHANGED <<rows, nextId>>, JobOK(u)',
             \A w \in Users \ {u} : pc'[w] = pc[w] /\ job'[w] = job[w]
      PROVE  Goal
  BY <1>0, <1>b, SameItems, SameRows, ActorJob
<1>4. CASE Purge(u)
  <2>1. Grows /\ UNCHANGED <<local, nextVer, nextId>>
    BY <1>4 DEF Purge, Grows
  <2>2. \A k \in Keys : rows'[k] # NoRow => rows'[k] = rows[k]
    BY <1>4 DEF Purge
  <2>3. RowInv'
    BY <1>0, <1>4, <2>1, <2>2 DEF RowInv, Purge
  <2>4. JobOK(u)'
    BY <1>4, <2>1 DEF JobOK, Purge, Idle
  <2> QED
    BY <1>0, <2>1, <2>3, <2>4, SameItems, ActorJob
<1>5. CASE Save(u)
  <2>1. Grows /\ pc'[u] = "next" /\ job' = job /\ \A w \in Users \ {u} : pc'[w] = pc[w]
    BY <1>0, <1>5 DEF Save, Grows, Goto, LoopOK
  <2>2. JobOK(u)'
    BY <2>1 DEF JobOK
  <2> QED
    BY <1>5, <1>b, <2>1, <2>2 DEF Save
<1>6. CASE Stop(u)
  <2>1. Grows /\ pc'[u] = "end" /\ job' = job /\ \A w \in Users \ {u} : pc'[w] = pc[w]
    BY <1>0, <1>6 DEF Stop, Grows, Goto, LoopOK
  <2>2. JobOK(u)'
    BY <2>1 DEF JobOK
  <2> QED
    BY <1>6, <1>b, <2>1, <2>2 DEF Stop
<1>c. ASSUME pc[u] \in {"ask1", "ask2"}, NEW ids \in SUBSET Nat, Clone(u, ids),
             UNCHANGED <<db, nextVer, stored, seen>>
      PROVE  Goal
  <2>1. PICK c \in Keys \ (Originals \cup spent) :
          /\ spent' = spent \cup {c}
          /\ job' = [job EXCEPT ![u].clone = c, ![u].links = ids]
          /\ Goto(u, "clone") /\ UNCHANGED <<project, waived>>
    BY <1>c DEF Clone
  <2>2. Grows
    BY <1>c, <2>1 DEF Grows
  <2>3. job'[u].clone = c /\ pc'[u] = "clone" /\ \A w \in Users \ {u} : pc'[w] = pc[w] /\ job'[w] = job[w]
    BY <1>0, <2>1 DEF Goto, LoopOK, Job
  <2>4. project[u][c] = NoItem
    BY <1>0, <2>1 DEF LocalInv
  <2>5. JobOK(u)'
    BY <2>1, <2>3, <2>4 DEF JobOK
  <2> QED
    BY <1>b, <1>c, <2>1, <2>2, <2>3, <2>5
<1>d. ASSUME pc[u] \in {"ask1", "ask2"}, Decline(u), UNCHANGED <<db, nextVer, stored, seen>>
      PROVE  Goal
  <2>1. /\ Finish(u, project[u], Key(u), job[u].links) /\ UNCHANGED spent
        /\ Waive({Current(u).ver}, "choice") /\ job[u].links \in SUBSET Nat
    BY <1>0, <1>d DEF Decline, Skip, LoopOK, Job
  <2>2. Grows /\ Current(u).ver \in Kept'
    BY <1>d, <2>1, WaiveKept DEF Grows, Kept
  <2> QED
    BY <1>d, <2>1, <2>2, SkipInv
<1>7. CASE SelectSaveAction(u)
  <2>1. pc[u] \in {"ask1", "ask2"} /\ UNCHANGED <<db, nextVer, stored, seen>>
    BY <1>7 DEF SelectSaveAction, At
  <2>2. CASE Clone(u, {}) \/ Decline(u)
    BY <1>c, <1>d, <2>1, <2>2
  <2>3. CASE /\ Goto(u, "update") \/ Goto(u, "reload")
             /\ job' = [job EXCEPT ![u].links = {job[u].id}]
             /\ UNCHANGED <<project, waived, spent>>
    <3>1. pc'[u] \in {"update", "reload"} /\ \A w \in Users \ {u} : pc'[w] = pc[w] /\ job'[w] = job[w]
      BY <1>0, <2>3 DEF Goto, LoopOK
    <3>2. Grows
      BY <2>1, <2>3 DEF Grows
    <3>3. JobOK(u)'
      BY <3>1 DEF JobOK
    <3> QED
      BY <1>b, <2>1, <2>3, <3>1, <3>2, <3>3
  <2> QED
    BY <1>7, <2>2, <2>3 DEF SelectSaveAction
<1>8. CASE ResolveConflict(u)
  <2>1. pc[u] = "ask2" /\ UNCHANGED <<db, nextVer, stored, seen>> /\ job[u].links \in SUBSET Nat
    BY <1>0, <1>8 DEF ResolveConflict, At, LoopOK, Job
  <2>2. CASE Clone(u, job[u].links) \/ Decline(u)
    BY <1>c, <1>d, <2>1, <2>2
  <2>3. CASE /\ Goto(u, "force") \/ Goto(u, "reload")
             /\ UNCHANGED <<project, job, waived, spent>>
    <3>1. pc'[u] \in {"force", "reload"} /\ \A w \in Users \ {u} : pc'[w] = pc[w] /\ job'[w] = job[w]
      BY <1>0, <2>3 DEF Goto, LoopOK
    <3>2. Grows
      BY <2>1, <2>3 DEF Grows
    <3>3. JobOK(u)'
      BY <1>0, <2>1, <2>3, <3>1 DEF JobOK, JobInv
    <3> QED
      BY <1>b, <2>1, <2>3, <3>1, <3>2, <3>3
  <2> QED
    BY <1>8, <2>2, <2>3 DEF ResolveConflict
<1>9. ASSUME NEW k \in Keys, ShowItem(u, k) PROVE Goal
  <2> DEFINE items == [project[u] EXCEPT ![k] = FromRow(rows[k])]
  <2>1. rows[k] \in Row /\ rows[k] # NoRow /\ project[u] \in Items /\ project[u][k] = NoItem
    BY <1>0, <1>9 DEF ShowItem, Linked, Loaded, TablesOK, ProjectsOK
  <2>2. items \in Items /\ items[k] = FromRow(rows[k]) /\ \A q \in Keys \ {k} : items[q] = project[u][q]
    BY <2>1, FromRowType DEF Items
  <2>3. Grows /\ rows[k].ver \in seen'[u]
    BY <1>0, <1>9 DEF ShowItem, Grows, GhostsOK
  <2>4. ItemOK(items[k], seen'[u], Kept') /\ k \in Originals \cup spent'
    BY <1>0, <2>1, <2>2, <2>3, KeptGrows DEF RowInv, Kept, FromRow, ItemOK, Grows
  <2>5. \A q \in Keys : items[q] # NoItem => ItemOK(items[q], seen'[u], Kept') /\ q \in Originals \cup spent'
    BY <1>0, <2>2, <2>3, <2>4, ItemStaysOK
  <2>6. Dropped(project[u], items) = {}
    BY <2>1, <2>2 DEF Dropped
  <2> QED
    BY <1>9, <2>2, <2>3, <2>5, <2>6, UserInv DEF ShowItem, Request, EditsHeld
<1>10. ASSUME NEW k \in Keys, Import(u, k) PROVE Goal
  <2>1. PICK v \in {0} \cup {r.ver : r \in {rows[k]} \ {NoRow}} :
          /\ v = 0 => k \in Originals
          /\ project' = [project EXCEPT ![u][k] = [ver |-> v, base |-> NoHash, changed |-> TRUE]]
          /\ seen' = [seen EXCEPT ![u] = @ \cup {v}]
    BY <1>10 DEF Import
  <2> DEFINE new == [ver |-> v, base |-> NoHash, changed |-> TRUE]
             items == [project[u] EXCEPT ![k] = new]
  <2>2. v \in Nat /\ new \in Item
    BY <1>0 DEF TablesOK, Row, Item
  <2>3. project[u] \in Items /\ project[u][k] = NoItem
    BY <1>0, <1>10 DEF Import, Loaded, ProjectsOK
  <2>4. items \in Items /\ items[k] = new /\ \A q \in Keys \ {k} : items[q] = project[u][q]
    BY <2>2, <2>3 DEF Items
  <2>5. Grows /\ v \in seen'[u]
    BY <1>0, <1>10, <2>1 DEF Import, Grows, GhostsOK
  <2>6. k \in Originals \cup spent'
    BY <1>0, <2>1, <2>5 DEF RowInv, Grows
  <2>7. \A q \in Keys : items[q] # NoItem => ItemOK(items[q], seen'[u], Kept') /\ q \in Originals \cup spent'
    BY <1>0, <2>4, <2>5, <2>6, ItemStaysOK DEF ItemOK
  <2>8. Dropped(project[u], items) = {}
    BY <2>3, <2>4 DEF Dropped
  <2> QED
    BY <1>10, <2>1, <2>4, <2>5, <2>7, <2>8, UserInv DEF Import, Request, EditsHeld
<1>e. ASSUME NEW k \in Loaded(u), NEW v \in Nat
      PROVE  LET p == [project[u] EXCEPT ![k] = Changed(project[u][k], v)]
             IN  /\ p \in Items /\ \A q \in Keys \ {k} : p[q] = project[u][q]
                 /\ p[k] # NoItem /\ p[k].ver = v /\ p[k].changed /\ p[k].base = project[u][k].base
                 /\ [project EXCEPT ![u][k] = Changed(@, v)] = [project EXCEPT ![u] = p]
  <2>1. project[u] \in Items /\ project[u][k] \in Item /\ k \in Keys
    BY <1>0 DEF ProjectsOK, Items, Loaded
  <2>2. /\ Changed(project[u][k], v) \in Item /\ Changed(project[u][k], v).ver = v
        /\ Changed(project[u][k], v).changed /\ Changed(project[u][k], v).base = project[u][k].base
    BY <2>1 DEF Item, Changed
  <2>3. [project EXCEPT ![u][k] = Changed(@, v)] =
        [project EXCEPT ![u] = [project[u] EXCEPT ![k] = Changed(project[u][k], v)]]
    OBVIOUS
  <2> QED
    BY <2>1, <2>2, <2>3 DEF Items
<1>f. ASSUME NEW k \in Loaded(u), NEW v \in Nat, Idle(u), Grows, v \in seen'[u],
             UNCHANGED <<pc, job, rows, nextId>>, project' = [project EXCEPT ![u][k] = Changed(@, v)],
             Waive(Dropped(project[u], project'[u]), "choice"),
             nextVer' = nextVer \/ (v = nextVer /\ nextVer' = nextVer + 1)
      PROVE  Goal
  <2> DEFINE p == [project[u] EXCEPT ![k] = Changed(project[u][k], v)]
  <2> HIDE DEF p
  <2>1. /\ p \in Items /\ \A q \in Keys \ {k} : p[q] = project[u][q]
        /\ p[k] # NoItem /\ p[k].ver = v /\ p[k].changed /\ p[k].base = project[u][k].base
        /\ project' = [project EXCEPT ![u] = p]
    BY <1>e, <1>f DEF p
  <2>2. k \in Keys /\ project[u][k] # NoItem
    BY DEF Loaded
  <2>3. EditsHeld(p)
    BY <1>f, <2>1, <2>2 DEF EditsHeld
  <2>4. ItemOK(p[k], seen'[u], Kept') /\ k \in Originals \cup spent'
    BY <1>0, <1>f, <2>1, <2>2, ItemStaysOK DEF ItemOK
  <2>5. \A q \in Keys : p[q] # NoItem => ItemOK(p[q], seen'[u], Kept') /\ q \in Originals \cup spent'
    BY <1>0, <1>f, <2>1, <2>4, ItemStaysOK
  <2> QED
    BY <1>f, <2>1, <2>3, <2>5, UserInv
<1>11. ASSUME NEW k \in Keys, Edit(u, k) PROVE Goal
  <2>1. k \in Loaded(u) /\ nextVer \in Nat
    BY <1>0, <1>11 DEF Edit, FreshOK
  <2>2. Grows /\ nextVer \in seen'[u]
    BY <1>0, <1>11, WaiveKept DEF Edit, Grows, GhostsOK
  <2> QED
    BY <1>11, <1>f, <2>1, <2>2 DEF Edit
<1>12. ASSUME NEW k \in Keys, Undo(u, k) PROVE Goal
  <2>1. k \in Loaded(u) /\ project[u][k] \in Item
    BY <1>0, <1>12 DEF Undo, Loaded, ProjectsOK, Items
  <2>2. PICK v \in Nat :
          /\ project' = [project EXCEPT ![u][k] = Changed(@, v)]
          /\ seen' = [seen EXCEPT ![u] = @ \cup {v}]
    BY <1>12, <2>1 DEF Undo, Item
  <2>3. Grows /\ v \in seen'[u]
    BY <1>0, <1>12, <2>2, WaiveKept DEF Undo, Grows, GhostsOK
  <2> QED
    BY <1>12, <1>f, <2>1, <2>2, <2>3 DEF Undo, Request
<1>13. ASSUME NEW k \in Keys, Unlink(u, k) PROVE Goal
  <2> DEFINE items == [project[u] EXCEPT ![k] = NoItem]
  <2>1. items \in Items /\ items[k] = NoItem /\ \A q \in Keys \ {k} : items[q] = project[u][q]
    BY <1>0 DEF ProjectsOK, Items
  <2>2. project' = [project EXCEPT ![u] = items]
    BY <1>13 DEF Unlink
  <2>3. Grows
    BY <1>13, WaiveKept DEF Unlink, Grows
  <2>4. \A q \in Keys : items[q] # NoItem => ItemOK(items[q], seen'[u], Kept') /\ q \in Originals \cup spent'
    BY <1>0, <2>1, <2>3, ItemStaysOK
  <2> QED
    BY <1>13, <2>1, <2>2, <2>3, <2>4, UserInv DEF Unlink, Request, EditsHeld
<1> QED
  BY <1>1, <1>2, <1>3, <1>4, <1>5, <1>6, <1>7, <1>8, <1>9, <1>10, <1>11, <1>12, <1>13 DEF UserStep

\* The items after the current one was stored.
LEMMA StoredItemsOK ==
  ASSUME TypeOK, LocalInv, Grows, NEW u \in Users, Current(u) # NoItem, Current(u).ver \in Kept'
  PROVE  /\ StoredItems(u) \in Items /\ StoredItems(u)[Key(u)] # NoItem /\ Key(u) \in Keys
         /\ StoredItems(u)[Key(u)].ver = Current(u).ver
         /\ \A q \in Keys \ {Key(u)} : StoredItems(u)[q] = project[u][q]
         /\ Dropped(project[u], StoredItems(u)) = {}
         /\ \A q \in Keys : StoredItems(u)[q] # NoItem =>
              ItemOK(StoredItems(u)[q], seen'[u], Kept') /\ q \in Originals \cup spent'
<1> DEFINE s == StoredItems(u)
<1>1. Current(u) \in Item /\ Key(u) \in Keys /\ s \in Items /\ s[Key(u)] # NoItem
      /\ Current(u) = project[u][Key(u)] /\ project[u] \in Items
  BY StoredItemsType, TypeParts DEF Current, ProjectsOK
<1>2. /\ s[Key(u)] = [Current(u) EXCEPT !.base = Current(u).ver]
      /\ \A q \in Keys \ {Key(u)} : s[q] = project[u][q]
  BY <1>1 DEF StoredItems, Items
<1>3. /\ s[Key(u)].ver = Current(u).ver /\ s[Key(u)].base = Current(u).ver
      /\ s[Key(u)].changed = Current(u).changed
  BY <1>1, <1>2 DEF Item
<1>4. Dropped(project[u], s) = {}
  <2>1. \A q \in Keys : project[u][q] # NoItem =>
          s[q] # NoItem /\ s[q].ver = project[u][q].ver /\ s[q].changed = project[u][q].changed
    BY <1>1, <1>2, <1>3
  <2> HIDE DEF s
  <2> QED
    BY <2>1 DEF Dropped
<1>5. ItemOK(s[Key(u)], seen'[u], Kept') /\ Key(u) \in Originals \cup spent'
  BY <1>1, <1>3, ItemStaysOK DEF ItemOK
<1>6. \A q \in Keys : s[q] # NoItem => ItemOK(s[q], seen'[u], Kept') /\ q \in Originals \cup spent'
  BY <1>2, <1>5, ItemStaysOK
<1> QED
  BY <1>1, <1>2, <1>3, <1>4, <1>6

\* Both conditional UPDATEs.
LEMMA StoreRowInv ==
  ASSUME IInv, NEW u \in Users, pc[u] \notin {"idle", "next", "end"}, DbRow(u) # NoRow,
         StoreRow(u), UNCHANGED <<nextId, nextVer, spent, waived, seen>>
  PROVE  LocalInv' /\ EditsAccountedFor' /\ RowInv' /\ JobInv'
<1>1. /\ TypeOK /\ LocalInv /\ JobInv /\ RowInv /\ EditsAccountedFor
      /\ TablesOK /\ LoopOK /\ CurrentOK
  BY TypeParts DEF IInv
<1>2. Current(u) # NoItem /\ job[u].links \in SUBSET Nat
  BY <1>1 DEF LoopOK, CurrentOK, Current, Key, Job
<1>3. Grows /\ Current(u).ver \in stored' /\ Current(u).ver \in Kept'
  BY DEF StoreRow, Grows, Kept
<1>4. /\ StoredItems(u) \in Items /\ StoredItems(u)[Key(u)] # NoItem /\ Key(u) \in Keys
      /\ StoredItems(u)[Key(u)].ver = Current(u).ver
      /\ Dropped(project[u], StoredItems(u)) \subseteq Kept'
      /\ \A q \in Keys : StoredItems(u)[q] # NoItem =>
           ItemOK(StoredItems(u)[q], seen'[u], Kept') /\ q \in Originals \cup spent'
  BY <1>1, <1>2, <1>3, StoredItemsOK
<1>5. LocalInv' /\ JobInv' /\ EditsAccountedFor'
  BY <1>1, <1>2, <1>3, <1>4, FinishInv DEF StoreRow
<1>6. RowInv'
  <2>1. rows[Key(u)] \in Row
    BY <1>1, <1>4 DEF TablesOK, DbRow
  <2>2. rows' = [rows EXCEPT ![Key(u)] = [rows[Key(u)] EXCEPT !.ver = Current(u).ver]]
    BY DEF StoreRow
  <2>3. /\ rows'[Key(u)].id = rows[Key(u)].id /\ rows'[Key(u)].ver = Current(u).ver
        /\ \A q \in Keys \ {Key(u)} : rows'[q] = rows[q]
    BY <1>1, <1>4, <2>1, <2>2 DEF TablesOK, Row
  <2> QED
    BY <1>1, <1>3, <1>4, <2>3 DEF RowInv, DbRow, Grows
<1> QED
  BY <1>5, <1>6

LEMMA SaveStepInv ==
  ASSUME IInv, NEW u \in Users, SaveStep(u)
  PROVE  LocalInv' /\ EditsAccountedFor' /\ RowInv' /\ JobInv'
<1>0. /\ TypeOK /\ LocalInv /\ RowInv /\ JobInv /\ EditsAccountedFor
      /\ TablesOK /\ ProjectsOK /\ LoopOK /\ FreshOK /\ GhostsOK /\ CurrentOK
  BY TypeParts DEF IInv
<1> USE DEF db, local, fresh, ghosts
<1> DEFINE Goal == LocalInv' /\ EditsAccountedFor' /\ RowInv' /\ JobInv'
<1>a. ASSUME pc[u] \notin {"idle", "next", "end"}
      PROVE  /\ Current(u) \in Item /\ Current(u) # NoItem /\ Key(u) \in Keys
             /\ project[u] \in Items /\ job[u] \in Job /\ Current(u).ver \in Nat
             /\ job[u].links \in SUBSET Nat /\ project[u][Key(u)] = Current(u)
             /\ DbRow(u) \in Row \cup {NoRow} /\ Key(u) \in Originals \cup spent
             /\ ItemOK(Current(u), seen[u], Kept)
  BY <1>0, <1>a DEF CurrentOK, ProjectsOK, LoopOK, TablesOK, LocalInv, Current, Key, Job, Items, Item, DbRow
<1>b. ASSUME UNCHANGED <<project, nextVer>>, Grows, UNCHANGED <<rows, nextId>>, JobOK(u)',
             \A w \in Users \ {u} : pc'[w] = pc[w] /\ job'[w] = job[w]
      PROVE  Goal
  BY <1>0, <1>b, SameItems, SameRows, ActorJob
<1>c. ASSUME NEW label, Goto(u, label), label \in {"next", "linked", "insert", "update", "ask1", "check2", "end", "idle"},
             UNCHANGED <<project, nextVer, rows, nextId>>, Grows, \A w \in Users \ {u} : job'[w] = job[w]
      PROVE  Goal
  <2>1. pc'[u] = label /\ \A w \in Users \ {u} : pc'[w] = pc[w]
    BY <1>0, <1>c DEF Goto, LoopOK
  <2>2. JobOK(u)'
    BY <1>c, <2>1 DEF JobOK
  <2> QED
    BY <1>b, <1>c, <2>1, <2>2
<1>1. CASE SaveNext(u)
  <2>1. PICK label \in {"insert", "linked"} : Goto(u, label) /\ \A w \in Users \ {u} : job'[w] = job[w]
    BY <1>0, <1>1 DEF SaveNext, LoopOK
  <2>2. Grows
    BY <1>1 DEF SaveNext, Grows
  <2> QED
    BY <1>1, <1>c, <2>1, <2>2 DEF SaveNext
<1>2. CASE CheckLink(u)
  <2>1. Grows
    BY <1>2 DEF CheckLink, Grows
  <2> QED
    BY <1>2, <1>c, <2>1 DEF CheckLink
<1>3. CASE Insert(u)
  <2>1. pc[u] = "insert" /\ Grows
    BY <1>3 DEF Insert, At, Grows
  <2>2. CASE DbRow(u) # NoRow
    BY <1>3, <1>c, <2>1, <2>2 DEF Insert
  <2>3. CASE DbRow(u) = NoRow
    <3>1. /\ rows' = [rows EXCEPT ![Key(u)] = [id |-> nextId, ver |-> Current(u).ver]]
          /\ nextId' = nextId + 1 /\ Current(u).ver \in stored' /\ nextVer' = nextVer
          /\ Finish(u, StoredItems(u), Key(u), {nextId})
      BY <1>3, <2>3 DEF Insert
    <3>2. Current(u).ver \in Kept' /\ {nextId} \in SUBSET Nat /\ nextId < nextId'
      BY <1>0, <3>1 DEF Kept, TablesOK
    <3>3. /\ StoredItems(u) \in Items /\ StoredItems(u)[Key(u)] # NoItem /\ Key(u) \in Keys
          /\ StoredItems(u)[Key(u)].ver = Current(u).ver
          /\ Dropped(project[u], StoredItems(u)) \subseteq Kept'
          /\ \A q \in Keys : StoredItems(u)[q] # NoItem =>
               ItemOK(StoredItems(u)[q], seen'[u], Kept') /\ q \in Originals \cup spent'
      BY <1>0, <1>a, <2>1, <3>2, StoredItemsOK
    <3>4. LocalInv' /\ JobInv' /\ EditsAccountedFor'
      BY <1>0, <2>1, <3>1, <3>2, <3>3, FinishInv
    <3>5. rows'[Key(u)].id < nextId' /\ rows'[Key(u)].ver \in stored' /\ Key(u) \in Originals \cup spent'
      BY <1>0, <1>a, <2>1, <3>1, <3>2 DEF TablesOK, Grows
    <3>6. \A k \in Keys \ {Key(u)} : rows'[k] = rows[k]
      BY <1>0, <3>1 DEF TablesOK
    <3>7. \A k \in Keys : rows[k] # NoRow => rows[k].id < nextId'
      BY <1>0, <3>1 DEF RowInv, TablesOK, Row
    <3>8. RowInv'
      BY <1>0, <2>1, <3>5, <3>6, <3>7 DEF RowInv, Grows
    <3> QED
      BY <3>4, <3>8
  <2> QED
    BY <2>2, <2>3
<1>4. CASE UpdateItem(u)
  <2> DEFINE hash == LastDatabaseHash(Current(u))
             new  == [Current(u) EXCEPT !.base = hash]
             p    == [project[u] EXCEPT ![Key(u)] = new]
  <2>1. pc[u] = "update" /\ Grows
    BY <1>4 DEF UpdateItem, At, Grows, StoreRow
  <2>2. CASE StoreRow(u) /\ DbRow(u) # NoRow
    BY <1>4, <2>1, <2>2, StoreRowInv DEF UpdateItem
  <2>3. CASE /\ project' = [project EXCEPT ![u][Key(u)].base = hash]
             /\ Goto(u, "check2") /\ UNCHANGED <<rows, stored, job>>
    <3>1. hash \in seen[u] /\ hash \in Nat
      BY <1>a, <2>1 DEF LastDatabaseHash, ItemOK, Item
    <3>2. new \in Item /\ new.ver = Current(u).ver /\ new.changed = Current(u).changed /\ new.base = hash
      BY <1>a, <2>1, <3>1 DEF Item
    <3>3. p \in Items /\ p[Key(u)] = new /\ \A q \in Keys \ {Key(u)} : p[q] = project[u][q]
      BY <1>a, <2>1, <3>2 DEF Items
    <3>4. [project EXCEPT ![u][Key(u)].base = hash]
          = [project EXCEPT ![u] = [project[u] EXCEPT ![Key(u)] = [project[u][Key(u)] EXCEPT !.base = hash]]]
      OBVIOUS
    <3>5. project' = [project EXCEPT ![u] = p]
      BY <1>a, <2>1, <2>3, <3>4
    <3> HIDE DEF p, new, hash
    <3>6. Dropped(project[u], p) = {}
      <4>1. \A q \in Keys : project[u][q] # NoItem =>
              p[q] # NoItem /\ p[q].ver = project[u][q].ver /\ p[q].changed = project[u][q].changed
        BY <1>a, <2>1, <3>2, <3>3
      <4> QED
        BY <4>1 DEF Dropped
    <3>7. ItemOK(p[Key(u)], seen'[u], Kept')
      BY <1>a, <2>1, <3>1, <3>2, <3>3, KeptGrows DEF ItemOK, Grows
    <3>8. \A q \in Keys : p[q] # NoItem => ItemOK(p[q], seen'[u], Kept') /\ q \in Originals \cup spent'
      BY <1>0, <1>a, <2>1, <3>3, <3>7, ItemStaysOK DEF Grows
    <3>9. LocalInv' /\ EditsAccountedFor'
      <4>1. nextVer' = nextVer
        BY <1>4 DEF UpdateItem
      <4>2. EditsHeld(p)
        BY <4>1 DEF EditsHeld
      <4> QED
        BY <1>0, <2>1, <3>3, <3>5, <3>6, <3>8, <4>2, NewItems
    <3>10. pc'[u] = "check2" /\ \A w \in Users \ {u} : project'[w] = project[w] /\ pc'[w] = pc[w] /\ job'[w] = job[w]
      BY <1>0, <2>3, <3>5 DEF Goto, LoopOK, ProjectsOK
    <3>11. JobOK(u)'
      BY <3>10 DEF JobOK
    <3>12. JobInv'
      BY <1>0, <2>1, <3>10, <3>11, ActorJob
    <3>13. RowInv'
      BY <1>0, <1>4, <2>1, <2>3, SameRows DEF UpdateItem
    <3> QED
      BY <3>9, <3>12, <3>13
  <2> QED
    BY <1>4, <2>2, <2>3 DEF UpdateItem, Matches
<1>5. CASE CheckConflict(u)
  <2>1. pc[u] = "check2" /\ UNCHANGED <<rows, nextId, nextVer, stored, spent>>
    BY <1>5 DEF CheckConflict, At
  <2>2. CASE Restart(u) /\ UNCHANGED <<project, job, waived, seen>>
    <3>1. Grows
      BY <2>1, <2>2 DEF Grows
    <3> QED
      BY <1>c, <2>1, <2>2, <3>1 DEF Restart
  <2>3. CASE Skip(u) /\ Waive({Current(u).ver}, "same") /\ UNCHANGED seen
    <3>1. Grows /\ Current(u).ver \in Kept'
      BY <2>1, <2>3, WaiveKept DEF Grows, Kept
    <3> QED
      BY <1>a, <2>1, <2>3, <3>1, SkipInv DEF Skip
  <2>4. CASE /\ job' = [job EXCEPT ![u].hash = DbRow(u).ver] /\ Goto(u, "ask2")
             /\ seen' = [seen EXCEPT ![u] = @ \cup {DbRow(u).ver}]
             /\ UNCHANGED <<project, waived>>
    <3>1. Grows
      BY <1>0, <2>1, <2>4 DEF Grows, GhostsOK
    <3>2. /\ pc'[u] = "ask2" /\ job'[u].hash \in seen'[u]
          /\ \A w \in Users \ {u} : pc'[w] = pc[w] /\ job'[w] = job[w]
      BY <1>0, <2>4 DEF Goto, LoopOK, Job, GhostsOK
    <3>3. JobOK(u)'
      BY <3>2 DEF JobOK
    <3> QED
      BY <1>b, <2>1, <2>4, <3>1, <3>2, <3>3
  <2> QED
    BY <1>5, <2>2, <2>3, <2>4 DEF CheckConflict
<1>6. CASE ForceUpdate(u)
  <2>1. pc[u] = "force" /\ UNCHANGED <<nextId, nextVer, spent, waived, seen>>
    BY <1>6 DEF ForceUpdate, At
  <2>2. CASE StoreRow(u) /\ DbRow(u) # NoRow
    BY <2>1, <2>2, StoreRowInv
  <2>3. CASE Restart(u) /\ UNCHANGED <<rows, stored, project, job>>
    <3>1. Grows
      BY <2>1, <2>3 DEF Grows
    <3> QED
      BY <1>c, <2>1, <2>3, <3>1 DEF Restart
  <2> QED
    BY <1>6, <2>2, <2>3 DEF ForceUpdate, Matches
<1>7. CASE InsertClone(u)
  <2> DEFINE c == job[u].clone
             s == StoredItems(u)
             p == [s EXCEPT ![Key(u)] = NoItem, ![c] = s[Key(u)]]
  <2>1. pc[u] = "clone" /\ Grows /\ Current(u).ver \in stored' /\ Current(u).ver \in Kept'
    BY <1>7 DEF InsertClone, At, Grows, Kept
  <2>2. c \in Keys /\ c \in spent /\ project[u][c] = NoItem /\ c # Key(u)
    BY <1>0, <1>a, <2>1 DEF JobInv, Job
  <2>3. /\ s \in Items /\ s[Key(u)] # NoItem /\ Key(u) \in Keys
        /\ s[Key(u)].ver = Current(u).ver
        /\ \A q \in Keys \ {Key(u)} : s[q] = project[u][q]
        /\ Dropped(project[u], s) = {}
        /\ \A q \in Keys : s[q] # NoItem => ItemOK(s[q], seen'[u], Kept') /\ q \in Originals \cup spent'
    BY <1>0, <1>a, <2>1, StoredItemsOK
  <2>4. /\ rows' = [rows EXCEPT ![c] = [id |-> nextId, ver |-> Current(u).ver]]
        /\ nextId' = nextId + 1 /\ nextVer' = nextVer
        /\ Finish(u, p, c, job[u].links \cup {nextId})
    BY <1>7 DEF InsertClone
  <2> HIDE DEF s
  <2>5. /\ p \in Items /\ p[c] = s[Key(u)] /\ p[Key(u)] = NoItem
        /\ \A q \in Keys \ {c, Key(u)} : p[q] = project[u][q]
    BY <2>2, <2>3 DEF Items
  <2> HIDE DEF p, c
  <2>6. Dropped(project[u], p) \subseteq Kept'
    <3> SUFFICES ASSUME NEW q \in Keys, project[u][q] # NoItem, project[u][q].changed,
                        p[q] = NoItem \/ p[q].ver # project[u][q].ver \/ ~p[q].changed
                 PROVE  project[u][q].ver \in Kept'
      BY DEF Dropped
    <3>1. q = Key(u)
      BY <2>2, <2>5
    <3> QED
      BY <1>a, <2>1, <3>1
  <2>7. \A q \in Keys : p[q] # NoItem => ItemOK(p[q], seen'[u], Kept') /\ q \in Originals \cup spent'
    <3>1. ItemOK(p[c], seen'[u], Kept') /\ c \in Originals \cup spent'
      BY <2>1, <2>2, <2>3, <2>5 DEF Grows
    <3>2. \A q \in Keys \ {c, Key(u)} : p[q] # NoItem => ItemOK(p[q], seen'[u], Kept') /\ q \in Originals \cup spent'
      BY <1>0, <2>1, <2>5, ItemStaysOK
    <3> QED
      BY <2>5, <3>1, <3>2
  <2>8. LocalInv' /\ JobInv' /\ EditsAccountedFor'
    <3>1. job[u].links \cup {nextId} \in SUBSET Nat
      BY <1>0, <1>a, <2>1 DEF TablesOK
    <3>2. p[c] # NoItem /\ p[c].ver \in Kept'
      BY <2>1, <2>3, <2>5
    <3> QED
      BY <1>0, <2>1, <2>2, <2>4, <2>5, <2>6, <2>7, <3>1, <3>2, FinishInv
  <2>9. RowInv'
    <3>1. rows'[c].id < nextId' /\ rows'[c].ver \in stored' /\ c \in Originals \cup spent'
      BY <1>0, <2>1, <2>2, <2>4 DEF TablesOK, Grows
    <3>2. \A k \in Keys \ {c} : rows'[k] = rows[k]
      BY <1>0, <2>2, <2>4 DEF TablesOK
    <3>3. \A k \in Keys : rows[k] # NoRow => rows[k].id < nextId'
      BY <1>0, <2>4 DEF RowInv, TablesOK, Row
    <3> QED
      BY <1>0, <2>1, <3>1, <3>2, <3>3 DEF RowInv, Grows
  <2> QED
    BY <2>8, <2>9
<1>8. CASE Reload(u)
  <2>1. pc[u] = "reload" /\ UNCHANGED <<rows, nextId, nextVer, stored, spent>>
    BY <1>8 DEF Reload, At
  <2>2. PICK new \in {Current(u), UpdateFromDB(Current(u), job[u].id, DbRow(u))} :
          /\ Finish(u, [project[u] EXCEPT ![Key(u)] = new], Key(u), job[u].links)
          /\ seen' = [seen EXCEPT ![u] = @ \cup {new.ver}]
          /\ Waive({Current(u).ver}, "choice")
    BY <1>8 DEF Reload
  <2> DEFINE p == [project[u] EXCEPT ![Key(u)] = new]
  <2>3. Grows /\ new.ver \in seen'[u] /\ Current(u).ver \in Kept'
    BY <1>0, <2>1, <2>2, WaiveKept DEF Grows, GhostsOK, Kept
  <2>4. new \in Item
    BY <1>a, <2>1, UpdateFromDBType
  <2>5. new.ver \in Kept' /\ new.base \in seen'[u] \cup {NoHash}
    <3>1. CASE new = Current(u)
      BY <1>a, <2>1, <2>3, <3>1 DEF ItemOK, Grows
    <3>2. CASE new # Current(u)
      <4>1. new = [FromRow(DbRow(u)) EXCEPT !.changed = Current(u).changed] /\ DbRow(u) # NoRow
        BY <3>2 DEF UpdateFromDB
      <4>2. new.ver = DbRow(u).ver /\ new.base = DbRow(u).ver
        BY <4>1 DEF FromRow
      <4>3. DbRow(u).ver \in stored
        BY <1>0, <1>a, <2>1, <4>1 DEF RowInv, DbRow
      <4> QED
        BY <2>1, <2>3, <4>2, <4>3 DEF Kept
    <3> QED
      BY <3>1, <3>2
  <2>6. p \in Items /\ p[Key(u)] = new /\ \A q \in Keys \ {Key(u)} : p[q] = project[u][q]
    BY <1>a, <2>1, <2>4 DEF Items
  <2> HIDE DEF p
  <2>7. Dropped(project[u], p) \subseteq Kept'
    <3> SUFFICES ASSUME NEW q \in Keys, project[u][q] # NoItem, project[u][q].changed,
                        p[q] = NoItem \/ p[q].ver # project[u][q].ver \/ ~p[q].changed
                 PROVE  project[u][q].ver \in Kept'
      BY DEF Dropped
    <3> QED
      BY <1>a, <2>1, <2>3, <2>6
  <2>8. \A q \in Keys : p[q] # NoItem => ItemOK(p[q], seen'[u], Kept') /\ q \in Originals \cup spent'
    <3>1. ItemOK(p[Key(u)], seen'[u], Kept') /\ Key(u) \in Originals \cup spent'
      BY <1>a, <2>1, <2>3, <2>5, <2>6 DEF ItemOK, Grows
    <3> QED
      BY <1>0, <2>3, <2>6, <3>1, ItemStaysOK
  <2>9. LocalInv' /\ JobInv' /\ EditsAccountedFor'
    <3>1. p[Key(u)] # NoItem /\ Finish(u, p, Key(u), job[u].links)
      BY <2>2, <2>4, <2>6 DEF p
    <3> QED
      BY <1>0, <1>a, <2>1, <2>3, <2>5, <2>6, <2>7, <2>8, <3>1, FinishInv
  <2> QED
    BY <1>0, <2>1, <2>3, <2>9, SameRows
<1>9. CASE LinkItem(u)
  <2>1. pc[u] = "link" /\ UNCHANGED <<rows, nextId, nextVer>> /\ Grows
    BY <1>9 DEF LinkItem, At, Grows
  <2>2. PICK ids \in SUBSET Nat : Finish(u, project[u], Key(u), ids)
    BY <1>9, <1>a, <2>1 DEF LinkItem
  <2>3. Current(u).ver \in Kept'
    BY <1>0, <2>1, KeptGrows DEF JobInv
  <2> QED
    BY <2>1, <2>2, <2>3, SkipInv
<1>10. CASE SaveEnd(u)
  <2>1. Grows /\ \A w \in Users \ {u} : job'[w] = job[w]
    BY <1>0, <1>10 DEF SaveEnd, Grows, LoopOK
  <2> QED
    BY <1>10, <1>c, <2>1 DEF SaveEnd
<1> QED
  BY <1>1, <1>2, <1>3, <1>4, <1>5, <1>6, <1>7, <1>8, <1>9, <1>10 DEF SaveStep

LEMMA InitInv == Init => IInv
<1> SUFFICES ASSUME Init PROVE IInv
  OBVIOUS
<1>1. \A u \in Users : \A k \in Keys : project[u][k] = NoItem
  BY DEF Init
<1>2. LocalInv /\ JobInv
  BY <1>1 DEF Init, LocalInv, JobInv
<1>3. RowInv
  BY DEF Init, RowInv
<1>4. EditsAccountedFor
  BY DEF Init, EditsAccountedFor
<1> QED
  BY <1>2, <1>3, <1>4, InitType DEF IInv

LEMMA InvHolds == Spec => []IInv
<1>1. IInv /\ [Next]_vars => IInv'
  <2>1. ASSUME IInv, UNCHANGED vars PROVE IInv'
    <3>1. UNCHANGED <<rows, links, nextId, purged, project, full, pc, job, nextVer, spent, requests, stored, waived, seen, out>>
      BY <2>1 DEF vars, db, local, fresh, ghosts
    <3>2. Kept' = Kept
      BY <3>1 DEF Kept, Given
    <3>3. LocalInv' /\ RowInv' /\ JobInv'
      BY <2>1, <3>1, <3>2 DEF IInv, LocalInv, RowInv, JobInv, Current, Key
    <3>4. TypeOK' /\ EditsAccountedFor'
      BY <2>1, <3>1 DEF IInv, TypeOK, EditsAccountedFor, Given, Marked, Loaded
    <3> QED
      BY <3>3, <3>4 DEF IInv
  <2>2. ASSUME IInv, NEW u \in Users, SaveStep(u) \/ UserStep(u) PROVE IInv'
    BY <2>2, UserStepType, SaveStepType, UserStepInv, SaveStepInv DEF IInv
  <2> QED
    BY <2>1, <2>2 DEF Next
<1> QED
  BY <1>1, InitInv, PTL DEF Spec

\* No edit is lost: it was stored, its user gave it up, or a project still holds
\* it with the changed mark.  (save() in CDBProject.cpp with all its early ends)
THEOREM EditsAlwaysAccountedFor == Spec => []EditsAccountedFor
<1>1. IInv => EditsAccountedFor
  BY DEF IInv
<1> QED
  BY <1>1, InvHolds, PTL

\* An item without the changed mark was stored in its present version, or its
\* edit was given up.  (changed() and the end of save()'s loop)
THEOREM UnmarkedWasAlwaysStored == Spec => []UnmarkedWasStored
<1>1. IInv => UnmarkedWasStored
  BY DEF IInv, LocalInv, ItemOK, Kept, UnmarkedWasStored, Loaded, Marked
<1> QED
  BY <1>1, InvHolds, PTL

\* The row of k gets another version.
Overwritten(k) == /\ rows[k] # NoRow /\ rows'[k] # NoRow
                  /\ rows'[k].id = rows[k].id /\ rows'[k].ver # rows[k].ver

ByOneWhoSaw(k) == \E u \in Users : /\ pc'[u] # pc[u] /\ rows[k].ver \in seen[u]
                                  /\ project[u][k] # NoItem /\ project[u][k].ver = rows'[k].ver

\* Only the two conditional UPDATEs overwrite, and their hash is one the user saw.
LEMMA StoreRowSees ==
  ASSUME IInv, NEW u \in Users, pc[u] \in {"update", "force"}, DbRow(u) # NoRow,
         DbRow(u).ver \in seen[u], StoreRow(u), NEW k \in Keys, Overwritten(k)
  PROVE  ByOneWhoSaw(k)
<1>1. TablesOK /\ ProjectsOK /\ LoopOK /\ CurrentOK
  BY TypeParts DEF IInv
<1>2. k = Key(u) /\ rows'[k].ver = Current(u).ver
  <2>1. Key(u) \in Keys /\ rows[Key(u)] \in Row
    BY <1>1 DEF TablesOK, LoopOK, Key, Job, DbRow
  <2>2. rows' = [rows EXCEPT ![Key(u)] = [rows[Key(u)] EXCEPT !.ver = Current(u).ver]]
    BY DEF StoreRow
  <2> QED
    BY <1>1, <2>1, <2>2 DEF TablesOK, Overwritten, Row
<1>3. pc'[u] # pc[u]
  BY <1>1 DEF StoreRow, Finish, Goto, LoopOK
<1>4. Current(u) # NoItem
  BY <1>1 DEF CurrentOK, Current, Key
<1> QED
  BY <1>2, <1>3, <1>4 DEF ByOneWhoSaw, Current, DbRow

LEMMA StepSees ==
  ASSUME IInv, Next, NEW k \in Keys, Overwritten(k)
  PROVE  ByOneWhoSaw(k)
<1>0. /\ TypeOK /\ LocalInv /\ RowInv /\ JobInv
      /\ TablesOK /\ ProjectsOK /\ LoopOK /\ CurrentOK
  BY TypeParts DEF IInv
<1>q. rows' # rows
  BY DEF Overwritten
<1>1. PICK u \in Users : SaveStep(u) \/ UserStep(u)
  BY DEF Next
<1>2. CASE UserStep(u)
  <2>1. Purge(u)
    BY <1>2, <1>q DEF UserStep, Open, Close, Update, Save, Stop, SelectSaveAction, ResolveConflict,
                      ShowItem, Import, Edit, Undo, Unlink, db
  <2>2. rows'[k] # NoRow => rows'[k] = rows[k]
    BY <2>1 DEF Purge
  <2> QED
    BY <2>2 DEF Overwritten
<1>3. CASE SaveStep(u)
  <2>1. Insert(u) \/ UpdateItem(u) \/ ForceUpdate(u) \/ InsertClone(u)
    BY <1>3, <1>q DEF SaveStep, SaveNext, CheckLink, CheckConflict, Reload, LinkItem, SaveEnd, db
  <2>2. CASE Insert(u)
    <3>1. DbRow(u) = NoRow /\ rows' = [rows EXCEPT ![Key(u)] = [id |-> nextId, ver |-> Current(u).ver]]
      BY <2>2, <1>q DEF Insert
    <3> QED
      BY <1>0, <3>1 DEF Overwritten, DbRow, TablesOK
  <2>3. CASE InsertClone(u)
    <3>1. rows' = [rows EXCEPT ![job[u].clone] = [id |-> nextId, ver |-> Current(u).ver]]
      BY <2>3 DEF InsertClone
    <3>2. rows[k].id < nextId /\ nextId \in Nat
      BY <1>0 DEF RowInv, Overwritten, TablesOK
    <3>3. rows'[k] = rows[k] \/ rows'[k].id = nextId
      BY <1>0, <3>1 DEF TablesOK
    <3> QED
      BY <3>2, <3>3 DEF Overwritten
  <2>4. CASE UpdateItem(u)
    <3>1. pc[u] = "update" /\ StoreRow(u) /\ DbRow(u) # NoRow /\ DbRow(u).ver = LastDatabaseHash(Current(u))
      BY <2>4, <1>q DEF UpdateItem, Matches, At
    <3>2. ItemOK(Current(u), seen[u], Kept) /\ Current(u) # NoItem
      BY <1>0, <3>1 DEF CurrentOK, LocalInv, LoopOK, Job, Current, Key
    <3>3. DbRow(u).ver \in seen[u]
      BY <3>1, <3>2 DEF LastDatabaseHash, ItemOK
    <3> QED
      BY <3>1, <3>3, StoreRowSees
  <2>5. CASE ForceUpdate(u)
    <3>1. pc[u] = "force" /\ StoreRow(u) /\ DbRow(u) # NoRow /\ DbRow(u).ver = job[u].hash
      BY <2>5, <1>q DEF ForceUpdate, Matches, At
    <3>2. DbRow(u).ver \in seen[u]
      BY <1>0, <3>1 DEF JobInv
    <3> QED
      BY <3>1, <3>2, StoreRowSees
  <2> QED
    BY <2>1, <2>2, <2>3, <2>4, <2>5
<1> QED
  BY <1>1, <1>2, <1>3

\* Nobody overwrites a version in the database without having loaded it, made
\* it, or been shown it in the conflict dialog.  (updateItem(), checkForAction2())
THEOREM NeverOverwritesBlindly == Spec => NoBlindOverwrite
<1>1. IInv /\ [Next]_vars =>
        [\A k \in Keys :
           /\ rows[k] # NoRow /\ rows'[k] # NoRow
           /\ rows'[k].id = rows[k].id /\ rows'[k].ver # rows[k].ver
           => \E u \in Users : /\ pc'[u] # pc[u] /\ rows[k].ver \in seen[u]
                                /\ project[u][k] # NoItem /\ project[u][k].ver = rows'[k].ver]_vars
  BY StepSees DEF Overwritten, ByOneWhoSaw
<1> QED
  BY <1>1, InvHolds, PTL DEF Spec, NoBlindOverwrite
-----------------------------------------------------------------------------
(* Unmarked items are in the folder.  The invariant follows the item that   *)
(* save() works on: between the statement that finds or makes its row and   *)
(* the one that links the row, the row's id is among the ids to be linked.  *)

\* In tables r, l and o: the user's item is linked or taken out, or its row is
\* one of those that are going to be linked.
Joined(u, k, ids, r, l, o) ==
  <<u, k>> \in o \/ (r[k] # NoRow /\ (<<FolderOf[u], r[k].id>> \in l \/ r[k].id \in ids))

\* The ids save() is going to link.  (before its dialog: the row it found)
Ids(u) == IF pc[u] \in {"linked", "ask1"} THEN {job[u].id} ELSE job[u].links

HasRow == {"linked", "ask1", "update", "check2", "ask2", "force", "reload", "link"}

FolderOK(u) ==
  /\ \A k \in Keys : project[u][k] # NoItem /\ ~project[u][k].changed => Joined(u, k, {}, rows, links, out)
  /\ pc[u] \in HasRow => Joined(u, Key(u), Ids(u), rows, links, out)

RowsUnique ==
  \A k, q \in Keys : rows[k] # NoRow /\ rows[q] # NoRow /\ rows[k].id = rows[q].id => k = q

\* A clone's key is nobody else's, and has no row and no item yet.
CloneOK(u) ==
  pc[u] = "clone" => /\ job[u].clone \notin Originals /\ rows[job[u].clone] = NoRow
                     /\ \A w \in Users : project[w][job[u].clone] = NoItem
                     /\ \A w \in Users \ {u} : pc[w] = "clone" => job[w].clone # job[u].clone

FolderInv == RowsUnique /\ \A u \in Users : FolderOK(u) /\ CloneOK(u)

\* What the step leaves of a user's claim to be in the folder.
JoinedStays(w) ==
  \A k \in Keys : \A ids \in SUBSET Nat :
    Joined(w, k, ids, rows, links, out) => Joined(w, k, ids, rows', links', out')

RowsStay == \A k \in Keys : rows[k] # NoRow => rows'[k] # NoRow /\ rows'[k].id = rows[k].id

LEMMA MoreJoined ==
  ASSUME RowsStay, links \subseteq links', out \subseteq out', NEW w \in Users
  PROVE  JoinedStays(w)
BY DEF RowsStay, JoinedStays, Joined

\* No statement of save() removes a row or a link.
LEMMA SaveRows ==
  ASSUME IInv, FolderInv, NEW u \in Users, SaveStep(u)
  PROVE  /\ RowsStay /\ links \subseteq links' /\ out' = out
         /\ \/ rows' = rows /\ nextId' = nextId
            \/ nextId' = nextId /\ \A k \in Keys : rows'[k] # NoRow => rows[k] # NoRow /\ rows'[k].id = rows[k].id
            \/ \E c \in Keys : /\ rows[c] = NoRow /\ rows'[c] # NoRow /\ rows'[c].id = nextId
                               /\ nextId' = nextId + 1
                               /\ \A k \in Keys \ {c} : rows'[k] = rows[k]
                               /\ \/ project[u][c] # NoItem
                                  \/ pc[u] = "clone" /\ c = job[u].clone
<1>0. TablesOK /\ ProjectsOK /\ LoopOK /\ CurrentOK /\ CloneOK(u)
  BY TypeParts DEF IInv, FolderInv
<1> USE DEF db, local, fresh, ghosts
<1>1. CASE SaveNext(u) \/ CheckLink(u) \/ CheckConflict(u) \/ Reload(u) \/ SaveEnd(u)
  BY <1>1 DEF SaveNext, CheckLink, CheckConflict, Reload, SaveEnd, RowsStay
<1>2. CASE Insert(u)
  <2>1. CASE DbRow(u) # NoRow
    BY <1>2, <2>1 DEF Insert, RowsStay
  <2>2. CASE DbRow(u) = NoRow
    <3>1. Key(u) \in Keys /\ project[u][Key(u)] # NoItem
      BY <1>0, <1>2 DEF Insert, At, LoopOK, CurrentOK, Key, Job
    <3>2. /\ rows' = [rows EXCEPT ![Key(u)] = [id |-> nextId, ver |-> Current(u).ver]]
          /\ nextId' = nextId + 1 /\ links' = links /\ out' = out
      BY <1>2, <2>2 DEF Insert
    <3>3. Current(u).ver \in Nat /\ nextId \in Nat
      BY <1>0, <3>1 DEF ProjectsOK, Items, Item, Current, Key, TablesOK
    <3>4. [id |-> nextId, ver |-> Current(u).ver] # NoRow
      BY <3>3 DEF Row
    <3>5. /\ rows[Key(u)] = NoRow /\ rows'[Key(u)] # NoRow /\ rows'[Key(u)].id = nextId
          /\ \A k \in Keys \ {Key(u)} : rows'[k] = rows[k]
      BY <1>0, <2>2, <3>1, <3>2, <3>4 DEF DbRow, TablesOK
    <3> QED
      BY <3>1, <3>2, <3>5 DEF RowsStay
  <2> QED
    BY <2>1, <2>2
<1>3. CASE UpdateItem(u) \/ ForceUpdate(u)
  <2>1. nextId' = nextId /\ links' = links /\ out' = out /\ pc[u] \in {"update", "force"}
    BY <1>3 DEF UpdateItem, ForceUpdate, At
  <2>2. CASE rows' = rows
    BY <2>1, <2>2 DEF RowsStay
  <2>3. CASE rows' # rows
    <3>1. StoreRow(u) /\ DbRow(u) # NoRow
      BY <1>3, <2>3 DEF UpdateItem, ForceUpdate, Matches
    <3>2. Key(u) \in Keys /\ rows[Key(u)] \in Row
      BY <1>0, <3>1 DEF TablesOK, LoopOK, Key, Job, DbRow
    <3>3. rows' = [rows EXCEPT ![Key(u)] = [rows[Key(u)] EXCEPT !.ver = Current(u).ver]]
      BY <3>1 DEF StoreRow
    <3>4. Current(u).ver \in Nat
      BY <1>0, <2>1 DEF ProjectsOK, LoopOK, CurrentOK, Job, Items, Item, Current, Key
    <3>5. /\ rows'[Key(u)] \in Row /\ rows'[Key(u)].id = rows[Key(u)].id
          /\ \A k \in Keys \ {Key(u)} : rows'[k] = rows[k]
      BY <1>0, <3>2, <3>3, <3>4 DEF TablesOK, Row
    <3> QED
      BY <2>1, <3>1, <3>2, <3>5 DEF RowsStay, DbRow
  <2> QED
    BY <2>2, <2>3
<1>4. CASE InsertClone(u)
  <2> DEFINE c == job[u].clone
  <2>1. /\ pc[u] = "clone" /\ nextId' = nextId + 1 /\ links' = links /\ out' = out
        /\ rows' = [rows EXCEPT ![c] = [id |-> nextId, ver |-> Current(u).ver]]
    BY <1>4 DEF InsertClone, At
  <2>2. c \in Keys /\ rows[c] = NoRow
    BY <1>0, <2>1 DEF LoopOK, Job, CloneOK
  <2>3. Current(u).ver \in Nat /\ nextId \in Nat
    BY <1>0, <2>1 DEF ProjectsOK, LoopOK, CurrentOK, Job, Items, Item, Current, Key, TablesOK
  <2>4. [id |-> nextId, ver |-> Current(u).ver] # NoRow
    BY <2>3 DEF Row
  <2>5. rows'[c] # NoRow /\ rows'[c].id = nextId /\ \A k \in Keys \ {c} : rows'[k] = rows[k]
    BY <1>0, <2>1, <2>2, <2>4 DEF TablesOK
  <2> QED
    BY <2>1, <2>2, <2>5 DEF RowsStay
<1>5. CASE LinkItem(u)
  BY <1>5 DEF LinkItem, RowsStay
<1> QED
  BY <1>1, <1>2, <1>3, <1>4, <1>5 DEF SaveStep

\* The steps of the user that settle no item.
SettlesNone(u) == Purge(u) \/ Save(u) \/ Stop(u) \/ SelectSaveAction(u) \/ ResolveConflict(u)

\* A user's request takes rows or links only from those it notes in `out`.
LEMMA UserStays ==
  ASSUME IInv, RowsUnique, NEW u \in Users, NEW w \in Users,
         SettlesNone(u) \/ (UserStep(u) /\ w # u)
  PROVE  JoinedStays(w)
<1>0. TablesOK
  BY TypeParts DEF IInv
<1> USE DEF db, local, fresh, ghosts
<1>a. ASSUME UNCHANGED <<rows, links>>, \A k \in Keys : <<w, k>> \in out => <<w, k>> \in out'
      PROVE  JoinedStays(w)
  BY <1>a DEF JoinedStays, Joined
<1>b. ASSUME NEW keys, Settle(u, keys), w # u PROVE \A k \in Keys : <<w, k>> \in out => <<w, k>> \in out'
  BY <1>b DEF Settle
<1>1. CASE (Open(u) \/ Update(u)) /\ w # u
  <2>1. UNCHANGED <<rows, links>>
    BY <1>1 DEF Open, Update
  <2>2. Settle(u, Keys)
    BY <1>1 DEF Open, Update, ShowAll
  <2> QED
    BY <1>1, <1>a, <1>b, <2>1, <2>2
<1>2. CASE Close(u) \/ Save(u) \/ Stop(u)
  BY <1>2, <1>a DEF Close, Save, Stop
<1>3. CASE SelectSaveAction(u) \/ ResolveConflict(u)
  <2>1. UNCHANGED <<rows, links>> /\ (out' = out \/ out' = out \cup {<<u, Key(u)>>})
    BY <1>3 DEF SelectSaveAction, ResolveConflict, Clone, Decline
  <2> QED
    BY <1>a, <2>1
<1>4. CASE Purge(u)
  <2>1. PICK gone \in {Unlinked} \cup {{k} : k \in Unlinked} :
          /\ rows' = [k \in Keys |-> IF k \in gone THEN NoRow ELSE rows[k]]
          /\ out' = out \cup (Users \X gone) /\ links' = links
    BY <1>4 DEF Purge
  <2> QED
    BY <2>1 DEF JoinedStays, Joined
<1>5. ASSUME NEW k \in Keys, w # u, ShowItem(u, k) \/ Import(u, k) \/ Edit(u, k) \/ Undo(u, k) \/ Unlink(u, k)
      PROVE  JoinedStays(w)
  <2>1. CASE Unlink(u, k)
    <3>1. /\ links' = links \ {<<FolderOf[u], rows[k].id>>} /\ rows' = rows /\ rows[k] # NoRow
          /\ out' = out \cup ({v \in Users : FolderOf[v] = FolderOf[u]} \X {k})
      BY <2>1 DEF Unlink, Linked
    <3>2. SUFFICES ASSUME NEW q \in Keys, NEW ids \in SUBSET Nat, Joined(w, q, ids, rows, links, out)
                   PROVE  Joined(w, q, ids, rows', links', out')
      BY DEF JoinedStays
    <3>3. CASE q = k /\ FolderOf[w] = FolderOf[u]
      BY <3>1, <3>3 DEF Joined
    <3>4. CASE q # k \/ FolderOf[w] # FolderOf[u]
      <4>1. rows[q] # NoRow => <<FolderOf[w], rows[q].id>> # <<FolderOf[u], rows[k].id>>
        BY <3>1, <3>4 DEF RowsUnique
      <4> QED
        BY <3>1, <3>2, <4>1 DEF Joined
    <3> QED
      BY <3>3, <3>4
  <2>2. CASE ~Unlink(u, k)
    <3>1. UNCHANGED <<rows, links>> /\ \E keys \in {{k}} : Settle(u, keys)
      BY <1>5, <2>2 DEF ShowItem, Import, Edit, Undo
    <3> QED
      BY <1>5, <1>a, <1>b, <3>1
  <2> QED
    BY <2>1, <2>2
<1> QED
  BY <1>1, <1>2, <1>3, <1>4, <1>5 DEF UserStep, SettlesNone

\* A user whose items and part of save() stay as they are.
LEMMA OthersFolder ==
  ASSUME TypeOK, NEW w \in Users, FolderOK(w), JoinedStays(w),
         project'[w] = project[w], pc'[w] = pc[w], job'[w] = job[w]
  PROVE  FolderOK(w)'
<1>1. Key(w) \in Keys /\ Ids(w) \in SUBSET Nat /\ Key(w)' = Key(w) /\ Ids(w)' = Ids(w)
  BY TypeParts DEF LoopOK, Job, Key, Ids
<1>2. pc'[w] \in HasRow => Joined(w, Key(w), Ids(w), rows', links', out')
  BY <1>1 DEF FolderOK, JoinedStays
<1>3. ASSUME NEW k \in Keys, project'[w][k] # NoItem, ~project'[w][k].changed
      PROVE  Joined(w, k, {}, rows', links', out')
  BY <1>3 DEF FolderOK, JoinedStays
<1> QED
  BY <1>1, <1>2, <1>3 DEF FolderOK

\* The end of the loop's body: the mark goes when nothing is left to be linked.
LEMMA FinishFolder ==
  ASSUME TypeOK, NEW u \in Users, FolderOK(u), JoinedStays(u),
         NEW items \in Items, NEW k \in Keys, items[k] # NoItem, NEW ids \in SUBSET Nat,
         Finish(u, items, k, ids), \A q \in Keys \ {k} : items[q] \in {project[u][q], NoItem},
         Joined(u, k, ids, rows', links', out')
  PROVE  FolderOK(u)'
<1> DEFINE p == [items EXCEPT ![k].changed = ids # {}]
<1>1. ProjectsOK /\ LoopOK
  BY TypeParts
<1>2. items[k] \in Item /\ p[k] = [items[k] EXCEPT !.changed = ids # {}]
  BY DEF Items
<1>3. p[k].changed = (ids # {}) /\ \A q \in Keys \ {k} : p[q] = items[q]
  BY <1>2 DEF Items, Item
<1>4. project'[u] = p
  BY <1>1 DEF Finish, ProjectsOK
<1>5. /\ job'[u].key = k /\ job'[u].links = ids
      /\ pc'[u] = IF ids = {} THEN "next" ELSE "link"
  BY <1>1 DEF Finish, Goto, LoopOK, Job
<1>6. ASSUME NEW q \in Keys, project'[u][q] # NoItem, ~project'[u][q].changed
      PROVE  Joined(u, q, {}, rows', links', out')
  <2>1. CASE q = k
    BY <1>3, <1>4, <1>6, <2>1
  <2>2. CASE q # k
    <3>1. project'[u][q] = project[u][q]
      BY <1>3, <1>4, <1>6, <2>2
    <3> QED
      BY <1>6, <3>1 DEF FolderOK, JoinedStays
  <2> QED
    BY <2>1, <2>2
<1>7. pc'[u] \in HasRow => Key(u)' = k /\ Ids(u)' = ids
  BY <1>5 DEF Key, Ids, HasRow
<1> QED
  BY <1>6, <1>7 DEF FolderOK

\* A step of save() that leaves the user's marks alone.
LEMMA StepFolder ==
  ASSUME NEW u \in Users, FolderOK(u), JoinedStays(u),
         \A q \in Keys : /\ project'[u][q] # NoItem /\ ~project'[u][q].changed
                         => project[u][q] # NoItem /\ ~project[u][q].changed,
         pc'[u] \in HasRow => Joined(u, Key(u)', Ids(u)', rows', links', out')
  PROVE  FolderOK(u)'
<1>1. ASSUME NEW k \in Keys, project'[u][k] # NoItem, ~project'[u][k].changed
      PROVE  Joined(u, k, {}, rows', links', out')
  BY <1>1 DEF FolderOK, JoinedStays
<1> QED
  BY <1>1 DEF FolderOK

LEMMA SaveFolder ==
  ASSUME IInv, FolderInv, NEW u \in Users, SaveStep(u)
  PROVE  FolderOK(u)'
<1>0. /\ TypeOK /\ TablesOK /\ ProjectsOK /\ LoopOK /\ CurrentOK /\ FolderOK(u)
      /\ RowsStay /\ links \subseteq links' /\ out' = out
  BY TypeParts, SaveRows DEF IInv, FolderInv
<1>s. JoinedStays(u)
  BY <1>0, MoreJoined
<1> USE DEF db, local, fresh, ghosts
<1>a. ASSUME pc[u] \notin {"idle", "next", "end"}
      PROVE  /\ Current(u) \in Item /\ Current(u) # NoItem /\ Key(u) \in Keys
             /\ project[u] \in Items /\ job[u] \in Job /\ project[u][Key(u)] = Current(u)
             /\ job[u].links \in SUBSET Nat /\ Ids(u) \in SUBSET Nat
             /\ DbRow(u) \in Row \cup {NoRow}
  BY <1>0, <1>a DEF CurrentOK, ProjectsOK, LoopOK, TablesOK, Current, Key, Job, Items, DbRow, Ids
<1>b. ASSUME pc[u] \in HasRow PROVE Joined(u, Key(u), Ids(u), rows', links', out')
  BY <1>0, <1>s, <1>a, <1>b DEF FolderOK, JoinedStays, HasRow
<1>c. ASSUME UNCHANGED project, pc'[u] \notin HasRow PROVE FolderOK(u)'
  BY <1>0, <1>s, <1>c, StepFolder
<1>1. CASE SaveNext(u)
  <2>1. PICK k \in Marked(u) :
          IF rows[k] = NoRow
          THEN job' = [job EXCEPT ![u] = NoJob(k)] /\ Goto(u, "insert")
          ELSE job' = [job EXCEPT ![u] = [NoJob(k) EXCEPT !.id = rows[k].id]] /\ Goto(u, "linked")
    BY <1>1 DEF SaveNext
  <2>2. UNCHANGED <<rows, links, out, project>>
    BY <1>1 DEF SaveNext
  <2>3. CASE rows[k] = NoRow
    <3>1. pc'[u] = "insert"
      BY <1>0, <2>1, <2>3 DEF Goto, LoopOK
    <3> QED
      BY <1>c, <2>2, <3>1 DEF HasRow
  <2>4. CASE rows[k] # NoRow
    <3>1. pc'[u] = "linked" /\ job'[u].key = k /\ job'[u].id = rows[k].id
      BY <1>0, <2>1, <2>4 DEF Goto, LoopOK, NoJob
    <3>2. Joined(u, Key(u)', Ids(u)', rows', links', out')
      BY <2>2, <2>4, <3>1 DEF Joined, Key, Ids
    <3> QED
      BY <1>0, <1>s, <2>2, <3>2, StepFolder
  <2> QED
    BY <2>3, <2>4
<1>2. CASE CheckLink(u)
  <2>1. /\ pc[u] = "linked" /\ UNCHANGED <<rows, links, out, project, job>>
        /\ pc'[u] = IF <<FolderOf[u], job[u].id>> \in links THEN "update" ELSE "ask1"
    BY <1>0, <1>2 DEF CheckLink, At, Goto, LoopOK
  <2>2. Joined(u, Key(u), {job[u].id}, rows, links, out)
    BY <1>0, <2>1 DEF FolderOK, HasRow, Ids
  <2>3. Joined(u, Key(u)', Ids(u)', rows', links', out')
    BY <2>1, <2>2 DEF Joined, Key, Ids
  <2> QED
    BY <1>0, <1>s, <2>1, <2>3, StepFolder
<1>3. CASE Insert(u)
  <2>1. pc[u] = "insert"
    BY <1>3 DEF Insert, At
  <2>2. CASE DbRow(u) # NoRow
    <3>1. pc'[u] = "end" /\ UNCHANGED project
      BY <1>0, <1>3, <2>2 DEF Insert, Goto, LoopOK
    <3> QED
      BY <1>c, <3>1 DEF HasRow
  <2>3. CASE DbRow(u) = NoRow
    <3>1. /\ rows' = [rows EXCEPT ![Key(u)] = [id |-> nextId, ver |-> Current(u).ver]]
          /\ Finish(u, StoredItems(u), Key(u), {nextId})
      BY <1>3, <2>3 DEF Insert
    <3>2. Current(u).ver \in Nat /\ nextId \in Nat
      BY <1>0, <1>a, <2>1 DEF Item, TablesOK
    <3>3. rows'[Key(u)] = [id |-> nextId, ver |-> Current(u).ver] /\ rows'[Key(u)] \in Row
      BY <1>0, <1>a, <2>1, <3>1, <3>2 DEF TablesOK, Row
    <3>4. Joined(u, Key(u), {nextId}, rows', links', out')
      BY <3>3 DEF Joined
    <3>5. /\ StoredItems(u) \in Items /\ StoredItems(u)[Key(u)] # NoItem
          /\ \A q \in Keys \ {Key(u)} : StoredItems(u)[q] = project[u][q]
      BY <1>0, <1>a, <2>1, StoredItemsType DEF StoredItems, Items
    <3>6. Key(u) \in Keys /\ {nextId} \in SUBSET Nat
      BY <1>a, <2>1, <3>2
    <3> QED
      BY <1>0, <1>s, <3>1, <3>4, <3>5, <3>6, FinishFolder
  <2> QED
    BY <2>2, <2>3
<1>d. ASSUME pc[u] \in {"update", "force"}, StoreRow(u) PROVE FolderOK(u)'
  <2>1. Finish(u, StoredItems(u), Key(u), job[u].links)
    BY <1>d DEF StoreRow
  <2>2. /\ StoredItems(u) \in Items /\ StoredItems(u)[Key(u)] # NoItem
        /\ \A q \in Keys \ {Key(u)} : StoredItems(u)[q] = project[u][q]
    BY <1>0, <1>a, <1>d, StoredItemsType DEF StoredItems, Items
  <2>3. Joined(u, Key(u), job[u].links, rows', links', out')
    BY <1>b, <1>d DEF HasRow, Ids
  <2> QED
    BY <1>0, <1>s, <1>a, <1>d, <2>1, <2>2, <2>3, FinishFolder
<1>e. ASSUME pc[u] \in {"check2", "reload"}, NEW new \in Item,
             Finish(u, [project[u] EXCEPT ![Key(u)] = new], Key(u), job[u].links)
      PROVE  FolderOK(u)'
  <2> DEFINE items == [project[u] EXCEPT ![Key(u)] = new]
  <2>1. items \in Items /\ items[Key(u)] # NoItem /\ \A q \in Keys \ {Key(u)} : items[q] = project[u][q]
    BY <1>a, <1>e DEF Items
  <2>2. Joined(u, Key(u), job[u].links, rows', links', out')
    BY <1>b, <1>e DEF HasRow, Ids
  <2> QED
    BY <1>0, <1>s, <1>a, <1>e, <2>1, <2>2, FinishFolder
<1>4. CASE UpdateItem(u)
  <2>1. pc[u] = "update"
    BY <1>4 DEF UpdateItem, At
  <2>2. CASE StoreRow(u)
    BY <1>d, <2>1, <2>2
  <2>3. CASE ~StoreRow(u)
    <3>1. /\ project' = [project EXCEPT ![u][Key(u)].base = LastDatabaseHash(Current(u))]
          /\ pc'[u] = "check2" /\ job' = job
      BY <1>0, <1>4, <2>3 DEF UpdateItem, Goto, LoopOK
    <3>2. \A q \in Keys : /\ project'[u][q] # NoItem /\ ~project'[u][q].changed
                          => project[u][q] # NoItem /\ ~project[u][q].changed
      <4>1. project'[u] = [project[u] EXCEPT ![Key(u)] = [Current(u) EXCEPT !.base = LastDatabaseHash(Current(u))]]
        BY <1>0, <3>1 DEF ProjectsOK, Current
      <4>2. [Current(u) EXCEPT !.base = LastDatabaseHash(Current(u))].changed = Current(u).changed
        BY <1>a, <2>1 DEF Item
      <4> QED
        BY <1>a, <2>1, <4>1, <4>2 DEF Items
    <3>3. Joined(u, Key(u)', Ids(u)', rows', links', out')
      BY <1>b, <2>1, <3>1 DEF HasRow, Key, Ids
    <3> QED
      BY <1>0, <1>s, <3>2, <3>3, StepFolder
  <2> QED
    BY <2>2, <2>3
<1>5. CASE CheckConflict(u)
  <2>1. pc[u] = "check2"
    BY <1>5 DEF CheckConflict, At
  <2>2. CASE Restart(u) /\ UNCHANGED project
    <3>1. pc'[u] = "next"
      BY <1>0, <2>2 DEF Restart, Goto, LoopOK
    <3> QED
      BY <1>c, <2>2, <3>1 DEF HasRow
  <2>3. CASE Skip(u)
    <3>1. [project[u] EXCEPT ![Key(u)] = Current(u)] = project[u]
      BY <1>a, <2>1 DEF Items
    <3> QED
      BY <1>a, <1>e, <2>1, <2>3, <3>1 DEF Skip
  <2>4. CASE job' = [job EXCEPT ![u].hash = DbRow(u).ver] /\ Goto(u, "ask2") /\ UNCHANGED project
    <3>1. pc'[u] = "ask2" /\ job'[u].key = job[u].key /\ job'[u].links = job[u].links
      BY <1>0, <2>4 DEF Goto, LoopOK, Job
    <3>2. Joined(u, Key(u)', Ids(u)', rows', links', out')
      BY <1>b, <2>1, <3>1 DEF HasRow, Key, Ids
    <3> QED
      BY <1>0, <1>s, <2>4, <3>2, StepFolder
  <2> QED
    BY <1>5, <2>2, <2>3, <2>4 DEF CheckConflict
<1>6. CASE ForceUpdate(u)
  <2>1. pc[u] = "force"
    BY <1>6 DEF ForceUpdate, At
  <2>2. CASE StoreRow(u)
    BY <1>d, <2>1, <2>2
  <2>3. CASE ~StoreRow(u)
    <3>1. pc'[u] = "next" /\ UNCHANGED project
      BY <1>0, <1>6, <2>3 DEF ForceUpdate, Restart, Goto, LoopOK
    <3> QED
      BY <1>c, <3>1 DEF HasRow
  <2> QED
    BY <2>2, <2>3
<1>7. CASE InsertClone(u)
  <2> DEFINE c == job[u].clone
             items == StoredItems(u)
             new == [items EXCEPT ![Key(u)] = NoItem, ![c] = items[Key(u)]]
  <2>1. /\ pc[u] = "clone" /\ Finish(u, new, c, job[u].links \cup {nextId})
        /\ rows' = [rows EXCEPT ![c] = [id |-> nextId, ver |-> Current(u).ver]]
    BY <1>7 DEF InsertClone, At
  <2>2. c \in Keys /\ nextId \in Nat /\ Current(u).ver \in Nat /\ job[u].links \cup {nextId} \in SUBSET Nat
    BY <1>0, <1>a, <2>1 DEF Job, Item, TablesOK
  <2>3. rows'[c] = [id |-> nextId, ver |-> Current(u).ver] /\ rows'[c] \in Row
    BY <1>0, <2>1, <2>2 DEF TablesOK, Row
  <2>4. Joined(u, c, job[u].links \cup {nextId}, rows', links', out')
    BY <2>3 DEF Joined
  <2>5. /\ items \in Items /\ items[Key(u)] # NoItem
        /\ \A q \in Keys \ {Key(u)} : items[q] = project[u][q]
    BY <1>0, <1>a, <2>1, StoredItemsType DEF StoredItems, Items
  <2>6. new \in Items /\ new[c] # NoItem /\ \A q \in Keys \ {c} : new[q] \in {project[u][q], NoItem}
    <3> HIDE DEF items
    <3> QED
      BY <1>a, <2>1, <2>2, <2>5 DEF Items
  <2> HIDE DEF c, items, new
  <2> QED
    BY <1>0, <1>s, <2>1, <2>2, <2>4, <2>6, FinishFolder
<1>8. CASE Reload(u)
  <2>1. pc[u] = "reload"
    BY <1>8 DEF Reload, At
  <2>2. PICK new \in {Current(u), UpdateFromDB(Current(u), job[u].id, DbRow(u))} :
          Finish(u, [project[u] EXCEPT ![Key(u)] = new], Key(u), job[u].links)
    BY <1>8 DEF Reload
  <2>3. new \in Item
    BY <1>a, <2>1, UpdateFromDBType
  <2> QED
    BY <1>e, <2>1, <2>2, <2>3
<1>9. CASE LinkItem(u)
  <2>1. pc[u] = "link" /\ rows' = rows
    BY <1>9 DEF LinkItem, At
  <2>2. PICK id \in job[u].links :
          /\ links' = links \cup {<<FolderOf[u], id>>}
          /\ Finish(u, project[u], Key(u), job[u].links \ {id})
    BY <1>9 DEF LinkItem
  <2>3. Joined(u, Key(u), job[u].links, rows, links, out)
    BY <1>0, <2>1 DEF FolderOK, HasRow, Ids
  <2>4. Joined(u, Key(u), job[u].links \ {id}, rows', links', out')
    BY <1>0, <2>1, <2>2, <2>3 DEF Joined
  <2>5. job[u].links \ {id} \in SUBSET Nat /\ project[u][Key(u)] # NoItem
    BY <1>a, <2>1
  <2> QED
    BY <1>0, <1>s, <1>a, <2>1, <2>2, <2>4, <2>5, FinishFolder
<1>10. CASE SaveEnd(u)
  <2>1. pc'[u] = "idle" /\ UNCHANGED project
    BY <1>0, <1>10 DEF SaveEnd, Goto, LoopOK
  <2> QED
    BY <1>c, <2>1 DEF HasRow
<1> QED
  BY <1>1, <1>2, <1>3, <1>4, <1>5, <1>6, <1>7, <1>8, <1>9, <1>10 DEF SaveStep

LEMMA UserFolder ==
  ASSUME IInv, FolderInv, NEW u \in Users, UserStep(u)
  PROVE  FolderOK(u)'
<1>0. /\ TypeOK /\ TablesOK /\ ProjectsOK /\ LoopOK /\ CurrentOK /\ FolderOK(u) /\ RowsUnique
  BY TypeParts DEF IInv, FolderInv
<1> USE DEF db, local, fresh, ghosts
<1>s. ASSUME SettlesNone(u) PROVE JoinedStays(u)
  BY <1>0, <1>s, UserStays
<1>a. ASSUME pc[u] \in {"ask1", "ask2"}
      PROVE  /\ Current(u) # NoItem /\ Key(u) \in Keys /\ project[u] \in Items
             /\ job[u] \in Job /\ job[u].links \in SUBSET Nat /\ Ids(u) \in SUBSET Nat
             /\ project[u][Key(u)] = Current(u) /\ Joined(u, Key(u), Ids(u), rows, links, out)
  BY <1>0, <1>a DEF CurrentOK, ProjectsOK, LoopOK, Current, Key, Job, Ids, FolderOK, HasRow
<1>b. ASSUME pc'[u] \notin HasRow,
             \A k \in Keys : /\ project'[u][k] # NoItem /\ ~project'[u][k].changed
                             => Joined(u, k, {}, rows', links', out')
      PROVE  FolderOK(u)'
  BY <1>b DEF FolderOK
<1>c. ASSUME SettlesNone(u), UNCHANGED project, pc'[u] \notin HasRow PROVE FolderOK(u)'
  BY <1>0, <1>s, <1>c, StepFolder
<1>d. ASSUME ShowAll(u), Idle(u), UNCHANGED <<rows, links, pc>> PROVE FolderOK(u)'
  <2> DEFINE items == [k \in Keys |-> IF k \in Linked(FolderOf[u]) THEN FromRow(rows[k]) ELSE NoItem]
  <2>1. project'[u] = items
    BY <1>0, <1>d DEF ShowAll, ProjectsOK
  <2>2. ASSUME NEW k \in Keys, project'[u][k] # NoItem PROVE Joined(u, k, {}, rows', links', out')
    BY <1>d, <2>1, <2>2 DEF Joined, Linked
  <2> QED
    BY <1>b, <1>d, <2>2 DEF Idle, HasRow
<1>1. CASE Open(u)
  BY <1>1, <1>d DEF Open, Request
<1>2. CASE Close(u)
  <2>1. project'[u] = [k \in Keys |-> NoItem] /\ pc'[u] = "idle"
    BY <1>0, <1>2 DEF Close, Request, Idle, ProjectsOK
  <2> QED
    BY <1>b, <2>1 DEF HasRow
<1>3. CASE Update(u)
  <2>1. Idle(u) /\ UNCHANGED <<rows, links, pc>>
    BY <1>3 DEF Update, Request
  <2>2. CASE ShowAll(u)
    BY <1>d, <2>1, <2>2
  <2>3. CASE ~ShowAll(u)
    <3>1. project'[u] = [k \in Keys |-> IF k \in Loaded(u) THEN Refreshed(u, k) ELSE NoItem]
      BY <1>0, <1>3, <2>3 DEF Update, ProjectsOK
    <3>2. ASSUME NEW k \in Keys, project'[u][k] # NoItem, ~project'[u][k].changed
          PROVE  Joined(u, k, {}, rows', links', out')
      <4> DEFINE item == project[u][k]
                 new == UpdateFromDB(item, IF rows[k] = NoRow THEN 0 ELSE rows[k].id, rows[k])
      <4>1. k \in Loaded(u) /\ project'[u][k] = Refreshed(u, k)
        BY <3>1, <3>2
      <4>2. item \in Item /\ rows[k] \in Row \cup {NoRow}
        BY <1>0, <4>1 DEF ProjectsOK, TablesOK, Loaded, Items
      <4>3. CASE rows[k] = NoRow
        <5>1. project'[u][k] = [item EXCEPT !.changed = TRUE]
          BY <4>1, <4>3 DEF Refreshed
        <5> QED
          BY <3>2, <4>2, <5>1 DEF Item
      <4>4. CASE rows[k] # NoRow
        <5>1. new \in Item
          BY <4>2, UpdateFromDBType
        <5>2. project'[u][k] = [new EXCEPT !.changed = k \notin Linked(FolderOf[u])]
          BY <4>1, <4>4 DEF Refreshed
        <5>3. k \in Linked(FolderOf[u])
          BY <3>2, <5>1, <5>2 DEF Item
        <5> QED
          BY <2>1, <5>3 DEF Linked, Joined
      <4> QED
        BY <4>3, <4>4
    <3> QED
      BY <1>b, <2>1, <3>2 DEF Idle, HasRow
  <2> QED
    BY <2>2, <2>3
<1>4. CASE Purge(u)
  <2>1. pc'[u] = "idle" /\ UNCHANGED project
    BY <1>4 DEF Purge, Idle
  <2> QED
    BY <1>4, <1>c, <2>1 DEF HasRow, SettlesNone
<1>5. CASE Save(u) \/ Stop(u)
  <2>1. pc'[u] \in {"next", "end"} /\ UNCHANGED project
    BY <1>0, <1>5 DEF Save, Stop, Goto, LoopOK
  <2> QED
    BY <1>5, <1>c, <2>1 DEF HasRow, SettlesNone
<1>e. ASSUME SettlesNone(u), NEW ids, Clone(u, ids) PROVE FolderOK(u)'
  <2>1. pc'[u] = "clone" /\ UNCHANGED project
    BY <1>0, <1>e DEF Clone, Goto, LoopOK
  <2> QED
    BY <1>c, <1>e, <2>1 DEF HasRow
<1>f. ASSUME SettlesNone(u), pc[u] \in {"ask1", "ask2"}, Decline(u) PROVE FolderOK(u)'
  <2>1. Finish(u, project[u], Key(u), job[u].links) /\ <<u, Key(u)>> \in out'
    BY <1>f DEF Decline, Skip
  <2>2. Joined(u, Key(u), job[u].links, rows', links', out')
    BY <2>1 DEF Joined
  <2>3. Key(u) \in Keys /\ project[u] \in Items /\ project[u][Key(u)] # NoItem /\ job[u].links \in SUBSET Nat
    BY <1>a, <1>f
  <2> QED
    BY <1>0, <1>s, <1>f, <2>1, <2>2, <2>3, FinishFolder
<1>7. CASE SelectSaveAction(u)
  <2>1. pc[u] = "ask1" /\ UNCHANGED <<rows, links>> /\ SettlesNone(u)
    BY <1>7 DEF SelectSaveAction, At, SettlesNone
  <2>2. CASE Clone(u, {}) \/ Decline(u)
    BY <1>e, <1>f, <2>1, <2>2
  <2>3. CASE /\ Goto(u, "update") \/ Goto(u, "reload")
             /\ job' = [job EXCEPT ![u].links = {job[u].id}]
             /\ UNCHANGED <<project, out>>
    <3>1. pc'[u] \in {"update", "reload"} /\ job'[u].key = job[u].key /\ job'[u].links = {job[u].id}
      BY <1>0, <1>a, <2>1, <2>3 DEF Goto, LoopOK, Job
    <3>2. Joined(u, Key(u), {job[u].id}, rows, links, out)
      BY <1>a, <2>1 DEF Ids
    <3>3. Joined(u, Key(u)', Ids(u)', rows', links', out')
      BY <2>1, <2>3, <3>1, <3>2 DEF Key, Ids
    <3> QED
      BY <1>0, <1>s, <2>1, <2>3, <3>3, StepFolder
  <2> QED
    BY <1>7, <2>2, <2>3 DEF SelectSaveAction
<1>8. CASE ResolveConflict(u)
  <2>1. pc[u] = "ask2" /\ UNCHANGED <<rows, links>> /\ SettlesNone(u)
    BY <1>8 DEF ResolveConflict, At, SettlesNone
  <2>2. CASE Clone(u, job[u].links) \/ Decline(u)
    BY <1>e, <1>f, <2>1, <2>2
  <2>3. CASE /\ Goto(u, "force") \/ Goto(u, "reload")
             /\ UNCHANGED <<project, job, out>>
    <3>1. pc'[u] \in {"force", "reload"}
      BY <1>0, <2>3 DEF Goto, LoopOK
    <3>2. Joined(u, Key(u)', Ids(u)', rows', links', out')
      BY <1>a, <2>1, <2>3, <3>1 DEF Key, Ids
    <3> QED
      BY <1>0, <1>s, <2>1, <2>3, <3>2, StepFolder
  <2> QED
    BY <1>8, <2>2, <2>3 DEF ResolveConflict
\* The item k gets a new state and the others keep theirs.
<1>g. ASSUME NEW k \in Keys, pc'[u] = "idle", UNCHANGED <<rows, links>>,
             \A q \in Keys \ {k} : project'[u][q] = project[u][q] /\ (<<u, q>> \in out => <<u, q>> \in out'),
             project'[u][k] # NoItem /\ ~project'[u][k].changed => Joined(u, k, {}, rows', links', out')
      PROVE  FolderOK(u)'
  <2>1. ASSUME NEW q \in Keys, project'[u][q] # NoItem, ~project'[u][q].changed
        PROVE  Joined(u, q, {}, rows', links', out')
    BY <1>0, <1>g, <2>1 DEF FolderOK, Joined
  <2> QED
    BY <1>b, <1>g, <2>1 DEF HasRow
<1>h. ASSUME NEW k \in Keys, Settle(u, {k})
      PROVE  \A q \in Keys \ {k} : <<u, q>> \in out => <<u, q>> \in out'
  BY <1>h DEF Settle
<1>9. ASSUME NEW k \in Keys, ShowItem(u, k) PROVE FolderOK(u)'
  <2>1. /\ pc'[u] = "idle" /\ UNCHANGED <<rows, links>> /\ Settle(u, {k}) /\ k \in Linked(FolderOf[u])
        /\ \A q \in Keys \ {k} : project'[u][q] = project[u][q]
    BY <1>0, <1>9 DEF ShowItem, Request, Idle, ProjectsOK, Items
  <2>2. Joined(u, k, {}, rows', links', out')
    BY <2>1 DEF Linked, Joined
  <2> QED
    BY <1>g, <1>h, <2>1, <2>2
<1>10. ASSUME NEW k \in Keys, Import(u, k) PROVE FolderOK(u)'
  <2>1. PICK v : project' = [project EXCEPT ![u][k] = [ver |-> v, base |-> NoHash, changed |-> TRUE]]
    BY <1>10 DEF Import
  <2>2. project'[u][k].changed /\ \A q \in Keys \ {k} : project'[u][q] = project[u][q]
    BY <1>0, <2>1 DEF ProjectsOK, Items
  <2>3. pc'[u] = "idle" /\ UNCHANGED <<rows, links>> /\ Settle(u, {k})
    BY <1>10 DEF Import, Request, Idle
  <2> QED
    BY <1>g, <1>h, <2>2, <2>3
<1>11. ASSUME NEW k \in Keys, Edit(u, k) \/ Undo(u, k) PROVE FolderOK(u)'
  <2>1. k \in Loaded(u) /\ \E v : project' = [project EXCEPT ![u][k] = Changed(@, v)]
    BY <1>11 DEF Edit, Undo
  <2>2. PICK v : project' = [project EXCEPT ![u][k] = Changed(@, v)]
    BY <2>1
  <2>3. project[u] \in Items /\ project[u][k] \in Item
    BY <1>0, <2>1 DEF ProjectsOK, Items, Loaded
  <2>4. project'[u] = [project[u] EXCEPT ![k] = Changed(project[u][k], v)]
    BY <1>0, <2>2 DEF ProjectsOK
  <2>5. project'[u][k] = Changed(project[u][k], v) /\ \A q \in Keys \ {k} : project'[u][q] = project[u][q]
    BY <2>3, <2>4 DEF Items
  <2>6. project'[u][k].changed
    BY <2>3, <2>5 DEF Changed, Item
  <2>7. pc'[u] = "idle" /\ UNCHANGED <<rows, links>> /\ Settle(u, {k})
    BY <1>11 DEF Edit, Undo, Request, Idle
  <2> QED
    BY <1>g, <1>h, <2>5, <2>6, <2>7
<1>12. ASSUME NEW k \in Keys, Unlink(u, k) PROVE FolderOK(u)'
  <2>1. /\ links' = links \ {<<FolderOf[u], rows[k].id>>} /\ rows' = rows /\ rows[k] # NoRow
        /\ out \subseteq out' /\ pc'[u] = "idle" /\ project' = [project EXCEPT ![u][k] = NoItem]
    BY <1>12 DEF Unlink, Linked, Request, Idle
  <2>2. project'[u][k] = NoItem /\ \A q \in Keys \ {k} : project'[u][q] = project[u][q]
    BY <1>0, <2>1 DEF ProjectsOK, Items
  <2>3. ASSUME NEW q \in Keys, project'[u][q] # NoItem, ~project'[u][q].changed
        PROVE  Joined(u, q, {}, rows', links', out')
    <3>1. q # k /\ Joined(u, q, {}, rows, links, out)
      BY <1>0, <2>2, <2>3 DEF FolderOK
    <3>2. rows[q] # NoRow => rows[q].id # rows[k].id
      BY <1>0, <2>1, <3>1 DEF RowsUnique
    <3> QED
      BY <2>1, <3>1, <3>2 DEF Joined
  <2> QED
    BY <1>b, <2>1, <2>3 DEF HasRow
<1> QED
  BY <1>1, <1>2, <1>3, <1>4, <1>5, <1>7, <1>8, <1>9, <1>10, <1>11, <1>12 DEF UserStep

\* What a step does to the other users, and to the keys of this one.
LEMMA SaveActs ==
  ASSUME IInv, NEW u \in Users, SaveStep(u)
  PROVE  /\ pc'[u] # "clone"
         /\ \A w \in Users \ {u} : project'[w] = project[w] /\ pc'[w] = pc[w] /\ job'[w] = job[w]
         /\ \A q \in Keys : project'[u][q] # NoItem =>
              project[u][q] # NoItem \/ (pc[u] = "clone" /\ q = job[u].clone)
<1>0. TypeOK /\ TablesOK /\ ProjectsOK /\ LoopOK /\ CurrentOK
  BY TypeParts DEF IInv
<1> USE DEF db, local, fresh, ghosts
<1> DEFINE Others == \A w \in Users \ {u} : project'[w] = project[w] /\ pc'[w] = pc[w] /\ job'[w] = job[w]
           Held == \A q \in Keys : project'[u][q] # NoItem =>
                     project[u][q] # NoItem \/ (pc[u] = "clone" /\ q = job[u].clone)
           Goal == pc'[u] # "clone" /\ Others /\ Held
<1>a. ASSUME NEW items, NEW k \in Keys, NEW ids, Finish(u, items, k, ids), items \in Items,
             project[u][k] # NoItem \/ (pc[u] = "clone" /\ k = job[u].clone),
             \A q \in Keys \ {k} : items[q] \in {project[u][q], NoItem}
      PROVE  Goal
  <2>1. project'[u] = [items EXCEPT ![k].changed = ids # {}] /\ pc'[u] \in {"next", "link"} /\ Others
    BY <1>0, <1>a DEF Finish, Goto, ProjectsOK, LoopOK
  <2>2. \A q \in Keys \ {k} : project'[u][q] = items[q]
    BY <1>a, <2>1 DEF Items
  <2> QED
    BY <1>a, <2>1, <2>2
<1>b. ASSUME NEW label \in SavePc \cup {"idle"}, Goto(u, label), label # "clone", UNCHANGED project,
             \A w \in Users \ {u} : job'[w] = job[w]
      PROVE  Goal
  BY <1>0, <1>b DEF Goto, LoopOK
<1>c. ASSUME pc[u] \notin {"idle", "next", "end"}
      PROVE  /\ Current(u) # NoItem /\ Current(u) \in Item /\ Key(u) \in Keys /\ project[u] \in Items
             /\ project[u][Key(u)] = Current(u) /\ job[u] \in Job /\ DbRow(u) \in Row \cup {NoRow}
             /\ StoredItems(u) \in Items /\ \A q \in Keys \ {Key(u)} : StoredItems(u)[q] = project[u][q]
  <2>1. /\ Current(u) # NoItem /\ Current(u) \in Item /\ Key(u) \in Keys /\ project[u] \in Items
        /\ project[u][Key(u)] = Current(u) /\ job[u] \in Job /\ DbRow(u) \in Row \cup {NoRow}
    BY <1>0, <1>c DEF CurrentOK, ProjectsOK, LoopOK, TablesOK, Current, Key, Job, Items, DbRow
  <2> QED
    BY <1>0, <2>1, StoredItemsType DEF StoredItems, Items
<1>1. CASE SaveNext(u) \/ CheckLink(u) \/ SaveEnd(u)
  <2>1. PICK label \in {"insert", "linked", "update", "ask1", "idle"} :
          Goto(u, label) /\ \A w \in Users \ {u} : job'[w] = job[w]
    BY <1>0, <1>1 DEF SaveNext, CheckLink, SaveEnd, LoopOK
  <2>2. UNCHANGED project
    BY <1>1 DEF SaveNext, CheckLink, SaveEnd
  <2> QED
    BY <1>b, <2>1, <2>2 DEF SavePc
<1>2. CASE Insert(u)
  <2>1. pc[u] = "insert"
    BY <1>2 DEF Insert, At
  <2>2. CASE DbRow(u) # NoRow
    BY <1>2, <1>b, <2>2 DEF Insert, SavePc
  <2>3. CASE DbRow(u) = NoRow
    <3>1. Finish(u, StoredItems(u), Key(u), {nextId})
      BY <1>2, <2>3 DEF Insert
    <3> QED
      BY <1>a, <1>c, <2>1, <3>1
  <2> QED
    BY <2>2, <2>3
<1>3. CASE UpdateItem(u) \/ ForceUpdate(u)
  <2>1. pc[u] \in {"update", "force"}
    BY <1>3 DEF UpdateItem, ForceUpdate, At
  <2>2. CASE StoreRow(u)
    <3>1. Finish(u, StoredItems(u), Key(u), job[u].links)
      BY <2>2 DEF StoreRow
    <3> QED
      BY <1>a, <1>c, <2>1, <3>1
  <2>3. CASE Restart(u) /\ UNCHANGED <<project, job>>
    BY <1>b, <2>3 DEF Restart, SavePc
  <2>4. CASE /\ project' = [project EXCEPT ![u][Key(u)].base = LastDatabaseHash(Current(u))]
             /\ Goto(u, "check2") /\ UNCHANGED job
    <3>1. Others /\ pc'[u] = "check2"
      BY <1>0, <2>4 DEF Goto, LoopOK, ProjectsOK
    <3>2. \A q \in Keys \ {Key(u)} : project'[u][q] = project[u][q]
      BY <1>0, <1>c, <2>1, <2>4 DEF ProjectsOK, Items
    <3> QED
      BY <1>c, <2>1, <3>1, <3>2
  <2> QED
    BY <1>3, <2>2, <2>3, <2>4 DEF UpdateItem, ForceUpdate
<1>4. CASE CheckConflict(u)
  <2>1. pc[u] = "check2"
    BY <1>4 DEF CheckConflict, At
  <2>2. CASE Restart(u) /\ UNCHANGED <<project, job>>
    BY <1>b, <2>2 DEF Restart, SavePc
  <2>3. CASE Skip(u)
    BY <1>a, <1>c, <2>1, <2>3 DEF Skip
  <2>4. CASE Goto(u, "ask2") /\ UNCHANGED project /\ job' = [job EXCEPT ![u].hash = DbRow(u).ver]
    <3>1. \A w \in Users \ {u} : job'[w] = job[w]
      BY <1>0, <2>4 DEF LoopOK
    <3> QED
      BY <1>b, <2>4, <3>1 DEF SavePc
  <2> QED
    BY <1>4, <2>2, <2>3, <2>4 DEF CheckConflict
<1>5. CASE InsertClone(u)
  <2> DEFINE c == job[u].clone
             items == StoredItems(u)
             new == [items EXCEPT ![Key(u)] = NoItem, ![c] = items[Key(u)]]
  <2>1. pc[u] = "clone" /\ Finish(u, new, c, job[u].links \cup {nextId})
    BY <1>5 DEF InsertClone, At
  <2>2. c \in Keys
    BY <1>c, <2>1 DEF Job
  <2>3. new \in Items /\ \A q \in Keys \ {c} : new[q] \in {project[u][q], NoItem}
    <3> HIDE DEF items
    <3>1. items \in Items /\ \A q \in Keys \ {Key(u)} : items[q] = project[u][q]
      BY <1>c, <2>1 DEF items
    <3> QED
      BY <1>c, <2>1, <2>2, <3>1 DEF Items
  <2> HIDE DEF new
  <2> QED
    BY <1>a, <2>1, <2>2, <2>3
<1>6. CASE Reload(u)
  <2>1. pc[u] = "reload"
    BY <1>6 DEF Reload, At
  <2>2. PICK new \in {Current(u), UpdateFromDB(Current(u), job[u].id, DbRow(u))} :
          Finish(u, [project[u] EXCEPT ![Key(u)] = new], Key(u), job[u].links)
    BY <1>6 DEF Reload
  <2>3. new \in Item
    BY <1>c, <2>1, UpdateFromDBType
  <2> DEFINE items == [project[u] EXCEPT ![Key(u)] = new]
  <2>4. items \in Items /\ \A q \in Keys \ {Key(u)} : items[q] = project[u][q]
    BY <1>c, <2>1, <2>3 DEF Items
  <2>5. Finish(u, items, Key(u), job[u].links) /\ Key(u) \in Keys /\ project[u][Key(u)] # NoItem
    BY <1>c, <2>1, <2>2
  <2> HIDE DEF items
  <2> QED
    BY <1>a, <2>4, <2>5
<1>7. CASE LinkItem(u)
  <2>1. pc[u] = "link"
    BY <1>7 DEF LinkItem, At
  <2>2. PICK id \in job[u].links : Finish(u, project[u], Key(u), job[u].links \ {id})
    BY <1>7 DEF LinkItem
  <2> QED
    BY <1>a, <1>c, <2>1, <2>2
<1> QED
  BY <1>1, <1>2, <1>3, <1>4, <1>5, <1>6, <1>7 DEF SaveStep

\* save() keeps row ids and the clones' keys apart.
LEMMA SaveApart ==
  ASSUME IInv, FolderInv, NEW u \in Users, SaveStep(u)
  PROVE  RowsUnique' /\ \A v \in Users : CloneOK(v)'
<1>0. TablesOK /\ LoopOK /\ RowInv /\ RowsUnique
  BY TypeParts DEF IInv, FolderInv
<1>a. \A v \in Users : CloneOK(v)
  BY DEF FolderInv
<1>1. ASSUME rows' = rows PROVE RowsUnique'
  BY <1>0, <1>1 DEF RowsUnique
<1>2. ASSUME \A k \in Keys : rows'[k] # NoRow => rows[k] # NoRow /\ rows'[k].id = rows[k].id
      PROVE  RowsUnique'
  BY <1>0, <1>2 DEF RowsUnique
<1>3. ASSUME \E c \in Keys : rows'[c].id = nextId /\ \A k \in Keys \ {c} : rows'[k] = rows[k]
      PROVE  RowsUnique'
  <2>1. PICK c \in Keys : rows'[c].id = nextId /\ \A k \in Keys \ {c} : rows'[k] = rows[k]
    BY <1>3
  <2>2. \A k \in Keys \ {c} : rows[k] # NoRow => rows[k].id # nextId
    BY <1>0 DEF RowInv, TablesOK, Row
  <2> QED
    BY <1>0, <2>1, <2>2 DEF RowsUnique
<1>4. RowsUnique'
  BY <1>1, <1>2, <1>3, SaveRows
<1>5. ASSUME NEW v \in Users PROVE CloneOK(v)'
  <2> DEFINE c == job[v].clone
  <2>1. SUFFICES ASSUME pc'[v] = "clone" PROVE CloneOK(v)'
    BY DEF CloneOK
  <2>2. v # u /\ pc[v] = "clone" /\ job'[v] = job[v] /\ c \in Keys
    BY <1>0, <2>1, SaveActs DEF LoopOK, Job
  <2>3. /\ c \notin Originals /\ rows[c] = NoRow /\ \A w \in Users : project[w][c] = NoItem
        /\ \A w \in Users \ {v} : pc[w] = "clone" => job[w].clone # c
    BY <1>a, <2>2 DEF CloneOK
  <2>4. rows'[c] = NoRow
    BY <2>2, <2>3, SaveRows
  <2>5. \A w \in Users : project'[w][c] = NoItem
    BY <2>2, <2>3, SaveActs
  <2>6. \A w \in Users \ {v} : pc'[w] = "clone" => job'[w].clone # c
    BY <2>3, SaveActs
  <2> QED
    BY <2>2, <2>3, <2>4, <2>5, <2>6 DEF CloneOK
<1> QED
  BY <1>4, <1>5

LEMMA UserActs ==
  ASSUME IInv, NEW u \in Users, UserStep(u)
  PROVE  /\ \A k \in Keys : rows'[k] # NoRow => rows'[k] = rows[k]
         /\ \A w \in Users \ {u} : project'[w] = project[w] /\ pc'[w] = pc[w] /\ job'[w] = job[w]
         /\ \A q \in Keys : project'[u][q] # NoItem =>
              project[u][q] # NoItem \/ rows[q] # NoRow \/ q \in Originals
         /\ pc'[u] = "clone" => \E ids \in SUBSET Nat : Clone(u, ids)
<1>0. TypeOK /\ TablesOK /\ ProjectsOK /\ LoopOK /\ CurrentOK
  BY TypeParts DEF IInv
<1> USE DEF db, local, fresh, ghosts
<1> DEFINE Rows   == \A k \in Keys : rows'[k] # NoRow => rows'[k] = rows[k]
           Others == \A w \in Users \ {u} : project'[w] = project[w] /\ pc'[w] = pc[w] /\ job'[w] = job[w]
           Held   == \A q \in Keys : project'[u][q] # NoItem =>
                       project[u][q] # NoItem \/ rows[q] # NoRow \/ q \in Originals
           Cloned == pc'[u] = "clone" => \E ids \in SUBSET Nat : Clone(u, ids)
           Goal   == Rows /\ Others /\ Held /\ Cloned
<1>a. ASSUME Idle(u), UNCHANGED <<rows, pc, job>>, NEW p, project' = [project EXCEPT ![u] = p],
             \A q \in Keys : p[q] # NoItem => project[u][q] # NoItem \/ rows[q] # NoRow \/ q \in Originals
      PROVE  Goal
  BY <1>0, <1>a DEF Idle, ProjectsOK
<1>b. ASSUME UNCHANGED <<rows, project>>, \A w \in Users \ {u} : pc'[w] = pc[w] /\ job'[w] = job[w],
             pc'[u] # "clone"
      PROVE  Goal
  <2>1. Rows /\ Held
    BY <1>b
  <2>2. Others /\ Cloned
    BY <1>b
  <2> QED
    BY <2>1, <2>2
<1>d. ASSUME ShowAll(u), Idle(u), UNCHANGED <<rows, pc, job>> PROVE Goal
  <2> DEFINE p == [k \in Keys |-> IF k \in Linked(FolderOf[u]) THEN FromRow(rows[k]) ELSE NoItem]
  <2>1. project' = [project EXCEPT ![u] = p]
    BY <1>d DEF ShowAll
  <2>2. \A q \in Keys : p[q] # NoItem => rows[q] # NoRow
    BY DEF Linked
  <2> HIDE DEF p
  <2> QED
    BY <1>a, <1>d, <2>1, <2>2
<1>1. CASE Open(u)
  BY <1>1, <1>d DEF Open, Request
<1>2. CASE Close(u)
  <2> DEFINE p == [k \in Keys |-> NoItem]
  <2>1. project' = [project EXCEPT ![u] = p] /\ Idle(u) /\ UNCHANGED <<rows, pc, job>>
    BY <1>2 DEF Close, Request
  <2>2. \A q \in Keys : p[q] = NoItem
    OBVIOUS
  <2> HIDE DEF p
  <2> QED
    BY <1>a, <2>1, <2>2
<1>3. CASE Update(u)
  <2>1. Idle(u) /\ UNCHANGED <<rows, pc, job>>
    BY <1>3 DEF Update, Request
  <2>2. CASE ShowAll(u)
    BY <1>d, <2>1, <2>2
  <2>3. CASE project' = [project EXCEPT ![u] = [k \in Keys |->
                           IF k \in Loaded(u) THEN Refreshed(u, k) ELSE NoItem]]
    BY <1>a, <2>1, <2>3 DEF Loaded
  <2> QED
    BY <1>3, <2>2, <2>3 DEF Update
<1>4. CASE Purge(u)
  BY <1>4 DEF Purge, Idle
<1>5. CASE Save(u) \/ Stop(u)
  <2>1. UNCHANGED <<rows, project, job>> /\ (Goto(u, "next") \/ Goto(u, "end"))
    BY <1>5 DEF Save, Stop
  <2> QED
    BY <1>0, <1>b, <2>1 DEF Goto, LoopOK
<1>e. ASSUME NEW ids \in SUBSET Nat, Clone(u, ids), UNCHANGED rows PROVE Goal
  <2>1. UNCHANGED project /\ Others
    BY <1>0, <1>e DEF Clone, Goto, LoopOK
  <2> QED
    BY <1>e, <2>1
<1>f. ASSUME Decline(u), UNCHANGED rows, pc[u] \in {"ask1", "ask2"} PROVE Goal
  <2>1. Finish(u, project[u], Key(u), job[u].links) /\ Key(u) \in Keys /\ project[u] \in Items
        /\ project[u][Key(u)] # NoItem
    BY <1>0, <1>f DEF Decline, Skip, CurrentOK, LoopOK, Job, Key, ProjectsOK
  <2>2. Others /\ pc'[u] # "clone" /\ project'[u] = [project[u] EXCEPT ![Key(u)].changed = job[u].links # {}]
    BY <1>0, <2>1 DEF Finish, Goto, LoopOK, ProjectsOK
  <2>3. \A q \in Keys \ {Key(u)} : project'[u][q] = project[u][q]
    BY <2>1, <2>2 DEF Items
  <2> QED
    BY <1>f, <2>1, <2>2, <2>3
<1>7. CASE SelectSaveAction(u)
  <2>1. UNCHANGED rows /\ pc[u] \in {"ask1", "ask2"}
    BY <1>7 DEF SelectSaveAction, At
  <2>2. CASE Clone(u, {}) \/ Decline(u)
    BY <1>e, <1>f, <2>1, <2>2
  <2>3. CASE /\ Goto(u, "update") \/ Goto(u, "reload")
             /\ job' = [job EXCEPT ![u].links = {job[u].id}] /\ UNCHANGED project
    BY <1>0, <1>b, <2>1, <2>3 DEF Goto, LoopOK
  <2> QED
    BY <1>7, <2>2, <2>3 DEF SelectSaveAction
<1>8. CASE ResolveConflict(u)
  <2>1. UNCHANGED rows /\ pc[u] \in {"ask1", "ask2"} /\ job[u].links \in SUBSET Nat
    BY <1>0, <1>8 DEF ResolveConflict, At, LoopOK, Job
  <2>2. CASE Clone(u, job[u].links) \/ Decline(u)
    BY <1>e, <1>f, <2>1, <2>2
  <2>3. CASE (Goto(u, "force") \/ Goto(u, "reload")) /\ UNCHANGED <<project, job>>
    BY <1>0, <1>b, <2>1, <2>3 DEF Goto, LoopOK
  <2> QED
    BY <1>8, <2>2, <2>3 DEF ResolveConflict
<1>9. ASSUME NEW k \in Keys,
             ShowItem(u, k) \/ Import(u, k) \/ Edit(u, k) \/ Undo(u, k) \/ Unlink(u, k)
      PROVE  Goal
  <2>1. Idle(u) /\ UNCHANGED <<rows, pc, job>>
    BY <1>9 DEF ShowItem, Import, Edit, Undo, Unlink, Request
  <2>2. PICK x : project' = [project EXCEPT ![u][k] = x]
    BY <1>9 DEF ShowItem, Import, Edit, Undo, Unlink
  <2>3. x = NoItem \/ project[u][k] # NoItem \/ rows[k] # NoRow \/ k \in Originals
    <3>1. CASE ShowItem(u, k) \/ Unlink(u, k)
      BY <3>1 DEF ShowItem, Unlink, Linked
    <3>2. CASE Import(u, k)
      BY <3>2 DEF Import
    <3>3. CASE Edit(u, k) \/ Undo(u, k)
      BY <3>3 DEF Edit, Undo, Loaded
    <3> QED
      BY <1>9, <3>1, <3>2, <3>3
  <2>4. project' = [project EXCEPT ![u] = [project[u] EXCEPT ![k] = x]]
    BY <2>2
  <2>5. \A q \in Keys : [project[u] EXCEPT ![k] = x][q] # NoItem =>
          project[u][q] # NoItem \/ rows[q] # NoRow \/ q \in Originals
    BY <1>0, <2>3 DEF ProjectsOK, Items
  <2> QED
    BY <1>a, <2>1, <2>4, <2>5
<1> QED
  BY <1>1, <1>2, <1>3, <1>4, <1>5, <1>7, <1>8, <1>9 DEF UserStep

LEMMA UserApart ==
  ASSUME IInv, FolderInv, NEW u \in Users, UserStep(u)
  PROVE  RowsUnique' /\ \A v \in Users : CloneOK(v)'
<1>0. TablesOK /\ LoopOK /\ RowInv /\ RowsUnique /\ LocalInv /\ JobInv
  BY TypeParts DEF IInv, FolderInv
<1>a. \A v \in Users : CloneOK(v)
  BY DEF FolderInv
<1>1. RowsUnique'
  <2>1. \A k \in Keys : rows'[k] # NoRow => rows'[k] = rows[k]
    BY UserActs
  <2> QED
    BY <1>0, <2>1 DEF RowsUnique
<1>2. ASSUME NEW v \in Users, v # u PROVE CloneOK(v)'
  <2> DEFINE c == job[v].clone
  <2>1. SUFFICES ASSUME pc'[v] = "clone" PROVE CloneOK(v)'
    BY DEF CloneOK
  <2>2. pc[v] = "clone" /\ job'[v] = job[v] /\ c \in Keys /\ c \in spent
    BY <1>0, <1>2, <2>1, UserActs DEF LoopOK, Job, JobInv
  <2>3. /\ c \notin Originals /\ rows[c] = NoRow /\ \A w \in Users : project[w][c] = NoItem
        /\ \A w \in Users \ {v} : pc[w] = "clone" => job[w].clone # c
    BY <1>a, <2>2 DEF CloneOK
  <2>4. rows'[c] = NoRow
    BY <2>2, <2>3, UserActs
  <2>5. \A w \in Users : project'[w][c] = NoItem
    BY <2>2, <2>3, UserActs
  <2>6. ASSUME NEW w \in Users \ {v}, pc'[w] = "clone" PROVE job'[w].clone # c
    <3>1. CASE w # u
      BY <2>3, <2>6, <3>1, UserActs
    <3>2. CASE w = u
      <4>1. PICK ids \in SUBSET Nat : Clone(u, ids)
        BY <2>6, <3>2, UserActs
      <4>2. job'[u].clone \notin spent
        BY <1>0, <4>1 DEF Clone, LoopOK, Job
      <4> QED
        BY <2>2, <3>2, <4>2
    <3> QED
      BY <3>1, <3>2
  <2> QED
    BY <2>2, <2>3, <2>4, <2>5, <2>6 DEF CloneOK
<1>3. CloneOK(u)'
  <2>1. SUFFICES ASSUME pc'[u] = "clone" PROVE CloneOK(u)'
    BY DEF CloneOK
  <2>2. PICK ids \in SUBSET Nat : Clone(u, ids)
    BY <2>1, UserActs
  <2>3. PICK c \in Keys \ (Originals \cup spent) :
          job' = [job EXCEPT ![u].clone = c, ![u].links = ids] /\ UNCHANGED project
    BY <2>2 DEF Clone
  <2>4. job'[u].clone = c
    BY <1>0, <2>3 DEF LoopOK, Job
  <2>5. rows'[c] = NoRow
    BY <1>0, <2>3, UserActs DEF RowInv
  <2>6. \A w \in Users : project'[w][c] = NoItem
    BY <1>0, <2>3 DEF LocalInv
  <2>7. ASSUME NEW w \in Users \ {u}, pc'[w] = "clone" PROVE job'[w].clone # c
    <3>1. pc[w] = "clone" /\ job'[w] = job[w]
      BY <2>7, UserActs
    <3>2. job[w].clone \in spent
      BY <1>0, <3>1 DEF JobInv
    <3> QED
      BY <2>3, <3>1, <3>2
  <2> QED
    BY <2>3, <2>4, <2>5, <2>6, <2>7 DEF CloneOK
<1> QED
  BY <1>1, <1>2, <1>3

LEMMA FolderInvHolds == Spec => [](IInv /\ FolderInv)
<1>1. Init => FolderInv
  <2> SUFFICES ASSUME Init PROVE FolderInv
    OBVIOUS
  <2>1. RowsUnique
    BY DEF Init, RowsUnique
  <2>2. ASSUME NEW u \in Users PROVE FolderOK(u) /\ CloneOK(u)
    BY DEF Init, FolderOK, CloneOK, HasRow
  <2> QED
    BY <2>1, <2>2 DEF FolderInv
<1>2. IInv /\ FolderInv /\ [Next]_vars => FolderInv'
  <2>1. ASSUME FolderInv, UNCHANGED vars PROVE FolderInv'
    BY <2>1 DEF FolderInv, RowsUnique, FolderOK, CloneOK, Joined, Key, Ids, vars, db, local, fresh, ghosts
  <2>2. ASSUME IInv, FolderInv, NEW u \in Users, SaveStep(u) PROVE FolderInv'
    <3>1. RowsUnique' /\ \A v \in Users : CloneOK(v)'
      BY <2>2, SaveApart
    <3>2. ASSUME NEW v \in Users PROVE FolderOK(v)'
      <4>1. CASE v = u
        BY <2>2, <4>1, SaveFolder
      <4>2. CASE v # u
        <5>1. JoinedStays(v) /\ TypeOK /\ FolderOK(v)
          BY <2>2, SaveRows, MoreJoined DEF IInv, FolderInv
        <5> QED
          BY <2>2, <4>2, <5>1, SaveActs, OthersFolder
      <4> QED
        BY <4>1, <4>2
    <3> QED
      BY <3>1, <3>2 DEF FolderInv
  <2>3. ASSUME IInv, FolderInv, NEW u \in Users, UserStep(u) PROVE FolderInv'
    <3>1. RowsUnique' /\ \A v \in Users : CloneOK(v)'
      BY <2>3, UserApart
    <3>2. ASSUME NEW v \in Users PROVE FolderOK(v)'
      <4>1. CASE v = u
        BY <2>3, <4>1, UserFolder
      <4>2. CASE v # u
        <5>1. JoinedStays(v) /\ TypeOK /\ FolderOK(v)
          BY <2>3, <4>2, UserStays DEF IInv, FolderInv
        <5> QED
          BY <2>3, <4>2, <5>1, UserActs, OthersFolder
      <4> QED
        BY <4>1, <4>2
    <3> QED
      BY <3>1, <3>2 DEF FolderInv
  <2> QED
    BY <2>1, <2>2, <2>3 DEF Next
<1> QED
  BY <1>1, <1>2, InvHolds, PTL DEF Spec

\* An item without the changed mark is in its user's folder, until its user
\* declines to save it or somebody takes it out.  (the statements between
\* insertItem() and updateDecoration() in CDBProject::save(), and update())
THEOREM UnmarkedIsAlwaysInFolder == Spec => []UnmarkedIsInFolder
<1>1. FolderInv => UnmarkedIsInFolder
  <2>1. ASSUME FolderInv, NEW u \in Users, NEW k \in Loaded(u) \ Marked(u)
        PROVE  k \in Linked(FolderOf[u]) \/ <<u, k>> \in out
    <3>1. k \in Keys /\ project[u][k] # NoItem /\ ~project[u][k].changed
      BY DEF Loaded, Marked
    <3>2. FolderOK(u)
      BY <2>1 DEF FolderInv
    <3>3. \A q \in Keys : project[u][q] # NoItem /\ ~project[u][q].changed => Joined(u, q, {}, rows, links, out)
      BY <3>2 DEF FolderOK
    <3> QED
      BY <3>1, <3>3 DEF Joined, Linked
  <2> QED
    BY <2>1 DEF UnmarkedIsInFolder
<1> QED
  BY <1>1, FolderInvHolds, PTL

=============================================================================
