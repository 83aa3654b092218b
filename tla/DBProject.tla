------------------------------ MODULE DBProject ------------------------------
(***************************************************************************)
(* Projects stored in a shared database: CDBProject::save() and update(),  *)
(* with the item operations they call (IGisItem).  Several programs share  *)
(* the tables `items` and `folder2item`; no transaction spans two queries, *)
(* so a step of this module is one SQL statement with the local code up to *)
(* the next statement or dialog.                                           *)
(*                                                                         *)
(* An item's data and history are one version number, which is also its    *)
(* hash; every edit makes a new one.  A dialog's remembered choice ("for   *)
(* all other items") is a choice that happens to be the same again.        *)
(***************************************************************************)
EXTENDS Integers, FiniteSets

CONSTANTS
  Users,       \* running programs, each with one project open or not
  Folders,     \* project folders of the database
  FolderOf,    \* the folder a user's project is stored in
  Keys,        \* item keys (keyqms)
  Originals,   \* keys items are imported with; the others are for clones
  MaxEdits,    \* bound: edits made by all users
  MaxPurges,   \* bound: rows deleted from Lost & Found
  MaxRequests, \* bound: the users' operations other than edits, purges and save()
  NoItem, NoRow, NoHash

ASSUME ConstantsAssumption ==
  /\ FolderOf \in [Users -> Folders] /\ Originals \subseteq Keys /\ IsFiniteSet(Keys) /\ Keys # {}
  /\ MaxEdits \in Nat /\ MaxPurges \in Nat /\ MaxRequests \in Nat

Vers == Nat
Item == [ver : Vers, base : Vers \cup {NoHash}, changed : BOOLEAN]
Row  == [id : Nat, ver : Vers]

ASSUME NoValues == NoItem \notin Item /\ NoRow \notin Row /\ NoHash \notin Vers

VARIABLES
  rows,      \* table items: the row of each key
  links,     \* table folder2item: <<folder, item id>>
  nextId,    \* next value of items.id (AUTOINCREMENT)
  purged,    \* rows deleted so far
  project,   \* the items of each user's project
  full,      \* checkState == Qt::Checked
  pc, job,   \* where save() is, and its locals for the current item
  nextVer,   \* next version number
  spent,     \* keys already given to clones
  requests,  \* operations counted against MaxRequests
  \* history variables
  stored,    \* versions that have been in a row
  waived,    \* <<version, why>>: versions whose mark was removed or that were dropped
  seen,      \* versions a user made, loaded or was shown in a dialog
  out        \* <<user, key>>: since the item was loaded or edited its user declined
             \* to save it, or somebody took it out of the folder or the database

db     == <<rows, links, nextId, purged>>
local  == <<project, full, pc, job>>
fresh  == <<nextVer, spent, requests>>
ghosts == <<stored, waived, seen, out>>
vars   == <<db, local, fresh, ghosts>>

SavePc == {"next", "linked", "ask1", "insert", "update", "check2", "ask2", "force",
           "clone", "reload", "link", "end"}
Job == [key : Keys, clone : Keys, id : Nat, hash : Vers \cup {NoHash}, links : SUBSET Nat]

TypeOK ==
  /\ rows \in [Keys -> Row \cup {NoRow}] /\ links \subseteq Folders \X Nat
  /\ nextId \in Nat /\ purged \in Nat
  /\ project \in [Users -> [Keys -> Item \cup {NoItem}]]
  /\ full \in [Users -> BOOLEAN]
  /\ pc \in [Users -> SavePc \cup {"idle"}] /\ job \in [Users -> Job]
  /\ nextVer \in Nat /\ spent \subseteq Keys /\ requests \in Nat
  /\ stored \subseteq Vers /\ waived \subseteq Vers \X {"choice", "same"}
  /\ seen \in [Users -> SUBSET Vers] /\ out \subseteq Users \X Keys
  \* while save() works on an item, the item is in the project
  /\ \A u \in Users : pc[u] \notin {"idle", "next", "end"} => project[u][job[u].key] # NoItem

-----------------------------------------------------------------------------
Loaded(u)   == {k \in Keys : project[u][k] # NoItem}
Marked(u)   == {k \in Loaded(u) : project[u][k].changed}
Linked(f)   == {k \in Keys : rows[k] # NoRow /\ <<f, rows[k].id>> \in links}
Unlinked    == {k \in Keys : rows[k] # NoRow /\ \A f \in Folders : <<f, rows[k].id>> \notin links}

\* getLastDatabaseHash(): an item that never met the database takes its own hash.
LastDatabaseHash(item) == IF item.base = NoHash THEN item.ver ELSE item.base

\* loadFromDb(): the item as it is in row r.
FromRow(r) == [ver |-> r.ver, base |-> r.ver, changed |-> FALSE]

\* checkState as postStatus() computes it from the links of the folder.
CheckState(u, linked, items) ==
  LET attached == Cardinality({l \in linked : l[1] = FolderOf[u]})
      children == Cardinality({k \in Keys : items[k] # NoItem})
  IN  attached = 0 \/ attached = children

\* updateFromDB(): nothing happens when the row still has the hash the item
\* was loaded or stored with; otherwise history and data are replaced.
UpdateFromDB(item, id, r) ==
  IF r = NoRow \/ (r # NoRow /\ (r.id # id \/ r.ver = item.base)) THEN item
  ELSE [FromRow(r) EXCEPT !.changed = item.changed]

\* Mutated form: an update that does not compare the hash.
MatchesId(r, id, hash) == r # NoRow /\ r.id = id

\* UPDATE items ... WHERE id=:id AND hash=:oldhash
Matches(r, id, hash) == r # NoRow /\ r.id = id /\ r.ver = hash

\* Edits of a user that `new` no longer holds with their mark.
Dropped(old, new) ==
  {old[k].ver : k \in {q \in Keys : /\ old[q] # NoItem /\ old[q].changed
                                     /\ \/ new[q] = NoItem
                                        \/ new[q].ver # old[q].ver
                                        \/ ~new[q].changed}}
Waive(vers, why) == waived' = waived \cup (vers \X {why})

\* The user's items `keys` are as the database has them, or marked again.
Settle(u, keys) == out' = out \ ({u} \X keys)

NoJob(k) == [key |-> k, clone |-> k, id |-> 0, hash |-> NoHash, links |-> {}]
FirstKey == CHOOSE k \in Keys : TRUE

-----------------------------------------------------------------------------
(* The user, between two calls of save(). *)

\* Mutated form: dialogs of save() that do not block the rest of the program.
IdleInDialog(u) == pc[u] \in {"idle", "ask1", "ask2"}

Idle(u) == pc[u] = "idle"

Request(u) == Idle(u) /\ requests < MaxRequests /\ requests' = requests + 1

\* showItems() with addItemsExclusively: all items of the folder replace the
\* project's items.
ShowAll(u) ==
  /\ project' = [project EXCEPT ![u] = [k \in Keys |->
                   IF k \in Linked(FolderOf[u]) THEN FromRow(rows[k]) ELSE NoItem]]
  /\ full' = [full EXCEPT ![u] = CheckState(u, links, project'[u])]
  /\ seen' = [seen EXCEPT ![u] = @ \cup {rows[k].ver : k \in Linked(FolderOf[u])}]
  /\ Waive(Dropped(project[u], project'[u]), "choice") /\ Settle(u, Keys)

Open(u) ==
  /\ Request(u) /\ Loaded(u) = {} /\ Linked(FolderOf[u]) # {}
  /\ ShowAll(u)
  /\ UNCHANGED <<db, pc, job, nextVer, spent, stored>>

\* showItems() for one item checked in the database view.
ShowItem(u, k) ==
  /\ Request(u) /\ k \in Linked(FolderOf[u]) \ Loaded(u)
  /\ project' = [project EXCEPT ![u][k] = FromRow(rows[k])]
  /\ full' = [full EXCEPT ![u] = CheckState(u, links, project'[u])]
  /\ seen' = [seen EXCEPT ![u] = @ \cup {rows[k].ver}] /\ Settle(u, {k})
  /\ UNCHANGED <<db, pc, job, nextVer, spent, stored, waived>>

\* An item put into the project from a file (version 0), or as a copy of the
\* item another project has just loaded.  A copy does not take the database hash.
Import(u, k) ==
  /\ Request(u) /\ k \notin Loaded(u)
  /\ \E v \in {0} \cup {r.ver : r \in {rows[k]} \ {NoRow}} :
       /\ v = 0 => k \in Originals
       /\ project' = [project EXCEPT ![u][k] = [ver |-> v, base |-> NoHash, changed |-> TRUE]]
       /\ seen' = [seen EXCEPT ![u] = @ \cup {v}]
  /\ Settle(u, {k})
  /\ UNCHANGED <<db, full, pc, job, nextVer, spent, stored, waived>>

\* Mutated form: an edit that does not mark the item.
ChangedUnmarked(item, v) == [item EXCEPT !.ver = v]

\* changed(): the item's new version and its mark.
Changed(item, v) == [item EXCEPT !.ver = v, !.changed = TRUE]

\* The edit replaces an earlier one that was not stored.
Edit(u, k) ==
  /\ Idle(u) /\ k \in Loaded(u) /\ nextVer <= MaxEdits
  /\ project' = [project EXCEPT ![u][k] = Changed(@, nextVer)]
  /\ nextVer' = nextVer + 1
  /\ Waive(Dropped(project[u], project'[u]), "choice") /\ Settle(u, {k})
  /\ seen' = [seen EXCEPT ![u] = @ \cup {nextVer}]
  /\ UNCHANGED <<db, full, pc, job, spent, requests, stored>>

\* The history list: back to the version the item was loaded or stored with, or
\* to the first one, which the history of an imported item keeps.
Undo(u, k) ==
  /\ Request(u) /\ k \in Loaded(u)
  /\ \E v \in {project[u][k].base} \cup (IF k \in Originals THEN {0} ELSE {}) :
       /\ v \notin {NoHash, project[u][k].ver}
       /\ project' = [project EXCEPT ![u][k] = Changed(@, v)]
       /\ seen' = [seen EXCEPT ![u] = @ \cup {v}]
  /\ Waive(Dropped(project[u], project'[u]), "choice") /\ Settle(u, {k})
  /\ UNCHANGED <<db, full, pc, job, nextVer, spent, stored>>

\* The project is closed; edits not saved are given up (askBeforClose()).
Close(u) ==
  /\ Request(u) /\ Loaded(u) # {}
  /\ project' = [project EXCEPT ![u] = [k \in Keys |-> NoItem]]
  /\ full' = [full EXCEPT ![u] = FALSE]
  /\ Waive(Dropped(project[u], project'[u]), "choice")
  /\ UNCHANGED <<db, pc, job, nextVer, spent, stored, seen, out>>

\* update() of a partly loaded project, item by item, and what it marks.
Refreshed(u, k) ==
  LET item == project[u][k]
      r    == rows[k]
      new  == UpdateFromDB(item, IF r = NoRow THEN 0 ELSE r.id, r)
  IN  IF r = NoRow THEN [item EXCEPT !.changed = TRUE]
      ELSE [new EXCEPT !.changed = k \notin Linked(FolderOf[u])]

\* update(), with "Ignore" as the answer when there are unsaved edits ("Save"
\* is save() first).
Update(u) ==
  /\ Request(u) /\ Loaded(u) # {}
  /\ \/ /\ full[u] /\ ShowAll(u)
     \/ /\ ~full[u]
        /\ project' = [project EXCEPT ![u] = [k \in Keys |->
                         IF k \in Loaded(u) THEN Refreshed(u, k) ELSE NoItem]]
        /\ full' = [full EXCEPT ![u] = CheckState(u, links, project[u])]
        /\ seen' = [seen EXCEPT ![u] = @ \cup {project'[u][k].ver : k \in Loaded(u)}]
        /\ Waive(Dropped(project[u], project'[u]), "choice") /\ Settle(u, Keys)
  /\ UNCHANGED <<db, pc, job, nextVer, spent, stored>>

\* The database view: an item is removed from the user's folder, and from the
\* project if it is loaded (hideItems()).
Unlink(u, k) ==
  /\ Request(u) /\ k \in Linked(FolderOf[u])
  /\ links' = links \ {<<FolderOf[u], rows[k].id>>}
  /\ project' = [project EXCEPT ![u][k] = NoItem]
  /\ full' = [full EXCEPT ![u] = IF k \in Loaded(u) THEN CheckState(u, links', project'[u]) ELSE @]
  /\ Waive(Dropped(project[u], project'[u]), "choice")
  /\ out' = out \cup ({w \in Users : FolderOf[w] = FolderOf[u]} \X {k})
  /\ UNCHANGED <<rows, nextId, purged, pc, job, nextVer, spent, stored, seen>>

\* Lost & Found: delItem() deletes one row no folder links to, clear() all.
Purge(u) ==
  /\ Idle(u)
  /\ \E gone \in {Unlinked} \cup {{k} : k \in Unlinked} :
       /\ gone # {} /\ purged + Cardinality(gone) <= MaxPurges
       /\ rows' = [k \in Keys |-> IF k \in gone THEN NoRow ELSE rows[k]]
       /\ purged' = purged + Cardinality(gone)
       /\ out' = out \cup (Users \X gone)
  /\ UNCHANGED <<links, nextId, local, fresh, stored, waived, seen>>

-----------------------------------------------------------------------------
(* save(): the loop over the changed items, one statement or dialog a step. *)

Key(u)    == job[u].key
Current(u) == project[u][Key(u)]
DbRow(u)  == rows[Key(u)]

At(u, label) == pc[u] = label
Goto(u, label) == pc' = [pc EXCEPT ![u] = label]

\* Mutated form: the item loses its mark before its links are inserted.
FinishUnmarked(u, items, k, ids) ==
  /\ project' = [project EXCEPT ![u] = [items EXCEPT ![k].changed = FALSE]]
  /\ job' = [job EXCEPT ![u].key = k, ![u].links = ids]
  /\ Goto(u, IF ids = {} THEN "next" ELSE "link")

\* The end of the loop's body for the item with key k: while links are to be
\* inserted the next step is "link", after that the item loses its mark.
Finish(u, items, k, ids) ==
  /\ project' = [project EXCEPT ![u] = [items EXCEPT ![k].changed = ids # {}]]
  /\ job' = [job EXCEPT ![u].key = k, ![u].links = ids]
  /\ Goto(u, IF ids = {} THEN "next" ELSE "link")

\* The item keeps its data but leaves the loop as if it had been saved.
Skip(u) == Finish(u, project[u], Key(u), job[u].links)

\* The current item after it was stored: setLastDatabaseHash().
StoredItems(u) == [project[u] EXCEPT ![Key(u)].base = Current(u).ver]

Save(u) ==
  /\ Idle(u)
  /\ Goto(u, "next")
  /\ UNCHANGED <<db, project, full, job, fresh, ghosts>>

\* checkForAction1(): SELECT id FROM items WHERE keyqms.  Unchanged items are skipped.
SaveNext(u) ==
  /\ At(u, "next")
  /\ \E k \in Marked(u) :
       IF rows[k] = NoRow
       THEN /\ job' = [job EXCEPT ![u] = NoJob(k)] /\ Goto(u, "insert")
       ELSE /\ job' = [job EXCEPT ![u] = [NoJob(k) EXCEPT !.id = rows[k].id]] /\ Goto(u, "linked")
  /\ UNCHANGED <<db, project, full, fresh, ghosts>>

\* checkForAction1(): SELECT id FROM folder2item.
CheckLink(u) ==
  /\ At(u, "linked")
  /\ Goto(u, IF <<FolderOf[u], job[u].id>> \in links THEN "update" ELSE "ask1")
  /\ UNCHANGED <<db, project, full, job, fresh, ghosts>>

\* createClone(): the clone gets a new key.
Clone(u, ids) ==
  \E c \in Keys \ (Originals \cup spent) :
    /\ spent' = spent \cup {c}
    /\ job' = [job EXCEPT ![u].clone = c, ![u].links = ids]
    /\ Goto(u, "clone") /\ UNCHANGED <<project, waived, out>>

\* The user closes the dialog: the item is treated as if it had been saved.
Decline(u) ==
  /\ Skip(u) /\ UNCHANGED spent
  /\ Waive({Current(u).ver}, "choice") /\ out' = out \cup {<<u, Key(u)>>}

\* CSelectSaveAction: the item is in the database but not in this folder.
SelectSaveAction(u) ==
  /\ At(u, "ask1")
  /\ \/ /\ Goto(u, "update") \/ Goto(u, "reload")
        /\ job' = [job EXCEPT ![u].links = {job[u].id}]
        /\ UNCHANGED <<project, waived, spent, out>>
     \/ Clone(u, {})
     \/ Decline(u)
  /\ UNCHANGED <<db, full, nextVer, requests, stored, seen>>

\* insertItem(); keyqms is UNIQUE, so a row inserted meanwhile is a query error.
Insert(u) ==
  /\ At(u, "insert")
  /\ IF DbRow(u) # NoRow
     THEN /\ Goto(u, "end")
          /\ UNCHANGED <<rows, nextId, project, job, stored>>
     ELSE /\ rows' = [rows EXCEPT ![Key(u)] = [id |-> nextId, ver |-> Current(u).ver]]
          /\ nextId' = nextId + 1
          /\ stored' = stored \cup {Current(u).ver}
          /\ Finish(u, StoredItems(u), Key(u), {nextId})
  /\ UNCHANGED <<links, purged, full, fresh, waived, seen, out>>

\* What the conditional UPDATE writes.
StoreRow(u) ==
  /\ rows' = [rows EXCEPT ![Key(u)].ver = Current(u).ver]
  /\ stored' = stored \cup {Current(u).ver}
  /\ Finish(u, StoredItems(u), Key(u), job[u].links)

\* updateItem(): UPDATE ... WHERE id AND hash = the hash last known.
UpdateItem(u) ==
  /\ At(u, "update")
  /\ LET hash == LastDatabaseHash(Current(u))
     IN  IF Matches(DbRow(u), job[u].id, hash) THEN StoreRow(u)
         ELSE /\ project' = [project EXCEPT ![u][Key(u)].base = hash]
              /\ Goto(u, "check2") /\ UNCHANGED <<rows, stored, job>>
  /\ UNCHANGED <<links, nextId, purged, full, fresh, waived, seen, out>>

\* Mutated form: a restart that does not look the item up again.
RestartAtCheck(u) == Goto(u, "check2")

\* Where save() goes on when the row was changed or removed meanwhile (`i--`).
Restart(u) == Goto(u, "next")

\* checkForAction2(): SELECT hash ... WHERE id, after an update that hit no row.
CheckConflict(u) ==
  /\ At(u, "check2")
  /\ \/ /\ ~(DbRow(u) # NoRow /\ DbRow(u).id = job[u].id)    \* item has been removed
        /\ Restart(u) /\ UNCHANGED <<project, job, waived, seen>>
     \/ /\ Matches(DbRow(u), job[u].id, Current(u).base)     \* "no difference"
        /\ Skip(u)
        /\ Waive({Current(u).ver}, "same") /\ UNCHANGED seen
     \/ /\ DbRow(u) # NoRow /\ DbRow(u).id = job[u].id /\ DbRow(u).ver # Current(u).base
        /\ job' = [job EXCEPT ![u].hash = DbRow(u).ver] /\ Goto(u, "ask2")
        /\ seen' = [seen EXCEPT ![u] = @ \cup {DbRow(u).ver}]
        /\ UNCHANGED <<project, waived>>
  /\ UNCHANGED <<db, full, fresh, stored, out>>

\* CResolveDatabaseConflict: Force Save, Take Remote, Clone & Save or Abort.
ResolveConflict(u) ==
  /\ At(u, "ask2")
  /\ \/ /\ Goto(u, "force") \/ Goto(u, "reload")
        /\ UNCHANGED <<project, job, waived, spent, out>>
     \/ Clone(u, job[u].links)
     \/ Decline(u)
  /\ UNCHANGED <<db, full, nextVer, requests, stored, seen>>

\* The second conditional UPDATE, with the hash the user was shown.
ForceUpdate(u) ==
  /\ At(u, "force")
  /\ IF Matches(DbRow(u), job[u].id, job[u].hash) THEN StoreRow(u)
     ELSE Restart(u) /\ UNCHANGED <<rows, stored, project, job>>
  /\ UNCHANGED <<links, nextId, purged, full, fresh, waived, seen, out>>

\* insertItem() of the clone, which takes the item's place.
InsertClone(u) ==
  /\ At(u, "clone")
  /\ LET c     == job[u].clone
         items == StoredItems(u)
     IN  /\ rows' = [rows EXCEPT ![c] = [id |-> nextId, ver |-> Current(u).ver]]
         /\ Finish(u, [items EXCEPT ![Key(u)] = NoItem, ![c] = items[Key(u)]],
                   c, job[u].links \cup {nextId})
  /\ nextId' = nextId + 1
  /\ stored' = stored \cup {Current(u).ver}
  /\ UNCHANGED <<links, purged, full, fresh, waived, seen, out>>

\* updateFromDB(), which returns early when the hash is unchanged or a query fails.
Reload(u) ==
  /\ At(u, "reload")
  /\ \E new \in {Current(u), UpdateFromDB(Current(u), job[u].id, DbRow(u))} :
       /\ Finish(u, [project[u] EXCEPT ![Key(u)] = new], Key(u), job[u].links)
       /\ seen' = [seen EXCEPT ![u] = @ \cup {new.ver}]
       /\ Waive({Current(u).ver}, "choice")
  /\ UNCHANGED <<db, full, fresh, stored, out>>

\* INSERT INTO folder2item; nothing checks that the row still exists.
LinkItem(u) ==
  /\ At(u, "link")
  /\ \E id \in job[u].links :
       /\ links' = links \cup {<<FolderOf[u], id>>}
       /\ Finish(u, project[u], Key(u), job[u].links \ {id})
  /\ UNCHANGED <<rows, nextId, purged, full, fresh, ghosts>>

\* Mutated form: the end of save() takes every item for saved.
SaveEndUnmarksAll(u) ==
  /\ At(u, "end") \/ (At(u, "next") /\ Marked(u) = {})
  /\ project' = [project EXCEPT ![u] = [k \in Keys |->
                   IF @[k] = NoItem THEN NoItem ELSE [@[k] EXCEPT !.changed = FALSE]]]
  /\ full' = [full EXCEPT ![u] = CheckState(u, links, project[u])]
  /\ Goto(u, "idle") /\ job' = [job EXCEPT ![u] = NoJob(FirstKey)]
  /\ UNCHANGED <<db, fresh, ghosts>>

\* The folder's own row is updated; postStatus() ends save().
SaveEnd(u) ==
  /\ At(u, "end") \/ (At(u, "next") /\ Marked(u) = {})
  /\ full' = [full EXCEPT ![u] = CheckState(u, links, project[u])]
  /\ Goto(u, "idle") /\ job' = [job EXCEPT ![u] = NoJob(FirstKey)]
  /\ UNCHANGED <<db, project, fresh, ghosts>>

\* A query fails, or the user cancels the progress dialog: save() stops and the
\* item keeps its mark.
Stop(u) ==
  /\ pc[u] \in SavePc \ {"end", "ask1", "ask2", "reload"}
  /\ Goto(u, "end")
  /\ UNCHANGED <<db, project, full, job, fresh, ghosts>>

-----------------------------------------------------------------------------
\* One imported item, either stored and linked to every folder or not yet stored.
Init ==
  /\ rows \in {[k \in Keys |-> NoRow]} \cup
              {[k \in Keys |-> IF k = o THEN [id |-> 1, ver |-> 0] ELSE NoRow] : o \in Originals}
  /\ links = IF \A k \in Keys : rows[k] = NoRow THEN {} ELSE Folders \X {1}
  /\ nextId = 2 /\ purged = 0
  /\ project = [u \in Users |-> [k \in Keys |-> NoItem]]
  /\ full = [u \in Users |-> FALSE]
  /\ pc = [u \in Users |-> "idle"] /\ job = [u \in Users |-> NoJob(FirstKey)]
  /\ nextVer = 1 /\ spent = {} /\ requests = 0
  /\ stored = {0} /\ waived = {} /\ seen = [u \in Users |-> {}] /\ out = {}

SaveStep(u) ==
  \/ SaveNext(u) \/ CheckLink(u) \/ Insert(u) \/ UpdateItem(u) \/ CheckConflict(u)
  \/ ForceUpdate(u) \/ InsertClone(u) \/ Reload(u) \/ LinkItem(u) \/ SaveEnd(u)

UserStep(u) ==
  \/ Open(u) \/ Close(u) \/ Update(u) \/ Purge(u) \/ Save(u) \/ Stop(u)
  \/ SelectSaveAction(u) \/ ResolveConflict(u)
  \/ \E k \in Keys : ShowItem(u, k) \/ Import(u, k) \/ Edit(u, k) \/ Undo(u, k) \/ Unlink(u, k)

Next == \E u \in Users : SaveStep(u) \/ UserStep(u)

Spec == Init /\ [][Next]_vars

\* save() runs on by itself between two dialogs; users and failures are not fair.
FairSpec == Spec /\ \A u \in Users : WF_vars(SaveStep(u))

-----------------------------------------------------------------------------
Given == {w[1] : w \in waived}

\* An item without the changed mark holds what was stored at some time, unless
\* its user gave the edit up in a dialog or checkForAction2() found "no
\* difference".  (updateDecoration() at the end of save()'s loop and in update())
UnmarkedWasStored ==
  \A u \in Users : \A k \in Loaded(u) \ Marked(u) : project[u][k].ver \in stored \cup Given

\* Every edit ever made is in the database's past, was given up, or is still in a
\* project with its mark.  No failing query, restarted save or clone loses one.
EditsAccountedFor ==
  \A v \in 1 .. nextVer - 1 :
    \/ v \in stored \cup Given
    \/ \E u \in Users : \E k \in Marked(u) : project[u][k].ver = v

\* An item without the changed mark is in its user's folder, until its user
\* declines to save it or somebody takes it out: a mark goes only after row and
\* link are there, through restarts, clones, conflicts and failures between the
\* statements that insert them.  (updateDecoration() at CDBProject.cpp:553)
UnmarkedIsInFolder ==
  \A u \in Users : \A k \in Loaded(u) \ Marked(u) :
    k \in Linked(FolderOf[u]) \/ <<u, k>> \in out

\* A stored version is overwritten only by a user who had loaded it, made it, or
\* been shown it in the conflict dialog.  (the conditional UPDATEs of updateItem())
NoBlindOverwrite ==
  [][\A k \in Keys :
       /\ rows[k] # NoRow /\ rows'[k] # NoRow
       /\ rows'[k].id = rows[k].id /\ rows'[k].ver # rows[k].ver
       => \E u \in Users : /\ pc'[u] # pc[u] /\ rows[k].ver \in seen[u]
                            /\ project[u][k] # NoItem /\ project[u][k].ver = rows'[k].ver]_vars

\* save() comes to an end or to a dialog, however often the rows it is about to
\* update are changed or removed by others.  (`i--` on eReasonConflict)
SaveEnds ==
  \A u \in Users : At(u, "next") ~> pc[u] \in {"idle", "ask1", "ask2"}

\* Only the user gives an edit up.  Violated: the hash comes back between the
\* UPDATE and the SELECT of checkForAction2().
EditsGivenUpByChoice ==
  \A w \in waived : w[2] = "same" => w[1] \in stored \/ <<w[1], "choice">> \in waived
=============================================================================
