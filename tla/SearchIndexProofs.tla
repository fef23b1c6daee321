-------------------------- MODULE SearchIndexProofs --------------------------
(***************************************************************************)
(* Theorems about SearchIndex and SearchScope.                             *)
(*                                                                         *)
(* SearchIndex, for any paths, contents, scopes and batch size, and a      *)
(* patient user: once everything has come to rest, a search finds the      *)
(* present content of every file in scope.  The argument says, of every    *)
(* file whose rows are old, in which of the event set, the batch, the      *)
(* queue, the plan or the thread's hands its last edit still is.           *)
(*                                                                         *)
(* SearchScope, for any tree of files and any globs: the walk finds what   *)
(* is selected.                                                            *)
(***************************************************************************)
EXTENDS SearchIndex, SearchScope, SequenceTheorems, TLAPS

Readings == Paths \X Contents
Entry == Contents \cup {NoFile, NoHash}
Plans ==
  [renames : SUBSET (Paths \X Paths), removals : SUBSET Paths, index : SUBSET Paths,
   file : SUBSET Readings, boot : BOOLEAN]

(* TypeOK, and what is in the threads' hands where. *)
Shape ==
  /\ TypeOK
  /\ todo \in Plans /\ copy \in [Paths -> Entry]
  /\ wseen \in [Paths -> Entry] /\ wcopy \in [Paths -> Entry]
  /\ todo.file # {} => \E f \in Readings : todo.file = {f}
  /\ pc \notin {"renames", "renamed"} => todo.renames = {} /\ todo.removals = {}
  /\ pc \in {"off", "loop", "boot"} => todo.index = {}

(* The path of the file in hand. *)
InHand(p) == \E f \in todo.file : f[1] = p

(* The manifest, or what is about to be written in its place. *)
Ledger == IF wpc = "save" THEN wcopy ELSE IF pc \in {"renamed", "save"} THEN copy ELSE manifest

(* A file that is on record has the rows its record says, a file without   *)
(* a record has none.                                                      *)
TrueEntry(p) ==
  /\ p \in torn => rows[p] # {}
  /\ ~ (pc = "hash" /\ InHand(p)) =>
       /\ Ledger[p] \in Contents /\ p \notin torn => rows[p] = {Ledger[p]}
       /\ Ledger[p] = NoFile => rows[p] = {}

Records ==
  /\ \A p \in Paths : TrueEntry(p)
  /\ pc = "hash" => \A f \in todo.file : rows[f[1]] = {f[2]}

(* The indexer rests while a move is handled, and nothing else is. *)
Calm == pc = "loop" /\ synced /\ queue = {} /\ scope = wanted /\ watching

MoveOf(p, q) ==
  LET events == {MovedFrom(p), Changed(q)} IN
    /\ p # q /\ disk[p] = NoFile /\ rows[q] = {}
    /\ \/ noted = events /\ wpc = "idle"
       \/ noted = {} /\ batch = events /\ wpc \in {"load", "match"}
    /\ wpc = "match" => wseen = manifest

Moving ==
  /\ wpc = "save" => Calm /\ noted = {} /\ \A p \in Paths : MovedFrom(p) \notin batch
  /\ (\E x \in Paths : MovedFrom(x) \in noted \cup batch) =>
       Calm /\ \E p, q \in Paths : MoveOf(p, q)

(* Somebody knows of the last edit of a file. *)
Told(p) == Changed(p) \in noted \cup batch \/ p \in queue

(* No rescan is due. *)
Scanned == ~ asked /\ pc # "off" /\ (pc = "loop" => synced)

(* The plan agrees with the workspace, but for the edits somebody knows of. *)
PlanHolds ==
  /\ \A r \in todo.renames :
       /\ Ledger[r[1]] \in Contents /\ Ledger[r[2]] = NoFile /\ r[1] # r[2]
       /\ \A s \in todo.renames : r[1] = s[1] \/ r[2] = s[2] => r = s
  /\ Scanned =>
       /\ \A r \in todo.renames :
            /\ disk[r[2]] = Ledger[r[1]] \/ Told(r[2])
            /\ r[1] \in scope => disk[r[1]] = NoFile \/ Told(r[1])
       /\ \A p \in todo.removals \cap scope : disk[p] = NoFile \/ Told(p)
       /\ \A f \in todo.file : disk[f[1]] = f[2] \/ Told(f[1])

(* What will bring the rows of a file up to date. *)
Pending(p) ==
  \/ Told(p)
  \/ p \in todo.index /\ ~ InHand(p)
  \/ pc = "embed" /\ <<p, disk[p]>> \in todo.file
  \/ \E r \in todo.renames : r[2] = p

Tracked ==
  Scanned => \A p \in scope \ torn : disk[p] # NoFile => rows[p] = {disk[p]} \/ Pending(p)

(* Before the observer runs nobody edits. *)
Unwatched == ~ watching => noted = {} /\ wpc = "idle"

IndexInv == Shape /\ Records /\ Moving /\ PlanHolds /\ Tracked /\ Unwatched

-----------------------------------------------------------------------------
(* The three kinds of event are apart. *)
LEMMA EventsApart ==
  /\ \A p, q : Changed(p) # MovedFrom(q)
  /\ \A p : Changed(p) # Config /\ MovedFrom(p) # Config
  /\ \A p, q : Changed(p) = Changed(q) => p = q
  /\ \A p, q : MovedFrom(p) = MovedFrom(q) => p = q
  BY DEF Changed, MovedFrom, Config

(* What apply_renames leaves of the manifest. *)
LEMMA RenamedEntry ==
  ASSUME Shape, NEW p \in Paths, NEW q \in Paths
  PROVE  RenameEntry(p, q) \in [Paths -> Entry]
  BY DEF RenameEntry, Shape, TypeOK, Entry

LEMMA ShapeInit == Init => Shape /\ Records /\ Moving /\ PlanHolds /\ Tracked /\ Unwatched
<1> SUFFICES ASSUME Init PROVE Shape /\ Records /\ Moving /\ PlanHolds /\ Tracked /\ Unwatched
  OBVIOUS
<1>1. Shape
  BY DEF Init, Shape, TypeOK, NoEntries, NoWork, Plans, Readings, Entry, Events
<1>2. Records
  BY SearchAssumption DEF Init, Records, TrueEntry, NoEntries, Ledger
<1>3. Moving /\ PlanHolds /\ Tracked /\ Unwatched
  BY DEF Init, Moving, PlanHolds, Tracked, Unwatched, NoWork, Scanned
<1> QED
  BY <1>1, <1>2, <1>3

(* The files in hand are as declared after every step. *)
LEMMA ShapeStep == Shape /\ [Next]_vars => Shape'
<1> SUFFICES ASSUME Shape, [Next]_vars PROVE Shape'
  OBVIOUS
<1> USE DEF Shape, TypeOK, Plans, Readings, Entry
<1>1. ASSUME NEW p \in Paths, NEW c \in Contents, Write(p, c) PROVE Shape'
  BY <1>1 DEF Write, Edit, Note, storeVars, indexerVars, Events
<1>2. ASSUME NEW p \in Paths, Delete(p) PROVE Shape'
  BY <1>2 DEF Delete, Edit, Note, storeVars, indexerVars, Events
<1>3. ASSUME NEW p \in Paths, NEW q \in Paths, Move(p, q) PROVE Shape'
  BY <1>3 DEF Move, Edit, Note, storeVars, indexerVars, Events
<1>4. ASSUME NEW s \in Scopes, Reconfigure(s) PROVE Shape'
  BY <1>4 DEF Reconfigure, Edit, Note, storeVars, indexerVars, Events
<1>5. CASE Flush
  BY <1>5 DEF Flush, worldVars, storeVars, indexerVars
<1>6. CASE HandleConfig
  BY <1>6 DEF HandleConfig, Resync, worldVars, storeVars
<1>7. CASE HandleLoad
  BY <1>7 DEF HandleLoad, worldVars, storeVars, indexerVars
<1>8. CASE HandleRename
  <2>1. PICK p \in Paths, q \in Paths :
          /\ RenameRows(p, q) /\ wcopy' = RenameEntry(p, q)
          /\ batch' = batch \ {MovedFrom(p), Changed(q)}
          /\ wpc' = IF wcopy' = manifest THEN "match" ELSE "save"
    BY <1>8 DEF HandleRename
  <2>2. rows' \in [Paths -> SUBSET Contents] /\ torn' \subseteq Paths
    BY <2>1 DEF RenameRows
  <2>3. wcopy' \in [Paths -> Entry] /\ wpc' \in {"match", "save"} /\ batch' \subseteq Events
    BY <2>1, RenamedEntry
  <2> QED
    BY <1>8, <2>2, <2>3 DEF HandleRename, worldVars, indexerVars
<1>9. CASE HandleRemove
  <2>1. rows' \in [Paths -> SUBSET Contents] /\ torn' \subseteq Paths /\ wcopy' \in [Paths -> Entry]
    BY <1>9 DEF HandleRemove, RemoveRows, RemoveEntries
  <2>2. batch' \subseteq Events
    BY <1>9 DEF HandleRemove, Updated, Events
  <2> QED
    BY <1>9, <2>1, <2>2 DEF HandleRemove, worldVars, indexerVars
<1>10. CASE HandleSave
  BY <1>10 DEF HandleSave, worldVars, indexerVars
<1>11. CASE HandleRequest
  BY <1>11 DEF HandleRequest, Updated, worldVars, storeVars
<1>12. CASE Reload
  BY <1>12 DEF Reload, Resync, worldVars, watcherVars, storeVars
<1>13. CASE PlanSync
  <2>1. PICK renames \in RenamePlans(manifest) :
          todo' = [NoWork EXCEPT !.renames = renames,
                                 !.removals = Removals(manifest, renames),
                                 !.index = ToIndex(manifest, renames), !.boot = TRUE]
    BY <1>13 DEF PlanSync
  <2>2. renames \subseteq Paths \X Paths
    BY DEF RenamePlans, RenamesOf
  <2>3. Removals(manifest, renames) \subseteq Paths /\ ToIndex(manifest, renames) \subseteq Paths
    BY DEF Removals, ToIndex
  <2>4. /\ todo'.renames = renames /\ todo'.removals = Removals(manifest, renames)
        /\ todo'.index = ToIndex(manifest, renames) /\ todo'.file = {}
        /\ todo' \in Plans
    BY <2>1, <2>2, <2>3 DEF NoWork
  <2> QED
    BY <1>13, <2>4 DEF PlanSync, worldVars, watcherVars, storeVars
<1>14. CASE PlanRename
  <2>1. PICK r \in todo.renames :
          /\ RenameRows(r[1], r[2]) /\ copy' = RenameEntry(r[1], r[2])
          /\ todo' = [todo EXCEPT !.renames = @ \ {r}]
    BY <1>14 DEF PlanRename
  <2>2. r[1] \in Paths /\ r[2] \in Paths
    BY <2>1
  <2>3. rows' \in [Paths -> SUBSET Contents] /\ torn' \subseteq Paths
    BY <2>1, <2>2 DEF RenameRows
  <2>4. copy' \in [Paths -> Entry] /\ pc' \in {"renames", "renamed"}
    BY <1>14, <2>1, <2>2, RenamedEntry DEF PlanRename
  <2>5. todo' \in Plans /\ todo'.file = todo.file
    BY <2>1
  <2> QED
    BY <1>14, <2>3, <2>4, <2>5 DEF PlanRename, worldVars, watcherVars
<1>15. CASE PlanRenamed
  BY <1>15 DEF PlanRenamed, worldVars, watcherVars
<1>16. CASE PlanRemove
  <2>1. /\ rows' \in [Paths -> SUBSET Contents] /\ torn' \subseteq Paths /\ copy' \in [Paths -> Entry]
        /\ todo' \in Plans /\ todo'.file = todo.file
    BY <1>16 DEF PlanRemove, RemoveRows, RemoveEntries
  <2> QED
    BY <1>16, <2>1 DEF PlanRemove, worldVars, watcherVars
<1>17. CASE PlanRequest
  BY <1>17 DEF PlanRequest, NoWork, worldVars, watcherVars, storeVars
<1>18. CASE BootDone
  BY <1>18 DEF BootDone, NoWork, worldVars, watcherVars, storeVars
<1>19. CASE Drain
  <2>1. PICK taken \in SUBSET queue :
          /\ queue' = queue \ taken
          /\ todo' = [todo EXCEPT !.index = {p \in taken : disk[p] # NoFile}]
          /\ pc' = IF todo'.index = {} THEN pc ELSE "batch"
    BY <1>19 DEF Drain
  <2>2. /\ todo' \in Plans /\ todo'.file = todo.file /\ todo'.renames = todo.renames
        /\ todo'.removals = todo.removals /\ queue' \subseteq Paths
    BY <2>1
  <2>3. pc \in {"boot", "loop"}
    BY <1>19 DEF Drain
  <2> QED
    BY <1>19, <2>1, <2>2, <2>3 DEF Drain, worldVars, watcherVars, storeVars
<1>20. CASE IndexRead
  <2>1. PICK p \in todo.index :
          disk[p] # NoFile /\ todo' = [todo EXCEPT !.file = {<<p, disk[p]>>}]
    BY <1>20 DEF IndexRead
  <2>2. <<p, disk[p]>> \in Paths \X Contents
    BY <2>1
  <2>3. todo' \in Plans /\ todo'.file = {<<p, disk[p]>>}
    BY <2>1, <2>2
  <2> QED
    BY <1>20, <2>1, <2>2, <2>3 DEF IndexRead, worldVars, watcherVars, storeVars
<1>21. CASE IndexVanished
  BY <1>21 DEF IndexVanished, NoWork, worldVars, watcherVars, storeVars
<1>22. CASE IndexUpsert
  BY <1>22 DEF IndexUpsert, Chunks, worldVars, watcherVars
<1>23. CASE IndexHash
  <2>1. PICK f \in todo.file :
          /\ copy' = [manifest EXCEPT ![f[1]] = EntryAfter(f[1])]
          /\ torn' = IF EntryAfter(f[1]) \in Contents \ {f[2]} THEN torn \cup {f[1]} ELSE torn
    BY <1>23 DEF IndexHash
  <2>2. f[1] \in Paths /\ EntryAfter(f[1]) \in Contents \cup {NoFile, NoHash}
    BY <2>1 DEF EntryAfter
  <2> QED
    BY <1>23, <2>1, <2>2 DEF IndexHash, worldVars, watcherVars
<1>24. CASE IndexSave
  BY <1>24 DEF IndexSave, worldVars, watcherVars
<1>25. CASE Die
  BY <1>25 DEF Die, NoWork, watcherVars, storeVars
<1>26. CASE Exit
  BY <1>26 DEF Exit, NoWork, storeVars
<1>27. CASE EnsureRunning
  BY <1>27 DEF EnsureRunning, worldVars, watcherVars, storeVars
<1>28. CASE WatchStart
  BY <1>28 DEF WatchStart, worldVars, storeVars, indexerVars
<1>29. CASE UNCHANGED vars
  BY <1>29 DEF vars, worldVars, watcherVars, storeVars, indexerVars
<1> QED
  BY <1>1, <1>2, <1>3, <1>4, <1>5, <1>6, <1>7, <1>8, <1>9, <1>10, <1>11, <1>12, <1>13,
     <1>14, <1>15, <1>16, <1>17, <1>18, <1>19, <1>20, <1>21, <1>22, <1>23, <1>24, <1>25,
     <1>26, <1>27, <1>28, <1>29
     DEF Next, User, Watcher, Indexer, LoopReload, StatusReload

-----------------------------------------------------------------------------
(* The steps. *)
Rest == Records /\ Moving /\ PlanHolds /\ Tracked /\ Unwatched

(* While the indexer works, no move is being handled. *)
LEMMA BusyIsFree ==
  ASSUME IndexInv, ~ Calm
  PROVE  wpc # "save" /\ \A p \in Paths : MovedFrom(p) \notin noted \cup batch
  BY DEF IndexInv, Moving

(* Edits that are no moves: the file is written or removed and the observer, *)
(* if it runs, is told.                                                     *)
LEMMA EditStep ==
  ASSUME IndexInv, Patient, Edit, NEW p \in Paths, NEW c,
         disk' = [disk EXCEPT ![p] = c], Note({Changed(p)}), UNCHANGED wanted
  PROVE  Rest'
<1>1. /\ UNCHANGED <<rows, manifest, torn, copy, wcopy, wseen, todo, pc, wpc, queue, asked>>
      /\ UNCHANGED <<scope, synced, watching, batch, wanted>>
      /\ ~ Settling /\ (watching \/ pc = "off")
  BY DEF Edit, storeVars, indexerVars
<1>2. /\ \A q \in Paths : q # p => disk'[q] = disk[q]
      /\ noted' = IF watching THEN noted \cup {Changed(p)} ELSE noted
  BY DEF IndexInv, Shape, TypeOK, Note
<1>3. Records'
  BY <1>1 DEF IndexInv, Records, TrueEntry, InHand, Ledger
<1>4. Moving'
  <2>1. \A x \in Paths : MovedFrom(x) \notin noted' \cup batch'
    BY <1>1, <1>2, EventsApart DEF Settling, IndexInv, Shape, TypeOK
  <2>2. wpc' # "save"
    BY <1>1 DEF Settling
  <2> QED
    BY <2>1, <2>2 DEF Moving
<1>5. /\ \A q : Told(q) => Told(q)'
      /\ watching => Told(p)'
  BY <1>1, <1>2 DEF Told
<1>6. Scanned' = Scanned /\ Ledger' = Ledger /\ (Scanned => watching)
  BY <1>1 DEF Scanned, Ledger
<1>7. PlanHolds'
  <2>1. todo \in Plans
    BY DEF IndexInv, Shape
  <2>2. ASSUME Scanned, NEW q \in Paths, NEW x, disk[q] = x \/ Told(q)
        PROVE  (disk[q])' = x \/ Told(q)'
    BY <1>2, <1>5, <1>6, <2>2
  <2>3. ASSUME NEW f \in todo.file PROVE f[1] \in Paths
    BY <2>1 DEF Plans, Readings
  <2>4. ASSUME NEW r \in todo.renames PROVE r[1] \in Paths /\ r[2] \in Paths
    BY <2>1 DEF Plans
  <2>5. todo.removals \subseteq Paths
    BY <2>1 DEF Plans
  <2> QED
    BY <1>1, <1>6, <2>2, <2>3, <2>4, <2>5 DEF IndexInv, PlanHolds
<1>8. Tracked'
  <2> SUFFICES ASSUME Scanned', NEW q \in scope \ torn, disk'[q] # NoFile
               PROVE  rows[q] = {disk'[q]} \/ Pending(q)'
    BY <1>1 DEF Tracked
  <2>1. CASE q = p
    BY <1>5, <1>6, <2>1 DEF Pending
  <2>2. CASE q # p
    <3>1. q \in Paths
      BY SearchAssumption DEF IndexInv, Shape, TypeOK
    <3>2. disk'[q] = disk[q]
      BY <1>2, <2>2, <3>1
    <3>3. rows[q] = {disk[q]} \/ Pending(q)
      BY <1>6, <3>2 DEF IndexInv, Tracked
    <3> QED
      BY <1>1, <1>5, <3>2, <3>3 DEF Pending, InHand
  <2> QED
    BY <2>1, <2>2
<1>9. Unwatched'
  BY <1>1, <1>2 DEF IndexInv, Unwatched
<1> QED
  BY <1>3, <1>4, <1>7, <1>8, <1>9 DEF Rest

LEMMA ReconfigureStep ==
  ASSUME IndexInv, Patient, NEW s \in Scopes, Reconfigure(s)
  PROVE  Rest'
<1>1. /\ UNCHANGED <<rows, manifest, torn, copy, wcopy, wseen, todo, pc, wpc, queue, asked>>
      /\ UNCHANGED <<scope, synced, watching, batch, disk>>
      /\ ~ Settling
      /\ noted' = IF watching THEN noted \cup {Config} ELSE noted
  BY DEF Reconfigure, Edit, storeVars, indexerVars, Note
<1>2. Records'
  BY <1>1 DEF IndexInv, Records, TrueEntry, InHand, Ledger
<1>3. Moving'
  <2>1. \A x \in Paths : MovedFrom(x) \notin noted' \cup batch'
    BY <1>1, EventsApart DEF Settling, IndexInv, Shape, TypeOK
  <2>2. wpc' # "save"
    BY <1>1 DEF Settling
  <2> QED
    BY <2>1, <2>2 DEF Moving
<1>4. \A q : Told(q) => Told(q)'
  BY <1>1 DEF Told
<1>5. Scanned' = Scanned /\ Ledger' = Ledger
  BY <1>1 DEF Scanned, Ledger
<1>6. PlanHolds'
  BY <1>1, <1>4, <1>5 DEF IndexInv, PlanHolds
<1>7. Tracked'
  BY <1>1, <1>4, <1>5 DEF IndexInv, Tracked, Pending, InHand
<1>8. Unwatched'
  BY <1>1 DEF IndexInv, Unwatched
<1> QED
  BY <1>2, <1>3, <1>6, <1>7, <1>8 DEF Rest

(* A move begins when everything rests. *)
LEMMA MoveStep ==
  ASSUME IndexInv, Patient, NEW p \in Paths, NEW q \in Paths, Move(p, q)
  PROVE  Rest'
<1>1. /\ UNCHANGED <<rows, manifest, torn, copy, wcopy, wseen, todo, pc, wpc, queue, asked>>
      /\ UNCHANGED <<scope, synced, watching, batch, wanted>>
      /\ Quiet /\ rows[q] = {} /\ p # q
      /\ disk' = [disk EXCEPT ![p] = NoFile, ![q] = disk[p]]
      /\ noted' = {MovedFrom(p), Changed(q)}
  BY DEF Move, Edit, storeVars, indexerVars, Note, Quiet
<1>2. batch = {} /\ todo.renames = {} /\ todo.removals = {} /\ todo.file = {} /\ todo.index = {}
  BY <1>1 DEF IndexInv, Shape, TypeOK, Quiet
<1>3. disk'[p] = NoFile /\ \A x \in Paths : x # p /\ x # q => disk'[x] = disk[x]
  BY <1>1 DEF IndexInv, Shape, TypeOK
<1>4. Records'
  BY <1>1 DEF IndexInv, Records, TrueEntry, InHand, Ledger
<1>5. Moving'
  <2>1. MoveOf(p, q)'
    BY <1>1, <1>3 DEF MoveOf, Quiet
  <2>2. Calm' /\ wpc' # "save"
    BY <1>1 DEF Calm, Quiet
  <2> QED
    BY <2>1, <2>2 DEF Moving
<1>6. PlanHolds'
  BY <1>1, <1>2 DEF PlanHolds
<1>7. Tracked'
  <2> SUFFICES ASSUME Scanned', NEW x \in scope \ torn, disk'[x] # NoFile
               PROVE  rows[x] = {disk'[x]} \/ Pending(x)'
    BY <1>1 DEF Tracked
  <2>1. CASE x = q
    BY <1>1, <2>1 DEF Pending, Told
  <2>2. CASE x # q
    <3>1. x \in Paths /\ Scanned
      BY <1>1, SearchAssumption DEF IndexInv, Shape, TypeOK, Scanned
    <3>2. disk'[x] = disk[x]
      BY <1>3, <2>2, <3>1
    <3>3. ~ Pending(x)
      BY <1>1, <1>2 DEF Pending, Told, Quiet
    <3> QED
      BY <3>1, <3>2, <3>3 DEF IndexInv, Tracked
  <2> QED
    BY <2>1, <2>2
<1>8. Unwatched'
  BY <1>1 DEF Unwatched, Quiet
<1> QED
  BY <1>4, <1>5, <1>6, <1>7, <1>8 DEF Rest

(* While a move is handled, it is the only one, and its two events are in  *)
(* the batch or not yet flushed.                                           *)
LEMMA MoveInHand ==
  ASSUME IndexInv, NEW x \in Paths, MovedFrom(x) \in noted \cup batch
  PROVE  /\ Calm /\ wpc # "save"
         /\ \E q \in Paths : MoveOf(x, q)
<1>1. PICK p \in Paths, q \in Paths : MoveOf(p, q) /\ Calm
  BY DEF IndexInv, Moving
<1>2. noted \cup batch = {MovedFrom(p), Changed(q)}
  BY <1>1 DEF MoveOf, IndexInv, Shape, TypeOK
<1>3. x = p
  BY <1>2, EventsApart
<1>4. wpc # "save"
  BY <1>1 DEF MoveOf
<1> QED
  BY <1>1, <1>3, <1>4

LEMMA FlushStep == ASSUME IndexInv, Flush PROVE Rest'
<1>1. /\ UNCHANGED <<rows, manifest, torn, copy, wcopy, wseen, todo, pc, queue, asked, disk>>
      /\ UNCHANGED <<scope, synced, watching, wanted>>
      /\ watching /\ wpc = "idle" /\ batch = {} /\ batch' = noted /\ noted' = {}
      /\ wpc' = IF Config \in noted THEN "config" ELSE "load"
  BY DEF Flush, worldVars, storeVars, indexerVars, IndexInv, Shape, TypeOK
<1>2. Ledger' = Ledger /\ Scanned' = Scanned /\ \A q : Told(q)' = Told(q)
  BY <1>1 DEF Ledger, Scanned, Told
<1>3. Records'
  BY <1>1, <1>2 DEF IndexInv, Records, TrueEntry, InHand
<1>4. Moving'
  <2> SUFFICES ASSUME NEW x \in Paths, MovedFrom(x) \in noted
               PROVE  Calm' /\ \E p, q \in Paths : MoveOf(p, q)'
    BY <1>1 DEF Moving
  <2>1. PICK q \in Paths : MoveOf(x, q) /\ Calm
    BY MoveInHand
  <2>2. noted = {MovedFrom(x), Changed(q)}
    BY <1>1, <2>1 DEF MoveOf
  <2>3. wpc' = "load"
    BY <1>1, <2>2, EventsApart
  <2>4. MoveOf(x, q)'
    BY <1>1, <2>1, <2>2, <2>3 DEF MoveOf
  <2> QED
    BY <1>1, <2>1, <2>4 DEF Calm
<1>5. PlanHolds'
  BY <1>1, <1>2 DEF IndexInv, PlanHolds
<1>6. Tracked'
  BY <1>1, <1>2 DEF IndexInv, Tracked, Pending, InHand
<1>7. Unwatched'
  BY <1>1 DEF Unwatched
<1> QED
  BY <1>3, <1>4, <1>5, <1>6, <1>7 DEF Rest

LEMMA ConfigStep == ASSUME IndexInv, HandleConfig PROVE Rest'
<1>1. /\ UNCHANGED <<rows, manifest, torn, copy, wcopy, wseen, todo, pc, disk, noted, watching, wanted>>
      /\ wpc = "config" /\ wpc' = "idle" /\ batch' = {} /\ asked'
  BY DEF HandleConfig, Resync, worldVars, storeVars
<1>2. Ledger' = Ledger /\ ~ Scanned'
  BY <1>1 DEF Ledger, Scanned
<1>3. Records'
  BY <1>1, <1>2 DEF IndexInv, Records, TrueEntry, InHand
<1>4. Moving'
  <2>1. ASSUME NEW x \in Paths, MovedFrom(x) \in noted PROVE FALSE
    <3>1. PICK q \in Paths : MoveOf(x, q)
      BY <2>1, MoveInHand
    <3> QED
      BY <1>1, <3>1 DEF MoveOf
  <2> QED
    BY <1>1, <2>1 DEF Moving
<1>5. PlanHolds'
  BY <1>1, <1>2 DEF IndexInv, PlanHolds
<1>6. Tracked'
  BY <1>2 DEF Tracked
<1>7. Unwatched'
  BY <1>1 DEF IndexInv, Unwatched
<1> QED
  BY <1>3, <1>4, <1>5, <1>6, <1>7 DEF Rest

LEMMA LoadStep == ASSUME IndexInv, HandleLoad PROVE Rest'
<1>1. /\ UNCHANGED <<rows, manifest, torn, copy, wcopy, todo, pc, queue, asked, disk>>
      /\ UNCHANGED <<scope, synced, watching, wanted, noted, batch>>
      /\ wpc = "load" /\ wpc' = "match" /\ wseen' = manifest
  BY DEF HandleLoad, worldVars, storeVars, indexerVars
<1>2. Ledger' = Ledger /\ Scanned' = Scanned /\ \A q : Told(q)' = Told(q)
  BY <1>1 DEF Ledger, Scanned, Told
<1>3. Records'
  BY <1>1, <1>2 DEF IndexInv, Records, TrueEntry, InHand
<1>4. Moving'
  <2> SUFFICES ASSUME NEW x \in Paths, MovedFrom(x) \in noted \cup batch
               PROVE  Calm' /\ \E p, q \in Paths : MoveOf(p, q)'
    BY <1>1 DEF Moving
  <2>1. PICK q \in Paths : MoveOf(x, q) /\ Calm
    BY MoveInHand
  <2>2. MoveOf(x, q)'
    BY <1>1, <2>1 DEF MoveOf
  <2> QED
    BY <1>1, <2>1, <2>2 DEF Calm
<1>5. PlanHolds'
  BY <1>1, <1>2 DEF IndexInv, PlanHolds
<1>6. Tracked'
  BY <1>1, <1>2 DEF IndexInv, Tracked, Pending, InHand
<1>7. Unwatched'
  BY <1>1 DEF IndexInv, Unwatched
<1> QED
  BY <1>3, <1>4, <1>5, <1>6, <1>7 DEF Rest

(* A rename takes the rows and the entry to a path that has neither. *)
LEMMA RenameKeeps ==
  ASSUME Shape, NEW p \in Paths, NEW q \in Paths, p # q,
         manifest[p] \in Contents, rows[q] = {}, q \notin torn,
         p \in torn => rows[p] # {},
         p \notin torn => rows[p] = {manifest[p]},
         RenameRows(p, q)
  PROVE  /\ RenameEntry(p, q) = [manifest EXCEPT ![p] = NoFile, ![q] = manifest[p]]
         /\ rows' \in [Paths -> SUBSET Contents] /\ rows'[p] = {} /\ rows'[q] = rows[p]
         /\ \A x \in Paths : x # p /\ x # q => rows'[x] = rows[x]
         /\ \A x \in Paths : x # p /\ x # q => (x \in torn' <=> x \in torn)
         /\ p \notin torn' /\ (q \in torn' <=> p \in torn)
<1>1. rows[p] # {} /\ manifest[p] \notin {NoFile, NoHash}
  BY SearchAssumption
<1> QED
  BY <1>1 DEF RenameRows, RenameEntry, Shape, TypeOK

LEMMA HandleRenameStep == ASSUME IndexInv, HandleRename PROVE Rest'
<1>1. /\ UNCHANGED <<manifest, copy, wseen, todo, pc, queue, asked, disk>>
      /\ UNCHANGED <<scope, synced, watching, wanted, noted>>
      /\ wpc = "match"
  BY DEF HandleRename, worldVars, indexerVars
<1>2. PICK p \in Paths, q \in Paths :
        /\ Renamed(p, q) /\ RenameRows(p, q) /\ wcopy' = RenameEntry(p, q)
        /\ batch' = batch \ {MovedFrom(p), Changed(q)}
        /\ wpc' = IF wcopy' = manifest THEN "match" ELSE "save"
  BY DEF HandleRename
<1>3. Calm /\ \E y \in Paths : MoveOf(p, y)
  BY <1>2, MoveInHand DEF Renamed, Gone
<1>4. noted = {} /\ batch = {MovedFrom(p), Changed(q)} /\ p # q /\ disk[p] = NoFile /\ rows[q] = {}
      /\ wseen = manifest
  <2>1. PICK y \in Paths : MoveOf(p, y)
    BY <1>3
  <2>2. noted = {} /\ batch = {MovedFrom(p), Changed(y)}
    BY <1>1, <2>1 DEF MoveOf
  <2>3. y = q
    BY <1>2, <2>2, EventsApart DEF Renamed, Updated
  <2> QED
    BY <1>1, <2>1, <2>2, <2>3 DEF MoveOf
<1>5. batch' = {}
  BY <1>2, <1>4
<1>6. Ledger = manifest /\ manifest[p] = disk[q] /\ manifest[p] \in Contents
  BY <1>1, <1>2, <1>3, <1>4 DEF Ledger, Calm, Renamed, IndexInv, Shape, TypeOK
<1>7. q \notin torn /\ (p \in torn => rows[p] # {}) /\ (p \notin torn => rows[p] = {manifest[p]})
  BY <1>3, <1>4, <1>6 DEF IndexInv, Records, TrueEntry, Calm
<1>8. /\ wcopy' = [manifest EXCEPT ![p] = NoFile, ![q] = manifest[p]]
      /\ rows'[p] = {} /\ rows'[q] = rows[p]
      /\ \A x \in Paths : x # p /\ x # q => rows'[x] = rows[x]
      /\ \A x \in Paths : x # p /\ x # q => (x \in torn' <=> x \in torn)
      /\ p \notin torn' /\ (q \in torn' <=> p \in torn)
  BY <1>2, <1>4, <1>6, <1>7, RenameKeeps DEF IndexInv
<1>9. Ledger' = wcopy'
  BY <1>1, <1>2, <1>3 DEF Ledger, Calm
<1>10. /\ Ledger'[p] = NoFile /\ Ledger'[q] = manifest[p]
       /\ \A x \in Paths : x # p /\ x # q => Ledger'[x] = Ledger[x]
  BY <1>4, <1>6, <1>8, <1>9 DEF IndexInv, Shape, TypeOK
<1>11. Records'
  <2>1. ASSUME NEW x \in Paths PROVE TrueEntry(x)'
    <3>1. TrueEntry(x) /\ pc = "loop" /\ pc' = "loop"
      BY <1>1, <1>3 DEF IndexInv, Records, Calm
    <3>2. CASE x = p
      BY <1>4, <1>8, <1>10, <3>1, <3>2, SearchAssumption DEF TrueEntry
    <3>3. CASE x = q
      BY <1>4, <1>6, <1>7, <1>8, <1>10, <3>1, <3>3, SearchAssumption DEF TrueEntry
    <3>4. CASE x # p /\ x # q
      BY <1>1, <1>8, <1>10, <3>1, <3>4 DEF TrueEntry, InHand
    <3> QED
      BY <3>2, <3>3, <3>4
  <2> QED
    BY <1>1, <1>3, <2>1 DEF Records, Calm
<1>12. Moving'
  BY <1>1, <1>3, <1>4, <1>5 DEF Moving, Calm
<1>13. PlanHolds'
  BY <1>1, <1>3 DEF PlanHolds, Calm, IndexInv, Shape, TypeOK
<1>14. Tracked'
  <2> SUFFICES ASSUME Scanned', NEW x \in scope \ torn', disk[x] # NoFile
               PROVE  rows'[x] = {disk[x]} \/ Pending(x)'
    BY <1>1 DEF Tracked
  <2>1. x # p /\ x \in Paths
    BY <1>4, SearchAssumption DEF IndexInv, Shape, TypeOK
  <2>2. CASE x = q
    BY <1>6, <1>7, <1>8, <2>2
  <2>3. CASE x # q
    <3>1. rows[x] = {disk[x]} \/ Pending(x)
      BY <1>1, <1>8, <2>1, <2>3 DEF IndexInv, Tracked, Scanned
    <3>2. ~ Pending(x)
      BY <1>3, <1>4, <2>1, <2>3, EventsApart DEF Pending, Told, Calm, IndexInv, Shape
    <3> QED
      BY <1>8, <2>1, <2>3, <3>1, <3>2
  <2> QED
    BY <2>2, <2>3
<1>15. Unwatched'
  BY <1>1, <1>3 DEF Unwatched, Calm
<1> QED
  BY <1>11, <1>12, <1>13, <1>14, <1>15 DEF Rest

(* Otherwise the rows of the moved file go, and its new name is a change. *)
LEMMA HandleRemoveStep == ASSUME IndexInv, HandleRemove PROVE Rest'
<1>1. /\ UNCHANGED <<manifest, copy, wseen, todo, pc, queue, asked, disk>>
      /\ UNCHANGED <<scope, synced, watching, wanted, noted>>
      /\ wpc = "match" /\ wpc' = "save" /\ Gone # {}
      /\ RemoveRows(Gone) /\ wcopy' = RemoveEntries(Gone)
      /\ batch' = {Changed(x) : x \in Updated}
  BY DEF HandleRemove, worldVars, indexerVars
<1>2. PICK p \in Paths : MovedFrom(p) \in batch
  BY <1>1 DEF Gone
<1>3. PICK q \in Paths : Calm /\ MoveOf(p, q)
  BY <1>2, MoveInHand
<1>4. noted = {} /\ batch = {MovedFrom(p), Changed(q)} /\ disk[p] = NoFile
  BY <1>1, <1>3 DEF MoveOf
<1>5. Gone = {p} /\ batch' = {Changed(q)}
  BY <1>1, <1>4, EventsApart DEF Gone, Updated
<1>6. /\ rows'[p] = {} /\ torn' = torn \ {p}
      /\ \A x \in Paths : x # p => rows'[x] = rows[x]
  BY <1>1, <1>5 DEF RemoveRows
<1>7. /\ Ledger = manifest /\ Ledger' = wcopy'
      /\ wcopy'[p] = NoFile /\ \A x \in Paths : x # p => wcopy'[x] = manifest[x]
  BY <1>1, <1>3, <1>5 DEF Ledger, Calm, RemoveEntries
<1>8. Records'
  <2>1. ASSUME NEW x \in Paths PROVE TrueEntry(x)'
    <3>1. TrueEntry(x) /\ pc = "loop" /\ pc' = "loop"
      BY <1>1, <1>3 DEF IndexInv, Records, Calm
    <3>2. CASE x = p
      BY <1>6, <1>7, <3>1, <3>2, SearchAssumption DEF TrueEntry
    <3>3. CASE x # p
      BY <1>1, <1>6, <1>7, <3>1, <3>3 DEF TrueEntry, InHand
    <3> QED
      BY <3>2, <3>3
  <2> QED
    BY <1>1, <1>3, <2>1 DEF Records, Calm
<1>9. Moving'
  BY <1>1, <1>3, <1>4, <1>5, EventsApart DEF Moving, Calm
<1>10. PlanHolds'
  BY <1>1, <1>3 DEF PlanHolds, Calm, IndexInv, Shape, TypeOK
<1>11. Tracked'
  <2> SUFFICES ASSUME Scanned', NEW x \in scope \ torn', disk[x] # NoFile
               PROVE  rows'[x] = {disk[x]} \/ Pending(x)'
    BY <1>1 DEF Tracked
  <2>1. x # p /\ x \in Paths
    BY <1>4, SearchAssumption DEF IndexInv, Shape, TypeOK
  <2>2. CASE x = q
    BY <1>5, <2>2 DEF Pending, Told
  <2>3. CASE x # q
    <3>1. rows[x] = {disk[x]} \/ Pending(x)
      BY <1>1, <1>6, <2>1 DEF IndexInv, Tracked, Scanned
    <3>2. ~ Pending(x)
      BY <1>3, <1>4, <2>1, <2>3, EventsApart DEF Pending, Told, Calm, IndexInv, Shape
    <3> QED
      BY <1>6, <2>1, <3>1, <3>2
  <2> QED
    BY <2>2, <2>3
<1>12. Unwatched'
  BY <1>1, <1>3 DEF Unwatched, Calm
<1> QED
  BY <1>8, <1>9, <1>10, <1>11, <1>12 DEF Rest

LEMMA HandleSaveStep == ASSUME IndexInv, HandleSave PROVE Rest'
<1>1. /\ UNCHANGED <<rows, torn, copy, wcopy, wseen, todo, pc, queue, asked, disk>>
      /\ UNCHANGED <<scope, synced, watching, wanted, noted, batch>>
      /\ wpc = "save" /\ wpc' = "match" /\ manifest' = wcopy
  BY DEF HandleSave, worldVars, indexerVars
<1>2. Calm /\ noted = {} /\ \A p \in Paths : MovedFrom(p) \notin batch
  BY <1>1 DEF IndexInv, Moving
<1>3. Ledger' = Ledger /\ Scanned' = Scanned /\ \A q : Told(q)' = Told(q)
  BY <1>1, <1>2 DEF Ledger, Calm, Scanned, Told
<1>4. Records'
  BY <1>1, <1>3 DEF IndexInv, Records, TrueEntry, InHand
<1>5. Moving'
  BY <1>1, <1>2 DEF Moving
<1>6. PlanHolds'
  BY <1>1, <1>3 DEF IndexInv, PlanHolds
<1>7. Tracked'
  BY <1>1, <1>3 DEF IndexInv, Tracked, Pending, InHand
<1>8. Unwatched'
  BY <1>1, <1>2 DEF Unwatched, Calm
<1> QED
  BY <1>4, <1>5, <1>6, <1>7, <1>8 DEF Rest

LEMMA RequestStep == ASSUME IndexInv, HandleRequest PROVE Rest'
<1>1. /\ UNCHANGED <<rows, manifest, torn, copy, wcopy, wseen, todo, pc, asked, disk>>
      /\ UNCHANGED <<scope, synced, watching, wanted, noted>>
      /\ wpc = "match" /\ wpc' = "idle" /\ Gone = {} /\ batch' = {}
      /\ queue' = queue \cup Updated
  BY DEF HandleRequest, worldVars, storeVars
<1>2. /\ Ledger' = Ledger /\ Scanned' = Scanned
      /\ \A q \in Paths : Told(q) => Told(q)'
  BY <1>1 DEF Ledger, Scanned, Told, Updated
<1>3. Records'
  BY <1>1, <1>2 DEF IndexInv, Records, TrueEntry, InHand
<1>4. Moving'
  <2>1. ASSUME NEW x \in Paths, MovedFrom(x) \in noted PROVE FALSE
    <3>1. PICK q \in Paths : MoveOf(x, q)
      BY <2>1, MoveInHand
    <3> QED
      BY <1>1, <2>1, <3>1 DEF MoveOf
  <2> QED
    BY <1>1, <2>1 DEF Moving
<1>5. PlanHolds'
  <2>1. todo \in Plans
    BY DEF IndexInv, Shape
  <2>2. \A f \in todo.file : f[1] \in Paths
    BY <2>1 DEF Plans, Readings
  <2>3. \A r \in todo.renames : r[1] \in Paths /\ r[2] \in Paths
    BY <2>1 DEF Plans
  <2>4. todo.removals \subseteq Paths
    BY <2>1 DEF Plans
  <2> QED
    BY <1>1, <1>2, <2>2, <2>3, <2>4 DEF IndexInv, PlanHolds
<1>6. Tracked'
  <2>1. scope \subseteq Paths
    BY SearchAssumption DEF IndexInv, Shape, TypeOK
  <2> QED
    BY <1>1, <1>2, <2>1 DEF IndexInv, Tracked, Pending, InHand
<1>7. Unwatched'
  BY <1>1 DEF IndexInv, Unwatched
<1> QED
  BY <1>3, <1>4, <1>5, <1>6, <1>7 DEF Rest

(* A changed search.json is noticed: a rescan is asked for. *)
LEMMA ReloadStep == ASSUME IndexInv, Reload PROVE Rest'
<1>1. /\ UNCHANGED <<rows, manifest, torn, copy, wcopy, wseen, todo, pc, disk, noted, watching>>
      /\ UNCHANGED <<wanted, batch, wpc>>
      /\ asked' /\ scope # wanted
  BY DEF Reload, Resync, worldVars, watcherVars, storeVars
<1>2. Ledger' = Ledger /\ ~ Scanned' /\ ~ Calm
  BY <1>1 DEF Ledger, Scanned, Calm
<1>3. Records'
  BY <1>1, <1>2 DEF IndexInv, Records, TrueEntry, InHand
<1>4. Moving'
  BY <1>1, <1>2, BusyIsFree DEF Moving
<1>5. PlanHolds'
  BY <1>1, <1>2 DEF IndexInv, PlanHolds
<1>6. Tracked'
  BY <1>2 DEF Tracked
<1>7. Unwatched'
  BY <1>1 DEF IndexInv, Unwatched
<1> QED
  BY <1>3, <1>4, <1>5, <1>6, <1>7 DEF Rest

(* What a plan of renames looks like. *)
LEMMA PlanOfRenames ==
  ASSUME NEW renames \in RenamePlans(manifest), NEW r \in renames
  PROVE  /\ r \in Paths \X Paths /\ r[1] # r[2]
         /\ manifest[r[1]] # NoFile /\ ~ InScope(r[1])
         /\ manifest[r[2]] = NoFile /\ InScope(r[2]) /\ manifest[r[1]] = disk[r[2]]
         /\ \A s \in renames : r[1] = s[1] \/ r[2] = s[2] => r = s
<1> DEFINE missing == {p \in Paths : manifest[p] # NoFile /\ ~ InScope(p)}
           added == {p \in Paths : manifest[p] = NoFile /\ InScope(p)}
<1>1. RenamesOf(manifest) =
        {x \in missing \X added : {p \in missing : manifest[p] = disk[x[2]]} = {x[1]}}
  BY DEF RenamesOf
<1>2. renames \subseteq RenamesOf(manifest)
  BY DEF RenamePlans
<1>3. \A x \in renames :
        x \in missing \X added /\ {p \in missing : manifest[p] = disk[x[2]]} = {x[1]}
  BY <1>1, <1>2
<1>4. r[1] \in missing /\ r[2] \in added /\ r \in Paths \X Paths
  BY <1>3
<1>5. manifest[r[1]] = disk[r[2]]
  BY <1>3
<1>6. ASSUME NEW s \in renames, r[2] = s[2] PROVE r = s
  <2>1. {r[1]} = {s[1]}
    BY <1>3, <1>6
  <2>2. r = <<r[1], r[2]>> /\ s = <<s[1], s[2]>>
    BY <1>3
  <2> QED
    BY <1>6, <2>1, <2>2
<1>7. ASSUME NEW s \in renames, r[1] = s[1] PROVE r = s
  <2>1. PICK u \in renames : {t \in renames : t[1] = r[1]} = {u}
    BY <1>2 DEF RenamePlans
  <2>2. r \in {t \in renames : t[1] = r[1]} /\ s \in {t \in renames : t[1] = r[1]}
    BY <1>7
  <2> QED
    BY <2>1, <2>2
<1> QED
  BY <1>4, <1>5, <1>6, <1>7

LEMMA PlanSyncStep == ASSUME IndexInv, PlanSync PROVE Rest'
<1>1. /\ UNCHANGED <<rows, manifest, torn, copy, wcopy, wseen, queue, disk, noted, watching>>
      /\ UNCHANGED <<wanted, batch, wpc, scope, synced>>
      /\ pc = "loop" /\ ~ synced /\ pc' = "renames" /\ ~ asked'
  BY DEF PlanSync, worldVars, watcherVars, storeVars
<1>2. PICK renames \in RenamePlans(manifest) :
        todo' = [NoWork EXCEPT !.renames = renames, !.removals = Removals(manifest, renames),
                               !.index = ToIndex(manifest, renames), !.boot = TRUE]
  BY DEF PlanSync
<1>3. /\ todo'.renames = renames /\ todo'.removals = Removals(manifest, renames)
      /\ todo'.index = ToIndex(manifest, renames) /\ todo'.file = {}
  BY <1>2 DEF NoWork
<1>4. ~ Calm /\ wpc # "save"
  BY <1>1, BusyIsFree DEF Calm
<1>5. Ledger = manifest /\ Ledger' = manifest
  BY <1>1, <1>4 DEF Ledger
<1>6. Records'
  BY <1>1, <1>5 DEF IndexInv, Records, TrueEntry
<1>7. Moving'
  BY <1>1, <1>4, BusyIsFree DEF Moving
<1>8. PlanHolds'
  <2>1. ASSUME NEW r \in renames
        PROVE  /\ manifest[r[1]] \in Contents /\ manifest[r[2]] = NoFile /\ r[1] # r[2]
               /\ \A s \in renames : r[1] = s[1] \/ r[2] = s[2] => r = s
               /\ disk[r[2]] = manifest[r[1]]
               /\ r[1] \in scope => disk[r[1]] = NoFile
    <3>1. /\ r \in Paths \X Paths /\ r[1] # r[2]
          /\ manifest[r[1]] # NoFile /\ ~ InScope(r[1])
          /\ manifest[r[2]] = NoFile /\ InScope(r[2]) /\ manifest[r[1]] = disk[r[2]]
          /\ \A s \in renames : r[1] = s[1] \/ r[2] = s[2] => r = s
      BY PlanOfRenames
    <3>2. disk[r[2]] \in Contents
      BY <3>1 DEF IndexInv, Shape, TypeOK, InScope
    <3> QED
      BY <3>1, <3>2 DEF InScope
  <2>2. ASSUME NEW x \in Removals(manifest, renames), x \in scope PROVE disk[x] = NoFile
    BY <2>2 DEF Removals, InScope
  <2> QED
    BY <1>1, <1>3, <1>5, <2>1, <2>2 DEF PlanHolds
<1>9. Tracked'
  <2> SUFFICES ASSUME NEW x \in scope \ torn, disk[x] # NoFile
               PROVE  rows[x] = {disk[x]} \/ Pending(x)'
    BY <1>1 DEF Tracked
  <2>1. x \in Paths /\ InScope(x) /\ disk[x] \in Contents
    BY SearchAssumption DEF InScope, IndexInv, Shape, TypeOK
  <2>2. CASE manifest[x] = disk[x]
    BY <1>1, <1>5, <2>1, <2>2 DEF IndexInv, Records, TrueEntry
  <2>3. CASE \E r \in renames : r[2] = x
    BY <1>3, <2>3 DEF Pending
  <2>4. CASE manifest[x] # disk[x] /\ \A r \in renames : r[2] # x
    <3>1. x \in ToIndex(manifest, renames)
      BY <2>1, <2>4 DEF ToIndex
    <3> QED
      BY <1>3, <3>1 DEF Pending, InHand
  <2> QED
    BY <2>2, <2>3, <2>4
<1>10. Unwatched'
  BY <1>1 DEF IndexInv, Unwatched
<1> QED
  BY <1>6, <1>7, <1>8, <1>9, <1>10 DEF Rest

LEMMA PlanRenameStep == ASSUME IndexInv, PlanRename PROVE Rest'
<1>1. /\ UNCHANGED <<manifest, wcopy, wseen, queue, disk, noted, watching, asked>>
      /\ UNCHANGED <<wanted, batch, wpc, scope, synced>>
      /\ pc = "renames"
  BY DEF PlanRename, worldVars, watcherVars
<1>2. PICK r \in todo.renames :
        /\ RenameRows(r[1], r[2]) /\ copy' = RenameEntry(r[1], r[2])
        /\ todo' = [todo EXCEPT !.renames = @ \ {r}]
        /\ pc' = IF copy' = manifest THEN "renames" ELSE "renamed"
  BY DEF PlanRename
<1> DEFINE p == r[1]
           q == r[2]
<1>3. todo \in Plans /\ p \in Paths /\ q \in Paths
  BY DEF IndexInv, Shape, Plans
<1>4. /\ todo'.renames = todo.renames \ {r} /\ todo'.removals = todo.removals
      /\ todo'.index = todo.index /\ todo'.file = todo.file /\ todo.file = {}
  BY <1>1, <1>2, <1>3 DEF Plans, IndexInv, Shape, TypeOK
<1>5. ~ Calm /\ wpc # "save" /\ Ledger = manifest
  BY <1>1, BusyIsFree DEF Calm, Ledger
<1>6. /\ manifest[p] \in Contents /\ manifest[q] = NoFile /\ p # q
      /\ \A s \in todo.renames : p = s[1] \/ q = s[2] => r = s
  BY <1>5 DEF IndexInv, PlanHolds
<1>7. /\ rows[q] = {} /\ q \notin torn
      /\ (p \in torn => rows[p] # {}) /\ (p \notin torn => rows[p] = {manifest[p]})
  BY <1>1, <1>3, <1>5, <1>6 DEF IndexInv, Records, TrueEntry
<1>8. /\ copy' = [manifest EXCEPT ![p] = NoFile, ![q] = manifest[p]]
      /\ rows'[p] = {} /\ rows'[q] = rows[p]
      /\ \A x \in Paths : x # p /\ x # q => rows'[x] = rows[x]
      /\ \A x \in Paths : x # p /\ x # q => (x \in torn' <=> x \in torn)
      /\ p \notin torn' /\ (q \in torn' <=> p \in torn)
  BY <1>2, <1>3, <1>6, <1>7, RenameKeeps DEF IndexInv
<1>9. Ledger' = copy'
  BY <1>1, <1>2, <1>5 DEF Ledger
<1>10. /\ Ledger'[p] = NoFile /\ Ledger'[q] = manifest[p]
       /\ \A x \in Paths : x # p /\ x # q => Ledger'[x] = Ledger[x]
  BY <1>3, <1>5, <1>6, <1>8, <1>9 DEF IndexInv, Shape, TypeOK
<1>11. pc' \in {"renames", "renamed"}
  BY <1>2
<1>12. Scanned' = Scanned /\ \A x : Told(x)' = Told(x)
  BY <1>1, <1>11 DEF Scanned, Told
<1> HIDE DEF p, q
<1>13. Records'
  <2>1. ASSUME NEW x \in Paths PROVE TrueEntry(x)'
    <3>1. TrueEntry(x) /\ pc # "hash" /\ pc' # "hash"
      BY <1>1, <1>11 DEF IndexInv, Records
    <3>2. CASE x = p
      BY <1>8, <1>10, <3>1, <3>2, SearchAssumption DEF TrueEntry
    <3>3. CASE x = q
      BY <1>6, <1>7, <1>8, <1>10, <3>1, <3>3, SearchAssumption DEF TrueEntry
    <3>4. CASE x # p /\ x # q
      BY <1>8, <1>10, <3>1, <3>4 DEF TrueEntry
    <3> QED
      BY <3>2, <3>3, <3>4
  <2> QED
    BY <1>11, <2>1 DEF Records
<1>14. Moving'
  BY <1>1, <1>5, BusyIsFree DEF Moving
<1>15. PlanHolds'
  <2>1. ASSUME NEW s \in todo.renames, s # r
        PROVE  s[1] \in Paths /\ s[2] \in Paths /\ s[1] # p /\ s[2] # q /\ s[1] # q /\ s[2] # p
    <3>1. s[1] \in Paths /\ s[2] \in Paths
      BY <1>3 DEF Plans
    <3>2. manifest[s[1]] \in Contents /\ manifest[s[2]] = NoFile
      BY <1>5 DEF IndexInv, PlanHolds
    <3> QED
      BY <1>6, <2>1, <3>1, <3>2, SearchAssumption
  <2>2. ASSUME NEW s \in todo.renames, s # r
        PROVE  Ledger'[s[1]] = Ledger[s[1]] /\ Ledger'[s[2]] = Ledger[s[2]]
    BY <1>10, <2>1, <2>2
  <2> QED
    BY <1>1, <1>4, <1>12, <2>2 DEF IndexInv, PlanHolds
<1>16. Tracked'
  <2> SUFFICES ASSUME Scanned, NEW x \in scope \ torn', disk[x] # NoFile
               PROVE  rows'[x] = {disk[x]} \/ Pending(x)'
    BY <1>1, <1>12 DEF Tracked
  <2>1. x \in Paths
    BY SearchAssumption DEF IndexInv, Shape, TypeOK
  <2>2. CASE x = p
    BY <1>1, <1>12, <2>2 DEF IndexInv, PlanHolds, Pending, p
  <2>3. CASE x = q
    <3>1. disk[q] = manifest[p] \/ Told(q)
      BY <1>5 DEF IndexInv, PlanHolds, p, q
    <3> QED
      BY <1>7, <1>8, <1>12, <2>3, <3>1 DEF Pending
  <2>4. CASE x # p /\ x # q
    <3>1. rows[x] = {disk[x]} \/ Pending(x)
      BY <1>8, <2>1, <2>4 DEF IndexInv, Tracked
    <3>2. Pending(x) => Pending(x)'
      BY <1>1, <1>4, <1>12, <2>4 DEF Pending, InHand, q
    <3> QED
      BY <1>8, <2>1, <2>4, <3>1, <3>2
  <2> QED
    BY <2>2, <2>3, <2>4
<1>17. Unwatched'
  BY <1>1 DEF IndexInv, Unwatched
<1> QED
  BY <1>13, <1>14, <1>15, <1>16, <1>17 DEF Rest

LEMMA PlanRenamedStep == ASSUME IndexInv, PlanRenamed PROVE Rest'
<1>1. /\ UNCHANGED <<rows, torn, copy, wcopy, wseen, queue, disk, noted, watching, todo, asked>>
      /\ UNCHANGED <<wanted, batch, wpc, scope, synced>>
      /\ pc = "renamed" /\ pc' = "renames" /\ manifest' = copy
  BY DEF PlanRenamed, worldVars, watcherVars
<1>2. ~ Calm /\ wpc # "save"
  BY <1>1, BusyIsFree DEF Calm
<1>3. Ledger' = Ledger /\ Scanned' = Scanned /\ \A x : Told(x)' = Told(x)
  BY <1>1, <1>2 DEF Ledger, Scanned, Told
<1>4. Records'
  BY <1>1, <1>3 DEF IndexInv, Records, TrueEntry, InHand
<1>5. Moving'
  BY <1>1, <1>2, BusyIsFree DEF Moving
<1>6. PlanHolds'
  BY <1>1, <1>3 DEF IndexInv, PlanHolds
<1>7. Tracked'
  BY <1>1, <1>3 DEF IndexInv, Tracked, Pending, InHand
<1>8. Unwatched'
  BY <1>1 DEF IndexInv, Unwatched
<1> QED
  BY <1>4, <1>5, <1>6, <1>7, <1>8 DEF Rest

LEMMA PlanRemoveStep == ASSUME IndexInv, PlanRemove PROVE Rest'
<1> DEFINE gone == todo.removals
<1>1. /\ UNCHANGED <<manifest, wcopy, wseen, queue, disk, noted, watching, asked>>
      /\ UNCHANGED <<wanted, batch, wpc, scope, synced>>
      /\ pc = "renames" /\ pc' = "renamed" /\ todo.renames = {}
      /\ RemoveRows(gone) /\ copy' = RemoveEntries(gone)
      /\ todo' = [todo EXCEPT !.removals = {}]
  BY DEF PlanRemove, worldVars, watcherVars
<1>2. /\ todo'.renames = {} /\ todo'.removals = {} /\ todo'.index = todo.index
      /\ todo'.file = {} /\ todo.file = {}
  BY <1>1 DEF IndexInv, Shape, Plans, TypeOK
<1>3. ~ Calm /\ wpc # "save" /\ Ledger = manifest /\ Ledger' = copy'
  BY <1>1, BusyIsFree DEF Calm, Ledger
<1>4. /\ \A x \in Paths : x \in gone => Ledger'[x] = NoFile /\ rows'[x] = {}
      /\ \A x \in Paths : x \notin gone => Ledger'[x] = Ledger[x] /\ rows'[x] = rows[x]
      /\ torn' = torn \ gone
  BY <1>1, <1>3 DEF RemoveRows, RemoveEntries
<1>5. Scanned' = Scanned /\ \A x : Told(x)' = Told(x)
  BY <1>1 DEF Scanned, Told
<1>6. Records'
  <2>1. ASSUME NEW x \in Paths PROVE TrueEntry(x)'
    <3>1. TrueEntry(x) /\ pc # "hash" /\ pc' # "hash"
      BY <1>1 DEF IndexInv, Records
    <3>2. CASE x \in gone
      BY <1>4, <3>1, <3>2, SearchAssumption DEF TrueEntry
    <3>3. CASE x \notin gone
      BY <1>4, <3>1, <3>3 DEF TrueEntry
    <3> QED
      BY <3>2, <3>3
  <2> QED
    BY <1>1, <2>1 DEF Records
<1>7. Moving'
  BY <1>1, <1>3, BusyIsFree DEF Moving
<1>8. PlanHolds'
  BY <1>2 DEF PlanHolds
<1>9. Tracked'
  <2> SUFFICES ASSUME Scanned, NEW x \in scope \ torn', disk[x] # NoFile
               PROVE  rows'[x] = {disk[x]} \/ Pending(x)'
    BY <1>1, <1>5 DEF Tracked
  <2>1. x \in Paths
    BY SearchAssumption DEF IndexInv, Shape, TypeOK
  <2>2. CASE x \in gone
    BY <1>5, <2>2 DEF IndexInv, PlanHolds, Pending
  <2>3. CASE x \notin gone
    <3>1. rows[x] = {disk[x]} \/ Pending(x)
      BY <1>4, <2>3 DEF IndexInv, Tracked
    <3>2. Pending(x) => Pending(x)'
      BY <1>1, <1>2, <1>5 DEF Pending, InHand
    <3> QED
      BY <1>4, <2>1, <2>3, <3>1, <3>2
  <2> QED
    BY <2>2, <2>3
<1>10. Unwatched'
  BY <1>1 DEF IndexInv, Unwatched
<1> QED
  BY <1>6, <1>7, <1>8, <1>9, <1>10 DEF Rest

LEMMA PlanRequestStep == ASSUME IndexInv, PlanRequest PROVE Rest'
<1>1. /\ UNCHANGED <<rows, manifest, torn, copy, wcopy, wseen, disk, noted, watching, asked>>
      /\ UNCHANGED <<wanted, batch, wpc, scope, synced>>
      /\ pc = "renames" /\ pc' = "boot" /\ todo.renames = {}
      /\ queue' = queue \cup todo.index /\ todo' = [NoWork EXCEPT !.boot = TRUE]
  BY DEF PlanRequest, worldVars, watcherVars, storeVars
<1>2. todo'.renames = {} /\ todo'.removals = {} /\ todo'.file = {}
  BY <1>1 DEF NoWork
<1>3. ~ Calm /\ wpc # "save" /\ Ledger' = Ledger /\ Scanned' = Scanned
  BY <1>1, BusyIsFree DEF Calm, Ledger, Scanned
<1>4. Records'
  BY <1>1, <1>3 DEF IndexInv, Records, TrueEntry
<1>5. Moving'
  BY <1>1, <1>3, BusyIsFree DEF Moving
<1>6. PlanHolds'
  BY <1>2 DEF PlanHolds
<1>7. Tracked'
  <2>1. \A x : Pending(x) => Pending(x)'
    BY <1>1 DEF Pending, Told
  <2> QED
    BY <1>1, <1>3, <2>1 DEF IndexInv, Tracked
<1>8. Unwatched'
  BY <1>1 DEF IndexInv, Unwatched
<1> QED
  BY <1>4, <1>5, <1>6, <1>7, <1>8 DEF Rest

LEMMA BootDoneStep == ASSUME IndexInv, BootDone PROVE Rest'
<1>1. /\ UNCHANGED <<rows, manifest, torn, copy, wcopy, wseen, disk, noted, watching, asked>>
      /\ UNCHANGED <<wanted, batch, wpc, scope, queue>>
      /\ pc = "boot" /\ pc' = "loop" /\ synced' /\ todo' = NoWork
  BY DEF BootDone, worldVars, watcherVars, storeVars
<1>2. todo'.renames = {} /\ todo'.removals = {} /\ todo'.file = {}
  BY <1>1 DEF NoWork
<1>3. ~ Calm /\ wpc # "save" /\ Ledger' = Ledger /\ Scanned' = Scanned
  BY <1>1, BusyIsFree DEF Calm, Ledger, Scanned
<1>4. Records'
  BY <1>1, <1>3 DEF IndexInv, Records, TrueEntry
<1>5. Moving'
  BY <1>1, <1>3, BusyIsFree DEF Moving
<1>6. PlanHolds'
  BY <1>2 DEF PlanHolds
<1>7. Tracked'
  <2>1. \A x : Pending(x) => Pending(x)'
    BY <1>1 DEF Pending, Told, IndexInv, Shape
  <2> QED
    BY <1>1, <1>3, <2>1 DEF IndexInv, Tracked
<1>8. Unwatched'
  BY <1>1 DEF IndexInv, Unwatched
<1> QED
  BY <1>4, <1>5, <1>6, <1>7, <1>8 DEF Rest

LEMMA DrainStep == ASSUME IndexInv, Drain PROVE Rest'
<1>1. /\ UNCHANGED <<rows, manifest, torn, copy, wcopy, wseen, disk, noted, watching, asked>>
      /\ UNCHANGED <<wanted, batch, wpc, scope, synced>>
      /\ pc \in {"boot", "loop"} /\ queue # {}
  BY DEF Drain, worldVars, watcherVars, storeVars
<1>2. PICK taken \in SUBSET queue :
        /\ queue' = queue \ taken
        /\ todo' = [todo EXCEPT !.index = {x \in taken : disk[x] # NoFile}]
        /\ pc' = IF todo'.index = {} THEN pc ELSE "batch"
  BY DEF Drain
<1>3. todo.renames = {} /\ todo.removals = {} /\ todo.index = {} /\ todo.file = {} /\ todo \in Plans
  BY <1>1 DEF IndexInv, Shape, TypeOK
<1>4. /\ todo'.renames = {} /\ todo'.removals = {} /\ todo'.file = {}
      /\ todo'.index = {x \in taken : disk[x] # NoFile}
  BY <1>2, <1>3 DEF Plans
<1>5. ~ Calm /\ wpc # "save" /\ Ledger' = Ledger /\ (Scanned' => Scanned)
  <2>1. ~ Calm
    BY <1>1 DEF Calm
  <2>2. pc' \in {pc, "batch"}
    BY <1>2
  <2>3. pc = "loop" => synced
    BY DEF Drain
  <2> QED
    BY <1>1, <2>1, <2>2, <2>3, BusyIsFree DEF Ledger, Scanned
<1>6. Records'
  <2>1. pc # "hash" /\ pc' # "hash"
    BY <1>1, <1>2
  <2> QED
    BY <1>1, <1>5, <2>1 DEF IndexInv, Records, TrueEntry
<1>7. Moving'
  BY <1>1, <1>5, BusyIsFree DEF Moving
<1>8. PlanHolds'
  BY <1>4 DEF PlanHolds
<1>9. Tracked'
  <2>1. ASSUME NEW x, disk[x] # NoFile, Pending(x) PROVE Pending(x)'
    <3>1. Changed(x) \in noted \cup batch \/ x \in queue
      BY <1>1, <1>3, <2>1 DEF Pending, Told
    <3> QED
      BY <1>1, <1>2, <1>4, <2>1, <3>1 DEF Pending, Told, InHand
  <2> QED
    BY <1>1, <1>5, <2>1 DEF IndexInv, Tracked
<1>10. Unwatched'
  BY <1>1 DEF IndexInv, Unwatched
<1> QED
  BY <1>6, <1>7, <1>8, <1>9, <1>10 DEF Rest

LEMMA IndexReadStep == ASSUME IndexInv, IndexRead PROVE Rest'
<1>1. /\ UNCHANGED <<rows, manifest, torn, copy, wcopy, wseen, disk, noted, watching, asked>>
      /\ UNCHANGED <<wanted, batch, wpc, scope, synced, queue>>
      /\ pc = "batch" /\ pc' = "embed"
  BY DEF IndexRead, worldVars, watcherVars, storeVars
<1>2. PICK p \in todo.index : todo' = [todo EXCEPT !.file = {<<p, disk[p]>>}]
  BY DEF IndexRead
<1>3. todo.renames = {} /\ todo.removals = {} /\ todo.file = {} /\ todo \in Plans
  BY <1>1 DEF IndexInv, Shape, TypeOK
<1>4. /\ todo'.renames = {} /\ todo'.removals = {} /\ todo'.file = {<<p, disk[p]>>}
      /\ todo'.index = todo.index
  BY <1>2, <1>3 DEF Plans
<1>5. ~ Calm /\ wpc # "save" /\ Ledger' = Ledger /\ Scanned' = Scanned /\ \A x : Told(x)' = Told(x)
  BY <1>1, BusyIsFree DEF Calm, Ledger, Scanned, Told
<1>6. Records'
  BY <1>1, <1>5 DEF IndexInv, Records, TrueEntry
<1>7. Moving'
  BY <1>1, <1>5, BusyIsFree DEF Moving
<1>8. PlanHolds'
  BY <1>1, <1>4 DEF PlanHolds
<1>9. Tracked'
  <2>1. ASSUME NEW x, Pending(x) PROVE Pending(x)'
    BY <1>1, <1>3, <1>4, <1>5, <2>1 DEF Pending, InHand
  <2> QED
    BY <1>1, <1>5, <2>1 DEF IndexInv, Tracked
<1>10. Unwatched'
  BY <1>1 DEF IndexInv, Unwatched
<1> QED
  BY <1>6, <1>7, <1>8, <1>9, <1>10 DEF Rest

(* The indexer stops: in the middle of a batch, or, with the process, when *)
(* everything rests.                                                       *)
LEMMA OffStep ==
  ASSUME IndexInv, ~ Calm \/ Quiet, pc \in {"loop", "batch", "embed"}, pc' = "off", todo' = NoWork,
         UNCHANGED <<rows, manifest, torn, copy, wcopy>>,
         \/ UNCHANGED <<noted, watching, batch, wpc>>
         \/ ~ watching' /\ noted' = {} /\ batch' = {} /\ wpc' = "idle"
  PROVE  Rest'
<1>1. todo'.renames = {} /\ todo'.removals = {} /\ todo'.file = {}
  BY DEF NoWork
<1>2. wpc # "save" /\ wpc' # "save" /\ \A p \in Paths : MovedFrom(p) \notin noted \cup batch
  BY BusyIsFree DEF Quiet, IndexInv, Shape, TypeOK
<1>3. Ledger' = Ledger /\ ~ Scanned'
  BY <1>2 DEF Ledger, Scanned
<1>4. Records'
  BY <1>3 DEF IndexInv, Records, TrueEntry
<1>5. Moving'
  BY <1>2 DEF Moving
<1>6. PlanHolds' /\ Tracked'
  BY <1>1, <1>3 DEF PlanHolds, Tracked
<1>7. Unwatched'
  BY DEF IndexInv, Unwatched
<1> QED
  BY <1>4, <1>5, <1>6, <1>7 DEF Rest

LEMMA VanishedStep == ASSUME IndexInv, IndexVanished PROVE Rest'
  BY OffStep DEF IndexVanished, Calm, storeVars, watcherVars

LEMMA DieStep == ASSUME IndexInv, Die PROVE Rest'
  BY OffStep DEF Die, Calm, storeVars, watcherVars

LEMMA ExitStep == ASSUME IndexInv, Patient, Exit PROVE Rest'
<1>1. Quiet /\ pc = "loop"
  BY DEF Exit, Quiet
<1> QED
  BY <1>1, OffStep DEF Exit, storeVars

LEMMA UpsertStep == ASSUME IndexInv, IndexUpsert PROVE Rest'
<1>1. /\ UNCHANGED <<manifest, copy, wcopy, wseen, disk, noted, watching, asked, todo>>
      /\ UNCHANGED <<wanted, batch, wpc, scope, synced, queue>>
      /\ pc = "embed" /\ pc' = "hash"
  BY DEF IndexUpsert, worldVars, watcherVars
<1>2. PICK f \in Readings : todo.file = {f}
  BY <1>1 DEF IndexInv, Shape, TypeOK
<1>3. rows' = [rows EXCEPT ![f[1]] = {f[2]}] /\ torn' = torn \ {f[1]}
  BY <1>2 DEF IndexUpsert, Chunks
<1> DEFINE p == f[1]
<1>4. p \in Paths /\ f = <<p, f[2]>> /\ \A x : InHand(x) <=> x = p
  BY <1>2 DEF Readings, InHand
<1>5. rows'[p] = {f[2]} /\ \A x \in Paths : x # p => rows'[x] = rows[x]
  BY <1>3, <1>4 DEF IndexInv, Shape, TypeOK
<1>6. ~ Calm /\ wpc # "save" /\ Ledger' = Ledger /\ Scanned' = Scanned /\ \A x : Told(x)' = Told(x)
  BY <1>1, BusyIsFree DEF Calm, Ledger, Scanned, Told
<1>7. InHand(p)'
  BY <1>1, <1>4 DEF InHand
<1>8. Records'
  <2>1. ASSUME NEW x \in Paths PROVE TrueEntry(x)'
    <3>1. TrueEntry(x)
      BY DEF IndexInv, Records
    <3>2. CASE x = p
      BY <1>1, <1>3, <1>5, <1>7, <3>2 DEF TrueEntry
    <3>3. CASE x # p
      BY <1>1, <1>3, <1>5, <1>6, <3>1, <3>3 DEF TrueEntry
    <3> QED
      BY <3>2, <3>3
  <2> QED
    BY <1>1, <1>2, <1>5, <2>1 DEF Records
<1>9. Moving'
  BY <1>1, <1>6, BusyIsFree DEF Moving
<1>10. PlanHolds'
  BY <1>1, <1>6 DEF IndexInv, PlanHolds
<1>11. Tracked'
  <2> SUFFICES ASSUME Scanned, NEW x \in scope \ torn', disk[x] # NoFile
               PROVE  rows'[x] = {disk[x]} \/ Pending(x)'
    BY <1>1, <1>6 DEF Tracked
  <2>1. x \in Paths
    BY SearchAssumption DEF IndexInv, Shape, TypeOK
  <2>2. CASE x = p
    <3>1. disk[p] = f[2] \/ Told(p)
      BY <1>2 DEF IndexInv, PlanHolds
    <3> QED
      BY <1>5, <1>6, <2>2, <3>1 DEF Pending
  <2>3. CASE x # p
    <3>1. rows[x] = {disk[x]} \/ Pending(x)
      BY <1>3, <2>3 DEF IndexInv, Tracked
    <3>2. Pending(x) => Pending(x)'
      BY <1>1, <1>2, <1>4, <1>6, <2>3 DEF Pending, InHand
    <3> QED
      BY <1>5, <2>1, <2>3, <3>1, <3>2
  <2> QED
    BY <2>2, <2>3
<1>12. Unwatched'
  BY <1>1 DEF IndexInv, Unwatched
<1> QED
  BY <1>8, <1>9, <1>10, <1>11, <1>12 DEF Rest

LEMMA HashStep == ASSUME IndexInv, IndexHash PROVE Rest'
<1>1. /\ UNCHANGED <<rows, manifest, wcopy, wseen, disk, noted, watching, asked, todo>>
      /\ UNCHANGED <<wanted, batch, wpc, scope, synced, queue>>
      /\ pc = "hash" /\ pc' = "save"
  BY DEF IndexHash, worldVars, watcherVars
<1>2. PICK f \in Readings : todo.file = {f}
  BY <1>1 DEF IndexInv, Shape, TypeOK
<1> DEFINE p == f[1]
<1>3. /\ copy' = [manifest EXCEPT ![p] = EntryAfter(p)]
      /\ torn' = IF EntryAfter(p) \in Contents \ {f[2]} THEN torn \cup {p} ELSE torn
  BY <1>2 DEF IndexHash
<1>4. p \in Paths /\ \A x : InHand(x) <=> x = p
  BY <1>2 DEF Readings, InHand
<1>5. ~ Calm /\ wpc # "save" /\ Scanned' = Scanned /\ \A x : Told(x)' = Told(x)
  BY <1>1, BusyIsFree DEF Calm, Scanned, Told
<1>6. /\ Ledger = manifest /\ Ledger'[p] = EntryAfter(p)
      /\ \A x \in Paths : x # p => Ledger'[x] = Ledger[x]
  BY <1>1, <1>3, <1>4, <1>5 DEF Ledger, IndexInv, Shape, TypeOK
<1>7. rows[p] = {f[2]} /\ EntryAfter(p) # NoFile
  BY <1>1, <1>2, SearchAssumption DEF IndexInv, Records, EntryAfter
<1>8. Records'
  <2>1. ASSUME NEW x \in Paths PROVE TrueEntry(x)'
    <3>1. TrueEntry(x)
      BY DEF IndexInv, Records
    <3>2. CASE x = p
      BY <1>1, <1>3, <1>6, <1>7, <3>2 DEF TrueEntry
    <3>3. CASE x # p
      BY <1>1, <1>3, <1>4, <1>6, <3>1, <3>3 DEF TrueEntry
    <3> QED
      BY <3>2, <3>3
  <2> QED
    BY <1>1, <2>1 DEF Records
<1>9. Moving'
  BY <1>1, <1>5, BusyIsFree DEF Moving
<1>10. PlanHolds'
  BY <1>1, <1>5 DEF IndexInv, PlanHolds, Shape
<1>11. Tracked'
  <2>1. torn \subseteq torn'
    BY <1>3
  <2>2. \A x : Pending(x) => Pending(x)'
    BY <1>1, <1>5 DEF Pending, InHand
  <2> QED
    BY <1>1, <1>5, <2>1, <2>2 DEF IndexInv, Tracked
<1>12. Unwatched'
  BY <1>1 DEF IndexInv, Unwatched
<1> QED
  BY <1>8, <1>9, <1>10, <1>11, <1>12 DEF Rest

LEMMA SaveStep == ASSUME IndexInv, IndexSave PROVE Rest'
<1>1. /\ UNCHANGED <<rows, torn, copy, wcopy, wseen, disk, noted, watching, asked>>
      /\ UNCHANGED <<wanted, batch, wpc, scope, synced, queue>>
      /\ pc = "save" /\ manifest' = copy /\ pc' \in {"batch", "boot", "loop"}
      /\ todo' = [todo EXCEPT !.file = {}, !.index = todo.index \ {f[1] : f \in todo.file}]
  BY DEF IndexSave, worldVars, watcherVars
<1>2. todo.renames = {} /\ todo.removals = {} /\ todo \in Plans
  BY <1>1 DEF IndexInv, Shape
<1>3. /\ todo'.renames = {} /\ todo'.removals = {} /\ todo'.file = {}
      /\ todo'.index = todo.index \ {f[1] : f \in todo.file}
  BY <1>1, <1>2 DEF Plans
<1>4. /\ ~ Calm /\ wpc # "save" /\ Ledger' = Ledger /\ (Scanned' => Scanned)
      /\ \A x : Told(x)' = Told(x)
  BY <1>1, BusyIsFree DEF Calm, Ledger, Scanned, Told
<1>5. Records'
  BY <1>1, <1>4 DEF IndexInv, Records, TrueEntry
<1>6. Moving'
  BY <1>1, <1>4, BusyIsFree DEF Moving
<1>7. PlanHolds'
  BY <1>3 DEF PlanHolds
<1>8. Tracked'
  <2>1. ASSUME NEW x, Pending(x) PROVE Pending(x)'
    BY <1>1, <1>2, <1>3, <1>4, <2>1 DEF Pending, InHand
  <2> QED
    BY <1>1, <1>4, <2>1 DEF IndexInv, Tracked
<1>9. Unwatched'
  BY <1>1 DEF IndexInv, Unwatched
<1> QED
  BY <1>5, <1>6, <1>7, <1>8, <1>9 DEF Rest

LEMMA RunningStep == ASSUME IndexInv, EnsureRunning PROVE Rest'
<1>1. /\ UNCHANGED <<rows, manifest, torn, copy, wcopy, wseen, disk, noted, watching, asked, todo>>
      /\ UNCHANGED <<wanted, batch, wpc>>
      /\ pc = "off" /\ pc' = "loop" /\ ~ synced'
  BY DEF EnsureRunning, worldVars, watcherVars, storeVars
<1>2. ~ Calm /\ Ledger' = Ledger /\ ~ Scanned'
  BY <1>1 DEF Calm, Ledger, Scanned
<1>3. Records'
  BY <1>1, <1>2 DEF IndexInv, Records, TrueEntry
<1>4. Moving'
  BY <1>1, <1>2, BusyIsFree DEF Moving
<1>5. PlanHolds' /\ Tracked'
  BY <1>1, <1>2 DEF IndexInv, PlanHolds, Tracked
<1>6. Unwatched'
  BY <1>1 DEF IndexInv, Unwatched
<1> QED
  BY <1>3, <1>4, <1>5, <1>6 DEF Rest

LEMMA WatchStep == ASSUME IndexInv, WatchStart PROVE Rest'
<1>1. /\ UNCHANGED <<rows, manifest, torn, copy, wcopy, wseen, disk, noted, asked, todo>>
      /\ UNCHANGED <<wanted, batch, wpc, pc, scope, synced, queue>>
      /\ ~ watching /\ watching'
  BY DEF WatchStart, worldVars, storeVars, indexerVars
<1>2. ~ Calm /\ Ledger' = Ledger /\ Scanned' = Scanned /\ \A x : Told(x)' = Told(x)
  BY <1>1 DEF Calm, Ledger, Scanned, Told
<1>3. Records'
  BY <1>1, <1>2 DEF IndexInv, Records, TrueEntry, InHand
<1>4. Moving'
  BY <1>1, <1>2, BusyIsFree DEF Moving
<1>5. PlanHolds'
  BY <1>1, <1>2 DEF IndexInv, PlanHolds
<1>6. Tracked'
  BY <1>1, <1>2 DEF IndexInv, Tracked, Pending, InHand
<1>7. Unwatched'
  BY <1>1 DEF Unwatched
<1> QED
  BY <1>3, <1>4, <1>5, <1>6, <1>7 DEF Rest

LEMMA RestStep == ASSUME IndexInv, Patient, Next PROVE Rest'
<1>1. ASSUME NEW p \in Paths, NEW c \in Contents, Write(p, c) PROVE Rest'
  BY <1>1, EditStep DEF Write
<1>2. ASSUME NEW p \in Paths, Delete(p) PROVE Rest'
  BY <1>2, EditStep DEF Delete
<1>3. CASE User
  BY <1>1, <1>2, <1>3, MoveStep, ReconfigureStep DEF User
<1>4. CASE Watcher
  BY <1>4, FlushStep, ConfigStep, LoadStep, HandleRenameStep, HandleRemoveStep, HandleSaveStep,
     RequestStep DEF Watcher
<1>5. CASE Indexer
  BY <1>5, ReloadStep, PlanSyncStep, PlanRenameStep, PlanRenamedStep, PlanRemoveStep,
     PlanRequestStep, BootDoneStep, DrainStep, IndexReadStep, VanishedStep, UpsertStep, HashStep,
     SaveStep DEF Indexer, LoopReload
<1> QED
  BY <1>3, <1>4, <1>5, ReloadStep, DieStep, ExitStep, RunningStep, WatchStep DEF Next, StatusReload

LEMMA IndexStep == Patient /\ IndexInv /\ [Next]_vars => IndexInv'
<1> SUFFICES ASSUME Patient, IndexInv, [Next]_vars PROVE IndexInv'
  OBVIOUS
<1>1. Shape'
  BY ShapeStep DEF IndexInv
<1>2. CASE Next
  BY <1>1, <1>2, RestStep DEF Rest, IndexInv
<1>3. CASE UNCHANGED vars
  <2>1. UNCHANGED <<disk, wanted, noted, watching, batch, wpc, wseen, wcopy, rows, manifest, torn>>
    BY <1>3 DEF vars, worldVars, watcherVars, storeVars
  <2>2. UNCHANGED <<scope, synced, queue, pc, todo, copy, asked>>
    BY <1>3 DEF vars, indexerVars
  <2>3. Ledger' = Ledger /\ Scanned' = Scanned /\ \A x : Told(x)' = Told(x)
    BY <2>1, <2>2 DEF Ledger, Scanned, Told
  <2>4. Records'
    BY <2>1, <2>2, <2>3 DEF IndexInv, Records, TrueEntry, InHand
  <2>5. Moving' /\ Unwatched'
    BY <2>1, <2>2 DEF IndexInv, Moving, MoveOf, Calm, Unwatched
  <2>6. PlanHolds'
    BY <2>1, <2>2, <2>3 DEF IndexInv, PlanHolds
  <2>7. Tracked'
    BY <2>1, <2>2, <2>3 DEF IndexInv, Tracked, Pending, InHand
  <2> QED
    BY <1>1, <2>4, <2>5, <2>6, <2>7 DEF IndexInv
<1> QED
  BY <1>2, <1>3

(* Once events, queue and threads have come to rest, a search finds every  *)
(* file in scope with exactly its present content, whatever was written,   *)
(* deleted or selected meanwhile and wherever the indexer thread ended; for *)
(* a user who moves files and stops the process when the index rests.      *)
THEOREM IndexFreshWhenQuiet ==
  ASSUME Patient
  PROVE  Spec => []QuietFresh
<1>1. Init => IndexInv
  BY ShapeInit DEF IndexInv
<1>2. IndexInv /\ [Next]_vars => IndexInv'
  BY IndexStep
<1>3. IndexInv => QuietFresh
  <2> SUFFICES ASSUME IndexInv, Quiet, ~ asked, NEW p \in wanted \ torn, disk[p] # NoFile
               PROVE  rows[p] = {disk[p]}
    BY DEF QuietFresh, Fresh, Chunks, IndexInv, Shape
  <2>1. Scanned /\ p \in scope
    BY DEF Quiet, Scanned
  <2>2. batch = {} /\ todo.index = {} /\ todo.renames = {}
    BY DEF Quiet, IndexInv, Shape, TypeOK
  <2>3. ~ Pending(p)
    BY <2>2 DEF Quiet, Pending, Told
  <2> QED
    BY <2>1, <2>3 DEF IndexInv, Tracked
<1> QED
  BY <1>1, <1>2, <1>3, PTL DEF Spec

-----------------------------------------------------------------------------
(* The walk of a scan (SearchScope).  A glob that selects a file, read as  *)
(* documented, might match below every directory above the file, so none   *)
(* of them is left out.                                                    *)

(* The fields of the settings that the walk guesses from. *)
ScopeTypeOK ==
  settings \in [patterns : SUBSET Ignores, only : SUBSET Globs, skip : SUBSET Globs,
               allow : SUBSET Globs, depth : Nat]

LEMMA ScopeStart == ScopeInit => ScopeTypeOK
  BY DEF ScopeInit, ScopeTypeOK, Defaults

LEMMA ScopeStep == ScopeTypeOK /\ [EditSettings]_settings => ScopeTypeOK'
<1> SUFFICES ASSUME ScopeTypeOK, [EditSettings]_settings PROVE ScopeTypeOK'
  OBVIOUS
<1>1. CASE UNCHANGED settings
  BY <1>1 DEF ScopeTypeOK
<1>2. CASE AddGlob
  <2>1. PICK field \in Fields, g \in Globs : settings' = [settings EXCEPT ![field] = @ \cup {g}]
    BY <1>2 DEF AddGlob
  <2>2. CASE field = "only"
    BY <2>1, <2>2 DEF ScopeTypeOK
  <2>3. CASE field = "skip"
    BY <2>1, <2>3 DEF ScopeTypeOK
  <2>4. CASE field = "allow"
    BY <2>1, <2>4 DEF ScopeTypeOK
  <2> QED
    BY <2>2, <2>3, <2>4 DEF Fields
<1>3. CASE AddPattern
  BY <1>3 DEF AddPattern, ScopeTypeOK
<1>4. CASE SetDepth
  BY <1>4, ScopeAssumption DEF SetDepth, ScopeTypeOK
<1> QED
  BY <1>1, <1>2, <1>3, <1>4 DEF EditSettings

(* A prefix has the elements of the path, as far as it goes. *)
LEMMA PrefixElements ==
  ASSUME NEW S, NEW p \in Seq(S), NEW q \in Seq(S)
  PROVE  IsPrefix(p, q) <=> Len(p) <= Len(q) /\ \A i \in 1 .. Len(p) : p[i] = q[i]
<1>1. CASE Len(p) <= Len(q)
  <2>1. SubSeq(p, 1, Len(p)) = p
    BY SubSeqFull
  <2>2. /\ SubSeq(q, 1, Len(p)) \in Seq(S) /\ Len(SubSeq(q, 1, Len(p))) = Len(p)
        /\ \A i \in 1 .. Len(p) : SubSeq(q, 1, Len(p))[i] = q[i]
    <3>1. Len(p) \in Nat /\ Len(q) \in Nat /\ \A i \in 1 .. Len(p) : i \in 1 .. Len(q)
      BY <1>1
    <3> QED
      BY <1>1, <3>1
  <2>3. p = SubSeq(q, 1, Len(p)) <=> \A i \in 1 .. Len(p) : p[i] = SubSeq(q, 1, Len(p))[i]
    BY <2>2, SeqEqual
  <2> QED
    BY <1>1, <2>1, <2>2, <2>3 DEF IsPrefix
<1>2. CASE ~ Len(p) <= Len(q)
  BY <1>2 DEF IsPrefix
<1> QED
  BY <1>1, <1>2

(* Prefixes of one path are prefixes of each other. *)
LEMMA PrefixesCompare ==
  ASSUME NEW S, NEW p \in Seq(S), NEW a \in Seq(S), NEW b \in Seq(S),
         IsPrefix(a, p), IsPrefix(b, p)
  PROVE  Len(a) <= Len(b) => IsPrefix(a, b)
<1>1. Len(a) <= Len(p) /\ \A i \in 1 .. Len(a) : a[i] = p[i]
  BY PrefixElements
<1>2. Len(b) <= Len(p) /\ \A i \in 1 .. Len(b) : b[i] = p[i]
  BY PrefixElements
<1>3. ASSUME Len(a) <= Len(b)
      PROVE  IsPrefix(a, b)
  <2>1. \A i \in 1 .. Len(a) : i \in 1 .. Len(b) /\ a[i] = b[i]
    BY <1>1, <1>2, <1>3
  <2> QED
    BY <1>3, <2>1, PrefixElements
<1> QED
  BY <1>3

(* The beginnings of a path, the directories of a file among them. *)
LEMMA Beginning ==
  ASSUME NEW S, NEW p \in Seq(S), NEW n \in 0 .. Len(p)
  PROVE  SubSeq(p, 1, n) \in Seq(S) /\ Len(SubSeq(p, 1, n)) = n /\ IsPrefix(SubSeq(p, 1, n), p)
<1> DEFINE s == SubSeq(p, 1, n)
<1>1. n \in Nat /\ n <= Len(p) /\ \A i \in 1 .. n : i \in 1 .. Len(p)
  OBVIOUS
<1>2. s \in Seq(S) /\ Len(s) = n /\ \A i \in 1 .. n : s[i] = p[i]
  BY <1>1
<1> HIDE DEF s
<1>3. IsPrefix(s, p)
  BY <1>1, <1>2, PrefixElements
<1> QED
  BY <1>2, <1>3 DEF s

LEMMA DirsAbove ==
  ASSUME NEW S, NEW p \in Seq(S), NEW dir \in DirsOf(p)
  PROVE  dir \in Seq(S) /\ Len(dir) \in 1 .. (Len(p) - 1) /\ IsPrefix(dir, p)
<1>1. PICK n \in 1 .. (Len(p) - 1) : dir = SubSeq(p, 1, n)
  BY DEF DirsOf
<1>2. n \in 0 .. Len(p)
  OBVIOUS
<1> QED
  BY <1>1, <1>2, Beginning

(* A glob that selects the file, read as documented, might match below    *)
(* every directory above it.                                               *)
LEMMA MightMatchAbove ==
  ASSUME NEW path \in Seq(Name), NEW globs, \A g \in globs : g.at \in Seq(Name),
         Directly(path, globs), NEW dir \in DirsOf(path)
  PROVE  SubtreeMightMatch(dir, globs)
<1>1. dir \in Seq(Name) /\ Len(dir) \in 1 .. (Len(path) - 1) /\ IsPrefix(dir, path)
  BY DirsAbove
<1>2. PICK g \in globs : /\ PathMatchesGlob(path, g)
                         /\ g.form = "in" => g.at \in {<<>>, Front(path)}
                         /\ g.form = "deep" => IsPrefix(g.at, path)
  BY DEF Directly
<1>3. ASSUME g.form \in {"under", "deep"}, IsPrefix(g.at, path)
      PROVE  SubtreeMightMatch(dir, globs)
  <2>1. Len(dir) <= Len(g.at) => IsPrefix(dir, g.at)
    BY <1>1, <1>3, PrefixesCompare
  <2>2. Len(g.at) <= Len(dir) => IsPrefix(g.at, dir)
    BY <1>1, <1>3, PrefixesCompare
  <2>3. Len(dir) \in Nat /\ Len(g.at) \in Nat
    BY <1>1
  <2>4. IsPrefix(dir, g.at) \/ IsPrefix(g.at, dir)
    BY <2>1, <2>2, <2>3
  <2> QED
    BY <1>3, <2>4 DEF SubtreeMightMatch
<1>4. CASE g.form = "file" /\ path = g.at
  BY <1>1, <1>4 DEF SubtreeMightMatch
<1>5. CASE g.form = "in"
  <2>1. CASE g.at = <<>>
    BY <2>1 DEF SubtreeMightMatch
  <2>2. CASE g.at = Front(path)
    <3>1. Len(path) - 1 \in 0 .. Len(path)
      BY <1>1
    <3>2. Len(g.at) = Len(path) - 1 /\ IsPrefix(g.at, path)
      BY <2>2, <3>1, Beginning DEF Front
    <3>3. Len(dir) <= Len(g.at)
      BY <1>1, <3>2
    <3>4. IsPrefix(dir, g.at)
      BY <1>1, <3>2, <3>3, PrefixesCompare
    <3> QED
      BY <3>4 DEF SubtreeMightMatch
  <2> QED
    BY <1>2, <1>5, <2>1, <2>2
<1>6. CASE g.form = "any"
  BY <1>6 DEF SubtreeMightMatch
<1> QED
  BY <1>2, <1>3, <1>4, <1>5, <1>6 DEF PathMatchesGlob

(* If the walk does not begin at the top, it begins in the first directory *)
(* of a file that is selected.                                             *)
LEMMA BeginsAbove ==
  ASSUME NEW path \in Files, path \in Seq(Name),
         NEW globs, \A g \in globs : g.at \in Seq(Name), Directly(path, globs),
         PatternRoots(globs) # {}
  PROVE  \E root \in PatternRoots(globs) \cap Dirs : IsPrefix(root, path)
<1>1. \A g \in globs : g.form # "any" /\ g.at # <<>>
  BY DEF PatternRoots
<1>2. PatternRoots(globs) = {<<g.at[1]>> : g \in globs}
  BY <1>1 DEF PatternRoots
<1>3. PICK g \in globs : /\ PathMatchesGlob(path, g)
                         /\ g.form = "in" => g.at \in {<<>>, Front(path)}
                         /\ g.form = "deep" => IsPrefix(g.at, path)
                         /\ g.form \in {"file", "under"} => Len(path) > 1
  BY DEF Directly
<1>4. g.form # "any" /\ g.at # <<>> /\ g.at \in Seq(Name)
  BY <1>1
<1>5. Len(path) \in Nat /\ Len(g.at) \in Nat \ {0}
  BY <1>4
<1>6. IsPrefix(g.at, path) /\ Len(path) > 1
  <2>1. CASE g.form = "under"
    BY <1>3, <2>1 DEF PathMatchesGlob
  <2>2. CASE g.form = "file"
    <3>1. path = g.at
      BY <1>3, <2>2 DEF PathMatchesGlob
    <3> QED
      BY <1>3, <2>2, <3>1, PrefixElements
  <2>3. CASE g.form = "in"
    <3>1. g.at = Front(path)
      BY <1>3, <1>4, <2>3
    <3>2. IsStrictPrefix(g.at, path)
      BY <1>3, <2>3 DEF PathMatchesGlob
    <3>3. IsPrefix(g.at, path) /\ g.at # path
      BY <3>2 DEF IsStrictPrefix
    <3>4. Len(g.at) <= Len(path) /\ \A i \in 1 .. Len(g.at) : g.at[i] = path[i]
      BY <1>4, <3>3, PrefixElements
    <3>5. Len(g.at) # Len(path)
      BY <1>4, <3>3, <3>4, SeqEqual
    <3> QED
      BY <1>5, <3>3, <3>4, <3>5
  <2>4. CASE g.form = "deep"
    <3>1. IsPrefix(g.at, path) /\ Len(path) > Len(g.at) + 1
      BY <1>3, <2>4 DEF PathMatchesGlob
    <3> QED
      BY <1>5, <3>1
  <2> QED
    BY <1>3, <1>4, <2>1, <2>2, <2>3, <2>4 DEF PathMatchesGlob
<1> DEFINE root == SubSeq(path, 1, 1)
<1>7. root \in Seq(Name) /\ Len(root) = 1 /\ IsPrefix(root, path)
  BY <1>5, <1>6, Beginning
<1>8. root[1] = g.at[1]
  <2>1. 1 \in 1 .. Len(g.at)
    BY <1>5
  <2>2. g.at[1] = path[1]
    BY <1>4, <1>6, <2>1, PrefixElements
  <2>3. root[1] = path[1]
    BY <1>5, <1>6
  <2> QED
    BY <2>2, <2>3
<1>9. root = <<g.at[1]>>
  <2> HIDE DEF root
  <2>1. g.at[1] \in Name
    BY <1>4, <1>5
  <2> QED
    BY <1>7, <1>8, <2>1
<1>10. root \in Dirs
  <2>1. 1 \in 1 .. (Len(path) - 1)
    BY <1>5, <1>6
  <2>2. root \in DirsOf(path)
    BY <2>1 DEF DirsOf
  <2> QED
    BY <2>2 DEF Dirs
<1> QED
  BY <1>2, <1>7, <1>9, <1>10

LEMMA WalkReaches == ScopeTypeOK => WalkFindsAll
<1> SUFFICES ASSUME ScopeTypeOK, NEW path \in Files,
                    PathIndexable(path), Len(path) <= settings.depth, ~ Shadowed(path),
                    settings.only # {} => Directly(path, settings.only),
                    ShouldIgnore(path, settings.patterns) => Directly(path, settings.allow)
             PROVE  path \in Indexed
  BY DEF WalkFindsAll
<1>1. path \in Seq(Name)
  BY ScopeAssumption
<1>2. /\ \A g \in settings.only : g.at \in Seq(Name)
      /\ \A g \in settings.allow : g.at \in Seq(Name)
  BY ScopeAssumption DEF ScopeTypeOK
<1>3. ASSUME NEW dir \in DirsOf(path)
      PROVE  ~ ShouldPrune(dir)
  <2>1. ~ Matches(dir, settings.skip)
    BY DEF Shadowed
  <2>2. ShouldIgnore(dir, settings.patterns) => SubtreeMightMatch(dir, settings.allow)
    BY <1>1, <1>2, MightMatchAbove DEF Shadowed
  <2>3. settings.only # {} => SubtreeMightMatch(dir, settings.only)
    BY <1>1, <1>2, MightMatchAbove
  <2> QED
    BY <2>1, <2>2, <2>3 DEF ShouldPrune
<1>4. \E root \in WalkRoots : IsPrefix(root, path)
  <2> DEFINE roots == PatternRoots(settings.only) \cap Dirs
  <2>1. CASE roots = {}
    <3>1. WalkRoots = {<<>>}
      BY <2>1 DEF WalkRoots
    <3>2. 0 \in 0 .. Len(path)
      BY <1>1
    <3>3. SubSeq(path, 1, 0) = <<>>
      BY SubSeqEmpty
    <3>4. IsPrefix(SubSeq(path, 1, 0), path)
      BY <1>1, <3>2, Beginning
    <3>5. IsPrefix(<<>>, path)
      BY <3>3, <3>4
    <3> QED
      BY <3>1, <3>5
  <2>2. CASE roots # {}
    <3>1. WalkRoots = roots
      BY <2>2 DEF WalkRoots
    <3>2. PatternRoots(settings.only) # {}
      BY <2>2
    <3>3. settings.only # {}
      BY <3>2 DEF PatternRoots
    <3>4. \E root \in PatternRoots(settings.only) \cap Dirs : IsPrefix(root, path)
      BY <1>1, <1>2, <3>2, <3>3, BeginsAbove
    <3> QED
      BY <3>1, <3>4
  <2> QED
    BY <2>1, <2>2
<1> QED
  BY <1>3, <1>4 DEF Indexed

\* Whatever tree and globs, and whatever the user puts into search.json and
\* .searchignore: the directories that the walk begins in, and those it does not
\* enter, cost it no file that should be indexed (iter_indexable_files,
\* should_prune_directory, walk_roots).
THEOREM WalkFindsEverything == ScopeSpec => []WalkFindsAll
  BY ScopeStart, ScopeStep, WalkReaches, PTL DEF ScopeSpec
=============================================================================
