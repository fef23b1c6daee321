----------------------------- MODULE SearchIndex -----------------------------
(***************************************************************************)
(* The search index of a workspace (arion_agent/semantic_search): the      *)
(* watchdog handler that debounces file events, the timer thread that      *)
(* handles a batch of them, the indexer thread that scans and indexes, and *)
(* the store (chunk rows and manifest) the last two write.                 *)
(*                                                                         *)
(* A file is its content; its rows are the contents whose chunks the table *)
(* holds under its path.  No lock joins the two threads' updates of the    *)
(* manifest: each reads it in one step and writes it back in another.      *)
(***************************************************************************)
EXTENDS Integers, FiniteSets

CONSTANTS
  Paths,
  Contents,
  NoFile,      \* no such file; no manifest entry
  NoHash,      \* the null a manifest entry holds for a file gone before its hash
  BatchSize,   \* INCREMENTAL_BATCH_FILES
  Scopes,      \* bound: the sets of paths search.json may select
  Patient,     \* moves and restarts wait until the index is quiet
  MaxEdits,    \* bound: edits of the workspace
  MaxFaults    \* bound: deaths of the indexer thread or of the process

ASSUME SearchAssumption ==
  /\ NoFile \notin Contents /\ NoHash \notin Contents /\ NoFile # NoHash
  /\ BatchSize \in Nat \ {0}
  /\ Scopes \subseteq SUBSET Paths
  /\ Patient \in BOOLEAN
  /\ MaxEdits \in Nat /\ MaxFaults \in Nat

VARIABLES
  disk,      \* the files
  wanted,    \* the paths search.json selects
  noted,     \* _DebouncedHandler._pending
  watching,  \* the observer runs
  batch,     \* the batch handle_watcher_batch is working on
  wpc,       \* where that call is
  wseen,     \* the manifest it compares renames with
  wcopy,     \* the manifest it is about to write
  rows, manifest,
  scope,     \* _index_scope
  synced,    \* _initial_sync_done
  queue,     \* _queue, which _pending mirrors
  pc,        \* where the indexer thread is
  todo,      \* its plan, or the files of its batch
  copy,      \* the manifest it is about to write
  asked,     \* history: a resync was requested after the last scan began
  torn,      \* history: paths whose manifest entry is newer than their rows
  edits, faults

watcherVars == <<noted, watching, batch, wpc, wseen, wcopy>>
storeVars == <<rows, manifest, torn>>
indexerVars == <<scope, synced, queue, pc, todo, copy, asked>>
worldVars == <<disk, wanted, edits, faults>>
vars == <<worldVars, watcherVars, storeVars, indexerVars>>

Changed(p) == <<"changed", p>>
MovedFrom(p) == <<"deleted", p>>     \* "__deleted__:" + p
Config == <<"config", "search.json">>
Events == {Changed(p) : p \in Paths} \cup {MovedFrom(p) : p \in Paths} \cup {Config}

NoEntries == [p \in Paths |-> NoFile]
NoWork == [renames |-> {}, removals |-> {}, index |-> {}, file |-> {}, boot |-> FALSE]

(* Nothing is left to do: no event, no batch, no queued file, and the      *)
(* thread is between two rounds with its first sync done.                  *)
Quiet ==
  /\ watching /\ noted = {} /\ wpc = "idle"
  /\ pc = "loop" /\ synced /\ queue = {} /\ scope = wanted

Settling == wpc # "idle" \/ \E p \in Paths : MovedFrom(p) \in noted

-----------------------------------------------------------------------------

Init ==
  /\ disk = NoEntries /\ wanted \in Scopes /\ edits = 0 /\ faults = 0
  /\ noted = {} /\ watching = FALSE /\ batch = {} /\ wpc = "idle"
  /\ wseen = NoEntries /\ wcopy = NoEntries
  /\ rows = [p \in Paths |-> {}] /\ manifest = NoEntries /\ torn = {}
  /\ scope = wanted /\ synced = FALSE /\ queue = {} /\ pc = "off"
  /\ todo = NoWork /\ copy = NoEntries /\ asked = FALSE

(* The observer notes an event as it happens; how long the debounce holds  *)
(* it is up to Flush.                                                      *)
Note(events) == noted' = IF watching THEN noted \cup events ELSE noted

(* A patient user does not edit while a start scans but does not watch     *)
(* yet, nor while a move is being handled.                                 *)
Edit ==
  /\ edits < MaxEdits
  /\ edits' = edits + 1
  /\ Patient => (watching \/ pc = "off") /\ ~ Settling
  /\ UNCHANGED <<faults, watching, batch, wpc, wseen, wcopy, storeVars, indexerVars>>

Write(p, c) ==
  /\ Edit
  /\ disk[p] # c
  /\ disk' = [disk EXCEPT ![p] = c]
  /\ Note({Changed(p)})
  /\ UNCHANGED wanted

(* on_deleted notes the path as a change. *)
Delete(p) ==
  /\ Edit
  /\ disk[p] # NoFile
  /\ disk' = [disk EXCEPT ![p] = NoFile]
  /\ Note({Changed(p)})
  /\ UNCHANGED wanted

(* on_moved.  A patient user moves a file to a name that is not indexed.   *)
Move(p, q) ==
  /\ Edit
  /\ disk[p] # NoFile /\ p # q
  /\ Patient => Quiet /\ rows[q] = {}
  /\ disk' = [disk EXCEPT ![p] = NoFile, ![q] = disk[p]]
  /\ Note({MovedFrom(p), Changed(q)})
  /\ UNCHANGED wanted

Reconfigure(s) ==
  /\ Edit
  /\ s # wanted
  /\ wanted' = s
  /\ Note({Config})
  /\ UNCHANGED disk

-----------------------------------------------------------------------------
(* What both threads do to the store. *)

(* rename_path: the rows of p are put under q, beside what is there. *)
RenameRows(p, q) ==
  /\ rows' = [rows EXCEPT ![q] = @ \cup rows[p], ![p] = {}]
  /\ torn' = IF p \in torn THEN (torn \ {p}) \cup {q} ELSE torn

(* apply_renames takes the entry along if there were rows; its two writes  *)
(* of the manifest are one here.                                           *)
RenameEntry(p, q) ==
  IF rows[p] # {} /\ manifest[p] \notin {NoFile, NoHash}
    THEN [manifest EXCEPT ![p] = NoFile, ![q] = manifest[p]]
    ELSE manifest

RemoveRows(gone) ==
  /\ rows' = [p \in Paths |-> IF p \in gone THEN {} ELSE rows[p]]
  /\ torn' = torn \ gone

RemoveEntries(gone) == [p \in Paths |-> IF p \in gone THEN NoFile ELSE manifest[p]]

-----------------------------------------------------------------------------
(* The timer thread. *)

Flush ==
  /\ watching /\ wpc = "idle" /\ noted # {}
  /\ batch' = noted
  /\ noted' = {}
  /\ wpc' = IF Config \in noted THEN "config" ELSE "load"
  /\ UNCHANGED <<worldVars, watching, wseen, wcopy, storeVars, indexerVars>>

(* _maybe_reload_scope and _request_resync. *)
Resync ==
  /\ scope' = wanted
  /\ synced' = FALSE
  /\ queue' = {}
  /\ asked' = TRUE

HandleConfig ==
  /\ wpc = "config"
  /\ Resync
  /\ batch' = {}
  /\ wpc' = "idle"
  /\ UNCHANGED <<worldVars, noted, watching, wseen, wcopy, storeVars, pc, todo, copy>>

Gone == {p \in Paths : MovedFrom(p) \in batch}
Updated == {p \in Paths : Changed(p) \in batch}

HandleLoad ==
  /\ wpc = "load"
  /\ wseen' = manifest
  /\ wpc' = "match"
  /\ UNCHANGED <<worldVars, noted, watching, batch, wcopy, storeVars, indexerVars>>

(* A moved file whose content is the one the manifest knows by its old     *)
(* name is renamed.                                                        *)
Renamed(p, q) ==
  /\ p \in Gone /\ q \in Updated
  /\ disk[q] # NoFile /\ disk[q] = wseen[p]

HandleRename ==
  /\ wpc = "match"
  /\ \E p, q \in Paths :
       /\ Renamed(p, q)
       /\ RenameRows(p, q)
       /\ wcopy' = RenameEntry(p, q)
       /\ batch' = batch \ {MovedFrom(p), Changed(q)}
       /\ wpc' = IF wcopy' = manifest THEN "match" ELSE "save"
  /\ UNCHANGED <<worldVars, noted, watching, wseen, manifest, indexerVars>>

HandleRemove ==
  /\ wpc = "match"
  /\ Gone # {}
  /\ ~ \E p, q \in Paths : Renamed(p, q)
  /\ RemoveRows(Gone)
  /\ wcopy' = RemoveEntries(Gone)
  /\ batch' = {Changed(p) : p \in Updated}
  /\ wpc' = "save"
  /\ UNCHANGED <<worldVars, noted, watching, wseen, manifest, indexerVars>>

HandleSave ==
  /\ wpc = "save"
  /\ manifest' = wcopy
  /\ wpc' = "match"
  /\ UNCHANGED <<worldVars, noted, watching, batch, wseen, wcopy, rows, torn,
                 indexerVars>>

(* request_paths *)
HandleRequest ==
  /\ wpc = "match"
  /\ Gone = {}
  /\ queue' = queue \cup Updated
  /\ batch' = {}
  /\ wpc' = "idle"
  /\ UNCHANGED <<worldVars, noted, watching, wseen, wcopy, storeVars, scope, synced,
                 pc, todo, copy, asked>>

-----------------------------------------------------------------------------
(* The indexer thread. *)

(* The loop of _run notices a changed search.json by itself, and so does   *)
(* any call of status.                                                     *)
Reload ==
  /\ scope # wanted
  /\ Resync
  /\ UNCHANGED <<worldVars, watcherVars, storeVars, pc, todo, copy>>

LoopReload == pc = "loop" /\ Reload
StatusReload == pc # "loop" /\ Reload

(* scan_manifest *)
InScope(p) == disk[p] # NoFile /\ p \in scope

(* detect_renames: a new path may take over the one missing path of its    *)
(* content, and each missing path is taken over once.                      *)
RenamesOf(old) ==
  LET missing == {p \in Paths : old[p] # NoFile /\ ~ InScope(p)}
      added == {p \in Paths : old[p] = NoFile /\ InScope(p)}
  IN {r \in missing \X added : {p \in missing : old[p] = disk[r[2]]} = {r[1]}}

RenamePlans(old) ==
  {plan \in SUBSET RenamesOf(old) :
     \A r \in RenamesOf(old) : \E s \in plan : {t \in plan : t[1] = r[1]} = {s}}

(* plan_sync: the manifest against a scan of the workspace. *)
Removals(old, renames) ==
  {p \in Paths : old[p] # NoFile /\ ~ InScope(p) /\ \A r \in renames : r[1] # p}

ToIndex(old, renames) ==
  {p \in Paths : InScope(p) /\ old[p] # disk[p] /\ \A r \in renames : r[2] # p}

PlanSync ==
  /\ pc = "loop" /\ scope = wanted /\ ~ synced
  /\ \E renames \in RenamePlans(manifest) :
       todo' = [NoWork EXCEPT !.renames = renames,
                              !.removals = Removals(manifest, renames),
                              !.index = ToIndex(manifest, renames),
                              !.boot = TRUE]
  /\ pc' = "renames"
  /\ asked' = FALSE
  /\ UNCHANGED <<worldVars, watcherVars, storeVars, scope, synced, queue, copy>>

PlanRename ==
  /\ pc = "renames"
  /\ \E r \in todo.renames :
       /\ RenameRows(r[1], r[2])
       /\ copy' = RenameEntry(r[1], r[2])
       /\ todo' = [todo EXCEPT !.renames = @ \ {r}]
  /\ pc' = IF copy' = manifest THEN "renames" ELSE "renamed"
  /\ UNCHANGED <<worldVars, watcherVars, manifest, scope, synced, queue, asked>>

PlanRenamed ==
  /\ pc = "renamed"
  /\ manifest' = copy
  /\ pc' = "renames"
  /\ UNCHANGED <<worldVars, watcherVars, rows, torn, scope, synced, queue, todo, copy,
                 asked>>

PlanRemove ==
  /\ pc = "renames" /\ todo.renames = {} /\ todo.removals # {}
  /\ RemoveRows(todo.removals)
  /\ copy' = RemoveEntries(todo.removals)
  /\ todo' = [todo EXCEPT !.removals = {}]
  /\ pc' = "renamed"
  /\ UNCHANGED <<worldVars, watcherVars, manifest, scope, synced, queue, asked>>

PlanRequest ==
  /\ pc = "renames" /\ todo.renames = {} /\ todo.removals = {}
  /\ queue' = queue \cup todo.index
  /\ todo' = [NoWork EXCEPT !.boot = TRUE]
  /\ pc' = "boot"
  /\ UNCHANGED <<worldVars, watcherVars, storeVars, scope, synced, copy, asked>>

(* Mutant: the first sync is never marked done. *)
BootRepeats ==
  /\ pc = "boot" /\ queue = {}
  /\ todo' = NoWork
  /\ pc' = "loop"
  /\ UNCHANGED <<worldVars, watcherVars, storeVars, scope, synced, queue, copy, asked>>

(* The end of _bootstrap_sync: whatever was requested meanwhile, the first *)
(* sync counts as done.                                                    *)
BootDone ==
  /\ pc = "boot" /\ queue = {}
  /\ synced' = TRUE
  /\ todo' = NoWork
  /\ pc' = "loop"
  /\ UNCHANGED <<worldVars, watcherVars, storeVars, scope, queue, copy, asked>>

(* _drain_batch: what is not a file is dropped. *)
Drain ==
  /\ queue # {}
  /\ \/ pc = "boot"
     \/ pc = "loop" /\ scope = wanted /\ synced
  /\ \E taken \in SUBSET queue :
       /\ \/ Cardinality(taken) = BatchSize
          \/ Cardinality(taken) < BatchSize /\ taken = queue
       /\ queue' = queue \ taken
       /\ todo' = [todo EXCEPT !.index = {p \in taken : disk[p] # NoFile}]
       /\ pc' = IF todo'.index = {} THEN pc ELSE "batch"
  /\ UNCHANGED <<worldVars, watcherVars, storeVars, scope, synced, copy, asked>>

(* _index_one_file: the file is read (one that is gone by now ends the     *)
(* thread) and its chunks embedded, then its rows are replaced, then it is *)
(* hashed anew for the manifest.                                           *)
IndexRead ==
  /\ pc = "batch"
  /\ \E p \in todo.index :
       /\ disk[p] # NoFile
       /\ todo' = [todo EXCEPT !.file = {<<p, disk[p]>>}]
       /\ pc' = "embed"
  /\ UNCHANGED <<worldVars, watcherVars, storeVars, scope, synced, queue, copy, asked>>

IndexVanished ==
  /\ pc = "batch"
  /\ \E p \in todo.index : disk[p] = NoFile
  /\ pc' = "off"
  /\ todo' = NoWork
  /\ UNCHANGED <<worldVars, watcherVars, storeVars, scope, synced, queue, copy, asked>>

(* chunk_file never returns an empty list: the branch of _index_one_file   *)
(* for a file without chunks is never taken.                               *)
Chunks(c) == {c}

IndexUpsert ==
  /\ pc = "embed"
  /\ \E f \in todo.file :
       /\ rows' = [rows EXCEPT ![f[1]] = Chunks(f[2])]
       /\ torn' = torn \ {f[1]}
  /\ pc' = "hash"
  /\ UNCHANGED <<worldVars, watcherVars, manifest, scope, synced, queue, todo, copy,
                 asked>>

EntryAfter(p) == IF disk[p] = NoFile THEN NoHash ELSE disk[p]

IndexHash ==
  /\ pc = "hash"
  /\ \E f \in todo.file :
       /\ copy' = [manifest EXCEPT ![f[1]] = EntryAfter(f[1])]
       /\ torn' = IF EntryAfter(f[1]) \in Contents \ {f[2]}
                    THEN torn \cup {f[1]} ELSE torn
  /\ pc' = "save"
  /\ UNCHANGED <<worldVars, watcherVars, rows, manifest, scope, synced, queue, todo,
                 asked>>

(* The next file of the batch, or the next round. *)
IndexSave ==
  /\ pc = "save"
  /\ manifest' = copy
  /\ LET left == todo.index \ {f[1] : f \in todo.file} IN
       /\ todo' = [todo EXCEPT !.file = {}, !.index = left]
       /\ pc' = IF left # {} THEN "batch" ELSE IF todo.boot THEN "boot" ELSE "loop"
  /\ UNCHANGED <<worldVars, watcherVars, rows, torn, scope, synced, queue, copy, asked>>

-----------------------------------------------------------------------------

(* An exception of the chunker or the embedder ends the thread. *)
Die ==
  /\ pc \in {"batch", "embed"} /\ faults < MaxFaults
  /\ faults' = faults + 1
  /\ pc' = "off"
  /\ todo' = NoWork
  /\ UNCHANGED <<disk, wanted, edits, watcherVars, storeVars, scope, synced, queue, copy,
                 asked>>

(* The process ends.  A patient user stops it when the index is quiet. *)
Exit ==
  /\ pc # "off" /\ faults < MaxFaults
  /\ Patient => Quiet
  /\ faults' = faults + 1
  /\ watching' = FALSE /\ noted' = {} /\ batch' = {} /\ wpc' = "idle"
  /\ pc' = "off" /\ todo' = NoWork /\ synced' = FALSE /\ queue' = {}
  /\ UNCHANGED <<disk, wanted, edits, storeVars, wseen, wcopy, scope, copy, asked>>

(* Mutant: a restarted thread goes on where the first sync was done. *)
EnsureRunningUnsynced ==
  /\ pc = "off"
  /\ pc' = "loop"
  /\ queue' = {}
  /\ scope' = IF watching THEN scope ELSE wanted
  /\ UNCHANGED <<worldVars, watcherVars, storeVars, synced, todo, copy, asked>>

(* ensure_running, by service.start at every agent turn; a new process     *)
(* resolves its scope before.                                              *)
EnsureRunning ==
  /\ pc = "off"
  /\ pc' = "loop"
  /\ synced' = FALSE
  /\ queue' = {}
  /\ scope' = IF watching THEN scope ELSE wanted
  /\ UNCHANGED <<worldVars, watcherVars, storeVars, todo, copy, asked>>

(* start goes on to start the observer. *)
WatchStart ==
  /\ ~ watching /\ pc # "off"
  /\ watching' = TRUE
  /\ UNCHANGED <<worldVars, noted, batch, wpc, wseen, wcopy, storeVars, indexerVars>>

User ==
  \/ \E p \in Paths, c \in Contents : Write(p, c)
  \/ \E p \in Paths : Delete(p)
  \/ \E p, q \in Paths : Move(p, q)
  \/ \E s \in Scopes : Reconfigure(s)

Watcher ==
  \/ Flush \/ HandleConfig \/ HandleLoad \/ HandleRename \/ HandleRemove
  \/ HandleSave \/ HandleRequest

Indexer ==
  \/ LoopReload \/ PlanSync \/ PlanRename \/ PlanRenamed \/ PlanRemove \/ PlanRequest
  \/ BootDone \/ Drain
  \/ IndexRead \/ IndexVanished \/ IndexUpsert \/ IndexHash \/ IndexSave

Next == User \/ Watcher \/ Indexer \/ StatusReload \/ Die \/ Exit \/ EnsureRunning \/ WatchStart

(* Both threads run on, and the agent keeps having turns. *)
Fairness ==
  /\ WF_vars(Watcher) /\ WF_vars(Indexer)
  /\ WF_vars(EnsureRunning) /\ WF_vars(WatchStart)

Spec == Init /\ [][Next]_vars /\ Fairness

-----------------------------------------------------------------------------

(* The store, the events and the places of both threads are as declared.   *)
TypeOK ==
  /\ disk \in [Paths -> Contents \cup {NoFile}]
  /\ manifest \in [Paths -> Contents \cup {NoFile, NoHash}]
  /\ rows \in [Paths -> SUBSET Contents]
  /\ torn \subseteq Paths /\ queue \subseteq Paths
  /\ noted \subseteq Events /\ batch \subseteq Events
  /\ wanted \in Scopes /\ scope \in Scopes
  /\ watching \in BOOLEAN /\ synced \in BOOLEAN /\ asked \in BOOLEAN
  /\ pc \in {"off", "loop", "renames", "renamed", "boot", "batch", "embed", "hash",
             "save"}
  /\ wpc \in {"idle", "config", "load", "match", "save"}
  /\ wpc = "idle" => batch = {}
  /\ pc \in {"embed", "hash", "save"} <=> todo.file # {}

Fresh ==
  \A p \in wanted \ torn : disk[p] # NoFile => rows[p] = Chunks(disk[p])

(* Once events, queue and threads have come to rest, a search finds every  *)
(* file in scope with exactly its present content, whatever was written or *)
(* deleted while files were being indexed and wherever a read, the chunker *)
(* or the embedder ended the thread.  Two things the code gets wrong are   *)
(* excepted: a lost rescan (asked), and a file hashed after it changed     *)
(* again (torn).                                                           *)
QuietFresh == TypeOK /\ (Quiet /\ ~ asked => Fresh)

(* The index comes to rest once the workspace does. *)
Converges == <>[]Quiet
=============================================================================
