------------------------------ MODULE FileOps ------------------------------
(***************************************************************************)
(* The file tools, environments/file/ops.py: create, overwrite, append,    *)
(* prepend, replace, delete (into .recycle_bin, or for good from there),   *)
(* move, the directory operations, and undo of the latest undoable one.    *)
(* They work on the workspace directly or through a remote I/O backend,    *)
(* whose answer can be lost after the service has done what was asked; a   *)
(* direct write that fails leaves a torn file.  Other programs write to    *)
(* the workspace too, and a restart forgets what could be undone.          *)
(*                                                                         *)
(* A path is a sequence of components <<name, stamp>>; a stamp is the      *)
(* second that delete adds to a name taken in the recycle bin, 0 for none. *)
(* The text of a file is a member of Contents.  The tools of one agent run *)
(* one after the other (graph.py, execute_tools), so an operation is one   *)
(* step with one of its outcomes.                                          *)
(***************************************************************************)
EXTENDS Integers, Sequences, FiniteSets, SequencesExt

CONSTANTS
    Contents,    \* what a file can hold
    Torn,        \* what a failed direct write leaves
    None,        \* no file
    Names,       \* what a file or directory can be called
    LiveFiles,   \* paths the agent writes, outside the recycle bin
    LiveDirs,    \* directories the agent works with
    MaxFiles,    \* bound: files on disk
    MaxDepth,    \* bound: components of a path
    MaxTime      \* bound: seconds

Path == Seq(Names \X Nat) \ {<<>>}
Plain(name) == <<name, 0>>
Bin == Plain(".recycle_bin")

ASSUME FileOpsAssumption ==
    /\ Torn \notin Contents /\ None \notin Contents \cup {Torn}
    /\ {MaxFiles, MaxDepth, MaxTime} \subseteq Nat \ {0}
    /\ ".recycle_bin" \in Names
    /\ LiveFiles \cup LiveDirs \subseteq Path
    /\ \A p \in LiveFiles \cup LiveDirs : p[1] # Bin
    /\ LiveFiles \cap LiveDirs = {}

VARIABLES
    remote,   \* a remote I/O backend is configured
    now,      \* int(time.time())
    tree,     \* path of a file -> what it holds
    dirs,     \* paths of the directories
    record,   \* the undo record of the workspace, or NoRecord
    kept      \* history: how often each content should be on disk

vars == <<remote, now, tree, dirs, record, kept>>

-----------------------------------------------------------------------------
Parents(p) == {SubSeq(p, 1, i) : i \in 1 .. Len(p) - 1}
Exists(p) == p \in DOMAIN tree \cup dirs
InBin(p) == p[1] = Bin
Get(t, p) == IF p \in DOMAIN t THEN t[p] ELSE None
Holding(t, p, c) == [q \in DOMAIN t \cup {p} |-> IF q = p THEN c ELSE t[q]]
Cut(t, p) == [q \in DOMAIN t \ {p} |-> t[q]]

\* Everything at and under src is now at and under dst.
Moved(q, src, dst) == IF IsPrefix(src, q) THEN dst \o SubSeq(q, Len(src) + 1, Len(q)) ELSE q
MovedTree(t, src, dst) ==
    LET into == {Moved(q, src, dst) : q \in DOMAIN t}
    IN [q \in into |-> LET from == {r \in DOMAIN t : Moved(r, src, dst) = q}
                           moving == {r \in from : IsPrefix(src, r)}
                       IN t[CHOOSE r \in (IF moving = {} THEN from ELSE moving) : TRUE]]

\* _capture_local_snapshot, _capture_backend_snapshot
Snapshot(t, p) == [path |-> p, data |-> Get(t, p)]

\* The record of an operation, and as history what the paths it touched held
\* before and after.
NoRecord == [before |-> None]
Record(before, after, nt) ==
    LET touched == {before.path} \cup
                   {q \in DOMAIN tree \cup DOMAIN nt : Get(tree, q) # Get(nt, q)}
    IN [before |-> before, after |-> after,
        was |-> [q \in touched |-> Get(tree, q)],
        left |-> [q \in touched |-> Get(nt, q)]]

\* History: a file that held `old` now holds `new`.
Count(k, c, by) == IF c \in Contents THEN [k EXCEPT ![c] = @ + by] ELSE k
Replaced(k, old, new) == Count(Count(k, old, -1), new, 1)

\* How an operation on the file system ends: it succeeds; the service does it
\* and the answer is lost, so the tool reports an error; a direct write fails
\* halfway.  (One that fails before it changes anything is no step.)
Outcomes == IF remote THEN {"done", "unanswered"} ELSE {"done", "torn"}

Init ==
    /\ remote \in BOOLEAN
    /\ now = 1
    /\ tree = [p \in {} |-> None]
    /\ dirs = {}
    /\ record = NoRecord
    /\ kept = [c \in Contents |-> 0]

-----------------------------------------------------------------------------
\* A write of the whole file.  What follows the write, clearing the record or
\* storing one, is not reached when the write raises.
Writes(p, c, o, rec) ==
    LET new == IF o = "torn" THEN Torn ELSE c
    IN /\ Cardinality(DOMAIN tree \cup {p}) <= MaxFiles
       /\ p \notin dirs /\ Parents(p) \cap DOMAIN tree = {}
       /\ tree' = Holding(tree, p, new)
       /\ dirs' = dirs \cup Parents(p)
       /\ record' = IF o = "done" THEN rec ELSE record
       /\ kept' = Replaced(kept, Get(tree, p), new)
       /\ UNCHANGED <<remote, now>>

\* write_file, mode create: not undoable, and forgets the last undo.
Create(p, c, o) == ~Exists(p) /\ Writes(p, c, o, NoRecord)

\* write_file, modes append and prepend: the file holds another text now.
\* An append that fails leaves the text that was there.
Extend(p, c, o) == Writes(p, c, o, NoRecord)

\* write_file, mode overwrite
Overwrite(p, c, o) ==
    LET nt == Holding(tree, p, c)
    IN Writes(p, c, o, Record(Snapshot(tree, p), Snapshot(nt, p), nt))

\* str_replace with the revision of the text that is there; any other revision
\* is refused.
StrReplace(p, c, o) ==
    /\ p \in DOMAIN tree /\ tree[p] \notin {c, Torn}
    /\ LET nt == Holding(tree, p, c)
       IN Writes(p, c, o, Record(Snapshot(tree, p), Snapshot(nt, p), nt))

\* Where delete_file puts a file whose name is taken in the recycle bin: next
\* to it with the second added; the remote branch drops the directories.
Stamped(p) ==
    IF remote THEN <<Bin, <<Last(p)[1], now>> >>
    ELSE Front(<<Bin>> \o p) \o << <<Last(p)[1], now>> >>
\* Mutant: does not look whether the name is taken.
AlwaysPlain(p) == <<Bin>> \o p

RecyclePath(p) == IF Exists(<<Bin>> \o p) THEN Stamped(p) ELSE <<Bin>> \o p

\* The direct branch records the path without the second.
RecordedPath(p) == IF remote THEN RecyclePath(p) ELSE <<Bin>> \o p

\* delete_file, outside the recycle bin.  A file already at the stamped path,
\* deleted in the same second, is replaced: what it held is lost.
Recycle(p, o) ==
    LET dest == RecyclePath(p)
        nt == Holding(Cut(tree, p), dest, tree[p])
        after == [path |-> RecordedPath(p), data |-> tree[p]]
    IN /\ ~InBin(p) /\ dest \notin dirs /\ Len(dest) <= MaxDepth
       /\ Parents(dest) \cap DOMAIN tree = {}
       /\ tree' = nt
       /\ dirs' = dirs \cup Parents(dest)
       /\ record' = IF o = "done" THEN Record(Snapshot(tree, p), after, nt) ELSE record
       /\ kept' = IF dest = Stamped(p) THEN Count(kept, Get(tree, dest), -1) ELSE kept
       /\ UNCHANGED <<remote, now>>

\* delete_file, in the recycle bin: for good, but for the undo.
Purge(p, o) ==
    LET nt == Cut(tree, p)
    IN /\ InBin(p)
       /\ tree' = nt
       /\ record' = IF o = "done" THEN Record(Snapshot(tree, p), Snapshot(nt, p), nt)
                    ELSE record
       /\ kept' = Count(kept, tree[p], -1)
       /\ UNCHANGED <<remote, now, dirs>>

\* move_file, to a path or into a directory.
Target(p, destination) ==
    IF destination \in dirs THEN Append(destination, Last(p)) ELSE destination
MoveFile(p, destination, o) ==
    LET dst == Target(p, destination)
        nt == Holding(Cut(tree, p), dst, tree[p])
    IN /\ ~Exists(dst)
       /\ Parents(dst) \cap DOMAIN tree = {}
       /\ tree' = nt
       /\ dirs' = dirs \cup Parents(dst)
       /\ record' = IF o = "done" THEN Record(Snapshot(tree, p), Snapshot(nt, dst), nt)
                    ELSE record
       /\ UNCHANGED <<remote, now, kept>>

\* Mutant: does not look whether the old path is free again.
OldPathUnseen ==
    record.after.path \in dirs \/ Get(tree, record.after.path) # record.after.data

\* Mutant: the record of the last operation is expected under the old path.
OldPathExpected ==
    \/ record.after.path \in dirs
    \/ Get(tree, record.before.path) # record.after.data
    \/ record.before.path # record.after.path /\ Exists(record.before.path)

\* _validate_current_snapshot, and the old path must still be free.
Refused ==
    \/ record.after.path \in dirs
    \/ Get(tree, record.after.path) # record.after.data
    \/ record.before.path # record.after.path /\ Exists(record.before.path)

\* undo_file_operation removes what the operation left, then puts back what
\* it found; the record goes when both are done.
LeftRemoved ==
    IF /\ record.after.data # None
       /\ record.after.path # record.before.path \/ record.before.data = None
    THEN Cut(tree, record.after.path) ELSE tree
FoundRestored(t, found) ==
    IF found = None THEN Cut(t, record.before.path) ELSE Holding(t, record.before.path, found)

Undo(o) ==
    LET before == record.before
        after == record.after
        found == IF o = "torn" /\ before.data # None THEN Torn ELSE before.data
    IN /\ record # NoRecord /\ ~Refused
       /\ found # None => Parents(before.path) \cap DOMAIN tree = {}
       /\ tree' = FoundRestored(LeftRemoved, found)
       /\ dirs' = IF found # None THEN dirs \cup Parents(before.path) ELSE dirs
       /\ record' = IF o = "done" THEN NoRecord ELSE record
       /\ kept' = IF after.path = before.path THEN Replaced(kept, after.data, found)
                  ELSE IF found = Torn THEN Count(kept, after.data, -1) ELSE kept
       /\ UNCHANGED <<remote, now>>

\* The removal succeeds and the restoration raises: the text is in the record
\* only, and the record refuses every further undo.
UndoHalfway ==
    /\ record # NoRecord /\ ~Refused
    /\ LeftRemoved # tree /\ record.before.data # None
    /\ tree' = LeftRemoved
    /\ kept' = Count(kept, record.after.data, -1)
    /\ UNCHANGED <<remote, now, dirs, record>>

-----------------------------------------------------------------------------
\* set_directory touches no undo record.
MakeDir(d) ==
    /\ ~Exists(d) /\ Parents(d) \cap DOMAIN tree = {}
    /\ dirs' = dirs \cup {d} \cup Parents(d)
    /\ UNCHANGED <<remote, now, tree, record, kept>>

\* The directory src goes to dst; into dst, when that is a directory; but never
\* into itself.
MovesDir(src, dst) ==
    LET into == IF dst \in dirs THEN Append(dst, Last(src)) ELSE dst
    IN /\ src \in dirs /\ ~Exists(into) /\ ~IsPrefix(src, into)
       /\ Parents(into) \cap DOMAIN tree = {}
       /\ \A q \in DOMAIN tree \cup dirs : Len(Moved(q, src, into)) <= MaxDepth
       /\ tree' = MovedTree(tree, src, into)
       /\ dirs' = {Moved(q, src, into) : q \in dirs} \cup Parents(into)
       /\ UNCHANGED <<remote, now, record, kept>>

\* set_directory, actions rename and move
RenameDir(d, e) == ~Exists(e) /\ MovesDir(d, e)

\* set_directory, action delete: only the direct branch looks whether the
\* name is taken in the recycle bin.
RecycleDir(d) ==
    MovesDir(d, IF ~remote /\ Exists(<<Bin>> \o d) THEN Stamped(d) ELSE <<Bin>> \o d)

PurgeDir(d) ==
    LET under == {q \in DOMAIN tree : IsPrefix(d, q)}
    IN /\ d \in dirs /\ InBin(d) /\ Len(d) > 1
       /\ tree' = [q \in DOMAIN tree \ under |-> tree[q]]
       /\ dirs' = {q \in dirs : ~IsPrefix(d, q)}
       /\ kept' = [c \in Contents |-> kept[c] - Cardinality({q \in under : tree[q] = c})]
       /\ UNCHANGED <<remote, now, record>>

\* Another program writes or removes a file.
OthersWrite(p, c) ==
    /\ Get(tree, p) # c
    /\ Writes(p, c, "done", record)
OthersRemove(p) ==
    /\ tree' = Cut(tree, p)
    /\ kept' = Count(kept, tree[p], -1)
    /\ UNCHANGED <<remote, now, dirs, record>>

\* The process is started again: undo records are kept in memory.
Restart == record # NoRecord /\ record' = NoRecord /\ UNCHANGED <<remote, now, tree, dirs, kept>>

Second == now < MaxTime /\ now' = now + 1 /\ UNCHANGED <<remote, tree, dirs, record, kept>>

WriteTools ==
    \E p \in LiveFiles, c \in Contents, o \in Outcomes :
        Create(p, c, o) \/ Extend(p, c, o) \/ Overwrite(p, c, o) \/ StrReplace(p, c, o)
FileTools ==
    \E p \in DOMAIN tree, o \in Outcomes \ {"torn"} :
        \/ Recycle(p, o) \/ Purge(p, o)
        \/ \E q \in LiveFiles \cup (LiveDirs \cap dirs) : MoveFile(p, q, o)
DirTools ==
    \/ \E d \in LiveDirs : MakeDir(d) \/ RecycleDir(d)
    \/ \E d, e \in LiveDirs : RenameDir(d, e)
    \/ \E d \in dirs : PurgeDir(d)
Others ==
    \/ \E p \in LiveFiles : \E c \in Contents : OthersWrite(p, c)
    \/ \E p \in LiveFiles \cap DOMAIN tree : OthersRemove(p)

Next ==
    \/ WriteTools \/ FileTools \/ DirTools \/ Others \/ Restart \/ Second
    \/ \E o \in Outcomes : Undo(o)
    \/ UndoHalfway

Spec == Init /\ [][Next]_vars

-----------------------------------------------------------------------------
TypeOK ==
    /\ remote \in BOOLEAN
    /\ now \in 1 .. MaxTime
    /\ \A p \in DOMAIN tree : tree[p] \in Contents \cup {Torn} /\ Parents(p) \subseteq dirs
    /\ DOMAIN tree \cap dirs = {}
    /\ kept \in [Contents -> Int]

\* A delete, a move, an undo or a directory operation neither loses a text nor
\* leaves it twice: each is on disk as often as the writes, the deletions for
\* good and the other programs account for.  The causes of a loss are a torn
\* write, an undo stopped halfway, and a deletion in the very second of another
\* one that took the same stamped name.
Conserved ==
    /\ TypeOK
    /\ \A c \in Contents : Cardinality({p \in DOMAIN tree : tree[p] = c}) = kept[c]

\* The record names a file the operation did not touch (the direct branch of
\* delete_file when the name was taken), or the operation replaced a file of
\* the same second.
Misnamed == record.after.path \notin DOMAIN record.was
Clobbered == /\ record.after.path # record.before.path
             /\ record.after.path \in DOMAIN record.was
             /\ record.was[record.after.path] # None

\* An undo that reports success overwrites nothing newer than the operation,
\* leaves every path the operation touched as it was before, and no other path
\* changed, whatever other operations, other programs and lost answers there
\* were in between.
UndoRestores ==
    [][Undo("done") /\ ~Misnamed /\ ~Clobbered =>
          \A p \in DOMAIN tree \cup DOMAIN tree' \cup DOMAIN record.was :
             IF p \in DOMAIN record.was
             THEN Get(tree, p) = record.left[p] /\ Get(tree', p) = record.was[p]
             ELSE Get(tree', p) = Get(tree, p)]_vars

\* As long as what an operation touched is as it left it, its token is good.
UndoAccepted ==
    /\ record # NoRecord /\ ~Misnamed
    /\ \A p \in DOMAIN record.left : Get(tree, p) = record.left[p] /\ p \notin dirs
    => ~Refused
=============================================================================
