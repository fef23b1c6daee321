----------------------------- MODULE MCFileOps -----------------------------
(* The files of a workspace, changed by tools or replaced by writers: one     *)
(* rests while the other moves.  The tools have two names for one file, at    *)
(* the top and in a directory, a second name for the directory, and two texts. *)
EXTENDS FileOps, Persistence, TLC

CONSTANTS one, two

f == <<Plain("f")>>
d == <<Plain("d")>>
e == <<Plain("e")>>
MCLiveFiles == {f, d \o f}
MCLiveDirs == {d, e}

\* Bound: three files at the top and in the recycle bin, or two files, and three
\* directories at a time; a torn file is alone; the
\* second name of the directory only while there is no recycle bin.
Slice ==
    /\ \/ dirs \subseteq {<<Bin>>}
       \/ Cardinality(DOMAIN tree) <= 2 /\ Cardinality(dirs) <= 3
    /\ e \in dirs => <<Bin>> \notin dirs
    /\ Torn \in Range(tree) => Cardinality(DOMAIN tree) = 1

ToolsOrWriters ==
    \/ FileInit /\ Next /\ UNCHANGED fileVars
    \/ Init /\ FileNext /\ UNCHANGED vars

Start == Init /\ FileInit

Both == Start /\ [][ToolsOrWriters]_<<vars, fileVars>>

Interchangeable == Permutations(Contents)
=============================================================================
