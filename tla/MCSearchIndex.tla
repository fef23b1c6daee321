---------------------------- MODULE MCSearchIndex ----------------------------
(***************************************************************************)
(* SearchIndex with two paths, of which search.json selects one or both;   *)
(* SearchScope with the files of a small tree; Chunker with files of a few *)
(* lines.  They share nothing but the set of files and the chunks, which   *)
(* SearchIndex takes as they come: one moves while the others are where    *)
(* they began.                                                             *)
(***************************************************************************)
EXTENDS SearchIndex, SearchScope, Chunker

CONSTANTS f, g

BothOrOne == {{f, g}, {f}}

\* ----------------------------------------------------------- the workspace
Src == <<"s", "">>
Docs == <<"d", "">>
Py == <<"f", "py">>
Md == <<"g", "md">>

MCFiles == {<<Py>>, <<Md>>, <<Src, Py>>, <<Src, Md>>, <<Docs, Py>>, <<Src, Docs, Py>>,
            <<Src, Docs, Md>>, <<Docs, Src, Docs, Py>>, <<Src, <<"x", "py">>, Md>>}

Glob(form, at, ext) == [form |-> form, at |-> at, ext |-> ext]

MCGlobs == {Glob("under", at, "") : at \in {<<Src>>, <<Docs>>, <<Src, Docs>>}}
    \cup {Glob("file", at, "") : at \in {<<Py>>, <<Src, Py>>, <<Src, Docs>>}}
    \cup {Glob("in", <<Src>>, "py"), Glob("in", <<>>, "py"), Glob("any", <<>>, "py")}
    \cup {Glob("deep", <<Src>>, "py"), Glob("deep", <<Src>>, "md")}

MCIgnores == {Glob("dir", at, "") : at \in {<<Src>>, <<Docs>>, <<Src, Docs>>}}
    \cup {Glob("name", <<name>>, "") : name \in {Docs, Py}}
    \cup {Glob("in", <<>>, "py"), Glob("file", <<Src, Docs>>, "")}

\* ------------------------------------------------------------- the behaviour
IndexRests == pc = "off" /\ edits = 0 /\ faults = 0 /\ wanted = {f, g}
ScopeRests == settings = Defaults
ChunksRest == source = <<>> /\ suffix = "txt"

EditsRest == IndexRests /\ ChunksRest /\ EditSettings /\ UNCHANGED <<vars, chunkVars>>
LinesRest == IndexRests /\ ScopeRests /\ AddLine /\ UNCHANGED <<vars, settings>>
IndexMoves == ScopeRests /\ ChunksRest /\ Next /\ UNCHANGED <<settings, chunkVars>>

Start == Init /\ ScopeInit /\ ChunkInit

Search ==
    /\ Start
    /\ [][IndexMoves \/ EditsRest \/ LinesRest]_<<vars, settings, chunkVars>>
    /\ Fairness
=============================================================================
