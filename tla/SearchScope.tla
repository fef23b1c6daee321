---------------------------- MODULE SearchScope ----------------------------
(***************************************************************************)
(* Which files a scan of the workspace finds (semantic_search/scope.py and *)
(* ignore.py): search.json selects files with globs, ignore patterns block *)
(* others, and the walk guesses from the globs which directories it need   *)
(* not enter.                                                              *)
(*                                                                         *)
(* A path is a sequence of names, a name a stem and an extension.  A glob  *)
(* is one of the forms the documentation of search.json shows:             *)
(*   under  at/**      file  at      in  at/*.ext      any  **/*.ext       *)
(*   deep   at/**/*.ext                                                    *)
(* and an ignore pattern one of dir (at/), name (at, a single name), file, *)
(* in.                                                                     *)
(***************************************************************************)
EXTENDS Naturals, FiniteSets, Sequences, SequencesExt

CONSTANTS
    Files,        \* the files of the workspace
    Globs,        \* the globs a setting may hold
    Ignores,      \* the patterns a .searchignore may hold
    Depths,       \* values of max_depth
    MaxGlobs      \* bound: globs and patterns of both files together

Name == STRING \X STRING

ASSUME ScopeAssumption ==
    /\ Files \subseteq Seq(Name) \ {<<>>}
    /\ \A g \in Globs \cup Ignores : g.at \in Seq(Name)
    /\ Depths \subseteq Nat /\ MaxGlobs \in Nat

VARIABLE settings      \* search.json and .searchignore

\* DEFAULT_SEARCH_CONFIG, DEFAULT_SEARCHIGNORE.
Defaults == [patterns |-> {}, only |-> {}, skip |-> {}, allow |-> {}, depth |-> 12]

ScopeInit == settings = Defaults

Fields == {"only", "skip", "allow"}
Held == Cardinality(settings.patterns) + Cardinality(settings.only)
        + Cardinality(settings.skip) + Cardinality(settings.allow)

\* The user adds to one of the files.  The old names of the fields are read when
\* the new ones are empty, so one of the two decides.
AddGlob == \E field \in Fields, g \in Globs :
    settings' = [settings EXCEPT ![field] = @ \cup {g}]

AddPattern == \E g \in Ignores : settings' = [settings EXCEPT !.patterns = @ \cup {g}]

SetDepth == \E depth \in Depths : settings' = [settings EXCEPT !.depth = depth]

EditSettings ==
    \/ Held < MaxGlobs /\ (AddGlob \/ AddPattern)
    \/ SetDepth

ScopeSpec == ScopeInit /\ [][EditSettings]_settings

\* ---------------------------------------------------------------- matching
Ext(path) == Last(path)[2]
DirsOf(path) == {SubSeq(path, 1, n) : n \in 1..(Len(path) - 1)}
Dirs == UNION {DirsOf(f) : f \in Files}

\* path_matches_glob.  A single * crosses directories; ** in the middle stands
\* for one name, and what is around it may match anywhere in the path.
PathMatchesGlob(path, g) ==
    \/ g.form = "under" /\ IsPrefix(g.at, path)
    \/ g.form = "file" /\ path = g.at
    \/ g.form = "in" /\ IsStrictPrefix(g.at, path) /\ Ext(path) = g.ext
    \/ g.form = "any" /\ Ext(path) = g.ext
    \/ g.form = "deep" /\ Ext(path) = g.ext /\ Len(path) > Len(g.at) + 1
       /\ SubSeq(path, Len(path) - Len(g.at) - 1, Len(path) - 2) = g.at

Matches(path, globs) == \E g \in globs : PathMatchesGlob(path, g)

\* should_ignore.
ShouldIgnore(path, patterns) == \E g \in patterns :
    \/ g.form = "dir" /\ IsPrefix(g.at, path)
    \/ g.form = "dir" /\ Len(g.at) = 1 /\ g.at[1] \in ToSet(path)
    \/ g.form = "name" /\ Last(path) = g.at[1]
    \/ g.form \in {"file", "in"} /\ PathMatchesGlob(path, g)

\* "Return whether a workspace-relative file path should be indexed."
PathIndexable(path) ==
    /\ ~ Matches(path, settings.skip)
    /\ ShouldIgnore(path, settings.patterns) => Matches(path, settings.allow)
    /\ settings.only # {} => Matches(path, settings.only)

\* ----------------------------------------------------------------- the walk
\* Mutant: a directory is entered only from where a glob begins.
SubtreeBelow(dir, globs) ==
    \E g \in globs : g.form = "any" \/ g.at = <<>> \/ IsPrefix(g.at, dir)

\* subtree_might_match.
SubtreeMightMatch(dir, globs) == \E g \in globs :
    \/ g.form = "any" \/ g.at = <<>>
    \/ IsPrefix(dir, g.at)
    \/ g.form \in {"under", "deep"} /\ IsPrefix(g.at, dir)

\* "Return True when os.walk should not descend".
ShouldPrune(dir) ==
    \/ Matches(dir, settings.skip)
    \/ ShouldIgnore(dir, settings.patterns) /\ ~ SubtreeMightMatch(dir, settings.allow)
    \/ /\ settings.only # {}
       /\ ~ SubtreeMightMatch(dir, settings.only) /\ ~ SubtreeMightMatch(dir, settings.allow)

\* The walk begins in the first directories of the globs, if all have one.
PatternRoots(globs) ==
    IF \E g \in globs : g.form = "any" \/ g.at = <<>> THEN {} ELSE {<<g.at[1]>> : g \in globs}

WalkRoots ==
    LET roots == PatternRoots(settings.only) \cap Dirs IN
    IF roots = {} THEN {<<>>} ELSE roots

\* iter_indexable_files.
Indexed == {f \in Files :
    /\ PathIndexable(f)
    /\ Len(f) <= settings.depth
    /\ \E root \in WalkRoots : IsPrefix(root, f)
         /\ \A dir \in DirsOf(f) : IsStrictPrefix(root, dir) => ~ ShouldPrune(dir)}

\* ------------------------------------------------------------- properties
\* What a glob means that is read as its documentation has it: a * stays in its
\* directory, at stands at the top, and is not itself a file at the top, below
\* which the walk would begin.
Directly(path, globs) == \E g \in globs :
    /\ PathMatchesGlob(path, g)
    /\ g.form = "in" => g.at \in {<<>>, Front(path)}
    /\ g.form = "deep" => IsPrefix(g.at, path)
    /\ g.form \in {"file", "under"} => Len(path) > 1

\* A directory above the file is itself named by a pattern that blocks files.
Shadowed(path) == \E dir \in DirsOf(path) :
    \/ Matches(dir, settings.skip)
    \/ /\ ShouldIgnore(dir, settings.patterns)
       /\ ~ ShouldIgnore(path, settings.patterns)

\* The walk enters every directory it has to: a file that should be indexed is
\* found, below directories that are ignored as well, unless it is too deep,
\* shadowed, or selected only by a glob read otherwise than documented.
WalkFindsAll ==
    {f \in Files :
        /\ PathIndexable(f) /\ Len(f) <= settings.depth /\ ~ Shadowed(f)
        /\ settings.only # {} => Directly(f, settings.only)
        /\ ShouldIgnore(f, settings.patterns) => Directly(f, settings.allow)} \subseteq Indexed
=============================================================================
