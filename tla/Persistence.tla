---------------------------- MODULE Persistence ----------------------------
(***************************************************************************)
(* How one file of the workspace is replaced: seed_file, write_file and    *)
(* cleanup_partial_seeds of util/persistence.py, LocalIOBackend, and, for  *)
(* a remote agent, RemoteIOBackend with the /io/write handler of the       *)
(* service.  All of them fill a temporary file of one fixed name and       *)
(* rename it.  Writers are processes that share the workspace; within one  *)
(* nothing awaits, and the service handles a request in one step.          *)
(*                                                                         *)
(* A file holds what was written into it since it was truncated: a writer  *)
(* whose temporary file has been renamed, removed or truncated by another  *)
(* goes on writing into what it has opened.                                *)
(***************************************************************************)
EXTENDS Naturals, FiniteSets

CONSTANTS
    Writers,
    Remote,       \* the writers that use the service
    MaxTexts      \* bound: calls that write something

ASSUME PersistenceAssumption == Remote \subseteq Writers /\ MaxTexts \in Nat

VARIABLES
    file, temp,   \* the file and its .tmp, as numbers of inodes; 0: absent
    text,         \* inode -> the texts written into it
    doing,        \* what a writer is doing
    texts,        \* texts begun so far
    overdue,      \* texts posted by a client that gave up, which may still be written
    stands,       \* ghost: the text of the last write that was reported done
    crowded,      \* ghost: writers whose call has overlapped another
    blurred       \* ghost: calls have overlapped since, or one was overdue

fileVars == <<file, temp, text, doing, texts, overdue, stands, crowded, blurred>>

Resting == [step |-> "rest"]
Steps == [step : {"create", "ask", "post"}, seed : BOOLEAN, text : 1..MaxTexts]
         \cup [step : {"fill", "rename"}, seed : BOOLEAN, text : 1..MaxTexts, ino : 1..MaxTexts]
OtherWriters(w) == {v \in Writers \ {w} : doing[v] # Resting}

FileInit ==
    /\ file = 0 /\ temp = 0
    /\ text = [i \in 1..MaxTexts |-> {}]
    /\ doing = [w \in Writers |-> Resting]
    /\ texts = 0 /\ overdue = {}
    /\ stands = 0 /\ crowded = {} /\ blurred = FALSE

Does(w, what) == doing' = [doing EXCEPT ![w] = what]

\* Mutant: a seed does not look.
SeedsAnyway == TRUE

\* "Seed if absent, never overwrite."
MaySeed == file = 0

\* A call begins: a seed looks whether there is a file (a remote one asks the
\* service), a write does not.
Begins(w) ==
    /\ doing[w] = Resting /\ texts < MaxTexts
    /\ texts' = texts + 1
    /\ crowded' = IF OtherWriters(w) = {} THEN crowded \ {w} ELSE crowded \cup OtherWriters(w) \cup {w}
    /\ blurred' = (blurred \/ OtherWriters(w) # {})
    /\ \E seed \in BOOLEAN :
        /\ seed /\ w \notin Remote => MaySeed
        /\ Does(w, [seed |-> seed, text |-> texts',
                    step |-> IF w \notin Remote THEN "create" ELSE IF seed THEN "ask" ELSE "post"])
    /\ UNCHANGED <<file, temp, text, overdue, stands>>

\* A write that is reported done stands; if nothing else was under way, all
\* earlier overlaps are settled by it.  A seed must not have replaced anything.
Reported(w, t) ==
    /\ stands' = IF doing[w].seed /\ stands # 0 /\ ~ blurred THEN stands ELSE t
    /\ blurred' = (w \in crowded \/ overdue # {})
    /\ Does(w, Resting)

\* -------------------------------------------------------------- local writer
\* The temporary file is opened, and truncated if it was there.
Creates(w) ==
    /\ doing[w].step = "create"
    /\ LET i == IF temp = 0 THEN doing[w].text ELSE temp IN
       /\ temp' = i
       /\ text' = [text EXCEPT ![i] = {}]
       /\ Does(w, [step |-> "fill", seed |-> doing[w].seed, text |-> doing[w].text, ino |-> i])
    /\ UNCHANGED <<file, texts, overdue, stands, crowded, blurred>>

Fills(w) ==
    /\ doing[w].step = "fill"
    /\ text' = [text EXCEPT ![doing[w].ino] = @ \cup {doing[w].text}]
    /\ Does(w, [doing[w] EXCEPT !.step = "rename"])
    /\ UNCHANGED <<file, temp, texts, overdue, stands, crowded, blurred>>

\* tmp.replace(path), whoever has filled it.
Renames(w) ==
    /\ doing[w].step = "rename" /\ temp # 0
    /\ file' = temp /\ temp' = 0
    /\ Reported(w, doing[w].text)
    /\ UNCHANGED <<text, texts, overdue, crowded>>

\* The file cannot be filled, or is gone: it is removed, and the call raises.
Raises(w) ==
    /\ \/ doing[w].step = "fill"
       \/ doing[w].step = "rename" /\ temp = 0
    /\ temp' = 0
    /\ Does(w, Resting)
    /\ UNCHANGED <<file, text, texts, overdue, stands, crowded, blurred>>

\* A process dies: its temporary file stays.
WriterDies(w) ==
    /\ doing[w] # Resting /\ w \notin Remote
    /\ Does(w, Resting)
    /\ UNCHANGED <<file, temp, text, texts, overdue, stands, crowded, blurred>>

\* cleanup_partial_seeds, called when an agent is set up, takes any .tmp file.
Cleans(w) ==
    /\ doing[w] = Resting /\ temp # 0
    /\ temp' = 0
    /\ UNCHANGED <<file, text, doing, texts, overdue, stands, crowded, blurred>>

\* -------------------------------------------------------------------- service
Asked(w) ==
    /\ doing[w].step = "ask"
    /\ Does(w, IF MaySeed THEN [doing[w] EXCEPT !.step = "post"] ELSE Resting)
    /\ UNCHANGED <<file, temp, text, texts, overdue, stands, crowded, blurred>>

\* /io/write: the same three steps, in one.
Written(t) ==
    LET i == IF temp = 0 THEN t ELSE temp IN
    /\ file' = i /\ temp' = 0
    /\ text' = [text EXCEPT ![i] = {t}]

Served(w) ==
    /\ doing[w].step = "post"
    /\ Written(doing[w].text) /\ Reported(w, doing[w].text)
    /\ UNCHANGED <<texts, overdue, crowded>>

\* No answer in time: the client raises, the request may yet arrive.
GivesUp(w) ==
    /\ doing[w].step \in {"ask", "post"}
    /\ overdue' \in {overdue} \cup IF doing[w].step = "post" THEN {overdue \cup {doing[w].text}} ELSE {}
    /\ blurred' = (blurred \/ overdue' # overdue)
    /\ Does(w, Resting)
    /\ UNCHANGED <<file, temp, text, texts, stands, crowded>>

ServedLate == \E t \in overdue :
    /\ Written(t) /\ overdue' = overdue \ {t}
    /\ UNCHANGED <<doing, texts, stands, crowded, blurred>>

FileNext ==
    \/ \E w \in Writers :
        \/ Begins(w) \/ Creates(w) \/ Fills(w) \/ Renames(w) \/ Raises(w) \/ WriterDies(w) \/ Cleans(w)
        \/ Asked(w) \/ Served(w) \/ GivesUp(w)
    \/ ServedLate

FileSpec == FileInit /\ [][FileNext]_fileVars

\* ------------------------------------------------------------- properties
FileTypeOK ==
    /\ {file, temp, texts, stands} \subseteq 0..MaxTexts
    /\ text \in [1..MaxTexts -> SUBSET (1..MaxTexts)]
    /\ doing \in [Writers -> Steps \cup {Resting}]
    /\ overdue \subseteq 1..MaxTexts /\ blurred \in BOOLEAN
    /\ crowded \subseteq Writers

\* The file holds, whole, the text of the last write that was reported done:
\* a write that dies, fails or has its temporary file taken away changes
\* nothing, and a seed never replaces what is there; unless calls overlapped or
\* one was given up with its request under way.
WriteStands == ~ blurred /\ stands # 0 => file # 0 /\ text[file] = {stands}

\* A text is never mixed with another one while no calls overlap.
FilesWhole == FileTypeOK /\ WriteStands /\ (~ blurred /\ file # 0 => Cardinality(text[file]) = 1)
=============================================================================
