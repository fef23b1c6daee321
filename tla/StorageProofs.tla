--------------------------- MODULE StorageProofs ---------------------------
(***************************************************************************)
(* Theorems about what is stored: a file of the workspace (Persistence),   *)
(* the signals of the agents (SignalStore), the checkpoints of a thread    *)
(* (CheckpointProxy) and the workspace of the file tools (FileOps), for    *)
(* any writers, agents, processes, runs, paths and bounds.                 *)
(*                                                                         *)
(* Files: calls that overlap know it, and a call that does not has the     *)
(* temporary file to itself.  Signals: a file is in the order of sending,  *)
(* a store that archives has read a beginning of it, and what came later   *)
(* is not archived.  Checkpoints: ids are made in order, whatever refers   *)
(* to a checkpoint refers to one that was saved, and of a task that nobody *)
(* else has in flight there are no writes that could meet new ones.        *)
(* Workspace: a record says what was found and what was left, and each     *)
(* text is on disk as often as the history says.                           *)
(***************************************************************************)
EXTENDS Persistence, SignalStore, CheckpointProxy, FileOps,
        FiniteSetTheorems, FunctionTheorems, SequenceTheorems, TLAPS

-----------------------------------------------------------------------------
(* The smallest and the largest of a bounded set of numbers.               *)

LEMMA Least ==
  ASSUME NEW N \in Nat, NEW T \in SUBSET (0 .. N), T # {}
  PROVE  \E x \in T : \A y \in T : x <= y
<1> DEFINE Less == {ss \in Nat \X Nat : ss[1] < ss[2]}
<1>1. IsWellFoundedOn(Less, Nat)
  BY NatLessThanWellFounded DEF OpToRel
<1>2. T \subseteq Nat
  <2>1. 0 .. N \subseteq Nat
    OBVIOUS
  <2> QED
    BY <2>1
<1> HIDE DEF Less
<1>3. PICK x \in T : \A y \in T : <<y, x>> \notin Less
  BY <1>1, <1>2, WFMin
<1>4. \A y \in T : ~ (y < x)
  BY <1>2, <1>3 DEF Less
<1> QED
  BY <1>4

LEMMA MinOf ==
  ASSUME NEW N \in Nat, NEW T \in SUBSET (0 .. N), T # {}
  PROVE  Min(T) \in T /\ \A y \in T : Min(T) <= y
  BY Least DEF Min

LEMMA MaxOf ==
  ASSUME NEW N \in Nat, NEW T \in SUBSET (0 .. N), T # {}
  PROVE  Max(T) \in T /\ \A y \in T : y <= Max(T)
<1> DEFINE R == {N - x : x \in T}
<1>1. R \in SUBSET (0 .. N) /\ R # {}
  <2>1. \A x \in T : x \in 0 .. N /\ N - x \in 0 .. N
    OBVIOUS
  <2> QED
    BY <2>1
<1>2. PICK r \in R : \A y \in R : r <= y
  <2> HIDE DEF R
  <2> QED
    BY <1>1, Least
<1>3. PICK x \in T : r = N - x
  OBVIOUS
<1>4. ASSUME NEW y \in T PROVE y <= x
  <2>1. N - y \in R
    OBVIOUS
  <2>2. r <= N - y
    BY <1>2, <2>1
  <2> QED
    BY <1>3, <2>2
<1> QED
  BY <1>4 DEF Max

-----------------------------------------------------------------------------
(* A file of the workspace.                                                *)

Unplaced(w) == doing[w].step \in {"create", "ask", "post"}
Filling(w) == doing[w].step \in {"fill", "rename"}

\* No inode is numbered like a text that may still get one.
Fresh ==
    /\ {file, temp} \subseteq 0..texts /\ (file # 0 => file # temp)
    /\ overdue \subseteq (1..texts) \ {file, temp}
    /\ \A w \in Writers : Unplaced(w) => doing[w].text \in (1..texts) \ (overdue \cup {file, temp})
    /\ \A v, w \in Writers : v # w /\ Unplaced(v) /\ Unplaced(w) => doing[v].text # doing[w].text

\* Calls that overlap know it.
Apart ==
    /\ \A v, w \in Writers : v # w /\ doing[v] # Resting /\ doing[w] # Resting => v \in crowded
    /\ ~ blurred =>
        /\ overdue = {}
        /\ \A v, w \in Writers : doing[v] # Resting /\ doing[w] # Resting => v = w

\* What a writer's call has to itself.
OwnTemp(w) == 
    \/ temp = 0
    \/ temp = doing[w].ino /\ text[temp] = IF doing[w].step = "fill" THEN {} ELSE {doing[w].text}
Alone == \A w \in Writers :
    /\ Filling(w) /\ w \notin crowded => OwnTemp(w)
    /\ Filling(w) /\ ~ blurred => doing[w].ino # file
    /\ doing[w] # Resting /\ doing[w].step # "ask" /\ doing[w].seed /\ ~ blurred => stands = 0

Whole == ~ blurred =>
    /\ file # 0 => stands # 0
    /\ stands # 0 => file # 0 /\ text[file] = {stands}

FileInv == FileTypeOK /\ Fresh /\ Apart /\ Alone /\ Whole

LEMMA FileStart == FileInit => FileInv
<1> SUFFICES ASSUME FileInit PROVE FileInv
  OBVIOUS
<1>1. \A w \in Writers : doing[w] = Resting /\ doing[w].step = "rest"
  BY DEF FileInit, Resting
<1>2. FileTypeOK
  <2>1. {file, temp, texts, stands} \subseteq 0..MaxTexts
    BY PersistenceAssumption DEF FileInit
  <2>2. text \in [1..MaxTexts -> SUBSET (1..MaxTexts)]
    BY DEF FileInit
  <2> QED
    BY <2>1, <2>2 DEF FileInit, FileTypeOK
<1>3. Fresh
  BY <1>1 DEF FileInit, Fresh, Unplaced
<1>4. Apart /\ Alone /\ Whole
  BY <1>1 DEF FileInit, Apart, Alone, Whole, Filling
<1> QED
  BY <1>2, <1>3, <1>4 DEF FileInv

LEMMA DoingTyped ==
  ASSUME FileTypeOK, NEW w \in Writers
  PROVE /\ doing[w] = Resting => doing[w].step = "rest"
        /\ doing[w] # Resting => doing[w] \in Steps
        /\ Unplaced(w) => doing[w] \in [step : {"create", "ask", "post"}, seed : BOOLEAN, text : 1..MaxTexts]
        /\ Filling(w) => doing[w] \in [step : {"fill", "rename"}, seed : BOOLEAN, text : 1..MaxTexts, ino : 1..MaxTexts]
        /\ doing[w] # Resting <=> Unplaced(w) \/ Filling(w)
  BY DEF FileTypeOK, Steps, Unplaced, Filling, Resting

LEMMA FileStep == FileInv /\ [FileNext]_fileVars => FileInv'
<1> SUFFICES ASSUME FileInv, [FileNext]_fileVars PROVE FileInv'
  OBVIOUS
<1> USE PersistenceAssumption
<1>0. FileTypeOK
  BY DEF FileInv
<1>1. ASSUME NEW w \in Writers, Begins(w) PROVE FileInv'
  <2>1. FileTypeOK'
    BY <1>0, <1>1 DEF FileTypeOK, Begins, Does, Steps, OtherWriters, Resting
  <2>2. \A v \in Writers \ {w} : doing'[v] = doing[v]
    BY <1>0, <1>1 DEF FileTypeOK, Begins, Does, OtherWriters
  <2>3. Fresh'
    BY <1>0, <1>1, <2>1, <2>2, DoingTyped DEF FileTypeOK, FileInv, Fresh, Unplaced, Begins, Does, OtherWriters, Resting
  <2>4. Apart'
    <3>1. doing[w] = Resting /\ overdue' = overdue
      BY <1>1 DEF Begins
    <3>2. CASE OtherWriters(w) = {}
      <4>1. \A v \in Writers \ {w} : doing'[v] = Resting
        BY <2>2, <3>2 DEF OtherWriters
      <4> QED
        BY <1>1, <3>1, <3>2, <4>1 DEF FileInv, Apart, Begins
    <3>3. CASE OtherWriters(w) # {}
      <4>1. blurred' /\ crowded' = crowded \cup OtherWriters(w) \cup {w}
        BY <1>1, <3>3 DEF Begins
      <4>2. \A v \in Writers \ {w} : doing'[v] # Resting => v \in OtherWriters(w)
        BY <2>2 DEF OtherWriters
      <4>3. \A v \in Writers : doing'[v] # Resting => v \in crowded'
        BY <4>1, <4>2
      <4> QED
        BY <4>1, <4>3 DEF Apart
    <3> QED
      BY <3>2, <3>3
  <2>5. Alone'
    <3>1. doing'[w].step \in {"create", "ask", "post"}
      BY <1>0, <1>1 DEF FileTypeOK, Begins, Does
    <3>2. file' = file /\ temp' = temp /\ text' = text /\ stands' = stands /\ (~ blurred' => ~ blurred)
      BY <1>1 DEF Begins
    <3>3. doing'[w].step # "ask" /\ doing'[w].seed /\ ~ blurred => stands = 0
      <4>1. doing'[w].step # "ask" /\ doing'[w].seed => file = 0
        BY <1>0, <1>1 DEF FileTypeOK, Begins, Does, MaySeed
      <4> QED
        BY <4>1 DEF FileInv, Whole
    <3>4. \A v \in Writers : v # w /\ doing[v] # Resting => (v \notin crowded' => v \notin crowded)
      BY <1>1 DEF Begins
    <3>5. ASSUME NEW v \in Writers, v # w, Filling(v)', v \notin crowded'
          PROVE OwnTemp(v)'
      BY <1>0, <2>2, <3>2, <3>4, <3>5, DoingTyped DEF FileInv, Alone, OwnTemp, Filling
    <3>6. ASSUME NEW v \in Writers, v # w
          PROVE /\ Filling(v)' /\ ~ blurred' => doing'[v].ino # file'
                /\ doing'[v] # Resting /\ doing'[v].step # "ask" /\ doing'[v].seed /\ ~ blurred' => stands' = 0
      BY <2>2, <3>2, <3>6 DEF FileInv, Alone, Filling
    <3>7. ~ Filling(w)'
      BY <3>1 DEF Filling
    <3> QED
      BY <3>2, <3>3, <3>5, <3>6, <3>7 DEF Alone
  <2>6. Whole'
    BY <1>0, <1>1, <2>1, <2>2, DoingTyped DEF FileTypeOK, FileInv, Fresh, Apart, Alone, OwnTemp, Whole, Filling, Unplaced, Begins, Does, OtherWriters, Resting
  <2> QED
    BY <2>1, <2>3, <2>4, <2>5, <2>6 DEF FileInv
<1>2. ASSUME NEW w \in Writers, Creates(w) PROVE FileInv'
  <2>1. FileTypeOK'
    BY <1>0, <1>2, DoingTyped DEF FileTypeOK, Creates, Does, Steps, Unplaced
  <2>2. \A v \in Writers \ {w} : doing'[v] = doing[v]
    BY <1>0, <1>2 DEF FileTypeOK, Creates, Does
  <2>3. Fresh'
    BY <1>0, <1>2, <2>1, <2>2, DoingTyped DEF FileTypeOK, FileInv, Fresh, Unplaced, Creates, Does, Resting
  <2>4. Apart'
    BY <1>0, <1>2, <2>1, <2>2, DoingTyped DEF FileTypeOK, FileInv, Apart, Creates, Does, Resting
  <2>5. Alone'
    <3> DEFINE i == IF temp = 0 THEN doing[w].text ELSE temp
    <3>1. Unplaced(w) /\ doing[w] # Resting
      BY <1>0, <1>2, DoingTyped DEF Creates, Unplaced
    <3>2. i \in 1..MaxTexts /\ i # file /\ temp' = i /\ text'[i] = {}
      BY <1>0, <1>2, <3>1, DoingTyped DEF FileTypeOK, FileInv, Fresh, Creates
    <3>3. /\ doing'[w] = [step |-> "fill", seed |-> doing[w].seed, text |-> doing[w].text, ino |-> i]
          /\ file' = file /\ stands' = stands /\ crowded' = crowded /\ blurred' = blurred
      BY <1>0, <1>2 DEF FileTypeOK, Creates, Does
    <3> HIDE DEF i
    <3>4. OwnTemp(w)'
      BY <3>2, <3>3 DEF OwnTemp
    <3>5. doing'[w].seed /\ ~ blurred' => stands' = 0
      BY <1>2, <3>1, <3>3 DEF FileInv, Alone, Creates
    <3>6. doing'[w].ino # file'
      BY <3>2, <3>3
    <3>7. ASSUME NEW v \in Writers, v # w
          PROVE /\ Filling(v)' => v \in crowded'
                /\ Filling(v)' /\ ~ blurred' => doing'[v].ino # file'
                /\ doing'[v] # Resting /\ doing'[v].step # "ask" /\ doing'[v].seed /\ ~ blurred' => stands' = 0
      BY <1>0, <2>2, <3>1, <3>3, <3>7, DoingTyped DEF FileInv, Alone, Apart, Filling
    <3> QED
      BY <3>4, <3>5, <3>6, <3>7 DEF Alone
  <2>6. Whole'
    BY <1>0, <1>2, <2>1, <2>2, DoingTyped DEF FileTypeOK, FileInv, Fresh, Apart, Alone, OwnTemp, Whole, Filling, Unplaced, Creates, Does, Resting
  <2> QED
    BY <2>1, <2>3, <2>4, <2>5, <2>6 DEF FileInv
<1>3. ASSUME NEW w \in Writers, Fills(w) PROVE FileInv'
  <2>1. FileTypeOK'
    BY <1>0, <1>3, DoingTyped DEF FileTypeOK, Fills, Does, Steps, Filling
  <2>2. \A v \in Writers \ {w} : doing'[v] = doing[v]
    BY <1>0, <1>3 DEF FileTypeOK, Fills, Does
  <2>3. Fresh'
    BY <1>0, <1>3, <2>1, <2>2, DoingTyped DEF FileTypeOK, FileInv, Fresh, Unplaced, Fills, Does, Resting
  <2>4. Apart'
    BY <1>0, <1>3, <2>1, <2>2, DoingTyped DEF FileTypeOK, FileInv, Apart, Fills, Does, Resting
  <2>5. Alone'
    <3>1. Filling(w) /\ doing[w] # Resting
      BY <1>0, <1>3, DoingTyped DEF Fills, Filling
    <3>2. doing[w].ino \in 1..MaxTexts
      BY <1>0, <3>1, DoingTyped
    <3>3. /\ doing'[w].step = "rename" /\ doing'[w].ino = doing[w].ino
          /\ doing'[w].seed = doing[w].seed /\ doing'[w].text = doing[w].text
      BY <1>0, <1>3, <3>1, DoingTyped DEF FileTypeOK, Fills, Does
    <3>4. /\ text'[doing[w].ino] = text[doing[w].ino] \cup {doing[w].text}
          /\ file' = file /\ temp' = temp /\ stands' = stands /\ crowded' = crowded /\ blurred' = blurred
      BY <1>0, <1>3, <3>2 DEF FileTypeOK, Fills
    <3>5. w \notin crowded => OwnTemp(w)'
      BY <1>3, <3>1, <3>3, <3>4 DEF FileInv, Alone, OwnTemp, Fills
    <3>6. /\ doing'[w].seed /\ ~ blurred' => stands' = 0
          /\ ~ blurred' => doing'[w].ino # file'
      BY <1>3, <3>1, <3>3, <3>4 DEF FileInv, Alone, Fills
    <3>7. ASSUME NEW v \in Writers, v # w
          PROVE /\ Filling(v)' => v \in crowded'
                /\ Filling(v)' /\ ~ blurred' => doing'[v].ino # file'
                /\ doing'[v] # Resting /\ doing'[v].step # "ask" /\ doing'[v].seed /\ ~ blurred' => stands' = 0
      BY <1>0, <2>2, <3>1, <3>4, <3>7, DoingTyped DEF FileInv, Alone, Apart, Filling
    <3> QED
      BY <3>4, <3>5, <3>6, <3>7 DEF Alone
  <2>6. Whole'
    <3>1. Filling(w) /\ doing[w].ino \in 1..MaxTexts
      BY <1>0, <1>3, DoingTyped DEF Fills, Filling
    <3>2. ~ blurred => doing[w].ino # file
      BY <3>1 DEF FileInv, Alone
    <3>3. ~ blurred => text'[file] = text[file]
      BY <1>0, <1>3, <3>1, <3>2 DEF FileTypeOK, Fills
    <3> QED
      BY <1>3, <3>3 DEF FileInv, Whole, Fills
  <2> QED
    BY <2>1, <2>3, <2>4, <2>5, <2>6 DEF FileInv
<1>4. ASSUME NEW w \in Writers, Renames(w) PROVE FileInv'
  <2>1. FileTypeOK'
    BY <1>0, <1>4, DoingTyped DEF FileTypeOK, Renames, Reported, Does, Steps, Filling
  <2>2. \A v \in Writers \ {w} : doing'[v] = doing[v]
    BY <1>0, <1>4 DEF FileTypeOK, Renames, Reported, Does
  <2>3. Fresh'
    BY <1>0, <1>4, <2>1, <2>2, DoingTyped DEF FileTypeOK, FileInv, Fresh, Unplaced, Renames, Reported, Does, Resting
  <2>4. Apart'
    BY <1>0, <1>4, <2>1, <2>2, DoingTyped DEF FileTypeOK, FileInv, Apart, Renames, Reported, Does, Resting
  <2>5. Alone'
    BY <1>0, <1>4, <2>1, <2>2, DoingTyped DEF FileTypeOK, FileInv, Fresh, Apart, Alone, OwnTemp, Whole, Filling, Unplaced, Renames, Reported, Does, Resting
  <2>6. Whole'
    <3>1. Filling(w) /\ doing[w] # Resting /\ doing[w].text \in 1..MaxTexts
      BY <1>0, <1>4, DoingTyped DEF Renames, Filling
    <3>2. stands' = doing[w].text
      BY <1>4, <3>1 DEF FileInv, Alone, Renames, Reported
    <3>3. ~ blurred' => text'[file'] = {doing[w].text}
      BY <1>4, <3>1 DEF FileInv, Alone, OwnTemp, Renames, Reported
    <3>4. file' # 0
      BY <1>4 DEF Renames
    <3> QED
      BY <3>1, <3>2, <3>3, <3>4 DEF Whole
  <2> QED
    BY <2>1, <2>3, <2>4, <2>5, <2>6 DEF FileInv
<1>5. ASSUME NEW w \in Writers, Raises(w) PROVE FileInv'
  <2>1. FileTypeOK'
    BY <1>0, <1>5, DoingTyped DEF FileTypeOK, Raises, Does, Steps, Filling
  <2>2. \A v \in Writers \ {w} : doing'[v] = doing[v]
    BY <1>0, <1>5 DEF FileTypeOK, Raises, Does
  <2>3. Fresh'
    BY <1>0, <1>5, <2>1, <2>2, DoingTyped DEF FileTypeOK, FileInv, Fresh, Unplaced, Raises, Does, Resting
  <2>4. Apart'
    BY <1>0, <1>5, <2>1, <2>2, DoingTyped DEF FileTypeOK, FileInv, Apart, Raises, Does, Resting
  <2>5. Alone'
    BY <1>0, <1>5, <2>1, <2>2, DoingTyped DEF FileTypeOK, FileInv, Fresh, Apart, Alone, OwnTemp, Whole, Filling, Unplaced, Raises, Does, Resting
  <2>6. Whole'
    BY <1>0, <1>5, <2>1, <2>2, DoingTyped DEF FileTypeOK, FileInv, Fresh, Apart, Alone, OwnTemp, Whole, Filling, Unplaced, Raises, Does, Resting
  <2> QED
    BY <2>1, <2>3, <2>4, <2>5, <2>6 DEF FileInv
<1>6. ASSUME NEW w \in Writers, WriterDies(w) PROVE FileInv'
  <2>1. FileTypeOK'
    BY <1>0, <1>6, DoingTyped DEF FileTypeOK, WriterDies, Does, Steps, Filling
  <2>2. \A v \in Writers \ {w} : doing'[v] = doing[v]
    BY <1>0, <1>6 DEF FileTypeOK, WriterDies, Does
  <2>3. Fresh'
    BY <1>0, <1>6, <2>1, <2>2, DoingTyped DEF FileTypeOK, FileInv, Fresh, Unplaced, WriterDies, Does, Resting
  <2>4. Apart'
    BY <1>0, <1>6, <2>1, <2>2, DoingTyped DEF FileTypeOK, FileInv, Apart, WriterDies, Does, Resting
  <2>5. Alone'
    BY <1>0, <1>6, <2>1, <2>2, DoingTyped DEF FileTypeOK, FileInv, Fresh, Apart, Alone, OwnTemp, Whole, Filling, Unplaced, WriterDies, Does, Resting
  <2>6. Whole'
    BY <1>0, <1>6, <2>1, <2>2, DoingTyped DEF FileTypeOK, FileInv, Fresh, Apart, Alone, OwnTemp, Whole, Filling, Unplaced, WriterDies, Does, Resting
  <2> QED
    BY <2>1, <2>3, <2>4, <2>5, <2>6 DEF FileInv
<1>7. ASSUME NEW w \in Writers, Cleans(w) PROVE FileInv'
  <2>1. FileTypeOK' /\ Fresh'
    BY <1>7 DEF Cleans, FileInv, FileTypeOK, Fresh, Unplaced
  <2>2. Apart' /\ Alone' /\ Whole'
    BY <1>7 DEF Cleans, FileInv, Apart, Alone, Whole, OwnTemp, Filling
  <2> QED
    BY <2>1, <2>2 DEF FileInv
<1>8. ASSUME NEW w \in Writers, Asked(w) PROVE FileInv'
  <2>1. FileTypeOK'
    BY <1>0, <1>8, DoingTyped DEF FileTypeOK, Asked, Does, Steps, Unplaced
  <2>2. \A v \in Writers \ {w} : doing'[v] = doing[v]
    BY <1>0, <1>8 DEF FileTypeOK, Asked, Does, MaySeed
  <2>3. Fresh'
    BY <1>0, <1>8, <2>1, <2>2, DoingTyped DEF FileTypeOK, FileInv, Fresh, Unplaced, Asked, Does, MaySeed, Resting
  <2>4. Apart'
    BY <1>0, <1>8, <2>1, <2>2, DoingTyped DEF FileTypeOK, FileInv, Apart, Asked, Does, MaySeed, Resting
  <2>5. Alone'
    BY <1>0, <1>8, <2>1, <2>2, DoingTyped DEF FileTypeOK, FileInv, Fresh, Apart, Alone, OwnTemp, Whole, Filling, Unplaced, Asked, Does, MaySeed, Resting
  <2>6. Whole'
    BY <1>0, <1>8, <2>1, <2>2, DoingTyped DEF FileTypeOK, FileInv, Fresh, Apart, Alone, OwnTemp, Whole, Filling, Unplaced, Asked, Does, MaySeed, Resting
  <2> QED
    BY <2>1, <2>3, <2>4, <2>5, <2>6 DEF FileInv
<1>9. ASSUME NEW w \in Writers, Served(w) PROVE FileInv'
  <2>1. FileTypeOK'
    BY <1>0, <1>9, DoingTyped DEF FileTypeOK, Served, Written, Reported, Does, Steps, Unplaced
  <2>2. \A v \in Writers \ {w} : doing'[v] = doing[v]
    BY <1>0, <1>9 DEF FileTypeOK, Served, Written, Reported, Does
  <2>3. Fresh'
    BY <1>0, <1>9, <2>1, <2>2, DoingTyped DEF FileTypeOK, FileInv, Fresh, Unplaced, Served, Written, Reported, Does, Resting
  <2>4. Apart'
    BY <1>0, <1>9, <2>1, <2>2, DoingTyped DEF FileTypeOK, FileInv, Apart, Served, Written, Reported, Does, Resting
  <2>5. Alone'
    BY <1>0, <1>9, <2>1, <2>2, DoingTyped DEF FileTypeOK, FileInv, Fresh, Apart, Alone, OwnTemp, Whole, Filling, Unplaced, Served, Written, Reported, Does, Resting
  <2>6. Whole'
    <3>1. Unplaced(w) /\ doing[w] # Resting /\ doing[w].text \in 1..MaxTexts
      BY <1>0, <1>9, DoingTyped DEF Served, Unplaced
    <3>2. stands' = doing[w].text
      BY <1>9, <3>1 DEF FileInv, Alone, Served, Reported
    <3>3. file' # 0 /\ text'[file'] = {doing[w].text}
      BY <1>0, <1>9, <3>1 DEF FileTypeOK, Served, Written
    <3> QED
      BY <3>1, <3>2, <3>3 DEF Whole
  <2> QED
    BY <2>1, <2>3, <2>4, <2>5, <2>6 DEF FileInv
<1>10. ASSUME NEW w \in Writers, GivesUp(w) PROVE FileInv'
  <2>1. FileTypeOK'
    BY <1>0, <1>10, DoingTyped DEF FileTypeOK, GivesUp, Does, Steps, Unplaced
  <2>2. \A v \in Writers \ {w} : doing'[v] = doing[v]
    BY <1>0, <1>10 DEF FileTypeOK, GivesUp, Does
  <2>3. Fresh'
    BY <1>0, <1>10, <2>1, <2>2, DoingTyped DEF FileTypeOK, FileInv, Fresh, Unplaced, GivesUp, Does, Resting
  <2>4. Apart'
    <3>1. doing'[w] = Resting /\ crowded' = crowded /\ overdue' \in {overdue} \cup {overdue \cup {doing[w].text}}
      BY <1>0, <1>10 DEF FileTypeOK, GivesUp, Does
    <3>2. ~ blurred' => ~ blurred /\ overdue' = overdue
      BY <1>10 DEF GivesUp
    <3> QED
      BY <2>2, <3>1, <3>2 DEF FileInv, Apart
  <2>5. Alone'
    BY <1>0, <1>10, <2>1, <2>2, DoingTyped DEF FileTypeOK, FileInv, Fresh, Apart, Alone, OwnTemp, Whole, Filling, Unplaced, GivesUp, Does, Resting
  <2>6. Whole'
    BY <1>0, <1>10, <2>1, <2>2, DoingTyped DEF FileTypeOK, FileInv, Fresh, Apart, Alone, OwnTemp, Whole, Filling, Unplaced, GivesUp, Does, Resting
  <2> QED
    BY <2>1, <2>3, <2>4, <2>5, <2>6 DEF FileInv
<1>11. CASE ServedLate
  <2>1. PICK t \in overdue : Written(t) /\ overdue' = overdue \ {t}
    BY <1>11 DEF ServedLate
  <2>2. doing' = doing /\ texts' = texts /\ stands' = stands /\ crowded' = crowded /\ blurred' = blurred
    BY <1>11 DEF ServedLate
  <2>3. FileTypeOK'
    BY <1>0, <2>1, <2>2 DEF FileTypeOK, Written
  <2>4. Fresh'
    BY <1>0, <2>1, <2>2 DEF FileTypeOK, FileInv, Fresh, Unplaced, Written
  <2>5. blurred /\ temp' = 0
    BY <2>1 DEF FileInv, Apart, Written
  <2>6. Apart' /\ Alone' /\ Whole'
    BY <2>1, <2>2, <2>5 DEF FileInv, Apart, Alone, Whole, OwnTemp, Filling
  <2> QED
    BY <2>3, <2>4, <2>6 DEF FileInv
<1>12. CASE UNCHANGED fileVars
  BY <1>12 DEF fileVars, FileInv, FileTypeOK, Fresh, Apart, Alone, Whole, OwnTemp, Filling, Unplaced
<1> QED
  BY <1>1, <1>2, <1>3, <1>4, <1>5, <1>6, <1>7, <1>8, <1>9, <1>10, <1>11, <1>12 DEF FileNext

\* Whatever writers seed and write the file, locally or through the service,
\* raise, die or give up: as long as no calls overlap, the file holds, whole, the
\* text of the last write that was reported done, and no seed replaces it.
THEOREM FilesAlwaysWhole == FileSpec => []FilesWhole
<1>1. FileInv => FilesWhole
  <2> SUFFICES ASSUME FileInv PROVE FilesWhole
    OBVIOUS
  <2>1. WriteStands /\ FileTypeOK
    BY DEF FileInv, Whole, WriteStands
  <2>2. ASSUME ~ blurred, file # 0 PROVE Cardinality(text[file]) = 1
    <3>1. text[file] = {stands}
      BY <2>2 DEF FileInv, Whole
    <3> QED
      BY <3>1, FS_Singleton
  <2> QED
    BY <2>1, <2>2 DEF FilesWhole
<1> QED
  BY FileStart, FileStep, <1>1, PTL DEF FileSpec

-----------------------------------------------------------------------------
(* The signals of the agents.                                              *)

\* What is known of the numbers, and of who runs.
Known(s, n) == s \in Signals /\ s.num <= n /\ s.n <= n
Sizes ==
    /\ \A a \in Agents :
        /\ counter[a] <= sent + 1
        /\ \A i \in DOMAIN active[a] : Known(active[a][i], sent)
        /\ \A s \in archive[a] : Known(s, sent)
    /\ \A a \in Agents : phase[a] # "down" => Running(host[a])

\* A file is in the order in which its signals were sent.
InOrder == \A a \in Agents : \A i, j \in DOMAIN active[a] : i < j => active[a][i].n < active[a][j].n

\* A store that archives has read the beginning of its file; the rest is late.
Reading == \A a \in Agents : phase[a] = "archiving" =>
    /\ Threshold < Len(loaded[a]) /\ Len(loaded[a]) <= Len(active[a])
    /\ \A i \in DOMAIN loaded[a] : loaded[a][i] = active[a][i]
    /\ \A i \in DOMAIN active[a] : Len(loaded[a]) < i => active[a][i] \in late[a] \ archive[a]

\* ArchiveIsOlder, whoever has sent the signals.
Older == \A a \in Agents : \A s \in archive[a] \ ToSet(active[a]) :
    \A i \in DOMAIN active[a] : s.n < active[a][i].n

SigInv == SigTypeOK /\ Sizes /\ InOrder /\ Reading /\ Older /\ NothingLost /\ StoreAgrees

LEMMA Bounds ==
    /\ MaxPerChannel \in Nat \ {0} /\ Threshold \in Nat \ {0} /\ MaxSignals \in Nat \ {0}
    /\ MaxPerChannel <= Threshold
  BY SignalAssumption

LEMMA Larger == ASSUME NEW x \in Int, NEW y \in Int PROVE Max({x, y}) = IF x <= y THEN y ELSE x
<1>1. \E z \in {x, y} : \A u \in {x, y} : z >= u
  OBVIOUS
<1>2. Max({x, y}) \in {x, y} /\ \A u \in {x, y} : Max({x, y}) >= u
  BY <1>1 DEF Max
<1> QED
  BY <1>2

\* What Newest drops, and keeps.
Dropped(s) == IF Len(s) > MaxPerChannel THEN Len(s) - MaxPerChannel ELSE 0

LEMMA NewestOf ==
  ASSUME NEW X, NEW s \in Seq(X)
  PROVE  /\ Dropped(s) \in 0..Len(s)
         /\ Newest(s) \in Seq(X) /\ Len(Newest(s)) = Len(s) - Dropped(s) /\ Len(Newest(s)) <= MaxPerChannel
         /\ \A i \in 1..Len(Newest(s)) : i + Dropped(s) \in 1..Len(s) /\ Newest(s)[i] = s[i + Dropped(s)]
<1>1. Max({1, Len(s) - MaxPerChannel + 1}) = Dropped(s) + 1
  BY Bounds, Larger DEF Dropped
<1>2. Newest(s) = SubSeq(s, Dropped(s) + 1, Len(s))
  BY <1>1 DEF Newest
<1>5. Dropped(s) \in 0..Len(s)
  <2>1. Len(s) \in Nat
    OBVIOUS
  <2> QED
    BY <2>1, Bounds DEF Dropped
<1>3. Len(s) - Dropped(s) <= MaxPerChannel
  BY Bounds DEF Dropped
<1> HIDE DEF Dropped, Newest
<1>4. Newest(s) \in Seq(X) /\ Len(Newest(s)) = Len(s) - Dropped(s)
  BY <1>2, <1>5, SubSeqProperties
<1>6. ASSUME NEW i \in 1..Len(Newest(s)) PROVE i + Dropped(s) \in 1..Len(s) /\ Newest(s)[i] = s[i + Dropped(s)]
  <2>1. i + Dropped(s) \in 1..Len(s)
    BY <1>4, <1>5
  <2>2. Newest(s)[i] = s[Dropped(s) + 1 + i - 1]
    BY <1>2, <1>4, <1>5, SubSeqProperties
  <2> QED
    BY <1>5, <2>1, <2>2
<1> QED
  BY <1>3, <1>4, <1>5, <1>6

LEMMA NewestGrows ==
  ASSUME NEW X, NEW s \in Seq(X), NEW e \in X
  PROVE  Newest(Append(Newest(s), e)) = Newest(Append(s, e))
<1> DEFINE n == Len(s)
           k == Dropped(s)
           u == Append(s, e)
           v == Append(Newest(s), e)
<1>1. /\ Newest(s) \in Seq(X) /\ Len(Newest(s)) = n - k /\ k \in 0..n /\ n \in Nat
      /\ \A i \in 1..Len(Newest(s)) : Newest(s)[i] = s[i + k]
  BY NewestOf
<1>2. u \in Seq(X) /\ Len(u) = n + 1 /\ u[n + 1] = e /\ \A i \in 1..n : u[i] = s[i]
  OBVIOUS
<1>3. v \in Seq(X) /\ Len(v) = n - k + 1 /\ v[n - k + 1] = e /\ \A i \in 1..(n - k) : v[i] = Newest(s)[i]
  BY <1>1
<1>4. k = IF n > MaxPerChannel THEN n - MaxPerChannel ELSE 0
  BY DEF Dropped
<1> HIDE DEF n, k, u, v
<1>5. Dropped(u) = IF n + 1 > MaxPerChannel THEN n + 1 - MaxPerChannel ELSE 0
  BY ONLY <1>1, <1>2, Bounds DEF Dropped
<1>6. Dropped(v) = IF n - k + 1 > MaxPerChannel THEN n - k + 1 - MaxPerChannel ELSE 0
  BY ONLY <1>1, <1>3, Bounds DEF Dropped
<1>7. Dropped(u) = Dropped(v) + k /\ Dropped(u) \in Nat /\ Dropped(v) \in Nat
  BY <1>1, <1>4, <1>5, <1>6, Bounds
<1>8. ASSUME NEW i \in 1..(n - k + 1) PROVE v[i] = u[i + k]
  <2>1. CASE i \in 1..(n - k)
    <3>1. v[i] = Newest(s)[i] /\ Newest(s)[i] = s[i + k]
      BY <1>1, <1>3, <2>1
    <3>2. i + k \in 1..n
      BY <1>1, <2>1
    <3> QED
      BY <1>2, <3>1, <3>2
  <2>2. CASE i = n - k + 1
    <3>1. i + k = n + 1
      BY <1>1, <2>2
    <3> QED
      BY <1>2, <1>3, <2>2, <3>1
  <2> QED
    BY <1>1, <2>1, <2>2
<1>9. /\ Newest(u) \in Seq(X) /\ Len(Newest(u)) = (n + 1) - Dropped(u)
      /\ \A i \in 1..Len(Newest(u)) : Newest(u)[i] = u[i + Dropped(u)]
  BY <1>2, <1>7, NewestOf
<1>10. /\ Newest(v) \in Seq(X) /\ Len(Newest(v)) = (n - k + 1) - Dropped(v)
       /\ \A i \in 1..Len(Newest(v)) : Newest(v)[i] = v[i + Dropped(v)]
  BY <1>3, <1>7, NewestOf
<1>11. Len(Newest(u)) = Len(Newest(v))
  BY <1>1, <1>7, <1>9, <1>10
<1>12. ASSUME NEW i \in 1..Len(Newest(v)) PROVE Newest(v)[i] = Newest(u)[i]
  <2>1. i + Dropped(v) \in 1..(n - k + 1)
    BY <1>1, <1>7, <1>10
  <2>2. v[i + Dropped(v)] = u[i + Dropped(v) + k] /\ i + Dropped(v) + k = i + Dropped(u)
    <3>1. \A j \in 1..(n - k + 1) : v[j] = u[j + k]
      BY <1>8
    <3>2. v[i + Dropped(v)] = u[i + Dropped(v) + k]
      BY <2>1, <3>1, Zenon
    <3>3. i + Dropped(v) + k = i + Dropped(u)
      BY <1>1, <1>7
    <3> QED
      BY <3>2, <3>3
  <2> QED
    BY <1>9, <1>10, <1>11, <2>2
<1>13. Newest(v) = Newest(u)
  BY <1>9, <1>10, <1>11, <1>12, SeqEqual
<1> QED
  BY <1>13 DEF u, v

LEMMA NextNumOf ==
  ASSUME NEW s \in Seq(Signals), NEW N \in Nat, \A i \in DOMAIN s : s[i].num <= N
  PROVE  NextNum(s) \in 1..N + 1 /\ \A i \in Nums(s) : i < NextNum(s)
<1>1. Nums(s) \cup {0} \in SUBSET (0..N) /\ Nums(s) \cup {0} # {}
  <2>1. \A i \in DOMAIN s : s[i].num \in 1..MaxSignals
    <3>1. \A i \in DOMAIN s : s[i] \in Signals
      BY ElementOfSeq
    <3> QED
      BY <3>1 DEF Signals
  <2> QED
    BY <2>1, Bounds DEF Nums
<1> QED
  <2> DEFINE T == Nums(s) \cup {0}
  <2>1. Max(T) \in T /\ \A y \in T : y <= Max(T)
    <3> HIDE DEF T
    <3> QED
      BY <1>1, MaxOf DEF T
  <2>2. NextNum(s) = Max(T) + 1
    BY DEF NextNum
  <2>3. T \in SUBSET (0..N) /\ Nums(s) \subseteq T
    BY <1>1
  <2> HIDE DEF T
  <2>4. Max(T) \in 0..N /\ \A i \in Nums(s) : i \in 0..N /\ i <= Max(T)
    BY <2>1, <2>3
  <2> QED
    BY <2>2, <2>4

LEMMA SigStart == SigInit => SigInv
<1> SUFFICES ASSUME SigInit PROVE SigInv
  OBVIOUS
<1>1. SigTypeOK
  BY Bounds DEF SigInit, SigTypeOK, Down
<1>2. Sizes /\ InOrder /\ Reading /\ Older /\ NothingLost /\ StoreAgrees
  BY Bounds DEF SigInit, Sizes, InOrder, Reading, Older, NothingLost, StoreAgrees
<1> QED
  BY <1>1, <1>2 DEF SigInv

\* What a process that dies leaves behind.
LEMMA DeadStep ==
  ASSUME SigTypeOK, NEW p \in Procs, Dead(p)
  PROVE  /\ phase' \in [Agents -> {"down", "archiving", "live"}]
         /\ memory' \in [Agents -> Seq(Signals)] /\ loaded' \in [Agents -> Seq(Signals)]
         /\ \A a \in Agents : Len(memory'[a]) <= MaxPerChannel
         /\ counter' \in [Agents -> 1..(MaxSignals + 1)]
         /\ hub' \in [Procs -> {Down} \cup SUBSET Agents]
         /\ \A a \in Agents :
              \/ host[a] = p /\ phase'[a] = "down" /\ counter'[a] = 1
              \/ /\ host[a] # p /\ phase'[a] = phase[a] /\ memory'[a] = memory[a]
                 /\ counter'[a] = counter[a] /\ loaded'[a] = loaded[a]
         /\ \A q \in Procs \ {p} : hub'[q] = hub[q]
<1>1. phase' \in [Agents -> {"down", "archiving", "live"}]
  BY DEF Dead, SigTypeOK
<1>2. memory' \in [Agents -> Seq(Signals)] /\ loaded' \in [Agents -> Seq(Signals)]
  BY DEF Dead, SigTypeOK
<1>3. \A a \in Agents : Len(memory'[a]) <= MaxPerChannel
  BY Bounds DEF Dead, SigTypeOK
<1>4. counter' \in [Agents -> 1..(MaxSignals + 1)]
  BY Bounds DEF Dead, SigTypeOK
<1>5. hub' \in [Procs -> {Down} \cup SUBSET Agents] /\ \A q \in Procs \ {p} : hub'[q] = hub[q]
  BY DEF Dead, SigTypeOK
<1>6. \A a \in Agents :
        \/ host[a] = p /\ phase'[a] = "down" /\ counter'[a] = 1
        \/ /\ host[a] # p /\ phase'[a] = phase[a] /\ memory'[a] = memory[a]
           /\ counter'[a] = counter[a] /\ loaded'[a] = loaded[a]
  BY DEF Dead
<1> QED
  BY <1>1, <1>2, <1>3, <1>4, <1>5, <1>6

LEMMA Hosted == SigTypeOK => host \in [Agents -> Procs]
  BY SignalAssumption DEF SigTypeOK

\* A signal is appended to some files.
LEMMA FilesStep ==
  ASSUME SigTypeOK, Sizes, InOrder, Reading, Older, NothingLost,
         NEW a \in Agents, NEW to \in SUBSET Agents, NEW s \in Signals,
         s.num <= sent + 1, s.n = sent + 1, Files(a, to, s), sent' = sent + 1,
         archive' = archive, phase[a] # "archiving",
         \A b \in Agents : phase'[b] = "down" \/ (phase'[b] = phase[b] /\ loaded'[b] = loaded[b])
  PROVE  /\ active' \in [Agents -> Seq(Signals)]
         /\ filed' \in [Agents -> SUBSET Signals] /\ late' \in [Agents -> SUBSET Signals]
         /\ \A b \in Agents : \A i \in DOMAIN active'[b] : Known(active'[b][i], sent')
         /\ \A b \in Agents : \A r \in archive'[b] : Known(r, sent')
         /\ InOrder' /\ Reading' /\ Older' /\ NothingLost'
<1>1. sent \in Nat /\ sent' = sent + 1
  BY DEF SigTypeOK
<1>2. active' \in [Agents -> Seq(Signals)]
  BY DEF Files, SigTypeOK
<1>3. filed' \in [Agents -> SUBSET Signals] /\ late' \in [Agents -> SUBSET Signals]
  BY DEF Files, SigTypeOK
<1>4. ASSUME NEW b \in Agents
      PROVE  /\ active[b] \in Seq(Signals) /\ Len(active[b]) \in Nat
             /\ Len(active[b]) <= Len(active'[b])
             /\ DOMAIN active[b] = 1..Len(active[b]) /\ DOMAIN active[b] \subseteq DOMAIN active'[b]
             /\ \A i \in DOMAIN active[b] : active'[b][i] = active[b][i]
             /\ \A i \in DOMAIN active'[b] \ DOMAIN active[b] :
                  i = Len(active[b]) + 1 /\ active'[b][i] = s /\ Len(active[b]) < Len(active'[b])
             /\ s \in filed'[b] \ filed[b] => s \in ToSet(active'[b])
             /\ filed'[b] \subseteq filed[b] \cup {s} /\ late[b] \subseteq late'[b]
             /\ phase[b] = "archiving" /\ Len(active[b]) < Len(active'[b]) => s \in late'[b]
  <2>1. active[b] \in Seq(Signals) /\ Len(active[b]) \in Nat
    BY DEF SigTypeOK
  <2>2. CASE b \in to \cup {a}
    <3>1. active'[b] = Append(active[b], s) /\ filed'[b] = filed[b] \cup {s}
      BY <2>2 DEF Files
    <3>2. /\ Len(active'[b]) = Len(active[b]) + 1 /\ active'[b][Len(active[b]) + 1] = s
          /\ \A i \in DOMAIN active[b] : active'[b][i] = active[b][i]
          /\ DOMAIN active[b] = 1..Len(active[b])
          /\ DOMAIN active'[b] = 1..(Len(active[b]) + 1)
      BY <2>1, <3>1
    <3>3. s \in ToSet(active'[b])
      BY <2>1, <3>2 DEF ToSet
    <3>4. late[b] \subseteq late'[b] /\ (phase[b] = "archiving" => s \in late'[b])
      BY <2>2 DEF Files
    <3> QED
      BY <2>1, <3>1, <3>2, <3>3, <3>4
  <2>3. CASE b \notin to \cup {a}
    <3>1. active'[b] = active[b] /\ filed'[b] = filed[b] /\ late'[b] = late[b]
      BY <2>3 DEF Files
    <3> QED
      BY <2>1, <3>1
  <2> QED
    BY <2>2, <2>3
<1>5. ASSUME NEW r, Known(r, sent) PROVE Known(r, sent') /\ r.n < s.n
  BY <1>1, <1>5 DEF Known, Signals
<1>6. Known(s, sent')
  BY <1>1 DEF Known
<1>7. ASSUME NEW b \in Agents PROVE \A i \in DOMAIN active'[b] : Known(active'[b][i], sent')
  <2> SUFFICES ASSUME NEW i \in DOMAIN active'[b] PROVE Known(active'[b][i], sent')
    OBVIOUS
  <2>1. CASE i \in DOMAIN active[b]
    <3>1. active'[b][i] = active[b][i] /\ Known(active[b][i], sent)
      BY <1>4, <2>1 DEF Sizes
    <3>2. Known(active[b][i], sent')
      BY <1>5, <3>1
    <3> QED
      BY <3>1, <3>2
  <2>2. CASE i \notin DOMAIN active[b]
    <3>1. active'[b][i] = s
      BY <1>4, <2>2
    <3> QED
      BY <3>1, <1>6 DEF Known
  <2> QED
    BY <2>1, <2>2
<1>8. ASSUME NEW b \in Agents PROVE \A r \in archive'[b] : Known(r, sent') /\ r.n < s.n
  BY <1>5 DEF Sizes
<1>9. InOrder'
  <2> SUFFICES ASSUME NEW b \in Agents, NEW i \in DOMAIN active'[b], NEW j \in DOMAIN active'[b], i < j
               PROVE  active'[b][i].n < active'[b][j].n
    BY DEF InOrder
  <2>1. CASE j \in DOMAIN active[b]
    <3>1. i \in DOMAIN active[b]
      BY <1>4, <2>1
    <3> QED
      BY <1>4, <2>1, <3>1 DEF InOrder
  <2>2. CASE j \notin DOMAIN active[b]
    <3>1. i \in DOMAIN active[b] /\ active'[b][j] = s
      BY <1>4, <2>2
    <3>2. Known(active[b][i], sent) /\ active'[b][i] = active[b][i]
      BY <1>4, <3>1 DEF Sizes
    <3> QED
      BY <1>5, <3>1, <3>2
  <2> QED
    BY <2>1, <2>2
<1>10. Reading'
  <2> SUFFICES ASSUME NEW b \in Agents, phase'[b] = "archiving"
               PROVE  /\ Threshold < Len(loaded'[b]) /\ Len(loaded'[b]) <= Len(active'[b])
                      /\ \A i \in DOMAIN loaded'[b] : loaded'[b][i] = active'[b][i]
                      /\ \A i \in DOMAIN active'[b] : Len(loaded'[b]) < i => active'[b][i] \in late'[b] \ archive'[b]
    BY DEF Reading
  <2>1. phase[b] = "archiving" /\ loaded'[b] = loaded[b] /\ loaded[b] \in Seq(Signals)
    BY DEF SigTypeOK
  <2>2. /\ Threshold < Len(loaded[b]) /\ Len(loaded[b]) <= Len(active[b]) /\ Len(loaded[b]) \in Nat
        /\ DOMAIN loaded[b] \subseteq DOMAIN active[b]
        /\ \A i \in DOMAIN loaded[b] : loaded[b][i] = active[b][i]
        /\ \A i \in DOMAIN active[b] : Len(loaded[b]) < i => active[b][i] \in late[b] \ archive[b]
    BY <1>4, <2>1 DEF Reading
  <2>3. \A i \in DOMAIN loaded'[b] : loaded'[b][i] = active'[b][i]
    BY <1>4, <2>1, <2>2
  <2>4. ASSUME NEW i \in DOMAIN active'[b], Len(loaded'[b]) < i
        PROVE  active'[b][i] \in late'[b] \ archive'[b]
    <3>1. CASE i \in DOMAIN active[b]
      BY <1>4, <2>1, <2>2, <2>4, <3>1
    <3>2. CASE i \notin DOMAIN active[b]
      <4>1. active'[b][i] = s /\ s \in late'[b]
        BY <1>4, <2>1, <3>2
      <4>2. s.n \in Nat /\ s \notin archive'[b]
        BY <1>8 DEF Signals
      <4> QED
        BY <4>1, <4>2
    <3> QED
      BY <3>1, <3>2
  <2> QED
    BY <1>4, <2>1, <2>2, <2>3, <2>4
<1>11. Older'
  <2> SUFFICES ASSUME NEW b \in Agents, NEW r \in archive'[b], r \notin ToSet(active'[b]), NEW i \in DOMAIN active'[b]
               PROVE  r.n < active'[b][i].n
    BY DEF Older
  <2>1. r \in archive[b] \ ToSet(active[b])
    BY <1>4 DEF ToSet
  <2>2. CASE i \in DOMAIN active[b]
    BY <1>4, <2>1, <2>2 DEF Older
  <2>3. CASE i \notin DOMAIN active[b]
    BY <1>4, <1>8, <2>3
  <2> QED
    BY <2>2, <2>3
<1>12. NothingLost'
  <2> SUFFICES ASSUME NEW b \in Agents, NEW r \in filed'[b]
               PROVE  r \in ToSet(active'[b]) \cup archive'[b] \cup late'[b]
    BY DEF NothingLost
  <2>1. CASE r \in filed[b]
    <3>1. r \in ToSet(active[b]) \cup archive[b] \cup late[b]
      BY <2>1 DEF NothingLost
    <3>2. ToSet(active[b]) \subseteq ToSet(active'[b])
      BY <1>4 DEF ToSet
    <3> QED
      BY <1>4, <3>1, <3>2
  <2>2. CASE r \notin filed[b]
    BY <1>4, <2>2
  <2> QED
    BY <2>1, <2>2
<1> QED
  BY <1>2, <1>3, <1>7, <1>8, <1>9, <1>10, <1>11, <1>12

\* A store has read its records.
LEMMA ReadyStep ==
  ASSUME SigTypeOK, NEW a \in Agents, NEW records \in Seq(Signals), Running(host[a]), Ready(a, records),
         \A i \in DOMAIN records : records[i].num <= sent
  PROVE  /\ phase' \in [Agents -> {"down", "archiving", "live"}] /\ phase'[a] = "live"
         /\ memory' \in [Agents -> Seq(Signals)] /\ memory'[a] = Newest(records)
         /\ \A b \in Agents : Len(memory'[b]) <= MaxPerChannel
         /\ counter' \in [Agents -> 1..(MaxSignals + 1)] /\ counter'[a] <= sent + 1
         /\ \A i \in Nums(records) : i < counter'[a]
         /\ hub' \in [Procs -> {Down} \cup SUBSET Agents] /\ registry' \subseteq Agents
         /\ \A p \in Procs : Running(p) => hub'[p] # Down
         /\ \A b \in Agents \ {a} :
              phase'[b] = phase[b] /\ memory'[b] = memory[b] /\ counter'[b] = counter[b]
<1>1. sent \in 0..MaxSignals /\ host[a] \in Procs
  BY Hosted DEF SigTypeOK
<1>2. /\ Newest(records) \in Seq(Signals) /\ Len(Newest(records)) <= MaxPerChannel
      /\ NextNum(records) \in 1..sent + 1 /\ \A i \in Nums(records) : i < NextNum(records)
  BY <1>1, NewestOf, NextNumOf
<1>3. phase' \in [Agents -> {"down", "archiving", "live"}] /\ phase'[a] = "live"
  BY DEF Ready, SigTypeOK
<1>4. memory' \in [Agents -> Seq(Signals)] /\ memory'[a] = Newest(records)
  BY <1>2 DEF Ready, SigTypeOK
<1>5. NextNum(records) \in 1..(MaxSignals + 1) /\ NextNum(records) <= sent + 1
  BY <1>1, <1>2, Bounds
<1>6. counter' \in [Agents -> 1..(MaxSignals + 1)] /\ counter'[a] = NextNum(records)
  BY <1>5 DEF Ready, SigTypeOK
<1>7. \A b \in Agents \ {a} :
        phase'[b] = phase[b] /\ memory'[b] = memory[b] /\ counter'[b] = counter[b]
  BY DEF Ready, SigTypeOK
<1>8. \A b \in Agents : Len(memory'[b]) <= MaxPerChannel
  BY <1>2, <1>4, <1>7 DEF SigTypeOK
<1>9. hub[host[a]] \subseteq Agents
  BY <1>1 DEF Running, SigTypeOK
<1>10. /\ hub' = [hub EXCEPT ![host[a]] = hub[host[a]] \cup {a}] /\ registry' = hub'[host[a]]
       /\ hub[host[a]] \cup {a} \in SUBSET Agents
  BY <1>9 DEF Ready
<1>11. hub' \in [Procs -> {Down} \cup SUBSET Agents] /\ registry' \subseteq Agents
  BY <1>1, <1>10 DEF SigTypeOK
<1>12. \A p \in Procs : Running(p) => hub'[p] # Down
  BY <1>1, <1>10, SignalAssumption DEF SigTypeOK, Running, Down
<1> QED
  BY <1>2, <1>3, <1>4, <1>5, <1>6, <1>7, <1>8, <1>11, <1>12

\* What is in excess is the beginning of what was read.
LEMMA ExcessOf ==
  ASSUME SigTypeOK, Reading, NEW a \in Agents, phase[a] = "archiving"
  PROVE  /\ loaded[a] \in Seq(Signals) /\ Len(loaded[a]) \in Nat
         /\ Dropped(loaded[a]) = Len(loaded[a]) - MaxPerChannel
         /\ DOMAIN Excess(a) = 1..Dropped(loaded[a]) /\ Dropped(loaded[a]) \in 1..Len(loaded[a])
         /\ \A i \in DOMAIN Excess(a) : Excess(a)[i] = loaded[a][i]
<1>1. loaded[a] \in Seq(Signals) /\ Len(loaded[a]) \in Nat /\ Threshold < Len(loaded[a])
  BY DEF SigTypeOK, Reading
<1>2. Dropped(loaded[a]) = Len(loaded[a]) - MaxPerChannel /\ Dropped(loaded[a]) \in 1..Len(loaded[a])
  BY <1>1, Bounds DEF Dropped
<1>3. Excess(a) = SubSeq(loaded[a], 1, Dropped(loaded[a]))
  BY <1>2 DEF Excess
<1> HIDE DEF Excess
<1>4. DOMAIN Excess(a) = 1..Dropped(loaded[a]) /\ \A i \in DOMAIN Excess(a) : Excess(a)[i] = loaded[a][i]
  BY <1>1, <1>2, <1>3, SubSeqProperties
<1> QED
  BY <1>1, <1>2, <1>4

LEMMA HubStartsStep == ASSUME SigInv, NEW p \in Procs, HubStarts(p) PROVE SigInv'
<1>1. SigTypeOK'
  BY DEF SigInv, SigTypeOK, HubStarts
<1>2. \A q \in Procs : Running(q) => hub'[q] # Down
  BY SignalAssumption DEF SigInv, SigTypeOK, HubStarts, Running, Down
<1>3. Sizes'
  BY <1>2, Hosted DEF SigInv, Sizes, HubStarts, Running
<1>4. InOrder' /\ Reading' /\ Older' /\ NothingLost' /\ StoreAgrees'
  BY DEF SigInv, InOrder, Reading, Older, NothingLost, StoreAgrees, HubStarts, Nums
<1> QED
  BY <1>1, <1>3, <1>4 DEF SigInv

LEMMA OpenStep == ASSUME SigInv, NEW a \in Agents, Open(a) PROVE SigInv'
<1>1. /\ SigTypeOK /\ active[a] \in Seq(Signals) /\ host[a] \in Procs /\ Running(host[a])
      /\ phase[a] = "down" /\ sent \in Nat
  BY Hosted DEF SigInv, SigTypeOK, Open, Free
<1>2. /\ host' = host /\ active' = active /\ archive' = archive /\ sent' = sent /\ filed' = filed /\ late' = late
      /\ foreign' = foreign \ {a}
  BY DEF Open
<1>3. InOrder' /\ Older' /\ NothingLost'
  BY <1>2 DEF SigInv, InOrder, Older, NothingLost
<1>4. CASE Len(active[a]) > Threshold
  <2>1. /\ phase' = [phase EXCEPT ![a] = "archiving"] /\ loaded' = [loaded EXCEPT ![a] = active[a]]
        /\ memory' = memory /\ counter' = counter /\ hub' = hub /\ registry' = registry
    BY <1>4 DEF Open
  <2>2. SigTypeOK'
    BY <1>1, <1>2, <2>1 DEF SigTypeOK
  <2>3. phase'[a] = "archiving" /\ \A b \in Agents \ {a} : phase'[b] = phase[b] /\ loaded'[b] = loaded[b]
    BY <1>1, <2>1 DEF SigTypeOK
  <2>4. Sizes'
    BY <1>1, <1>2, <2>1, <2>3 DEF SigInv, Sizes, Running
  <2>5. loaded'[a] = active'[a] /\ Len(active[a]) \in Nat /\ DOMAIN active[a] = 1..Len(active[a])
    BY <1>1, <1>2, <2>1 DEF SigTypeOK
  <2>6. Reading'
    BY <1>2, <1>4, <2>3, <2>5, Bounds DEF SigInv, Reading
  <2>7. StoreAgrees'
    BY <1>2, <2>1, <2>3 DEF SigInv, StoreAgrees, Nums
  <2> QED
    BY <1>3, <2>2, <2>4, <2>6, <2>7 DEF SigInv
<1>5. CASE ~ (Len(active[a]) > Threshold)
  <2>1. Ready(a, active[a]) /\ loaded' = loaded
    BY <1>5 DEF Open
  <2>2. \A i \in DOMAIN active[a] : active[a][i].num <= sent
    BY DEF SigInv, Sizes, Known
  <2>3. /\ phase' \in [Agents -> {"down", "archiving", "live"}] /\ phase'[a] = "live"
        /\ memory' \in [Agents -> Seq(Signals)] /\ memory'[a] = Newest(active[a])
        /\ \A b \in Agents : Len(memory'[b]) <= MaxPerChannel
        /\ counter' \in [Agents -> 1..(MaxSignals + 1)] /\ counter'[a] <= sent + 1
        /\ \A i \in Nums(active[a]) : i < counter'[a]
        /\ hub' \in [Procs -> {Down} \cup SUBSET Agents] /\ registry' \subseteq Agents
        /\ \A p \in Procs : Running(p) => hub'[p] # Down
        /\ \A b \in Agents \ {a} :
             phase'[b] = phase[b] /\ memory'[b] = memory[b] /\ counter'[b] = counter[b]
    BY <1>1, <2>1, <2>2, ReadyStep
  <2>4. SigTypeOK'
    BY <1>1, <1>2, <2>1, <2>3 DEF SigTypeOK
  <2>5. Sizes'
    BY <1>1, <1>2, <2>3, Hosted DEF SigInv, Sizes, Running
  <2>6. Reading'
    BY <1>2, <2>1, <2>3 DEF SigInv, Reading
  <2>7. StoreAgrees'
    <3>1. memory'[a] = Newest(active'[a]) /\ \A i \in Nums(active'[a]) : i < counter'[a]
      BY <1>2, <2>3
    <3>2. ASSUME NEW b \in Agents, b # a, phase'[b] = "live", b \notin foreign'
          PROVE  memory'[b] = Newest(active'[b]) /\ \A i \in Nums(active'[b]) : i < counter'[b]
      BY <1>2, <2>3, <3>2 DEF SigInv, StoreAgrees
    <3> QED
      BY <3>1, <3>2 DEF StoreAgrees
  <2> QED
    BY <1>3, <2>4, <2>5, <2>6, <2>7 DEF SigInv
<1> QED
  BY <1>4, <1>5

LEMMA ArchiveStep == ASSUME SigInv, NEW a \in Agents, Archive(a) PROVE SigInv'
<1>1. PICK k \in Missing(a) : archive' = [archive EXCEPT ![a] = archive[a] \cup {Excess(a)[k]}]
  BY DEF Archive
<1>2. /\ phase[a] = "archiving"
      /\ UNCHANGED <<host, phase, memory, counter, active, loaded, hub, registry, sent, filed, late, foreign>>
  BY DEF Archive
<1>3. SigTypeOK /\ Reading
  BY DEF SigInv
<1>4. /\ k \in 1..Len(loaded[a]) /\ Excess(a)[k] = loaded[a][k]
      /\ loaded[a] \in Seq(Signals) /\ Len(loaded[a]) \in Nat
  BY <1>1, <1>2, <1>3, ExcessOf DEF Missing
<1>5. /\ k \in DOMAIN active[a] /\ loaded[a][k] = active[a][k] /\ active[a] \in Seq(Signals)
  BY <1>2, <1>3, <1>4 DEF Reading, SigTypeOK
<1>6. archive'[a] = archive[a] \cup {active[a][k]} /\ \A b \in Agents \ {a} : archive'[b] = archive[b]
  BY <1>1, <1>3, <1>4, <1>5 DEF SigTypeOK
<1>7. active[a][k] \in Signals
  BY <1>5
<1>8. archive' \in [Agents -> SUBSET Signals]
  BY <1>1, <1>3, <1>4, <1>5, <1>7 DEF SigTypeOK
<1>9. SigTypeOK'
  BY <1>2, <1>3, <1>8 DEF SigTypeOK
<1>10. Sizes'
  BY <1>2, <1>5, <1>6 DEF SigInv, Sizes, Running
<1>11. InOrder' /\ StoreAgrees'
  BY <1>2 DEF SigInv, InOrder, StoreAgrees, Nums
<1>12. Older'
  BY <1>2, <1>5, <1>6 DEF SigInv, Older, ToSet
<1>13. NothingLost'
  BY <1>2, <1>6 DEF SigInv, NothingLost
<1>14. Reading'
  <2>1. ASSUME NEW i \in DOMAIN active[a], Len(loaded[a]) < i PROVE active[a][i] # active[a][k]
    <3>1. k < i
      BY <1>4, <1>5, <2>1
    <3>2. active[a][k].n < active[a][i].n /\ active[a][k].n \in Nat
      BY <1>5, <1>7, <3>1 DEF SigInv, InOrder, Signals
    <3> QED
      BY <3>2
  <2> QED
    BY <1>2, <1>6, <2>1 DEF SigInv, Reading
<1> QED
  BY <1>9, <1>10, <1>11, <1>12, <1>13, <1>14 DEF SigInv

LEMMA RewriteStep == ASSUME SigInv, NEW a \in Agents, Rewrite(a) PROVE SigInv'
<1> DEFINE newest == Newest(loaded[a])
           d == Dropped(loaded[a])
<1>1. /\ SigTypeOK /\ Reading /\ phase[a] = "archiving" /\ Archived(a)
      /\ active' = [active EXCEPT ![a] = newest]
      /\ Ready(a, newest) /\ loaded' = [loaded EXCEPT ![a] = <<>>]
      /\ UNCHANGED <<host, archive, sent, filed, late, foreign>>
  BY DEF Rewrite, SigInv
<1>2. /\ loaded[a] \in Seq(Signals) /\ Len(loaded[a]) \in Nat /\ d \in 1..Len(loaded[a])
      /\ DOMAIN Excess(a) = 1..d /\ \A i \in 1..d : Excess(a)[i] = loaded[a][i]
  BY <1>1, ExcessOf
<1>3. /\ newest \in Seq(Signals) /\ Len(newest) = Len(loaded[a]) - d
      /\ \A i \in 1..Len(newest) : i + d \in 1..Len(loaded[a]) /\ newest[i] = loaded[a][i + d]
  BY <1>2, NewestOf
<1>4. /\ active[a] \in Seq(Signals) /\ Len(loaded[a]) <= Len(active[a])
      /\ DOMAIN active[a] = 1..Len(active[a]) /\ Len(active[a]) \in Nat
      /\ \A i \in 1..Len(loaded[a]) : loaded[a][i] = active[a][i]
      /\ \A i \in DOMAIN active[a] : Len(loaded[a]) < i => active[a][i] \in late[a] \ archive[a]
  BY <1>1, <1>2 DEF Reading, SigTypeOK
<1>5. \A i \in 1..d : active[a][i] \in archive[a]
  BY <1>1, <1>2, <1>4 DEF Archived, Missing
<1>6. active'[a] = newest /\ \A b \in Agents \ {a} : active'[b] = active[b]
  BY <1>1 DEF SigTypeOK
<1> HIDE DEF newest, d
<1>7. \A i \in 1..Len(newest) : i + d \in DOMAIN active[a] /\ newest[i] = active[a][i + d]
  BY <1>2, <1>3, <1>4
<1>8. \A i \in DOMAIN newest : Known(newest[i], sent)
  BY <1>3, <1>7 DEF SigInv, Sizes
<1>9. sent \in Nat /\ host[a] \in Procs /\ Running(host[a])
  <2>1. sent \in Nat /\ host[a] \in Procs
    BY <1>1, Hosted DEF SigTypeOK
  <2>2. Running(host[a])
    BY <1>1 DEF SigInv, Sizes
  <2> QED
    BY <2>1, <2>2
<1>10. \A i \in DOMAIN newest : newest[i].num <= sent
  BY <1>8 DEF Known
<1>11. /\ phase' \in [Agents -> {"down", "archiving", "live"}] /\ phase'[a] = "live"
       /\ memory' \in [Agents -> Seq(Signals)] /\ memory'[a] = Newest(newest)
       /\ \A b \in Agents : Len(memory'[b]) <= MaxPerChannel
       /\ counter' \in [Agents -> 1..(MaxSignals + 1)] /\ counter'[a] <= sent + 1
       /\ \A i \in Nums(newest) : i < counter'[a]
       /\ hub' \in [Procs -> {Down} \cup SUBSET Agents] /\ registry' \subseteq Agents
       /\ \A p \in Procs : Running(p) => hub'[p] # Down
       /\ \A b \in Agents \ {a} :
            phase'[b] = phase[b] /\ memory'[b] = memory[b] /\ counter'[b] = counter[b]
  BY <1>1, <1>3, <1>9, <1>10, ReadyStep
<1>12. active' \in [Agents -> Seq(Signals)]
  BY <1>1, <1>3 DEF SigTypeOK
<1>13. loaded' \in [Agents -> Seq(Signals)] /\ \A b \in Agents \ {a} : loaded'[b] = loaded[b]
  BY <1>1 DEF SigTypeOK
<1>14. SigTypeOK'
  BY <1>1, <1>11, <1>12, <1>13 DEF SigTypeOK
<1>15. Sizes'
  <2>1. ASSUME NEW b \in Agents PROVE counter'[b] <= sent' + 1
    BY <1>1, <1>11 DEF SigInv, Sizes
  <2>2. ASSUME NEW b \in Agents PROVE \A i \in DOMAIN active'[b] : Known(active'[b][i], sent')
    BY <1>1, <1>6, <1>8 DEF SigInv, Sizes
  <2>3. ASSUME NEW b \in Agents PROVE \A r \in archive'[b] : Known(r, sent')
    BY <1>1 DEF SigInv, Sizes
  <2>4. ASSUME NEW b \in Agents, phase'[b] # "down" PROVE hub'[host'[b]] # Down
    <3>1. Running(host[b]) /\ host[b] \in Procs
      BY <1>1, <1>9, <1>11, <2>4, Hosted DEF SigInv, Sizes
    <3> QED
      BY <1>1, <1>11, <3>1
  <2> QED
    BY <2>1, <2>2, <2>3, <2>4 DEF Sizes, Running
<1>16. InOrder'
  <2>1. ASSUME NEW i \in DOMAIN newest, NEW j \in DOMAIN newest, i < j PROVE newest[i].n < newest[j].n
    <3>1. i \in 1..Len(newest) /\ j \in 1..Len(newest) /\ i + d < j + d
      BY <1>2, <1>3, <2>1
    <3> QED
      BY <1>7, <3>1 DEF SigInv, InOrder
  <2> QED
    BY <1>6, <2>1 DEF SigInv, InOrder
<1>17. Reading'
  <2> SUFFICES ASSUME NEW b \in Agents, phase'[b] = "archiving"
               PROVE  /\ Threshold < Len(loaded'[b]) /\ Len(loaded'[b]) <= Len(active'[b])
                      /\ \A i \in DOMAIN loaded'[b] : loaded'[b][i] = active'[b][i]
                      /\ \A i \in DOMAIN active'[b] : Len(loaded'[b]) < i => active'[b][i] \in late'[b] \ archive'[b]
    BY DEF Reading
  <2>1. phase[b] = "archiving" /\ active'[b] = active[b] /\ loaded'[b] = loaded[b]
    BY <1>1, <1>6, <1>11, <1>13
  <2> QED
    BY <1>1, <2>1 DEF SigInv, Reading
<1>18. ASSUME NEW r \in ToSet(active[a]), r \notin ToSet(newest)
       PROVE  \E i \in DOMAIN active[a] : r = active[a][i] /\ (i \in 1..d \/ Len(loaded[a]) < i)
  <2>1. PICK i \in DOMAIN active[a] : r = active[a][i]
    BY DEF ToSet
  <2>2. CASE i \in (d + 1)..Len(loaded[a])
    <3>1. i - d \in 1..Len(newest) /\ (i - d) + d = i
      BY <1>2, <1>3, <2>2
    <3>2. newest[i - d] = r
      BY <1>7, <2>1, <3>1
    <3>3. r \in ToSet(newest)
      BY <1>3, <3>1, <3>2 DEF ToSet
    <3> QED
      BY <1>18, <3>3
  <2> QED
    BY <1>2, <1>4, <2>1, <2>2
<1>19. NothingLost'
  <2>1. ASSUME NEW r \in filed[a] PROVE r \in ToSet(newest) \cup archive[a] \cup late[a]
    <3>1. r \in ToSet(active[a]) \cup archive[a] \cup late[a]
      BY DEF SigInv, NothingLost
    <3> QED
      BY <1>4, <1>5, <1>18, <3>1
  <2> QED
    BY <1>1, <1>6, <2>1 DEF SigInv, NothingLost
<1>20. Older'
  <2>1. ASSUME NEW r \in archive[a], r \notin ToSet(newest), NEW i \in DOMAIN newest
        PROVE  r.n < newest[i].n
    <3>1. i \in 1..Len(newest) /\ newest[i] = active[a][i + d] /\ i + d \in DOMAIN active[a]
      BY <1>3, <1>7
    <3>2. CASE r \notin ToSet(active[a])
      BY <3>1, <3>2 DEF SigInv, Older
    <3>3. CASE r \in ToSet(active[a])
      <4>1. PICK k \in DOMAIN active[a] : r = active[a][k] /\ k \in 1..d
        BY <1>4, <1>18, <2>1, <3>3
      <4>2. k < i + d
        BY <1>2, <3>1, <4>1
      <4> QED
        BY <3>1, <4>1, <4>2 DEF SigInv, InOrder
    <3> QED
      BY <3>2, <3>3
  <2> QED
    BY <1>1, <1>6, <2>1 DEF SigInv, Older
<1>21. StoreAgrees'
  <2>1. memory'[a] = Newest(active'[a]) /\ \A i \in Nums(active'[a]) : i < counter'[a]
    <3>1. Newest(newest) = Newest(active'[a]) /\ Nums(newest) = Nums(active'[a])
      BY <1>6
    <3> QED
      BY <1>11, <3>1
  <2>2. ASSUME NEW b \in Agents, b # a, phase'[b] = "live", b \notin foreign'
        PROVE  memory'[b] = Newest(active'[b]) /\ \A i \in Nums(active'[b]) : i < counter'[b]
    BY <1>1, <1>6, <1>11, <2>2 DEF SigInv, StoreAgrees
  <2> QED
    BY <2>1, <2>2 DEF StoreAgrees
<1> QED
  BY <1>14, <1>15, <1>16, <1>17, <1>19, <1>20, <1>21 DEF SigInv

LEMMA DiesStep == ASSUME SigInv, NEW p \in Procs, Dies(p) PROVE SigInv'
<1>1. /\ SigTypeOK /\ Dead(p) /\ sent \in Nat
      /\ UNCHANGED <<host, active, archive, registry, sent, filed, late, foreign>>
  BY DEF Dies, SigInv, SigTypeOK
<1>2. SigTypeOK'
  BY <1>1, DeadStep DEF SigTypeOK
<1>3. Sizes'
  <2>1. ASSUME NEW b \in Agents PROVE counter'[b] <= sent' + 1
    <3>1. counter[b] <= sent + 1 /\ (counter'[b] = 1 \/ counter'[b] = counter[b])
      BY <1>1, DeadStep DEF SigInv, Sizes
    <3> QED
      BY <1>1, <3>1
  <2>2. ASSUME NEW b \in Agents PROVE \A i \in DOMAIN active'[b] : Known(active'[b][i], sent')
    BY <1>1 DEF SigInv, Sizes
  <2>3. ASSUME NEW b \in Agents PROVE \A r \in archive'[b] : Known(r, sent')
    BY <1>1 DEF SigInv, Sizes
  <2>4. ASSUME NEW b \in Agents, phase'[b] # "down" PROVE hub'[host'[b]] # Down
    <3>1. host[b] # p /\ phase[b] # "down" /\ host'[b] = host[b]
      BY <1>1, <2>4, DeadStep
    <3>2. Running(host[b]) /\ host[b] \in Procs
      BY <1>1, <3>1, Hosted DEF SigInv, Sizes
    <3> QED
      BY <1>1, <3>1, <3>2, DeadStep DEF Running
  <2> QED
    BY <2>1, <2>2, <2>3, <2>4 DEF Sizes, Running
<1>4. InOrder' /\ Older' /\ NothingLost'
  BY <1>1 DEF SigInv, InOrder, Older, NothingLost
<1>5. Reading'
  <2> SUFFICES ASSUME NEW b \in Agents, phase'[b] = "archiving"
               PROVE  /\ Threshold < Len(loaded'[b]) /\ Len(loaded'[b]) <= Len(active'[b])
                      /\ \A i \in DOMAIN loaded'[b] : loaded'[b][i] = active'[b][i]
                      /\ \A i \in DOMAIN active'[b] : Len(loaded'[b]) < i => active'[b][i] \in late'[b] \ archive'[b]
    BY DEF Reading
  <2>1. phase[b] = "archiving" /\ active'[b] = active[b] /\ loaded'[b] = loaded[b]
    BY <1>1, DeadStep
  <2> QED
    BY <1>1, <2>1 DEF SigInv, Reading
<1>6. StoreAgrees'
  BY <1>1, DeadStep DEF SigInv, StoreAgrees
<1> QED
  BY <1>2, <1>3, <1>4, <1>5, <1>6 DEF SigInv

\* What an agent sends is a signal of its own, behind all that was sent.
LEMMA SignalOf ==
  ASSUME SigInv, NEW a \in Agents, phase[a] = "live", Free(host[a]), sent < MaxSignals
  PROVE  /\ Signal(a) \in Signals /\ Signal(a).num = counter[a] /\ counter[a] <= sent + 1
         /\ Signal(a).n = sent + 1 /\ sent \in Nat /\ sent + 1 \in 0..MaxSignals
         /\ host[a] \in Procs /\ hub[host[a]] \subseteq Agents
<1>1. sent \in 0..MaxSignals /\ counter[a] \in 1..(MaxSignals + 1) /\ counter[a] <= sent + 1
  BY DEF SigInv, SigTypeOK, Sizes
<1>2. sent + 1 \in 1..MaxSignals /\ counter[a] \in 1..MaxSignals
  BY <1>1, Bounds
<1>3. host[a] \in Procs /\ hub[host[a]] \subseteq Agents
  BY Hosted DEF SigInv, SigTypeOK, Free, Running
<1> QED
  BY <1>1, <1>2, <1>3 DEF Signal, Signals

LEMMA SendDiesStep == ASSUME SigInv, NEW a \in Agents, SendDies(a) PROVE SigInv'
<1>1. /\ SigTypeOK /\ phase[a] = "live" /\ Free(host[a]) /\ sent < MaxSignals
      /\ Dead(host[a]) /\ sent' = sent + 1 /\ UNCHANGED <<host, archive, registry>>
  BY DEF SendDies, SigInv
<1>2. /\ Signal(a) \in Signals /\ Signal(a).num <= sent + 1
      /\ Signal(a).n = sent + 1 /\ sent \in Nat /\ sent + 1 \in 0..MaxSignals
      /\ host[a] \in Procs /\ hub[host[a]] \subseteq Agents
  BY <1>1, SignalOf
<1>3. PICK to \in SUBSET Agents : Files(a, to, Signal(a))
  BY <1>2 DEF SendDies
<1>4. /\ phase' \in [Agents -> {"down", "archiving", "live"}]
      /\ memory' \in [Agents -> Seq(Signals)] /\ loaded' \in [Agents -> Seq(Signals)]
      /\ \A b \in Agents : Len(memory'[b]) <= MaxPerChannel
      /\ counter' \in [Agents -> 1..(MaxSignals + 1)]
      /\ hub' \in [Procs -> {Down} \cup SUBSET Agents]
      /\ \A b \in Agents :
           \/ host[b] = host[a] /\ phase'[b] = "down" /\ counter'[b] = 1
           \/ /\ host[b] # host[a] /\ phase'[b] = phase[b] /\ memory'[b] = memory[b]
              /\ counter'[b] = counter[b] /\ loaded'[b] = loaded[b]
      /\ \A q \in Procs \ {host[a]} : hub'[q] = hub[q]
  BY <1>1, <1>2, DeadStep
<1>11. \A b \in Agents : phase'[b] = "down" \/ (phase'[b] = phase[b] /\ loaded'[b] = loaded[b])
  <2> SUFFICES ASSUME NEW b \in Agents
               PROVE  phase'[b] = "down" \/ (phase'[b] = phase[b] /\ loaded'[b] = loaded[b])
    OBVIOUS
  <2> QED
    BY <1>4
<1>12. archive' = archive /\ phase[a] # "archiving"
  BY <1>1
<1>5. /\ active' \in [Agents -> Seq(Signals)]
      /\ filed' \in [Agents -> SUBSET Signals] /\ late' \in [Agents -> SUBSET Signals]
      /\ \A b \in Agents : \A i \in DOMAIN active'[b] : Known(active'[b][i], sent')
      /\ \A b \in Agents : \A r \in archive'[b] : Known(r, sent')
      /\ InOrder' /\ Reading' /\ Older' /\ NothingLost'
  <2>1. Sizes /\ InOrder /\ Reading /\ Older /\ NothingLost
    BY DEF SigInv
  <2> DEFINE s == Signal(a)
  <2>2. s \in Signals /\ s.num <= sent + 1 /\ s.n = sent + 1 /\ Files(a, to, s)
    BY <1>2, <1>3
  <2> HIDE DEF s
  <2> QED
    BY <1>1, <1>11, <1>12, <2>1, <2>2, FilesStep
<1>6. foreign' = foreign \cup {b \in to : phase[b] # "down" /\ host[b] # host[a]}
  BY <1>3 DEF Files
<1>7. SigTypeOK'
  BY <1>1, <1>2, <1>4, <1>5, <1>6 DEF SigTypeOK
<1>8. ASSUME NEW b \in Agents PROVE counter'[b] <= sent' + 1
  <2>1. counter[b] <= sent + 1 /\ counter[b] \in Int /\ (counter'[b] = 1 \/ counter'[b] = counter[b])
    BY <1>1, <1>4 DEF SigInv, Sizes, SigTypeOK
  <2> QED
    BY <1>1, <1>2, <2>1
<1>9. Sizes'
  <2>1. ASSUME NEW b \in Agents, phase'[b] # "down" PROVE hub'[host'[b]] # Down
    <3>1. host[b] # host[a] /\ phase[b] # "down" /\ host'[b] = host[b]
      BY <1>1, <1>4, <2>1
    <3>2. Running(host[b]) /\ host[b] \in Procs
      BY <1>1, <3>1, Hosted DEF SigInv, Sizes
    <3> QED
      BY <1>4, <3>1, <3>2 DEF Running
  <2> QED
    BY <1>5, <1>8, <2>1 DEF Sizes, Running
<1>10. StoreAgrees'
  <2> SUFFICES ASSUME NEW b \in Agents, phase'[b] = "live", b \notin foreign'
               PROVE  memory'[b] = Newest(active'[b]) /\ \A i \in Nums(active'[b]) : i < counter'[b]
    BY DEF StoreAgrees
  <2>1. host[b] # host[a] /\ phase[b] = "live" /\ memory'[b] = memory[b] /\ counter'[b] = counter[b]
    BY <1>4
  <2>2. b \notin to \cup {a} /\ b \notin foreign
    BY <1>6, <2>1
  <2>3. active'[b] = active[b]
    BY <1>3, <2>2 DEF Files
  <2> QED
    BY <2>1, <2>2, <2>3 DEF SigInv, StoreAgrees
<1> QED
  BY <1>5, <1>7, <1>9, <1>10 DEF SigInv

LEMMA SendStep == ASSUME SigInv, NEW a \in Agents, SendSignal(a) PROVE SigInv'
<1> DEFINE s == Signal(a)
           to == hub[host[a]] \ {a}
           stores == Live(host[a]) \cap (to \cup {a})
<1>1. /\ SigTypeOK /\ phase[a] = "live" /\ Free(host[a]) /\ sent < MaxSignals
      /\ Files(a, to, s) /\ sent' = sent + 1
      /\ UNCHANGED <<host, phase, archive, loaded, hub, registry>>
      /\ memory' = [b \in Agents |-> IF b \in stores THEN Newest(Append(memory[b], s)) ELSE memory[b]]
      /\ counter' = [b \in Agents |-> IF b = a THEN counter[a] + 1
                                      ELSE IF b \in stores THEN Bumped(b, s) ELSE counter[b]]
  BY DEF SendSignal, SigInv
<1>2. /\ s \in Signals /\ s.num = counter[a] /\ counter[a] <= sent + 1
      /\ s.n = sent + 1 /\ sent \in Nat /\ sent + 1 \in 0..MaxSignals
      /\ host[a] \in Procs /\ to \in SUBSET Agents
  BY <1>1, SignalOf
<1>3. stores \subseteq Agents /\ a \in stores /\ \A b \in stores : host[b] = host[a] /\ phase[b] = "live"
  BY <1>1 DEF Live
<1>4. ASSUME NEW b \in Agents, b \in to \cup {a}, phase[b] = "live", b \notin stores
      PROVE  phase[b] # "down" /\ host[b] # host[a] /\ b \in to
  BY <1>3, <1>4 DEF Live
<1> HIDE DEF s, to, stores
<1>5. /\ active' \in [Agents -> Seq(Signals)]
      /\ filed' \in [Agents -> SUBSET Signals] /\ late' \in [Agents -> SUBSET Signals]
      /\ \A b \in Agents : \A i \in DOMAIN active'[b] : Known(active'[b][i], sent')
      /\ \A b \in Agents : \A r \in archive'[b] : Known(r, sent')
      /\ InOrder' /\ Reading' /\ Older' /\ NothingLost'
  <2>1. Sizes /\ InOrder /\ Reading /\ Older /\ NothingLost
    BY DEF SigInv
  <2>2. \A b \in Agents : phase'[b] = "down" \/ (phase'[b] = phase[b] /\ loaded'[b] = loaded[b])
    BY <1>1
  <2>3. archive' = archive /\ phase[a] # "archiving" /\ s.num <= sent + 1
    BY <1>1, <1>2
  <2> QED
    BY <1>1, <1>2, <2>1, <2>2, <2>3, FilesStep
<1>6. foreign' = foreign \cup {b \in to : phase[b] # "down" /\ host[b] # host[a]}
  BY <1>1 DEF Files
<1>7. ASSUME NEW b \in Agents
      PROVE  /\ memory[b] \in Seq(Signals) /\ Len(memory[b]) <= MaxPerChannel
             /\ counter[b] \in 1..(MaxSignals + 1) /\ counter[b] <= sent + 1
  BY <1>1 DEF SigInv, SigTypeOK, Sizes
<1>8. ASSUME NEW b \in Agents
      PROVE  memory'[b] \in Seq(Signals) /\ Len(memory'[b]) <= MaxPerChannel
  <2>1. CASE b \in stores
    <3>1. Append(memory[b], s) \in Seq(Signals)
      BY <1>2, <1>7
    <3>2. memory'[b] = Newest(Append(memory[b], s))
      BY <1>1, <2>1
    <3> QED
      BY <3>1, <3>2, NewestOf
  <2>2. CASE b \notin stores
    BY <1>1, <1>7, <2>2
  <2> QED
    BY <2>1, <2>2
<1>9. ASSUME NEW b \in Agents
      PROVE  /\ counter'[b] \in 1..(MaxSignals + 1) /\ counter'[b] <= sent' + 1 /\ counter[b] <= counter'[b]
             /\ b \in stores => s.num < counter'[b]
  <2>1. s.num \in Nat /\ s.num <= sent + 1 /\ counter[a] \in Nat /\ MaxSignals \in Nat
    BY <1>2, <1>7, Bounds
  <2>2. CASE b = a
    <3>1. counter'[b] = counter[a] + 1
      BY <1>1, <2>2
    <3> QED
      BY <1>1, <1>2, <1>7, <2>1, <2>2, <3>1
  <2>3. CASE b # a /\ b \in stores
    <3>1. counter'[b] = Max({counter[b], s.num + 1})
      BY <1>1, <2>3 DEF Bumped
    <3>2. counter'[b] = IF counter[b] <= s.num + 1 THEN s.num + 1 ELSE counter[b]
      BY <1>7, <2>1, <3>1, Larger
    <3> QED
      BY <1>1, <1>2, <1>7, <2>1, <3>2
  <2>4. CASE b # a /\ b \notin stores
    <3>1. counter'[b] = counter[b]
      BY <1>1, <2>4
    <3> QED
      BY <1>1, <1>2, <1>7, <2>4, <3>1
  <2> QED
    BY <2>2, <2>3, <2>4
<1>10. memory' \in [Agents -> Seq(Signals)] /\ counter' \in [Agents -> 1..(MaxSignals + 1)]
  BY <1>1, <1>8, <1>9
<1>11. SigTypeOK'
  BY <1>1, <1>2, <1>5, <1>6, <1>8, <1>10 DEF SigTypeOK
<1>12. Sizes'
  <2>1. \A b \in Agents : phase'[b] # "down" => hub'[host'[b]] # Down
    BY <1>1 DEF SigInv, Sizes, Running
  <2> QED
    BY <1>5, <1>9, <2>1 DEF Sizes, Running
<1>13. StoreAgrees'
  <2> SUFFICES ASSUME NEW b \in Agents, phase'[b] = "live", b \notin foreign'
               PROVE  memory'[b] = Newest(active'[b]) /\ \A i \in Nums(active'[b]) : i < counter'[b]
    BY DEF StoreAgrees
  <2>1. /\ phase[b] = "live" /\ b \notin foreign /\ active[b] \in Seq(Signals)
        /\ memory[b] = Newest(active[b]) /\ \A i \in Nums(active[b]) : i < counter[b]
    BY <1>1, <1>6 DEF SigInv, StoreAgrees, SigTypeOK
  <2>2. CASE b \in stores
    <3>1. b \in to \cup {a}
      BY <2>2 DEF stores
    <3>2. active'[b] = Append(active[b], s)
      BY <1>1, <3>1 DEF Files
    <3>3. memory'[b] = Newest(Append(memory[b], s))
      BY <1>1, <2>2
    <3>4. memory'[b] = Newest(active'[b])
      BY <1>2, <2>1, <3>2, <3>3, NewestGrows
    <3>5. Nums(active'[b]) \subseteq Nums(active[b]) \cup {s.num}
      BY <1>2, <2>1, <3>2 DEF Nums
    <3>6. /\ counter[b] <= counter'[b] /\ s.num < counter'[b] /\ counter[b] \in Int /\ counter'[b] \in Int
      BY <1>7, <1>9, <2>2
    <3>7. Nums(active[b]) \subseteq Nat
      <4>1. \A i \in DOMAIN active[b] : active[b][i] \in Signals
        BY <2>1, ElementOfSeq
      <4>2. \A r \in Signals : r.num \in Nat
        BY DEF Signals
      <4> QED
        BY <4>1, <4>2 DEF Nums
    <3> QED
      BY <2>1, <3>4, <3>5, <3>6, <3>7
  <2>3. CASE b \notin stores
    <3>1. b \notin to \cup {a}
      BY <1>4, <1>6, <2>1, <2>3
    <3>2. active'[b] = active[b] /\ b # a
      BY <1>1, <3>1 DEF Files
    <3>3. memory'[b] = memory[b] /\ counter'[b] = counter[b]
      BY <1>1, <2>3, <3>2
    <3> QED
      BY <2>1, <3>2, <3>3
  <2> QED
    BY <2>2, <2>3
<1> QED
  BY <1>5, <1>11, <1>12, <1>13 DEF SigInv

LEMMA SigStep == SigInv /\ [SigNext]_sigVars => SigInv'
<1> SUFFICES ASSUME SigInv, [SigNext]_sigVars PROVE SigInv'
  OBVIOUS
<1>1. CASE UNCHANGED sigVars
  <2>1. SigTypeOK' /\ Sizes'
    BY <1>1 DEF sigVars, SigInv, SigTypeOK, Sizes, Running
  <2>2. InOrder' /\ Reading' /\ Older' /\ NothingLost' /\ StoreAgrees'
    BY <1>1 DEF sigVars, SigInv, InOrder, Reading, Older, NothingLost, StoreAgrees
  <2> QED
    BY <2>1, <2>2 DEF SigInv
<1>2. CASE SigNext
  BY <1>2, HubStartsStep, DiesStep, OpenStep, ArchiveStep, RewriteStep, SendStep, SendDiesStep DEF SigNext
<1> QED
  BY <1>1, <1>2

\* Whatever is sent, relayed and archived, wherever processes die: no signal
\* that was filed is lost, a live agent sees its file and gives out fresh ids,
\* and what is archived is older than what is kept.
THEOREM SignalsAlwaysKept == SigSpec => []SignalsKept
<1>1. SigInv => SignalsKept
  BY DEF SigInv, Older, SignalsKept, ArchiveIsOlder
<1> QED
  BY SigStart, SigStep, <1>1, PTL DEF SigSpec

-----------------------------------------------------------------------------
(* The checkpoints of a thread.                                            *)

\* A checkpoint that was saved, as far as the run that goes on from it knows.
SilentPuts == {q.id : q \in {s \in silent : s.kind = "put"}}
Anchored(x) == x \in DOMAIN rows \cup {0} \cup SilentPuts

\* Ids are made in order, and what is under way follows a saved checkpoint.
WellMade(q) ==
    /\ q.kind = "put" => q.id <= clock /\ q.parent < q.id /\ Anchored(q.parent)
    /\ q.kind = "writes" => q.cp <= clock
Made ==
    /\ \A id \in DOMAIN rows : id <= clock
    /\ \A k \in DOMAIN writes : k[1] <= clock
    /\ \A q \in belated : WellMade(q)
    /\ \A r \in LgRuns : run[r] # Stopped => run[r].head <= clock /\ Anchored(run[r].head)

\* A run about to execute a task that nobody else has in flight finds no
\* writes of it, now or later; and of such a task one request may be late.
Untouched(cp) == Pending(cp) = {} /\ ~ LateFor(cp)
Sole(cp) == \A q \in belated : q.kind = "writes" /\ q.cp = cp =>
    /\ Pending(cp) = {}
    /\ \A p \in belated : p.kind = "writes" /\ p.cp = cp => p = q
Clear ==
    /\ \A r \in LgRuns :
        run[r] # Stopped /\ run[r].pc = "ready" /\ ~ run[r].doubt /\ run[r].head \notin vague
            => Untouched(run[r].head)
    /\ \A cp \in (0..MaxId) \ vague : Sole(cp)

\* What the reader has not seen yet is older than what it has seen.
Paged == walk.pc # "idle" =>
    /\ \A i, j \in DOMAIN walk.seen : i < j => walk.seen[i] > walk.seen[j]
    /\ walk.first \subseteq DOMAIN rows
    /\ \A id \in walk.first \ ToSet(walk.seen) :
        walk.pc = "on" /\ \A i \in DOMAIN walk.seen : id < walk.seen[i]

CpInv == CpTypeOK /\ Made /\ Durable /\ ResumesNewest /\ Clear /\ WritesWhole /\ Paged

LEMMA CpBounds ==
    /\ MaxId \in Nat \ {0} /\ MaxAttempts \in Nat \ {0} /\ MaxWrites \in Nat \ {0}
    /\ PageLimit \in Nat \ {0} /\ MaxFaults \in Nat \ {0}
  BY CheckpointAssumption

LEMMA CpStart == CpInit => CpInv
<1> SUFFICES ASSUME CpInit PROVE CpInv
  OBVIOUS
<1>1. CpTypeOK
  BY CpBounds DEF CpInit, CpTypeOK
<1>2. DOMAIN rows = {} /\ DOMAIN writes = {} /\ belated = {} /\ acked = {}
  BY DEF CpInit
<1>3. Made /\ Durable /\ ResumesNewest /\ Clear /\ WritesWhole /\ Paged
  BY <1>2 DEF CpInit, Made, Durable, ResumesNewest, Clear, Untouched, Sole, LateFor, WritesWhole, Pending, Paged
<1> QED
  BY <1>1, <1>3 DEF CpInv

\* What the tables hold after a request was handled.
LEMMA PutHandled ==
  ASSUME NEW q \in Put
  PROVE  /\ DOMAIN RowsAfter(q) = DOMAIN rows \cup {q.id} /\ RowsAfter(q)[q.id] = q.parent
         /\ \A id \in DOMAIN rows \ {q.id} : RowsAfter(q)[id] = rows[id]
         /\ WritesAfter(q) = writes
  BY DEF Put, RowsAfter, WritesAfter, Upserted

LEMMA WritesHandled ==
  ASSUME NEW q \in PutWrites
  PROVE  /\ RowsAfter(q) = rows
         /\ DOMAIN WritesAfter(q) = DOMAIN writes \cup ({q.cp} \X (1..q.by.width))
         /\ \A k \in {q.cp} \X (1..q.by.width) : WritesAfter(q)[k] = q.by
         /\ \A k \in DOMAIN writes : k[1] # q.cp => WritesAfter(q)[k] = writes[k]
         /\ \A k \in DOMAIN WritesAfter(q) : WritesAfter(q)[k] \in {q.by} \cup {writes[j] : j \in DOMAIN writes}
  BY DEF PutWrites, RowsAfter, WritesAfter, Upserted

LEMMA PendingAfter ==
  ASSUME NEW q \in PutWrites, writes' = WritesAfter(q), NEW cp
  PROVE  /\ cp # q.cp => Pending(cp)' = Pending(cp) /\ \A k \in Pending(cp) : writes'[k] = writes[k]
         /\ cp = q.cp /\ Pending(cp) = {} =>
              Pending(cp)' = {cp} \X (1..q.by.width) /\ \A k \in Pending(cp)' : writes'[k] = q.by
  BY WritesHandled DEF Pending

LEMMA HighestOf ==
  ASSUME NEW N \in Nat, NEW T \in SUBSET (0..N)
  PROVE  Highest(T) \in T \cup {0} /\ Highest(T) \in 0..N /\ \A x \in T : x <= Highest(T)
<1> DEFINE U == T \cup {0}
<1>1. U \in SUBSET (0..N) /\ U # {} /\ T \subseteq U
  OBVIOUS
<1> HIDE DEF U
<1>2. Max(U) \in U /\ \A x \in U : x <= Max(U)
  BY <1>1, MaxOf
<1> QED
  BY <1>1, <1>2 DEF Highest, U

LEMMA Highs == CpTypeOK =>
    /\ Latest \in 0..MaxId /\ Latest \in DOMAIN rows \cup {0} /\ \A id \in DOMAIN rows : id <= Latest
    /\ Highest(acked) \in 0..MaxId /\ Highest(acked) \in acked \cup {0}
<1> SUFFICES ASSUME CpTypeOK
             PROVE  /\ Latest \in 0..MaxId /\ Latest \in DOMAIN rows \cup {0} /\ \A id \in DOMAIN rows : id <= Latest
                    /\ Highest(acked) \in 0..MaxId /\ Highest(acked) \in acked \cup {0}
  OBVIOUS
<1>1. DOMAIN rows \in SUBSET (0..MaxId) /\ acked \in SUBSET (0..MaxId) /\ MaxId \in Nat
  BY CpBounds DEF CpTypeOK, Ids
<1> QED
  BY <1>1, HighestOf DEF Latest

\* What a request that was posted has changed, and what its client knows.
LEMMA PostedStep ==
  ASSUME CpTypeOK, NEW q, NEW answer \in {"ok", "raises"}, Posted(q, answer)
  PROVE  /\ faults' \in 0..MaxFaults
         /\ \/ Handled(q) /\ belated' = belated /\ silent' = silent
            \/ /\ Unhandled /\ answer = "ok" /\ belated' = belated /\ silent' = silent \cup {q}
            \/ /\ Unhandled /\ answer = "raises" /\ belated' \in {belated, belated \cup {q}} /\ silent' = silent
<1>1. faults \in 0..MaxFaults /\ MaxFaults \in Nat
  BY CpBounds DEF CpTypeOK
<1>2. faults' \in 0..MaxFaults
  BY <1>1 DEF Posted
<1> QED
  BY <1>2 DEF Posted

LEMMA StartsStep == ASSUME CpInv, NEW r \in LgRuns, Starts(r) PROVE CpInv'
<1>1. PICK pc \in {"ready", "written"} :
        /\ pc = "ready" => Pending(Latest) = {}
        /\ run' = [run EXCEPT ![r] = [pc |-> pc, head |-> Latest, least |-> Highest(acked), doubt |-> LateFor(Latest)]]
  BY DEF Starts
<1>2. /\ CpTypeOK /\ run \in [LgRuns -> {Stopped} \cup Going]
      /\ UNCHANGED <<rows, writes, clock, attempts, faults, belated, walk, acked, silent, vague>>
  BY DEF Starts, CpInv, CpTypeOK
<1>3. /\ Latest \in 0..MaxId /\ Latest \in DOMAIN rows \cup {0} /\ \A id \in DOMAIN rows : id <= Latest
      /\ Highest(acked) \in 0..MaxId /\ Highest(acked) \in acked \cup {0} /\ LateFor(Latest) \in BOOLEAN
  BY <1>2, Highs DEF LateFor
<1>4. [pc |-> pc, head |-> Latest, least |-> Highest(acked), doubt |-> LateFor(Latest)] \in Going
  BY <1>3 DEF Going
<1>5. /\ run' \in [LgRuns -> {Stopped} \cup Going]
      /\ run'[r] = [pc |-> pc, head |-> Latest, least |-> Highest(acked), doubt |-> LateFor(Latest)]
      /\ \A s \in LgRuns \ {r} : run'[s] = run[s]
  BY <1>1, <1>2, <1>4
<1>6. CpTypeOK'
  BY <1>2, <1>5 DEF CpTypeOK
<1>7. Made'
  <2>1. Latest <= clock /\ Anchored(Latest)
    BY <1>2, <1>3 DEF CpInv, Made, Anchored, CpTypeOK
  <2>2. ASSUME NEW s \in LgRuns, run'[s] # Stopped PROVE run'[s].head <= clock /\ Anchored(run'[s].head)
    BY <1>5, <2>1, <2>2 DEF CpInv, Made
  <2> QED
    BY <1>2, <2>2 DEF CpInv, Made, WellMade, Anchored, SilentPuts
<1>8. Durable' /\ WritesWhole' /\ Paged'
  BY <1>2 DEF CpInv, Durable, WritesWhole, Pending, Paged
<1>9. ResumesNewest'
  <2>1. Latest >= Highest(acked)
    BY <1>3 DEF CpInv, Durable
  <2> QED
    BY <1>5, <2>1 DEF CpInv, ResumesNewest
<1>10. Clear'
  <2>1. ASSUME NEW s \in LgRuns, run'[s] # Stopped, run'[s].pc = "ready", ~ run'[s].doubt, run'[s].head \notin vague
        PROVE  Untouched(run'[s].head)
    <3>1. CASE s = r
      BY <1>1, <1>5, <2>1, <3>1 DEF Untouched
    <3>2. CASE s # r
      BY <1>5, <2>1, <3>2 DEF CpInv, Clear
    <3> QED
      BY <3>1, <3>2
  <2> QED
    BY <1>2, <2>1 DEF CpInv, Clear, Untouched, Sole, Pending, LateFor
<1> QED
  BY <1>6, <1>7, <1>8, <1>9, <1>10 DEF CpInv

LEMMA EndsStep == ASSUME CpInv, NEW r \in LgRuns, Ends(r) PROVE CpInv'
<1>1. /\ CpTypeOK /\ run \in [LgRuns -> {Stopped} \cup Going] /\ run' = [run EXCEPT ![r] = Stopped]
      /\ UNCHANGED <<rows, writes, clock, attempts, faults, belated, walk, acked, silent, vague>>
  BY DEF Ends, CpInv, CpTypeOK
<1>2. run' \in [LgRuns -> {Stopped} \cup Going] /\ \A s \in LgRuns : run'[s] # Stopped => run'[s] = run[s]
  BY <1>1
<1>3. CpTypeOK'
  BY <1>1, <1>2 DEF CpTypeOK
<1>4. Made'
  BY <1>1, <1>2 DEF CpInv, Made, WellMade, Anchored, SilentPuts
<1>5. Durable' /\ WritesWhole' /\ Paged' /\ ResumesNewest'
  BY <1>1, <1>2 DEF CpInv, Durable, WritesWhole, Pending, Paged, ResumesNewest
<1>6. Clear'
  BY <1>1, <1>2 DEF CpInv, Clear, Untouched, Sole, Pending, LateFor
<1> QED
  BY <1>3, <1>4, <1>5, <1>6 DEF CpInv

LEMMA AnchorsStay ==
  ASSUME DOMAIN rows \subseteq DOMAIN rows', silent \subseteq silent'
  PROVE  \A x : Anchored(x) => Anchored(x)'
  BY DEF Anchored, SilentPuts

LEMMA ExecutesStep == ASSUME CpInv, NEW r \in LgRuns, Executes(r) PROVE CpInv'
<1>0. PICK h : h = run[r].head
  OBVIOUS
<1>1. /\ CpTypeOK /\ run[r] # Stopped /\ run[r].pc = "ready" /\ attempts < MaxAttempts /\ attempts' = attempts + 1
      /\ vague' = vague \cup (IF Rivals(r) THEN {h} ELSE {})
      /\ UNCHANGED <<clock, walk, acked>>
  BY <1>0 DEF Executes, CpInv
<1>2. run[r] \in Going /\ h \in 0..MaxId /\ h <= clock /\ clock \in 0..MaxId /\ attempts \in 0..MaxAttempts
  BY <1>0, <1>1 DEF CpTypeOK, CpInv, Made, Going
<1>3. PICK width \in 1..MaxWrites, answer \in {"ok", "raises"} :
        /\ Posted([kind |-> "writes", cp |-> h, by |-> [no |-> attempts', width |-> width]], answer)
        /\ run' = [run EXCEPT ![r] = IF answer = "ok" THEN [run[r] EXCEPT !.pc = "written"] ELSE Stopped]
  BY <1>0 DEF Executes
<1>20. PICK q : q = [kind |-> "writes", cp |-> h, by |-> [no |-> attempts', width |-> width]]
  OBVIOUS
<1>4. q \in PutWrites /\ q.kind = "writes" /\ q.cp = h /\ q.by.width = width
  <2>1. attempts' \in 1..MaxAttempts
    BY <1>1, <1>2, CpBounds
  <2> QED
    BY <1>2, <1>20, <2>1 DEF PutWrites, Attempt
<1>5. Posted(q, answer)
  BY <1>3, <1>20
<1>6. /\ faults' \in 0..MaxFaults
      /\ \/ Handled(q) /\ belated' = belated /\ silent' = silent
         \/ /\ Unhandled /\ answer = "ok" /\ belated' = belated /\ silent' = silent \cup {q}
         \/ /\ Unhandled /\ answer = "raises" /\ belated' \in {belated, belated \cup {q}} /\ silent' = silent
  BY <1>1, <1>5, PostedStep
<1>7. /\ rows' = rows /\ (writes' = writes \/ writes' = WritesAfter(q))
      /\ belated' \subseteq belated \cup {q} /\ silent \subseteq silent' /\ silent' \subseteq silent \cup {q}
      /\ writes' = writes \/ belated' = belated
  BY <1>4, <1>6, WritesHandled DEF Handled, Unhandled
<1>8. /\ run' \in [LgRuns -> {Stopped} \cup Going] /\ \A s \in LgRuns \ {r} : run'[s] = run[s]
      /\ run'[r] # Stopped => run'[r].pc = "written" /\ run'[r].head = h /\ run'[r].least = run[r].least
  <2>1. [run[r] EXCEPT !.pc = "written"] \in Going /\ [run[r] EXCEPT !.pc = "written"].pc = "written"
        /\ [run[r] EXCEPT !.pc = "written"].head = h /\ [run[r] EXCEPT !.pc = "written"].least = run[r].least
    BY <1>0, <1>2 DEF Going
  <2>2. run \in [LgRuns -> {Stopped} \cup Going]
    BY <1>1 DEF CpTypeOK
  <2> QED
    BY <1>3, <2>1, <2>2
<1>9. /\ DOMAIN writes' \subseteq DOMAIN writes \cup ({h} \X (1..width))
      /\ \A k \in DOMAIN writes' : writes'[k] \in {q.by} \cup {writes[j] : j \in DOMAIN writes}
  BY <1>4, <1>7, WritesHandled
<1>10. CpTypeOK'
  <2>1. DOMAIN writes' \subseteq (0..MaxId) \X (1..MaxWrites)
    BY <1>1, <1>2, <1>3, <1>9, CpBounds DEF CpTypeOK
  <2>2. \A k \in DOMAIN writes' : writes'[k] \in Attempt
    BY <1>1, <1>4, <1>9 DEF CpTypeOK, PutWrites
  <2>3. belated' \cup silent' \subseteq Put \cup PutWrites
    BY <1>1, <1>4, <1>7 DEF CpTypeOK
  <2>4. acked' \cup vague' \subseteq 0..MaxId /\ attempts' \in 0..MaxAttempts
    BY <1>1, <1>2, CpBounds DEF CpTypeOK
  <2> QED
    BY <1>1, <1>6, <1>7, <1>8, <2>1, <2>2, <2>3, <2>4 DEF CpTypeOK
<1>11. Made'
  <2>1. \A x : Anchored(x) => Anchored(x)'
    BY <1>7, AnchorsStay
  <2>2. ASSUME NEW k \in DOMAIN writes' PROVE k[1] <= clock
    BY <1>2, <1>9 DEF CpInv, Made
  <2>3. ASSUME NEW p \in belated' PROVE WellMade(p)'
    BY <1>1, <1>2, <1>4, <1>7, <2>1 DEF CpInv, Made, WellMade
  <2>4. ASSUME NEW s \in LgRuns, run'[s] # Stopped
        PROVE  \E x : x = run'[s].head /\ x <= clock /\ Anchored(x)
    <3>1. run[s] # Stopped /\ run'[s].head = run[s].head
      BY <1>0, <1>1, <1>8, <2>4
    <3> QED
      BY <3>1 DEF CpInv, Made
  <2> QED
    BY <1>1, <1>7, <2>1, <2>2, <2>3, <2>4 DEF CpInv, Made
<1>12. Durable'
  BY <1>1, <1>7 DEF CpInv, Durable
<1>13. ResumesNewest'
  BY <1>0, <1>1, <1>8 DEF CpInv, ResumesNewest
<1>14. h \notin vague' =>
        /\ Untouched(h) /\ \A s \in LgRuns \ {r} : run[s] # Stopped => run[s].head # h
  BY <1>0, <1>1 DEF CpInv, Clear, Rivals
<1>15. ASSUME NEW cp, cp # h
       PROVE  /\ Pending(cp)' = Pending(cp) /\ \A k \in Pending(cp) : writes'[k] = writes[k]
              /\ LateFor(cp)' <=> LateFor(cp)
              /\ \A p \in belated' : p.kind = "writes" /\ p.cp = cp => p \in belated
              /\ Sole(cp) => Sole(cp)'
  <2>1. Pending(cp)' = Pending(cp) /\ \A k \in Pending(cp) : writes'[k] = writes[k]
    BY <1>4, <1>7, <1>15, PendingAfter DEF Pending
  <2>2. belated' \ {q} = belated \ {q} 
    BY <1>6
  <2>3. \A p : p.kind = "writes" /\ p.cp = cp => (p \in belated' <=> p \in belated)
    BY <1>4, <1>15, <2>2
  <2> QED
    BY <2>1, <2>3 DEF LateFor, Sole
<1>16. h \notin vague' => Sole(h)' /\ \A k \in Pending(h)' : Pending(h)' = {h} \X (1..writes'[k].width)
  <2> SUFFICES ASSUME h \notin vague'
               PROVE  Sole(h)' /\ \A k \in Pending(h)' : Pending(h)' = {h} \X (1..writes'[k].width)
    OBVIOUS
  <2>1. Pending(h) = {} /\ ~ LateFor(h)
    BY <1>14 DEF Untouched
  <2>2. CASE Handled(q) /\ belated' = belated
    <3>3. writes' = WritesAfter(q)
      BY <2>2 DEF Handled
    <3>1. Pending(h)' = {h} \X (1..width) /\ \A k \in Pending(h)' : writes'[k].width = width
      BY <1>4, <2>1, <3>3, PendingAfter
    <3>2. Sole(h)'
      BY <2>1, <2>2 DEF Sole, LateFor
    <3> QED
      BY <3>1, <3>2
  <2>3. CASE Unhandled
    <3>1. Pending(h)' = {}
      BY <2>1, <2>3 DEF Pending, Unhandled
    <3>2. \A p \in belated' : p.kind = "writes" /\ p.cp = h => p = q
      BY <1>7, <2>1 DEF LateFor
    <3> QED
      BY <3>1, <3>2 DEF Sole
  <2> QED
    BY <1>6, <2>2, <2>3
<1>17. WritesWhole'
  <2> SUFFICES ASSUME NEW cp \in 0..MaxId, cp \notin vague', NEW k \in Pending(cp)'
               PROVE  Pending(cp)' = {cp} \X (1..writes'[k].width)
    BY DEF WritesWhole
  <2>1. CASE cp = h
    BY <1>16, <2>1
  <2>2. CASE cp # h
    BY <1>1, <1>15, <2>2 DEF CpInv, WritesWhole
  <2> QED
    BY <2>1, <2>2
<1>18. Clear'
  <2>1. ASSUME NEW s \in LgRuns, run'[s] # Stopped, run'[s].pc = "ready", ~ run'[s].doubt, run'[s].head \notin vague'
        PROVE  \E x : x = run'[s].head /\ Untouched(x)'
    <3>1. s # r /\ run'[s] = run[s]
      BY <1>8, <2>1
    <3>2. run[s].head \notin vague /\ run[s].head # h
      BY <1>1, <1>14, <2>1, <3>1
    <3>3. Untouched(run[s].head)
      BY <2>1, <3>1, <3>2 DEF CpInv, Clear
    <3> QED
      BY <1>15, <3>1, <3>2, <3>3 DEF Untouched
  <2>2. ASSUME NEW cp \in 0..MaxId, cp \notin vague' PROVE Sole(cp)'
    BY <1>1, <1>15, <1>16, <2>2 DEF CpInv, Clear
  <2> QED
    BY <2>1, <2>2 DEF Clear
<1>19. Paged'
  BY <1>1, <1>7 DEF CpInv, Paged
<1> QED
  BY <1>10, <1>11, <1>12, <1>13, <1>17, <1>18, <1>19 DEF CpInv

LEMMA SavesStep == ASSUME CpInv, NEW r \in LgRuns, Saves(r) PROVE CpInv'
<1>0. PICK h : h = run[r].head
  OBVIOUS
<1>1. /\ CpTypeOK /\ run[r] # Stopped /\ run[r].pc = "written" /\ clock < MaxId /\ clock' = clock + 1
      /\ UNCHANGED <<attempts, walk, vague>>
  BY DEF Saves, CpInv
<1>2. /\ run[r] \in Going /\ h \in 0..MaxId /\ h <= clock /\ Anchored(h) /\ clock \in 0..MaxId
      /\ run[r].least <= h /\ run[r].least \in 0..MaxId
  BY <1>0, <1>1 DEF CpTypeOK, CpInv, Made, Going, ResumesNewest
<1>20. PICK q : q = [kind |-> "put", id |-> clock', parent |-> h]
  OBVIOUS
<1>3. PICK answer \in {"ok", "raises"} :
        /\ Posted(q, answer)
        /\ acked' = acked \cup (IF answer = "ok" /\ q \notin silent' THEN {q.id} ELSE {})
        /\ run' = [run EXCEPT ![r] =
            IF answer = "ok" THEN [run[r] EXCEPT !.pc = "ready", !.head = q.id, !.doubt = FALSE] ELSE Stopped]
  BY <1>0, <1>20 DEF Saves
<1>4. /\ q \in Put /\ q.kind = "put" /\ q.id = clock + 1 /\ q.parent = h
      /\ q.id \in 1..MaxId /\ q.parent < q.id /\ q.id <= clock'
  <2>1. clock' \in 1..MaxId
    BY <1>1, <1>2, CpBounds
  <2> QED
    BY <1>1, <1>2, <1>20, <2>1 DEF Put, Ids
<1>5. /\ faults' \in 0..MaxFaults
      /\ \/ Handled(q) /\ belated' = belated /\ silent' = silent
         \/ /\ Unhandled /\ answer = "ok" /\ belated' = belated /\ silent' = silent \cup {q}
         \/ /\ Unhandled /\ answer = "raises" /\ belated' \in {belated, belated \cup {q}} /\ silent' = silent
  BY <1>1, <1>3, PostedStep
<1>6. /\ writes' = writes /\ belated' \subseteq belated \cup {q}
      /\ silent \subseteq silent' /\ silent' \subseteq silent \cup {q}
      /\ DOMAIN rows \subseteq DOMAIN rows' /\ DOMAIN rows' \subseteq DOMAIN rows \cup {q.id}
      /\ q.id \in DOMAIN rows' => rows'[q.id] = h \/ (q.id \in DOMAIN rows /\ rows'[q.id] = rows[q.id])
      /\ \A id \in DOMAIN rows \ {q.id} : rows'[id] = rows[id]
  BY <1>4, <1>5, PutHandled DEF Handled, Unhandled
<1>7. answer = "ok" => q.id \in DOMAIN rows' \/ q \in silent'
  BY <1>4, <1>5, PutHandled DEF Handled
<1>8. /\ run' \in [LgRuns -> {Stopped} \cup Going] /\ \A s \in LgRuns \ {r} : run'[s] = run[s]
      /\ run'[r] # Stopped =>
           run'[r].head = q.id /\ run'[r].least = run[r].least /\ answer = "ok"
  <2>1. PICK new : new = [run[r] EXCEPT !.pc = "ready", !.head = q.id, !.doubt = FALSE]
    OBVIOUS
  <2>2. new \in Going /\ new.head = q.id /\ new.least = run[r].least
    <3>1. new.pc = "ready" /\ new.head = q.id /\ new.least = run[r].least /\ new.doubt = FALSE
      BY <1>2, <2>1 DEF Going
    <3>2. new = [pc |-> "ready", head |-> q.id, least |-> run[r].least, doubt |-> FALSE]
      BY <1>2, <2>1 DEF Going
    <3>3. q.id \in 0..MaxId
      BY <1>4, CpBounds
    <3> QED
      BY <1>2, <3>1, <3>2, <3>3 DEF Going
  <2>3. run \in [LgRuns -> {Stopped} \cup Going]
    BY <1>1 DEF CpTypeOK
  <2> QED
    BY <1>3, <2>1, <2>2, <2>3
<1>9. \A x : Anchored(x) => Anchored(x)'
  BY <1>6, AnchorsStay
<1>10. CpTypeOK'
  <2>1. DOMAIN rows' \subseteq Ids
    BY <1>1, <1>4, <1>6 DEF CpTypeOK, Ids
  <2>2. ASSUME NEW id \in DOMAIN rows' PROVE rows'[id] \in 0..(id - 1)
    <3>1. CASE id = q.id
      BY <1>1, <1>2, <1>4, <1>6, <3>1 DEF CpTypeOK
    <3>2. CASE id # q.id
      BY <1>1, <1>6, <3>2 DEF CpTypeOK
    <3> QED
      BY <3>1, <3>2
  <2>3. belated' \cup silent' \subseteq Put \cup PutWrites
    BY <1>1, <1>4, <1>6 DEF CpTypeOK
  <2>4. acked' \cup vague' \subseteq 0..MaxId /\ clock' \in 0..MaxId
    BY <1>1, <1>3, <1>4 DEF CpTypeOK
  <2> QED
    BY <1>1, <1>5, <1>6, <1>8, <2>1, <2>2, <2>3, <2>4 DEF CpTypeOK
<1>11. Made'
  <2>1. ASSUME NEW id \in DOMAIN rows' PROVE id <= clock'
    <3>1. id \in Int /\ (id = q.id \/ id <= clock)
      BY <1>1, <1>4, <1>6 DEF CpTypeOK, CpInv, Made, Ids
    <3> QED
      BY <1>1, <1>2, <1>4, <3>1
  <2>2. ASSUME NEW k2 \in DOMAIN writes' PROVE k2[1] <= clock'
    <3>1. k2[1] \in 0..MaxId /\ k2[1] <= clock
      BY <1>1, <1>6 DEF CpTypeOK, CpInv, Made
    <3> QED
      BY <1>1, <1>2, <3>1
  <2>3. ASSUME NEW p \in belated' PROVE WellMade(p)'
    <3>1. CASE p = q
      BY <1>2, <1>4, <1>9, <3>1 DEF WellMade
    <3>2. CASE p # q
      <4>1. WellMade(p) /\ p \in Put \cup PutWrites
        BY <1>1, <1>6, <3>2 DEF CpInv, Made, CpTypeOK
      <4>2. p.kind = "put" => p.id \in Int
        BY <4>1 DEF Put, PutWrites, Ids
      <4>3. p.kind = "writes" => p.cp \in Int
        BY <4>1 DEF Put, PutWrites
      <4> QED
        BY <1>1, <1>2, <1>9, <4>1, <4>2, <4>3 DEF WellMade
    <3> QED
      BY <3>1, <3>2
  <2>4. ASSUME NEW s \in LgRuns, run'[s] # Stopped
        PROVE  \E x : x = run'[s].head /\ x <= clock' /\ Anchored(x)'
    <3>1. CASE s = r
      <4>1. run'[s].head = q.id /\ (q.id \in DOMAIN rows' \/ q \in silent')
        BY <1>7, <1>8, <2>4, <3>1
      <4>2. Anchored(q.id)'
        BY <1>4, <4>1 DEF Anchored, SilentPuts
      <4> QED
        BY <1>4, <4>1, <4>2
    <3>2. CASE s # r
      <4>1. run'[s] = run[s] /\ run[s] \in Going
        BY <1>1, <1>8, <2>4, <3>2 DEF CpTypeOK
      <4>2. run[s].head <= clock /\ Anchored(run[s].head) /\ run[s].head \in Int
        BY <2>4, <4>1 DEF CpInv, Made, Going
      <4> QED
        BY <1>1, <1>2, <1>9, <4>1, <4>2
    <3> QED
      BY <3>1, <3>2
  <2> QED
    BY <2>1, <2>2, <2>3, <2>4 DEF Made
<1>12. Durable'
  <2>1. acked' \subseteq DOMAIN rows'
    BY <1>3, <1>6, <1>7 DEF CpInv, Durable
  <2>2. ASSUME NEW id \in DOMAIN rows' PROVE \E x : x = rows'[id] /\ Anchored(x)
    <3>1. rows'[id] = h \/ (id \in DOMAIN rows /\ rows'[id] = rows[id])
      BY <1>6
    <3> QED
      BY <1>2, <3>1 DEF CpInv, Durable, Anchored, SilentPuts
  <2>3. \A id \in DOMAIN rows' : \E x : x = rows'[id] /\ Anchored(x)'
    BY <1>9, <2>2
  <2> QED
    BY <2>1, <2>3 DEF Durable, Anchored, SilentPuts
<1>13. ResumesNewest'
  <2>1. ASSUME NEW s \in LgRuns, run'[s] # Stopped PROVE run'[s].head >= run'[s].least
    <3>1. CASE s = r
      BY <1>1, <1>2, <1>4, <1>8, <2>1, <3>1
    <3>2. CASE s # r
      BY <1>8, <2>1, <3>2 DEF CpInv, ResumesNewest
    <3> QED
      BY <3>1, <3>2
  <2> QED
    BY <2>1 DEF ResumesNewest
<1>14. \A p : p.kind = "writes" /\ p \in belated' => p \in belated
  BY <1>4, <1>6
<1>15. \A cp : Pending(cp)' = Pending(cp) /\ (LateFor(cp)' => LateFor(cp)) /\ (Sole(cp) => Sole(cp)')
  BY <1>6, <1>14 DEF Pending, LateFor, Sole
<1>16. Untouched(q.id)
  <2>1. Pending(q.id) = {}
    <3>1. ASSUME NEW k2 \in DOMAIN writes PROVE k2[1] # q.id
      BY <1>1, <1>2, <1>4 DEF CpInv, Made, CpTypeOK
    <3> QED
      BY <3>1 DEF Pending
  <2>2. ASSUME NEW p \in belated, p.kind = "writes", p.cp = q.id PROVE FALSE
    BY <1>2, <1>4, <2>2 DEF CpInv, Made, WellMade
  <2> QED
    BY <2>1, <2>2 DEF Untouched, LateFor
<1>17. WritesWhole'
  BY <1>1, <1>6 DEF CpInv, WritesWhole, Pending
<1>18. Clear'
  <2>1. ASSUME NEW s \in LgRuns, run'[s] # Stopped, run'[s].pc = "ready", ~ run'[s].doubt, run'[s].head \notin vague'
        PROVE  \E x : x = run'[s].head /\ Untouched(x)'
    <3>1. \E x : x = run'[s].head /\ Untouched(x)
      <4>1. CASE s = r
        BY <1>8, <1>16, <2>1, <4>1
      <4>2. CASE s # r
        BY <1>1, <1>8, <2>1, <4>2 DEF CpInv, Clear
      <4> QED
        BY <4>1, <4>2
    <3> QED
      BY <1>15, <3>1 DEF Untouched
  <2>2. ASSUME NEW cp \in 0..MaxId, cp \notin vague' PROVE Sole(cp)'
    BY <1>1, <1>15, <2>2 DEF CpInv, Clear
  <2> QED
    BY <2>1, <2>2 DEF Clear
<1>19. Paged'
  BY <1>1, <1>6 DEF CpInv, Paged
<1> QED
  BY <1>10, <1>11, <1>12, <1>13, <1>17, <1>18, <1>19 DEF CpInv

LEMMA LateStep == ASSUME CpInv, HandledLate PROVE CpInv'
<1>1. PICK q \in belated : Handled(q) /\ belated' = belated \ {q}
  BY DEF HandledLate
<1>2. CpTypeOK /\ UNCHANGED <<clock, attempts, run, faults, walk, acked, silent, vague>>
  BY DEF HandledLate, CpInv
<1>3. q \in Put \/ q \in PutWrites
  BY <1>2 DEF CpTypeOK
<1>4. WellMade(q) /\ clock \in 0..MaxId
  BY <1>2 DEF CpInv, Made, CpTypeOK
<1>5. CASE q \in Put
  <2>1. /\ writes' = writes /\ q.kind = "put" /\ q.id \in 1..MaxId /\ q.parent \in 0..MaxId
        /\ DOMAIN rows' = DOMAIN rows \cup {q.id} /\ rows'[q.id] = q.parent
        /\ \A id \in DOMAIN rows \ {q.id} : rows'[id] = rows[id]
    BY <1>1, <1>5, PutHandled DEF Handled, Put, Ids
  <2>2. \A x : Anchored(x) => Anchored(x)'
    BY <1>2, <2>1, AnchorsStay
  <2>3. q.id <= clock /\ q.parent < q.id /\ Anchored(q.parent)
    BY <1>4, <2>1 DEF WellMade
  <2>4. CpTypeOK'
    <3>1. DOMAIN rows' \subseteq Ids
      BY <1>2, <2>1 DEF CpTypeOK, Ids
    <3>2. ASSUME NEW id \in DOMAIN rows' PROVE rows'[id] \in 0..(id - 1)
      BY <1>2, <2>1, <2>3 DEF CpTypeOK
    <3> QED
      BY <1>1, <1>2, <2>1, <3>1, <3>2 DEF CpTypeOK
  <2>5. Made'
    BY <1>1, <1>2, <2>1, <2>2, <2>3 DEF CpInv, Made, WellMade
  <2>6. Durable'
    <3>1. acked' \subseteq DOMAIN rows'
      BY <1>2, <2>1 DEF CpInv, Durable
    <3>2. ASSUME NEW id \in DOMAIN rows' PROVE \E x : x = rows'[id] /\ Anchored(x)
      BY <2>1, <2>3 DEF CpInv, Durable, Anchored, SilentPuts
    <3>3. \A id \in DOMAIN rows' : \E x : x = rows'[id] /\ Anchored(x)'
      BY <2>2, <3>2
    <3> QED
      BY <3>1, <3>3 DEF Durable, Anchored, SilentPuts
  <2>7. ResumesNewest' /\ WritesWhole'
    BY <1>2, <2>1 DEF CpInv, ResumesNewest, WritesWhole, Pending
  <2>8. Clear'
    BY <1>1, <1>2, <2>1 DEF CpInv, Clear, Untouched, Sole, Pending, LateFor
  <2>9. Paged'
    BY <1>2, <2>1 DEF CpInv, Paged
  <2> QED
    BY <2>4, <2>5, <2>6, <2>7, <2>8, <2>9 DEF CpInv
<1>6. CASE q \in PutWrites
  <2>1. /\ rows' = rows /\ writes' = WritesAfter(q) /\ q.kind = "writes" /\ q.cp \in 0..MaxId
        /\ q.by \in Attempt /\ q.by.width \in 1..MaxWrites
        /\ DOMAIN writes' = DOMAIN writes \cup ({q.cp} \X (1..q.by.width))
        /\ \A k \in DOMAIN writes' : writes'[k] \in {q.by} \cup {writes[j] : j \in DOMAIN writes}
    BY <1>1, <1>6, WritesHandled DEF Handled, PutWrites, Attempt
  <2>2. q.cp <= clock
    BY <1>4, <2>1 DEF WellMade
  <2>3. CpTypeOK'
    <3>1. DOMAIN writes' \subseteq (0..MaxId) \X (1..MaxWrites)
      BY <1>2, <2>1, CpBounds DEF CpTypeOK
    <3>2. \A k \in DOMAIN writes' : writes'[k] \in Attempt
      BY <1>2, <2>1 DEF CpTypeOK
    <3> QED
      BY <1>1, <1>2, <2>1, <3>1, <3>2 DEF CpTypeOK
  <2>4. Made'
    <3>1. ASSUME NEW k \in DOMAIN writes' PROVE k[1] <= clock
      BY <2>1, <2>2 DEF CpInv, Made
    <3> QED
      BY <1>1, <1>2, <2>1, <3>1 DEF CpInv, Made, WellMade, Anchored, SilentPuts
  <2>5. Durable' /\ ResumesNewest' /\ Paged'
    BY <1>2, <2>1 DEF CpInv, Durable, ResumesNewest, Paged
  <2>6. ASSUME NEW cp, cp # q.cp
        PROVE  /\ Pending(cp)' = Pending(cp) /\ \A k \in Pending(cp) : writes'[k] = writes[k]
               /\ (LateFor(cp)' => LateFor(cp)) /\ (Sole(cp) => Sole(cp)')
    <3>1. Pending(cp)' = Pending(cp) /\ \A k \in Pending(cp) : writes'[k] = writes[k]
      BY <1>6, <2>1, <2>6, PendingAfter
    <3> QED
      BY <1>1, <3>1 DEF LateFor, Sole
  <2>7. q.cp \notin vague =>
          /\ Sole(q.cp)'
          /\ \A k \in Pending(q.cp)' : Pending(q.cp)' = {q.cp} \X (1..writes'[k].width)
    <3> SUFFICES ASSUME q.cp \notin vague
                 PROVE  /\ Sole(q.cp)'
                        /\ \A k \in Pending(q.cp)' : Pending(q.cp)' = {q.cp} \X (1..writes'[k].width)
      OBVIOUS
    <3>1. Sole(q.cp)
      BY <2>1 DEF CpInv, Clear
    <3>2. Pending(q.cp) = {} /\ \A p \in belated : p.kind = "writes" /\ p.cp = q.cp => p = q
      BY <2>1, <3>1 DEF Sole
    <3>3. Sole(q.cp)'
      BY <1>1, <3>2 DEF Sole
    <3>4. \A k \in Pending(q.cp)' : Pending(q.cp)' = {q.cp} \X (1..writes'[k].width)
      BY <1>6, <2>1, <3>2, PendingAfter
    <3> QED
      BY <3>3, <3>4
  <2>8. WritesWhole'
    <3> SUFFICES ASSUME NEW cp \in 0..MaxId, cp \notin vague', NEW k \in Pending(cp)'
                 PROVE  Pending(cp)' = {cp} \X (1..writes'[k].width)
      BY DEF WritesWhole
    <3>1. CASE cp = q.cp
      BY <1>2, <2>7, <3>1
    <3>2. CASE cp # q.cp
      BY <1>2, <2>6, <3>2 DEF CpInv, WritesWhole
    <3> QED
      BY <3>1, <3>2
  <2>9. Clear'
    <3>1. ASSUME NEW s \in LgRuns, run[s] # Stopped, run[s].pc = "ready", ~ run[s].doubt, run[s].head \notin vague
          PROVE  \E x : x = run[s].head /\ Untouched(x)'
      <4>1. Untouched(run[s].head)
        BY <3>1 DEF CpInv, Clear
      <4>2. run[s].head # q.cp
        BY <2>1, <4>1 DEF Untouched, LateFor
      <4> QED
        BY <2>6, <4>1, <4>2 DEF Untouched
    <3>2. ASSUME NEW cp \in 0..MaxId, cp \notin vague PROVE Sole(cp)'
      BY <2>6, <2>7, <3>2 DEF CpInv, Clear
    <3> QED
      BY <1>2, <3>1, <3>2 DEF Clear
  <2> QED
    BY <2>3, <2>4, <2>5, <2>8, <2>9 DEF CpInv
<1> QED
  BY <1>3, <1>5, <1>6

LEMMA WalkStartsStep == ASSUME CpInv, WalkStarts PROVE CpInv'
<1>1. /\ CpTypeOK /\ walk' = [pc |-> "on", seen |-> <<>>, first |-> DOMAIN rows]
      /\ UNCHANGED <<rows, writes, clock, attempts, run, faults, belated, acked, silent, vague>>
  BY DEF WalkStarts, CpInv
<1>2. walk' \in Walking
  BY <1>1 DEF CpTypeOK, Walking
<1>3. CpTypeOK'
  BY <1>1, <1>2 DEF CpTypeOK
<1>4. Made' /\ Durable' /\ ResumesNewest'
  BY <1>1 DEF CpInv, Made, WellMade, Anchored, SilentPuts, Durable, ResumesNewest
<1>5. Clear' /\ WritesWhole'
  BY <1>1 DEF CpInv, Clear, Untouched, Sole, Pending, LateFor, WritesWhole
<1>6. Paged'
  BY <1>1 DEF Paged
<1> QED
  BY <1>3, <1>4, <1>5, <1>6 DEF CpInv

\* What a page is, to one who appends it to what is older than all of it.
LEMMA PageOf ==
  ASSUME NEW ids \in SUBSET Ids, NEW page \in Page(ids)
  PROVE  /\ page \in Seq(Ids) /\ \A i \in DOMAIN page : page[i] \in ids
         /\ \A i, j \in DOMAIN page : i < j => page[i] > page[j]
         /\ \A id \in ids \ ToSet(page) : page # <<>> /\ \A i \in DOMAIN page : id < page[i]
<1>1. PICK n \in 0..PageLimit : page \in [1..n -> ids]
  BY DEF Page, SeqOf
<1>2. n \in Nat /\ page \in Seq(ids) /\ Len(page) = n
  BY <1>1, CpBounds
<1>3. page \in Seq(Ids) /\ \A i \in DOMAIN page : page[i] \in ids
  BY <1>1, <1>2
<1>4. \A id \in ids \ ToSet(page) : page # <<>> /\ \A i \in DOMAIN page : id < page[i]
  <2>1. page = <<>> => Len(page) = 0
    OBVIOUS
  <2>2. PageLimit # 0
    BY CpBounds
  <2> QED
    BY <2>1, <2>2 DEF Page
<1> QED
  BY <1>3, <1>4 DEF Page

LEMMA WalkReadsStep == ASSUME CpInv, WalkReads PROVE CpInv'
<1>1. /\ CpTypeOK /\ walk.pc = "on"
      /\ UNCHANGED <<rows, writes, clock, attempts, run, faults, belated, acked, silent, vague>>
  BY DEF WalkReads, CpInv
<1>2. PICK ids : ids = IF walk.seen = <<>> THEN DOMAIN rows ELSE Before(Last(walk.seen))
  OBVIOUS
<1>16. PICK page \in Page(ids) :
        walk' = [walk EXCEPT !.seen = walk.seen \o page, !.pc = IF page = <<>> THEN "over" ELSE "on"]
  BY <1>2 DEF WalkReads
<1>3. walk \in Walking /\ walk.seen \in Seq(Ids) /\ walk.first \subseteq Ids /\ DOMAIN rows \subseteq Ids
  BY <1>1 DEF CpTypeOK, Walking
<1>4. ids \in SUBSET Ids
  BY <1>2, <1>3 DEF Before
<1>5. /\ page \in Seq(Ids) /\ \A i \in DOMAIN page : page[i] \in ids
      /\ \A i, j \in DOMAIN page : i < j => page[i] > page[j]
      /\ \A id \in ids \ ToSet(page) : page # <<>> /\ \A i \in DOMAIN page : id < page[i]
  BY <1>4, PageOf
<1> DEFINE n == Len(walk.seen)
           m == Len(page)
           new == walk.seen \o page
<1>6. /\ n \in Nat /\ m \in Nat /\ DOMAIN walk.seen = 1..n /\ DOMAIN page = 1..m
      /\ new \in Seq(Ids) /\ DOMAIN new = 1..(n + m)
      /\ \A i \in 1..n : new[i] = walk.seen[i]
      /\ \A i \in (n + 1)..(n + m) : i - n \in 1..m /\ new[i] = page[i - n]
      /\ \A i \in 1..m : new[n + i] = page[i]
  BY <1>3, <1>5
<1>7. /\ walk' \in Walking /\ walk'.seen = new /\ walk'.first = walk.first
      /\ walk'.pc = IF page = <<>> THEN "over" ELSE "on"
  <2>1. new \in Seq(Ids)
    BY <1>6
  <2> HIDE DEF new
  <2> QED
    BY <1>16, <1>3, <2>1 DEF Walking, new
<1> HIDE DEF new, n, m
<1>8. /\ \A i, j \in DOMAIN walk.seen : i < j => walk.seen[i] > walk.seen[j]
      /\ walk.first \subseteq DOMAIN rows
      /\ \A id \in walk.first \ ToSet(walk.seen) : \A i \in DOMAIN walk.seen : id < walk.seen[i]
  BY <1>1 DEF CpInv, Paged
<1>17. /\ \A i \in DOMAIN walk.seen : walk.seen[i] \in Int
       /\ \A i \in DOMAIN new : new[i] \in Int
  <2>1. \A x \in Seq(Ids) : \A i \in DOMAIN x : x[i] \in Ids
    OBVIOUS
  <2>2. Ids \subseteq Int
    BY DEF Ids
  <2> QED
    BY <1>3, <1>6, <2>1, <2>2
<1>9. ASSUME NEW id \in ids, NEW i \in 1..n PROVE id < walk.seen[i]
  <2>1. walk.seen # <<>> /\ n \in 1..n
    BY <1>6, <1>9 DEF n
  <2>2. id \in DOMAIN rows /\ id < walk.seen[n] /\ id \in Int
    BY <1>2, <1>3, <2>1 DEF Before, Last, n, Ids
  <2>3. walk.seen[i] \in Int /\ walk.seen[n] \in Int
    BY <1>6, <1>17, <2>1
  <2>4. i = n \/ walk.seen[i] > walk.seen[n]
    <3>1. i < n => i \in DOMAIN walk.seen /\ n \in DOMAIN walk.seen
      BY <1>6, <2>1
    <3>2. i < n => walk.seen[i] > walk.seen[n]
      BY <1>8, <3>1
    <3> QED
      BY <1>6, <3>2
  <2> QED
    BY <2>2, <2>3, <2>4
<1>10. ASSUME NEW i \in DOMAIN new, NEW j \in DOMAIN new, i < j PROVE new[i] > new[j]
  <2>1. i \in 1..(n + m) /\ j \in 1..(n + m)
    BY <1>6
  <2>2. CASE j <= n
    <3>1. i \in 1..n /\ j \in 1..n
      BY <1>6, <1>10, <2>1, <2>2
    <3> QED
      BY <1>6, <1>8, <1>10, <3>1
  <2>3. CASE n < i
    <3>1. i - n \in 1..m /\ j - n \in 1..m /\ i - n < j - n /\ new[i] = page[i - n] /\ new[j] = page[j - n]
      BY <1>6, <1>10, <2>1, <2>3
    <3> QED
      BY <1>5, <1>6, <3>1
  <2>4. CASE i <= n /\ n < j
    <3>1. i \in 1..n /\ j - n \in 1..m /\ new[i] = walk.seen[i] /\ new[j] = page[j - n]
      BY <1>6, <2>1, <2>4
    <3>2. page[j - n] \in ids
      BY <1>5, <1>6, <3>1
    <3>3. new[i] \in Int /\ new[j] \in Int
      BY <1>17
    <3> QED
      BY <1>9, <3>1, <3>2, <3>3
  <2> QED
    BY <1>6, <2>1, <2>2, <2>3, <2>4
<1>11. ASSUME NEW id \in walk.first, id \notin ToSet(new)
       PROVE  page # <<>> /\ \A i \in DOMAIN new : id < new[i]
  <2>1. id \notin ToSet(walk.seen) /\ id \notin ToSet(page)
    <3>1. \A i \in 1..n : new[i] # id /\ new[i] = walk.seen[i]
      <4>1. \A i \in 1..n : i \in DOMAIN new
        BY <1>6
      <4> QED
        BY <1>6, <1>11, <4>1 DEF ToSet
    <3>2. \A i \in 1..m : n + i \in DOMAIN new /\ new[n + i] = page[i]
      BY <1>6
    <3> QED
      <4>1. \A i \in 1..m : page[i] # id
        BY <1>11, <3>2 DEF ToSet
      <4> QED
        BY <1>6, <3>1, <4>1 DEF ToSet
  <2>2. \A i \in 1..n : id < walk.seen[i]
    BY <1>6, <1>8, <2>1
  <2>3. id \in ids
    <3>1. id \in DOMAIN rows
      BY <1>8
    <3>2. walk.seen # <<>> => n \in 1..n
      BY <1>3, <1>6 DEF n
    <3> QED
      BY <1>2, <2>2, <3>1, <3>2 DEF Before, Last, n
  <2>4. page # <<>> /\ \A i \in 1..m : id < page[i]
    BY <1>5, <1>6, <2>1, <2>3
  <2>5. ASSUME NEW i \in DOMAIN new PROVE id < new[i]
    <3>1. i \in 1..n \/ i \in (n + 1)..(n + m)
      BY <1>6
    <3> QED
      BY <1>6, <2>2, <2>4, <3>1
  <2> QED
    BY <2>4, <2>5
<1>12. Paged'
  BY <1>1, <1>7, <1>8, <1>10, <1>11 DEF Paged
<1>13. CpTypeOK'
  BY <1>1, <1>7 DEF CpTypeOK
<1>14. Made' /\ Durable' /\ ResumesNewest'
  BY <1>1 DEF CpInv, Made, WellMade, Anchored, SilentPuts, Durable, ResumesNewest
<1>15. Clear' /\ WritesWhole'
  BY <1>1 DEF CpInv, Clear, Untouched, Sole, Pending, LateFor, WritesWhole
<1> QED
  BY <1>12, <1>13, <1>14, <1>15 DEF CpInv

LEMMA CpStep == CpInv /\ [CpNext]_cpVars => CpInv'
<1> SUFFICES ASSUME CpInv, [CpNext]_cpVars PROVE CpInv'
  OBVIOUS
<1>1. CASE UNCHANGED cpVars
  <2>1. CpTypeOK' /\ Made' /\ Durable' /\ ResumesNewest'
    BY <1>1 DEF cpVars, CpInv, CpTypeOK, Made, WellMade, Anchored, SilentPuts, Durable, ResumesNewest
  <2>2. Clear' /\ WritesWhole' /\ Paged'
    BY <1>1 DEF cpVars, CpInv, Clear, Untouched, Sole, Pending, LateFor, WritesWhole, Paged
  <2> QED
    BY <2>1, <2>2 DEF CpInv
<1>2. CASE CpNext
  BY <1>2, StartsStep, ExecutesStep, SavesStep, EndsStep, LateStep, WalkStartsStep, WalkReadsStep DEF CpNext
<1> QED
  BY <1>1, <1>2

\* Whatever requests are lost, late, repeated or answered with an unnoticed
\* error, for any number of runs on the thread: an answered checkpoint is there
\* for good and is what the next run goes on from, the pending writes of a task
\* are those of one execution, and a reader of the list misses nothing.
THEOREM CheckpointsAlwaysKept == CpSpec => []CheckpointsKept
<1>1. Paged => PagesComplete
  BY DEF Paged, PagesComplete
<1>2. CpInv => CheckpointsKept
  BY <1>1 DEF CpInv, CheckpointsKept
<1> QED
  BY CpStart, CpStep, <1>2, PTL DEF CpSpec

-----------------------------------------------------------------------------
(* The file tools (FileOps).  A record says what an operation found and    *)
(* left, so an undo that is not refused meets what the operation left; and *)
(* the disk is a tree, so a move neither hides nor doubles a file.         *)

(* Paths. *)

(* A prefix has the elements of the path, as far as it goes. *)
LEMMA PrefixElements ==
  ASSUME NEW S, NEW p \in Seq(S), NEW q \in Seq(S)
  PROVE  IsPrefix(p, q) <=> Len(p) <= Len(q) /\ \A i \in 1 .. Len(p) : p[i] = q[i]
<1>1. CASE Len(p) <= Len(q)
  <2>1. SubSeq(p, 1, Len(p)) = p
    BY SubSeqFull
  <2>2. SubSeq(q, 1, Len(p)) \in Seq(S) /\ Len(SubSeq(q, 1, Len(p))) = Len(p)
        /\ \A i \in 1 .. Len(p) : SubSeq(q, 1, Len(p))[i] = q[i]
    <3>1. Len(p) \in Nat /\ Len(q) \in Nat /\ \A i \in 1 .. Len(p) : i \in 1 .. Len(q)
      BY <1>1
    <3> QED
      BY <1>1, <3>1
  <2>3. p = SubSeq(q, 1, Len(p)) <=> \A i \in 1 .. Len(p) : p[i] = SubSeq(q, 1, Len(p))[i]
    BY <2>2, SeqEqual
  <2> QED
    BY <1>1, <2>1, <2>2, <2>3 DEF IsPrefix
<1>2. CASE ~ Len(p) <= Len(q)
  BY <1>2 DEF IsPrefix
<1> QED
  BY <1>1, <1>2

(* The parents of a path are its proper prefixes that are not empty. *)
LEMMA ParentsArePrefixes ==
  ASSUME NEW S, NEW p \in Seq(S)
  PROVE  /\ \A s \in Parents(p) : /\ s \in Seq(S) /\ Len(s) \in 1 .. Len(p) - 1
                                  /\ IsPrefix(s, p)
         /\ \A s \in Seq(S) : IsPrefix(s, p) /\ Len(s) > 0 /\ s # p => s \in Parents(p)
<1>1. ASSUME NEW i \in 1 .. Len(p) - 1
      PROVE  /\ SubSeq(p, 1, i) \in Seq(S) /\ Len(SubSeq(p, 1, i)) = i
             /\ \A j \in 1 .. i : SubSeq(p, 1, i)[j] = p[j]
  OBVIOUS
<1>2. ASSUME NEW s \in Parents(p)
      PROVE  s \in Seq(S) /\ Len(s) \in 1 .. Len(p) - 1 /\ IsPrefix(s, p)
  <2>1. PICK i \in 1 .. Len(p) - 1 : s = SubSeq(p, 1, i)
    BY DEF Parents
  <2>2. s \in Seq(S) /\ Len(s) = i /\ \A j \in 1 .. i : s[j] = p[j]
    BY <1>1, <2>1
  <2>3. IsPrefix(s, p)
    BY <2>2, PrefixElements
  <2> QED
    BY <2>2, <2>3
<1>3. ASSUME NEW s \in Seq(S), IsPrefix(s, p), Len(s) > 0, s # p
      PROVE  s \in Parents(p)
  <2>1. Len(s) <= Len(p) /\ \A j \in 1 .. Len(s) : s[j] = p[j]
    BY <1>3, PrefixElements
  <2>2. Len(s) # Len(p)
    BY <1>3, <2>1, SeqEqual
  <2>3. Len(s) \in 1 .. Len(p) - 1
    BY <1>3, <2>1, <2>2
  <2>4. s = SubSeq(p, 1, Len(s))
    <3>1. /\ SubSeq(p, 1, Len(s)) \in Seq(S) /\ Len(SubSeq(p, 1, Len(s))) = Len(s)
          /\ \A j \in 1 .. Len(s) : SubSeq(p, 1, Len(s))[j] = p[j]
      BY <1>1, <2>3
    <3> QED
      BY <2>1, <3>1, SeqEqual
  <2> QED
    BY <2>3, <2>4 DEF Parents
<1> QED
  BY <1>2, <1>3

(* Prefixes of one path are prefixes of each other. *)
LEMMA PrefixesCompare ==
  ASSUME NEW S, NEW p \in Seq(S), NEW a \in Seq(S), NEW b \in Seq(S),
         IsPrefix(a, p), IsPrefix(b, p)
  PROVE  Len(a) <= Len(b) => IsPrefix(a, b)
<1>1. Len(a) <= Len(p) /\ \A i \in 1 .. Len(a) : a[i] = p[i]
  BY PrefixElements
<1>2. Len(b) <= Len(p) /\ \A i \in 1 .. Len(b) : b[i] = p[i]
  BY PrefixElements
<1>3. ASSUME Len(a) <= Len(b)
      PROVE  IsPrefix(a, b)
  <2>1. \A i \in 1 .. Len(a) : i \in 1 .. Len(b) /\ a[i] = b[i]
    BY <1>1, <1>2, <1>3
  <2> QED
    BY <1>3, <2>1, PrefixElements
<1> QED
  BY <1>3

LEMMA PrefixTransitive ==
  ASSUME NEW S, NEW a \in Seq(S), NEW b \in Seq(S), NEW p \in Seq(S),
         IsPrefix(a, b), IsPrefix(b, p)
  PROVE  IsPrefix(a, p)
<1>1. Len(a) <= Len(b) /\ \A i \in 1 .. Len(a) : a[i] = b[i]
  BY PrefixElements
<1>2. Len(b) <= Len(p) /\ \A i \in 1 .. Len(b) : b[i] = p[i]
  BY PrefixElements
<1>3. Len(a) <= Len(p) /\ \A i \in 1 .. Len(a) : a[i] = p[i]
  BY <1>1, <1>2
<1> QED
  BY <1>3, PrefixElements

(* What is under src keeps the rest of its name under into. *)
KeepsRest(m, q, src, into) ==
  /\ Len(m) = Len(into) + (Len(q) - Len(src))
  /\ \A i \in 1 .. Len(into) : m[i] = into[i]
  /\ \A i \in 1 .. Len(q) - Len(src) : m[Len(into) + i] = q[Len(src) + i]

LEMMA MovedElements ==
  ASSUME NEW S, NEW q \in Seq(S), NEW src \in Seq(S), NEW into \in Seq(S),
         IsPrefix(src, q)
  PROVE  /\ Moved(q, src, into) \in Seq(S)
         /\ KeepsRest(Moved(q, src, into), q, src, into)
         /\ IsPrefix(into, Moved(q, src, into))
<1> DEFINE m == Moved(q, src, into)
<1> DEFINE rest == SubSeq(q, Len(src) + 1, Len(q))
<1>1. Len(src) <= Len(q)
  BY DEF IsPrefix
<1>2. /\ rest \in Seq(S) /\ Len(rest) = Len(q) - Len(src)
      /\ \A i \in 1 .. Len(q) - Len(src) : rest[i] = q[Len(src) + i]
  BY <1>1
<1>3. m = into \o rest
  BY DEF Moved
<1> HIDE DEF rest, m
<1>4. /\ m \in Seq(S) /\ Len(m) = Len(into) + Len(rest)
      /\ \A i \in 1 .. Len(into) + Len(rest) :
           m[i] = IF i <= Len(into) THEN into[i] ELSE rest[i - Len(into)]
  <2> DEFINE both == into \o rest
  <2>1. /\ both \in Seq(S) /\ Len(both) = Len(into) + Len(rest)
        /\ \A i \in 1 .. Len(into) + Len(rest) :
             both[i] = IF i <= Len(into) THEN into[i] ELSE rest[i - Len(into)]
    BY <1>2, ConcatProperties
  <2>2. m = both
    BY <1>3
  <2> HIDE DEF both
  <2> QED
    BY <2>1, <2>2
<1>5. Len(into) \in Nat /\ Len(rest) \in Nat
  BY <1>2
<1>6. \A i \in 1 .. Len(into) : m[i] = into[i]
  BY <1>4, <1>5
<1>7. ASSUME NEW i \in 1 .. Len(rest)
      PROVE  m[Len(into) + i] = rest[i]
  <2>1. /\ Len(into) + i \in 1 .. Len(into) + Len(rest)
        /\ ~ (Len(into) + i <= Len(into)) /\ (Len(into) + i) - Len(into) = i
    BY <1>5
  <2> QED
    BY <1>4, <2>1
<1>8. IsPrefix(into, m)
  <2>1. Len(into) <= Len(m)
    BY <1>4, <1>5
  <2> QED
    BY <1>4, <1>6, <2>1, PrefixElements
<1>9. KeepsRest(m, q, src, into)
  BY <1>2, <1>4, <1>6, <1>7 DEF KeepsRest
<1> QED
  BY <1>4, <1>8, <1>9 DEF m

(* Paths of the workspace. *)
LEMMA PathParents ==
  ASSUME NEW p \in Path
  PROVE  /\ p \in Seq(Names \X Nat) /\ Len(p) \in Nat \ {0}
         /\ \A s \in Parents(p) : /\ s \in Path /\ s # p /\ IsPrefix(s, p)
                                  /\ Parents(s) \subseteq Parents(p)
         /\ \A s \in Path : IsPrefix(s, p) => s = p \/ s \in Parents(p)
         /\ p \notin Parents(p)
<1>1. p \in Seq(Names \X Nat) /\ Len(p) \in Nat \ {0}
  BY DEF Path
<1>2. ASSUME NEW s \in Parents(p)
      PROVE  s \in Path /\ s # p /\ IsPrefix(s, p)
  <2>1. s \in Seq(Names \X Nat) /\ Len(s) \in 1 .. Len(p) - 1 /\ IsPrefix(s, p)
    BY <1>1, ParentsArePrefixes
  <2>2. Len(s) # 0 /\ Len(s) # Len(p)
    BY <1>1, <2>1
  <2> QED
    BY <2>1, <2>2 DEF Path
<1>3. ASSUME NEW s \in Path, IsPrefix(s, p), s # p
      PROVE  s \in Parents(p)
  <2>1. s \in Seq(Names \X Nat) /\ Len(s) > 0
    BY DEF Path
  <2> QED
    BY <1>1, <1>3, <2>1, ParentsArePrefixes
<1>4. ASSUME NEW s \in Parents(p), NEW r \in Parents(s)
      PROVE  r \in Parents(p)
  <2>1. s \in Path /\ IsPrefix(s, p) /\ s \in Seq(Names \X Nat) /\ Len(s) \in 1 .. Len(p) - 1
    BY <1>1, <1>2, ParentsArePrefixes
  <2>2. r \in Seq(Names \X Nat) /\ Len(r) \in 1 .. Len(s) - 1 /\ IsPrefix(r, s)
    BY <2>1, ParentsArePrefixes
  <2>3. IsPrefix(r, p)
    BY <1>1, <2>1, <2>2, PrefixTransitive
  <2>4. Len(r) > 0 /\ Len(r) # Len(p)
    BY <1>1, <2>1, <2>2
  <2>5. r # p
    BY <2>4
  <2> QED
    BY <1>1, <2>2, <2>3, <2>4, <2>5, ParentsArePrefixes
<1>5. p \notin Parents(p)
  BY <1>2
<1> QED
  BY <1>1, <1>2, <1>3, <1>4, <1>5

(* Two names of one component after a directory are one. *)
LEMMA AppendIsPath ==
  ASSUME NEW p \in Seq(Names \X Nat), NEW n \in Names \X Nat
  PROVE  /\ p \o <<n>> \in Path /\ Append(p, n) \in Path
         /\ (p \o <<n>>)[Len(p) + 1] = n
<1>1. <<n>> \in Seq(Names \X Nat) /\ Len(<<n>>) = 1
  OBVIOUS
<1>2. /\ p \o <<n>> \in Seq(Names \X Nat) /\ Len(p \o <<n>>) = Len(p) + 1
      /\ (p \o <<n>>)[Len(p) + 1] = n
  BY <1>1
<1>3. Append(p, n) \in Seq(Names \X Nat) /\ Len(Append(p, n)) = Len(p) + 1
  OBVIOUS
<1> QED
  BY <1>2, <1>3 DEF Path

-----------------------------------------------------------------------------
(* Trees: finitely many files with a text or a torn one, in directories,   *)
(* which are in directories.                                               *)
TreeOK(t, ds) ==
  /\ IsFiniteSet(DOMAIN t)
  /\ DOMAIN t \cup ds \subseteq Path
  /\ \A p \in DOMAIN t : t[p] \in Contents \cup {Torn}
  /\ \A p \in DOMAIN t \cup ds : Parents(p) \subseteq ds
  /\ DOMAIN t \cap ds = {}

(* The files of t that hold c. *)
Holders(t, c) == {p \in DOMAIN t : t[p] = c}

Is(a, c) == IF a = c THEN 1 ELSE 0

LEMMA CutGet ==
  ASSUME NEW t, NEW p, NEW q
  PROVE  Get(Cut(t, p), q) = IF q = p THEN None ELSE Get(t, q)
  BY DEF Cut, Get

LEMMA HoldingGet ==
  ASSUME NEW t, NEW p, NEW v, NEW q
  PROVE  Get(Holding(t, p, v), q) = IF q = p THEN v ELSE Get(t, q)
  BY DEF Holding, Get

LEMMA TreeCut ==
  ASSUME NEW t, NEW ds, TreeOK(t, ds), NEW p
  PROVE  TreeOK(Cut(t, p), ds)
<1>1. IsFiniteSet(DOMAIN t \ {p})
  BY FS_RemoveElement DEF TreeOK
<1> QED
  BY <1>1 DEF TreeOK, Cut

LEMMA TreeHolding ==
  ASSUME NEW t, NEW ds, TreeOK(t, ds), NEW p \in Path, p \notin ds,
         Parents(p) \cap DOMAIN t = {}, NEW v \in Contents \cup {Torn}
  PROVE  TreeOK(Holding(t, p, v), ds \cup Parents(p))
<1> DEFINE new == Holding(t, p, v)
<1>1. /\ DOMAIN new = DOMAIN t \cup {p} /\ new[p] = v
      /\ \A q \in DOMAIN t \ {p} : new[q] = t[q]
  BY DEF Holding
<1>2. IsFiniteSet(DOMAIN t \cup {p})
  BY FS_AddElement DEF TreeOK
<1>3. /\ Parents(p) \subseteq Path /\ p \notin Parents(p)
      /\ \A s \in Parents(p) : Parents(s) \subseteq Parents(p)
  BY PathParents
<1> HIDE DEF new
<1>4. \A q \in DOMAIN new : new[q] \in Contents \cup {Torn}
  BY <1>1 DEF TreeOK
<1>5. DOMAIN new \cap (ds \cup Parents(p)) = {}
  BY <1>1, <1>3 DEF TreeOK
<1>6. \A q \in DOMAIN new \cup (ds \cup Parents(p)) : Parents(q) \subseteq ds \cup Parents(p)
  BY <1>1, <1>3 DEF TreeOK
<1> QED
  BY <1>1, <1>2, <1>3, <1>4, <1>5, <1>6 DEF TreeOK, new

LEMMA TreeMake ==
  ASSUME NEW t, NEW ds, TreeOK(t, ds), NEW d \in Path, d \notin DOMAIN t,
         Parents(d) \cap DOMAIN t = {}
  PROVE  TreeOK(t, ds \cup {d} \cup Parents(d))
<1>1. /\ Parents(d) \subseteq Path
      /\ \A s \in Parents(d) : Parents(s) \subseteq Parents(d)
  BY PathParents
<1> QED
  BY <1>1 DEF TreeOK

(* What is under d goes. *)
LEMMA TreePurge ==
  ASSUME NEW t, NEW ds, TreeOK(t, ds), NEW d \in Path
  PROVE  LET under == {q \in DOMAIN t : IsPrefix(d, q)}
         IN  TreeOK([q \in DOMAIN t \ under |-> t[q]], {q \in ds : ~ IsPrefix(d, q)})
<1> DEFINE under == {q \in DOMAIN t : IsPrefix(d, q)}
           new == [q \in DOMAIN t \ under |-> t[q]]
           nds == {q \in ds : ~ IsPrefix(d, q)}
<1>1. DOMAIN new = DOMAIN t \ under /\ \A q \in DOMAIN new : new[q] = t[q]
  OBVIOUS
<1>2. IsFiniteSet(DOMAIN new)
  BY <1>1, FS_Subset DEF TreeOK
<1>3. ASSUME NEW q \in DOMAIN t \cup ds, ~ IsPrefix(d, q), NEW s \in Parents(q)
      PROVE  s \in nds
  <2>1. s \in ds /\ q \in Path
    BY <1>3 DEF TreeOK
  <2>2. s \in Path /\ IsPrefix(s, q)
    BY <1>3, <2>1, PathParents
  <2>3. ~ IsPrefix(d, s)
    <3>1. d \in Seq(Names \X Nat) /\ s \in Seq(Names \X Nat) /\ q \in Seq(Names \X Nat)
      BY <2>1, <2>2 DEF Path
    <3> QED
      BY <1>3, <2>2, <3>1, PrefixTransitive
  <2> QED
    BY <2>1, <2>3
<1>4. \A q \in DOMAIN new \cup nds : q \in DOMAIN t \cup ds /\ ~ IsPrefix(d, q)
  BY <1>1
<1>5. DOMAIN new \subseteq DOMAIN t /\ nds \subseteq ds
  BY <1>1
<1> HIDE DEF new, nds, under
<1>6. \A q \in DOMAIN new \cup nds : Parents(q) \subseteq nds
  BY <1>3, <1>4
<1>7. \A q \in DOMAIN new : new[q] \in Contents \cup {Torn}
  BY <1>1, <1>5 DEF TreeOK
<1>8. DOMAIN new \cup nds \subseteq Path /\ DOMAIN new \cap nds = {}
  BY <1>5 DEF TreeOK
<1>9. TreeOK(new, nds)
  BY <1>2, <1>6, <1>7, <1>8 DEF TreeOK
<1> QED
  BY <1>9 DEF new, nds, under

-----------------------------------------------------------------------------
(* How many files hold a text. *)

LEMMA CutCount ==
  ASSUME NEW t, IsFiniteSet(DOMAIN t), NEW p, NEW c, c # None
  PROVE  Cardinality(Holders(Cut(t, p), c)) = Cardinality(Holders(t, c)) - Is(Get(t, p), c)
<1>1. Holders(Cut(t, p), c) = Holders(t, c) \ {p}
  BY DEF Holders, Cut
<1>2. Get(t, p) = c <=> p \in Holders(t, c)
  BY DEF Get, Holders
<1>3. IsFiniteSet(Holders(t, c)) /\ Cardinality(Holders(t, c)) \in Nat
  BY FS_Subset, FS_CardinalityType DEF Holders
<1>4. Cardinality(Holders(t, c) \ {p}) =
        IF p \in Holders(t, c) THEN Cardinality(Holders(t, c)) - 1 ELSE Cardinality(Holders(t, c))
  BY <1>3, FS_RemoveElement
<1> QED
  BY <1>1, <1>2, <1>3, <1>4 DEF Is

LEMMA HoldingCount ==
  ASSUME NEW t, IsFiniteSet(DOMAIN t), NEW p, NEW v, NEW c, c # None
  PROVE  Cardinality(Holders(Holding(t, p, v), c)) =
           Cardinality(Holders(t, c)) - Is(Get(t, p), c) + Is(v, c)
<1> DEFINE Rest == Holders(Cut(t, p), c)
<1>0. IsFiniteSet(DOMAIN t \ {p})
  BY FS_RemoveElement
<1>1. Holders(Holding(t, p, v), c) = IF v = c THEN Rest \cup {p} ELSE Rest
  BY DEF Holders, Cut, Holding
<1>2. p \notin Rest /\ IsFiniteSet(Rest) /\ Cardinality(Rest) \in Nat
  <2>1. Rest \subseteq DOMAIN t \ {p}
    BY DEF Holders, Cut
  <2> QED
    BY <1>0, <2>1, FS_Subset, FS_CardinalityType
<1>3. Cardinality(Rest) = Cardinality(Holders(t, c)) - Is(Get(t, p), c)
  BY CutCount
<1> HIDE DEF Rest
<1>4. Cardinality(Rest \cup {p}) = Cardinality(Rest) + 1
  BY <1>2, FS_AddElement
<1>5. CASE v = c
  BY <1>1, <1>2, <1>3, <1>4, <1>5 DEF Is
<1>6. CASE v # c
  BY <1>1, <1>2, <1>3, <1>6 DEF Is
<1> QED
  BY <1>5, <1>6

-----------------------------------------------------------------------------
(* A directory that is moved: its files and directories, and nothing else, *)
(* have other paths, and no two have one.                                  *)

LEMMA MovedPath ==
  ASSUME NEW q \in Path, NEW src \in Path, NEW into \in Path
  PROVE  /\ Moved(q, src, into) \in Path
         /\ ~ IsPrefix(src, q) => Moved(q, src, into) = q
         /\ IsPrefix(src, q) => IsPrefix(into, Moved(q, src, into))
<1>1. /\ q \in Seq(Names \X Nat) /\ src \in Seq(Names \X Nat)
      /\ into \in Seq(Names \X Nat) /\ Len(into) > 0
  BY DEF Path
<1>2. CASE ~ IsPrefix(src, q)
  BY <1>2 DEF Moved
<1>3. CASE IsPrefix(src, q)
  <2> DEFINE m == Moved(q, src, into)
  <2>1. m \in Seq(Names \X Nat) /\ IsPrefix(into, m)
    BY <1>1, <1>3, MovedElements
  <2> HIDE DEF m
  <2>2. Len(into) <= Len(m)
    BY <2>1 DEF IsPrefix
  <2>3. m \in Path
    BY <1>1, <2>1, <2>2 DEF Path
  <2> QED
    BY <1>3, <2>1, <2>3 DEF m
<1> QED
  BY <1>2, <1>3

(* Below src, different paths stay different. *)
LEMMA MovedDiffer ==
  ASSUME NEW src \in Path, NEW into \in Path, NEW q \in Path, NEW r \in Path,
         IsPrefix(src, q), IsPrefix(src, r), Moved(q, src, into) = Moved(r, src, into)
  PROVE  q = r
<1> DEFINE m == Moved(q, src, into)
<1>1. /\ q \in Seq(Names \X Nat) /\ r \in Seq(Names \X Nat)
      /\ src \in Seq(Names \X Nat) /\ into \in Seq(Names \X Nat)
  BY DEF Path
<1>k. KeepsRest(m, q, src, into) /\ KeepsRest(m, r, src, into)
  <2>1. KeepsRest(Moved(q, src, into), q, src, into)
    BY <1>1, MovedElements
  <2>2. KeepsRest(Moved(r, src, into), r, src, into)
    BY <1>1, MovedElements
  <2> QED
    BY <2>1, <2>2
<1> HIDE DEF m
<1>2. /\ Len(m) = Len(into) + (Len(q) - Len(src))
      /\ \A i \in 1 .. Len(q) - Len(src) : m[Len(into) + i] = q[Len(src) + i]
  BY <1>k DEF KeepsRest
<1>3. /\ Len(m) = Len(into) + (Len(r) - Len(src))
      /\ \A i \in 1 .. Len(r) - Len(src) : m[Len(into) + i] = r[Len(src) + i]
  BY <1>k DEF KeepsRest
<1>4. /\ Len(src) <= Len(q) /\ \A i \in 1 .. Len(src) : src[i] = q[i]
      /\ Len(src) <= Len(r) /\ \A i \in 1 .. Len(src) : src[i] = r[i]
  BY <1>1, PrefixElements
<1>5. Len(q) = Len(r) /\ Len(q) \in Nat /\ Len(src) \in Nat
  BY <1>1, <1>2, <1>3
<1>6. ASSUME NEW i \in 1 .. Len(q)
      PROVE  q[i] = r[i]
  <2>1. CASE i <= Len(src)
    <3>1. i \in 1 .. Len(src)
      BY <1>5, <2>1
    <3> QED
      BY <1>4, <3>1
  <2>2. CASE i > Len(src)
    <3> DEFINE j == i - Len(src)
    <3>1. j \in 1 .. Len(q) - Len(src) /\ j \in 1 .. Len(r) - Len(src) /\ Len(src) + j = i
      BY <1>5, <2>2
    <3> HIDE DEF j
    <3>2. m[Len(into) + j] = q[Len(src) + j] /\ m[Len(into) + j] = r[Len(src) + j]
      BY <1>2, <1>3, <3>1
    <3> QED
      BY <3>1, <3>2
  <2> QED
    BY <1>5, <2>1, <2>2
<1> QED
  BY <1>1, <1>5, <1>6, SeqEqual

(* The directories above what was below src. *)
LEMMA MovedParents ==
  ASSUME NEW src \in Path, NEW into \in Path, NEW q \in Path, IsPrefix(src, q),
         NEW s \in Parents(Moved(q, src, into))
  PROVE  \/ s \in Parents(into)
         \/ \E r \in Parents(q) : IsPrefix(src, r) /\ s = Moved(r, src, into)
<1> DEFINE m == Moved(q, src, into)
<1>1. /\ q \in Seq(Names \X Nat) /\ src \in Seq(Names \X Nat) /\ into \in Seq(Names \X Nat)
      /\ Len(q) \in Nat /\ Len(src) \in Nat /\ Len(into) \in Nat /\ Len(src) > 0
  BY DEF Path
<1>m. /\ m \in Seq(Names \X Nat) /\ IsPrefix(into, m) /\ s \in Parents(m)
      /\ KeepsRest(m, q, src, into)
  BY <1>1, MovedElements
<1> HIDE DEF m
<1>2. /\ m \in Seq(Names \X Nat) /\ IsPrefix(into, m)
      /\ Len(m) = Len(into) + (Len(q) - Len(src))
      /\ \A i \in 1 .. Len(into) : m[i] = into[i]
      /\ \A i \in 1 .. Len(q) - Len(src) : m[Len(into) + i] = q[Len(src) + i]
  BY <1>m DEF KeepsRest
<1>3. s \in Seq(Names \X Nat) /\ Len(s) \in 1 .. Len(m) - 1 /\ IsPrefix(s, m)
  BY <1>2, <1>m, ParentsArePrefixes
<1>4. Len(src) <= Len(q) /\ \A i \in 1 .. Len(src) : src[i] = q[i]
  BY <1>1, PrefixElements
<1>5. Len(s) <= Len(m) /\ \A i \in 1 .. Len(s) : s[i] = m[i]
  BY <1>2, <1>3, PrefixElements
<1>6. CASE Len(s) < Len(into)
  <2>1. Len(s) # Len(into) /\ Len(s) > 0 /\ Len(s) <= Len(into)
    BY <1>1, <1>3, <1>6
  <2>2. IsPrefix(s, into)
    BY <1>1, <1>2, <1>3, <2>1, PrefixesCompare
  <2>3. s # into
    BY <2>1
  <2> QED
    BY <1>1, <1>3, <2>1, <2>2, <2>3, ParentsArePrefixes
<1>7. CASE Len(s) >= Len(into)
  <2> DEFINE n == Len(src) + (Len(s) - Len(into))
             r == SubSeq(q, 1, n)
  <2>1. n \in 1 .. Len(q) - 1 /\ n >= Len(src) /\ Len(s) = Len(into) + (n - Len(src))
    BY <1>1, <1>2, <1>3, <1>7
  <2> HIDE DEF n
  <2>2. r \in Parents(q)
    BY <2>1 DEF Parents
  <2>3. r \in Seq(Names \X Nat) /\ Len(r) = n /\ \A i \in 1 .. n : r[i] = q[i]
    <3>1. n \in Nat /\ n <= Len(q)
      BY <1>1, <2>1
    <3>2. \A i \in 1 .. n : i \in 1 .. Len(q)
      BY <1>1, <3>1
    <3>3. r \in Seq(Names \X Nat) /\ Len(r) = n
      BY <1>1, <3>1, <3>2
    <3>4. \A i \in 1 .. n : r[i] = q[i]
      BY <1>1, <3>1, <3>2
    <3> QED
      BY <3>3, <3>4
  <2> HIDE DEF r
  <2>4. IsPrefix(src, r)
    <3>1. \A i \in 1 .. Len(src) : src[i] = r[i]
      <4> TAKE i \in 1 .. Len(src)
      <4>1. i \in 1 .. n
        BY <1>1, <2>1
      <4> QED
        BY <1>4, <2>3, <4>1
    <3> QED
      BY <1>1, <2>1, <2>3, <3>1, PrefixElements
  <2> DEFINE w == Moved(r, src, into)
  <2>w. w \in Seq(Names \X Nat) /\ KeepsRest(w, r, src, into)
    BY <1>1, <2>3, <2>4, MovedElements
  <2> HIDE DEF w
  <2>5. /\ w \in Seq(Names \X Nat)
        /\ Len(w) = Len(into) + (Len(r) - Len(src))
        /\ \A i \in 1 .. Len(into) : w[i] = into[i]
        /\ \A i \in 1 .. Len(r) - Len(src) : w[Len(into) + i] = r[Len(src) + i]
    BY <2>w DEF KeepsRest
  <2>6. Len(w) = Len(s)
    BY <2>1, <2>3, <2>5
  <2>7. ASSUME NEW i \in 1 .. Len(s)
        PROVE  w[i] = s[i]
    <3>1. s[i] = m[i]
      BY <1>5
    <3>2. CASE i <= Len(into)
      <4>1. i \in 1 .. Len(into)
        BY <1>1, <3>2
      <4> QED
        BY <1>2, <2>5, <3>1, <4>1
    <3>3. CASE i > Len(into)
      <4> DEFINE j == i - Len(into)
      <4>1. /\ j \in 1 .. Len(r) - Len(src) /\ j \in 1 .. Len(q) - Len(src)
            /\ Len(into) + j = i /\ Len(src) + j \in 1 .. n
        <5>a. i \in Nat /\ n \in Nat
          BY <1>1, <1>3, <2>1
        <5>b. j \in Nat /\ j > 0 /\ Len(into) + j = i
          BY <1>1, <3>3, <5>a
        <5>1. i \in Nat /\ n \in Nat /\ j \in Nat /\ j > 0 /\ Len(into) + j = i
          BY <5>a, <5>b
        <5> HIDE DEF j
        <5>2. j <= n - Len(src)
          BY <1>1, <2>1, <5>1
        <5>3. Len(r) - Len(src) = n - Len(src) /\ n - Len(src) <= Len(q) - Len(src)
              /\ Len(src) + j <= n
          BY <1>1, <2>1, <2>3, <5>1, <5>2
        <5>4. Len(r) - Len(src) \in Int /\ Len(q) - Len(src) \in Int /\ Len(src) + j \in Nat
          BY <1>1, <5>1, <2>3
        <5>5. j \in 1 .. Len(r) - Len(src)
          BY <5>1, <5>2, <5>3, <5>4
        <5>6. j \in 1 .. Len(q) - Len(src)
          BY <5>1, <5>2, <5>3, <5>4
        <5>7. Len(src) + j \in 1 .. n
          BY <1>1, <5>1, <5>3, <5>4
        <5> QED
          BY <5>1, <5>5, <5>6, <5>7
      <4> HIDE DEF j
      <4>2. m[Len(into) + j] = q[Len(src) + j]
        BY <1>2, <4>1
      <4>3. w[Len(into) + j] = r[Len(src) + j]
        BY <2>5, <4>1
      <4>4. r[Len(src) + j] = q[Len(src) + j]
        BY <2>3, <4>1
      <4> QED
        BY <3>1, <4>1, <4>2, <4>3, <4>4
    <3> QED
      BY <1>1, <3>2, <3>3
  <2>8. w = s
    BY <1>3, <2>5, <2>6, <2>7, SeqEqual
  <2> QED
    BY <2>2, <2>4, <2>8 DEF w
<1> QED
  BY <1>1, <1>3, <1>6, <1>7

(* Nothing is under a path that is neither file nor directory. *)
LEMMA NothingUnder ==
  ASSUME NEW t, NEW ds, TreeOK(t, ds), NEW into \in Path, into \notin DOMAIN t \cup ds
  PROVE  \A q \in DOMAIN t \cup ds : ~ IsPrefix(into, q)
<1>1. ASSUME NEW q \in DOMAIN t \cup ds, IsPrefix(into, q)
      PROVE  FALSE
  <2>1. q \in Path /\ Parents(q) \subseteq ds
    BY DEF TreeOK
  <2>2. into = q \/ into \in Parents(q)
    BY <1>1, <2>1, PathParents
  <2> QED
    BY <2>1, <2>2
<1> QED
  BY <1>1

LEMMA MovedOnce ==
  ASSUME NEW t, NEW ds, TreeOK(t, ds), NEW src \in Path, NEW into \in Path,
         into \notin DOMAIN t \cup ds, NEW q \in DOMAIN t \cup ds, NEW r \in DOMAIN t \cup ds,
         Moved(q, src, into) = Moved(r, src, into)
  PROVE  q = r
<1>1. q \in Path /\ r \in Path
  BY DEF TreeOK
<1>2. ~ IsPrefix(into, q) /\ ~ IsPrefix(into, r)
  BY NothingUnder
<1>3. CASE IsPrefix(src, q) /\ IsPrefix(src, r)
  BY <1>1, <1>3, MovedDiffer
<1>4. CASE IsPrefix(src, q) /\ ~ IsPrefix(src, r)
  <2>1. IsPrefix(into, Moved(q, src, into)) /\ Moved(r, src, into) = r
    BY <1>1, <1>4, MovedPath
  <2> QED
    BY <1>2, <2>1
<1>5. CASE ~ IsPrefix(src, q) /\ IsPrefix(src, r)
  <2>1. IsPrefix(into, Moved(r, src, into)) /\ Moved(q, src, into) = q
    BY <1>1, <1>5, MovedPath
  <2> QED
    BY <1>2, <2>1
<1>6. CASE ~ IsPrefix(src, q) /\ ~ IsPrefix(src, r)
  BY <1>6 DEF Moved
<1> QED
  BY <1>3, <1>4, <1>5, <1>6

(* The files keep what they hold. *)
HoldWhatTheyHeld(nt, t, src, into) ==
  /\ DOMAIN nt = {Moved(q, src, into) : q \in DOMAIN t}
  /\ \A q \in DOMAIN t : nt[Moved(q, src, into)] = t[q]

LEMMA MovedFiles ==
  ASSUME NEW t, NEW ds, TreeOK(t, ds), NEW src \in Path, NEW into \in Path,
         into \notin DOMAIN t \cup ds
  PROVE  HoldWhatTheyHeld(MovedTree(t, src, into), t, src, into)
<1>1. DOMAIN MovedTree(t, src, into) = {Moved(q, src, into) : q \in DOMAIN t}
  BY DEF MovedTree
<1>2. ASSUME NEW q \in DOMAIN t
      PROVE  MovedTree(t, src, into)[Moved(q, src, into)] = t[q]
  <2> DEFINE from == {r \in DOMAIN t : Moved(r, src, into) = Moved(q, src, into)}
             moving == {r \in from : IsPrefix(src, r)}
             chosen == IF moving = {} THEN from ELSE moving
  <2>1. from = {q}
    BY MovedOnce
  <2>2. chosen = {q}
    BY <2>1
  <2>3. MovedTree(t, src, into)[Moved(q, src, into)] = t[CHOOSE r \in chosen : TRUE]
    BY DEF MovedTree
  <2> HIDE DEF chosen
  <2>4. (CHOOSE r \in chosen : TRUE) = q
    BY <2>2
  <2> QED
    BY <2>3, <2>4
<1> QED
  BY <1>1, <1>2 DEF HoldWhatTheyHeld

LEMMA TreeMoved ==
  ASSUME NEW t, NEW ds, TreeOK(t, ds), NEW src \in Path, NEW into \in Path,
         into \notin DOMAIN t \cup ds, Parents(into) \cap DOMAIN t = {}
  PROVE  TreeOK(MovedTree(t, src, into), {Moved(q, src, into) : q \in ds} \cup Parents(into))
<1> DEFINE nt == MovedTree(t, src, into)
           nds == {Moved(q, src, into) : q \in ds} \cup Parents(into)
<1>1. /\ DOMAIN nt = {Moved(q, src, into) : q \in DOMAIN t}
      /\ \A q \in DOMAIN t : nt[Moved(q, src, into)] = t[q]
  <2>1. HoldWhatTheyHeld(nt, t, src, into)
    BY MovedFiles
  <2> QED
    BY <2>1 DEF HoldWhatTheyHeld
<1> HIDE DEF nt
<1>2. IsFiniteSet(DOMAIN nt)
  <2>1. IsFiniteSet(DOMAIN t)
    BY DEF TreeOK
  <2> DEFINE T == {Moved(q, src, into) : q \in DOMAIN t}
             g == [q \in DOMAIN t |-> Moved(q, src, into)]
  <2>3. g \in Surjection(DOMAIN t, T)
    BY Fun_IsSurj
  <2> HIDE DEF g
  <2>2. IsFiniteSet(T)
    BY <2>1, <2>3, FS_Surjection
  <2> QED
    BY <1>1, <2>2
<1>3. \A q \in DOMAIN t \cup ds : q \in Path /\ Moved(q, src, into) \in Path
  BY MovedPath DEF TreeOK
<1>4. \A s \in Parents(into) : s \in Path /\ Parents(s) \subseteq Parents(into)
  BY PathParents
<1>5. DOMAIN nt \cup nds \subseteq Path
  BY <1>1, <1>3, <1>4
<1>6. \A x \in DOMAIN nt : nt[x] \in Contents \cup {Torn}
  BY <1>1 DEF TreeOK
<1>7. ASSUME NEW q \in DOMAIN t \cup ds, NEW s \in Parents(Moved(q, src, into))
      PROVE  s \in nds
  <2>1. q \in Path /\ Parents(q) \subseteq ds
    BY DEF TreeOK
  <2>2. CASE IsPrefix(src, q)
    <3>1. \/ s \in Parents(into)
          \/ \E r \in Parents(q) : IsPrefix(src, r) /\ s = Moved(r, src, into)
      BY <2>1, <2>2, MovedParents
    <3> QED
      BY <2>1, <3>1
  <2>3. CASE ~ IsPrefix(src, q)
    <3>1. s \in Parents(q)
      BY <1>7, <2>3 DEF Moved
    <3>2. s \in Path /\ IsPrefix(s, q) /\ s \in ds
      BY <2>1, <3>1, PathParents
    <3>3. ~ IsPrefix(src, s)
      <4>1. src \in Seq(Names \X Nat) /\ s \in Seq(Names \X Nat) /\ q \in Seq(Names \X Nat)
        BY <2>1, <3>2 DEF Path
      <4> QED
        BY <2>3, <3>2, <4>1, PrefixTransitive
    <3>4. s = Moved(s, src, into)
      BY <3>3 DEF Moved
    <3> QED
      BY <3>2, <3>4
  <2> QED
    BY <2>2, <2>3
<1>8. \A x \in DOMAIN nt \cup nds : Parents(x) \subseteq nds
  BY <1>1, <1>4, <1>7
<1>9. ASSUME NEW q \in DOMAIN t
      PROVE  Moved(q, src, into) \notin nds
  <2>1. q \in Path /\ q \notin ds
    BY DEF TreeOK
  <2>2. \A r \in ds : Moved(q, src, into) # Moved(r, src, into)
    BY <2>1, MovedOnce
  <2>3. Moved(q, src, into) \notin Parents(into)
    <3>1. CASE IsPrefix(src, q)
      <4>1. IsPrefix(into, Moved(q, src, into))
        BY <2>1, <3>1, MovedPath
      <4>2. into \in Seq(Names \X Nat) /\ Len(into) \in Nat
        BY DEF Path
      <4>3. \A s \in Parents(into) : Len(s) < Len(into)
        BY <4>2, ParentsArePrefixes
      <4>4. Len(into) <= Len(Moved(q, src, into))
        BY <4>1 DEF IsPrefix
      <4>5. Moved(q, src, into) \in Seq(Names \X Nat)
        BY <1>3 DEF Path
      <4> QED
        BY <4>2, <4>3, <4>4, <4>5
    <3>2. CASE ~ IsPrefix(src, q)
      BY <3>2 DEF Moved
    <3> QED
      BY <3>1, <3>2
  <2> QED
    BY <2>2, <2>3
<1>10. DOMAIN nt \cap nds = {}
  BY <1>1, <1>9
<1> HIDE DEF nds
<1>11. TreeOK(nt, nds)
  BY <1>2, <1>5, <1>6, <1>8, <1>10 DEF TreeOK
<1> QED
  BY <1>11 DEF nt, nds

LEMMA MovedCount ==
  ASSUME NEW t, NEW ds, TreeOK(t, ds), NEW src \in Path, NEW into \in Path,
         into \notin DOMAIN t \cup ds, NEW c
  PROVE  Cardinality(Holders(MovedTree(t, src, into), c)) = Cardinality(Holders(t, c))
<1> DEFINE nt == MovedTree(t, src, into)
           S == Holders(t, c)
           T == Holders(nt, c)
           g == [q \in S |-> Moved(q, src, into)]
<1>1. /\ DOMAIN nt = {Moved(q, src, into) : q \in DOMAIN t}
      /\ \A q \in DOMAIN t : nt[Moved(q, src, into)] = t[q]
  <2>1. HoldWhatTheyHeld(nt, t, src, into)
    BY MovedFiles
  <2> QED
    BY <2>1 DEF HoldWhatTheyHeld
<1> HIDE DEF nt
<1>2. T = {Moved(q, src, into) : q \in S}
  BY <1>1 DEF Holders
<1>3. IsFiniteSet(S)
  BY FS_Subset DEF TreeOK, Holders
<1>4. \A q, r \in S : Moved(q, src, into) = Moved(r, src, into) => q = r
  BY MovedOnce DEF Holders
<1> HIDE DEF S, T
<1>5. g \in Bijection(S, T)
  <2>1. g \in [S -> T]
    BY <1>2
  <2>2. \A a, b \in S : g[a] = g[b] => a = b
    BY <1>4
  <2>3. \A x \in T : \E a \in S : g[a] = x
    BY <1>2
  <2> HIDE DEF g
  <2> QED
    BY <2>1, <2>2, <2>3, Fun_IsBij
<1>6. ExistsBijection(S, T)
  BY <1>5 DEF ExistsBijection
<1>7. Cardinality(T) = Cardinality(S)
  BY <1>3, <1>6, FS_Bijection
<1> QED
  BY <1>7 DEF S, T, nt

-----------------------------------------------------------------------------
(* The inductive invariant. *)

(* What a record of an operation says: the path that was written or left,   *)
(* what was there, and where it is now; its history covers the first, and   *)
(* the second unless the operation recorded another name than it gave.      *)
SoundRecord(r) ==
  /\ r.before.path \in Path /\ r.after.path \in Path
  /\ r.before.data \in Contents \cup {Torn, None}
  /\ r.after.data \in Contents \cup {Torn, None}
  /\ DOMAIN r.left = DOMAIN r.was
  /\ r.before.path \in DOMAIN r.was /\ r.was[r.before.path] = r.before.data
  /\ r.after.path # r.before.path =>
       /\ r.after.data = r.before.data /\ r.after.data # None
       /\ r.left[r.before.path] = None
  /\ r.after.path \in DOMAIN r.was =>
       /\ r.left[r.after.path] = r.after.data
       /\ DOMAIN r.was = {r.before.path, r.after.path}

WorkspaceTyped ==
  /\ remote \in BOOLEAN /\ now \in 1 .. MaxTime
  /\ TreeOK(tree, dirs)
  /\ kept \in [Contents -> Int]

Counted == \A c \in Contents : Cardinality(Holders(tree, c)) = kept[c]

RecordOK == record = NoRecord \/ SoundRecord(record)

WorkspaceInv == WorkspaceTyped /\ Counted /\ RecordOK

LEMMA CountIs ==
  ASSUME NEW k \in [Contents -> Int], NEW x
  PROVE  /\ Count(k, x, -1) \in [Contents -> Int]
         /\ \A c \in Contents : Count(k, x, -1)[c] = k[c] - Is(x, c)
         /\ Count(k, x, 1) \in [Contents -> Int]
         /\ \A c \in Contents : Count(k, x, 1)[c] = k[c] + Is(x, c)
<1>1. CASE x \in Contents
  <2>1. /\ Count(k, x, -1) = [k EXCEPT ![x] = @ + (-1)]
        /\ Count(k, x, 1) = [k EXCEPT ![x] = @ + 1]
    BY <1>1 DEF Count
  <2>2. \A c \in Contents : k[c] \in Int
    OBVIOUS
  <2> QED
    BY <1>1, <2>1, <2>2 DEF Is
<1>2. CASE x \notin Contents
  <2>1. Count(k, x, -1) = k /\ Count(k, x, 1) = k
    BY <1>2 DEF Count
  <2>2. \A c \in Contents : Is(x, c) = 0 /\ k[c] \in Int
    BY <1>2 DEF Is
  <2> QED
    BY <2>1, <2>2
<1> QED
  BY <1>1, <1>2

LEMMA ReplacedIs ==
  ASSUME NEW k \in [Contents -> Int], NEW x, NEW y
  PROVE  /\ Replaced(k, x, y) \in [Contents -> Int]
         /\ \A c \in Contents : Replaced(k, x, y)[c] = k[c] - Is(x, c) + Is(y, c)
<1> DEFINE less == Count(k, x, -1)
<1>1. less \in [Contents -> Int] /\ \A c \in Contents : less[c] = k[c] - Is(x, c)
  BY CountIs
<1> HIDE DEF less
<1>2. /\ Count(less, y, 1) \in [Contents -> Int]
      /\ \A c \in Contents : Count(less, y, 1)[c] = less[c] + Is(y, c)
  BY <1>1, CountIs
<1>3. Replaced(k, x, y) = Count(less, y, 1)
  BY DEF Replaced, less
<1> QED
  BY <1>1, <1>2, <1>3

LEMMA NoneIsNoText ==
  /\ None \notin Contents /\ Torn \notin Contents /\ None # Torn
  /\ \A t, ds : TreeOK(t, ds) => \A p : Get(t, p) = None <=> p \notin DOMAIN t
  BY FileOpsAssumption DEF TreeOK, Get

(* The paths in the recycle bin. *)
LEMMA BinPaths ==
  ASSUME NEW p \in Path, now \in Nat
  PROVE  /\ <<Bin>> \o p \in Path /\ (<<Bin>> \o p)[1] = Bin
         /\ Stamped(p) \in Path /\ Stamped(p)[1] = Bin
<1> DEFINE b == <<Bin>> \o p
           last == <<Last(p)[1], now>>
<1>1. p \in Seq(Names \X Nat) /\ Len(p) \in Nat \ {0}
  BY PathParents
<1>2. Bin \in Names \X Nat
  BY FileOpsAssumption DEF Bin, Plain
<1>3. b \in Seq(Names \X Nat) /\ Len(b) = Len(p) + 1 /\ b[1] = Bin
  <2>1. <<Bin>> \in Seq(Names \X Nat) /\ Len(<<Bin>>) = 1 /\ <<Bin>>[1] = Bin
    BY <1>2
  <2> QED
    BY <1>1, <2>1, ConcatProperties
<1>4. last \in Names \X Nat
  <2>1. Last(p) \in Names \X Nat
    BY <1>1 DEF Last
  <2> QED
    BY <2>1
<1> HIDE DEF last
<1>5. <<Bin, last>> \in Path /\ <<Bin, last>>[1] = Bin
  <2>1. <<Bin, last>> \in Seq(Names \X Nat) /\ Len(<<Bin, last>>) = 2
    BY <1>2, <1>4
  <2> QED
    BY <2>1 DEF Path
<1>6. Front(b) \o <<last>> \in Path /\ (Front(b) \o <<last>>)[1] = Bin
  <2>1. /\ Front(b) \in Seq(Names \X Nat) /\ Len(Front(b)) = Len(p)
        /\ Front(b)[1] = Bin
    <3>1. /\ SubSeq(b, 1, Len(b) - 1) \in Seq(Names \X Nat)
          /\ Len(SubSeq(b, 1, Len(b) - 1)) = Len(b) - 1
          /\ SubSeq(b, 1, Len(b) - 1)[1] = b[1]
      BY <1>1, <1>3
    <3> QED
      BY <1>1, <1>3, <3>1 DEF Front
  <2> DEFINE fr == Front(b)
  <2> HIDE DEF fr
  <2>2. fr \in Seq(Names \X Nat) /\ Len(fr) > 0 /\ fr[1] = Bin
    BY <1>1, <2>1 DEF fr
  <2>3. fr \o <<last>> \in Path
    BY <1>4, <2>2, AppendIsPath
  <2>4. (fr \o <<last>>)[1] = fr[1]
    BY <1>4, <2>2
  <2> QED
    BY <2>2, <2>3, <2>4 DEF fr
<1>7. b \in Path
  BY <1>1, <1>3 DEF Path
<1>8. Stamped(p) = IF remote THEN <<Bin, last>> ELSE Front(b) \o <<last>>
  BY DEF Stamped, last
<1> HIDE DEF b
<1>9. Stamped(p) \in Path /\ Stamped(p)[1] = Bin
  BY <1>5, <1>6, <1>8
<1> QED
  BY <1>3, <1>7, <1>9 DEF b

(* The records. *)
LEMMA RecordOf ==
  ASSUME NEW before, NEW after, NEW nt, NEW r, r = Record(before, after, nt)
  PROVE  /\ r.before = before /\ r.after = after
         /\ DOMAIN r.left = DOMAIN r.was /\ before.path \in DOMAIN r.was
         /\ \A q \in DOMAIN r.was : /\ r.was[q] = Get(tree, q) /\ r.left[q] = Get(nt, q)
                                    /\ q = before.path \/ Get(tree, q) # Get(nt, q)
  BY DEF Record

LEMMA WriteRecorded ==
  ASSUME NEW p \in Path, NEW nt, \A q : q # p => Get(nt, q) = Get(tree, q),
         Get(tree, p) \in Contents \cup {Torn, None}, Get(nt, p) \in Contents \cup {Torn, None}
  PROVE  SoundRecord(Record(Snapshot(tree, p), Snapshot(nt, p), nt))
<1> DEFINE r == Record(Snapshot(tree, p), Snapshot(nt, p), nt)
<1>1. /\ Snapshot(tree, p).path = p /\ Snapshot(tree, p).data = Get(tree, p)
      /\ Snapshot(nt, p).path = p /\ Snapshot(nt, p).data = Get(nt, p)
  BY DEF Snapshot
<1>2. /\ r.before = Snapshot(tree, p) /\ r.after = Snapshot(nt, p)
      /\ DOMAIN r.left = DOMAIN r.was /\ Snapshot(tree, p).path \in DOMAIN r.was
      /\ \A q \in DOMAIN r.was : /\ r.was[q] = Get(tree, q) /\ r.left[q] = Get(nt, q)
                                 /\ q = Snapshot(tree, p).path \/ Get(tree, q) # Get(nt, q)
  BY RecordOf
<1> HIDE DEF r
<1>3. DOMAIN r.was = {p}
  BY <1>1, <1>2
<1>4. SoundRecord(r)
  BY <1>1, <1>2, <1>3 DEF SoundRecord
<1> QED
  BY <1>4 DEF r

LEMMA MoveRecorded ==
  ASSUME NEW p \in Path, NEW dst \in Path, NEW x \in Path, NEW nt, dst # p,
         x = dst \/ x \notin {p, dst}, p \in DOMAIN tree, tree[p] \in Contents \cup {Torn},
         nt = Holding(Cut(tree, p), dst, tree[p])
  PROVE  SoundRecord(Record(Snapshot(tree, p), [path |-> x, data |-> tree[p]], nt))
<1> DEFINE after == [path |-> x, data |-> tree[p]]
           r == Record(Snapshot(tree, p), after, nt)
<1>1. /\ Snapshot(tree, p).path = p /\ Snapshot(tree, p).data = tree[p]
      /\ after.path = x /\ after.data = tree[p]
  BY DEF Snapshot, Get
<1> HIDE DEF after
<1>2. /\ r.before = Snapshot(tree, p) /\ r.after = after
      /\ DOMAIN r.left = DOMAIN r.was /\ Snapshot(tree, p).path \in DOMAIN r.was
      /\ \A q \in DOMAIN r.was : /\ r.was[q] = Get(tree, q) /\ r.left[q] = Get(nt, q)
                                 /\ q = Snapshot(tree, p).path \/ Get(tree, q) # Get(nt, q)
  BY RecordOf
<1> HIDE DEF r
<1>3. /\ Get(nt, dst) = tree[p] /\ Get(nt, p) = None /\ Get(tree, p) = tree[p]
      /\ \A q : q \notin {p, dst} => Get(nt, q) = Get(tree, q)
  BY DEF Get, Holding, Cut
<1>4. p \in DOMAIN r.was /\ DOMAIN r.was \subseteq {p, dst}
  BY <1>1, <1>2, <1>3
<1>5. tree[p] # None
  BY NoneIsNoText
<1>6. r.was[p] = tree[p] /\ r.left[p] = None
  BY <1>2, <1>3, <1>4
<1>7. ASSUME x \in DOMAIN r.was
      PROVE  r.left[x] = tree[p] /\ DOMAIN r.was = {p, x}
  BY <1>2, <1>3, <1>4, <1>7
<1>8. x # p
  OBVIOUS
<1>9. SoundRecord(r)
  BY <1>1, <1>2, <1>4, <1>5, <1>6, <1>7, <1>8 DEF SoundRecord
<1> QED
  BY <1>9 DEF r, after

-----------------------------------------------------------------------------
(* The steps. *)

LEMMA WorkspaceStart == Init => WorkspaceInv
<1> SUFFICES ASSUME Init PROVE WorkspaceInv
  OBVIOUS
<1>1. DOMAIN tree = {} /\ dirs = {} /\ kept = [c \in Contents |-> 0]
  BY DEF Init
<1>2. TreeOK(tree, dirs)
  BY <1>1, FS_EmptySet DEF TreeOK
<1>3. \A c \in Contents : Holders(tree, c) = {}
  BY <1>1 DEF Holders
<1>4. Counted
  BY <1>1, <1>3, FS_EmptySet DEF Counted
<1>5. now \in 1 .. MaxTime /\ remote \in BOOLEAN
  BY FileOpsAssumption DEF Init
<1>6. kept \in [Contents -> Int] /\ record = NoRecord
  BY <1>1 DEF Init
<1> QED
  BY <1>2, <1>4, <1>5, <1>6 DEF WorkspaceInv, WorkspaceTyped, RecordOK

(* What the parts of the invariant say. *)
LEMMA WorkspaceFacts ==
  ASSUME WorkspaceInv
  PROVE  /\ TreeOK(tree, dirs) /\ kept \in [Contents -> Int] /\ now \in Nat
         /\ IsFiniteSet(DOMAIN tree)
         /\ \A p \in DOMAIN tree \cup dirs : p \in Path
         /\ \A p \in LiveFiles \cup LiveDirs : p \in Path
         /\ \A p : Get(tree, p) \in Contents \cup {Torn, None}
         /\ \A p \in DOMAIN tree : Get(tree, p) = tree[p] /\ tree[p] \in Contents \cup {Torn}
         /\ \A c \in Contents : c # None /\ kept[c] \in Int
                                /\ Cardinality(Holders(tree, c)) = kept[c]
<1>1. TreeOK(tree, dirs) /\ kept \in [Contents -> Int] /\ now \in 1 .. MaxTime /\ Counted
  BY DEF WorkspaceInv, WorkspaceTyped
<1>2. \A c \in Contents : Cardinality(Holders(tree, c)) = kept[c]
  BY <1>1 DEF Counted
<1>3. \A p \in DOMAIN tree : tree[p] \in Contents \cup {Torn}
  BY <1>1 DEF TreeOK
<1>4. \A p : Get(tree, p) \in Contents \cup {Torn, None}
  BY <1>3 DEF Get
<1>5. \A p \in DOMAIN tree : Get(tree, p) = tree[p]
  BY DEF Get
<1>6. \A c \in Contents : c # None /\ kept[c] \in Int
  BY <1>1, FileOpsAssumption
<1>7. now \in Nat
  BY <1>1, FileOpsAssumption
<1>8. IsFiniteSet(DOMAIN tree) /\ \A p \in DOMAIN tree \cup dirs : p \in Path
  BY <1>1 DEF TreeOK
<1>9. \A p \in LiveFiles \cup LiveDirs : p \in Path
  BY FileOpsAssumption
<1> QED
  BY <1>1, <1>2, <1>3, <1>4, <1>5, <1>6, <1>7, <1>8, <1>9

(* A step's part of the invariant that the files make. *)
WorkspaceGood == WorkspaceTyped /\ Counted

LEMMA WritesKeep ==
  ASSUME WorkspaceInv, NEW p \in Path, NEW c \in Contents, NEW o, NEW rec, Writes(p, c, o, rec)
  PROVE  WorkspaceGood'
<1> DEFINE new == IF o = "torn" THEN Torn ELSE c
<1>1. /\ p \notin dirs /\ Parents(p) \cap DOMAIN tree = {}
      /\ tree' = Holding(tree, p, new) /\ dirs' = dirs \cup Parents(p)
      /\ kept' = Replaced(kept, Get(tree, p), new)
      /\ remote' = remote /\ now' = now
  BY DEF Writes
<1>2. new \in Contents \cup {Torn}
  OBVIOUS
<1> HIDE DEF new
<1>3. TreeOK(tree', dirs')
  <2>1. TreeOK(tree, dirs)
    BY WorkspaceFacts
  <2>2. TreeOK(Holding(tree, p, new), dirs \cup Parents(p))
    BY <1>1, <1>2, <2>1, TreeHolding
  <2> QED
    BY <1>1, <2>2
<1>4. kept' \in [Contents -> Int]
  BY <1>1, WorkspaceFacts, ReplacedIs
<1>5. ASSUME NEW x \in Contents
      PROVE  Cardinality(Holders(tree', x)) = kept'[x]
  <2>1. Cardinality(Holders(tree', x)) = Cardinality(Holders(tree, x)) - Is(Get(tree, p), x) + Is(new, x)
    BY <1>1, WorkspaceFacts, HoldingCount
  <2>2. kept'[x] = kept[x] - Is(Get(tree, p), x) + Is(new, x)
    BY <1>1, WorkspaceFacts, ReplacedIs
  <2>3. Cardinality(Holders(tree, x)) = kept[x]
    BY WorkspaceFacts
  <2> QED
    BY <2>1, <2>2, <2>3
<1>6. remote' \in BOOLEAN /\ now' \in 1 .. MaxTime
  BY <1>1 DEF WorkspaceInv, WorkspaceTyped
<1> QED
  BY <1>3, <1>4, <1>5, <1>6 DEF WorkspaceGood, WorkspaceTyped, Counted

(* A file that goes from one path to another. *)
LEMMA TreeRenamed ==
  ASSUME WorkspaceInv, NEW p \in DOMAIN tree, NEW dst \in Path, dst # p, dst \notin dirs,
         Parents(dst) \cap DOMAIN tree = {}
  PROVE  LET nt == Holding(Cut(tree, p), dst, tree[p])
         IN  /\ TreeOK(nt, dirs \cup Parents(dst))
             /\ \A x \in Contents : Cardinality(Holders(nt, x)) = kept[x] - Is(Get(tree, dst), x)
<1> DEFINE less == Cut(tree, p)
           nt == Holding(less, dst, tree[p])
<1>1. TreeOK(less, dirs)
  BY WorkspaceFacts, TreeCut
<1>2. /\ DOMAIN less = DOMAIN tree \ {p} /\ Get(less, dst) = Get(tree, dst)
      /\ IsFiniteSet(DOMAIN less)
  <2>1. DOMAIN less = DOMAIN tree \ {p}
    BY DEF Cut
  <2>2. Get(less, dst) = Get(tree, dst)
    BY CutGet
  <2> QED
    BY <1>1, <2>1, <2>2 DEF TreeOK
<1>3. ASSUME NEW x \in Contents
      PROVE  Cardinality(Holders(less, x)) = kept[x] - Is(tree[p], x)
  <2>1. Cardinality(Holders(Cut(tree, p), x)) = Cardinality(Holders(tree, x)) - Is(Get(tree, p), x)
    BY WorkspaceFacts, CutCount
  <2> QED
    BY <2>1, WorkspaceFacts
<1> HIDE DEF less
<1>4. TreeOK(nt, dirs \cup Parents(dst))
  <2>1. tree[p] \in Contents \cup {Torn} /\ Parents(dst) \cap DOMAIN less = {}
    BY <1>2, WorkspaceFacts
  <2> QED
    BY <1>1, <2>1, TreeHolding
<1>5. ASSUME NEW x \in Contents
      PROVE  Cardinality(Holders(nt, x)) = kept[x] - Is(Get(tree, dst), x)
  <2>1. Cardinality(Holders(nt, x)) = Cardinality(Holders(less, x)) - Is(Get(less, dst), x) + Is(tree[p], x)
    BY <1>2, WorkspaceFacts, HoldingCount
  <2>2. Is(tree[p], x) \in Int /\ Is(Get(tree, dst), x) \in Int /\ kept[x] \in Int
    BY WorkspaceFacts DEF Is
  <2> QED
    BY <1>2, <1>3, <2>1, <2>2
<1> QED
  BY <1>4, <1>5 DEF less

LEMMA RecordKept == RecordOK /\ record' = record => RecordOK'
  BY DEF RecordOK, SoundRecord

LEMMA RecordForgotten == record' = NoRecord => RecordOK'
  BY DEF RecordOK

LEMMA RecordMade == SoundRecord(record') => RecordOK'
  BY DEF RecordOK, SoundRecord

LEMMA WriteKeeps ==
  ASSUME WorkspaceInv, NEW p \in LiveFiles, NEW c \in Contents, NEW o,
         Create(p, c, o) \/ Extend(p, c, o) \/ Overwrite(p, c, o) \/ StrReplace(p, c, o)
  PROVE  WorkspaceInv'
<1> DEFINE nt == Holding(tree, p, c)
           rec == Record(Snapshot(tree, p), Snapshot(nt, p), nt)
<1>1. p \in Path /\ RecordOK
  BY WorkspaceFacts DEF WorkspaceInv
<1>2. SoundRecord(rec)
  <2>1. Get(nt, p) = c /\ \A q : q # p => Get(nt, q) = Get(tree, q)
    BY HoldingGet
  <2> HIDE DEF nt
  <2> QED
    BY <1>1, <2>1, WorkspaceFacts, WriteRecorded DEF rec
<1>3. CASE Create(p, c, o) \/ Extend(p, c, o)
  <2>1. Writes(p, c, o, NoRecord)
    BY <1>3 DEF Create, Extend
  <2>2. record' = NoRecord \/ record' = record
    BY <2>1 DEF Writes
  <2> QED
    BY <1>1, <2>1, <2>2, WritesKeep, RecordKept, RecordForgotten DEF WorkspaceInv, WorkspaceGood
<1>4. CASE Overwrite(p, c, o) \/ StrReplace(p, c, o)
  <2>1. Writes(p, c, o, rec)
    BY <1>4 DEF Overwrite, StrReplace
  <2> HIDE DEF rec
  <2>2. record' = rec \/ record' = record
    BY <2>1 DEF Writes
  <2>3. RecordOK'
    BY <1>1, <1>2, <2>2, RecordKept, RecordMade
  <2>4. WorkspaceGood'
    BY <1>1, <2>1, WritesKeep
  <2> QED
    BY <2>3, <2>4 DEF WorkspaceInv, WorkspaceGood
<1> QED
  BY <1>3, <1>4

LEMMA OthersWriteKeeps ==
  ASSUME WorkspaceInv, NEW p \in LiveFiles, NEW c \in Contents, OthersWrite(p, c)
  PROVE  WorkspaceInv'
<1>1. p \in Path /\ RecordOK
  BY WorkspaceFacts DEF WorkspaceInv
<1>2. Writes(p, c, "done", record)
  BY DEF OthersWrite
<1>3. record' = record
  BY <1>2 DEF Writes
<1> QED
  BY <1>1, <1>2, <1>3, WritesKeep, RecordKept DEF WorkspaceInv, WorkspaceGood

(* A deletion that is none of the tools', or for good. *)
LEMMA Removed ==
  ASSUME WorkspaceInv, NEW p \in DOMAIN tree, tree' = Cut(tree, p), dirs' = dirs,
         kept' = Count(kept, tree[p], -1), remote' = remote, now' = now
  PROVE  WorkspaceGood'
<1>1. TreeOK(tree', dirs')
  <2>1. TreeOK(tree, dirs)
    BY WorkspaceFacts
  <2>2. TreeOK(Cut(tree, p), dirs)
    BY <2>1, TreeCut
  <2> QED
    BY <2>2
<1>2. kept' \in [Contents -> Int]
  BY WorkspaceFacts, CountIs
<1>3. ASSUME NEW x \in Contents
      PROVE  Cardinality(Holders(tree', x)) = kept'[x]
  <2>1. Cardinality(Holders(tree', x)) = Cardinality(Holders(tree, x)) - Is(Get(tree, p), x)
    BY WorkspaceFacts, CutCount
  <2>2. kept'[x] = kept[x] - Is(tree[p], x)
    BY WorkspaceFacts, CountIs
  <2>3. Cardinality(Holders(tree, x)) = kept[x] /\ Get(tree, p) = tree[p]
    BY WorkspaceFacts
  <2> QED
    BY <2>1, <2>2, <2>3
<1>4. remote' \in BOOLEAN /\ now' \in 1 .. MaxTime
  BY DEF WorkspaceInv, WorkspaceTyped
<1> QED
  BY <1>1, <1>2, <1>3, <1>4 DEF WorkspaceGood, WorkspaceTyped, Counted

LEMMA OthersRemoveKeeps ==
  ASSUME WorkspaceInv, NEW p \in LiveFiles \cap DOMAIN tree, OthersRemove(p)
  PROVE  WorkspaceInv'
<1>1. WorkspaceGood'
  BY Removed DEF OthersRemove
<1>2. RecordOK'
  BY RecordKept DEF OthersRemove, WorkspaceInv
<1> QED
  BY <1>1, <1>2 DEF WorkspaceInv, WorkspaceGood

LEMMA PurgeKeeps ==
  ASSUME WorkspaceInv, NEW p \in DOMAIN tree, NEW o, Purge(p, o)
  PROVE  WorkspaceInv'
<1> DEFINE nt == Cut(tree, p)
           rec == Record(Snapshot(tree, p), Snapshot(nt, p), nt)
<1>1. WorkspaceGood'
  BY Removed DEF Purge
<1>2. SoundRecord(rec)
  <2>1. Get(nt, p) = None /\ \A q : q # p => Get(nt, q) = Get(tree, q)
    BY CutGet
  <2>2. p \in Path
    BY WorkspaceFacts
  <2> HIDE DEF nt
  <2> QED
    BY <2>1, <2>2, WorkspaceFacts, WriteRecorded DEF rec
<1>3. record' = rec \/ record' = record
  BY DEF Purge
<1> HIDE DEF rec
<1>4. RecordOK'
  BY <1>2, <1>3, RecordKept, RecordMade DEF WorkspaceInv
<1> QED
  BY <1>1, <1>4 DEF WorkspaceInv, WorkspaceGood

LEMMA MoveFileKeeps ==
  ASSUME WorkspaceInv, NEW p \in DOMAIN tree, NEW destination \in LiveFiles \cup (LiveDirs \cap dirs),
         NEW o, MoveFile(p, destination, o)
  PROVE  WorkspaceInv'
<1> DEFINE dst == Target(p, destination)
           nt == Holding(Cut(tree, p), dst, tree[p])
           rec == Record(Snapshot(tree, p), Snapshot(nt, dst), nt)
<1>1. /\ dst \notin DOMAIN tree \cup dirs /\ Parents(dst) \cap DOMAIN tree = {}
      /\ tree' = nt /\ dirs' = dirs \cup Parents(dst)
      /\ record' = rec \/ record' = record
      /\ remote' = remote /\ now' = now /\ kept' = kept
  BY DEF MoveFile, Exists
<1>2. p \in Path /\ tree[p] \in Contents \cup {Torn}
  BY WorkspaceFacts
<1>3. dst \in Path
  <2>1. destination \in Path
    BY WorkspaceFacts
  <2>2. Last(p) \in Names \X Nat
    <3>1. p \in Seq(Names \X Nat) /\ Len(p) \in Nat \ {0}
      BY <1>2, PathParents
    <3> QED
      BY <3>1 DEF Last
  <2>3. Append(destination, Last(p)) \in Path
    BY <2>1, <2>2, AppendIsPath DEF Path
  <2> QED
    BY <2>1, <2>3 DEF Target
<1> HIDE DEF dst
<1>4. dst # p
  BY <1>1
<1>5. /\ TreeOK(nt, dirs \cup Parents(dst))
      /\ \A x \in Contents : Cardinality(Holders(nt, x)) = kept[x] - Is(Get(tree, dst), x)
  BY <1>1, <1>3, <1>4, TreeRenamed
<1>6. Get(tree, dst) = None /\ Get(nt, dst) = tree[p]
  BY <1>1, HoldingGet DEF Get
<1>7. SoundRecord(rec)
  <2>1. Snapshot(nt, dst) = [path |-> dst, data |-> tree[p]]
    BY <1>6 DEF Snapshot
  <2>2. SoundRecord(Record(Snapshot(tree, p), [path |-> dst, data |-> tree[p]], nt))
    BY <1>2, <1>3, <1>4, MoveRecorded
  <2> QED
    BY <2>1, <2>2
<1> HIDE DEF rec, nt
<1>8. RecordOK'
  BY <1>1, <1>7, RecordKept, RecordMade DEF WorkspaceInv
<1>9. ASSUME NEW x \in Contents
      PROVE  Cardinality(Holders(tree', x)) = kept'[x]
  <2>1. Is(None, x) = 0 /\ kept[x] \in Int
    BY WorkspaceFacts DEF Is
  <2> QED
    BY <1>1, <1>5, <1>6, <2>1
<1>10. WorkspaceTyped'
  BY <1>1, <1>5 DEF WorkspaceInv, WorkspaceTyped
<1>11. Counted'
  BY <1>9 DEF Counted
<1> QED
  BY <1>8, <1>10, <1>11 DEF WorkspaceInv

LEMMA RecycleKeeps ==
  ASSUME WorkspaceInv, NEW p \in DOMAIN tree, NEW o, Recycle(p, o)
  PROVE  WorkspaceInv'
<1> DEFINE dest == RecyclePath(p)
           nt == Holding(Cut(tree, p), dest, tree[p])
           x == RecordedPath(p)
           rec == Record(Snapshot(tree, p), [path |-> x, data |-> tree[p]], nt)
<1>1. /\ ~ InBin(p) /\ dest \notin dirs /\ Parents(dest) \cap DOMAIN tree = {}
      /\ tree' = nt /\ dirs' = dirs \cup Parents(dest)
      /\ record' = rec \/ record' = record
      /\ kept' = IF dest = Stamped(p) THEN Count(kept, Get(tree, dest), -1) ELSE kept
      /\ remote' = remote /\ now' = now
  BY DEF Recycle
<1>2. p \in Path /\ tree[p] \in Contents \cup {Torn} /\ now \in Nat
  BY WorkspaceFacts
<1>3. /\ <<Bin>> \o p \in Path /\ (<<Bin>> \o p)[1] = Bin
      /\ Stamped(p) \in Path /\ Stamped(p)[1] = Bin /\ p[1] # Bin
  BY <1>1, <1>2, BinPaths DEF InBin
<1>4. /\ dest \in Path /\ dest # p /\ x \in Path /\ x # p
      /\ dest = <<Bin>> \o p \/ dest = Stamped(p)
  BY <1>3 DEF RecyclePath, RecordedPath
<1>5. x = dest \/ x \notin {p, dest}
  BY <1>4
<1>6. kept' = Count(kept, Get(tree, dest), -1)
  <2>1. CASE dest # Stamped(p)
    <3>1. dest \notin DOMAIN tree
      BY <2>1 DEF RecyclePath, Exists
    <3>2. Get(tree, dest) = None /\ None \notin Contents
      BY <3>1, NoneIsNoText DEF Get
    <3> QED
      BY <1>1, <2>1, <3>2 DEF Count
  <2>2. CASE dest = Stamped(p)
    BY <1>1, <2>2
  <2> QED
    BY <2>1, <2>2
<1> HIDE DEF dest, x
<1>7. /\ TreeOK(nt, dirs \cup Parents(dest))
      /\ \A c \in Contents : Cardinality(Holders(nt, c)) = kept[c] - Is(Get(tree, dest), c)
  BY <1>1, <1>4, TreeRenamed
<1>8. SoundRecord(rec)
  BY <1>2, <1>4, <1>5, MoveRecorded
<1> HIDE DEF rec, nt
<1>9. RecordOK'
  BY <1>1, <1>8, RecordKept, RecordMade DEF WorkspaceInv
<1>10. /\ kept' \in [Contents -> Int]
       /\ \A c \in Contents : kept'[c] = kept[c] - Is(Get(tree, dest), c)
  BY <1>6, WorkspaceFacts, CountIs
<1>11. WorkspaceTyped'
  BY <1>1, <1>7, <1>10 DEF WorkspaceInv, WorkspaceTyped
<1>12. Counted'
  BY <1>1, <1>7, <1>10 DEF Counted
<1> QED
  BY <1>9, <1>11, <1>12 DEF WorkspaceInv

(* What an undo that is not refused finds. *)
LEMMA NotRefused ==
  ASSUME WorkspaceInv, record # NoRecord, ~ Refused
  PROVE  /\ SoundRecord(record)
         /\ record.after.path \notin dirs /\ record.before.path \notin dirs
         /\ Get(tree, record.after.path) = record.after.data
         /\ record.before.path # record.after.path => Get(tree, record.before.path) = None
<1>1. SoundRecord(record)
  BY DEF WorkspaceInv, RecordOK
<1>2. /\ record.after.path \notin dirs /\ Get(tree, record.after.path) = record.after.data
      /\ record.before.path # record.after.path =>
           record.before.path \notin DOMAIN tree \cup dirs
  BY DEF Refused, Exists
<1> QED
  BY <1>1, <1>2 DEF Get

(* The first half of an undo. *)
LEMMA LeftIsRemoved ==
  ASSUME WorkspaceInv, record # NoRecord, ~ Refused
  PROVE  LET b == record.before
             a == record.after
         IN  /\ TreeOK(LeftRemoved, dirs) /\ IsFiniteSet(DOMAIN LeftRemoved)
             /\ DOMAIN LeftRemoved \subseteq DOMAIN tree
             /\ LeftRemoved # tree =>
                  \A c \in Contents : Cardinality(Holders(LeftRemoved, c)) = kept[c] - Is(a.data, c)
             /\ \A c \in Contents :
                  Cardinality(Holders(LeftRemoved, c)) - Is(Get(LeftRemoved, b.path), c)
                    = kept[c] - Is(a.data, c)
<1> DEFINE b == record.before
           a == record.after
           L == LeftRemoved
           removes == a.data # None /\ (a.path # b.path \/ b.data = None)
<1>1. /\ SoundRecord(record) /\ Get(tree, a.path) = a.data
      /\ b.path # a.path => Get(tree, b.path) = None
  BY NotRefused
<1>2. L = IF removes THEN Cut(tree, a.path) ELSE tree
  BY DEF LeftRemoved
<1>3. a.path # b.path => a.data # None
  BY <1>1 DEF SoundRecord
<1> HIDE DEF L, a, b
<1>4. CASE removes
  <2>1. L = Cut(tree, a.path)
    BY <1>2, <1>4
  <2>2. TreeOK(L, dirs)
    BY <2>1, WorkspaceFacts, TreeCut
  <2>3. DOMAIN L \subseteq DOMAIN tree
    BY <2>1 DEF Cut
  <2>4. ASSUME NEW c \in Contents
        PROVE  /\ Cardinality(Holders(L, c)) = kept[c] - Is(a.data, c)
               /\ Is(Get(L, b.path), c) = 0
    <3>1. Cardinality(Holders(L, c)) = Cardinality(Holders(tree, c)) - Is(Get(tree, a.path), c)
      BY <2>1, WorkspaceFacts, CutCount
    <3>2. Cardinality(Holders(tree, c)) = kept[c]
      BY WorkspaceFacts
    <3>3. Get(L, b.path) = None
      BY <1>1, <2>1, CutGet
    <3>4. Is(None, c) = 0
      BY WorkspaceFacts DEF Is
    <3> QED
      BY <1>1, <3>1, <3>2, <3>3, <3>4
  <2>5. ASSUME NEW c \in Contents
        PROVE  Cardinality(Holders(L, c)) - Is(Get(L, b.path), c) = kept[c] - Is(a.data, c)
    <3>1. kept[c] \in Int /\ Is(a.data, c) \in Int
      BY WorkspaceFacts DEF Is
    <3> QED
      BY <2>4, <3>1
  <2> QED
    BY <2>2, <2>3, <2>4, <2>5 DEF TreeOK, L, a, b
<1>5. CASE ~ removes
  <2>2. L = tree /\ a.path = b.path
    BY <1>2, <1>3, <1>5
  <2>3. \A c \in Contents : Cardinality(Holders(L, c)) = kept[c] /\ Get(L, b.path) = a.data
    BY <1>1, <2>2, WorkspaceFacts
  <2>4. TreeOK(L, dirs)
    BY <2>2, WorkspaceFacts
  <2> QED
    BY <2>2, <2>3, <2>4 DEF TreeOK, L, a, b
<1> QED
  BY <1>4, <1>5

LEMMA UndoHalfwayKeeps ==
  ASSUME WorkspaceInv, UndoHalfway
  PROVE  WorkspaceInv'
<1> DEFINE x == record.after.data
<1>1. /\ record # NoRecord /\ ~ Refused /\ LeftRemoved # tree
      /\ tree' = LeftRemoved /\ kept' = Count(kept, x, -1)
      /\ remote' = remote /\ now' = now /\ dirs' = dirs /\ record' = record
  BY DEF UndoHalfway
<1>2. /\ TreeOK(LeftRemoved, dirs)
      /\ \A c \in Contents : Cardinality(Holders(LeftRemoved, c)) = kept[c] - Is(x, c)
  BY <1>1, LeftIsRemoved
<1> HIDE DEF x
<1>3. /\ kept' \in [Contents -> Int] /\ \A c \in Contents : kept'[c] = kept[c] - Is(x, c)
  BY <1>1, WorkspaceFacts, CountIs
<1>4. WorkspaceTyped'
  BY <1>1, <1>2, <1>3 DEF WorkspaceInv, WorkspaceTyped
<1>5. Counted'
  BY <1>1, <1>2, <1>3 DEF Counted
<1> QED
  BY <1>1, <1>4, <1>5, RecordKept DEF WorkspaceInv

LEMMA UndoKeeps ==
  ASSUME WorkspaceInv, NEW o, Undo(o)
  PROVE  WorkspaceInv'
<1> DEFINE b == record.before
           a == record.after
           found == IF o = "torn" /\ b.data # None THEN Torn ELSE b.data
           L == LeftRemoved
<1>1. /\ record # NoRecord /\ ~ Refused
      /\ found # None => Parents(b.path) \cap DOMAIN tree = {}
      /\ tree' = FoundRestored(L, found)
      /\ dirs' = IF found # None THEN dirs \cup Parents(b.path) ELSE dirs
      /\ kept' = IF a.path = b.path THEN Replaced(kept, a.data, found)
                 ELSE IF found = Torn THEN Count(kept, a.data, -1) ELSE kept
      /\ remote' = remote /\ now' = now
      /\ record' = NoRecord \/ record' = record
  BY DEF Undo
<1>2. /\ SoundRecord(record) /\ b.path \notin dirs
      /\ TreeOK(L, dirs) /\ IsFiniteSet(DOMAIN L) /\ DOMAIN L \subseteq DOMAIN tree
      /\ \A c \in Contents :
           Cardinality(Holders(L, c)) - Is(Get(L, b.path), c) = kept[c] - Is(a.data, c)
  BY <1>1, NotRefused, LeftIsRemoved
<1>3. /\ b.path \in Path /\ b.data \in Contents \cup {Torn, None}
      /\ a.path # b.path => a.data = b.data /\ a.data # None
  BY <1>2 DEF SoundRecord
<1>4. /\ found \in Contents \cup {Torn, None}
      /\ b.data # None => found \in {b.data, Torn}
  BY <1>3
<1>5. tree' = IF found = None THEN Cut(L, b.path) ELSE Holding(L, b.path, found)
  BY <1>1 DEF FoundRestored
<1> HIDE DEF found, L, a, b
<1>6. TreeOK(tree', dirs')
  <2>1. CASE found = None
    <3>1. TreeOK(Cut(L, b.path), dirs)
      BY <1>2, TreeCut
    <3> QED
      BY <1>1, <1>5, <2>1, <3>1
  <2>2. CASE found # None
    <3>1. found \in Contents \cup {Torn} /\ Parents(b.path) \cap DOMAIN L = {}
      BY <1>1, <1>2, <1>4, <2>2
    <3>2. TreeOK(Holding(L, b.path, found), dirs \cup Parents(b.path))
      BY <1>2, <1>3, <3>1, TreeHolding
    <3> QED
      BY <1>1, <1>5, <2>2, <3>2
  <2> QED
    BY <2>1, <2>2
<1>7. ASSUME NEW c \in Contents
      PROVE  Cardinality(Holders(tree', c)) = kept[c] - Is(a.data, c) + Is(found, c)
  <2>0. c # None /\ kept[c] \in Int /\ Is(a.data, c) \in Int
    BY WorkspaceFacts DEF Is
  <2>1. CASE found = None
    <3>1. Cardinality(Holders(Cut(L, b.path), c)) = Cardinality(Holders(L, c)) - Is(Get(L, b.path), c)
      BY <1>2, <2>0, CutCount
    <3>2. Is(found, c) = 0
      BY <2>0, <2>1 DEF Is
    <3> QED
      BY <1>2, <1>5, <2>0, <2>1, <3>1, <3>2
  <2>2. CASE found # None
    <3>1. Cardinality(Holders(Holding(L, b.path, found), c)) =
            Cardinality(Holders(L, c)) - Is(Get(L, b.path), c) + Is(found, c)
      BY <1>2, <2>0, HoldingCount
    <3> QED
      BY <1>2, <1>5, <2>0, <2>2, <3>1
  <2> QED
    BY <2>1, <2>2
<1>8. /\ kept' \in [Contents -> Int]
      /\ \A c \in Contents : kept'[c] = kept[c] - Is(a.data, c) + Is(found, c)
  <2>0. kept \in [Contents -> Int]
    BY WorkspaceFacts
  <2>1. CASE a.path = b.path
    BY <1>1, <2>0, <2>1, ReplacedIs
  <2>2. CASE a.path # b.path /\ found = Torn
    <3>1. \A c \in Contents : Is(found, c) = 0 /\ kept[c] \in Int /\ Is(a.data, c) \in Int
      BY <2>0, <2>2, NoneIsNoText DEF Is
    <3>2. /\ Count(kept, a.data, -1) \in [Contents -> Int]
          /\ \A c \in Contents : Count(kept, a.data, -1)[c] = kept[c] - Is(a.data, c)
      BY <2>0, CountIs
    <3> QED
      BY <1>1, <2>2, <3>1, <3>2
  <2>3. CASE a.path # b.path /\ found # Torn
    <3>1. found = a.data /\ kept' = kept
      BY <1>1, <1>3, <1>4, <2>3
    <3>2. \A c \in Contents : kept[c] \in Int /\ Is(a.data, c) \in Int
      BY <2>0 DEF Is
    <3> QED
      BY <2>0, <3>1, <3>2
  <2> QED
    BY <2>1, <2>2, <2>3
<1>9. WorkspaceTyped'
  BY <1>1, <1>6, <1>8 DEF WorkspaceInv, WorkspaceTyped
<1>10. Counted'
  BY <1>7, <1>8 DEF Counted
<1>11. RecordOK'
  BY <1>1, RecordKept, RecordForgotten DEF WorkspaceInv
<1> QED
  BY <1>9, <1>10, <1>11 DEF WorkspaceInv

(* The directories. *)
LEMMA MakeDirKeeps ==
  ASSUME WorkspaceInv, NEW d \in LiveDirs, MakeDir(d)
  PROVE  WorkspaceInv'
<1>1. /\ d \notin DOMAIN tree /\ Parents(d) \cap DOMAIN tree = {}
      /\ dirs' = dirs \cup {d} \cup Parents(d)
      /\ remote' = remote /\ now' = now /\ tree' = tree /\ record' = record /\ kept' = kept
  BY DEF MakeDir, Exists
<1>2. TreeOK(tree, dirs \cup {d} \cup Parents(d))
  <2>1. TreeOK(tree, dirs) /\ d \in Path
    BY WorkspaceFacts
  <2> QED
    BY <1>1, <2>1, TreeMake
<1>3. WorkspaceTyped'
  BY <1>1, <1>2 DEF WorkspaceInv, WorkspaceTyped
<1>4. Counted'
  BY <1>1 DEF WorkspaceInv, Counted
<1> QED
  BY <1>1, <1>3, <1>4, RecordKept DEF WorkspaceInv

LEMMA MovesDirKeeps ==
  ASSUME WorkspaceInv, NEW src, NEW dst \in Path, MovesDir(src, dst)
  PROVE  WorkspaceInv'
<1> DEFINE into == IF dst \in dirs THEN Append(dst, Last(src)) ELSE dst
           nds == {Moved(q, src, into) : q \in dirs} \cup Parents(into)
<1>1. /\ src \in dirs /\ into \notin DOMAIN tree \cup dirs
      /\ Parents(into) \cap DOMAIN tree = {}
      /\ tree' = MovedTree(tree, src, into) /\ dirs' = nds
      /\ remote' = remote /\ now' = now /\ record' = record /\ kept' = kept
  BY DEF MovesDir, Exists
<1>2. src \in Path
  BY <1>1, WorkspaceFacts
<1>3. into \in Path
  <2>1. src \in Seq(Names \X Nat) /\ Len(src) \in Nat \ {0}
    BY <1>2, PathParents
  <2>2. Last(src) \in Names \X Nat
    BY <2>1 DEF Last
  <2>3. Append(dst, Last(src)) \in Path
    BY <2>2, AppendIsPath DEF Path
  <2> QED
    BY <2>3
<1> HIDE DEF into
<1>4. TreeOK(tree, dirs)
  BY WorkspaceFacts
<1>5. TreeOK(tree', dirs')
  <2>1. TreeOK(MovedTree(tree, src, into), nds)
    BY <1>1, <1>2, <1>3, <1>4, TreeMoved
  <2> QED
    BY <1>1, <2>1
<1>6. ASSUME NEW c \in Contents
      PROVE  Cardinality(Holders(tree', c)) = kept'[c]
  <2>1. Cardinality(Holders(MovedTree(tree, src, into), c)) = Cardinality(Holders(tree, c))
    BY <1>1, <1>2, <1>3, <1>4, MovedCount
  <2>2. Cardinality(Holders(tree, c)) = kept[c]
    BY WorkspaceFacts
  <2> QED
    BY <1>1, <2>1, <2>2
<1>7. WorkspaceTyped'
  BY <1>1, <1>5 DEF WorkspaceInv, WorkspaceTyped
<1>8. Counted'
  BY <1>6 DEF Counted
<1> QED
  BY <1>1, <1>7, <1>8, RecordKept DEF WorkspaceInv

LEMMA RenameDirKeeps ==
  ASSUME WorkspaceInv, NEW d \in LiveDirs, NEW e \in LiveDirs, RenameDir(d, e)
  PROVE  WorkspaceInv'
<1>1. e \in Path
  BY WorkspaceFacts
<1> QED
  BY <1>1, MovesDirKeeps DEF RenameDir

LEMMA RecycleDirKeeps ==
  ASSUME WorkspaceInv, NEW d \in LiveDirs, RecycleDir(d)
  PROVE  WorkspaceInv'
<1> DEFINE dst == IF ~remote /\ Exists(<<Bin>> \o d) THEN Stamped(d) ELSE <<Bin>> \o d
<1>1. d \in Path /\ now \in Nat
  BY WorkspaceFacts
<1>2. dst \in Path
  BY <1>1, BinPaths
<1>3. MovesDir(d, dst)
  BY DEF RecycleDir
<1> HIDE DEF dst
<1> QED
  BY <1>2, <1>3, MovesDirKeeps

LEMMA PurgeDirKeeps ==
  ASSUME WorkspaceInv, NEW d \in dirs, PurgeDir(d)
  PROVE  WorkspaceInv'
<1> DEFINE under == {q \in DOMAIN tree : IsPrefix(d, q)}
           nt == [q \in DOMAIN tree \ under |-> tree[q]]
           nds == {q \in dirs : ~ IsPrefix(d, q)}
           lost(c) == {q \in under : tree[q] = c}
<1>1. /\ tree' = nt /\ dirs' = nds
      /\ kept' = [c \in Contents |-> kept[c] - Cardinality(lost(c))]
      /\ remote' = remote /\ now' = now /\ record' = record
  BY DEF PurgeDir
<1>2. TreeOK(tree, dirs) /\ d \in Path
  BY WorkspaceFacts
<1>3. TreeOK(nt, nds)
  BY <1>2, TreePurge
<1>4. ASSUME NEW c \in Contents
      PROVE  /\ Cardinality(lost(c)) \in Nat
             /\ Cardinality(Holders(nt, c)) = kept[c] - Cardinality(lost(c))
  <2> DEFINE H == Holders(tree, c)
  <2>1. IsFiniteSet(H) /\ Cardinality(H) = kept[c]
    <3>1. H \subseteq DOMAIN tree
      BY DEF Holders
    <3> QED
      BY <3>1, WorkspaceFacts, FS_Subset
  <2>2. Holders(nt, c) = H \ lost(c) /\ H \cap lost(c) = lost(c)
    BY DEF Holders
  <2>3. Cardinality(H \ lost(c)) = Cardinality(H) - Cardinality(H \cap lost(c))
    BY <2>1, FS_Difference
  <2>4. IsFiniteSet(lost(c))
    <3>1. lost(c) \subseteq DOMAIN tree
      OBVIOUS
    <3> QED
      BY <3>1, WorkspaceFacts, FS_Subset
  <2> QED
    BY <2>1, <2>2, <2>3, <2>4, FS_CardinalityType
<1> HIDE DEF lost, nt, nds
<1>5. \A c \in Contents : kept'[c] = kept[c] - Cardinality(lost(c)) /\ kept[c] \in Int
  BY <1>1, WorkspaceFacts
<1>6. kept' \in [Contents -> Int]
  BY <1>1, <1>4, WorkspaceFacts
<1>7. WorkspaceTyped'
  BY <1>1, <1>3, <1>6 DEF WorkspaceInv, WorkspaceTyped
<1>8. Counted'
  BY <1>1, <1>4, <1>5 DEF Counted
<1> QED
  BY <1>1, <1>7, <1>8, RecordKept DEF WorkspaceInv

LEMMA WorkspaceStep == WorkspaceInv /\ [Next]_vars => WorkspaceInv'
<1> SUFFICES ASSUME WorkspaceInv, [Next]_vars PROVE WorkspaceInv'
  OBVIOUS
<1>1. CASE WriteTools
  BY <1>1, WriteKeeps DEF WriteTools
<1>2. CASE FileTools
  BY <1>2, RecycleKeeps, PurgeKeeps, MoveFileKeeps DEF FileTools
<1>3. CASE DirTools
  BY <1>3, MakeDirKeeps, RenameDirKeeps, RecycleDirKeeps, PurgeDirKeeps DEF DirTools
<1>4. CASE Others
  BY <1>4, OthersWriteKeeps, OthersRemoveKeeps DEF Others
<1>5. CASE Restart
  <2>1. WorkspaceTyped' /\ Counted'
    BY <1>5 DEF Restart, WorkspaceInv, WorkspaceTyped, Counted
  <2>2. RecordOK'
    BY <1>5, RecordForgotten DEF Restart
  <2> QED
    BY <2>1, <2>2 DEF WorkspaceInv
<1>6. CASE Second
  <2>1. now' \in 1 .. MaxTime
    BY <1>6, FileOpsAssumption DEF Second, WorkspaceInv, WorkspaceTyped
  <2>2. WorkspaceTyped' /\ Counted'
    BY <1>6, <2>1 DEF Second, WorkspaceInv, WorkspaceTyped, Counted
  <2>3. RecordOK'
    BY <1>6, RecordKept DEF Second, WorkspaceInv
  <2> QED
    BY <2>2, <2>3 DEF WorkspaceInv
<1>7. CASE \E o \in Outcomes : Undo(o)
  BY <1>7, UndoKeeps
<1>8. CASE UndoHalfway
  BY <1>8, UndoHalfwayKeeps
<1>9. CASE UNCHANGED vars
  <2>1. WorkspaceTyped' /\ Counted'
    BY <1>9 DEF vars, WorkspaceInv, WorkspaceTyped, Counted
  <2>2. RecordOK'
    BY <1>9, RecordKept DEF vars, WorkspaceInv
  <2> QED
    BY <2>1, <2>2 DEF WorkspaceInv
<1> QED
  BY <1>1, <1>2, <1>3, <1>4, <1>5, <1>6, <1>7, <1>8, <1>9 DEF Next

-----------------------------------------------------------------------------
(* What the runs check, for every workspace. *)

LEMMA WorkspaceInvariant == Spec => []WorkspaceInv
<1>1. Init => WorkspaceInv
  BY WorkspaceStart
<1>2. WorkspaceInv /\ [Next]_vars => WorkspaceInv'
  BY WorkspaceStep
<1> QED
  BY <1>1, <1>2, PTL DEF Spec

(* Whatever the tools, the other programs, lost answers, torn writes and      *)
(* halved undos do, each text is on disk as often as they account for:        *)
(* delete, move, undo and the directory operations lose none and double none. *)
THEOREM TextsConserved == Spec => []Conserved
<1>1. WorkspaceInv => Conserved
  <2> SUFFICES ASSUME WorkspaceInv PROVE Conserved
    OBVIOUS
  <2>1. TypeOK
    BY DEF WorkspaceInv, WorkspaceTyped, TreeOK, TypeOK
  <2>2. \A c \in Contents : Cardinality({p \in DOMAIN tree : tree[p] = c}) = kept[c]
    BY DEF WorkspaceInv, Counted, Holders
  <2> QED
    BY <2>1, <2>2 DEF Conserved
<1> QED
  BY <1>1, WorkspaceInvariant, PTL

(* As long as nothing came between, the undo of the last operation is never  *)
(* refused.                                                                  *)
THEOREM UndoIsAccepted == Spec => []UndoAccepted
<1>1. WorkspaceInv => UndoAccepted
  <2> SUFFICES ASSUME WorkspaceInv, record # NoRecord, ~ Misnamed,
                      \A p \in DOMAIN record.left : Get(tree, p) = record.left[p] /\ p \notin dirs
               PROVE  ~ Refused
    BY DEF UndoAccepted
  <2> DEFINE b == record.before
             a == record.after
  <2>1. SoundRecord(record)
    BY DEF WorkspaceInv, RecordOK
  <2>2. /\ b.path \in DOMAIN record.left /\ a.path \in DOMAIN record.left
        /\ record.left[a.path] = a.data
        /\ a.path # b.path => record.left[b.path] = None
    BY <2>1 DEF SoundRecord, Misnamed
  <2>3. a.path \notin dirs /\ Get(tree, a.path) = a.data
    BY <2>2
  <2>4. a.path # b.path => Get(tree, b.path) = None /\ b.path \notin dirs
    BY <2>2
  <2>5. a.path # b.path => b.path \notin DOMAIN tree \cup dirs
    BY <2>4, WorkspaceFacts, NoneIsNoText
  <2> QED
    BY <2>3, <2>5 DEF Refused, Exists
<1> QED
  BY <1>1, WorkspaceInvariant, PTL

(* An undo that reports success overwrites nothing that is newer, puts back  *)
(* all that the operation touched, and touches nothing else.                 *)
THEOREM UndoAlwaysRestores == Spec => UndoRestores
<1> DEFINE Restores ==
      Undo("done") /\ ~Misnamed /\ ~Clobbered =>
          \A p \in DOMAIN tree \cup DOMAIN tree' \cup DOMAIN record.was :
             IF p \in DOMAIN record.was
             THEN Get(tree, p) = record.left[p] /\ Get(tree', p) = record.was[p]
             ELSE Get(tree', p) = Get(tree, p)
<1>1. WorkspaceInv => Restores
  <2> DEFINE b == record.before
             a == record.after
  <2> SUFFICES ASSUME WorkspaceInv, Undo("done"), ~ Misnamed, ~ Clobbered, NEW p
               PROVE  IF p \in DOMAIN record.was
                      THEN Get(tree, p) = record.left[p] /\ Get(tree', p) = record.was[p]
                      ELSE Get(tree', p) = Get(tree, p)
    OBVIOUS
  <2>1. record # NoRecord /\ ~ Refused /\ tree' = FoundRestored(LeftRemoved, b.data)
    BY DEF Undo
  <2>2. /\ SoundRecord(record) /\ Get(tree, a.path) = a.data
        /\ b.path # a.path => Get(tree, b.path) = None
    BY <2>1, NotRefused
  <2>3. /\ DOMAIN record.was = {b.path, a.path} /\ record.left[a.path] = a.data
        /\ record.was[b.path] = b.data
        /\ a.path # b.path => /\ record.left[b.path] = None /\ record.was[a.path] = None
                              /\ a.data # None
    BY <2>2 DEF SoundRecord, Misnamed, Clobbered
  <2>4. \A q : Get(tree', q) = IF q = b.path THEN b.data ELSE Get(LeftRemoved, q)
    BY <2>1, CutGet, HoldingGet DEF FoundRestored
  <2>5. \A q : q # b.path => Get(LeftRemoved, q) = IF q = a.path THEN None ELSE Get(tree, q)
    BY <2>3, CutGet DEF LeftRemoved
  <2> HIDE DEF a, b
  <2>6. CASE p = b.path
    BY <2>2, <2>3, <2>4, <2>6
  <2>7. CASE p = a.path /\ p # b.path
    BY <2>2, <2>3, <2>4, <2>5, <2>7
  <2>8. CASE p \notin {a.path, b.path}
    BY <2>3, <2>4, <2>5, <2>8
  <2> QED
    BY <2>6, <2>7, <2>8
<1>2. WorkspaceInv /\ [Next]_vars => [Restores]_vars
  BY <1>1
<1> QED
  BY <1>2, WorkspaceInvariant, PTL DEF Spec, UndoRestores

=============================================================================
