------------------------------- MODULE Memory -------------------------------
(***************************************************************************)
(* What conversation compression promises: messages are heard in order and *)
(* kept raw; from time to time some of the raw messages are condensed into *)
(* the gist (the running summary).  Nothing heard is ever forgotten, and   *)
(* the gist never loses what it already accounts for.                      *)
(***************************************************************************)
EXTENDS Integers

VARIABLES
  said,   \* how many messages the thread has heard; they are 1..said
  raw,    \* those still held word for word
  gist    \* those the summary accounts for

memoryVars == <<said, raw, gist>>

MemoryInit == said = 0 /\ raw = {} /\ gist = {}

Hear ==
  /\ said' \in Nat
  /\ said' > said
  /\ raw' = raw \cup (said + 1)..said'
  /\ UNCHANGED gist

(* Several messages may be condensed at once, and the summary may also be  *)
(* told of messages that stay raw.                                         *)
Condense ==
  /\ raw' \subseteq raw
  /\ gist \subseteq gist'
  /\ gist' \subseteq gist \cup raw
  /\ raw \ raw' \subseteq gist'
  /\ UNCHANGED said

MemoryNext == Hear \/ Condense
MemorySpec == MemoryInit /\ [][MemoryNext]_memoryVars

(* Every message ever heard is still raw or accounted for by the gist. *)
Recalled == raw \cup gist = 1..said
=============================================================================
