---------------------------- MODULE MCCompression ----------------------------
(***************************************************************************)
(* Compression on small instances.                                         *)
(***************************************************************************)
EXTENDS Compression

(* Bound: what the user says is never empty. *)
UserSpeaks == \A i \in DOMAIN log : log[i].kind = "human" => log[i].size = 1
=============================================================================
