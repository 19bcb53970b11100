---------------------------- MODULE MCChatTurns ----------------------------
(***************************************************************************)
(* Small instances of ChatTurns for TLC.                                   *)
(***************************************************************************)
EXTENDS ChatTurns, TLC

Symmetric == Permutations(Workers) \cup Permutations(Requests) \cup Permutations(Sessions)
                 \cup Permutations(Refs)
============================================================================
