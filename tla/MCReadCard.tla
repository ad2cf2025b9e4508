----------------------------- MODULE MCReadCard -----------------------------
(***************************************************************************)
(* Instances of ReadCard for TLC.                                          *)
(***************************************************************************)
EXTENDS ReadCard

\* Nothing fails, one of board, card, network and servers fails, all may.
AllWorlds == {{}, FaultKinds} \cup {{k} : k \in FaultKinds}
=============================================================================
