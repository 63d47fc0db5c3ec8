---------------------------- MODULE MCT81Replay ----------------------------
(***************************************************************************)
(* The instance of replays for TLC: the host programs, reloads and writes   *)
(* of MCT81Vm are the history of the first VM and the calls of the replay.  *)
(***************************************************************************)
EXTENDS MCT81Vm, T81Replay

=============================================================================
