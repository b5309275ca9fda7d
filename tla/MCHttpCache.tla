---------------------------- MODULE MCHttpCache ----------------------------
(***************************************************************************)
(* Instances of HttpCache for TLC.                                         *)
(***************************************************************************)
EXTENDS HttpCache

AllWorlds == World
=============================================================================
